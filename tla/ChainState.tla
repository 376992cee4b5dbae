----------------------------- MODULE ChainState -----------------------------
(***************************************************************************)
(* The block index and the active chain of the legacy node                 *)
(* (src/validation.cpp): headers and blocks are accepted, the best chain   *)
(* is activated in steps between which cs_main is released, an operator    *)
(* invalidates, reconsiders or prefers blocks, the index and the coins     *)
(* are written to disk one after the other, and the node may crash at any  *)
(* point and load its state again.                                         *)
(*                                                                         *)
(* The tree of blocks that can ever arrive is fixed by the constants.      *)
(* What a block contains is reduced to the verdicts of the two groups of   *)
(* checks on it (BadBlocks, BadConnect).  The mempool, notifications,      *)
(* pruning, reindexing and failing writes are left out; so are             *)
(* pindexBestHeader and pindexBestInvalid, which feed only the download    *)
(* and the warnings.  HAVE_DATA and nTx > 0 coincide without pruning.      *)
(***************************************************************************)
EXTENDS Integers, FiniteSets, FiniteSetsExt

CONSTANTS
  Blocks, Genesis,
  Parent,            \* pprev of every block but Genesis
  Anc,               \* every block with its ancestors
  ChainWork,         \* nChainWork of every block
  Address,           \* order of the CBlockIndex pointers, the last tie-break
  BadBlocks,         \* blocks that fail ContextualCheckBlock
  BadConnect,        \* blocks that fail ConnectBlock
  MinBlocksToKeep,   \* MIN_BLOCKS_TO_KEEP
  BlocksPerFile,     \* blocks that fit into MAX_BLOCKFILE_SIZE
  Threads,
  Budgets,           \* bounds: records [commands, crashes, flushes, corruptions]
  NoBlock, NoThread

\* GetBlockProof is positive, so work grows along every branch.
ASSUME TreeAssumption ==
  /\ Genesis \in Blocks /\ IsFiniteSet(Blocks) /\ NoBlock \notin Blocks
  /\ Parent \in [Blocks \ {Genesis} -> Blocks]
  /\ Anc \in [Blocks -> SUBSET Blocks] /\ Anc[Genesis] = {Genesis}
  /\ ChainWork \in [Blocks -> Nat]
  /\ \A b \in Blocks \ {Genesis} :
       /\ Anc[b] = {b} \cup Anc[Parent[b]] /\ b \notin Anc[Parent[b]]
       /\ ChainWork[b] > ChainWork[Parent[b]]
  /\ NoThread \notin Threads

\* Two entries of the index have two addresses.
ASSUME OrderAssumption ==
  /\ Address \in [Blocks -> Int] /\ \A a, b \in Blocks : Address[a] = Address[b] => a = b
  /\ BlocksPerFile \in Nat
  /\ Budgets \subseteq [commands : Nat, crashes : Nat, flushes : Nat, corruptions : Nat]

Height(b) == Cardinality(Anc[b]) - 1

\* The validity levels of nStatus (chain.h).
VALID_TREE == 2
VALID_TRANSACTIONS == 3
VALID_SCRIPTS == 5

VARIABLES
  mapBlockIndex,            \* known block -> entry, see Entry
  setBlockIndexCandidates, mapBlocksUnlinked, setDirtyBlockIndex,
  nBlockSequenceId, nBlockReverseSequenceId, nLastPreciousChainwork,
  tip,                      \* chainActive.Tip()
  coinsTip,                 \* pcoinsTip->GetBestBlock()
  stateRoot,                \* block whose roots globalState has
  diskIndex,                \* the block index database
  diskCoins,                \* the coins database: the blocks its entries are the state after
  bestBlock, headBlocks,    \* its DB_BEST_BLOCK (or NoBlock) and DB_HEAD_BLOCKS
  blkSynced, revSynced,     \* blocks whose data, undo data reached the disk
  revLost,                  \* blocks whose undo data a crash has lost
  cs_main, pc,
  pindexMostWork,           \* local of ActivateBestChain, per thread
  pindexOldTip, pindexFailed,  \* locals of the holder of cs_main
  budget,
  incidents                 \* auxiliary: whether a reconsiderblock was given, and whether
                            \* a start has found its tip marked as failed

indexVars == <<mapBlockIndex, setBlockIndexCandidates, mapBlocksUnlinked, setDirtyBlockIndex>>
seqVars == <<nBlockSequenceId, nBlockReverseSequenceId, nLastPreciousChainwork>>
chainVars == <<tip, coinsTip, stateRoot>>
coinsVars == <<diskCoins, bestBlock, headBlocks>>
diskVars == <<diskIndex, coinsVars, blkSynced, revSynced, revLost>>
threadVars == <<cs_main, pc, pindexMostWork, pindexOldTip, pindexFailed>>
vars == <<indexVars, seqVars, chainVars, diskVars, threadVars, budget, incidents>>

Unlocked == {"idle", "find", "periodic"}
Locked == {"step", "invalidate", "flush", "flushPeriodic", "replay"}

Entry ==
  [level : {VALID_TREE, VALID_TRANSACTIONS, VALID_SCRIPTS},
   failed : SUBSET {"VALID", "CHILD"}, data : BOOLEAN, undo : BOOLEAN,
   chainTx : BOOLEAN, seq : Int, nFile : Nat]

NewEntry ==
  [level |-> VALID_TREE, failed |-> {}, data |-> FALSE, undo |-> FALSE,
   chainTx |-> FALSE, seq |-> 0, nFile |-> 0]

Known == DOMAIN mapBlockIndex

IsValid(e, nUpTo) == e.failed = {} /\ e.level >= nUpTo

RaiseValidity(e, nUpTo) ==
  IF e.failed = {} /\ e.level < nUpTo THEN [e EXCEPT !.level = nUpTo] ELSE e

\* CBlockIndexWorkComparator: a sorts before, and so is worse than, b.
Worse(ix, a, b) ==
  \/ ChainWork[a] < ChainWork[b]
  \/ /\ ChainWork[a] = ChainWork[b]
     /\ \/ ix[a].seq > ix[b].seq
        \/ ix[a].seq = ix[b].seq /\ Address[a] > Address[b]

Contains(b) == b \in Anc[tip]

\* PruneBlockIndexCandidates, for a tip and an index.
Prune(cands, ix, newTip) == {c \in cands : ~ Worse(ix, c, newTip)}

TypeOK ==
  /\ Known \subseteq Blocks /\ \A b \in Known : mapBlockIndex[b] \in Entry
  /\ setBlockIndexCandidates \subseteq Known /\ setDirtyBlockIndex \subseteq Known
  /\ mapBlocksUnlinked \subseteq Known \X Known
  /\ nBlockSequenceId \in Nat /\ nBlockReverseSequenceId \in Int
  /\ nLastPreciousChainwork \in Nat
  /\ {tip, coinsTip, stateRoot} \subseteq Known
  /\ DOMAIN diskIndex \subseteq Blocks /\ diskCoins \subseteq Blocks
  /\ bestBlock \in Blocks \cup {NoBlock} /\ headBlocks \in (Blocks \X Blocks) \cup {<<>>}
  /\ blkSynced \subseteq Blocks /\ revSynced \subseteq Blocks /\ revLost \subseteq Blocks
  /\ cs_main \in Threads \cup {NoThread}
  /\ pc \in [Threads -> Unlocked \cup Locked \cup {"aborted"}]
  /\ pindexMostWork \in [Threads -> Blocks \cup {NoBlock}]
  /\ {pindexOldTip, pindexFailed} \subseteq Blocks \cup {NoBlock}
  /\ incidents \subseteq {"reconsider", "failedTip"}

\* A node that has connected its genesis block and written its state.
Init ==
  /\ mapBlockIndex =
       [b \in {Genesis} |-> [NewEntry EXCEPT !.level = VALID_TRANSACTIONS,
                              !.data = TRUE, !.chainTx = TRUE, !.seq = 1]]
  /\ setBlockIndexCandidates = {Genesis}
  /\ mapBlocksUnlinked = {} /\ setDirtyBlockIndex = {}
  /\ nBlockSequenceId = 2 /\ nBlockReverseSequenceId = -1
  /\ nLastPreciousChainwork = 0
  /\ tip = Genesis /\ coinsTip = Genesis /\ stateRoot = Genesis
  /\ diskIndex = mapBlockIndex
  /\ diskCoins = {Genesis} /\ bestBlock = Genesis /\ headBlocks = <<>>
  /\ blkSynced = {Genesis} /\ revSynced = {} /\ revLost = {}
  /\ cs_main = NoThread /\ pc = [t \in Threads |-> "idle"]
  /\ pindexMostWork = [t \in Threads |-> NoBlock]
  /\ pindexOldTip = NoBlock /\ pindexFailed = NoBlock
  /\ budget \in Budgets /\ incidents = {}

-----------------------------------------------------------------------------
(* Writing to disk.                                                        *)

LastBlockFile(ix) == Max({ix[b].nFile : b \in DOMAIN ix})

\* FlushBlockFile: only the last block file and its undo file are committed.
FlushBlockFile(ix) ==
  LET inLast == {b \in DOMAIN ix : ix[b].nFile = LastBlockFile(ix)}
  IN /\ blkSynced' = blkSynced \cup {b \in inLast : ix[b].data}
     /\ revSynced' = revSynced \cup {b \in inLast \ revLost : ix[b].undo}

\* Bound: how often the state is written.
Flushed == budget.flushes > 0 /\ budget' = [budget EXCEPT !.flushes = @ - 1]

\* Mutated form: the block files are not committed before the index.
FlushIndexUncommitted(ix, dirty) ==
  /\ diskIndex' = [b \in DOMAIN diskIndex \cup dirty |->
                     IF b \in dirty THEN ix[b] ELSE diskIndex[b]]
  /\ setDirtyBlockIndex' = {} /\ Flushed
  /\ UNCHANGED <<blkSynced, revSynced>>

\* The first half of FlushStateToDisk: block files, then all dirty entries
\* of the block index in one synchronous batch.
FlushIndex(ix, dirty) ==
  /\ FlushBlockFile(ix)
  /\ diskIndex' = [b \in DOMAIN diskIndex \cup dirty |->
                     IF b \in dirty THEN ix[b] ELSE diskIndex[b]]
  /\ setDirtyBlockIndex' = {} /\ Flushed

\* Mutated form: the best block stays while a part of the coins is written.
PartialBatchUnmarked(t) ==
  /\ cs_main = t /\ pc[t] \in {"flush", "flushPeriodic", "replay"}
  /\ diskCoins' = diskCoins \cup {coinsTip}
  /\ UNCHANGED <<indexVars, seqVars, chainVars, diskIndex, bestBlock, headBlocks, blkSynced,
                 revSynced, revLost, threadVars, budget>>

\* The second half, CCoinsViewDB::BatchWrite.  A batch that is not the last writes a
\* part of the coins; the first one also replaces the best block by the two heads,
\* where the coins go and where they came from.
PartialBatch(t) ==
  /\ cs_main = t /\ pc[t] \in {"flush", "flushPeriodic", "replay"}
  /\ diskCoins' = diskCoins \cup {coinsTip}
  /\ headBlocks' = IF bestBlock = NoBlock THEN headBlocks ELSE <<coinsTip, bestBlock>>
  /\ bestBlock' = NoBlock
  /\ UNCHANGED <<indexVars, seqVars, chainVars, diskIndex, blkSynced, revSynced, revLost,
                 threadVars, budget>>

\* The last batch: the remaining coins, with the block they are the state after.
LastBatch == diskCoins' = {coinsTip} /\ bestBlock' = coinsTip /\ headBlocks' = <<>>

NoFlush(dirty) ==
  /\ setDirtyBlockIndex' = dirty
  /\ UNCHANGED <<diskIndex, blkSynced, revSynced, budget>>

-----------------------------------------------------------------------------
(* Accepting headers and blocks.                                           *)

Lock(t) == cs_main = NoThread /\ pc[t] = "idle"

\* Whether AcceptBlockHeader returns true.
HeaderOK(b) ==
  IF b \in Known THEN mapBlockIndex[b].failed = {}
  ELSE Parent[b] \in Known /\ mapBlockIndex[Parent[b]].failed = {}

\* AddToBlockIndex
AddToBlockIndex(b) ==
  [x \in Known \cup {b} |-> IF x \in Known THEN mapBlockIndex[x] ELSE NewEntry]

\* ProcessNewBlockHeaders with a header that is not known yet.
ProcessNewBlockHeaders(t, b) ==
  /\ Lock(t) /\ b \notin Known /\ HeaderOK(b)
  /\ mapBlockIndex' = AddToBlockIndex(b)
  /\ setDirtyBlockIndex' = setDirtyBlockIndex \cup {b}
  /\ UNCHANGED <<setBlockIndexCandidates, mapBlocksUnlinked, seqVars, chainVars,
                 diskVars, threadVars, budget>>

\* FindBlockPos: the file for the next block.
FindBlockPos ==
  LET last == LastBlockFile(mapBlockIndex)
      held == {x \in Known : mapBlockIndex[x].data /\ mapBlockIndex[x].nFile = last}
  IN IF Cardinality(held) < BlocksPerFile THEN last ELSE last + 1

\* Mutated form: blocks waiting in mapBlocksUnlinked are not taken up.
LinkedAlone(b) == {b}

\* The blocks that ReceivedBlockTransactions links once b has its data and
\* its parent is linked: b and what waits for it in mapBlocksUnlinked.
Linked(b) ==
  {x \in Known \cup {b} :
     /\ b \in Anc[x]
     /\ \A y \in Anc[x] \ Anc[b] : <<Parent[y], y>> \in mapBlocksUnlinked}

\* The order of the queue: by generations, siblings in any order.
QueueOrders(S) ==
  {f \in [S -> nBlockSequenceId .. nBlockSequenceId + Cardinality(S) - 1] :
     /\ \A x, y \in S : x # y => f[x] # f[y]
     /\ \A x, y \in S : Height(x) < Height(y) => f[x] < f[y]}

\* ReceivedBlockTransactions, ix being the index with b's header.
ReceivedBlockTransactions(ix, b) ==
  LET stored == [ix EXCEPT ![b] =
                   RaiseValidity([@ EXCEPT !.data = TRUE, !.undo = FALSE, !.nFile = FindBlockPos],
                                 VALID_TRANSACTIONS)]
      links == Linked(b)
  IN IF ix[Parent[b]].chainTx
     THEN \E order \in QueueOrders(links) :
            LET linked == [x \in DOMAIN ix |->
                             IF x \in links
                             THEN [stored[x] EXCEPT !.chainTx = TRUE, !.seq = order[x]]
                             ELSE stored[x]]
            IN /\ mapBlockIndex' = linked
               /\ setBlockIndexCandidates' = setBlockIndexCandidates
                    \cup {x \in links : ~ Worse(linked, x, tip)}
               /\ mapBlocksUnlinked' = {p \in mapBlocksUnlinked : p[1] \notin links}
               /\ nBlockSequenceId' = nBlockSequenceId + Cardinality(links)
     ELSE /\ mapBlockIndex' = stored
          /\ mapBlocksUnlinked' = mapBlocksUnlinked
               \cup IF IsValid(ix[Parent[b]], VALID_TREE) THEN {<<Parent[b], b>>} ELSE {}
          /\ UNCHANGED <<setBlockIndexCandidates, nBlockSequenceId>>

\* What AcceptBlock still wants of a block that was not asked for.
Wanted(b, fRequested) ==
  \/ fRequested
  \/ /\ ChainWork[b] > ChainWork[tip]
     /\ Height(b) <= Height(tip) + MinBlocksToKeep

\* ProcessNewBlock, where AcceptBlock stores the block ...
StoreBlock(t, b, fRequested) ==
  /\ Lock(t) /\ HeaderOK(b)
  /\ ~ (b \in Known /\ mapBlockIndex[b].data)
  /\ Wanted(b, fRequested) /\ b \notin BadBlocks
  /\ ReceivedBlockTransactions(AddToBlockIndex(b), b)
  /\ setDirtyBlockIndex' = setDirtyBlockIndex \cup {b}
  /\ IF FindBlockPos # LastBlockFile(mapBlockIndex)
     THEN FlushBlockFile(mapBlockIndex)
     ELSE UNCHANGED <<blkSynced, revSynced>>
  /\ pc' = [pc EXCEPT ![t] = "find"]
  /\ UNCHANGED <<nBlockReverseSequenceId, nLastPreciousChainwork, chainVars, diskIndex,
                 coinsVars, revLost, cs_main, pindexMostWork, pindexOldTip, pindexFailed, budget>>

\* ... where it refuses it ...
RejectBlock(t, b, fRequested) ==
  /\ Lock(t) /\ HeaderOK(b)
  /\ ~ (b \in Known /\ mapBlockIndex[b].data)
  /\ Wanted(b, fRequested) /\ b \in BadBlocks
  /\ mapBlockIndex' = [AddToBlockIndex(b) EXCEPT ![b].failed = @ \cup {"VALID"}]
  /\ setDirtyBlockIndex' = setDirtyBlockIndex \cup {b}
  /\ UNCHANGED <<setBlockIndexCandidates, mapBlocksUnlinked, seqVars, chainVars,
                 diskVars, threadVars, budget>>

\* ... and where it keeps only the header, and the best chain is looked at.
IgnoreBlock(t, b, fRequested) ==
  /\ Lock(t) /\ HeaderOK(b)
  /\ (b \in Known /\ mapBlockIndex[b].data) \/ ~ Wanted(b, fRequested)
  /\ mapBlockIndex' = AddToBlockIndex(b)
  /\ setDirtyBlockIndex' = setDirtyBlockIndex \cup ({b} \ Known)
  /\ pc' = [pc EXCEPT ![t] = "find"]
  /\ UNCHANGED <<setBlockIndexCandidates, mapBlocksUnlinked, seqVars, chainVars, diskVars,
                 cs_main, pindexMostWork, pindexOldTip, pindexFailed, budget>>

\* A header that is known as invalid, or builds on an unknown or invalid block.
RefuseHeader(t, b) == Lock(t) /\ ~ HeaderOK(b) /\ UNCHANGED vars

-----------------------------------------------------------------------------
(* Activating the best chain.                                              *)

Path(b) == Anc[b] \ Anc[tip]

Unusable(c) == \E x \in Path(c) : mapBlockIndex[x].failed # {}

\* What FindMostWorkChain returns: the best candidate without failed block on
\* its path (Worse is a total order, so there is one), or NoBlock.
FindMostWorkChain ==
  LET usable == {c \in setBlockIndexCandidates : ~ Unusable(c)}
  IN IF usable = {} THEN {NoBlock}
     ELSE {c \in usable : \A d \in usable : ~ Worse(mapBlockIndex, c, d)}

\* The candidates it tried before, the blocks above the last failed one of
\* their paths, and the effect on index and candidates.
Tried(found) ==
  {c \in setBlockIndexCandidates :
     Unusable(c) /\ (found = NoBlock \/ Worse(mapBlockIndex, found, c))}

LastFailed(c) ==
  CHOOSE x \in Path(c) :
    /\ mapBlockIndex[x].failed # {}
    /\ \A y \in Path(c) : Height(y) > Height(x) => mapBlockIndex[y].failed = {}

AboveFailed(c) == {y \in Path(c) : Height(y) > Height(LastFailed(c))}

DropUnusable(found) ==
  LET tried == Tried(found)
      above == UNION {AboveFailed(c) : c \in tried}
  IN /\ mapBlockIndex' = [b \in Known |->
          IF b \in above THEN [mapBlockIndex[b] EXCEPT !.failed = @ \cup {"CHILD"}]
          ELSE mapBlockIndex[b]]
     /\ setBlockIndexCandidates' =
          setBlockIndexCandidates \ (above \cup {LastFailed(c) : c \in tried})

\* One turn of the loop of ActivateBestChain starts: the target found in an
\* earlier turn is kept.
StartStep(t) ==
  /\ cs_main = NoThread /\ pc[t] = "find"
  /\ \E target \in IF pindexMostWork[t] = NoBlock THEN FindMostWorkChain
                    ELSE {pindexMostWork[t]} :
        /\ IF pindexMostWork[t] = NoBlock THEN DropUnusable(target)
           ELSE UNCHANGED <<mapBlockIndex, setBlockIndexCandidates>>
        /\ IF target \in {NoBlock, tip}
           THEN /\ pc' = [pc EXCEPT ![t] = "idle"]
                /\ pindexMostWork' = [pindexMostWork EXCEPT ![t] = NoBlock]
                /\ UNCHANGED <<cs_main, pindexOldTip>>
           ELSE /\ pc' = [pc EXCEPT ![t] = "step"]
                /\ pindexMostWork' = [pindexMostWork EXCEPT ![t] = target]
                /\ cs_main' = t /\ pindexOldTip' = tip
  /\ UNCHANGED <<mapBlocksUnlinked, setDirtyBlockIndex, seqVars, chainVars, diskVars,
                 pindexFailed, budget>>

\* The coins and the state roots go back to the parent, if the undo data can
\* be read.
DisconnectBlock ==
  tip \notin revLost /\ coinsTip' = Parent[tip] /\ stateRoot' = Parent[tip]

\* The target is reached: the loop of ActivateBestChain is left.
Reached(t) ==
  /\ pc' = [pc EXCEPT ![t] = "periodic"]
  /\ pindexMostWork' = [pindexMostWork EXCEPT ![t] = NoBlock]
  /\ cs_main' = NoThread /\ pindexOldTip' = NoBlock

\* The lock is kept.
Continue(t, where) ==
  /\ pc' = [pc EXCEPT ![t] = where]
  /\ UNCHANGED <<cs_main, pindexMostWork, pindexOldTip>>

\* Where DisconnectTip continues once its flush is done or not needed.  An
\* outdated target may be the parent itself, then nothing is connected.
AfterDisconnect(t, parent) ==
  /\ tip' = parent
  /\ IF parent = pindexMostWork[t] THEN Reached(t)
     ELSE Continue(t, IF pindexFailed = NoBlock THEN "step" ELSE "invalidate")

\* DisconnectTip, ix and dirty being the index as its caller left it: the
\* coins cache is small enough, or everything is written before the tip moves.
DisconnectTip(t, ix, dirty) ==
  /\ DisconnectBlock
  /\ \/ NoFlush(dirty) /\ AfterDisconnect(t, Parent[tip])
     \/ FlushIndex(ix, dirty) /\ Continue(t, "flush") /\ UNCHANGED tip

\* ActivateBestChainStep: a tip that is not on the way is disconnected.
StepDisconnect(t) ==
  /\ cs_main = t /\ pc[t] = "step" /\ tip \notin Anc[pindexMostWork[t]]
  /\ DisconnectTip(t, mapBlockIndex, setDirtyBlockIndex)
  /\ UNCHANGED <<mapBlockIndex, setBlockIndexCandidates, mapBlocksUnlinked, seqVars,
                 coinsVars, revLost, pindexFailed>>

\* The undo data cannot be read: ActivateBestChain returns false.
StepDisconnectFails(t) ==
  /\ cs_main = t /\ pc[t] = "step" /\ tip \notin Anc[pindexMostWork[t]] /\ tip \in revLost
  /\ pc' = [pc EXCEPT ![t] = "idle"] /\ cs_main' = NoThread /\ pindexOldTip' = NoBlock
  /\ pindexMostWork' = [pindexMostWork EXCEPT ![t] = NoBlock]
  /\ UNCHANGED <<indexVars, seqVars, chainVars, diskVars, pindexFailed, budget>>

\* ConnectBlock on a block that passes its checks writes undo data, unless
\* it is there, and raises the entry.
Unfinished(e) == ~ e.undo \/ ~ IsValid(e, VALID_SCRIPTS)

ConnectBlock(b) ==
  IF Unfinished(mapBlockIndex[b])
  THEN [mapBlockIndex EXCEPT ![b] = RaiseValidity([@ EXCEPT !.undo = TRUE], VALID_SCRIPTS)]
  ELSE mapBlockIndex

NextOnPath(t) == CHOOSE b \in Anc[pindexMostWork[t]] : b # Genesis /\ Parent[b] = tip

\* The assert of PruneBlockIndexCandidates fails, and ends the process.
Abort ==
  /\ pc' = [x \in Threads |-> "aborted"]
  /\ UNCHANGED <<cs_main, pindexMostWork, pindexOldTip>>

\* Mutated form: the first better tip ends the loop.
AfterConnectStops(t, b, ix) ==
  /\ tip' = b
  /\ setBlockIndexCandidates' = Prune(setBlockIndexCandidates, ix, b)
  /\ IF b = pindexMostWork[t] \/ ChainWork[b] > ChainWork[pindexOldTip] THEN Reached(t)
     ELSE Continue(t, "step")

\* Once ConnectTip has moved the tip: worse candidates go, and the lock is
\* released if the tip is better than at the start or the target is reached.
AfterConnect(t, b, ix) ==
  /\ tip' = b
  /\ setBlockIndexCandidates' = Prune(setBlockIndexCandidates, ix, b)
  /\ IF Prune(setBlockIndexCandidates, ix, b) = {} THEN Abort
     ELSE IF b = pindexMostWork[t] THEN Reached(t)
     ELSE IF ChainWork[b] > ChainWork[pindexOldTip]
     THEN /\ pc' = [pc EXCEPT ![t] = "find"]
          /\ cs_main' = NoThread /\ pindexOldTip' = NoBlock
          /\ UNCHANGED pindexMostWork
     ELSE Continue(t, "step")

\* ConnectTip succeeds.
ConnectTip(t) ==
  /\ cs_main = t /\ pc[t] = "step"
  /\ tip \in Anc[pindexMostWork[t]] /\ NextOnPath(t) \notin BadConnect
  /\ LET b == NextOnPath(t)
         ix == ConnectBlock(b)
         dirty == setDirtyBlockIndex \cup {x \in {b} : Unfinished(mapBlockIndex[x])}
     IN /\ mapBlockIndex' = ix
        /\ coinsTip' = b /\ stateRoot' = b
        /\ \/ NoFlush(dirty) /\ AfterConnect(t, b, ix)
           \/ /\ FlushIndex(ix, dirty) /\ Continue(t, "flush")
              /\ UNCHANGED <<tip, setBlockIndexCandidates>>
  /\ UNCHANGED <<mapBlocksUnlinked, seqVars, coinsVars, revLost, pindexFailed>>

\* Mutated form: the roots stay those of the failed block.
ConnectTipFailsKeepsRoots(t) ==
  /\ cs_main = t /\ pc[t] = "step"
  /\ tip \in Anc[pindexMostWork[t]] /\ NextOnPath(t) \in BadConnect
  /\ LET b == NextOnPath(t)
     IN /\ mapBlockIndex' = [mapBlockIndex EXCEPT ![b].failed = @ \cup {"VALID"}]
        /\ setDirtyBlockIndex' = setDirtyBlockIndex \cup {b}
        /\ setBlockIndexCandidates' = setBlockIndexCandidates \ {b}
        /\ stateRoot' = b
  /\ pindexMostWork' = [pindexMostWork EXCEPT ![t] = NoBlock]
  /\ pc' = [pc EXCEPT ![t] = "find"] /\ cs_main' = NoThread /\ pindexOldTip' = NoBlock
  /\ UNCHANGED <<mapBlocksUnlinked, seqVars, tip, coinsTip, diskVars, pindexFailed, budget>>

\* Mutated form: the failed block is not marked.
ConnectTipFailsUnmarked(t) ==
  /\ cs_main = t /\ pc[t] = "step"
  /\ tip \in Anc[pindexMostWork[t]] /\ NextOnPath(t) \in BadConnect
  /\ pindexMostWork' = [pindexMostWork EXCEPT ![t] = NoBlock]
  /\ pc' = [pc EXCEPT ![t] = "find"] /\ cs_main' = NoThread /\ pindexOldTip' = NoBlock
  /\ UNCHANGED <<indexVars, seqVars, chainVars, diskVars, pindexFailed, budget>>

\* ConnectTip fails: the block is marked, globalState gets its old roots
\* back, the target is forgotten and the lock released.
ConnectTipFails(t) ==
  /\ cs_main = t /\ pc[t] = "step"
  /\ tip \in Anc[pindexMostWork[t]] /\ NextOnPath(t) \in BadConnect
  /\ LET b == NextOnPath(t)
     IN /\ mapBlockIndex' = [mapBlockIndex EXCEPT ![b].failed = @ \cup {"VALID"}]
        /\ setDirtyBlockIndex' = setDirtyBlockIndex \cup {b}
        /\ setBlockIndexCandidates' = setBlockIndexCandidates \ {b}
  /\ UNCHANGED stateRoot
  /\ pindexMostWork' = [pindexMostWork EXCEPT ![t] = NoBlock]
  /\ pc' = [pc EXCEPT ![t] = "find"] /\ cs_main' = NoThread /\ pindexOldTip' = NoBlock
  /\ UNCHANGED <<mapBlocksUnlinked, seqVars, tip, coinsTip, diskVars, pindexFailed, budget>>

\* ConnectTip fails on a block whose data may be corrupt: nothing is marked, and
\* the target is looked for again.  Bound: how often.
ConnectTipCorrupt(t) ==
  /\ cs_main = t /\ pc[t] = "step" /\ tip \in Anc[pindexMostWork[t]]
  /\ budget.corruptions > 0
  /\ budget' = [budget EXCEPT !.corruptions = @ - 1]
  /\ pindexMostWork' = [pindexMostWork EXCEPT ![t] = NoBlock]
  /\ pc' = [pc EXCEPT ![t] = "find"] /\ cs_main' = NoThread /\ pindexOldTip' = NoBlock
  /\ UNCHANGED <<indexVars, seqVars, chainVars, diskVars, pindexFailed>>

\* The rest of a Connect- or DisconnectTip that has to flush: the coins are
\* written, and only then the tip is moved to the block they belong to.
FlushTip(t) ==
  /\ cs_main = t /\ pc[t] = "flush"
  /\ LastBatch
  /\ IF coinsTip \in Anc[tip]
     THEN AfterDisconnect(t, coinsTip) /\ UNCHANGED setBlockIndexCandidates
     ELSE AfterConnect(t, coinsTip, mapBlockIndex)
  /\ UNCHANGED <<mapBlockIndex, mapBlocksUnlinked, setDirtyBlockIndex, seqVars, coinsTip,
                 stateRoot, diskIndex, blkSynced, revSynced, revLost, pindexFailed, budget>>

\* The FlushStateToDisk at the end of ActivateBestChain: nothing is due, or
\* the index, or the index and then the coins.
FlushPeriodic(t) ==
  /\ cs_main = NoThread /\ pc[t] = "periodic"
  /\ \/ /\ pc' = [pc EXCEPT ![t] = "idle"]
        /\ NoFlush(setDirtyBlockIndex) /\ UNCHANGED cs_main
     \/ /\ pc' = [pc EXCEPT ![t] = "idle"]
        /\ FlushIndex(mapBlockIndex, setDirtyBlockIndex) /\ UNCHANGED cs_main
     \/ /\ pc' = [pc EXCEPT ![t] = "flushPeriodic"]
        /\ FlushIndex(mapBlockIndex, setDirtyBlockIndex) /\ cs_main' = t
  /\ UNCHANGED <<mapBlockIndex, setBlockIndexCandidates, mapBlocksUnlinked, seqVars, chainVars,
                 coinsVars, revLost, pindexMostWork, pindexOldTip, pindexFailed>>

\* The end of that flush, and of the one in ReplayBlocks.
FlushPeriodicCoins(t) ==
  /\ cs_main = t /\ pc[t] \in {"flushPeriodic", "replay"}
  /\ LastBatch
  /\ pc' = [pc EXCEPT ![t] = IF @ = "replay" THEN "find" ELSE "idle"] /\ cs_main' = NoThread
  /\ UNCHANGED <<indexVars, seqVars, chainVars, diskIndex, blkSynced, revSynced, revLost,
                 pindexMostWork, pindexOldTip, pindexFailed, budget>>

-----------------------------------------------------------------------------
(* The operator's commands.                                                *)

Command(t) ==
  /\ Lock(t) /\ budget.commands > 0
  /\ budget' = [budget EXCEPT !.commands = @ - 1]

\* InvalidateBlock marks the block ...
InvalidateBlock(t, b) ==
  /\ Command(t) /\ b \in Known \ {Genesis}
  /\ mapBlockIndex' = [mapBlockIndex EXCEPT ![b].failed = @ \cup {"VALID"}]
  /\ setDirtyBlockIndex' = setDirtyBlockIndex \cup {b}
  /\ setBlockIndexCandidates' = setBlockIndexCandidates \ {b}
  /\ cs_main' = t /\ pc' = [pc EXCEPT ![t] = "invalidate"] /\ pindexFailed' = b
  /\ UNCHANGED <<mapBlocksUnlinked, seqVars, chainVars, diskVars, pindexMostWork, pindexOldTip>>

\* ... disconnects and marks tips while the block is in the active chain ...
InvalidateTip(t) ==
  /\ cs_main = t /\ pc[t] = "invalidate" /\ Contains(pindexFailed)
  /\ LET ix == [mapBlockIndex EXCEPT ![tip].failed = @ \cup {"CHILD"}]
     IN /\ mapBlockIndex' = ix
        /\ setBlockIndexCandidates' = setBlockIndexCandidates \ {tip}
        /\ DisconnectTip(t, ix, setDirtyBlockIndex \cup {tip})
  /\ UNCHANGED <<mapBlocksUnlinked, seqVars, coinsVars, revLost, pindexFailed>>

\* ... gives up if one of them has lost its undo data ...
InvalidateTipFails(t) ==
  /\ cs_main = t /\ pc[t] = "invalidate" /\ Contains(pindexFailed) /\ tip \in revLost
  /\ mapBlockIndex' = [mapBlockIndex EXCEPT ![tip].failed = @ \cup {"CHILD"}]
  /\ setBlockIndexCandidates' = setBlockIndexCandidates \ {tip}
  /\ setDirtyBlockIndex' = setDirtyBlockIndex \cup {tip}
  /\ cs_main' = NoThread /\ pc' = [pc EXCEPT ![t] = "find"] /\ pindexFailed' = NoBlock
  /\ UNCHANGED <<mapBlocksUnlinked, seqVars, chainVars, diskVars, pindexMostWork,
                 pindexOldTip, budget>>

\* Mutated form: the candidates are not filled up again.
InvalidateEndBare(t) ==
  /\ cs_main = t /\ pc[t] = "invalidate" /\ ~ Contains(pindexFailed)
  /\ cs_main' = NoThread /\ pc' = [pc EXCEPT ![t] = "find"] /\ pindexFailed' = NoBlock
  /\ UNCHANGED <<indexVars, seqVars, chainVars, diskVars, pindexMostWork, pindexOldTip, budget>>

\* ... and adds the blocks that are now as good as the tip to the candidates.
InvalidateEnd(t) ==
  /\ cs_main = t /\ pc[t] = "invalidate" /\ ~ Contains(pindexFailed)
  /\ setBlockIndexCandidates' = setBlockIndexCandidates
       \cup {b \in Known : /\ IsValid(mapBlockIndex[b], VALID_TRANSACTIONS)
                           /\ mapBlockIndex[b].chainTx
                           /\ ~ Worse(mapBlockIndex, b, tip)}
  /\ cs_main' = NoThread /\ pc' = [pc EXCEPT ![t] = "find"] /\ pindexFailed' = NoBlock
  /\ UNCHANGED <<mapBlockIndex, mapBlocksUnlinked, setDirtyBlockIndex, seqVars, chainVars,
                 diskVars, pindexMostWork, pindexOldTip, budget>>

\* ResetBlockFailureFlags: descendants that are as good as the tip become
\* candidates again, ancestors only lose their flags.
ResetBlockFailureFlags(t, b) ==
  /\ Command(t) /\ b \in Known
  /\ LET below == {x \in Known : b \in Anc[x] /\ ~ IsValid(mapBlockIndex[x], VALID_TRANSACTIONS)}
         above == {x \in Anc[b] : mapBlockIndex[x].failed # {}}
         ix == [x \in Known |-> IF x \in below \cup above
                                THEN [mapBlockIndex[x] EXCEPT !.failed = {}]
                                ELSE mapBlockIndex[x]]
     IN /\ mapBlockIndex' = ix
        /\ setDirtyBlockIndex' = setDirtyBlockIndex \cup below \cup above
        /\ setBlockIndexCandidates' = setBlockIndexCandidates
             \cup {x \in below : /\ IsValid(ix[x], VALID_TRANSACTIONS)
                                 /\ ix[x].chainTx /\ Worse(ix, tip, x)}
  /\ pc' = [pc EXCEPT ![t] = "find"] /\ incidents' = incidents \cup {"reconsider"}
  /\ UNCHANGED <<mapBlocksUnlinked, seqVars, chainVars, diskVars, cs_main, pindexMostWork,
                 pindexOldTip, pindexFailed>>

\* PreciousBlock on a block with no less work than the tip.
PreciousBlock(t, b) ==
  /\ Command(t) /\ b \in Known /\ ChainWork[b] >= ChainWork[tip]
  /\ LET id == IF ChainWork[tip] > nLastPreciousChainwork THEN -1
               ELSE nBlockReverseSequenceId
         ix == [mapBlockIndex EXCEPT ![b].seq = id]
     IN /\ mapBlockIndex' = ix
        /\ nBlockReverseSequenceId' = id - 1
        /\ setBlockIndexCandidates' =
             IF IsValid(ix[b], VALID_TRANSACTIONS) /\ ix[b].chainTx
             THEN Prune(setBlockIndexCandidates \cup {b}, ix, tip)
             ELSE setBlockIndexCandidates \ {b}
  /\ nLastPreciousChainwork' = ChainWork[tip]
  /\ pc' = [pc EXCEPT ![t] = "find"]
  /\ UNCHANGED <<mapBlocksUnlinked, setDirtyBlockIndex, nBlockSequenceId, chainVars, diskVars,
                 cs_main, pindexMostWork, pindexOldTip, pindexFailed>>

-----------------------------------------------------------------------------
(* A crash at any point, and the next start.                               *)

\* The block whose coins the next start has: ReplayBlocks, if there are heads,
\* takes every entry of the coins database to the first of them.
StartBlock == IF headBlocks = <<>> THEN bestBlock ELSE headBlocks[1]

\* LoadBlockIndexDB: links, candidates and tip are computed again, data that was
\* never committed is gone.  The process is down, or it goes down now.
Restart(t) ==
  /\ IF pc[t] = "aborted" THEN UNCHANGED budget
     ELSE budget.crashes > 0 /\ budget' = [budget EXCEPT !.crashes = @ - 1]
  /\ LET ix == [b \in DOMAIN diskIndex |->
                  [diskIndex[b] EXCEPT !.seq = 0,
                                       !.chainTx = \A a \in Anc[b] : diskIndex[a].data]]
         cands == Prune({b \in DOMAIN ix : IsValid(ix[b], VALID_TRANSACTIONS) /\ ix[b].chainTx},
                        ix, StartBlock)
         first == IF cands = {} THEN "aborted" ELSE IF headBlocks # <<>> THEN "replay" ELSE "find"
     IN /\ mapBlockIndex' = ix
        /\ mapBlocksUnlinked' = {<<Parent[b], b>> :
             b \in {x \in DOMAIN ix : ix[x].data /\ ~ ix[x].chainTx}}
        /\ setBlockIndexCandidates' = cands
        /\ cs_main' = IF first = "find" THEN NoThread ELSE t
        /\ pc' = [x \in Threads |-> IF x = t \/ cands = {} THEN first ELSE "idle"]
  /\ setDirtyBlockIndex' = {}
  /\ nBlockSequenceId' = 1 /\ nBlockReverseSequenceId' = -1 /\ nLastPreciousChainwork' = 0
  /\ tip' = StartBlock /\ coinsTip' = StartBlock /\ stateRoot' = StartBlock
  /\ pindexMostWork' = [x \in Threads |-> NoBlock]
  /\ pindexOldTip' = NoBlock /\ pindexFailed' = NoBlock
  /\ blkSynced' = {b \in blkSynced \cap DOMAIN diskIndex : diskIndex[b].data}
  /\ revSynced' = {b \in revSynced \cap DOMAIN diskIndex : diskIndex[b].undo}
  /\ revLost' = {b \in DOMAIN diskIndex \ revSynced : diskIndex[b].undo}
  /\ incidents' = incidents \cup
       (IF \E a \in Anc[StartBlock] : diskIndex[a].failed # {} THEN {"failedTip"} ELSE {})
  /\ UNCHANGED <<diskIndex, coinsVars>>

-----------------------------------------------------------------------------
Activate(t) ==
  /\ \/ StartStep(t) \/ StepDisconnect(t) \/ StepDisconnectFails(t)
     \/ ConnectTip(t) \/ ConnectTipFails(t) \/ ConnectTipCorrupt(t)
     \/ FlushTip(t) \/ FlushPeriodic(t) \/ FlushPeriodicCoins(t) \/ PartialBatch(t)
     \/ InvalidateTip(t) \/ InvalidateTipFails(t) \/ InvalidateEnd(t)
  /\ UNCHANGED incidents

Arrive(t) ==
  /\ \E b \in Blocks \ {Genesis} :
       \/ ProcessNewBlockHeaders(t, b) \/ RefuseHeader(t, b)
       \/ \E fRequested \in BOOLEAN :
            \/ StoreBlock(t, b, fRequested) \/ RejectBlock(t, b, fRequested)
            \/ IgnoreBlock(t, b, fRequested)
  /\ UNCHANGED incidents

Operate(t) ==
  \E b \in Blocks :
    \/ InvalidateBlock(t, b) /\ UNCHANGED incidents
    \/ PreciousBlock(t, b) /\ UNCHANGED incidents
    \/ ResetBlockFailureFlags(t, b)

Next == \E t \in Threads : Activate(t) \/ Arrive(t) \/ Operate(t) \/ Restart(t)

Spec == Init /\ [][Next]_vars

\* A thread inside ActivateBestChain goes on, and gets cs_main in its turn.
FairSpec == Spec /\ \A t \in Threads : WF_vars(Activate(t))

-----------------------------------------------------------------------------
\* No thread is between two steps of ActivateBestChain.
Quiet == \A t \in Threads : pc[t] \in {"idle", "periodic"}

Invalid(b) == \E a \in Anc[b] : "VALID" \in mapBlockIndex[a].failed
Complete(b) == \A a \in Anc[b] : mapBlockIndex[a].data

\* The assertions of CheckBlockIndex on the status of each entry (validation.cpp:5354-
\* 5413): levels, data, links, failure flags and mapBlocksUnlinked agree along every
\* branch of the tree whenever cs_main is free.  The last three assume that no
\* reconsiderblock was given, which breaks them, and that no ancestor was invalidated.
StatusConsistent ==
  cs_main = NoThread =>
    \A b \in Known :
      LET e == mapBlockIndex[b]
          unlinked == b # Genesis /\ <<Parent[b], b>> \in mapBlocksUnlinked
      IN /\ ~ e.chainTx => e.seq <= 0
         /\ e.data <=> e.level >= VALID_TRANSACTIONS
         /\ e.undo => e.data
         /\ e.chainTx => Complete(b)
         /\ unlinked => e.data
         /\ e.level = VALID_SCRIPTS =>
              \A a \in Anc[b] \ {Genesis} : mapBlockIndex[a].level = VALID_SCRIPTS
         /\ "reconsider" \notin incidents =>
              /\ e.failed # {} => Invalid(b)
              /\ ~ Invalid(b) => (Complete(b) => e.chainTx)
              /\ ~ Invalid(b) => (unlinked <=> e.data /\ ~ Complete(b))

\* Nothing happened that the properties of the candidates do not survive: no
\* reconsiderblock, no start from a tip that is marked as failed, no lost undo data.
Regular == incidents = {} /\ revLost = {}

\* The assertion of PruneBlockIndexCandidates (validation.cpp:3361-3362), that the tip
\* or a successor is left in setBlockIndexCandidates, and those of CheckBlockIndex
\* on the set: a complete valid block that sorts no worse than the tip is in it, and
\* a block that is worse or not linked is not.  The latter need not hold between two
\* steps of ActivateBestChain.
CandidatesExact ==
  Regular =>
    /\ pindexFailed = NoBlock => setBlockIndexCandidates # {}
    /\ Quiet =>
         \A b \in Known :
           IF ~ Worse(mapBlockIndex, b, tip) /\ Complete(b)
           THEN ~ Invalid(b) => b \in setBlockIndexCandidates
           ELSE b \notin setBlockIndexCandidates

\* The same assertion for every start: "Either the current tip or a successor of it
\* we're working towards is left in setBlockIndexCandidates" (validation.cpp:3361).
PruneAssertHolds == \A t \in Threads : pc[t] # "aborted"

\* Whenever cs_main is free, the coins cache and the contract state are those
\* of the tip, whatever blocks failed to connect or to disconnect on the way there.
CoinsFollowTip == cs_main = NoThread => coinsTip = tip /\ stateRoot = tip

\* Once no thread is inside ActivateBestChain, no complete valid block is
\* better than the tip, earlier arrival and preciousblock included.
BestChainActive ==
  Regular /\ Quiet =>
    \A b \in Known : Complete(b) /\ ~ Invalid(b) => ~ Worse(mapBlockIndex, tip, b)

\* The blocks the entries of the coins database can be the state after, by its own
\* account.
Heads == IF headBlocks = <<>> THEN {bestBlock} ELSE {headBlocks[1], headBlocks[2]}

\* At every moment a crash leaves a disk the node can start from: block data the
\* index on disk points to was committed before, whichever file it is in; the index
\* knows every head of the coins with its ancestors, and says of each of these that
\* it can be disconnected, as ReplayBlocks needs it.
DiskRecoverable ==
  /\ Heads \subseteq DOMAIN diskIndex
  /\ \A b \in DOMAIN diskIndex :
       /\ diskIndex[b].data => b \in blkSynced
       /\ Anc[b] \subseteq DOMAIN diskIndex
       /\ \A h \in Heads : b \in Anc[h] \ {Genesis} => diskIndex[b].undo

\* The index on disk refers to undo data only after the undo data: "First make sure all
\* block and undo data is flushed to disk" (validation.cpp:3036).
UndoCommitted == \A b \in DOMAIN diskIndex : diskIndex[b].undo => b \in revSynced

\* The coins of the next start, or no block if it would find entries that its heads
\* do not account for.
Saved == IF diskCoins \subseteq Heads THEN StartBlock ELSE NoBlock

\* The coins move, are saved and come back as module Ledger promises, although they
\* are written in several batches with a crash possible after each.
Coins == INSTANCE Ledger WITH best <- coinsTip, saved <- Saved
LedgerSpec == Coins!Spec

\* Every ActivateBestChain returns, unless the process ends: a failing block is not
\* tried for ever.
ActivationEnds == \A t \in Threads : pc[t] # "idle" ~> pc[t] \in {"idle", "aborted"}
=============================================================================
