---------------------------- MODULE ChainProofs ----------------------------
(***************************************************************************)
(* Proofs about ChainState, for every tree of blocks, any number of        *)
(* threads and any number of commands, crashes and flushes: the coins and  *)
(* the contract state follow the tip, and they move as Ledger promises.    *)
(*                                                                         *)
(* The coins and the tip are moved together except when DisconnectTip or   *)
(* ConnectTip has to flush in between, so the invariant says what holds at *)
(* each place of the code a thread can be at, and who holds cs_main.       *)
(***************************************************************************)
EXTENDS ChainState, WellFoundedInduction, TLAPS

Types ==
  /\ DOMAIN mapBlockIndex \subseteq Blocks
  /\ setBlockIndexCandidates \subseteq Blocks
  /\ setDirtyBlockIndex \subseteq Blocks
  /\ DOMAIN diskIndex \subseteq Blocks
  /\ tip \in Blocks /\ coinsTip \in Blocks
  /\ cs_main \in Threads \cup {NoThread}
  /\ pc \in [Threads -> Unlocked \cup Locked \cup {"aborted"}]
  /\ pindexMostWork \in [Threads -> Blocks \cup {NoBlock}]
  /\ pindexFailed \in (Blocks \ {Genesis}) \cup {NoBlock}

\* A thread is at a locked place exactly while it holds cs_main; what its target
\* and the block to invalidate are at each place.  A process that has ended runs no thread.
Control(t) ==
  /\ pc[t] = "aborted" => cs_main # NoThread /\ \A u \in Threads : pc[u] = "aborted"
  /\ pc[t] # "aborted" => (pc[t] \in Locked <=> cs_main = t)
  /\ pc[t] \in {"idle", "periodic", "invalidate", "flushPeriodic", "replay"}
       => pindexMostWork[t] = NoBlock
  /\ pc[t] = "step" => pindexMostWork[t] \in Blocks \ {tip} /\ pindexFailed = NoBlock
  /\ pc[t] = "invalidate" => pindexFailed # NoBlock
  /\ pc[t] \in {"flushPeriodic", "replay"} => pindexFailed = NoBlock
  /\ pc[t] = "flush" => IF pindexFailed = NoBlock THEN pindexMostWork[t] \in Blocks
                        ELSE pindexMostWork[t] = NoBlock /\ coinsTip \in Anc[tip]
  /\ pc[t] \in Locked \ {"flush"} => coinsTip = tip
  /\ pc[t] \in {"step", "invalidate"} => headBlocks = <<>>

\* The coins on disk are the state after one block, or their heads say which two blocks
\* they may be the state after; the first of these is the block of the cache.
Recorded ==
  \/ headBlocks = <<>> /\ bestBlock \in Blocks /\ diskCoins = {bestBlock}
  \/ \E old \in Blocks : /\ headBlocks = <<coinsTip, old>> /\ bestBlock = NoBlock
                          /\ diskCoins \subseteq {coinsTip, old}

Following ==
  /\ stateRoot = coinsTip /\ Recorded
  /\ cs_main = NoThread => pindexFailed = NoBlock /\ coinsTip = tip /\ headBlocks = <<>>

\* The inductive invariant behind CoinsFollowTip.
IInv == Types /\ (\A t \in Threads : Control(t)) /\ Following

-----------------------------------------------------------------------------
\* NoThread is no thread and NoBlock no block: all that most steps need of the constants.
LEMMA Names == NoThread \notin Threads /\ NoBlock \notin Blocks /\ Genesis \in Blocks
BY TreeAssumption, Zenon

\* Genesis has no ancestor but itself.
LEMMA Root == Anc[Genesis] = {Genesis}
BY TreeAssumption, Zenon

\* A block is an ancestor of itself and, but for Genesis, so is its parent.
LEMMA Ancestry ==
  /\ \A b \in Blocks : Anc[b] \subseteq Blocks /\ b \in Anc[b]
  /\ \A b \in Blocks \ {Genesis} : Parent[b] \in Blocks /\ Parent[b] \in Anc[b]
<1>1. \A b \in Blocks : Anc[b] \subseteq Blocks /\ b \in Anc[b]
  BY TreeAssumption
<1>2. \A b \in Blocks \ {Genesis} : Parent[b] \in Blocks /\ Parent[b] \in Anc[b]
  BY <1>1, TreeAssumption
<1>3. QED  BY <1>1, <1>2, Zenon

\* Induction along the branches: work grows from parent to child, so a set that contains
\* each block whose ancestors with less work it contains, contains them all.
LEMMA WorkInduction ==
  ASSUME NEW S,
         \A b \in Blocks : (\A c \in Blocks : ChainWork[c] < ChainWork[b] => c \in S) => b \in S
  PROVE  Blocks \subseteq S
<1> DEFINE W == {ChainWork[b] : b \in Blocks \ S}
<1>1. ChainWork \in [Blocks -> Nat]
  BY TreeAssumption, Zenon
<1>2. W \subseteq Nat
  BY <1>1
<1> SUFFICES ASSUME W # {} PROVE FALSE
  OBVIOUS
<1> HIDE DEF W
<1>3. PICK x \in W : \A y \in W : ~ (<<y, x>> \in OpToRel(<, Nat))
  BY <1>2, WFMin, NatLessThanWellFounded, Zenon
<1>4. \A y \in W : ~ (y < x)
  BY <1>2, <1>3, Zenon DEF OpToRel
<1>5. PICK b \in Blocks \ S : x = ChainWork[b]
  BY Zenon DEF W
<1>6. \A c \in Blocks : ChainWork[c] < ChainWork[b] => c \in S
  BY <1>4, <1>5 DEF W
<1>7. QED  BY <1>5, <1>6, Zenon

\* The parent of a block, and what an ancestor of a block is.
LEMMA Parents ==
  /\ Anc[Genesis] = {Genesis} /\ Genesis \in Blocks
  /\ \A b \in Blocks : Anc[b] \subseteq Blocks /\ b \in Anc[b]
  /\ \A b \in Blocks \ {Genesis} :
       /\ Parent[b] \in Blocks /\ Anc[b] = {b} \cup Anc[Parent[b]] /\ b \notin Anc[Parent[b]]
       /\ ChainWork[Parent[b]] < ChainWork[b]
<1>1. \A b \in Blocks \ {Genesis} :
       /\ Parent[b] \in Blocks /\ Anc[b] = {b} \cup Anc[Parent[b]] /\ b \notin Anc[Parent[b]]
       /\ ChainWork[Parent[b]] < ChainWork[b]
  BY TreeAssumption, Zenon
<1>2. \A b \in Blocks : Anc[b] \subseteq Blocks /\ b \in Anc[b]
  BY TreeAssumption
<1>3. QED  BY <1>1, <1>2, TreeAssumption, Zenon

\* Every branch starts at Genesis, and a block with descendants has a child on the way to
\* each of them.
LEMMA Paths ==
  \A b \in Blocks :
    /\ Genesis \in Anc[b]
    /\ \A a \in Anc[b] \ {b} : \E c \in Anc[b] \ {Genesis} : Parent[c] = a
<1> DEFINE P(b) == /\ Genesis \in Anc[b]
                   /\ \A a \in Anc[b] \ {b} : \E c \in Anc[b] \ {Genesis} : Parent[c] = a
           S == {b \in Blocks : P(b)}
<1>1. ASSUME NEW b \in Blocks, \A c \in Blocks : ChainWork[c] < ChainWork[b] => c \in S
      PROVE  P(b)
  <2>1. CASE b = Genesis
    BY <2>1, Parents, Zenon
  <2>2. CASE b # Genesis
    <3>1. /\ Parent[b] \in Blocks /\ Anc[b] = {b} \cup Anc[Parent[b]]
          /\ ChainWork[Parent[b]] < ChainWork[b]
      BY <2>2, Parents, Zenon
    <3>2. P(Parent[b])
      BY <1>1, <3>1, Zenon
    <3>3. QED  BY <2>2, <3>1, <3>2, Zenon
  <2>3. QED  BY <2>1, <2>2, Zenon
<1>2. Blocks \subseteq S
  <2>1. \A b \in Blocks : (\A c \in Blocks : ChainWork[c] < ChainWork[b] => c \in S) => b \in S
    BY <1>1, Zenon
  <2> HIDE DEF S
  <2>2. QED  BY <2>1, WorkInduction, Zenon
<1>3. QED  BY <1>2, Zenon

\* The block ConnectTip connects next is a child of the tip.
LEMMA NextChild ==
  ASSUME NEW t \in Threads, pindexMostWork[t] \in Blocks \ {tip}, tip \in Anc[pindexMostWork[t]]
  PROVE  NextOnPath(t) \in Blocks \ {Genesis} /\ Parent[NextOnPath(t)] = tip
<1>1. \E c \in Anc[pindexMostWork[t]] : c # Genesis /\ Parent[c] = tip
  BY Paths, Zenon
<1>2. NextOnPath(t) \in Anc[pindexMostWork[t]] /\ NextOnPath(t) # Genesis
      /\ Parent[NextOnPath(t)] = tip
  BY <1>1, Zenon DEF NextOnPath
<1>3. QED  BY <1>2, Ancestry, Zenon

\* A node that starts from its genesis block (InitBlockIndex) satisfies IInv.
THEOREM InitIInv == Init => IInv
<1> SUFFICES ASSUME Init PROVE IInv  OBVIOUS
<1>1. Types
  BY TreeAssumption, Zenon DEF Init, Types, Unlocked, Locked
<1>2. \A t \in Threads : Control(t)
  BY TreeAssumption, Zenon DEF Init, Control, Locked
<1>3. Following
  BY Names, Zenon DEF Init, Following, Recorded
<1>4. QED  BY <1>1, <1>2, <1>3 DEF IInv

-----------------------------------------------------------------------------
\* A step in which only thread t moves, with cs_main free or its own.
Alone(t) ==
  /\ cs_main \in {t, NoThread} /\ cs_main' \in {t, NoThread}
  /\ pc[t] # "aborted" /\ pc'[t] # "aborted"
  /\ \A u \in Threads \ {t} : pc'[u] = pc[u] /\ pindexMostWork'[u] = pindexMostWork[u]

\* Such a step leaves the other threads where they may be: none of them is at a locked
\* place, and the rest of Control is about locked places.
LEMMA Bystanders ==
  ASSUME IInv, NEW t \in Threads, Alone(t), Control(t)'
  PROVE  \A u \in Threads : Control(u)'
<1> SUFFICES ASSUME NEW u \in Threads, u # t PROVE Control(u)'
  OBVIOUS
<1>1. Control(u) /\ pc[u] # "aborted"
  BY Zenon DEF IInv, Alone, Control
<1>2. cs_main # u /\ cs_main' # u
  BY Names DEF Alone
<1>3. pc[u] \notin Locked
  BY <1>1, <1>2, Zenon DEF Control
<1>4. pc'[u] = pc[u] /\ pindexMostWork'[u] = pindexMostWork[u]
  BY Zenon DEF Alone
<1>5. QED  BY <1>1, <1>2, <1>3, <1>4, Zenon DEF Control, Locked

\* A step that changes nothing.
LEMMA UnchangedKeeps ==
  ASSUME IInv, UNCHANGED vars
  PROVE  IInv'
<1>1. Types'
  BY Zenon DEF IInv, Types, vars, indexVars, chainVars, diskVars, threadVars
<1>2. \A t \in Threads : Control(t)'
  BY Zenon DEF IInv, Control, vars, chainVars, threadVars, diskVars, coinsVars
<1>3. Following'
  BY Zenon DEF IInv, Following, Recorded, vars, chainVars, threadVars, diskVars, coinsVars
<1>4. QED  BY <1>1, <1>2, <1>3 DEF IInv

-----------------------------------------------------------------------------
(* One lemma per group of actions: each keeps IInv.                        *)

\* Arrivals happen under cs_main and leave the chain alone.
LEMMA ArriveKeeps ==
  ASSUME IInv, NEW t \in Threads, Arrive(t)
  PROVE  IInv'
<1> USE DEF IInv
<1>1. PICK b \in Blocks \ {Genesis} :
        \/ ProcessNewBlockHeaders(t, b) \/ RefuseHeader(t, b)
        \/ \E fRequested \in BOOLEAN : StoreBlock(t, b, fRequested)
        \/ \E fRequested \in BOOLEAN :
             RejectBlock(t, b, fRequested) \/ IgnoreBlock(t, b, fRequested)
  BY Zenon DEF Arrive
<1>2. DOMAIN AddToBlockIndex(b) \subseteq Blocks
  BY Zenon DEF AddToBlockIndex, Known, Types
<1>3. CASE ProcessNewBlockHeaders(t, b)
  <2>1. Types'
    BY <1>2, <1>3, Zenon DEF Types, ProcessNewBlockHeaders, chainVars, diskVars, threadVars
  <2>2. \A u \in Threads : Control(u)'
    BY <1>3, Zenon DEF Control, ProcessNewBlockHeaders, chainVars, threadVars, diskVars, coinsVars
  <2>3. Following'
    BY <1>3, Zenon DEF Following, Recorded, diskVars, coinsVars, ProcessNewBlockHeaders, chainVars, threadVars
  <2>4. QED  BY <2>1, <2>2, <2>3
<1>4. ASSUME NEW fRequested \in BOOLEAN, StoreBlock(t, b, fRequested)
      PROVE  IInv'
  <2>1. DOMAIN mapBlockIndex' \subseteq Blocks /\ setBlockIndexCandidates' \subseteq Blocks
    <3> DEFINE ix == AddToBlockIndex(b)
    <3>1. ReceivedBlockTransactions(ix, b)
      BY <1>4, Zenon DEF StoreBlock
    <3>2. Linked(b) \subseteq Blocks
      BY Zenon DEF Linked, Known, Types
    <3>3. DOMAIN ix \subseteq Blocks
      BY <1>2
    <3> HIDE DEF ix
    <3>4. QED
      BY <3>1, <3>2, <3>3, Zenon DEF ReceivedBlockTransactions, Types
  <2>2. Types'
    BY <1>4, <2>1, Zenon DEF Types, StoreBlock, chainVars, Unlocked
  <2>3. \A u \in Threads : Control(u)'
    <3>1. Alone(t)
      BY <1>4, Zenon DEF Alone, Types, StoreBlock, Lock
    <3>2. Control(t)'
      BY <1>4, Names, Zenon DEF Control, Types, StoreBlock, Lock, chainVars, Locked
    <3>3. QED  BY <3>1, <3>2, Bystanders, Zenon
  <2>4. Following'
    BY <1>4, Zenon DEF Following, Recorded, diskVars, coinsVars, StoreBlock, chainVars
  <2>5. QED  BY <2>2, <2>3, <2>4
<1>5. ASSUME NEW fRequested \in BOOLEAN,
             RejectBlock(t, b, fRequested) \/ IgnoreBlock(t, b, fRequested)
      PROVE  IInv'
  <2>1. CASE RejectBlock(t, b, fRequested)
    <3>1. DOMAIN mapBlockIndex' \subseteq Blocks
      BY <1>2, <2>1, Zenon DEF RejectBlock
    <3>2. Types'
      BY <2>1, <3>1, Zenon DEF Types, RejectBlock, chainVars, diskVars, threadVars
    <3>3. \A u \in Threads : Control(u)'
      BY <2>1, Zenon DEF Control, RejectBlock, chainVars, threadVars, diskVars, coinsVars
    <3>4. Following'
      BY <2>1, Zenon DEF Following, Recorded, diskVars, coinsVars, RejectBlock, chainVars, threadVars
    <3>5. QED  BY <3>2, <3>3, <3>4
  <2>2. CASE IgnoreBlock(t, b, fRequested)
    <3>1. Types'
      BY <1>2, <2>2, Zenon DEF Types, IgnoreBlock, chainVars, diskVars, Unlocked
    <3>2. \A u \in Threads : Control(u)'
      <4>1. Alone(t)
        BY <2>2, Zenon DEF Alone, Types, IgnoreBlock, Lock
      <4>2. Control(t)'
        BY <2>2, Names, Zenon DEF Control, Types, IgnoreBlock, Lock, chainVars, Locked
      <4>3. QED  BY <4>1, <4>2, Bystanders, Zenon
    <3>3. Following'
      BY <2>2, Zenon DEF Following, Recorded, diskVars, coinsVars, IgnoreBlock, chainVars
    <3>4. QED  BY <3>1, <3>2, <3>3
  <2>3. QED  BY <1>5, <2>1, <2>2, Zenon
<1>6. CASE RefuseHeader(t, b)
  BY <1>6, UnchangedKeeps, Zenon DEF RefuseHeader
<1>7. QED  BY <1>1, <1>3, <1>4, <1>5, <1>6, Zenon

\* The commands happen under cs_main; InvalidateBlock keeps the lock.
LEMMA OperateKeeps ==
  ASSUME IInv, NEW t \in Threads, Operate(t)
  PROVE  IInv'
<1> USE DEF IInv
<1>1. PICK b \in Blocks :
        InvalidateBlock(t, b) \/ ResetBlockFailureFlags(t, b) \/ PreciousBlock(t, b)
  BY Zenon DEF Operate
<1>2. CASE InvalidateBlock(t, b)
  <2>1. Types'
    BY <1>2, Names, Zenon DEF Types, InvalidateBlock, Known, chainVars, diskVars, Locked
  <2>2. \A u \in Threads : Control(u)'
    <3>1. /\ cs_main = NoThread /\ pc[t] = "idle" /\ b # Genesis
          /\ cs_main' = t /\ pc' = [pc EXCEPT ![t] = "invalidate"] /\ pindexFailed' = b
          /\ UNCHANGED <<tip, coinsTip, headBlocks, pindexMostWork>>
      BY <1>2, Zenon DEF InvalidateBlock, Command, Lock, chainVars, diskVars, coinsVars
    <3>2. Alone(t)
      BY <3>1, Zenon DEF Alone, Types
    <3>3. Control(t)'
      BY <3>1, Names, Zenon DEF Control, Types, Following, Locked
    <3>4. QED  BY <3>2, <3>3, Bystanders, Zenon
  <2>3. Following'
    BY <1>2, Names, Zenon DEF Following, Recorded, diskVars, coinsVars, InvalidateBlock, chainVars
  <2>4. QED  BY <2>1, <2>2, <2>3
<1>3. CASE ResetBlockFailureFlags(t, b)
  <2>1. Types'
    BY <1>3, Ancestry, Zenon DEF Types, ResetBlockFailureFlags, Known, chainVars, diskVars, Unlocked
  <2>2. \A u \in Threads : Control(u)'
    <3>1. /\ cs_main = NoThread /\ pc[t] = "idle" /\ pc' = [pc EXCEPT ![t] = "find"]
          /\ UNCHANGED <<cs_main, pindexMostWork>>
      BY <1>3, Zenon DEF ResetBlockFailureFlags, Command, Lock
    <3>2. Alone(t)
      BY <3>1, Zenon DEF Alone, Types
    <3>3. Control(t)'
      BY <3>1, Names, Zenon DEF Control, Types, Locked
    <3>4. QED  BY <3>2, <3>3, Bystanders, Zenon
  <2>3. Following'
    BY <1>3, Zenon DEF Following, Recorded, diskVars, coinsVars, ResetBlockFailureFlags, chainVars
  <2>4. QED  BY <2>1, <2>2, <2>3
<1>4. CASE PreciousBlock(t, b)
  <2>1. Types'
    BY <1>4, Zenon DEF Types, PreciousBlock, Prune, Known, chainVars, diskVars, Unlocked
  <2>2. \A u \in Threads : Control(u)'
    <3>1. /\ cs_main = NoThread /\ pc[t] = "idle" /\ pc' = [pc EXCEPT ![t] = "find"]
          /\ UNCHANGED <<cs_main, pindexMostWork>>
      BY <1>4, Zenon DEF PreciousBlock, Command, Lock
    <3>2. Alone(t)
      BY <3>1, Zenon DEF Alone, Types
    <3>3. Control(t)'
      BY <3>1, Names, Zenon DEF Control, Types, Locked
    <3>4. QED  BY <3>2, <3>3, Bystanders, Zenon
  <2>3. Following'
    BY <1>4, Zenon DEF Following, Recorded, diskVars, coinsVars, PreciousBlock, chainVars
  <2>4. QED  BY <2>1, <2>2, <2>3
<1>5. QED  BY <1>1, <1>2, <1>3, <1>4, Zenon

\* A turn of ActivateBestChain starts: with a target other than the tip it takes the lock.
LEMMA StartStepKeeps ==
  ASSUME IInv, NEW t \in Threads, StartStep(t)
  PROVE  IInv'
<1> USE DEF IInv
<1>1. PICK target \in IF pindexMostWork[t] = NoBlock THEN FindMostWorkChain
                      ELSE {pindexMostWork[t]} :
        /\ IF pindexMostWork[t] = NoBlock THEN DropUnusable(target)
           ELSE UNCHANGED <<mapBlockIndex, setBlockIndexCandidates>>
        /\ IF target \in {NoBlock, tip}
           THEN /\ pc' = [pc EXCEPT ![t] = "idle"]
                /\ pindexMostWork' = [pindexMostWork EXCEPT ![t] = NoBlock]
                /\ UNCHANGED <<cs_main, pindexOldTip>>
           ELSE /\ pc' = [pc EXCEPT ![t] = "step"]
                /\ pindexMostWork' = [pindexMostWork EXCEPT ![t] = target]
                /\ cs_main' = t /\ pindexOldTip' = tip
  BY Zenon DEF StartStep
<1>2. target \in Blocks \cup {NoBlock}
  BY <1>1, Zenon DEF FindMostWorkChain, Types
<1>3. DOMAIN mapBlockIndex' \subseteq Blocks /\ setBlockIndexCandidates' \subseteq Blocks
  BY <1>1, Zenon DEF DropUnusable, Known, Types
<1>4. Types'
  BY <1>1, <1>2, <1>3, Zenon DEF Types, StartStep, chainVars, diskVars, Unlocked, Locked
<1>5. \A u \in Threads : Control(u)'
  <2>1. /\ cs_main = NoThread /\ pc[t] = "find"
        /\ UNCHANGED <<tip, coinsTip, headBlocks, pindexFailed>>
    BY Zenon DEF StartStep, chainVars, diskVars, coinsVars
  <2>2. Alone(t)
    BY <1>1, <2>1, Zenon DEF Alone, Types
  <2>3. Control(t)'
    <3>1. CASE target \in {NoBlock, tip}
      BY <1>1, <2>1, <3>1, Names, Zenon DEF Control, Types, Locked
    <3>2. CASE target \notin {NoBlock, tip}
      BY <1>1, <1>2, <2>1, <3>2 DEF Control, Types, Following, Locked
    <3>3. QED  BY <3>1, <3>2, Zenon
  <2>4. QED  BY <2>2, <2>3, Bystanders, Zenon
<1>6. Following'
  BY <1>1, Names, Zenon DEF Following, Recorded, diskVars, coinsVars, StartStep, chainVars
<1>7. QED  BY <1>4, <1>5, <1>6, Zenon

\* What FlushIndex and NoFlush leave of the sets IInv speaks of.
LEMMA FlushTypes ==
  ASSUME Types, NEW ix, NEW dirty, dirty \subseteq Blocks, FlushIndex(ix, dirty) \/ NoFlush(dirty)
  PROVE  setDirtyBlockIndex' \subseteq Blocks /\ DOMAIN diskIndex' \subseteq Blocks
BY Zenon DEF Types, FlushIndex, NoFlush

\* While no coins are being written, those on disk do not depend on the ones in memory.
LEMMA RecordedMoves ==
  ASSUME Recorded, headBlocks = <<>>, UNCHANGED coinsVars
  PROVE  Recorded' /\ headBlocks' = <<>>
<1>1. headBlocks = <<>> /\ bestBlock \in Blocks /\ diskCoins = {bestBlock}
  BY DEF Recorded
<1>2. QED  BY <1>1, Zenon DEF Recorded, coinsVars

\* DisconnectTip takes a tip other than Genesis to its parent, in one move or, if it has
\* to flush, coins first.
LEMMA DisconnectKeeps ==
  ASSUME IInv, NEW t \in Threads, NEW ix, NEW dirty, dirty \subseteq Blocks,
         cs_main = t, pc[t] \in {"step", "invalidate"}, tip # Genesis,
         DisconnectTip(t, ix, dirty),
         DOMAIN mapBlockIndex' \subseteq Blocks, setBlockIndexCandidates' \subseteq Blocks,
         UNCHANGED <<coinsVars, pindexFailed>>
  PROVE  IInv'
<1> USE DEF IInv
<1>1. Parent[tip] \in Blocks /\ Parent[tip] \in Anc[tip]
  BY Ancestry, Zenon DEF Types
<1>2. /\ setDirtyBlockIndex' \subseteq Blocks /\ DOMAIN diskIndex' \subseteq Blocks
      /\ Recorded' /\ headBlocks' = <<>>
  <2>1. headBlocks = <<>> /\ Recorded
    BY Zenon DEF Control, Following
  <2>2. QED  BY <2>1, FlushTypes, RecordedMoves, Zenon DEF DisconnectTip
<1>3. CASE AfterDisconnect(t, Parent[tip])
  <2>1. Types'
    BY <1>1, <1>2, <1>3, Zenon
    DEF Types, DisconnectTip, DisconnectBlock, AfterDisconnect, Reached, Continue, Unlocked, Locked
  <2>2. \A u \in Threads : Control(u)'
    <3>1. Alone(t)
      BY <1>3, Zenon DEF Alone, Types, AfterDisconnect, Reached, Continue
    <3>2. Control(t)'
      BY <1>1, <1>2, <1>3, Names
      DEF Control, Types, DisconnectTip, DisconnectBlock, AfterDisconnect, Reached, Continue, Locked
    <3>3. QED  BY <3>1, <3>2, Bystanders, Zenon
  <2>3. Following'
    BY <1>1, <1>2, <1>3, Names, Zenon
    DEF Following, Control, Types, DisconnectTip, DisconnectBlock, AfterDisconnect, Reached,
        Continue, Locked
  <2>4. QED  BY <2>1, <2>2, <2>3, Zenon
<1>4. CASE Continue(t, "flush") /\ UNCHANGED tip
  <2>1. Types'
    BY <1>1, <1>2, <1>4, Zenon DEF Types, DisconnectTip, DisconnectBlock, Continue, Locked
  <2>2. \A u \in Threads : Control(u)'
    <3>1. Alone(t)
      BY <1>4, Zenon DEF Alone, Types, Continue
    <3>2. Control(t)'
      BY <1>1, <1>2, <1>4, Names, Zenon
      DEF Control, Types, DisconnectTip, DisconnectBlock, Continue, Locked
    <3>3. QED  BY <3>1, <3>2, Bystanders, Zenon
  <2>3. Following'
    BY <1>1, <1>2, <1>4, Names, Zenon DEF Following, DisconnectTip, DisconnectBlock, Continue
  <2>4. QED  BY <2>1, <2>2, <2>3, Zenon
<1>5. QED  BY <1>3, <1>4, Zenon DEF DisconnectTip

\* DisconnectTip as ActivateBestChainStep calls it.
LEMMA StepDisconnectKeeps ==
  ASSUME IInv, NEW t \in Threads, StepDisconnect(t)
  PROVE  IInv'
<1>1. pindexMostWork[t] \in Blocks
  BY Zenon DEF IInv, Control, StepDisconnect
<1>2. tip # Genesis
  BY <1>1, Paths, Zenon DEF StepDisconnect
<1>3. QED  BY <1>2, DisconnectKeeps, Zenon DEF IInv, Types, StepDisconnect

\* DisconnectTip as InvalidateBlock calls it.
LEMMA InvalidateTipKeeps ==
  ASSUME IInv, NEW t \in Threads, InvalidateTip(t)
  PROVE  IInv'
<1>1. tip # Genesis
  BY Names, Root, Zenon DEF IInv, Types, Control, InvalidateTip, Contains
<1> DEFINE ix == [mapBlockIndex EXCEPT ![tip].failed = @ \cup {"CHILD"}]
<1>2. DOMAIN ix \subseteq Blocks
  BY Zenon DEF IInv, Types
<1>3. mapBlockIndex' = ix /\ DisconnectTip(t, ix, setDirtyBlockIndex \cup {tip})
  BY Zenon DEF InvalidateTip
<1> HIDE DEF ix
<1>4. QED
  BY <1>1, <1>2, <1>3, DisconnectKeeps DEF IInv, Types, InvalidateTip

\* Once the tip has moved to a block whose coins are in place.
LEMMA AfterConnectKeeps ==
  ASSUME IInv, NEW t \in Threads, NEW ix, NEW b \in Blocks,
         cs_main = t, pc[t] \in {"step", "flush"}, pindexMostWork[t] \in Blocks,
         pindexFailed = NoBlock, AfterConnect(t, b, ix),
         coinsTip' = b, stateRoot' = b, Recorded', headBlocks' = <<>>, UNCHANGED pindexFailed,
         DOMAIN mapBlockIndex' \subseteq Blocks, setDirtyBlockIndex' \subseteq Blocks,
         DOMAIN diskIndex' \subseteq Blocks
  PROVE  IInv'
<1> USE DEF IInv
<1>1. Types'
  BY Names, Zenon DEF Types, AfterConnect, Reached, Continue, Abort, Prune, Unlocked, Locked
<1>2. \A u \in Threads : Control(u)'
  <2>1. CASE Abort
    BY <2>1, Names, Zenon DEF Abort, Control, Locked
  <2>2. CASE ~ Abort
    <3>1. /\ tip' = b
          /\ \/ Reached(t)
             \/ Continue(t, "step") /\ b # pindexMostWork[t]
             \/ /\ pc' = [pc EXCEPT ![t] = "find"]
                /\ cs_main' = NoThread /\ UNCHANGED pindexMostWork
      BY <2>2, Zenon DEF AfterConnect
    <3>2. Alone(t)
      BY <3>1, Zenon DEF Alone, Types, Reached, Continue
    <3>3. Control(t)'
      BY <3>1, Names DEF Control, Types, Reached, Continue, Locked
    <3>4. QED  BY <3>2, <3>3, Bystanders, Zenon
  <2>3. QED  BY <2>1, <2>2, Zenon
<1>3. Following'
  BY Zenon DEF Following, AfterConnect
<1>4. QED  BY <1>1, <1>2, <1>3, Zenon

\* ConnectTip takes the tip to a child, in one move or, if it has to flush, coins first.
LEMMA ConnectTipKeeps ==
  ASSUME IInv, NEW t \in Threads, ConnectTip(t)
  PROVE  IInv'
<1> DEFINE b == NextOnPath(t)
           ix == ConnectBlock(b)
           dirty == setDirtyBlockIndex \cup {x \in {b} : Unfinished(mapBlockIndex[x])}
<1>1. /\ cs_main = t /\ pc[t] = "step" /\ pindexMostWork[t] \in Blocks \ {tip}
      /\ pindexFailed = NoBlock /\ tip \in Anc[pindexMostWork[t]]
  BY Zenon DEF IInv, Control, ConnectTip
<1>2. b \in Blocks
  BY <1>1, NextChild, Zenon
<1>3. DOMAIN ix \subseteq Blocks
  BY Zenon DEF IInv, Types, ConnectBlock
<1>4. dirty \subseteq Blocks
  BY <1>2, Zenon DEF IInv, Types
<1>5. /\ mapBlockIndex' = ix /\ coinsTip' = b /\ stateRoot' = b
      /\ \/ NoFlush(dirty) /\ AfterConnect(t, b, ix)
         \/ /\ FlushIndex(ix, dirty) /\ Continue(t, "flush")
            /\ UNCHANGED <<tip, setBlockIndexCandidates>>
      /\ UNCHANGED <<coinsVars, pindexFailed>>
  BY Zenon DEF ConnectTip
<1> HIDE DEF b, ix, dirty
<1>6. setDirtyBlockIndex' \subseteq Blocks /\ DOMAIN diskIndex' \subseteq Blocks
  BY <1>4, <1>5, FlushTypes, Zenon DEF IInv
<1>10. Recorded' /\ headBlocks' = <<>>
  <2>1. headBlocks = <<>> /\ Recorded
    BY <1>1, Zenon DEF IInv, Control, Following
  <2>2. QED  BY <1>5, <2>1, RecordedMoves, Zenon
<1>7. CASE AfterConnect(t, b, ix)
  BY <1>1, <1>2, <1>3, <1>5, <1>6, <1>7, <1>10, AfterConnectKeeps, Zenon DEF IInv, Types
<1>8. CASE Continue(t, "flush") /\ UNCHANGED <<tip, setBlockIndexCandidates>>
  <2>1. Types'
    BY <1>2, <1>3, <1>5, <1>6, <1>8, Zenon DEF IInv, Types, Continue, Locked
  <2>2. \A u \in Threads : Control(u)'
    <3>1. Alone(t)
      BY <1>1, <1>8, Zenon DEF Alone, IInv, Types, Continue
    <3>2. Control(t)'
      BY <1>1, <1>5, <1>8, Names, Zenon DEF IInv, Control, Types, Continue, Locked
    <3>3. QED  BY <3>1, <3>2, Bystanders
  <2>3. Following'
    BY <1>1, <1>5, <1>8, <1>10, Names, Zenon DEF Following, Continue
  <2>4. QED  BY <2>1, <2>2, <2>3 DEF IInv
<1>9. QED  BY <1>5, <1>7, <1>8, Zenon

\* A tip that cannot be disconnected, or a block that may be corrupt, ends the turn.
LEMMA GiveUpKeeps ==
  ASSUME IInv, NEW t \in Threads, StepDisconnectFails(t) \/ ConnectTipCorrupt(t)
  PROVE  IInv'
<1> USE DEF IInv
<1>1. PICK where \in {"idle", "find"} :
        /\ cs_main = t /\ pc[t] = "step" /\ cs_main' = NoThread
        /\ pc' = [pc EXCEPT ![t] = where]
        /\ pindexMostWork' = [pindexMostWork EXCEPT ![t] = NoBlock]
        /\ UNCHANGED <<indexVars, chainVars, diskVars, pindexFailed>>
  BY Zenon DEF StepDisconnectFails, ConnectTipCorrupt
<1>2. Types'
  BY <1>1, Zenon DEF Types, indexVars, chainVars, diskVars, Unlocked
<1>3. \A u \in Threads : Control(u)'
  <2>1. Alone(t)
    BY <1>1, Zenon DEF Alone, Types
  <2>2. Control(t)'
    BY <1>1, Names, Zenon DEF Control, Types, Locked
  <2>3. QED  BY <2>1, <2>2, Bystanders, Zenon
<1>4. Following'
  BY <1>1, Zenon DEF Following, Recorded, diskVars, coinsVars, Control, chainVars, Locked
<1>5. QED  BY <1>2, <1>3, <1>4

\* A block that fails to connect leaves tip, coins and roots where they were.
LEMMA ConnectTipFailsKeeps ==
  ASSUME IInv, NEW t \in Threads, ConnectTipFails(t)
  PROVE  IInv'
<1> USE DEF IInv
<1>1. NextOnPath(t) \in Blocks
  BY NextChild, Zenon DEF ConnectTipFails, Control
<1>2. Types'
  BY <1>1, Zenon DEF Types, ConnectTipFails, diskVars, Unlocked
<1>3. \A u \in Threads : Control(u)'
  <2>1. /\ cs_main = t /\ pc[t] = "step" /\ cs_main' = NoThread
        /\ pc' = [pc EXCEPT ![t] = "find"]
        /\ pindexMostWork' = [pindexMostWork EXCEPT ![t] = NoBlock]
    BY Zenon DEF ConnectTipFails
  <2>2. Alone(t)
    BY <2>1, Zenon DEF Alone, Types
  <2>3. Control(t)'
    BY <2>1, Names, Zenon DEF Control, Types, Locked
  <2>4. QED  BY <2>2, <2>3, Bystanders, Zenon
<1>4. Following'
  BY Zenon DEF Following, Recorded, diskVars, coinsVars, Control, ConnectTipFails, Locked
<1>5. QED  BY <1>2, <1>3, <1>4

\* The last batch: the coins on disk are the state after one block again.
LEMMA LastRecorded ==
  ASSUME coinsTip \in Blocks, LastBatch
  PROVE  Recorded' /\ headBlocks' = <<>>
BY Zenon DEF LastBatch, Recorded

\* A batch that is not the last one: the heads tell where the coins are.
LEMMA PartialBatchKeeps ==
  ASSUME IInv, NEW t \in Threads, PartialBatch(t)
  PROVE  IInv'
<1> USE DEF IInv
<1>1. /\ pc[t] \in {"flush", "flushPeriodic", "replay"} /\ cs_main = t
      /\ UNCHANGED <<indexVars, chainVars, threadVars, diskIndex>>
  BY Zenon DEF PartialBatch
<1>2. Types'
  BY <1>1, Zenon DEF Types, indexVars, chainVars, threadVars
<1>3. \A u \in Threads : Control(u)'
  <2>1. Alone(t)
    BY <1>1, Zenon DEF Alone, threadVars
  <2>2. Control(t)'
    BY <1>1, Zenon DEF Control, chainVars, threadVars
  <2>3. QED  BY <2>1, <2>2, Bystanders, Zenon
<1>4. Recorded'
  <2>1. coinsTip' = coinsTip /\ coinsTip \in Blocks /\ Recorded
    BY <1>1, Zenon DEF Types, Following, chainVars
  <2>2. CASE bestBlock = NoBlock
    <3>1. PICK old \in Blocks : headBlocks = <<coinsTip, old>> /\ diskCoins \subseteq {coinsTip, old}
      BY <2>1, <2>2, Names, Zenon DEF Recorded
    <3>2. /\ headBlocks' = <<coinsTip, old>> /\ bestBlock' = NoBlock
          /\ diskCoins' \subseteq {coinsTip, old}
      BY <2>2, <3>1, Zenon DEF PartialBatch
    <3>3. QED  BY <2>1, <3>2, Zenon DEF Recorded
  <2>3. CASE bestBlock # NoBlock
    <3>1. bestBlock \in Blocks /\ diskCoins = {bestBlock}
      BY <2>1, <2>3, Zenon DEF Recorded
    <3>2. /\ headBlocks' = <<coinsTip, bestBlock>> /\ bestBlock' = NoBlock
          /\ diskCoins' \subseteq {coinsTip, bestBlock}
      BY <2>3, <3>1, Zenon DEF PartialBatch
    <3>3. QED  BY <2>1, <3>1, <3>2, Zenon DEF Recorded
  <2>4. QED  BY <2>2, <2>3
<1>5. Following'
  BY <1>1, <1>4, Names, Zenon DEF Following, chainVars, threadVars
<1>6. QED  BY <1>2, <1>3, <1>5

\* The second half of a flushing Connect- or DisconnectTip.
LEMMA FlushTipKeeps ==
  ASSUME IInv, NEW t \in Threads, FlushTip(t)
  PROVE  IInv'
<1> USE DEF IInv
<1>1. cs_main = t /\ pc[t] = "flush" /\ coinsTip \in Blocks /\ stateRoot = coinsTip
  BY Zenon DEF FlushTip, Types, Following
<1>5. Recorded' /\ headBlocks' = <<>>
  BY <1>1, LastRecorded, Zenon DEF FlushTip
<1>2. CASE coinsTip \in Anc[tip]
  <2>1. AfterDisconnect(t, coinsTip)
    BY <1>2, Zenon DEF FlushTip
  <2>2. Types'
    BY <1>1, <2>1, <1>2, Zenon
    DEF Types, FlushTip, LastBatch, AfterDisconnect, Reached, Continue, Unlocked, Locked
  <2>3. \A u \in Threads : Control(u)'
    <3>1. Alone(t)
      BY <1>1, <2>1, Zenon DEF Alone, Types, AfterDisconnect, Reached, Continue
    <3>2. UNCHANGED <<coinsTip, pindexFailed>>
      BY Zenon DEF FlushTip
    <3>3. Control(t)'
      BY <1>1, <1>5, <2>1, <3>2, Names
      DEF Control, Types, AfterDisconnect, Reached, Continue, Locked
    <3>4. QED  BY <3>1, <3>3, Bystanders
  <2>4. Following'
    BY <1>1, <1>5, <2>1, Names, Zenon
    DEF Following, Control, Types, FlushTip, AfterDisconnect, Reached, Continue
  <2>5. QED  BY <2>2, <2>3, <2>4
<1>3. CASE coinsTip \notin Anc[tip]
  <2>1. AfterConnect(t, coinsTip, mapBlockIndex)
    BY <1>3, Zenon DEF FlushTip
  <2>2. pindexFailed = NoBlock /\ pindexMostWork[t] \in Blocks
    BY <1>1, <1>3, Zenon DEF Control
  <2>3. QED
    BY <1>1, <1>5, <2>1, <2>2, AfterConnectKeeps, Zenon DEF FlushTip, Types
<1>4. QED  BY <1>2, <1>3, Zenon

\* The flush at the end of ActivateBestChain moves neither tip nor coins.
LEMMA PeriodicKeeps ==
  ASSUME IInv, NEW t \in Threads, FlushPeriodic(t) \/ FlushPeriodicCoins(t)
  PROVE  IInv'
<1> USE DEF IInv
<1>1. CASE FlushPeriodic(t)
  <2>1. setDirtyBlockIndex' \subseteq Blocks /\ DOMAIN diskIndex' \subseteq Blocks
    BY <1>1, FlushTypes, Zenon DEF FlushPeriodic, Types
  <2>2. Types'
    BY <1>1, <2>1, Zenon DEF Types, FlushPeriodic, chainVars, Unlocked, Locked
  <2>3. \A u \in Threads : Control(u)'
    <3>1. /\ cs_main = NoThread /\ pc[t] = "periodic"
          /\ \/ pc' = [pc EXCEPT ![t] = "idle"] /\ UNCHANGED cs_main
             \/ pc' = [pc EXCEPT ![t] = "flushPeriodic"] /\ cs_main' = t
          /\ UNCHANGED <<tip, coinsTip, pindexMostWork, pindexFailed>>
      BY <1>1, Zenon DEF FlushPeriodic, chainVars
    <3>2. Alone(t)
      BY <3>1, Zenon DEF Alone, Types
    <3>3. Control(t)'
      BY <3>1, Names, Zenon DEF Control, Types, Following, Locked
    <3>4. QED  BY <3>2, <3>3, Bystanders, Zenon
  <2>4. Following'
    BY <1>1, Names, Zenon DEF Following, Recorded, diskVars, coinsVars, FlushPeriodic, chainVars
  <2>5. QED  BY <2>2, <2>3, <2>4
<1>2. CASE FlushPeriodicCoins(t)
  <2>1. Types'
    BY <1>2, Zenon DEF Types, FlushPeriodicCoins, LastBatch, indexVars, chainVars, Unlocked
  <2>2. \A u \in Threads : Control(u)'
    <3>1. /\ cs_main = t /\ pc[t] \in {"flushPeriodic", "replay"} /\ cs_main' = NoThread
          /\ \/ pc' = [pc EXCEPT ![t] = "find"]
             \/ pc' = [pc EXCEPT ![t] = "idle"]
          /\ UNCHANGED pindexMostWork
      BY <1>2, Zenon DEF FlushPeriodicCoins
    <3>2. Alone(t)
      BY <3>1, Zenon DEF Alone, Types
    <3>3. Control(t)'
      BY <3>1, Names, Zenon DEF Control, Types, Locked
    <3>4. QED  BY <3>2, <3>3, Bystanders, Zenon
  <2>3. Following'
    <3>1. Recorded' /\ headBlocks' = <<>>
      BY <1>2, LastRecorded, Zenon DEF FlushPeriodicCoins, Types
    <3>2. QED  BY <1>2, <3>1, Zenon DEF Following, Control, FlushPeriodicCoins, chainVars, Locked
  <2>4. QED  BY <2>1, <2>2, <2>3
<1>3. QED  BY <1>1, <1>2, Zenon

\* InvalidateBlock changes only marks and candidates in the end, and releases the lock.
LEMMA InvalidateEndKeeps ==
  ASSUME IInv, NEW t \in Threads, InvalidateEnd(t) \/ InvalidateTipFails(t)
  PROVE  IInv'
<1> USE DEF IInv
<1>1. Types'
  BY Zenon DEF Types, InvalidateEnd, InvalidateTipFails, Known, chainVars, diskVars, Unlocked
<1>2. \A u \in Threads : Control(u)'
  <2>1. /\ cs_main = t /\ pc[t] = "invalidate" /\ cs_main' = NoThread
        /\ pc' = [pc EXCEPT ![t] = "find"] /\ UNCHANGED pindexMostWork
    BY Zenon DEF InvalidateEnd, InvalidateTipFails
  <2>2. Alone(t)
    BY <2>1, Zenon DEF Alone, Types
  <2>3. Control(t)'
    BY <2>1, Names, Zenon DEF Control, Types, Locked
  <2>4. QED  BY <2>2, <2>3, Bystanders, Zenon
<1>3. Following'
  <2>1. /\ pc[t] = "invalidate" /\ pindexFailed' = NoBlock
        /\ UNCHANGED <<tip, coinsTip, stateRoot, diskCoins, bestBlock, headBlocks>>
    BY Zenon DEF InvalidateEnd, InvalidateTipFails, chainVars, diskVars, coinsVars
  <2>2. coinsTip = tip /\ headBlocks = <<>>
    BY <2>1, Zenon DEF Control, Locked
  <2>3. QED  BY <2>1, <2>2, Zenon DEF Following, Recorded
<1>4. QED  BY <1>1, <1>2, <1>3

\* The block the next start begins with: while the coins are written, it is theirs.
LEMMA Start ==
  ASSUME IInv
  PROVE  /\ StartBlock \in Blocks /\ Heads \subseteq Blocks /\ diskCoins \subseteq Heads
         /\ headBlocks # <<>> => StartBlock = coinsTip
         /\ headBlocks = <<>> => StartBlock = bestBlock
<1>1. Recorded /\ coinsTip \in Blocks
  BY Zenon DEF IInv, Following, Types
<1>2. CASE headBlocks = <<>> /\ bestBlock \in Blocks /\ diskCoins = {bestBlock}
  BY <1>2 DEF StartBlock, Heads
<1>3. CASE \E old \in Blocks : /\ headBlocks = <<coinsTip, old>> /\ bestBlock = NoBlock
                              /\ diskCoins \subseteq {coinsTip, old}
  <2>1. PICK old \in Blocks : headBlocks = <<coinsTip, old>> /\ diskCoins \subseteq {coinsTip, old}
    BY <1>3, Zenon
  <2>2. headBlocks # <<>> /\ headBlocks[1] = coinsTip /\ headBlocks[2] = old
    BY <2>1
  <2>3. QED  BY <1>1, <2>1, <2>2, Zenon DEF StartBlock, Heads
<1>4. QED  BY <1>1, <1>2, <1>3, Zenon DEF Recorded

\* A restart takes tip, coins and roots from the coins on disk.
LEMMA RestartKeeps ==
  ASSUME IInv, NEW t \in Threads, Restart(t)
  PROVE  IInv'
<1>1. /\ tip' = StartBlock /\ coinsTip' = StartBlock /\ stateRoot' = StartBlock
      /\ UNCHANGED <<diskIndex, diskCoins, bestBlock, headBlocks>>
      /\ setDirtyBlockIndex' = {} /\ pindexFailed' = NoBlock
      /\ pindexMostWork' = [x \in Threads |-> NoBlock]
  BY Zenon DEF Restart, coinsVars
<1>2. PICK cands : LET first == IF cands = {} THEN "aborted"
                                ELSE IF headBlocks # <<>> THEN "replay" ELSE "find"
                   IN /\ cs_main' = IF first = "find" THEN NoThread ELSE t
                      /\ pc' = [x \in Threads |-> IF x = t \/ cands = {} THEN first ELSE "idle"]
  BY Zenon DEF Restart
<1>3. \/ (\A x \in Threads : pc'[x] = "aborted") /\ cs_main' = t
      \/ /\ pc'[t] = "replay" /\ cs_main' = t /\ \A x \in Threads \ {t} : pc'[x] = "idle"
      \/ /\ pc'[t] = "find" /\ cs_main' = NoThread /\ headBlocks = <<>>
         /\ \A x \in Threads \ {t} : pc'[x] = "idle"
  BY <1>2, Zenon
<1>4. Types'
  <2>1. DOMAIN mapBlockIndex' \subseteq Blocks /\ setBlockIndexCandidates' \subseteq Blocks
    BY Zenon DEF IInv, Restart, Prune, Types
  <2>2. pc' \in [Threads -> Unlocked \cup Locked \cup {"aborted"}]
    BY <1>2, Zenon DEF Unlocked, Locked
  <2>3. QED  BY <1>1, <1>3, <2>1, <2>2, Start, Zenon DEF IInv, Types
<1>5. \A u \in Threads : Control(u)'
  BY <1>1, <1>3, Names, Zenon DEF Control, Locked
<1>6. Following'
  <2>1. Recorded'
    <3>1. Recorded /\ StartBlock \in Blocks
          /\ (headBlocks # <<>> => StartBlock = coinsTip)
      BY Start, Zenon DEF IInv, Following
    <3>2. CASE headBlocks = <<>>
      BY <1>1, <3>1, <3>2, Zenon DEF Recorded
    <3>3. CASE headBlocks # <<>>
      BY <1>1, <3>1, <3>3, Zenon DEF Recorded
    <3>4. QED  BY <3>2, <3>3
  <2>2. QED  BY <1>1, <1>3, <2>1, Names, Zenon DEF Following
<1>7. QED  BY <1>4, <1>5, <1>6 DEF IInv

-----------------------------------------------------------------------------
\* IInv is inductive.
THEOREM NextIInv == IInv /\ [Next]_vars => IInv'
<1> SUFFICES ASSUME IInv, [Next]_vars PROVE IInv'  OBVIOUS
<1>1. ASSUME NEW t \in Threads, Activate(t) PROVE IInv'
  BY <1>1, StartStepKeeps, StepDisconnectKeeps, ConnectTipKeeps, ConnectTipFailsKeeps, GiveUpKeeps,
     FlushTipKeeps, PeriodicKeeps, PartialBatchKeeps, InvalidateTipKeeps, InvalidateEndKeeps, Zenon
  DEF Activate
<1>2. CASE UNCHANGED vars
  BY <1>2, UnchangedKeeps
<1>3. QED
  BY <1>1, <1>2, ArriveKeeps, OperateKeeps, RestartKeeps, Zenon DEF Next

\* IInv holds in every reachable state.
THEOREM AlwaysIInv == Spec => []IInv
BY InitIInv, NextIInv, PTL DEF Spec

\* Whenever cs_main is free, the coins cache and the contract state belong to the tip, for
\* every block tree and any number of threads, commands and crashes: no path through
\* ConnectTip, DisconnectTip, InvalidateBlock or a restart leaves them behind.
THEOREM CoinsTheorem == Spec => []CoinsFollowTip
<1>1. IInv => CoinsFollowTip
  BY DEF IInv, Following, CoinsFollowTip
<1>2. QED  BY <1>1, AlwaysIInv, PTL

-----------------------------------------------------------------------------
(* The refinement: which step of Ledger each action is.                    *)

\* What the ledger takes for saved is the block of the next start.
LEMMA SavedStart ==
  IInv => /\ Saved = StartBlock
          /\ headBlocks # <<>> => StartBlock = coinsTip
          /\ headBlocks = <<>> => StartBlock = bestBlock
BY Start, Zenon DEF Saved

\* The coins of a new node are those of the genesis block, as Ledger starts.
LEMMA InitLedger == Init => Coins!Init
<1> SUFFICES ASSUME Init PROVE Coins!Init
  OBVIOUS
<1>1. headBlocks = <<>> /\ bestBlock = Genesis /\ coinsTip = Genesis
  BY Zenon DEF Init
<1>2. Saved = Genesis
  BY <1>1, InitIInv, SavedStart DEF StartBlock
<1>3. QED  BY <1>1, <1>2 DEF Coins!Init

\* A step that does not write coins leaves the block of the next start.
LEMMA SavedKept ==
  ASSUME IInv, IInv', UNCHANGED coinsVars
  PROVE  UNCHANGED Saved
BY SavedStart, Zenon DEF coinsVars, Saved, StartBlock, Heads

\* DisconnectTip moves the coins to the parent of the block they are at.
LEMMA DisconnectLedger ==
  ASSUME IInv, IInv', NEW t \in Threads, StepDisconnect(t) \/ InvalidateTip(t)
  PROVE  Coins!Disconnect
<1>1. coinsTip = tip
  BY Zenon DEF IInv, Control, StepDisconnect, InvalidateTip, Locked
<1>2. tip # Genesis
  <2>1. CASE StepDisconnect(t)
    BY <2>1, Paths DEF IInv, Control, StepDisconnect
  <2>2. CASE InvalidateTip(t)
    BY <2>2, Names, Root, Zenon DEF IInv, Types, Control, InvalidateTip, Contains
  <2>3. QED  BY <2>1, <2>2
<1>3. coinsTip' = Parent[tip] /\ UNCHANGED coinsVars
  BY Zenon DEF StepDisconnect, InvalidateTip, DisconnectTip, DisconnectBlock
<1>4. QED  BY <1>1, <1>2, <1>3, SavedKept DEF Coins!Disconnect

\* ConnectTip moves the coins to a child of the block they are at.
LEMMA ConnectLedger ==
  ASSUME IInv, IInv', NEW t \in Threads, ConnectTip(t)
  PROVE  Coins!Connect
<1>1. coinsTip = tip
  BY Zenon DEF IInv, Control, ConnectTip, Locked
<1>2. NextOnPath(t) \in Blocks \ {Genesis} /\ Parent[NextOnPath(t)] = tip
  BY NextChild, Zenon DEF IInv, Control, ConnectTip
<1>3. coinsTip' = NextOnPath(t) /\ UNCHANGED coinsVars
  BY Zenon DEF ConnectTip
<1>4. QED  BY <1>1, <1>2, <1>3, SavedKept, Zenon DEF Coins!Connect

\* The first batch already makes the coins of the cache those of the next start: with the
\* heads on disk they can be completed.  Further batches change nothing about it.
LEMMA BatchLedger ==
  ASSUME IInv, IInv', NEW t \in Threads,
         FlushTip(t) \/ FlushPeriodicCoins(t) \/ PartialBatch(t)
  PROVE  Coins!Save
<1>1. UNCHANGED coinsTip
  BY Zenon DEF FlushTip, FlushPeriodicCoins, PartialBatch, chainVars
<1>2. (/\ Saved = StartBlock
       /\ headBlocks # <<>> => StartBlock = coinsTip
       /\ headBlocks = <<>> => StartBlock = bestBlock)'
  BY SavedStart, PTL
<1>3. CASE PartialBatch(t)
  <2>1. headBlocks' # <<>>
    <3>1. bestBlock' = NoBlock
      BY <1>3, Zenon DEF PartialBatch
    <3>2. Recorded'
      BY Zenon DEF IInv, Following
    <3>3. QED  BY <3>1, <3>2, Names DEF Recorded
  <2>2. QED  BY <1>1, <1>2, <2>1 DEF Coins!Save
<1>4. CASE FlushTip(t) \/ FlushPeriodicCoins(t)
  <2>1. headBlocks' = <<>> /\ bestBlock' = coinsTip
    BY <1>4, Zenon DEF FlushTip, FlushPeriodicCoins, LastBatch
  <2>2. QED  BY <1>1, <1>2, <2>1 DEF Coins!Save
<1>5. QED  BY <1>3, <1>4

\* Every step of the node is a step of the ledger or leaves it alone.
THEOREM NextLedger ==
  IInv /\ IInv' /\ [Next]_vars => [Coins!Next]_<<coinsTip, Saved>>
<1> SUFFICES ASSUME IInv, IInv', [Next]_vars
             PROVE  Coins!Next \/ UNCHANGED <<coinsTip, Saved>>
  OBVIOUS
<1>1. ASSUME NEW t \in Threads, Activate(t)
      PROVE  Coins!Next \/ UNCHANGED <<coinsTip, Saved>>
  <2>1. CASE StepDisconnect(t) \/ InvalidateTip(t)
    BY <2>1, DisconnectLedger DEF Coins!Next
  <2>2. CASE ConnectTip(t)
    BY <2>2, ConnectLedger DEF Coins!Next
  <2>3. CASE FlushTip(t) \/ FlushPeriodicCoins(t) \/ PartialBatch(t)
    BY <2>3, BatchLedger DEF Coins!Next
  <2>4. CASE \/ StartStep(t) \/ FlushPeriodic(t) \/ InvalidateEnd(t) \/ ConnectTipFails(t)
             \/ StepDisconnectFails(t) \/ ConnectTipCorrupt(t) \/ InvalidateTipFails(t)
    <3>1. UNCHANGED <<coinsTip, coinsVars>>
      BY <2>4, Zenon DEF StartStep, FlushPeriodic, InvalidateEnd, ConnectTipFails,
           StepDisconnectFails, ConnectTipCorrupt, InvalidateTipFails, chainVars, diskVars
    <3>2. QED  BY <3>1, SavedKept
  <2>5. QED  BY <1>1, <2>1, <2>2, <2>3, <2>4, Zenon DEF Activate
<1>2. ASSUME NEW t \in Threads, Arrive(t) \/ Operate(t)
      PROVE  UNCHANGED <<coinsTip, Saved>>
  <2>1. UNCHANGED <<coinsTip, coinsVars>>
    BY <1>2, Zenon DEF Arrive, Operate, ProcessNewBlockHeaders, RefuseHeader, StoreBlock,
         RejectBlock, IgnoreBlock, InvalidateBlock, ResetBlockFailureFlags, PreciousBlock,
         chainVars, diskVars, vars
  <2>2. QED  BY <2>1, SavedKept
<1>3. ASSUME NEW t \in Threads, Restart(t)
      PROVE  Coins!Next
  <2>1. coinsTip' = StartBlock /\ UNCHANGED coinsVars
    BY <1>3, Zenon DEF Restart
  <2>2. QED  BY <2>1, SavedStart, SavedKept DEF Coins!Next, Coins!Crash
<1>4. CASE UNCHANGED vars
  <2>1. UNCHANGED <<coinsTip, coinsVars>>
    BY <1>4, Zenon DEF vars, chainVars, diskVars
  <2>2. QED  BY <2>1, SavedKept
<1>5. QED  BY <1>1, <1>2, <1>3, <1>4, Zenon DEF Next

\* The node implements the ledger: over any history of arrivals, reorganisations, commands,
\* flushes in any number of batches and crashes after any of them, the coins move one block
\* at a time along the tree, and come back after a crash as the state after one block, the
\* one the last write begun was to save.
THEOREM LedgerTheorem == Spec => LedgerSpec
<1>1. Init => Coins!Init
  BY InitLedger
<1>2. QED
  BY <1>1, AlwaysIInv, NextLedger, PTL DEF Spec, LedgerSpec, Coins!Spec
=============================================================================
