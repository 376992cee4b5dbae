-------------------------- MODULE ChainDiskProofs --------------------------
(***************************************************************************)
(* Every step of ChainState keeps the invariant Base of ChainIndexProofs:  *)
(* here activation, flushing and restarts.  Base implies DiskRecoverable,  *)
(* so a crash at any moment leaves a disk the node can start from.         *)
(***************************************************************************)
EXTENDS ChainIndexProofs

-----------------------------------------------------------------------------
(* Activating the best chain.                                              *)

\* The blocks StartStep marks as children of failed ones.
Dropped(found) == UNION {AboveFailed(c) : c \in Tried(found)}

\* FindMostWorkChain marks blocks above failed ones and takes candidates away.
LEMMA DropEffect ==
  ASSUME NEW found, DropUnusable(found)
  PROVE  /\ mapBlockIndex' = Flags(mapBlockIndex, Dropped(found), "CHILD")
         /\ setBlockIndexCandidates' \subseteq setBlockIndexCandidates
BY Zenon DEF DropUnusable, Flags, Flagged, Dropped, Known

\* A turn of ActivateBestChain starts with a target that was a candidate.
LEMMA StartStepBase ==
  ASSUME Base, IInv, IInv', NEW t \in Threads, StartStep(t)
  PROVE  Base'
<1>1. PICK target \in IF pindexMostWork[t] = NoBlock THEN FindMostWorkChain
                      ELSE {pindexMostWork[t]} :
        /\ IF pindexMostWork[t] = NoBlock THEN DropUnusable(target)
           ELSE UNCHANGED <<mapBlockIndex, setBlockIndexCandidates>>
        /\ IF target \in {NoBlock, tip}
           THEN /\ pc' = [pc EXCEPT ![t] = "idle"]
                /\ pindexMostWork' = [pindexMostWork EXCEPT ![t] = NoBlock]
                /\ UNCHANGED <<cs_main, pindexOldTip>>
           ELSE /\ pc' = [pc EXCEPT ![t] = "step"]
                /\ pindexMostWork' = [pindexMostWork EXCEPT ![t] = target]
                /\ cs_main' = t /\ pindexOldTip' = tip
  BY Zenon DEF StartStep
<1>2. target \in setBlockIndexCandidates \cup {NoBlock, pindexMostWork[t]}
  BY <1>1, Zenon DEF FindMostWorkChain
<1>3. /\ UNCHANGED <<mapBlocksUnlinked, tip, coinsTip, diskVars, nBlockReverseSequenceId>>
      /\ setDirtyBlockIndex' = setDirtyBlockIndex \cup {} /\ {} \in SUBSET Known
      /\ cs_main = NoThread
  BY Zenon DEF StartStep, chainVars, seqVars
<1>4. Same(mapBlockIndex, mapBlockIndex') /\ setBlockIndexCandidates' \subseteq setBlockIndexCandidates
  <2>1. CASE pindexMostWork[t] = NoBlock
    BY <1>1, <2>1, DropEffect, FlagEffect, Indexed, Zenon
  <2>2. CASE pindexMostWork[t] # NoBlock
    BY <1>1, <2>2, Indexed, Zenon DEF Same, Closed
  <2>3. QED  BY <2>1, <2>2
<1>5. Retarget /\ NoWriter
  BY <1>1, <1>2, <1>3, <1>4, Names, Typed, Zenon DEF Retarget, NoWriter, Writers
<1>6. nBlockReverseSequenceId' \in Int
  BY <1>3, Indexed, Zenon
<1>7. QED  BY <1>3, <1>4, <1>5, <1>6, SameStep, Zenon

\* DisconnectTip: the parent of the tip can be disconnected if the tip can.
LEMMA DisconnectBase ==
  ASSUME Base, IInv, IInv', NEW t \in Threads, cs_main = t, tip # Genesis,
         NEW more \in SUBSET Known, Same(mapBlockIndex, mapBlockIndex'),
         DisconnectTip(t, mapBlockIndex', setDirtyBlockIndex \cup more),
         setBlockIndexCandidates' \subseteq setBlockIndexCandidates,
         UNCHANGED <<mapBlocksUnlinked, coinsVars, nBlockReverseSequenceId>>
  PROVE  Base'
<1> DEFINE dirty == setDirtyBlockIndex \cup more
<1>1. /\ coinsTip' = Parent[tip] /\ tip' \in {tip, Parent[tip]} /\ Retarget
      /\ FlushIndex(mapBlockIndex', dirty) \/ (NoFlush(dirty) /\ NoWriter)
  <2>1. coinsTip' = Parent[tip]
    BY Zenon DEF DisconnectTip, DisconnectBlock
  <2>2. CASE NoFlush(dirty) /\ AfterDisconnect(t, Parent[tip])
    <3>1. tip' = Parent[tip] /\ Retarget
      BY <2>2, Typed, Zenon DEF AfterDisconnect, Reached, Continue, Retarget
    <3>2. NoWriter
      BY <2>2, Names, Typed, Zenon DEF AfterDisconnect, Reached, Continue, NoWriter, Writers
    <3>3. QED  BY <2>1, <2>2, <3>1, <3>2, Zenon
  <2>3. CASE FlushIndex(mapBlockIndex', dirty) /\ Continue(t, "flush") /\ UNCHANGED tip
    BY <2>1, <2>3, Zenon DEF Continue, Retarget
  <2>4. QED  BY <2>2, <2>3, Zenon DEF DisconnectTip
<1>2. /\ Closed(mapBlockIndex') /\ Grows(mapBlockIndex, mapBlockIndex')
      /\ Links(mapBlockIndex', mapBlocksUnlinked) /\ InSync(mapBlockIndex', dirty, diskIndex)
      /\ Filed(mapBlockIndex', blkSynced)
  BY SameKeeps, Indexed, Zenon DEF Known
<1>3. tip \in Blocks \ {Genesis} /\ tip \in Known /\ Anc[tip] \subseteq Known /\ Undoable(mapBlockIndex, tip)
  BY Indexed, Undoes, Zenon DEF Closed, Known
<1>4. Parent[tip] \in Known /\ Undoable(mapBlockIndex, Parent[tip])
  BY <1>3, Parents, SMTT(20) DEF Undoable
<1>5. \A b \in {tip, Parent[tip]} : b \in DOMAIN mapBlockIndex' /\ Undoable(mapBlockIndex', b)
  BY <1>2, <1>3, <1>4, GrowsKeeps, Indexed DEF Known
<1> HIDE DEF dirty
<1>6. QED  BY <1>1, <1>2, <1>5, MoveStep, Zenon

\* Both callers of DisconnectTip keep the invariant.
LEMMA StepDisconnectBase ==
  ASSUME Base, IInv, IInv', NEW t \in Threads, StepDisconnect(t) \/ InvalidateTip(t)
  PROVE  Base'
<1>1. CASE StepDisconnect(t)
  <2>1. /\ cs_main = t /\ pc[t] = "step" /\ tip \notin Anc[pindexMostWork[t]]
        /\ mapBlockIndex' = mapBlockIndex
        /\ setDirtyBlockIndex = setDirtyBlockIndex \cup {} /\ {} \in SUBSET Known
        /\ DisconnectTip(t, mapBlockIndex', setDirtyBlockIndex)
        /\ UNCHANGED <<setBlockIndexCandidates, mapBlocksUnlinked, coinsVars, nBlockReverseSequenceId>>
    BY <1>1, SMTT(20) DEF StepDisconnect, seqVars
  <2>2. tip # Genesis /\ Same(mapBlockIndex, mapBlockIndex')
    BY <2>1, Paths, Indexed, Placed DEF Same, Closed
  <2>3. DisconnectTip(t, mapBlockIndex', setDirtyBlockIndex \cup {})
    BY <2>1, Zenon
  <2>4. QED  BY <2>1, <2>2, <2>3, DisconnectBase, Zenon
<1>2. CASE InvalidateTip(t)
  <2>1. /\ cs_main = t /\ pc[t] = "invalidate" /\ pindexFailed \in Anc[tip]
        /\ mapBlockIndex' = Mark(mapBlockIndex, tip, "CHILD")
        /\ DisconnectTip(t, mapBlockIndex', setDirtyBlockIndex \cup {tip})
        /\ setBlockIndexCandidates' \subseteq setBlockIndexCandidates
        /\ UNCHANGED <<mapBlocksUnlinked, coinsVars, nBlockReverseSequenceId>>
    BY <1>2, Zenon DEF InvalidateTip, Contains, Mark, seqVars
  <2>2. tip # Genesis /\ {tip} \in SUBSET Known /\ tip \in Known
    BY <2>1, Root, Names, Undoes, Placed, Zenon
  <2>3. Same(mapBlockIndex, mapBlockIndex')
    BY <2>1, <2>2, MarkEffect, Indexed, Zenon DEF Known
  <2>4. QED  BY <2>1, <2>2, <2>3, DisconnectBase, Zenon
<1>3. QED  BY <1>1, <1>2

\* The block ConnectTip connects: a child of the tip on the way to the target.
LEMMA NextBlock ==
  ASSUME Base, IInv, NEW t \in Threads, pc[t] = "step", tip \in Anc[pindexMostWork[t]],
         NEW b, b = NextOnPath(t)
  PROVE  /\ b \in Known \ {Genesis} /\ Parent[b] = tip /\ Anc[b] = {b} \cup Anc[tip]
         /\ mapBlockIndex[b].data /\ b \in Anc[pindexMostWork[t]]
<1>1. pindexMostWork[t] \in Blocks \ {tip}
  BY Placed
<1>2. b \in Anc[pindexMostWork[t]] /\ b # Genesis /\ Parent[b] = tip
  BY <1>1, Paths, Zenon DEF NextOnPath
<1>3. QED  BY <1>1, <1>2, Parents, Names, Zenon DEF AllData, Base, Targets, Closed, Known

\* What ConnectBlock does to the entries.
LEMMA ConnectEffect ==
  ASSUME Base, NEW b \in Known, NEW ix, ix = ConnectBlock(b)
  PROVE  /\ DOMAIN ix = Known /\ \A x \in Known \ {b} : ix[x] = mapBlockIndex[x]
         /\ ~ Unfinished(mapBlockIndex[b]) => ix = mapBlockIndex
         /\ IsEntry(ix[b]) /\ ix[b].failed = mapBlockIndex[b].failed
         /\ ix[b].data = mapBlockIndex[b].data /\ ix[b].undo
         /\ ix[b].chainTx = mapBlockIndex[b].chainTx /\ ix[b].seq = mapBlockIndex[b].seq
         /\ ix[b].nFile = mapBlockIndex[b].nFile
         /\ ix[b].level = IF mapBlockIndex[b].failed = {} THEN VALID_SCRIPTS
                          ELSE mapBlockIndex[b].level
<1>1. IsEntry(mapBlockIndex[b])
  BY Indexed, Zenon DEF Closed, Known
<1>2. CASE Unfinished(mapBlockIndex[b])
  <2>1. DOMAIN ix = Known /\ (\A x \in Known \ {b} : ix[x] = mapBlockIndex[x])
        /\ ix[b] = Finished(mapBlockIndex[b])
    BY <1>2, Zenon DEF ConnectBlock, Finished, Known
  <2>2. QED  BY <1>1, <1>2, <2>1, ConnectFields
<1>3. CASE ~ Unfinished(mapBlockIndex[b])
  <2>1. ix = mapBlockIndex
    BY <1>3 DEF ConnectBlock
  <2>2. mapBlockIndex[b].undo /\ mapBlockIndex[b].failed = {} /\ mapBlockIndex[b].level = VALID_SCRIPTS
    BY <1>1, <1>3 DEF Unfinished, IsValid, IsEntry, VALID_SCRIPTS, VALID_TREE, VALID_TRANSACTIONS
  <2>3. QED  BY <1>1, <2>1, <2>2 DEF Known
<1>4. QED  BY <1>2, <1>3, Zenon

\* Connecting a block whose data is there: it can be disconnected from now on.
LEMMA ConnectBase ==
  ASSUME Base, NEW b \in Known \ {Genesis}, Anc[b] = {b} \cup Anc[tip], mapBlockIndex[b].data,
         NEW ix, ix = ConnectBlock(b), NEW dirty,
         dirty = setDirtyBlockIndex \cup {x \in {b} : Unfinished(mapBlockIndex[x])}
  PROVE  /\ Closed(ix) /\ Grows(mapBlockIndex, ix) /\ Links(ix, mapBlocksUnlinked)
         /\ InSync(ix, dirty, diskIndex) /\ Undoable(ix, b) /\ Undoable(ix, tip)
         /\ tip \in DOMAIN ix /\ b \in DOMAIN ix /\ Filed(ix, blkSynced)
<1>1. /\ DOMAIN ix = Known /\ \A x \in Known \ {b} : ix[x] = mapBlockIndex[x]
      /\ ~ Unfinished(mapBlockIndex[b]) => ix = mapBlockIndex
      /\ IsEntry(ix[b]) /\ ix[b].data /\ ix[b].undo
      /\ ix[b].chainTx <=> mapBlockIndex[b].chainTx
      /\ mapBlockIndex[b].level = VALID_SCRIPTS => ix[b].level = VALID_SCRIPTS
      /\ ix[b].nFile = mapBlockIndex[b].nFile
  BY ConnectEffect, ZenonT(30)
<1>7. HasLast(ix) /\ Filed(ix, blkSynced)
  <2>1. /\ DOMAIN ix = DOMAIN mapBlockIndex /\ HasLast(mapBlockIndex)
        /\ \A x \in DOMAIN mapBlockIndex : ix[x].nFile = mapBlockIndex[x].nFile
    BY <1>1, Indexed, Zenon DEF Closed, Known
  <2>2. \A x \in DOMAIN mapBlockIndex : ix[x].data = mapBlockIndex[x].data
    BY <1>1, Indexed, Zenon DEF Closed, IsEntry, Known
  <2>3. QED  BY <2>1, <2>2, SameFiles, Indexed, Zenon
<1>2. Closed(ix) /\ Grows(mapBlockIndex, ix)
  BY <1>1, <1>7, Indexed, Zenon DEF Closed, Grows, Known
<1>3. Links(ix, mapBlocksUnlinked)
  BY <1>1, <1>2, GrowsKeeps, Indexed, Zenon DEF Links, Known
<1>4. InSync(ix, dirty, diskIndex)
  <2>1. InSync(mapBlockIndex, setDirtyBlockIndex, diskIndex)
    BY Indexed
  <2>2. CASE Unfinished(mapBlockIndex[b])
    <3>1. dirty = setDirtyBlockIndex \cup {b} /\ \A x \in Known \ dirty : ix[x] = mapBlockIndex[x]
      BY <1>1, <2>2, Zenon
    <3>2. \A x \in DOMAIN diskIndex : /\ diskIndex[x].data => ix[x].data
                                      /\ diskIndex[x].undo => ix[x].undo
                                      /\ diskIndex[x].level = VALID_SCRIPTS => ix[x].level = VALID_SCRIPTS
      BY <1>1, <2>1 DEF InSync, Known
    <3>3. QED  BY <1>1, <2>1, <3>1, <3>2 DEF InSync, Known
  <2>3. CASE ~ Unfinished(mapBlockIndex[b])
    <3>1. dirty = setDirtyBlockIndex
      BY <2>3
    <3>2. QED  BY <1>1, <2>1, <2>3, <3>1, Zenon
  <2>4. QED  BY <2>2, <2>3
<1>5. tip \in Known /\ Undoable(ix, tip)
  BY <1>2, GrowsKeeps, Indexed, Undoes, Zenon DEF Known
<1>6. QED  BY <1>1, <1>2, <1>3, <1>4, <1>5, <1>7, Zenon DEF Undoable

\* ConnectTip keeps the invariant: the block it connects has its undo data.
LEMMA ConnectTipBase ==
  ASSUME Base, IInv, IInv', NEW t \in Threads, ConnectTip(t)
  PROVE  Base'
<1> DEFINE b == NextOnPath(t)
           ix == ConnectBlock(b)
           dirty == setDirtyBlockIndex \cup {x \in {b} : Unfinished(mapBlockIndex[x])}
<1>1. /\ cs_main = t /\ pc[t] = "step" /\ tip \in Anc[pindexMostWork[t]]
      /\ mapBlockIndex' = ix /\ coinsTip' = b
      /\ \/ NoFlush(dirty) /\ AfterConnect(t, b, ix)
         \/ /\ FlushIndex(ix, dirty) /\ Continue(t, "flush")
            /\ UNCHANGED <<tip, setBlockIndexCandidates>>
      /\ UNCHANGED <<mapBlocksUnlinked, coinsVars, nBlockReverseSequenceId>>
  BY Zenon DEF ConnectTip, seqVars
<1>2. /\ Closed(ix) /\ Grows(mapBlockIndex, ix) /\ Links(ix, mapBlocksUnlinked)
      /\ InSync(ix, dirty, diskIndex) /\ Undoable(ix, b) /\ Undoable(ix, tip)
      /\ tip \in DOMAIN ix /\ b \in DOMAIN ix /\ Filed(ix, blkSynced)
  <2>1. b \in Known \ {Genesis} /\ Anc[b] = {b} \cup Anc[tip] /\ mapBlockIndex[b].data
    BY <1>1, NextBlock, SMTT(20)
  <2>2. QED  BY <2>1, ConnectBase, Zenon
<1> HIDE DEF b, ix, dirty
<1>3. /\ tip' \in {tip, b} /\ Retarget
      /\ FlushIndex(ix, dirty) \/ (NoFlush(dirty) /\ NoWriter)
  BY <1>1, Names, Typed, Zenon DEF AfterConnect, Prune, Reached, Continue, Abort, Retarget, NoWriter, Writers
<1>4. QED  BY <1>1, <1>2, <1>3, MoveStep, Zenon

\* A block that fails to connect is marked.
LEMMA ConnectTipFailsBase ==
  ASSUME Base, IInv, IInv', NEW t \in Threads, ConnectTipFails(t)
  PROVE  Base'
<1> DEFINE b == NextOnPath(t)
<1>1. /\ pc[t] = "step" /\ tip \in Anc[pindexMostWork[t]]
      /\ mapBlockIndex' = Mark(mapBlockIndex, b, "VALID")
      /\ setDirtyBlockIndex' = setDirtyBlockIndex \cup {b}
      /\ setBlockIndexCandidates' \subseteq setBlockIndexCandidates
      /\ pindexMostWork' = [pindexMostWork EXCEPT ![t] = NoBlock] /\ cs_main' = NoThread
      /\ UNCHANGED <<mapBlocksUnlinked, tip, coinsTip, diskVars, nBlockReverseSequenceId>>
  BY Zenon DEF ConnectTipFails, Mark, seqVars
<1>2. b \in Known /\ {b} \in SUBSET Known
  BY <1>1, NextBlock, Zenon
<1> HIDE DEF b
<1>3. Same(mapBlockIndex, mapBlockIndex')
  BY <1>1, <1>2, MarkEffect, Indexed, Zenon DEF Known
<1>4. Retarget /\ NoWriter /\ nBlockReverseSequenceId' \in Int
  BY <1>1, Names, Indexed, Typed, Zenon DEF Retarget, NoWriter
<1>5. QED  BY <1>1, <1>2, <1>3, <1>4, SameStep, Zenon

\* A tip that cannot be disconnected, or a block that may be corrupt, ends the turn.
LEMMA GiveUpBase ==
  ASSUME Base, IInv', NEW t \in Threads, StepDisconnectFails(t) \/ ConnectTipCorrupt(t)
  PROVE  Base'
<1>1. /\ UNCHANGED <<mapBlockIndex, setBlockIndexCandidates, mapBlocksUnlinked, tip, coinsTip,
                     diskVars, nBlockReverseSequenceId>>
      /\ setDirtyBlockIndex' = setDirtyBlockIndex \cup {} /\ {} \in SUBSET Known
      /\ pindexMostWork' = [pindexMostWork EXCEPT ![t] = NoBlock] /\ cs_main' = NoThread
  BY Zenon DEF StepDisconnectFails, ConnectTipCorrupt, indexVars, chainVars, seqVars
<1>2. Same(mapBlockIndex, mapBlockIndex')
  BY <1>1, Indexed, Zenon DEF Same, Closed
<1>3. Retarget
  <2>1. \A u \in Threads : pindexMostWork'[u] \in {pindexMostWork[u], NoBlock}
    BY <1>1, Zenon DEF IInv, Types
  <2>2. QED  BY <1>1, <2>1, Zenon DEF Retarget
<1>4. NoWriter /\ nBlockReverseSequenceId' \in Int
  BY <1>1, Names, Indexed, Zenon DEF NoWriter
<1>5. QED  BY <1>1, <1>2, <1>3, <1>4, SameStep, Zenon

\* InvalidateBlock gives up on a tip that cannot be disconnected, and leaves it marked.
LEMMA InvalidateTipFailsBase ==
  ASSUME Base, IInv, IInv', NEW t \in Threads, InvalidateTipFails(t)
  PROVE  Base'
<1>1. /\ mapBlockIndex' = Mark(mapBlockIndex, tip, "CHILD")
      /\ setDirtyBlockIndex' = setDirtyBlockIndex \cup {tip}
      /\ setBlockIndexCandidates' \subseteq setBlockIndexCandidates /\ cs_main' = NoThread
      /\ UNCHANGED <<mapBlocksUnlinked, tip, coinsTip, diskVars, nBlockReverseSequenceId,
                     pindexMostWork>>
  BY Zenon DEF InvalidateTipFails, Mark, chainVars, seqVars
<1>2. tip \in Known /\ {tip} \in SUBSET Known
  BY Undoes, Zenon
<1>3. Same(mapBlockIndex, mapBlockIndex')
  BY <1>1, <1>2, MarkEffect, Indexed, Zenon DEF Known
<1>4. Retarget /\ NoWriter /\ nBlockReverseSequenceId' \in Int
  BY <1>1, Names, Indexed, Zenon DEF Retarget, NoWriter
<1>5. QED  BY <1>1, <1>2, <1>3, <1>4, SameStep, Zenon

-----------------------------------------------------------------------------
(* Writing the coins, and starting again.                                  *)

\* A step that writes the coins: the index was written before, so the disk can undo all
\* that memory can.
LEMMA CoinsStep ==
  ASSUME Base, setDirtyBlockIndex = {}, Retarget, Heads' \subseteq Heads \cup {coinsTip},
         UNCHANGED <<mapBlockIndex, mapBlocksUnlinked, setDirtyBlockIndex, coinsTip, diskIndex,
                     blkSynced, nBlockReverseSequenceId>>,
         tip' \in {tip, coinsTip}
  PROVE  Base'
<1>1. /\ \A b \in Known : b \in DOMAIN diskIndex /\ diskIndex[b].undo = mapBlockIndex[b].undo
      /\ coinsTip \in Known /\ Anc[coinsTip] \subseteq Known /\ Undoable(mapBlockIndex, coinsTip)
  BY Indexed, Undoes, Zenon DEF InSync, Closed, Known
<1>2. coinsTip \in DOMAIN diskIndex /\ Undoable(diskIndex, coinsTip)
  BY <1>1, Zenon DEF Undoable
<1>3. Tips' /\ Written'
  BY <1>1, <1>2, Zenon DEF Base, Tips, Written, Known
<1>4. Targets'
  BY TargetsKeep, Zenon DEF Grows
<1>5. QED  BY <1>3, <1>4, Zenon DEF Base

\* What a batch makes of the heads.
LEMMA LastHeads == LastBatch => Heads' \subseteq Heads \cup {coinsTip}
  BY Zenon DEF LastBatch, Heads

\* A batch that is not the last adds at most the block of the cache to the heads.
LEMMA PartialHeads ==
  ASSUME IInv, NEW t \in Threads, PartialBatch(t)
  PROVE  Heads' \subseteq Heads \cup {coinsTip}
<1>1. CASE bestBlock = NoBlock
  <2>1. headBlocks # <<>> /\ headBlocks' = headBlocks
    BY <1>1, Names DEF IInv, Following, Recorded, PartialBatch
  <2>2. QED  BY <2>1, Zenon DEF Heads
<1>2. CASE bestBlock # NoBlock
  <2>1. headBlocks = <<>> /\ headBlocks' = <<coinsTip, bestBlock>>
    BY <1>2, Zenon DEF IInv, Following, Recorded, PartialBatch
  <2>2. headBlocks' # <<>> /\ headBlocks'[1] = coinsTip /\ headBlocks'[2] = bestBlock
    BY <2>1
  <2>3. QED  BY <2>1, <2>2, Zenon DEF Heads
<1>3. QED  BY <1>1, <1>2

\* The coins that a Connect- or DisconnectTip writes are of a block the disk knows.
LEMMA FlushTipBase ==
  ASSUME Base, IInv, IInv', NEW t \in Threads, FlushTip(t)
  PROVE  Base'
<1>1. /\ pc[t] = "flush" /\ LastBatch
      /\ \/ AfterDisconnect(t, coinsTip) /\ UNCHANGED setBlockIndexCandidates
         \/ AfterConnect(t, coinsTip, mapBlockIndex)
      /\ UNCHANGED <<mapBlockIndex, mapBlocksUnlinked, setDirtyBlockIndex, coinsTip, diskIndex,
                     blkSynced, nBlockReverseSequenceId>>
  BY Zenon DEF FlushTip, seqVars
<1>2. tip' = coinsTip /\ Retarget
  BY <1>1, Typed, Zenon DEF AfterDisconnect, AfterConnect, Prune, Reached, Continue, Abort, Retarget
<1>3. setDirtyBlockIndex = {}
  BY <1>1, Flushing, Zenon DEF Writers
<1>4. QED  BY <1>1, <1>2, <1>3, LastHeads, CoinsStep, Zenon

\* A partial batch is written only after the index, so it keeps the invariant.
LEMMA PartialBatchBase ==
  ASSUME Base, IInv, NEW t \in Threads, PartialBatch(t)
  PROVE  Base'
<1>1. /\ pc[t] \in Writers
      /\ UNCHANGED <<mapBlockIndex, setBlockIndexCandidates, mapBlocksUnlinked, setDirtyBlockIndex,
                     tip, coinsTip, diskIndex, blkSynced, pindexMostWork, nBlockReverseSequenceId>>
  BY Zenon DEF PartialBatch, Writers, indexVars, seqVars, chainVars, threadVars
<1>2. setDirtyBlockIndex = {} /\ Retarget /\ tip' \in {tip, coinsTip}
  BY <1>1, Flushing, Zenon DEF Retarget
<1>3. QED  BY <1>1, <1>2, PartialHeads, CoinsStep, Zenon

\* Both halves of the periodic flush keep the invariant.
LEMMA PeriodicBase ==
  ASSUME Base, IInv, IInv', NEW t \in Threads, FlushPeriodic(t) \/ FlushPeriodicCoins(t)
  PROVE  Base'
<1>1. CASE FlushPeriodic(t)
  <2>1. /\ \/ FlushIndex(mapBlockIndex, setDirtyBlockIndex)
           \/ NoFlush(setDirtyBlockIndex) /\ cs_main' = NoThread
        /\ UNCHANGED <<mapBlockIndex, setBlockIndexCandidates, mapBlocksUnlinked, tip, coinsTip,
                       coinsVars, pindexMostWork, nBlockReverseSequenceId>>
    BY <1>1, Zenon DEF FlushPeriodic, chainVars, seqVars
  <2>2. /\ Grows(mapBlockIndex, mapBlockIndex) /\ Retarget
        /\ FlushIndex(mapBlockIndex, setDirtyBlockIndex) \/ (NoFlush(setDirtyBlockIndex) /\ NoWriter)
    BY <2>1, Names, Zenon DEF Grows, Retarget, NoWriter
  <2>3. QED  BY <2>1, <2>2, MoveStep, Indexed, Undoes DEF Known
<1>2. CASE FlushPeriodicCoins(t)
  <2>1. /\ pc[t] \in Writers /\ LastBatch
        /\ UNCHANGED <<mapBlockIndex, setBlockIndexCandidates, mapBlocksUnlinked,
                       setDirtyBlockIndex, tip, coinsTip, diskIndex, blkSynced,
                       pindexMostWork, nBlockReverseSequenceId>>
    BY <1>2, Zenon DEF FlushPeriodicCoins, Writers, chainVars, indexVars, seqVars
  <2>2. setDirtyBlockIndex = {} /\ Retarget /\ tip' \in {tip, coinsTip}
    BY <2>1, Flushing, Zenon DEF Retarget
  <2>3. QED  BY <2>1, <2>2, LastHeads, CoinsStep, Zenon
<1>3. QED  BY <1>1, <1>2

\* The candidates InvalidateBlock adds at its end are linked blocks.
LEMMA InvalidateEndBase ==
  ASSUME Base, IInv, IInv', NEW t \in Threads, InvalidateEnd(t)
  PROVE  Base'
<1>1. /\ UNCHANGED <<mapBlockIndex, mapBlocksUnlinked, setDirtyBlockIndex, tip, coinsTip,
                     diskVars, pindexMostWork, nBlockReverseSequenceId>>
      /\ cs_main' = NoThread
      /\ \A c \in setBlockIndexCandidates' :
           c \in setBlockIndexCandidates \/ (c \in Known /\ mapBlockIndex[c].chainTx)
  BY Zenon DEF InvalidateEnd, chainVars, seqVars
<1>2. Grows(mapBlockIndex, mapBlockIndex') /\ Retarget /\ NoWriter
  BY <1>1, Names, Zenon DEF Grows, Retarget, NoWriter, Known
<1>3. Filed(mapBlockIndex', blkSynced') /\ UNCHANGED <<diskIndex, coinsVars, blkSynced>>
  BY <1>1, Indexed, Zenon DEF diskVars
<1>4. QED  BY <1>1, <1>2, <1>3, GrowStep, Indexed, Zenon

\* What LoadBlockIndexDB makes of the entries on disk.
LEMMA LoadEffect ==
  ASSUME Closed(diskIndex), NEW t \in Threads, Restart(t)
  PROVE  /\ DOMAIN mapBlockIndex' = DOMAIN diskIndex
         /\ \A b \in DOMAIN diskIndex :
              LET e == diskIndex[b]
                  f == mapBlockIndex'[b]
              IN /\ IsEntry(f) /\ f.failed = e.failed /\ f.level = e.level /\ f.data = e.data
                 /\ f.undo = e.undo /\ f.chainTx = AllData(diskIndex, b) /\ f.seq = 0
                 /\ f.nFile = e.nFile
<1>1. mapBlockIndex' = [b \in DOMAIN diskIndex |-> Loaded(diskIndex[b], AllData(diskIndex, b))]
  BY Zenon DEF Restart, Loaded, AllData
<1>2. ASSUME NEW b \in DOMAIN diskIndex
      PROVE  IsEntry(diskIndex[b]) /\ AllData(diskIndex, b) \in BOOLEAN
             /\ mapBlockIndex'[b] = Loaded(diskIndex[b], AllData(diskIndex, b))
  BY <1>1, Zenon DEF Closed, AllData
<1>3. QED  BY <1>1, <1>2, LoadFields

\* A start from the disk: links and candidates are those of the entries read.
LEMMA RestartBase ==
  ASSUME Base, IInv, IInv', NEW t \in Threads, Restart(t)
  PROVE  Base'
<1> DEFINE ix == mapBlockIndex'
<1>1. /\ setDirtyBlockIndex' = {} /\ tip' = StartBlock /\ coinsTip' = StartBlock
      /\ UNCHANGED <<diskIndex, coinsVars>>
      /\ pindexMostWork' = [x \in Threads |-> NoBlock] /\ nBlockReverseSequenceId' = -1
      /\ mapBlocksUnlinked' = {<<Parent[b], b>> : b \in {x \in DOMAIN ix : ix[x].data /\ ~ ix[x].chainTx}}
      /\ setBlockIndexCandidates' \subseteq {b \in DOMAIN ix : ix[b].chainTx}
      /\ blkSynced' = {b \in blkSynced \cap DOMAIN diskIndex : diskIndex[b].data}
  BY Zenon DEF Restart, Prune
<1>2. /\ DOMAIN ix = DOMAIN diskIndex
      /\ \A b \in DOMAIN diskIndex :
           /\ IsEntry(ix[b]) /\ ix[b].level = diskIndex[b].level
           /\ ix[b].data = diskIndex[b].data /\ ix[b].undo = diskIndex[b].undo
           /\ ix[b].chainTx = AllData(diskIndex, b) /\ ix[b].nFile = diskIndex[b].nFile
  BY LoadEffect, Indexed, Zenon
<1> HIDE DEF ix
<1>3. Closed(ix) /\ InSync(ix, {}, diskIndex)
  <2>1. HasLast(ix)
    BY <1>2, SameFiles, Indexed, Zenon DEF Closed
  <2>2. QED  BY <1>2, <2>1, Indexed, Zenon DEF Closed, InSync
<1>4. ASSUME NEW b \in DOMAIN ix
      PROVE  ix[b].chainTx <=> AllData(ix, b)
  <2>1. AllData(ix, b) <=> AllData(diskIndex, b)
    BY <1>2, <1>3, Zenon DEF AllData, Closed
  <2>2. QED  BY <1>2, <2>1, Zenon
<1>5. ASSUME NEW b \in DOMAIN ix, ~ ix[b].chainTx, ix[b].data
      PROVE  b # Genesis
  BY <1>4, <1>5, Root DEF AllData
<1>6. Links(ix, mapBlocksUnlinked')
  BY <1>1, <1>4, <1>5 DEF Links
<1>7. Targets'
  BY <1>1, Zenon DEF Targets, Known, ix
<1>8. Committed(diskIndex', blkSynced') /\ Filed(ix, blkSynced')
  BY <1>1, <1>2, Indexed, Zenon DEF Committed, Filed
<1>9. Undoable(ix, StartBlock) /\ StartBlock \in DOMAIN ix
  <2>1. StartBlock \in Heads
    BY Zenon DEF StartBlock, Heads
  <2>2. QED  BY <1>2, <2>1, Indexed, Undoes, Zenon DEF Undoable, Closed
<1>10. Tips'
  <2>1. Heads' = Heads
    BY <1>1, Zenon DEF coinsVars, Heads
  <2>2. QED  BY <1>1, <1>9, <2>1, Undoes, Zenon DEF Tips, Known, ix
<1>11. Written'
  BY <1>1, <1>3, <1>8, Zenon DEF Written, ix
<1>12. nBlockReverseSequenceId' \in Int
  BY <1>1
<1>13. QED  BY <1>1, <1>3, <1>6, <1>7, <1>10, <1>11, <1>12, Indexed, Zenon DEF Base, ix

\* A node that has only its genesis block satisfies the invariant.
LEMMA InitBase == Init => Base
<1> SUFFICES ASSUME Init PROVE Base
  OBVIOUS
<1> DEFINE e == [NewEntry EXCEPT !.level = VALID_TRANSACTIONS, !.data = TRUE, !.chainTx = TRUE, !.seq = 1]
<1>1. /\ mapBlockIndex = [b \in {Genesis} |-> e] /\ diskIndex = mapBlockIndex
      /\ setBlockIndexCandidates = {Genesis} /\ mapBlocksUnlinked = {} /\ setDirtyBlockIndex = {}
      /\ tip = Genesis /\ coinsTip = Genesis /\ bestBlock = Genesis /\ headBlocks = <<>> /\ blkSynced = {Genesis}
      /\ pc = [t \in Threads |-> "idle"] /\ pindexMostWork = [t \in Threads |-> NoBlock]
      /\ nBlockReverseSequenceId = -1
  BY DEF Init
<1>2. e.data /\ ~ e.undo /\ e.chainTx
  BY NewFields, Zenon DEF IsEntry
<1>3. IsEntry(e)
  <2>1. 1 \in Int /\ NewEntry.seq \in Int
    BY NewFields
  <2>2. QED  BY <2>1, NewFields, Zenon DEF IsEntry
<1> HIDE DEF e
<1>4. DOMAIN mapBlockIndex = {Genesis} /\ mapBlockIndex[Genesis] = e
  BY <1>1
<1>5. Closed(mapBlockIndex) /\ Closed(diskIndex) /\ Links(mapBlockIndex, mapBlocksUnlinked)
  <2>1. e.nFile \in Nat /\ e.nFile <= e.nFile
    <3>1. e.nFile \in Nat
      BY <1>3, Zenon DEF IsEntry
    <3>2. QED  BY <3>1
  <2>2. HasLast(mapBlockIndex)
    BY <1>4, <2>1, Zenon DEF HasLast
  <2>3. QED  BY <1>1, <1>2, <1>3, <1>4, <2>2, Parents, Root DEF Closed, Links, AllData
<1>6. Targets /\ Written /\ Tips
  <2>1. Heads = {Genesis}
    BY <1>1, Zenon DEF Heads
  <2>2. Targets /\ Tips
    BY <1>1, <1>2, <1>4, <2>1, Root, Zenon DEF Targets, Tips, Undoable, AllData, Known
  <2>3. Written
    BY <1>1, <1>2, <1>4, Zenon DEF Written, InSync, Committed, Filed, Writers
  <2>4. QED  BY <2>2, <2>3
<1>7. QED  BY <1>1, <1>5, <1>6 DEF Base

\* Every step keeps Base.
LEMMA NextBase == Base /\ IInv /\ [Next]_vars => Base'
<1> SUFFICES ASSUME Base, IInv, [Next]_vars PROVE Base'
  OBVIOUS
<1>1. CASE UNCHANGED vars
  BY <1>1, UnchangedBase
<1>2. CASE \E t \in Threads : Activate(t)
  BY <1>2, NextIInv, StartStepBase, StepDisconnectBase, ConnectTipBase, ConnectTipFailsBase,
     GiveUpBase, FlushTipBase, PeriodicBase, PartialBatchBase, InvalidateTipFailsBase,
     InvalidateEndBase, Zenon DEF Activate
<1>3. CASE \E t \in Threads : Arrive(t) \/ Operate(t) \/ Restart(t)
  BY <1>3, NextIInv, ArriveBase, OperateBase, RestartBase
<1>4. QED  BY <1>1, <1>2, <1>3 DEF Next

\* The index in memory, its links and candidates and its copy on disk fit the tree of blocks
\* at every step, whatever arrives, fails, is written or is lost in a crash.
THEOREM AlwaysBase == Spec => [](IInv /\ Base)
<1>1. Init => IInv /\ Base
  BY InitIInv, InitBase
<1>2. (IInv /\ Base) /\ [Next]_vars => (IInv /\ Base)'
  BY NextIInv, NextBase
<1>3. QED  BY <1>1, <1>2, PTL DEF Spec

\* At every moment a crash leaves a disk that the node can start from (FlushStateToDisk writes
\* the block files, then the index, then the coins), for every tree of blocks and size of the
\* block files, with any number of threads, commands, failing blocks and earlier crashes:
\* FlushBlockFile commits the last file only, but a new file is not begun before that.
THEOREM DiskTheorem == Spec => []DiskRecoverable
<1>1. IInv /\ Base => DiskRecoverable
  BY Zenon DEF Base, Closed, Tips, Written, Committed, Undoable, DiskRecoverable
<1>2. QED  BY <1>1, AlwaysBase, PTL
=============================================================================
