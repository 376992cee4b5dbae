-------------------------- MODULE ChainIndexProofs --------------------------
(***************************************************************************)
(* Proofs about the block index of ChainState, for every tree of blocks,   *)
(* any number of threads and any number of commands, crashes and flushes:  *)
(* what the node has on disk is enough to start from at every moment.      *)
(*                                                                         *)
(* The invariant, Base, says how the index in memory, its copy on disk and *)
(* the links and candidates computed from it fit the tree.  A crash brings *)
(* the copy back, so what a restart relies on has to hold of both.         *)
(***************************************************************************)
EXTENDS ChainProofs

IsEntry(e) ==
  e \in [level : {VALID_TREE, VALID_TRANSACTIONS, VALID_SCRIPTS},
         failed : SUBSET {"VALID", "CHILD"}, data : BOOLEAN, undo : BOOLEAN,
         chainTx : BOOLEAN, seq : Int, nFile : Nat]

AllData(ix, b) == \A a \in Anc[b] : ix[a].data
Undoable(ix, b) == \A a \in Anc[b] \ {Genesis} : ix[a].undo

\* There is a last block file.
HasLast(ix) == \E top \in DOMAIN ix : \A b \in DOMAIN ix : ix[b].nFile <= ix[top].nFile

\* An index, in memory or on disk, is a part of the tree that contains Genesis.
Closed(ix) ==
  /\ Genesis \in DOMAIN ix /\ DOMAIN ix \subseteq Blocks /\ HasLast(ix)
  /\ \A b \in DOMAIN ix :
       Anc[b] \subseteq DOMAIN ix /\ IsEntry(ix[b]) /\ (ix[b].undo => ix[b].data)

\* What the index on disk has of the one in memory: nothing more, and all of an entry that
\* is not dirty.
InSync(ix, dirty, disk) ==
  /\ dirty \subseteq DOMAIN ix /\ DOMAIN disk \subseteq DOMAIN ix
  /\ \A b \in DOMAIN disk : /\ disk[b].data => ix[b].data
                            /\ disk[b].undo => ix[b].undo
                            /\ disk[b].level = VALID_SCRIPTS => ix[b].level = VALID_SCRIPTS
  /\ \A b \in DOMAIN ix \ dirty :
       /\ b \in DOMAIN disk /\ disk[b].level = ix[b].level
       /\ disk[b].data = ix[b].data /\ disk[b].undo = ix[b].undo
       /\ disk[b].nFile = ix[b].nFile

\* A linked block has the data of all its ancestors, a block that waits has its own.
Links(ix, unlinked) ==
  /\ \A b \in DOMAIN ix : ix[b].chainTx => AllData(ix, b)
  /\ \A p \in unlinked :
       p[2] \in DOMAIN ix \ {Genesis} /\ p = <<Parent[p[2]], p[2]>> /\ ix[p[2]].data

\* Only linked blocks are candidates and targets.
Targets ==
  /\ \A c \in setBlockIndexCandidates : c \in Known /\ mapBlockIndex[c].chainTx
  /\ \A t \in Threads : pindexMostWork[t] # NoBlock =>
       pindexMostWork[t] \in Known /\ AllData(mapBlockIndex, pindexMostWork[t])

\* What the disk has is committed, so is what memory has in a file before the last one,
\* and the index is written before the coins.
Committed(disk, blk) == \A b \in DOMAIN disk : disk[b].data => b \in blk

Filed(ix, blk) ==
  \A b \in DOMAIN ix : ix[b].data /\ ix[b].nFile # LastBlockFile(ix) => b \in blk

Writers == {"flush", "flushPeriodic", "replay"}

Written ==
  /\ InSync(mapBlockIndex, setDirtyBlockIndex, diskIndex)
  /\ Committed(diskIndex, blkSynced) /\ Filed(mapBlockIndex, blkSynced)
  /\ \A t \in Threads : pc[t] \in Writers => setDirtyBlockIndex = {}

\* The active chain, the coins and the heads of the coins on disk can be taken back to
\* Genesis.
Tips ==
  /\ tip \in Known /\ Undoable(mapBlockIndex, tip)
  /\ coinsTip \in Known /\ Undoable(mapBlockIndex, coinsTip)
  /\ \A h \in Heads : h \in DOMAIN diskIndex /\ Undoable(diskIndex, h)

Base ==
  /\ Closed(mapBlockIndex) /\ Closed(diskIndex)
  /\ Links(mapBlockIndex, mapBlocksUnlinked) /\ Targets /\ Written /\ Tips
  /\ nBlockReverseSequenceId \in Int

\* What the steps below use of Base and of IInv.
LEMMA Indexed ==
  ASSUME Base
  PROVE  /\ Closed(mapBlockIndex) /\ Closed(diskIndex) /\ Links(mapBlockIndex, mapBlocksUnlinked)
         /\ InSync(mapBlockIndex, setDirtyBlockIndex, diskIndex)
         /\ Committed(diskIndex, blkSynced) /\ Filed(mapBlockIndex, blkSynced)
         /\ nBlockReverseSequenceId \in Int
BY Zenon DEF Base, Written

\* The tip, the coins and the heads on disk can be taken back to Genesis.
LEMMA Undoes ==
  ASSUME Base
  PROVE  /\ tip \in Known /\ Undoable(mapBlockIndex, tip)
         /\ coinsTip \in Known /\ Undoable(mapBlockIndex, coinsTip)
         /\ \A h \in Heads : h \in DOMAIN diskIndex /\ Undoable(diskIndex, h)
BY Zenon DEF Base, Tips

\* A thread that is writing the coins has written the whole index.
LEMMA Flushing ==
  ASSUME Base, NEW t \in Threads, pc[t] \in Writers
  PROVE  setDirtyBlockIndex = {}
BY Zenon DEF Base, Written

\* The types of the program points and the targets.
LEMMA Typed ==
  ASSUME IInv
  PROVE  /\ pc \in [Threads -> Unlocked \cup Locked \cup {"aborted"}]
         /\ pindexMostWork \in [Threads -> Blocks \cup {NoBlock}]
BY Zenon DEF IInv, Types

\* What a thread works on at the places where it holds cs_main.
LEMMA Placed ==
  ASSUME IInv, NEW t \in Threads
  PROVE  /\ pc[t] = "step" => pindexMostWork[t] \in Blocks \ {tip}
         /\ pc[t] = "invalidate" => pindexFailed \in Blocks \ {Genesis}
BY Zenon DEF IInv, Types, Control

-----------------------------------------------------------------------------
(* Entries.                                                                *)

\* Setting the failure flags of an entry leaves the rest.
Flagged(e, S) == [e EXCEPT !.failed = S]

\* What marking does to an entry.
LEMMA FailedFields ==
  ASSUME NEW e, IsEntry(e), NEW S \in SUBSET {"VALID", "CHILD"}, NEW f, f = Flagged(e, S)
  PROVE  /\ IsEntry(f) /\ f.failed = S /\ f.level = e.level /\ f.data = e.data
         /\ f.undo = e.undo /\ f.chainTx = e.chainTx /\ f.seq = e.seq /\ f.nFile = e.nFile
BY DEF IsEntry, Flagged

\* The entry of a connected block (ConnectBlock): its level is raised unless it failed.
Finished(e) == RaiseValidity([e EXCEPT !.undo = TRUE], VALID_SCRIPTS)

\* What connecting does to an entry.
LEMMA ConnectFields ==
  ASSUME NEW e, IsEntry(e), NEW f, f = Finished(e)
  PROVE  /\ IsEntry(f) /\ f.failed = e.failed /\ f.data = e.data /\ f.undo
         /\ f.chainTx = e.chainTx /\ f.seq = e.seq /\ f.nFile = e.nFile
         /\ f.level = IF e.failed = {} THEN VALID_SCRIPTS ELSE e.level
<1> DEFINE g == [e EXCEPT !.undo = TRUE]
<1>1. /\ IsEntry(g) /\ g.failed = e.failed /\ g.data = e.data /\ g.undo
      /\ g.chainTx = e.chainTx /\ g.seq = e.seq /\ g.nFile = e.nFile /\ g.level = e.level
  BY Zenon DEF IsEntry
<1>2. f = RaiseValidity(g, VALID_SCRIPTS)
  BY DEF Finished
<1> HIDE DEF g
<1>3. CASE g.failed = {} /\ g.level < VALID_SCRIPTS
  <2>1. f = [g EXCEPT !.level = VALID_SCRIPTS]
    BY <1>2, <1>3 DEF RaiseValidity
  <2>2. QED  BY <1>1, <1>3, <2>1, Zenon DEF IsEntry
<1>4. CASE ~ (g.failed = {} /\ g.level < VALID_SCRIPTS)
  <2>1. f = g
    BY <1>2, <1>4 DEF RaiseValidity
  <2>2. g.failed = {} => g.level = VALID_SCRIPTS
    BY <1>1, <1>4 DEF IsEntry, VALID_SCRIPTS, VALID_TREE, VALID_TRANSACTIONS
  <2>3. QED  BY <1>1, <2>1, <2>2, Zenon
<1>5. QED  BY <1>3, <1>4, Zenon

\* The entry of a block whose data arrived (ReceivedBlockTransactions).
Stored(e, file) ==
  RaiseValidity([e EXCEPT !.data = TRUE, !.undo = FALSE, !.nFile = file], VALID_TRANSACTIONS)

\* What storing the block does to an entry.
LEMMA StoreFields ==
  ASSUME NEW e, IsEntry(e), NEW file \in Nat, NEW f, f = Stored(e, file)
  PROVE  /\ IsEntry(f) /\ f.failed = e.failed /\ f.data /\ ~ f.undo
         /\ f.chainTx = e.chainTx /\ f.seq = e.seq /\ f.nFile = file
         /\ f.level = IF e.failed = {} /\ e.level = VALID_TREE THEN VALID_TRANSACTIONS ELSE e.level
<1> DEFINE g == [e EXCEPT !.data = TRUE, !.undo = FALSE, !.nFile = file]
<1>1. /\ g.failed = e.failed /\ g.data /\ ~ g.undo
      /\ g.chainTx = e.chainTx /\ g.seq = e.seq /\ g.nFile = file /\ g.level = e.level
  BY Zenon DEF IsEntry
<1>2. IsEntry(g)
  BY Zenon DEF IsEntry
<1>3. f = RaiseValidity(g, VALID_TRANSACTIONS)
  BY DEF Stored
<1> HIDE DEF g
<1>4. CASE g.failed = {} /\ g.level < VALID_TRANSACTIONS
  <2>1. f = [g EXCEPT !.level = VALID_TRANSACTIONS]
    BY <1>3, <1>4 DEF RaiseValidity
  <2>2. g.level = VALID_TREE
    BY <1>2, <1>4 DEF IsEntry, VALID_SCRIPTS, VALID_TREE, VALID_TRANSACTIONS
  <2>3. QED  BY <1>1, <1>2, <1>4, <2>1, <2>2, Zenon DEF IsEntry
<1>5. CASE ~ (g.failed = {} /\ g.level < VALID_TRANSACTIONS)
  <2>1. f = g
    BY <1>3, <1>5 DEF RaiseValidity
  <2>2. ~ (g.failed = {} /\ g.level = VALID_TREE)
    BY <1>5 DEF VALID_TREE, VALID_TRANSACTIONS
  <2>3. QED  BY <1>1, <1>2, <2>1, <2>2, Zenon
<1>6. QED  BY <1>4, <1>5, Zenon

\* The entry of a block that is linked.
LinkedEntry(e, n) == [e EXCEPT !.chainTx = TRUE, !.seq = n]

\* What linking does to an entry.
LEMMA LinkFields ==
  ASSUME NEW e, IsEntry(e), NEW n \in Int, NEW f, f = LinkedEntry(e, n)
  PROVE  /\ IsEntry(f) /\ f.failed = e.failed /\ f.level = e.level /\ f.data = e.data
         /\ f.undo = e.undo /\ f.chainTx /\ f.seq = n /\ f.nFile = e.nFile
BY Zenon DEF IsEntry, LinkedEntry

\* The entry of a block that is preferred (PreciousBlock).
Numbered(e, n) == [e EXCEPT !.seq = n]

\* What preferring the block does to an entry.
LEMMA SeqFields ==
  ASSUME NEW e, IsEntry(e), NEW n \in Int, NEW f, f = Numbered(e, n)
  PROVE  /\ IsEntry(f) /\ f.failed = e.failed /\ f.level = e.level /\ f.data = e.data
         /\ f.undo = e.undo /\ f.chainTx = e.chainTx /\ f.seq = n /\ f.nFile = e.nFile
BY Zenon DEF IsEntry, Numbered

\* The entry of a block read from disk (LoadBlockIndex).
Loaded(e, c) == [e EXCEPT !.seq = 0, !.chainTx = c]

\* What loading does to an entry.
LEMMA LoadFields ==
  ASSUME NEW e, IsEntry(e), NEW c \in BOOLEAN, NEW f, f = Loaded(e, c)
  PROVE  /\ IsEntry(f) /\ f.failed = e.failed /\ f.level = e.level /\ f.data = e.data
         /\ f.undo = e.undo /\ f.chainTx = c /\ f.seq = 0 /\ f.nFile = e.nFile
<1>1. /\ f.failed = e.failed /\ f.level = e.level /\ f.data = e.data
      /\ f.undo = e.undo /\ f.chainTx = c /\ f.seq = 0 /\ f.nFile = e.nFile
  BY Zenon DEF IsEntry, Loaded
<1>2. 0 \in Int
  OBVIOUS
<1>3. IsEntry(f)
  BY <1>2, Zenon DEF IsEntry, Loaded
<1>4. QED  BY <1>1, <1>3

\* The entry of a new header (AddToBlockIndex).
LEMMA NewFields ==
  /\ IsEntry(NewEntry) /\ NewEntry.failed = {} /\ NewEntry.level = VALID_TREE
  /\ ~ NewEntry.data /\ ~ NewEntry.undo /\ ~ NewEntry.chainTx /\ NewEntry.seq = 0
  /\ NewEntry.nFile = 0
BY DEF IsEntry, NewEntry, VALID_TREE

-----------------------------------------------------------------------------
(* Steps of an index.                                                      *)

\* What an index keeps in every step but a restart.
Grows(ix, iy) ==
  /\ DOMAIN ix \subseteq DOMAIN iy
  /\ \A b \in DOMAIN ix : /\ ix[b].data => iy[b].data
                          /\ ix[b].undo => iy[b].undo
                          /\ ix[b].chainTx => iy[b].chainTx
                          /\ ix[b].level = VALID_SCRIPTS => iy[b].level = VALID_SCRIPTS

\* Such a step keeps branches complete and undoable.
LEMMA GrowsKeeps ==
  ASSUME NEW ix, NEW iy, Closed(ix), Grows(ix, iy), NEW b \in DOMAIN ix
  PROVE  /\ b \in DOMAIN iy
         /\ AllData(ix, b) => AllData(iy, b)
         /\ Undoable(ix, b) => Undoable(iy, b)
BY Zenon DEF Closed, Grows, AllData, Undoable

\* Two such steps are one.
LEMMA GrowsTwice ==
  ASSUME NEW ix, NEW iy, NEW iz, Grows(ix, iy), Grows(iy, iz)
  PROVE  Grows(ix, iz)
BY Zenon DEF Grows

\* A step that changes only flags and sequence numbers.
Same(ix, iy) ==
  /\ DOMAIN iy = DOMAIN ix
  /\ \A b \in DOMAIN ix :
       /\ IsEntry(iy[b]) /\ iy[b].level = ix[b].level
       /\ iy[b].data = ix[b].data /\ iy[b].undo = ix[b].undo /\ iy[b].chainTx = ix[b].chainTx
       /\ iy[b].nFile = ix[b].nFile

\* What LastBlockFile is.
LEMMA LastFile ==
  ASSUME NEW ix, NEW top \in DOMAIN ix, \A b \in DOMAIN ix : ix[b].nFile \in Nat,
         \A b \in DOMAIN ix : ix[b].nFile <= ix[top].nFile
  PROVE  LastBlockFile(ix) = ix[top].nFile
<1> DEFINE S == {ix[b].nFile : b \in DOMAIN ix}
<1>1. S \subseteq Nat /\ ix[top].nFile \in S /\ \A n \in S : n <= ix[top].nFile
  OBVIOUS
<1>2. LastBlockFile(ix) = Max(S)
  BY Zenon DEF LastBlockFile
<1> HIDE DEF S
<1>3. Max(S) \in S /\ \A n \in S : Max(S) >= n
  BY <1>1, Zenon DEF Max
<1>4. /\ Max(S) \in Nat /\ ix[top].nFile \in Nat
      /\ Max(S) >= ix[top].nFile /\ Max(S) <= ix[top].nFile
  BY <1>1, <1>3, Zenon
<1>5. \A m, k \in Nat : m >= k /\ m <= k => m = k
  OBVIOUS
<1>6. QED  BY <1>2, <1>4, <1>5, Zenon

\* No block is in a file after the last one.
LEMMA LastOf ==
  ASSUME NEW ix, Closed(ix)
  PROVE  /\ LastBlockFile(ix) \in Nat
         /\ \A b \in DOMAIN ix : ix[b].nFile \in Nat /\ ix[b].nFile <= LastBlockFile(ix)
<1>1. \A b \in DOMAIN ix : ix[b].nFile \in Nat
  BY Zenon DEF Closed, IsEntry
<1>2. PICK top \in DOMAIN ix : \A b \in DOMAIN ix : ix[b].nFile <= ix[top].nFile
  BY Zenon DEF Closed, HasLast
<1>3. LastBlockFile(ix) = ix[top].nFile
  BY <1>1, <1>2, LastFile, Zenon
<1>4. QED  BY <1>1, <1>2, <1>3, Zenon

\* Where the files stay, the last one does.
LEMMA SameFiles ==
  ASSUME NEW ix, NEW iy, DOMAIN iy = DOMAIN ix, \A b \in DOMAIN ix : iy[b].nFile = ix[b].nFile
  PROVE  /\ LastBlockFile(iy) = LastBlockFile(ix) /\ (HasLast(ix) => HasLast(iy))
         /\ \A blk : (\A b \in DOMAIN ix : iy[b].data = ix[b].data) /\ Filed(ix, blk)
                    => Filed(iy, blk)
<1>1. {iy[b].nFile : b \in DOMAIN iy} = {ix[b].nFile : b \in DOMAIN ix}
  OBVIOUS
<1>2. LastBlockFile(iy) = LastBlockFile(ix)
  BY <1>1, Zenon DEF LastBlockFile
<1>3. QED  BY <1>2, Zenon DEF HasLast, Filed

\* It disturbs nothing that Base says of the index.
LEMMA SameKeeps ==
  ASSUME NEW ix, NEW iy, Closed(ix), Same(ix, iy),
         NEW unlinked, Links(ix, unlinked), NEW disk,
         NEW dirty, NEW more \in SUBSET DOMAIN ix, InSync(ix, dirty, disk)
  PROVE  /\ Closed(iy) /\ Grows(ix, iy) /\ Links(iy, unlinked)
         /\ InSync(iy, dirty \cup more, disk) /\ (\A blk : Filed(ix, blk) => Filed(iy, blk))
<1>5. HasLast(iy) /\ (\A blk : Filed(ix, blk) => Filed(iy, blk))
  <2>1. /\ DOMAIN iy = DOMAIN ix /\ HasLast(ix)
        /\ \A b \in DOMAIN ix : iy[b].nFile = ix[b].nFile
        /\ \A b \in DOMAIN ix : iy[b].data = ix[b].data
    BY Zenon DEF Same, Closed
  <2>2. QED  BY <2>1, SameFiles, Zenon
<1>1. Closed(iy) /\ Grows(ix, iy)
  BY <1>5, Zenon DEF Closed, Same, Grows
<1>2. Links(iy, unlinked)
  BY <1>1, GrowsKeeps, Zenon DEF Links, Same
<1>3. InSync(iy, dirty \cup more, disk)
  BY DEF InSync, Same
<1>4. QED  BY <1>1, <1>2, <1>3, <1>5, Zenon

\* Failure flags are set on the entries of S.
Flags(ix, S, flag) ==
  [x \in DOMAIN ix |-> IF x \in S THEN Flagged(ix[x], ix[x].failed \cup {flag}) ELSE ix[x]]

\* Flagging changes nothing but the flags of the entries of S.
LEMMA FlagEffect ==
  ASSUME NEW ix, Closed(ix), NEW S, NEW flag \in {"VALID", "CHILD"},
         NEW iy, iy = Flags(ix, S, flag)
  PROVE  /\ Same(ix, iy)
         /\ \A x \in DOMAIN ix : iy[x].seq = ix[x].seq
         /\ \A x \in DOMAIN ix \cap S : iy[x].failed = ix[x].failed \cup {flag}
         /\ \A x \in DOMAIN ix \ S : iy[x] = ix[x]
<1>1. DOMAIN iy = DOMAIN ix /\ (\A x \in DOMAIN ix : IsEntry(ix[x]))
      /\ \A x \in DOMAIN ix \ S : iy[x] = ix[x]
  BY DEF Flags, Closed
<1>2. ASSUME NEW x \in DOMAIN ix, x \in S
      PROVE  /\ IsEntry(iy[x]) /\ iy[x].failed = ix[x].failed \cup {flag}
             /\ iy[x].level = ix[x].level /\ iy[x].data = ix[x].data /\ iy[x].undo = ix[x].undo
             /\ iy[x].chainTx = ix[x].chainTx /\ iy[x].seq = ix[x].seq
             /\ iy[x].nFile = ix[x].nFile
  <2>1. IsEntry(ix[x]) /\ ix[x].failed \cup {flag} \in SUBSET {"VALID", "CHILD"}
    BY <1>1, Zenon DEF IsEntry
  <2>2. QED  BY <1>2, <2>1, FailedFields DEF Flags
<1>3. QED  BY <1>1, <1>2 DEF Same

\* One block is marked.
Mark(ix, b, flag) == [ix EXCEPT ![b].failed = @ \cup {flag}]

\* Marking one block is flagging a set of one.
LEMMA MarkEffect ==
  ASSUME NEW ix, Closed(ix), NEW b \in DOMAIN ix, NEW flag \in {"VALID", "CHILD"},
         NEW iy, iy = Mark(ix, b, flag)
  PROVE  Same(ix, iy) /\ iy = Flags(ix, {b}, flag)
<1>1. iy = Flags(ix, {b}, flag)
  BY Zenon DEF Mark, Flags, Flagged
<1>2. QED  BY <1>1, FlagEffect, Zenon

\* A header is added below a known parent.
LEMMA AddKeeps ==
  ASSUME Base, NEW b \in Blocks \ {Genesis}, HeaderOK(b), NEW ix, ix = AddToBlockIndex(b)
  PROVE  /\ Closed(ix) /\ Grows(mapBlockIndex, ix) /\ Links(ix, mapBlocksUnlinked)
         /\ InSync(ix, setDirtyBlockIndex \cup ({b} \ Known), diskIndex)
         /\ DOMAIN ix = Known \cup {b} /\ (\A x \in Known : ix[x] = mapBlockIndex[x])
         /\ b \notin Known => ix[b] = NewEntry
         /\ LastBlockFile(ix) = LastBlockFile(mapBlockIndex)
         /\ \A blk : Filed(mapBlockIndex, blk) => Filed(ix, blk)
<1>1. /\ DOMAIN ix = Known \cup {b} /\ (\A x \in Known : ix[x] = mapBlockIndex[x])
      /\ b \notin Known => ix[b] = NewEntry
  BY DEF AddToBlockIndex
<1>2. Anc[b] \subseteq Known \cup {b} /\ Closed(mapBlockIndex)
  BY Parents, Indexed DEF HeaderOK, Closed, Known
<1>7. PICK top \in Known : \A x \in DOMAIN ix : ix[x].nFile \in Nat /\ ix[x].nFile <= ix[top].nFile
  <2>1. PICK top \in Known : \A x \in Known : mapBlockIndex[x].nFile <= mapBlockIndex[top].nFile
    BY <1>2, Zenon DEF Closed, HasLast, Known
  <2>2. \A x \in Known : mapBlockIndex[x].nFile \in Nat
    BY <1>2, Zenon DEF Closed, IsEntry, Known
  <2>3. 0 \in Nat /\ \A n \in Nat : 0 <= n
    OBVIOUS
  <2>4. QED  BY <1>1, <2>1, <2>2, <2>3, NewFields, Zenon
<1>8. LastBlockFile(ix) = ix[top].nFile /\ LastBlockFile(mapBlockIndex) = ix[top].nFile /\ HasLast(ix)
  BY <1>1, <1>7, LastFile, Zenon DEF HasLast, Known
<1>9. \A blk : Filed(mapBlockIndex, blk) => Filed(ix, blk)
  BY <1>1, <1>8, NewFields, Zenon DEF Filed, Known
<1>3. Closed(ix) /\ Grows(mapBlockIndex, ix)
  BY <1>1, <1>2, <1>8, NewFields DEF Closed, Grows, Known
<1>4. Links(ix, mapBlocksUnlinked)
  BY <1>1, <1>2, <1>3, NewFields, GrowsKeeps, Indexed DEF Links, Known
<1>5. InSync(ix, setDirtyBlockIndex \cup ({b} \ Known), diskIndex)
  BY <1>1, Indexed DEF InSync, Known
<1>6. QED  BY <1>1, <1>3, <1>4, <1>5, <1>8, <1>9, Zenon

\* Block b gets its data, in a file, and the blocks of links are linked.
Gains(ix, iy, b, links, file) ==
  /\ DOMAIN iy = DOMAIN ix /\ \A x \in DOMAIN ix : IsEntry(iy[x])
  /\ \A x \in DOMAIN ix \ {b} :
       /\ iy[x].level = ix[x].level /\ iy[x].data = ix[x].data /\ iy[x].undo = ix[x].undo
       /\ iy[x].nFile = ix[x].nFile
  /\ iy[b].data /\ ~ iy[b].undo /\ iy[b].nFile = file
  /\ ix[b].level = VALID_SCRIPTS => iy[b].level = VALID_SCRIPTS
  /\ \A x \in DOMAIN ix : iy[x].chainTx <=> (x \in links \/ ix[x].chainTx)

\* Storing a block keeps the index a part of the tree, and its file is the last one.
LEMMA GainKeeps ==
  ASSUME NEW ix, NEW iy, NEW b \in DOMAIN ix, NEW links, NEW file, Closed(ix),
         Gains(ix, iy, b, links, file), ~ ix[b].undo, LastBlockFile(ix) <= file
  PROVE  Closed(iy) /\ Grows(ix, iy) /\ LastBlockFile(iy) = file
<1>4. /\ \A x \in DOMAIN iy : iy[x].nFile \in Nat
      /\ \A x \in DOMAIN iy : iy[x].nFile <= iy[b].nFile
  <2>1. \A x \in DOMAIN iy : iy[x].nFile \in Nat
    BY Zenon DEF Gains, IsEntry
  <2>2. iy[b].nFile = file /\ file \in Nat
    BY <2>1, Zenon DEF Gains
  <2>3. \A x \in DOMAIN ix \ {b} : iy[x].nFile \in Nat /\ iy[x].nFile <= LastBlockFile(ix)
    BY LastOf, Zenon DEF Gains
  <2>4. QED  BY <2>1, <2>2, <2>3, LastOf DEF Gains
<1>5. LastBlockFile(iy) = file /\ HasLast(iy)
  BY <1>4, LastFile, Zenon DEF HasLast, Gains
<1>1. Closed(iy)
  BY <1>5, Zenon DEF Closed, Gains
<1>2. Grows(ix, iy)
  BY Zenon DEF Grows, Gains
<1>3. QED  BY <1>1, <1>2, <1>5

\* Storing a block keeps the index on disk in step, the block being dirty.
LEMMA GainSync ==
  ASSUME NEW ix, NEW iy, NEW b \in DOMAIN ix, NEW links, NEW file,
         Gains(ix, iy, b, links, file),
         ~ ix[b].undo, NEW dirty, NEW disk, InSync(ix, dirty, disk)
  PROVE  InSync(iy, dirty \cup {b}, disk)
<1>1. \A x \in DOMAIN disk :
        /\ disk[x].data => iy[x].data
        /\ disk[x].undo => iy[x].undo
        /\ disk[x].level = VALID_SCRIPTS => iy[x].level = VALID_SCRIPTS
  BY DEF InSync, Gains
<1>2. QED  BY <1>1 DEF InSync, Gains

\* What becomes linked has the data of all its ancestors.
LEMMA GainLinks ==
  ASSUME NEW ix, NEW iy, NEW b \in DOMAIN ix \ {Genesis}, NEW links, NEW file,
         Closed(ix), Grows(ix, iy), Gains(ix, iy, b, links, file),
         \A x \in links : AllData(iy, x), NEW old, NEW new, Links(ix, old),
         new \subseteq old \cup {<<Parent[b], b>>}
  PROVE  Links(iy, new)
<1>1. \A x \in DOMAIN iy : iy[x].chainTx => AllData(iy, x)
  <2>1. \A x \in DOMAIN ix : ix[x].chainTx => AllData(iy, x)
    BY GrowsKeeps, Zenon DEF Links
  <2>2. QED  BY <2>1, Zenon DEF Gains
<1>2. QED  BY <1>1 DEF Links, Gains

-----------------------------------------------------------------------------
(* Steps of the node.                                                      *)

\* New candidates are linked, and new targets were candidates.
Retarget ==
  /\ \A c \in setBlockIndexCandidates' :
       c \in setBlockIndexCandidates \/ (c \in Known' /\ mapBlockIndex'[c].chainTx)
  /\ \A t \in Threads : \/ pindexMostWork'[t] \in {pindexMostWork[t], NoBlock}
                        \/ pindexMostWork'[t] \in setBlockIndexCandidates

\* The holder of cs_main, if any, is not about to write the coins.
NoWriter == \A u \in Threads : cs_main' = u => pc'[u] \notin Writers

\* Candidates and targets stay linked blocks.
LEMMA TargetsKeep ==
  ASSUME Base, Grows(mapBlockIndex, mapBlockIndex'), Retarget
  PROVE  Targets'
<1>1. \A c \in setBlockIndexCandidates : c \in Known /\ AllData(mapBlockIndex, c)
  BY Zenon DEF Base, Targets, Links, Known
<1>2. \A t \in Threads : pindexMostWork'[t] # NoBlock =>
        pindexMostWork'[t] \in Known' /\ AllData(mapBlockIndex', pindexMostWork'[t])
  BY <1>1, GrowsKeeps, Zenon DEF Retarget, Base, Targets, Known
<1>3. QED  BY <1>2, Zenon DEF Retarget, Base, Targets, Grows, Known

\* If the holder of cs_main is not about to write the coins, nobody is.
LEMMA WriterKeeps ==
  ASSUME IInv', NoWriter
  PROVE  \A u \in Threads : pc'[u] \notin Writers
BY Zenon DEF NoWriter, IInv, Control, Locked, Writers

\* A step that changes nothing.
LEMMA UnchangedBase ==
  ASSUME Base, UNCHANGED vars
  PROVE  Base'
<1>1. /\ UNCHANGED <<mapBlockIndex, setBlockIndexCandidates, mapBlocksUnlinked, setDirtyBlockIndex,
                     nBlockReverseSequenceId, tip, coinsTip, diskIndex, bestBlock, headBlocks,
                     blkSynced, pc, pindexMostWork>>
  BY Zenon DEF vars, indexVars, seqVars, chainVars, diskVars, coinsVars, threadVars
<1>2. Targets' /\ Written' /\ Tips'
  BY <1>1, Zenon DEF Base, Targets, Written, Tips, Known, Heads
<1>3. QED  BY <1>1, <1>2, Zenon DEF Base

\* A step that lets the index grow and leaves the index on disk and the tips alone.
LEMMA GrowStep ==
  ASSUME Base, IInv', Grows(mapBlockIndex, mapBlockIndex'), Closed(mapBlockIndex'),
         Links(mapBlockIndex', mapBlocksUnlinked'), Retarget, NoWriter,
         InSync(mapBlockIndex', setDirtyBlockIndex', diskIndex),
         UNCHANGED <<tip, coinsTip, diskIndex, coinsVars>>,
         blkSynced \subseteq blkSynced', Filed(mapBlockIndex', blkSynced'),
         nBlockReverseSequenceId' \in Int
  PROVE  Base'
<1>1. Tips'
  <2>1. Heads' = Heads
    BY Zenon DEF coinsVars, Heads
  <2>2. QED  BY <2>1, GrowsKeeps, Indexed, Undoes, Zenon DEF Tips, Known
<1>2. Committed(diskIndex', blkSynced')
  BY Indexed, Zenon DEF Committed
<1>3. Written'
  BY <1>2, WriterKeeps, Zenon DEF Written
<1>4. QED  BY <1>1, <1>3, TargetsKeep, Indexed, Zenon DEF Base

\* A step that changes only flags and sequence numbers in memory.
LEMMA SameStep ==
  ASSUME Base, IInv', Same(mapBlockIndex, mapBlockIndex'), Retarget, NoWriter,
         NEW more \in SUBSET Known, setDirtyBlockIndex' = setDirtyBlockIndex \cup more,
         UNCHANGED <<mapBlocksUnlinked, tip, coinsTip, diskVars>>,
         nBlockReverseSequenceId' \in Int
  PROVE  Base'
<1>1. /\ Closed(mapBlockIndex') /\ Grows(mapBlockIndex, mapBlockIndex')
      /\ Links(mapBlockIndex', mapBlocksUnlinked)
      /\ InSync(mapBlockIndex', setDirtyBlockIndex \cup more, diskIndex)
      /\ Filed(mapBlockIndex', blkSynced)
  BY SameKeeps, Indexed, Zenon DEF Known
<1>2. UNCHANGED <<diskIndex, coinsVars, blkSynced>>
  BY Zenon DEF diskVars
<1>3. QED  BY <1>1, <1>2, GrowStep, Zenon

\* FlushIndex brings the disk up to date.
LEMMA FlushKeeps ==
  ASSUME Base, NEW ix, Closed(ix), NEW dirty, InSync(ix, dirty, diskIndex),
         Filed(ix, blkSynced), FlushIndex(ix, dirty) \/ NoFlush(dirty)
  PROVE  /\ Closed(diskIndex') /\ InSync(ix, setDirtyBlockIndex', diskIndex')
         /\ \A b \in DOMAIN diskIndex : Undoable(diskIndex, b) => Undoable(diskIndex', b)
         /\ FlushIndex(ix, dirty) => setDirtyBlockIndex' = {}
         /\ DOMAIN diskIndex \subseteq DOMAIN diskIndex'
         /\ Committed(diskIndex', blkSynced') /\ Filed(ix, blkSynced')
<1>1. Closed(diskIndex) /\ Committed(diskIndex, blkSynced)
  BY Indexed
<1>2. CASE NoFlush(dirty)
  BY <1>1, <1>2, Zenon DEF NoFlush, FlushIndex
<1>3. CASE FlushIndex(ix, dirty)
  <2>1. /\ DOMAIN diskIndex' = DOMAIN ix /\ setDirtyBlockIndex' = {}
        /\ \A b \in DOMAIN diskIndex' : diskIndex'[b] = IF b \in dirty THEN ix[b] ELSE diskIndex[b]
    BY <1>3, Zenon DEF FlushIndex, InSync
  <2>2. Closed(diskIndex') /\ InSync(ix, {}, diskIndex')
    <3>1. \A b \in DOMAIN ix : diskIndex'[b].nFile = ix[b].nFile
      BY <2>1, Zenon DEF InSync
    <3>2. HasLast(diskIndex')
      BY <2>1, <3>1, SameFiles, Zenon DEF Closed
    <3>3. QED  BY <1>1, <2>1, <3>2 DEF Closed, InSync
  <2>3. \A b \in DOMAIN diskIndex : Undoable(diskIndex, b) => Undoable(diskIndex', b)
    BY <1>1, <2>1, Zenon DEF InSync, Undoable, Closed
  <2>4. \A b \in DOMAIN ix : ix[b].data => b \in blkSynced'
    BY <1>3, Zenon DEF Filed, FlushIndex, FlushBlockFile
  <2>5. Committed(diskIndex', blkSynced') /\ Filed(ix, blkSynced')
    BY <2>1, <2>2, <2>4, Zenon DEF Committed, Filed, InSync
  <2>6. QED  BY <2>1, <2>2, <2>3, <2>5, Zenon DEF InSync
<1>4. QED  BY <1>2, <1>3, Zenon

\* A step that moves the tips and writes the index or not.  A thread that is going to write
\* the coins has written the index.
LEMMA MoveStep ==
  ASSUME Base, IInv', NEW ix, Closed(ix), Grows(mapBlockIndex, ix), Links(ix, mapBlocksUnlinked),
         NEW dirty, InSync(ix, dirty, diskIndex), Filed(ix, blkSynced), mapBlockIndex' = ix,
         FlushIndex(ix, dirty) \/ (NoFlush(dirty) /\ NoWriter), Retarget,
         UNCHANGED <<mapBlocksUnlinked, coinsVars, nBlockReverseSequenceId>>,
         tip' \in DOMAIN ix /\ Undoable(ix, tip'), coinsTip' \in DOMAIN ix /\ Undoable(ix, coinsTip')
  PROVE  Base'
<1>1. /\ Closed(diskIndex') /\ InSync(ix, setDirtyBlockIndex', diskIndex')
      /\ \A b \in DOMAIN diskIndex : Undoable(diskIndex, b) => Undoable(diskIndex', b)
      /\ FlushIndex(ix, dirty) => setDirtyBlockIndex' = {}
      /\ DOMAIN diskIndex \subseteq DOMAIN diskIndex'
      /\ Committed(diskIndex', blkSynced') /\ Filed(ix, blkSynced')
  BY FlushKeeps, Zenon
<1>2. Tips'
  <2>1. Heads' = Heads
    BY Zenon DEF coinsVars, Heads
  <2>2. QED  BY <1>1, <2>1, Undoes, Zenon DEF Tips, Known
<1>3. Written'
  BY <1>1, WriterKeeps, Zenon DEF Written
<1>4. QED  BY <1>1, <1>2, <1>3, TargetsKeep, Zenon DEF Base

-----------------------------------------------------------------------------
(* Arrivals.                                                               *)

\* The next block goes to the last file or opens the next one.
LEMMA StorePos ==
  ASSUME Base
  PROVE  FindBlockPos \in Nat /\ LastBlockFile(mapBlockIndex) <= FindBlockPos
<1>1. LastBlockFile(mapBlockIndex) \in Nat
  BY LastOf, Indexed, Zenon
<1>2. FindBlockPos \in {LastBlockFile(mapBlockIndex), LastBlockFile(mapBlockIndex) + 1}
  BY Zenon DEF FindBlockPos
<1>3. QED  BY <1>1, <1>2

\* The blocks StoreBlock links.
NewLinks(b) == IF AddToBlockIndex(b)[Parent[b]].chainTx THEN Linked(b) ELSE {}

\* What ReceivedBlockTransactions does to ix, the index with the header of b.
LEMMA StoreEffect ==
  ASSUME Base, NEW b \in Blocks \ {Genesis}, HeaderOK(b), NEW ix, ix = AddToBlockIndex(b),
         ~ ix[b].data, ReceivedBlockTransactions(ix, b)
  PROVE  Gains(ix, mapBlockIndex', b, NewLinks(b), FindBlockPos)
<1> DEFINE stored == [ix EXCEPT ![b] =
             RaiseValidity([@ EXCEPT !.data = TRUE, !.undo = FALSE, !.nFile = FindBlockPos],
                           VALID_TRANSACTIONS)]
           links == Linked(b)
<1>1. DOMAIN ix = Known \cup {b} /\ \A x \in Known \cup {b} : IsEntry(ix[x])
  BY AddKeeps, Zenon DEF Closed
<1>2. DOMAIN stored = Known \cup {b} /\ (\A x \in Known \ {b} : stored[x] = ix[x])
  BY <1>1
<1>3. stored[b] = Stored(ix[b], FindBlockPos)
  BY <1>1, Zenon DEF Stored
<1>4. /\ ix[Parent[b]].chainTx => \E order \in QueueOrders(links) :
          mapBlockIndex' = [x \in DOMAIN ix |->
                              IF x \in links THEN LinkedEntry(stored[x], order[x])
                              ELSE stored[x]]
      /\ ~ ix[Parent[b]].chainTx => mapBlockIndex' = stored
  BY Zenon DEF ReceivedBlockTransactions, LinkedEntry
<1> HIDE DEF stored, links
<1>5. /\ IsEntry(stored[b]) /\ stored[b].data /\ ~ stored[b].undo
      /\ stored[b].chainTx = ix[b].chainTx /\ stored[b].nFile = FindBlockPos
      /\ ix[b].level = VALID_SCRIPTS => stored[b].level = VALID_SCRIPTS
  <2>1. IsEntry(ix[b]) /\ FindBlockPos \in Nat
    BY <1>1, StorePos, Zenon
  <2>2. /\ IsEntry(stored[b]) /\ stored[b].data /\ ~ stored[b].undo
        /\ stored[b].chainTx = ix[b].chainTx /\ stored[b].nFile = FindBlockPos
        /\ stored[b].level = IF ix[b].failed = {} /\ ix[b].level = VALID_TREE
                             THEN VALID_TRANSACTIONS ELSE ix[b].level
    BY <1>3, <2>1, StoreFields
  <2>3. VALID_TREE # VALID_SCRIPTS
    BY DEF VALID_TREE, VALID_SCRIPTS
  <2>4. QED  BY <2>2, <2>3, Zenon
<1>6. Gains(ix, stored, b, {}, FindBlockPos)
  BY <1>1, <1>2, <1>5, Zenon DEF Gains
<1>7. CASE ix[Parent[b]].chainTx
  <2>1. PICK order \in QueueOrders(links) :
          mapBlockIndex' = [x \in DOMAIN ix |->
                              IF x \in links THEN LinkedEntry(stored[x], order[x])
                              ELSE stored[x]]
    BY <1>7, <1>4, Zenon
  <2>2. DOMAIN mapBlockIndex' = DOMAIN ix /\ NewLinks(b) = links
    BY <1>7, <2>1, Zenon DEF NewLinks, links
  <2>3. \A x \in DOMAIN ix \ links : mapBlockIndex'[x] = stored[x]
    BY <2>1, Zenon
  <2>4. ASSUME NEW x \in DOMAIN ix, x \in links
        PROVE  /\ IsEntry(mapBlockIndex'[x]) /\ mapBlockIndex'[x].chainTx
               /\ mapBlockIndex'[x].data = stored[x].data
               /\ mapBlockIndex'[x].undo = stored[x].undo
               /\ mapBlockIndex'[x].level = stored[x].level
               /\ mapBlockIndex'[x].nFile = stored[x].nFile
    <3>1. mapBlockIndex'[x] = LinkedEntry(stored[x], order[x])
      BY <2>1, <2>4, Zenon
    <3>2. IsEntry(stored[x]) /\ order[x] \in Int
      BY <1>6, <2>4 DEF Gains, QueueOrders
    <3>3. QED  BY <3>1, <3>2, LinkFields
  <2>5. QED  BY <1>1, <1>6, <2>2, <2>3, <2>4 DEF Gains
<1>8. CASE ~ ix[Parent[b]].chainTx
  BY <1>4, <1>6, <1>8, Zenon DEF NewLinks
<1>9. QED  BY <1>7, <1>8, Zenon

\* Storing a block: the blocks it links have all their data.
LEMMA StoreBase ==
  ASSUME Base, IInv, IInv', NEW t \in Threads, NEW b \in Blocks \ {Genesis},
         NEW fRequested, StoreBlock(t, b, fRequested)
  PROVE  Base'
<1> DEFINE ix == AddToBlockIndex(b)
<1>1. /\ Lock(t) /\ HeaderOK(b) /\ ReceivedBlockTransactions(ix, b)
      /\ b \in Known => ~ mapBlockIndex[b].data
      /\ setDirtyBlockIndex' = setDirtyBlockIndex \cup {b}
      /\ UNCHANGED <<tip, coinsTip, diskIndex, coinsVars, nBlockReverseSequenceId, cs_main, pindexMostWork>>
      /\ blkSynced \subseteq blkSynced'
  BY Zenon DEF StoreBlock, chainVars, FlushBlockFile
<1>2. /\ Closed(ix) /\ Grows(mapBlockIndex, ix) /\ Links(ix, mapBlocksUnlinked)
      /\ InSync(ix, setDirtyBlockIndex \cup ({b} \ Known), diskIndex) /\ b \in DOMAIN ix
      /\ LastBlockFile(ix) = LastBlockFile(mapBlockIndex) /\ Filed(ix, blkSynced)
  BY <1>1, AddKeeps, Indexed, Zenon
<1>3. ~ ix[b].data /\ ~ ix[b].undo
  <2>1. (b \in Known => ix[b] = mapBlockIndex[b]) /\ (b \notin Known => ix[b] = NewEntry)
    BY <1>1, AddKeeps, Zenon
  <2>2. ~ ix[b].data
    BY <1>1, <2>1, NewFields, Zenon
  <2>3. QED  BY <1>2, <2>2, Zenon DEF Closed
<1>4. Gains(ix, mapBlockIndex', b, NewLinks(b), FindBlockPos)
  BY <1>1, <1>3, StoreEffect, Zenon
<1>14. \A x \in DOMAIN ix : ix[x].data /\ ix[x].nFile # FindBlockPos => x \in blkSynced'
  <2>1. ASSUME NEW x \in DOMAIN ix, ix[x].data, ix[x].nFile # FindBlockPos
        PROVE  x \in blkSynced'
    <3>1. CASE ix[x].nFile # LastBlockFile(ix)
      BY <1>1, <1>2, <2>1, <3>1, Zenon DEF Filed
    <3>2. CASE ix[x].nFile = LastBlockFile(ix)
      <4>1. x \in Known /\ ix[x] = mapBlockIndex[x]
        <5>1. /\ DOMAIN ix = Known \cup {b} /\ (\A y \in Known : ix[y] = mapBlockIndex[y])
              /\ b \notin Known => ix[b] = NewEntry
          BY <1>1, AddKeeps, Zenon
        <5>2. ~ NewEntry.data
          BY NewFields, Zenon
        <5>3. QED  BY <2>1, <5>1, <5>2, Zenon
      <4>2. FlushBlockFile(mapBlockIndex)
        BY <1>2, <2>1, <3>2, Zenon DEF StoreBlock
      <4>3. QED  BY <1>2, <2>1, <3>2, <4>1, <4>2, Zenon DEF FlushBlockFile, Known
    <3>3. QED  BY <3>1, <3>2
  <2>2. QED  BY <2>1
<1> HIDE DEF ix
<1>5. Closed(mapBlockIndex') /\ Grows(ix, mapBlockIndex') /\ LastBlockFile(mapBlockIndex') = FindBlockPos
  BY <1>2, <1>3, <1>4, StorePos, GainKeeps, Zenon
<1>15. Filed(mapBlockIndex', blkSynced')
  BY <1>4, <1>5, <1>14, Zenon DEF Filed, Gains
<1>6. ASSUME NEW x \in NewLinks(b) PROVE x \in DOMAIN ix /\ AllData(mapBlockIndex', x)
  <2>1. /\ x \in DOMAIN ix /\ ix[Parent[b]].chainTx
        /\ \A y \in Anc[x] \ Anc[b] : <<Parent[y], y>> \in mapBlocksUnlinked
    BY <1>1, <1>6, AddKeeps, Zenon DEF NewLinks, Linked, ix
  <2>2. \A y \in Anc[x] \ Anc[b] : y \in DOMAIN ix /\ ix[y].data
    BY <1>2, <2>1, Zenon DEF Links
  <2>3. Parent[b] \in DOMAIN ix
    BY <1>2, Parents, Zenon DEF Closed
  <2>4. \A y \in Anc[Parent[b]] : y \in DOMAIN ix /\ ix[y].data
    BY <1>2, <2>1, <2>3, Zenon DEF Links, AllData, Closed
  <2>5. \A y \in Anc[x] : y \in DOMAIN ix /\ (y = b \/ ix[y].data)
    BY <1>2, <2>2, <2>4, Parents
  <2>6. QED  BY <1>4, <2>1, <2>5, Zenon DEF Gains, AllData
<1>7. Links(mapBlockIndex', mapBlocksUnlinked')
  <2>1. mapBlocksUnlinked' \subseteq mapBlocksUnlinked \cup {<<Parent[b], b>>}
    BY <1>1, Zenon DEF ReceivedBlockTransactions, ix
  <2>2. QED  BY <1>2, <1>4, <1>5, <1>6, <2>1, GainLinks, Zenon
<1>8. InSync(mapBlockIndex', setDirtyBlockIndex', diskIndex)
  <2>1. setDirtyBlockIndex' = (setDirtyBlockIndex \cup ({b} \ Known)) \cup {b}
    BY <1>1
  <2>2. InSync(mapBlockIndex', (setDirtyBlockIndex \cup ({b} \ Known)) \cup {b}, diskIndex)
    BY <1>2, <1>3, <1>4, GainSync, Zenon
  <2>3. QED  BY <2>1, <2>2
<1>9. Retarget
  <2>1. setBlockIndexCandidates' \subseteq setBlockIndexCandidates \cup NewLinks(b)
    BY <1>1, Zenon DEF ReceivedBlockTransactions, NewLinks, ix
  <2>2. \A x \in NewLinks(b) : x \in Known' /\ mapBlockIndex'[x].chainTx
    BY <1>4, <1>6, Zenon DEF Gains, Known
  <2>3. QED  BY <1>1, <2>1, <2>2, Zenon DEF Retarget
<1>10. NoWriter
  BY <1>1, Names, Zenon DEF NoWriter, Lock
<1>11. Grows(mapBlockIndex, mapBlockIndex')
  BY <1>2, <1>5, GrowsTwice, Zenon
<1>12. nBlockReverseSequenceId' \in Int
  BY <1>1, Indexed, Zenon
<1>13. QED
  BY <1>1, <1>5, <1>7, <1>8, <1>9, <1>10, <1>11, <1>12, <1>15, GrowStep, Zenon

\* The other arrivals add a header, and may mark it.
LEMMA ArriveBase ==
  ASSUME Base, IInv, IInv', NEW t \in Threads, Arrive(t)
  PROVE  Base'
<1>1. PICK b \in Blocks \ {Genesis} :
        \/ ProcessNewBlockHeaders(t, b) \/ RefuseHeader(t, b)
        \/ \E fRequested \in BOOLEAN : StoreBlock(t, b, fRequested)
        \/ \E fRequested \in BOOLEAN : RejectBlock(t, b, fRequested)
        \/ \E fRequested \in BOOLEAN : IgnoreBlock(t, b, fRequested)
  BY Zenon DEF Arrive
<1> DEFINE ix == AddToBlockIndex(b)
<1>2. CASE \E fRequested \in BOOLEAN : StoreBlock(t, b, fRequested)
  BY <1>2, StoreBase
<1>3. CASE \/ ProcessNewBlockHeaders(t, b)
           \/ \E fRequested \in BOOLEAN : RejectBlock(t, b, fRequested)
           \/ \E fRequested \in BOOLEAN : IgnoreBlock(t, b, fRequested)
  <2>1. /\ HeaderOK(b) /\ mapBlockIndex' \in {ix, Mark(ix, b, "VALID")}
        /\ \E more \in SUBSET {b} :
             setDirtyBlockIndex' = (setDirtyBlockIndex \cup ({b} \ Known)) \cup more
        /\ UNCHANGED <<setBlockIndexCandidates, mapBlocksUnlinked, tip, coinsTip, diskVars,
                       nBlockReverseSequenceId, pindexMostWork>>
        /\ cs_main' = NoThread
    <3>1. CASE ProcessNewBlockHeaders(t, b)
      BY <3>1, Zenon DEF ProcessNewBlockHeaders, Lock, chainVars, threadVars, seqVars
    <3>2. CASE \E fRequested \in BOOLEAN : IgnoreBlock(t, b, fRequested)
      BY <3>2, Zenon DEF IgnoreBlock, Lock, chainVars, seqVars
    <3>3. CASE \E fRequested \in BOOLEAN : RejectBlock(t, b, fRequested)
      BY <3>3, Zenon DEF RejectBlock, Lock, Mark, chainVars, threadVars, seqVars
    <3>4. QED  BY <1>3, <3>1, <3>2, <3>3, Zenon
  <2>2. /\ Closed(ix) /\ Grows(mapBlockIndex, ix) /\ Links(ix, mapBlocksUnlinked)
        /\ InSync(ix, setDirtyBlockIndex \cup ({b} \ Known), diskIndex)
        /\ DOMAIN ix = Known \cup {b} /\ Filed(ix, blkSynced)
    BY <2>1, AddKeeps, Indexed, Zenon
  <2> HIDE DEF ix
  <2>3. Same(ix, mapBlockIndex')
    <3>1. Same(ix, ix)
      BY <2>2, Zenon DEF Same, Closed
    <3>2. QED  BY <2>1, <2>2, <3>1, MarkEffect, Zenon
  <2>4. /\ Closed(mapBlockIndex') /\ Grows(ix, mapBlockIndex')
        /\ Links(mapBlockIndex', mapBlocksUnlinked)
        /\ InSync(mapBlockIndex', setDirtyBlockIndex', diskIndex)
        /\ Filed(mapBlockIndex', blkSynced)
    <3>1. PICK more \in SUBSET {b} :
            setDirtyBlockIndex' = (setDirtyBlockIndex \cup ({b} \ Known)) \cup more
      BY <2>1, Zenon
    <3>2. more \in SUBSET DOMAIN ix
      BY <2>2, <3>1, Zenon
    <3>3. QED  BY <2>2, <2>3, <3>1, <3>2, SameKeeps, Zenon
  <2>5. Grows(mapBlockIndex, mapBlockIndex')
    BY <2>2, <2>4, GrowsTwice, Zenon
  <2>6. Retarget /\ NoWriter /\ nBlockReverseSequenceId' \in Int
    BY <2>1, Names, Indexed, Zenon DEF Retarget, NoWriter
  <2>7. UNCHANGED <<diskIndex, coinsVars, blkSynced>>
    BY <2>1, Zenon DEF diskVars
  <2>8. QED  BY <2>1, <2>4, <2>5, <2>6, <2>7, GrowStep, Zenon
<1>4. CASE RefuseHeader(t, b)
  BY <1>4, UnchangedBase, Zenon DEF RefuseHeader
<1>5. QED  BY <1>1, <1>2, <1>3, <1>4, Zenon

-----------------------------------------------------------------------------
(* Commands.                                                               *)

\* ResetBlockFailureFlags takes flags away.
LEMMA ResetEffect ==
  ASSUME Base, NEW t \in Threads, NEW b \in Blocks, ResetBlockFailureFlags(t, b)
  PROVE  /\ Same(mapBlockIndex, mapBlockIndex')
         /\ \A c \in setBlockIndexCandidates' :
              c \in setBlockIndexCandidates \/ (c \in Known' /\ mapBlockIndex'[c].chainTx)
         /\ \E more \in SUBSET Known : setDirtyBlockIndex' = setDirtyBlockIndex \cup more
<1> DEFINE below == {x \in Known : b \in Anc[x] /\ ~ IsValid(mapBlockIndex[x], VALID_TRANSACTIONS)}
           above == {x \in Anc[b] : mapBlockIndex[x].failed # {}}
           S == below \cup above
<1>1. /\ b \in Known
      /\ mapBlockIndex' = [x \in Known |-> IF x \in S THEN Flagged(mapBlockIndex[x], {})
                                           ELSE mapBlockIndex[x]]
      /\ setDirtyBlockIndex' = setDirtyBlockIndex \cup below \cup above
      /\ \A c \in setBlockIndexCandidates' :
           c \in setBlockIndexCandidates \/ (c \in below /\ mapBlockIndex'[c].chainTx)
  BY Zenon DEF ResetBlockFailureFlags, Flagged
<1>2. below \subseteq Known /\ S \in SUBSET Known /\ \A x \in Known : IsEntry(mapBlockIndex[x])
  BY <1>1, Indexed, Zenon DEF Closed, Known
<1> HIDE DEF below, above
<1>3. Same(mapBlockIndex, mapBlockIndex')
  <2>1. ASSUME NEW x \in Known
        PROVE  /\ IsEntry(mapBlockIndex'[x]) /\ mapBlockIndex'[x].level = mapBlockIndex[x].level
               /\ mapBlockIndex'[x].data = mapBlockIndex[x].data
               /\ mapBlockIndex'[x].undo = mapBlockIndex[x].undo
               /\ mapBlockIndex'[x].chainTx = mapBlockIndex[x].chainTx
               /\ mapBlockIndex'[x].nFile = mapBlockIndex[x].nFile
    BY <1>1, <1>2, FailedFields
  <2>2. QED  BY <1>1, <2>1, Zenon DEF Same, Known
<1>4. setDirtyBlockIndex' = setDirtyBlockIndex \cup S
  BY <1>1
<1>5. QED  BY <1>1, <1>2, <1>3, <1>4, Zenon DEF Same, Known

\* PreciousBlock renumbers a block.
LEMMA PreciousEffect ==
  ASSUME Base, NEW t \in Threads, NEW b \in Blocks, PreciousBlock(t, b)
  PROVE  /\ Same(mapBlockIndex, mapBlockIndex')
         /\ \A c \in setBlockIndexCandidates' :
              c \in setBlockIndexCandidates \/ (c \in Known' /\ mapBlockIndex'[c].chainTx)
         /\ nBlockReverseSequenceId' \in Int
<1> DEFINE id == IF ChainWork[tip] > nLastPreciousChainwork THEN -1 ELSE nBlockReverseSequenceId
<1>1. id \in Int /\ \A x \in Known : IsEntry(mapBlockIndex[x])
  BY Indexed DEF Closed, Known
<1>2. /\ b \in Known /\ mapBlockIndex' = [mapBlockIndex EXCEPT ![b].seq = id]
      /\ setBlockIndexCandidates' =
             IF IsValid(mapBlockIndex'[b], VALID_TRANSACTIONS) /\ mapBlockIndex'[b].chainTx
             THEN Prune(setBlockIndexCandidates \cup {b}, mapBlockIndex', tip)
             ELSE setBlockIndexCandidates \ {b}
      /\ nBlockReverseSequenceId' = id - 1
  BY Zenon DEF PreciousBlock
<1> HIDE DEF id
<1>3. /\ DOMAIN mapBlockIndex' = Known /\ (\A x \in Known \ {b} : mapBlockIndex'[x] = mapBlockIndex[x])
      /\ mapBlockIndex'[b] = Numbered(mapBlockIndex[b], id)
  BY <1>2, Zenon DEF Numbered, Known
<1>4. Same(mapBlockIndex, mapBlockIndex')
  <2>1. /\ IsEntry(mapBlockIndex'[b]) /\ mapBlockIndex'[b].level = mapBlockIndex[b].level
        /\ mapBlockIndex'[b].data = mapBlockIndex[b].data
        /\ mapBlockIndex'[b].undo = mapBlockIndex[b].undo
        /\ mapBlockIndex'[b].chainTx = mapBlockIndex[b].chainTx
        /\ mapBlockIndex'[b].nFile = mapBlockIndex[b].nFile
    BY <1>1, <1>2, <1>3, SeqFields
  <2>2. QED  BY <1>1, <1>3, <2>1, Zenon DEF Same, Known
<1>5. nBlockReverseSequenceId' \in Int
  BY <1>1, <1>2
<1>6. QED  BY <1>2, <1>3, <1>4, <1>5, Zenon DEF Prune, Known

\* The operator's commands keep the invariant.
LEMMA OperateBase ==
  ASSUME Base, IInv, IInv', NEW t \in Threads, Operate(t)
  PROVE  Base'
<1>1. PICK b \in Blocks :
        InvalidateBlock(t, b) \/ ResetBlockFailureFlags(t, b) \/ PreciousBlock(t, b)
  BY DEF Operate
<1>2. CASE InvalidateBlock(t, b)
  <2>1. /\ b \in Known /\ mapBlockIndex' = Mark(mapBlockIndex, b, "VALID")
        /\ setDirtyBlockIndex' = setDirtyBlockIndex \cup {b}
        /\ setBlockIndexCandidates' \subseteq setBlockIndexCandidates
        /\ UNCHANGED <<mapBlocksUnlinked, tip, coinsTip, diskVars, nBlockReverseSequenceId, pindexMostWork>>
        /\ cs_main' = t /\ pc' = [pc EXCEPT ![t] = "invalidate"]
        /\ pc \in [Threads -> Unlocked \cup Locked \cup {"aborted"}]
    BY <1>2, Typed, Zenon DEF InvalidateBlock, Mark, chainVars, seqVars
  <2>2. Same(mapBlockIndex, mapBlockIndex') /\ {b} \in SUBSET Known
    BY <2>1, MarkEffect, Indexed, Zenon DEF Known
  <2>3. Retarget /\ NoWriter /\ nBlockReverseSequenceId' \in Int
    BY <2>1, Indexed, Zenon DEF Retarget, NoWriter, Writers
  <2>4. QED  BY <2>1, <2>2, <2>3, SameStep, Zenon
<1>3. CASE ResetBlockFailureFlags(t, b)
  <2>1. /\ UNCHANGED <<mapBlocksUnlinked, tip, coinsTip, diskVars, nBlockReverseSequenceId,
                       pindexMostWork>>
        /\ cs_main' = NoThread
    BY <1>3, Zenon DEF ResetBlockFailureFlags, Command, Lock, chainVars, seqVars
  <2>2. Retarget /\ NoWriter
    BY <1>3, <2>1, ResetEffect, Names, Zenon DEF Retarget, NoWriter
  <2>3. QED  BY <1>3, <2>1, <2>2, ResetEffect, SameStep, Indexed, Zenon
<1>4. CASE PreciousBlock(t, b)
  <2>1. /\ UNCHANGED <<mapBlocksUnlinked, tip, coinsTip, diskVars, setDirtyBlockIndex,
                       pindexMostWork>>
        /\ cs_main' = NoThread
    BY <1>4, Zenon DEF PreciousBlock, Command, Lock, chainVars
  <2>2. setDirtyBlockIndex' = setDirtyBlockIndex \cup {} /\ {} \in SUBSET Known
    BY <2>1
  <2>3. Retarget /\ NoWriter
    BY <1>4, <2>1, PreciousEffect, Names, Zenon DEF Retarget, NoWriter
  <2>4. QED  BY <1>4, <2>1, <2>2, <2>3, PreciousEffect, SameStep, Zenon
<1>5. QED  BY <1>1, <1>2, <1>3, <1>4
=============================================================================
