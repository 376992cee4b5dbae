------------------------------- MODULE AddrMan -------------------------------
(***************************************************************************)
(* The address manager CAddrMan (baseservice/transport/addrman.h, .cpp).   *)
(* Every known address has an entry in mapInfo, found through mapAddr and  *)
(* listed once in vRandom.  An entry is either "tried", and sits at one    *)
(* place of vvTried, or "new", and sits at nRefCount places of vvNew.      *)
(* Each call runs under the lock cs and is one step here.                  *)
(*                                                                         *)
(* nKey fixes by hashing which buckets and places an address may have; it  *)
(* is chosen once, among Keys.  Times, services, ports and attempt counts  *)
(* only decide early returns and IsTerrible, so those are choices, and     *)
(* Attempt_, Connected_ and SetServices_, which write nothing else, leave  *)
(* this state alone.  Ids count from 0 as in the code, the places of a     *)
(* sequence from 1.                                                        *)
(***************************************************************************)
EXTENDS Integers, Sequences, FiniteSets, SequencesExt, TLC

CONSTANTS
  Addresses, Sources,
  NewBuckets, TriedBuckets,   \* ADDRMAN_NEW_BUCKET_COUNT, ADDRMAN_TRIED_BUCKET_COUNT
  BucketSize,                 \* ADDRMAN_BUCKET_SIZE
  NewBucketsPerAddress,       \* ADDRMAN_NEW_BUCKETS_PER_ADDRESS
  GetAddrPct, GetAddrMax,     \* ADDRMAN_GETADDR_MAX_PCT, ADDRMAN_GETADDR_MAX
  Keys,                       \* what the hashes can come to: see GetNewBucket and the next two
  MaxIds                      \* bound: how many ids a process hands out

NewTable == 0 .. NewBuckets - 1
TriedTable == 0 .. TriedBuckets - 1
Places == 0 .. BucketSize - 1

ASSUME AddrManAssumption ==
  /\ NewBuckets \in Nat \ {0} /\ TriedBuckets \in Nat \ {0} /\ BucketSize \in Nat \ {0}
  /\ NewBucketsPerAddress \in Nat \ {0} /\ GetAddrPct \in 0 .. 100 /\ GetAddrMax \in Nat
  /\ MaxIds \in Nat
  /\ \A key \in Keys :
       /\ key.newBucket \in [Addresses -> [Sources -> NewTable]]
       /\ key.triedBucket \in [Addresses -> TriedTable]
       /\ key.newPlace \in [Addresses -> [NewTable -> Places]]
       /\ key.triedPlace \in [Addresses -> Places]

VARIABLES
  nKey,
  man    \* the tables: mapInfo, mapAddr, vRandom, nNew, nTried, vvNew, vvTried, nIdCount,
         \* and asserted, FALSE once an assert of the code has failed

vars == <<nKey, man>>

GetNewBucket(addr, source) == nKey.newBucket[addr][source]
GetTriedBucket(addr) == nKey.triedBucket[addr]
NewPlace(addr, bucket) == nKey.newPlace[addr][bucket]      \* GetBucketPosition(nKey, true, bucket)
TriedPlace(addr) == nKey.triedPlace[addr]                  \* GetBucketPosition(nKey, false, ...)

Empty == -1
Ids == 0 .. MaxIds - 1

CAddrInfo == [addr : Addresses, source : Sources, nLastSuccess : BOOLEAN,
              nRefCount : 0 .. NewBuckets, fInTried : BOOLEAN, nRandomPos : 1 .. MaxIds]

TypeOK ==
  /\ nKey \in Keys
  /\ DOMAIN man.mapInfo \subseteq Ids
  /\ \A id \in DOMAIN man.mapInfo : man.mapInfo[id] \in CAddrInfo
  /\ DOMAIN man.mapAddr \subseteq Addresses
  /\ \A a \in DOMAIN man.mapAddr : man.mapAddr[a] \in Ids
  /\ man.vRandom \in Seq(Ids) /\ man.nNew \in 0 .. MaxIds /\ man.nTried \in 0 .. MaxIds
  /\ man.vvNew \in [NewTable \X Places -> Ids \cup {Empty}]
  /\ man.vvTried \in [TriedTable \X Places -> Ids \cup {Empty}]
  /\ man.nIdCount \in 0 .. MaxIds /\ man.asserted \in BOOLEAN

Nothing == [x \in {} |-> x]
Without(f, x) == [y \in DOMAIN f \ {x} |-> f[y]]

Clear ==
  [mapInfo |-> Nothing, mapAddr |-> Nothing, vRandom |-> <<>>, nNew |-> 0, nTried |-> 0,
   vvNew |-> [c \in NewTable \X Places |-> Empty],
   vvTried |-> [c \in TriedTable \X Places |-> Empty],
   nIdCount |-> 0, asserted |-> TRUE]

Init == nKey \in Keys /\ man = Clear

------------------------------------------------------------------------------
(* The helpers.  Each takes the tables m and returns the changed ones.      *)

Assert_(m, condition) == [m EXCEPT !.asserted = @ /\ condition]

\* The entry gets the next id and the last place of vRandom.
Create(m, addr, source) ==
  [m EXCEPT
     !.nIdCount = @ + 1,
     !.mapInfo = @ @@ (m.nIdCount :>
        [addr |-> addr, source |-> source, nLastSuccess |-> FALSE, nRefCount |-> 0,
         fInTried |-> FALSE, nRandomPos |-> Len(m.vRandom) + 1]),
     !.mapAddr = (addr :> m.nIdCount) @@ @,
     !.vRandom = Append(@, m.nIdCount)]

\* Mutated form: only one of the two entries learns its new position.
SwapRandomOne(m, p, q) ==
  LET id1 == m.vRandom[p]
      id2 == m.vRandom[q]
  IN [m EXCEPT !.mapInfo[id1].nRandomPos = q,
               !.vRandom[p] = id2, !.vRandom[q] = id1]

SwapRandom(m, p, q) ==
  LET id1 == m.vRandom[p]
      id2 == m.vRandom[q]
  IN IF p = q THEN m
     ELSE [m EXCEPT !.mapInfo[id1].nRandomPos = q, !.mapInfo[id2].nRandomPos = p,
                    !.vRandom[p] = id2, !.vRandom[q] = id1]

Delete(m, id) ==
  LET info == m.mapInfo[id]
      swapped == SwapRandom(Assert_(m, ~info.fInTried /\ info.nRefCount = 0),
                            info.nRandomPos, Len(m.vRandom))
  IN [swapped EXCEPT !.vRandom = Front(@), !.mapAddr = Without(@, info.addr),
                     !.mapInfo = Without(@, id), !.nNew = @ - 1]

\* The entry at that place of vvNew loses a reference, and with the last one its existence.
ClearNew(m, cell) ==
  LET id == m.vvNew[cell]
      cleared == [Assert_(m, m.mapInfo[id].nRefCount > 0) EXCEPT
                    !.mapInfo[id].nRefCount = @ - 1, !.vvNew[cell] = Empty]
  IN IF id = Empty THEN m
     ELSE IF cleared.mapInfo[id].nRefCount = 0 THEN Delete(cleared, id) ELSE cleared

\* The places of vvNew that MakeTried and Good_ look at for an entry, and those it is at.
OwnCells(m, id) ==
  {c \in {<<b, NewPlace(m.mapInfo[id].addr, b)>> : b \in NewTable} : m.vvNew[c] = id}

\* Mutated form: the entry leaves only one of its new buckets.
LeaveNewOnce(m, id) ==
  LET cell == CHOOSE c \in OwnCells(m, id) : TRUE
      left == [m EXCEPT !.vvNew[cell] = Empty, !.mapInfo[id].nRefCount = @ - 1, !.nNew = @ - 1]
  IN Assert_(left, left.mapInfo[id].nRefCount = 0)

\* MakeTried, the first part: out of all new buckets.
LeaveNew(m, id) ==
  LET cells == OwnCells(m, id)
      left == [m EXCEPT !.vvNew = [c \in DOMAIN @ |-> IF c \in cells THEN Empty ELSE @[c]],
                        !.mapInfo[id].nRefCount = @ - Cardinality(cells),
                        !.nNew = @ - 1]
  IN Assert_(left, left.mapInfo[id].nRefCount = 0)

\* Mutated form: the evicted entry is deleted instead of going back to a new bucket.
EvictDropped(m, cell) ==
  LET id == m.vvTried[cell]
      out == [m EXCEPT !.mapInfo[id].fInTried = FALSE, !.vvTried[cell] = Empty, !.nTried = @ - 1]
  IN IF id = Empty THEN m ELSE Delete([out EXCEPT !.nNew = @ + 1], id)

\* MakeTried, the second part: the entry at the wanted place of vvTried goes back to the
\* new bucket of its source, and whatever is there loses that reference.
Evict(m, cell) ==
  LET id == m.vvTried[cell]
      old == m.mapInfo[id]
      bucket == GetNewBucket(old.addr, old.source)
      place == <<bucket, NewPlace(old.addr, bucket)>>
      out == [m EXCEPT !.mapInfo[id].fInTried = FALSE, !.vvTried[cell] = Empty, !.nTried = @ - 1]
      room == ClearNew(out, place)
  IN IF id = Empty THEN m
     ELSE [Assert_(room, room.vvNew[place] = Empty) EXCEPT
             !.mapInfo[id].nRefCount = 1, !.vvNew[place] = id, !.nNew = @ + 1]

MakeTried(m, id) ==
  LET addr == m.mapInfo[id].addr
      cell == <<GetTriedBucket(addr), TriedPlace(addr)>>
      room == Evict(LeaveNew(m, id), cell)
  IN [Assert_(room, room.vvTried[cell] = Empty) EXCEPT
        !.vvTried[cell] = id, !.nTried = @ + 1, !.mapInfo[id].fInTried = TRUE]

------------------------------------------------------------------------------
(* The calls. *)

\* Mutated form: the place is cleared also for an entry that then does not take it.
InsertFirstOnly(m, id, cell, isTerrible) ==
  LET there == m.vvNew[cell]
      refs == m.mapInfo[id].nRefCount
      fInsert == there = Empty \/ isTerrible \/ (m.mapInfo[there].nRefCount > 1 /\ refs = 0)
  IN IF there = id THEN m
     ELSE IF fInsert
          THEN IF refs > 0 THEN ClearNew(m, cell)
               ELSE [ClearNew(m, cell) EXCEPT !.mapInfo[id].nRefCount = 1, !.vvNew[cell] = id]
     ELSE IF refs = 0 THEN Delete(m, id) ELSE m

\* The end of Add_, for the entry id: it goes to the bucket of this source if the place is
\* free, or if the entry there is terrible, or has other places and the new one has none.
Insert(m, id, cell, isTerrible) ==
  LET there == m.vvNew[cell]
      refs == m.mapInfo[id].nRefCount
      fInsert == there = Empty \/ isTerrible \/ (m.mapInfo[there].nRefCount > 1 /\ refs = 0)
  IN IF there = id THEN m
     ELSE IF fInsert
          THEN [ClearNew(m, cell) EXCEPT !.mapInfo[id].nRefCount = @ + 1, !.vvNew[cell] = id]
     ELSE IF refs = 0 THEN Delete(m, id) ELSE m

NewCell(addr, source) ==
  LET bucket == GetNewBucket(addr, source) IN <<bucket, NewPlace(addr, bucket)>>

\* Add_ of an address that is not known.
AddNew(addr, source) ==
  /\ addr \notin DOMAIN man.mapAddr
  /\ man.nIdCount < MaxIds
  /\ LET created == [Create(man, addr, source) EXCEPT !.nNew = @ + 1]
     IN \E isTerrible \in BOOLEAN :
          man' = Insert(created, man.nIdCount, NewCell(addr, source), isTerrible)
  /\ UNCHANGED nKey

\* Add_ of a known address that passes all tests: newer information, not tried, room for
\* one more reference, and luck.  The other cases return early.
AddKnown(addr, source) ==
  /\ addr \in DOMAIN man.mapAddr
  /\ LET id == man.mapAddr[addr]
     IN /\ ~man.mapInfo[id].fInTried
        /\ man.mapInfo[id].nRefCount # NewBucketsPerAddress
        /\ \E isTerrible \in BOOLEAN : man' = Insert(man, id, NewCell(addr, source), isTerrible)
  /\ UNCHANGED nKey

\* Good_: the connection to a known address worked.
Good(addr) ==
  /\ addr \in DOMAIN man.mapAddr
  /\ LET id == man.mapAddr[addr]
         updated == [man EXCEPT !.mapInfo[id].nLastSuccess = TRUE]
     IN man' = IF man.mapInfo[id].fInTried \/ OwnCells(man, id) = {}
               THEN updated ELSE MakeTried(updated, id)
  /\ UNCHANGED nKey

\* GetAddr_ shuffles vRandom from the front, as far as it takes to find nNodes entries that
\* are not terrible.
GetAddr ==
  LET size == Len(man.vRandom)
      nNodes == Min({(GetAddrPct * size) \div 100, GetAddrMax})
  IN /\ nNodes > 0
     /\ \E last \in nNodes .. size :
          \E nRndPos \in {f \in [1 .. last -> 1 .. size] : \A n \in 1 .. last : f[n] >= n} :
            man' = FoldLeft(LAMBDA m, n : SwapRandom(m, n, nRndPos[n]), man,
                            [n \in 1 .. last |-> n])
     /\ UNCHANGED nKey

------------------------------------------------------------------------------
(* peers.dat.  Serialize writes the new entries, the tried entries, and for *)
(* each new bucket the number of its entries and a list of indices into     *)
(* the new entries.  The list is not emptied from bucket to bucket          *)
(* (encIndex, addrman.h:557): each holds those of the earlier buckets too.  *)

Ascending(S) == SetToSortSeq(S, LAMBDA x, y : x < y)
Saved(m, ids) ==
  [i \in 1 .. Cardinality(ids) |->
     LET info == m.mapInfo[Ascending(ids)[i]]
     IN [addr |-> info.addr, source |-> info.source, nLastSuccess |-> info.nLastSuccess]]

Serialize(m) ==
  LET newIds == {id \in DOMAIN m.mapInfo : m.mapInfo[id].nRefCount # 0}
      triedIds == {id \in DOMAIN m.mapInfo : m.mapInfo[id].fInTried}
      mapUnkIds(id) == Cardinality({i \in newIds : i < id})
      used(b) == Ascending({p \in Places : m.vvNew[<<b, p>>] # Empty})
      indices(b) == [i \in 1 .. Len(used(b)) |-> mapUnkIds(m.vvNew[<<b, used(b)[i]>>])]
      encIndex[b \in NewTable] == IF b = 0 THEN indices(0) ELSE encIndex[b - 1] \o indices(b)
  IN [new |-> Saved(m, newIds), tried |-> Saved(m, triedIds),
      buckets |-> [b \in NewTable |-> [nSize |-> Len(used(b)), index |-> encIndex[b]]]]

\* A new entry is read without a place.
LoadNew(m, saved) == [Create(m, saved.addr, saved.source) EXCEPT
                        !.mapInfo[m.nIdCount].nLastSuccess = saved.nLastSuccess, !.nNew = @ + 1]

\* A tried entry goes to its place; it is lost when the place is taken.
LoadTried(m, saved) ==
  LET cell == <<GetTriedBucket(saved.addr), TriedPlace(saved.addr)>>
  IN IF m.vvTried[cell] # Empty THEN m
     ELSE [Create(m, saved.addr, saved.source) EXCEPT
             !.mapInfo[m.nIdCount].nLastSuccess = saved.nLastSuccess,
             !.mapInfo[m.nIdCount].fInTried = TRUE,
             !.vvTried[cell] = m.nIdCount, !.nTried = @ + 1]

\* An entry gets its place in the bucket, unless that is taken or it has enough places.
LoadPlace(m, bucket, index) ==
  LET cell == <<bucket, NewPlace(m.mapInfo[index].addr, bucket)>>
  IN IF m.vvNew[cell] = Empty /\ m.mapInfo[index].nRefCount < NewBucketsPerAddress
     THEN [m EXCEPT !.mapInfo[index].nRefCount = @ + 1, !.vvNew[cell] = index]
     ELSE m

LoadBucket(m, bucket, file) ==
  FoldLeft(LAMBDA acc, n : LoadPlace(acc, bucket, file.buckets[bucket].index[n]), m,
           [n \in 1 .. file.buckets[bucket].nSize |-> n])

\* New entries without a place are deleted in the end.
UnSerialize(file) ==
  LET entries == FoldLeft(LoadTried, FoldLeft(LoadNew, Clear, file.new), file.tried)
      placed == FoldLeft(LAMBDA m, i : LoadBucket(m, i - 1, file), entries,
                         [i \in 1 .. NewBuckets |-> i])
      lost == {id \in DOMAIN placed.mapInfo :
                 ~placed.mapInfo[id].fInTried /\ placed.mapInfo[id].nRefCount = 0}
  IN FoldLeft(Delete, placed, Ascending(lost))

\* Stop() dumps the addresses and the next process reads them.  A process that crashed
\* starts with an older dump, that is in the state of an earlier Restart.  The tests of
\* UnSerialize on the key size and the two counters pass on what Serialize wrote.
Restart ==
  /\ man' = UnSerialize(Serialize(man))
  /\ UNCHANGED nKey

\* peers.dat is missing, or is not what Serialize wrote: CAddrDB::Read fails, anywhere in
\* UnSerialize, and Start() calls Clear(), which also draws another key.
StartOver == nKey' \in Keys /\ man' = Clear

Next ==
  \/ \E addr \in Addresses, source \in Sources : AddNew(addr, source)
  \/ \E addr \in Addresses, source \in Sources : AddKnown(addr, source)
  \/ \E addr \in Addresses : Good(addr)
  \/ GetAddr
  \/ Restart \/ StartOver

Spec == Init /\ [][Next]_vars

------------------------------------------------------------------------------
(* Properties. *)

Known(addr) == addr \in DOMAIN man.mapAddr
Tried(addr) == Known(addr) /\ man.mapInfo[man.mapAddr[addr]].fInTried

\* No assert of addrman.cpp fails in any sequence of calls: Delete is only reached by
\* entries without references and outside the tried table (addrman.cpp:155-157), references
\* do not go below zero (addrman.cpp:172), and MakeTried finds the places it made free
\* (addrman.cpp:193, 215, 222).
AssertsHold == man.asserted

\* The consistency conditions of Check_() (addrman.cpp:424-498), which the code only
\* evaluates when built with DEBUG_ADDRMAN: the two maps, the random order, the counters,
\* the reference counts and the two tables describe the same entries, each entry is at the
\* places its hashes allow, and an entry has at most NewBucketsPerAddress of them.
Consistent ==
  LET info == man.mapInfo
      ids == DOMAIN info
      triedAt(id) == {c \in DOMAIN man.vvTried : man.vvTried[c] = id}
      newAt(id) == {c \in DOMAIN man.vvNew : man.vvNew[c] = id}
  IN /\ TypeOK
     /\ Len(man.vRandom) = man.nTried + man.nNew
     /\ man.nTried = Cardinality({id \in ids : info[id].fInTried})
     /\ man.nNew = Cardinality({id \in ids : ~info[id].fInTried})
     /\ \A id \in ids :
          /\ Known(info[id].addr) /\ man.mapAddr[info[id].addr] = id
          /\ info[id].nRandomPos \in DOMAIN man.vRandom /\ man.vRandom[info[id].nRandomPos] = id
          /\ info[id].nRefCount = Cardinality(newAt(id))
          /\ IF info[id].fInTried
             THEN /\ info[id].nLastSuccess /\ info[id].nRefCount = 0
                  /\ triedAt(id) = {<<GetTriedBucket(info[id].addr), TriedPlace(info[id].addr)>>}
             ELSE /\ info[id].nRefCount \in 1 .. NewBucketsPerAddress
                  /\ triedAt(id) = {}
                  /\ newAt(id) = OwnCells(man, id)
     /\ \A c \in DOMAIN man.vvTried : man.vvTried[c] \in ids \cup {Empty}
     /\ \A c \in DOMAIN man.vvNew : man.vvNew[c] \in ids \cup {Empty}

\* An address that was reached stays known: no call, and no restart that can read peers.dat,
\* takes it out of the tried table (MakeTried, addrman.cpp:204-221; UnSerialize,
\* addrman.h:645-666) except to make room for another address, at the very place, and then
\* it is a new address again.
TriedKept ==
  [][\A a \in Addresses :
       Tried(a) => \/ Tried(a)'
                   \/ /\ Known(a)'
                      /\ \E b \in Addresses :
                           /\ ~Tried(b) /\ Tried(b)'
                           /\ GetTriedBucket(a) = GetTriedBucket(b)
                           /\ TriedPlace(a) = TriedPlace(b)
                   \/ StartOver]_vars

\* While the process runs, a call takes at most one address out of the tables, and only by
\* putting another one at a place it had: additions replace addresses and never just drop
\* them (Add_ and MakeTried fill every place they had ClearNew clear).  A restart can lose
\* several, see Serialize.
OneForOne ==
  [][LET gone == {a \in Addresses : Known(a) /\ ~Known(a)'}
     IN \/ gone = {}
        \/ /\ Cardinality(gone) = 1
           /\ \A a \in gone : \E c \in DOMAIN man.vvNew :
                /\ man.vvNew[c] = man.mapAddr[a]
                /\ man.vvNew'[c] \notin {Empty, man.vvNew[c]}
        \/ Restart \/ StartOver]_vars
==============================================================================
