--------------------------- MODULE BanListProofs ---------------------------
(***************************************************************************)
(* Proofs about BanList, for any callers, subnets, expiry times, numbers   *)
(* of restarts and failures of the file system.  FlagHonest and FileWhole  *)
(* rest on what a caller finds at each step of DumpBanlist while no dump   *)
(* has been disturbed (FilesKept, ListKept).                               *)
(***************************************************************************)
EXTENDS BanList, FunctionTheorems, FiniteSetTheorems, TLAPS

-----------------------------------------------------------------------------
(* Ban maps.                                                               *)

\* What it is to be a ban map.
LEMMA BanMapsFact ==
  \A m : m \in BanMaps <=> \E S \in SUBSET SubNets : m \in [S -> 1 .. MaxUntil]
BY DEF BanMaps

\* The empty list is one.
LEMMA NoBansFact == NoBans \in BanMaps /\ DOMAIN NoBans = {}
<1>1. NoBans \in [{} -> 1 .. MaxUntil] /\ DOMAIN NoBans = {}
  BY DEF NoBans
<1>2. QED  BY <1>1, BanMapsFact

\* What SweepBanned and Unban keep of a list is a list.
LEMMA RestrictedFact ==
  ASSUME NEW m \in BanMaps, NEW S \in SUBSET DOMAIN m
  PROVE  /\ Restricted(m, S) \in BanMaps /\ DOMAIN Restricted(m, S) = S
         /\ \A s \in S : Restricted(m, S)[s] = m[s]
         /\ S = DOMAIN m => Restricted(m, S) = m
<1>1. PICK T \in SUBSET SubNets : m \in [T -> 1 .. MaxUntil]
  BY BanMapsFact
<1>2. S \in SUBSET SubNets /\ Restricted(m, S) \in [S -> 1 .. MaxUntil]
  BY <1>1 DEF Restricted
<1>3. Restricted(m, S) \in BanMaps
  BY <1>2, BanMapsFact
<1>4. S = DOMAIN m => Restricted(m, S) = m
  BY <1>1 DEF Restricted
<1>5. QED  BY <1>3, <1>4 DEF Restricted

\* The sweep keeps every entry that has not expired, and tells whether it dropped one.
LEMMA SweepFact ==
  ASSUME setBanned \in BanMaps, setBannedIsDirty \in BOOLEAN, now \in Nat, SweepBanned
  PROVE  /\ setBanned' \in BanMaps /\ setBannedIsDirty' \in BOOLEAN
         /\ \A s \in SubNets : IsBanned(s) => s \in DOMAIN setBanned' /\ setBanned'[s] = setBanned[s]
         /\ setBannedIsDirty => setBannedIsDirty'
         /\ ~setBannedIsDirty' => setBanned' = setBanned
<1> DEFINE kept == {s \in DOMAIN setBanned : now <= setBanned[s]}
<1>1. /\ setBanned' = Restricted(setBanned, kept)
      /\ setBannedIsDirty' = (setBannedIsDirty \/ kept # DOMAIN setBanned)
  BY DEF SweepBanned
<1>2. kept \in SUBSET DOMAIN setBanned
  OBVIOUS
<1>3. \A s \in SubNets : IsBanned(s) => s \in kept
  <2>1. PICK T \in SUBSET SubNets : setBanned \in [T -> 1 .. MaxUntil]
    BY BanMapsFact
  <2>2. QED  BY <2>1, BanAssumption DEF IsBanned
<1> HIDE DEF kept
<1>4. QED  BY <1>1, <1>2, <1>3, RestrictedFact

-----------------------------------------------------------------------------
(* Files.                                                                  *)

\* There is always an inode that neither a name nor an open file refers to.
LEMMA FreeInode ==
  ASSUME fd \in [Callers -> Inodes \cup {0}]
  PROVE  \E i \in Inodes : i # banlist /\ \A u \in Callers : fd[u] # i
<1> DEFINE N == Cardinality(Callers)
           used == {fd[u] : u \in Callers}
<1>1. IsFiniteSet(Callers) /\ N \in Nat
  BY BanAssumption, FS_CardinalityType
<1>2. IsFiniteSet(used) /\ Cardinality(used) <= N
  <2>1. fd \in Surjection(Callers, used)
    BY Fun_IsSurj
  <2>2. QED  BY <1>1, <2>1, FS_Surjection
<1>3. IsFiniteSet(used \cup {banlist}) /\ Cardinality(used \cup {banlist}) <= N + 1
  <2>1. Cardinality(used) \in Nat
    BY <1>2, FS_CardinalityType
  <2>2. /\ IsFiniteSet(used \cup {banlist})
        /\ Cardinality(used \cup {banlist}) \in {Cardinality(used), Cardinality(used) + 1}
    <3> HIDE DEF used
    <3> QED  BY <1>2, <2>1, FS_AddElement
  <2> HIDE DEF used, N
  <2>3. QED  BY <1>1, <1>2, <2>1, <2>2
<1>4. IsFiniteSet(Inodes) /\ Cardinality(Inodes) = N + 2
  <2>1. 1 \in Int /\ N + 2 \in Int
    BY <1>1
  <2>2. QED  BY <1>1, <2>1, FS_Interval DEF Inodes
<1>5. ~ (Inodes \subseteq used \cup {banlist})
  <2> SUFFICES ASSUME Inodes \subseteq used \cup {banlist} PROVE FALSE
    OBVIOUS
  <2>1. Cardinality(Inodes) <= Cardinality(used \cup {banlist})
    BY <1>3, FS_Subset
  <2>2. Cardinality(used \cup {banlist}) \in Nat
    BY <1>3, FS_CardinalityType
  <2>3. QED  BY <1>1, <1>3, <1>4, <2>1, <2>2
<1>6. QED  BY <1>5

\* The file DumpOpen opens: the temporary one, or a new one.
LEMMA OpenFact ==
  ASSUME NEW t \in Callers, fd \in [Callers -> Inodes \cup {0}], temp \in Inodes \cup {0}, DumpOpen(t)
  PROVE  temp' \in Inodes /\ (temp = 0 => temp' # banlist) /\ (temp # 0 => temp' = temp)
<1> DEFINE Free(i) == i # banlist /\ \A u \in Callers : fd[u] # i
<1>1. \E i \in Inodes : Free(i)
  BY FreeInode
<1>2. (CHOOSE i \in Inodes : Free(i)) \in Inodes /\ Free(CHOOSE i \in Inodes : Free(i))
  BY <1>1
<1>3. temp' = IF temp # 0 THEN temp ELSE CHOOSE i \in Inodes : Free(i)
  BY DEF DumpOpen
<1> HIDE DEF Free
<1>4. CASE temp # 0
  BY <1>3, <1>4
<1>5. CASE temp = 0
  <2>1. temp' \in Inodes /\ Free(temp')
    BY <1>2, <1>3, <1>5
  <2>2. QED  BY <2>1, <1>5 DEF Free
<1>6. QED  BY <1>4, <1>5

\* What a file can be made to hold.
LEMMA ContentsFact ==
  /\ Truncated \in Contents /\ Torn \in Contents
  /\ \A m \in BanMaps : Whole(m) \in Contents
BY NoBansFact DEF Truncated, Torn, Whole, Contents

-----------------------------------------------------------------------------
(* Types, and what may happen to a ban.                                    *)

\* A Ban() that is not refused adds an entry or lengthens one.
LEMMA BanFact ==
  ASSUME setBanned \in BanMaps, NEW t \in Callers, NEW s \in SubNets, NEW until \in 1 .. MaxUntil,
         NEW manually, Ban(t, s, until, manually)
  PROVE  /\ setBanned' \in BanMaps
         /\ \A u \in DOMAIN setBanned : u \in DOMAIN setBanned' /\ setBanned'[u] >= setBanned[u]
<1>1. PICK T \in SUBSET SubNets : setBanned \in [T -> 1 .. MaxUntil]
  BY BanMapsFact
<1>2. setBanned' = [u \in T \cup {s} |-> IF u = s THEN until ELSE setBanned[u]]
  BY <1>1 DEF Ban
<1>3. T \cup {s} \in SUBSET SubNets /\ setBanned' \in [T \cup {s} -> 1 .. MaxUntil]
  BY <1>1, <1>2
<1>4. setBanned' \in BanMaps
  BY <1>3, BanMapsFact
<1>5. s \in T => setBanned[s] < until
  BY <1>1 DEF Ban
<1>6. ASSUME NEW u \in T PROVE u \in DOMAIN setBanned' /\ setBanned'[u] >= setBanned[u]
  BY <1>1, <1>2, <1>5, BanAssumption
<1>7. QED  BY <1>1, <1>4, <1>6

\* The ban list and the files as the first Start() finds them have their types.
THEOREM InitTypeOK == Init => TypeOK
<1> SUFFICES ASSUME Init PROVE TypeOK  OBVIOUS
<1>1. content \in [Inodes -> Contents]
  BY ContentsFact DEF Init
<1>2. banmap \in [Callers -> BanMaps] /\ setBanned \in BanMaps
  BY NoBansFact DEF Init
<1>3. /\ fd \in [Callers -> Inodes \cup {0}]
      /\ pc \in [Callers -> {"idle", "sweep", "test", "copy", "open", "write", "rename", "clear"}]
  BY DEF Init
<1>4. now \in 0 .. MaxTime /\ restarts \in 0 .. MaxRestarts
  BY BanAssumption DEF Init
<1>5. /\ setBannedIsDirty \in BOOLEAN /\ starting \in BOOLEAN /\ temp = 0 /\ banlist = 0
      /\ incidents \subseteq Incidents
  BY DEF Init
<1>6. QED  BY <1>1, <1>2, <1>3, <1>4, <1>5 DEF TypeOK

\* The end of a call keeps the types of what it resets.
LEMMA ReturnTypes ==
  ASSUME TypeOK, NEW t \in Callers, Return(t)
  PROVE  /\ fd' \in [Callers -> Inodes \cup {0}] /\ banmap' \in [Callers -> BanMaps]
         /\ pc' \in [Callers -> {"idle", "sweep", "test", "copy", "open", "write", "rename", "clear"}]
         /\ starting' \in BOOLEAN
BY NoBansFact DEF TypeOK, Return, Goto

\* So does what is noted of a step.
LEMMA NoteTypes ==
  /\ \A condition \in BOOLEAN, i \in Incidents :
       incidents \subseteq Incidents /\ Note(condition, i) => incidents' \subseteq Incidents
  /\ incidents \subseteq Incidents /\ NoteChange => incidents' \subseteq Incidents
BY Zenon DEF Note, NoteChange, Incidents

\* The calls of the interface keep the types.
LEMMA CallTypes ==
  ASSUME TypeOK, NEW t \in Callers,
         \/ \E s \in SubNets, until \in 1 .. MaxUntil, manually \in BOOLEAN : Ban(t, s, until, manually)
         \/ \E s \in SubNets : Unban(t, s)
         \/ ClearBanned(t) \/ DumpData(t)
  PROVE  TypeOK'
<1>1. ASSUME NEW s \in SubNets, NEW until \in 1 .. MaxUntil, NEW manually \in BOOLEAN,
             Ban(t, s, until, manually)
      PROVE  TypeOK'
  <2>1. setBanned' \in BanMaps
    BY <1>1, BanFact DEF TypeOK
  <2>2. incidents' \subseteq Incidents
    BY <1>1, NoteTypes, Zenon DEF TypeOK, Ban
  <2>3. QED  BY <1>1, <2>1, <2>2 DEF TypeOK, Ban, Goto, disk
<1>2. ASSUME NEW s \in SubNets, Unban(t, s) PROVE TypeOK'
  <2>1. setBanned' \in BanMaps
    BY <1>2, RestrictedFact DEF TypeOK, Unban
  <2>2. incidents' \subseteq Incidents
    BY <1>2, NoteTypes, Zenon DEF TypeOK, Unban
  <2>3. QED  BY <1>2, <2>1, <2>2 DEF TypeOK, Unban, Goto, disk
<1>3. CASE ClearBanned(t)
  <2>1. incidents' \subseteq Incidents
    BY <1>3, NoteTypes, Zenon DEF TypeOK, ClearBanned
  <2>2. QED  BY <1>3, <2>1, NoBansFact DEF TypeOK, ClearBanned, Goto, disk
<1>4. CASE DumpData(t)
  BY <1>4 DEF TypeOK, DumpData, Goto, disk, memory
<1>5. QED  BY <1>1, <1>2, <1>3, <1>4

\* DumpBanlist keeps the types.
LEMMA DumpTypes ==
  ASSUME TypeOK, NEW t \in Callers, DumpBanlist(t)
  PROVE  TypeOK'
<1>1. CASE DumpSweep(t)
  <2>1. setBanned' \in BanMaps /\ setBannedIsDirty' \in BOOLEAN
    BY <1>1, SweepFact, BanAssumption DEF TypeOK, DumpSweep
  <2>2. incidents' \subseteq Incidents
    BY <1>1, NoteTypes, Zenon DEF TypeOK, DumpSweep
  <2>3. QED  BY <1>1, <2>1, <2>2 DEF TypeOK, DumpSweep, Goto, disk
<1>2. CASE DumpTest(t)
  BY <1>2, ReturnTypes DEF TypeOK, DumpTest, Goto, disk, memory
<1>3. CASE DumpCopy(t)
  <2>1. setBanned' \in BanMaps /\ setBannedIsDirty' \in BOOLEAN
    BY <1>3, SweepFact, BanAssumption DEF TypeOK, DumpCopy
  <2>2. incidents' \subseteq Incidents
    BY <1>3, NoteTypes, Zenon DEF TypeOK, DumpCopy
  <2>3. QED  BY <1>3, <2>1, <2>2 DEF TypeOK, DumpCopy, Goto, disk
<1>4. CASE DumpOpen(t)
  <2>1. temp' \in Inodes
    BY <1>4, OpenFact DEF TypeOK
  <2>2. content' \in [Inodes -> Contents] /\ fd' \in [Callers -> Inodes \cup {0}]
    BY <1>4, <2>1, ContentsFact DEF TypeOK, DumpOpen
  <2>3. incidents' \subseteq Incidents
    BY <1>4, NoteTypes, Zenon DEF TypeOK, DumpOpen, Incidents
  <2>4. QED  BY <1>4, <2>1, <2>2, <2>3 DEF TypeOK, DumpOpen, Goto, memory
<1>5. CASE DumpWrite(t)
  <2>1. PICK c \in {Whole(banmap[t])}
              \cup (IF content[fd[t]].state = "truncated" THEN {} ELSE {Torn})
              \cup (IF FlushFails THEN {content[fd[t]]} ELSE {}) :
            content' = [content EXCEPT ![fd[t]] = c]
    BY <1>5 DEF DumpWrite
  <2>2. content' \in [Inodes -> Contents]
    <3>1. CASE fd[t] \in Inodes
      <4>1. c \in Contents
        BY <2>1, <3>1, ContentsFact DEF TypeOK
      <4>2. QED  BY <2>1, <3>1, <4>1 DEF TypeOK
    <3>2. CASE fd[t] \notin Inodes
      BY <2>1, <3>2 DEF TypeOK
    <3>3. QED  BY <3>1, <3>2
  <2>3. incidents' \subseteq Incidents
    BY <1>5, NoteTypes, Zenon DEF TypeOK, DumpWrite, Incidents
  <2>4. QED  BY <1>5, <2>2, <2>3 DEF TypeOK, DumpWrite, Goto, memory
<1>6. CASE DumpRename(t)
  BY <1>6, ReturnTypes DEF TypeOK, DumpRename, Goto, disk, memory
<1>7. CASE DumpFails(t)
  BY <1>7, ReturnTypes DEF TypeOK, DumpFails, disk, memory
<1>8. CASE DumpClear(t)
  BY <1>8, ReturnTypes DEF TypeOK, DumpClear, disk
<1>9. QED  BY <1>1, <1>2, <1>3, <1>4, <1>5, <1>6, <1>7, <1>8 DEF DumpBanlist

\* Every step of the callers, the clock and a restart keeps the types.
THEOREM NextTypeOK == TypeOK /\ [Next]_vars => TypeOK'
<1> SUFFICES ASSUME TypeOK, [Next]_vars PROVE TypeOK'  OBVIOUS
<1>1. CASE Tick
  BY <1>1, BanAssumption DEF TypeOK, Tick, disk, memory
<1>2. ASSUME NEW t \in Callers, Restart(t) PROVE TypeOK'
  BY <1>2, NoBansFact, BanAssumption DEF TypeOK, Restart, ReadSucceeds, disk
<1>3. CASE UNCHANGED vars
  BY <1>3 DEF TypeOK, vars, disk, memory
<1>4. QED  BY <1>1, <1>2, <1>3, CallTypes, DumpTypes DEF Next

\* Types are kept, for any number of callers; in particular a dump always finds a file.
THEOREM BanTypeOK == Spec => []TypeOK
<1>1. QED  BY InitTypeOK, NextTypeOK, PTL DEF Spec

\* No step of any caller, the clock or a dump cuts a running ban short, however many callers
\* there are: only Unban(), ClearBanned() and a restart lift one.
THEOREM BansTheorem == Spec => BansOnlyLifted
<1> DEFINE Kept(s) == s \in DOMAIN setBanned' /\ setBanned'[s] >= setBanned[s]
           Lifted(s) == \E t \in Callers : Unban(t, s) \/ ClearBanned(t) \/ Restart(t)
<1>1. ASSUME TypeOK, [Next]_vars
      PROVE  [\A s \in SubNets : IsBanned(s) =>
                \/ s \in DOMAIN setBanned' /\ setBanned'[s] >= setBanned[s]
                \/ \E t \in Callers : Unban(t, s) \/ ClearBanned(t) \/ Restart(t)]_vars
  <2> SUFFICES ASSUME Next, NEW s \in SubNets, IsBanned(s) PROVE Kept(s) \/ Lifted(s)
    BY <1>1
  <2>1. s \in DOMAIN setBanned /\ setBanned[s] \in Int
    <3>1. PICK T \in SUBSET SubNets : setBanned \in [T -> 1 .. MaxUntil]
      BY <1>1, BanMapsFact DEF TypeOK
    <3>2. QED  BY <3>1, BanAssumption DEF IsBanned
  <2>2. setBanned' = setBanned => Kept(s)
    BY <2>1
  <2>3. SweepBanned => Kept(s)
    BY <1>1, <2>1, SweepFact, BanAssumption DEF TypeOK
  <2>4. CASE Tick
    BY <2>2, <2>4 DEF Tick, memory
  <2>5. ASSUME NEW t \in Callers, NEW u \in SubNets, NEW until \in 1 .. MaxUntil,
               NEW manually \in BOOLEAN, Ban(t, u, until, manually)
        PROVE  Kept(s)
    BY <1>1, <2>1, <2>5, BanFact DEF TypeOK
  <2>6. ASSUME NEW t \in Callers, NEW u \in SubNets, Unban(t, u) PROVE Kept(s) \/ Lifted(s)
    <3>1. CASE u = s
      BY <2>6, <3>1
    <3>2. CASE u # s
      BY <1>1, <2>1, <2>6, <3>2, RestrictedFact DEF TypeOK, Unban
    <3>3. QED  BY <3>1, <3>2
  <2>7. ASSUME NEW t \in Callers, ClearBanned(t) \/ Restart(t) PROVE Lifted(s)
    BY <2>7
  <2>8. ASSUME NEW t \in Callers, DumpData(t) PROVE Kept(s)
    BY <2>2, <2>8 DEF DumpData, memory
  <2>9. ASSUME NEW t \in Callers, DumpBanlist(t) PROVE Kept(s)
    BY <2>2, <2>3, <2>9 DEF DumpBanlist, DumpSweep, DumpTest, DumpCopy, DumpOpen, DumpWrite,
                            DumpRename, DumpFails, DumpClear, memory
  <2> HIDE DEF Kept, Lifted
  <2>10. QED  BY <2>4, <2>5, <2>6, <2>7, <2>8, <2>9 DEF Next
<1>2. QED  BY <1>1, BanTypeOK, PTL DEF Spec, BansOnlyLifted

-----------------------------------------------------------------------------
(* What is in the files.                                                   *)

Filing == {"write", "rename"}
Dumping == {"open", "write", "rename", "clear"}

\* While no dump has shared its file or lost its output, the temporary file belongs to the
\* one caller that is writing it, and a file that is renamed is complete.
FilesKept ==
  /\ temp # 0 => temp # banlist
  /\ banlist # 0 => content[banlist].state = "whole"
  /\ \A t \in Callers :
       /\ pc[t] \in Filing => temp # 0 /\ \A u \in Callers : pc[u] \in Filing => u = t
       /\ pc[t] = "write" => fd[t] = temp
       /\ pc[t] = "rename" => content[temp] = Whole(banmap[t])

\* While no dump has missed a change either, every dump has the list as it is, and what
\* the flag says is true.
ListKept ==
  /\ \A t \in Callers : pc[t] \in Dumping => banmap[t] = setBanned
  /\ (\E t \in Callers : pc[t] = "clear") => Stored = setBanned
  /\ ~setBannedIsDirty => Stored = setBanned

Undisturbed == (incidents \subseteq {"changed"} => FilesKept) /\ (incidents = {} => ListKept)

\* Where a step leaves the callers.
LEMMA Moves ==
  ASSUME TypeOK, NEW t \in Callers, NEW p, Goto(t, p)
  PROVE  pc'[t] = p /\ \A u \in Callers : u # t => pc'[u] = pc[u]
BY Zenon DEF TypeOK, Goto

\* A caller that returns from DumpBanlist leaves what the others hold alone.
LEMMA Returns ==
  ASSUME TypeOK, NEW t \in Callers, Return(t)
  PROVE  /\ pc'[t] = "idle"
         /\ \A u \in Callers : u # t => pc'[u] = pc[u] /\ fd'[u] = fd[u] /\ banmap'[u] = banmap[u]
BY Zenon DEF TypeOK, Return, Goto

\* A caller outside DumpBanlist's file steps stays there, the files as they are.
LEMMA FilesAside ==
  ASSUME FilesKept, NEW t \in Callers, pc'[t] \notin Filing, UNCHANGED disk,
         \A u \in Callers : u # t => pc'[u] = pc[u] /\ fd'[u] = fd[u] /\ banmap'[u] = banmap[u]
  PROVE  FilesKept'
<1>1. "write" \in Filing /\ "rename" \in Filing
  BY DEF Filing
<1>2. UNCHANGED <<temp, banlist, content>>
  BY DEF disk
<1>3. QED  BY <1>1, <1>2, Zenon DEF FilesKept

\* A step that changes the list raises the flag; if some dump has its copy, it is noted.
LEMMA ListChanges ==
  ASSUME TypeOK, ListKept, NEW t \in Callers, pc[t] \notin Dumping, NoteChange, incidents' = {},
         UNCHANGED disk,
         setBanned' # setBanned => setBannedIsDirty',
         ~setBannedIsDirty' => ~setBannedIsDirty,
         pc'[t] \in Dumping => pc'[t] # "clear" /\ banmap'[t] = setBanned',
         \A u \in Callers : u # t => pc'[u] = pc[u] /\ banmap'[u] = banmap[u]
  PROVE  ListKept'
<1>1. "clear" \in Dumping /\ Stored' = Stored
  BY Zenon DEF Dumping, Stored, disk
<1>2. CASE setBanned' = setBanned
  BY <1>1, <1>2, Zenon DEF ListKept
<1>3. CASE setBanned' # setBanned
  <2>1. \A u \in Callers : pc[u] \notin Dumping
    BY <1>3, Zenon DEF NoteChange, Note, Dumping
  <2>2. QED  BY <1>1, <1>3, <2>1, Zenon DEF ListKept
<1>4. QED  BY <1>2, <1>3

\* What is noted stays.
LEMMA Noted ==
  /\ \A condition \in BOOLEAN, i \in Incidents :
       Note(condition, i) => incidents \subseteq incidents' /\ (condition => i \in incidents')
  /\ NoteChange => incidents \subseteq incidents'
BY Zenon DEF Note, NoteChange, Incidents

\* Such a step keeps Undisturbed.
LEMMA ListStep ==
  ASSUME TypeOK, Undisturbed, NEW t \in Callers, pc[t] \notin Dumping, NoteChange,
         UNCHANGED <<disk, fd>>,
         setBanned' # setBanned => setBannedIsDirty',
         ~setBannedIsDirty' => ~setBannedIsDirty,
         pc'[t] \in Dumping => pc'[t] = "open" /\ banmap'[t] = setBanned',
         \A u \in Callers : u # t => pc'[u] = pc[u] /\ banmap'[u] = banmap[u]
  PROVE  Undisturbed'
<1>1. incidents \subseteq incidents'
  BY Noted, Zenon
<1>2. pc'[t] \notin Filing /\ (pc'[t] \in Dumping => pc'[t] # "clear")
  BY DEF Filing, Dumping
<1>3. incidents' \subseteq {"changed"} => FilesKept'
  BY <1>1, <1>2, FilesAside, Zenon DEF Undisturbed
<1>4. incidents' = {} => ListKept'
  BY <1>1, <1>2, ListChanges, Zenon DEF Undisturbed
<1>5. QED  BY <1>3, <1>4, Zenon DEF Undisturbed

\* A step that leaves list and files alone and the caller outside Dumping keeps it.
LEMMA QuietStep ==
  ASSUME TypeOK, Undisturbed, NEW t \in Callers, pc'[t] \notin Dumping,
         UNCHANGED <<disk, memory, incidents>>,
         \A u \in Callers : u # t => pc'[u] = pc[u] /\ fd'[u] = fd[u] /\ banmap'[u] = banmap[u]
  PROVE  Undisturbed'
<1>1. pc'[t] \notin Filing /\ pc'[t] # "clear"
  BY Zenon DEF Filing, Dumping
<1>2. FilesKept => FilesKept'
  BY <1>1, FilesAside, Zenon
<1>3. Stored' = Stored /\ UNCHANGED <<setBanned, setBannedIsDirty>>
  BY Zenon DEF Stored, disk, memory
<1>4. ListKept => ListKept'
  BY <1>1, <1>3, Zenon DEF ListKept
<1>5. QED  BY <1>2, <1>4, Zenon DEF Undisturbed

\* The calls, and the steps of a dump before the list is copied.
LEMMA CallKeeps ==
  ASSUME TypeOK, Undisturbed, NEW t \in Callers,
         \/ \E s \in SubNets, until \in 1 .. MaxUntil, manually \in BOOLEAN : Ban(t, s, until, manually)
         \/ \E s \in SubNets : Unban(t, s)
         \/ ClearBanned(t) \/ DumpData(t)
  PROVE  Undisturbed'
<1> "idle" \notin Dumping /\ "sweep" \notin Dumping
  BY DEF Dumping
<1>1. CASE DumpData(t)
  <2>1. pc'[t] = "sweep" /\ \A u \in Callers : u # t => pc'[u] = pc[u]
    BY <1>1, Moves, Zenon DEF DumpData
  <2>2. QED  BY <1>1, <2>1, QuietStep, Zenon DEF DumpData
<1>2. CASE \/ \E s \in SubNets, until \in 1 .. MaxUntil, manually \in BOOLEAN : Ban(t, s, until, manually)
           \/ \E s \in SubNets : Unban(t, s)
           \/ ClearBanned(t)
  <2>1. /\ pc[t] = "idle" /\ setBannedIsDirty' = TRUE /\ NoteChange
        /\ UNCHANGED <<disk, fd, banmap>>
        /\ Goto(t, "sweep") \/ Goto(t, "idle")
    BY <1>2, Zenon DEF Ban, Unban, ClearBanned, Calls, At
  <2>2. pc'[t] \in {"sweep", "idle"} /\ \A u \in Callers : u # t => pc'[u] = pc[u]
    BY <2>1, Moves, Zenon
  <2>3. QED  BY <2>1, <2>2, ListStep, Zenon
<1>3. QED  BY <1>1, <1>2

\* SweepBanned and GetBanned, as DumpBanlist calls them, keep the invariant.
LEMMA SweepKeeps ==
  ASSUME TypeOK, Undisturbed, NEW t \in Callers, DumpSweep(t) \/ DumpCopy(t)
  PROVE  Undisturbed'
<1> "sweep" \notin Dumping /\ "test" \notin Dumping /\ "copy" \notin Dumping
  BY DEF Dumping
<1>1. /\ SweepBanned /\ NoteChange /\ UNCHANGED <<disk, fd>> /\ pc[t] \notin Dumping
      /\ \/ Goto(t, "test") /\ UNCHANGED banmap
         \/ Goto(t, "open") /\ banmap' = [banmap EXCEPT ![t] = setBanned']
  BY Zenon DEF DumpSweep, DumpCopy, At
<1>2. (~setBannedIsDirty' => setBanned' = setBanned) /\ (setBannedIsDirty => setBannedIsDirty')
  BY <1>1, SweepFact, BanAssumption DEF TypeOK
<1>3. /\ pc'[t] \in Dumping => pc'[t] = "open" /\ banmap'[t] = setBanned'
      /\ \A u \in Callers : u # t => pc'[u] = pc[u] /\ banmap'[u] = banmap[u]
  <2>1. CASE Goto(t, "test") /\ UNCHANGED banmap
    BY <2>1, Moves, Zenon
  <2>2. CASE Goto(t, "open") /\ banmap' = [banmap EXCEPT ![t] = setBanned']
    <3>1. pc'[t] = "open" /\ \A u \in Callers : u # t => pc'[u] = pc[u]
      BY <2>2, Moves, Zenon
    <3>2. banmap'[t] = setBanned' /\ \A u \in Callers : u # t => banmap'[u] = banmap[u]
      BY <2>2, Zenon DEF TypeOK
    <3>3. QED  BY <3>1, <3>2
  <2>3. QED  BY <1>1, <2>1, <2>2
<1>4. QED  BY <1>1, <1>2, <1>3, ListStep, Zenon

\* The test of the dirty flag keeps the invariant.
LEMMA TestKeeps ==
  ASSUME TypeOK, Undisturbed, NEW t \in Callers, DumpTest(t)
  PROVE  Undisturbed'
<1>1. /\ UNCHANGED <<disk, memory, incidents>>
      /\ (Goto(t, "copy") /\ UNCHANGED <<fd, banmap>>) \/ Return(t)
  BY Zenon DEF DumpTest
<1>2. /\ pc'[t] \in {"copy", "idle"}
      /\ \A u \in Callers : u # t => pc'[u] = pc[u] /\ fd'[u] = fd[u] /\ banmap'[u] = banmap[u]
  BY <1>1, Moves, Returns, Zenon
<1>3. pc'[t] \notin Dumping
  BY <1>2 DEF Dumping
<1>4. QED  BY <1>1, <1>2, <1>3, QuietStep, Zenon

\* The steps on the files.
LEMMA OpenKeeps ==
  ASSUME TypeOK, Undisturbed, NEW t \in Callers, DumpOpen(t)
  PROVE  Undisturbed'
<1>1. /\ pc[t] = "open" /\ pc'[t] = "write" /\ fd'[t] = temp'
      /\ \A u \in Callers : u # t => pc'[u] = pc[u]
      /\ content' = [content EXCEPT ![temp'] = Truncated]
      /\ Note(\E u \in Callers : pc[u] \in Filing, "shared")
      /\ UNCHANGED <<memory, banlist, banmap>>
  <2>1. Goto(t, "write") /\ fd' = [fd EXCEPT ![t] = temp']
    BY Zenon DEF DumpOpen
  <2>2. fd'[t] = temp'
    BY <2>1, Zenon DEF TypeOK
  <2>3. pc'[t] = "write" /\ \A u \in Callers : u # t => pc'[u] = pc[u]
    BY <2>1, Moves, Zenon
  <2>4. QED  BY <2>2, <2>3, Zenon DEF DumpOpen, At, Filing
<1>2. temp' \in Inodes /\ (temp = 0 => temp' # banlist) /\ (temp # 0 => temp' = temp) /\ 0 \notin Inodes
  BY OpenFact DEF TypeOK, Inodes
<1>3. incidents \subseteq incidents' /\ ((\E u \in Callers : pc[u] \in Filing) => "shared" \in incidents')
  BY <1>1, Zenon DEF Note
<1>4. /\ "write" \in Filing /\ "rename" \in Filing /\ "shared" # "changed"
      /\ "open" \in Dumping /\ "write" \in Dumping /\ "write" # "clear" /\ "write" # "rename"
  BY DEF Filing, Dumping
<1>5. ASSUME FilesKept, incidents' \subseteq {"changed"} PROVE FilesKept' /\ Stored' = Stored
  <2>1. \A u \in Callers : pc[u] \notin Filing
    BY <1>3, <1>4, <1>5, Zenon
  <2>2. temp' # 0 /\ temp' # banlist
    BY <1>2, <1>5, Zenon DEF FilesKept
  <2>3. banlist # 0 => content'[banlist] = content[banlist]
    BY <1>1, <2>2, Zenon DEF TypeOK
  <2>4. ASSUME NEW u \in Callers
        PROVE  /\ pc'[u] \in Filing => u = t
               /\ pc'[u] # "rename" /\ (pc'[u] = "write" => fd'[u] = temp')
    BY <1>1, <1>4, <2>1, Zenon
  <2>5. banlist' = banlist
    BY <1>1
  <2>6. FilesKept'
    BY <1>5, <2>2, <2>3, <2>4, <2>5, Zenon DEF FilesKept
  <2>7. QED  BY <2>3, <2>5, <2>6, Zenon DEF Stored
<1>6. ASSUME ListKept, Stored' = Stored PROVE ListKept'
  <2>1. UNCHANGED <<setBanned, setBannedIsDirty>>
    BY <1>1, Zenon DEF memory
  <2>2. QED  BY <1>1, <1>4, <1>6, <2>1, Zenon DEF ListKept
<1>7. QED  BY <1>3, <1>5, <1>6, Zenon DEF Undisturbed

\* Writing the temporary file keeps the invariant, or is noted as a loss.
LEMMA WriteKeeps ==
  ASSUME TypeOK, Undisturbed, NEW t \in Callers, DumpWrite(t)
  PROVE  Undisturbed'
<1>1. PICK c : content' = [content EXCEPT ![fd[t]] = c]
  BY Zenon DEF DumpWrite
<1>2. /\ pc[t] = "write" /\ pc'[t] = "rename"
      /\ \A u \in Callers : u # t => pc'[u] = pc[u] /\ fd'[u] = fd[u]
      /\ Note(content'[fd[t]] # Whole(banmap[t]), "lost")
      /\ UNCHANGED <<memory, temp, banlist, banmap>>
  <2>1. Goto(t, "rename") /\ fd' = [fd EXCEPT ![t] = 0]
    BY Zenon DEF DumpWrite
  <2>2. \A u \in Callers : u # t => fd'[u] = fd[u]
    BY <2>1, Zenon DEF TypeOK
  <2>3. QED  BY <2>1, <2>2, Moves, Zenon DEF DumpWrite, At
<1>3. incidents \subseteq incidents' /\ (content'[fd[t]] # Whole(banmap[t]) => "lost" \in incidents')
  BY <1>2, Zenon DEF Note
<1>4. /\ "write" \in Filing /\ "rename" \in Filing /\ "lost" # "changed"
      /\ "rename" \in Dumping /\ "write" \in Dumping /\ "rename" # "clear" /\ "rename" # "write"
  BY DEF Filing, Dumping
<1>5. ASSUME FilesKept, incidents' \subseteq {"changed"} PROVE FilesKept' /\ Stored' = Stored
  <2>1. /\ fd[t] = temp /\ temp # 0 /\ temp # banlist
        /\ \A u \in Callers : u # t => pc[u] \notin Filing
    BY <1>2, <1>4, <1>5, Zenon DEF FilesKept
  <2>2. content'[temp] = Whole(banmap[t])
    BY <1>3, <1>4, <1>5, <2>1, Zenon
  <2>3. banlist # 0 => content'[banlist] = content[banlist]
    BY <1>1, <2>1, Zenon DEF TypeOK
  <2>4. ASSUME NEW u \in Callers
        PROVE  /\ pc'[u] \in Filing => u = t
               /\ pc'[u] # "write" /\ (pc'[u] = "rename" => u = t)
    BY <1>2, <1>4, <2>1, Zenon
  <2>5. FilesKept'
    BY <1>2, <1>5, <2>1, <2>2, <2>3, <2>4, Zenon DEF FilesKept
  <2>6. QED  BY <1>2, <2>3, <2>5, Zenon DEF Stored
<1>6. ASSUME ListKept, Stored' = Stored PROVE ListKept'
  <2>1. UNCHANGED <<setBanned, setBannedIsDirty>>
    BY <1>2, Zenon DEF memory
  <2>2. QED  BY <1>2, <1>4, <1>6, <2>1, Zenon DEF ListKept
<1>7. QED  BY <1>3, <1>5, <1>6, Zenon DEF Undisturbed

\* The rename replaces a complete list by another one, so it keeps the invariant.
LEMMA RenameKeeps ==
  ASSUME TypeOK, Undisturbed, NEW t \in Callers, DumpRename(t)
  PROVE  Undisturbed'
<1>1. pc[t] = "rename" /\ UNCHANGED <<memory, incidents>>
  BY Zenon DEF DumpRename, At
<1>2. CASE temp = 0
  <2>1. Return(t) /\ UNCHANGED disk
    BY <1>2, Zenon DEF DumpRename
  <2>2. "idle" \notin Dumping
    BY DEF Dumping
  <2>3. QED  BY <1>1, <2>1, <2>2, Returns, QuietStep, Zenon
<1>3. CASE temp # 0
  <2>1. /\ banlist' = temp /\ temp' = 0 /\ UNCHANGED <<content, fd, banmap>>
        /\ pc'[t] = "clear" /\ \A u \in Callers : u # t => pc'[u] = pc[u]
    BY <1>3, Moves, Zenon DEF DumpRename
  <2>2. /\ "write" \in Filing /\ "rename" \in Filing /\ "clear" \notin Filing
        /\ "rename" \in Dumping /\ "clear" \in Dumping
    BY DEF Filing, Dumping
  <2>3. ASSUME FilesKept PROVE FilesKept' /\ Stored' = banmap[t]
    <3>1. /\ content[temp] = Whole(banmap[t])
          /\ \A u \in Callers : u # t => pc[u] \notin Filing
      BY <1>1, <2>2, <2>3, Zenon DEF FilesKept
    <3>2. content'[banlist'].state = "whole" /\ content'[banlist'].map = banmap[t]
      BY <2>1, <3>1 DEF Whole
    <3>3. FilesKept'
      BY <2>1, <2>2, <3>1, <3>2, Zenon DEF FilesKept
    <3>4. QED  BY <1>3, <2>1, <3>2, <3>3, Zenon DEF Stored
  <2>4. ASSUME ListKept, Stored' = banmap[t] PROVE ListKept'
    <3>1. UNCHANGED <<setBanned, setBannedIsDirty>> /\ banmap[t] = setBanned
      BY <1>1, <2>2, <2>4, Zenon DEF memory, ListKept
    <3>2. QED  BY <2>1, <2>2, <2>4, <3>1, Zenon DEF ListKept
  <2>5. QED  BY <1>1, <2>3, <2>4, Zenon DEF Undisturbed
<1>4. QED  BY <1>2, <1>3

\* A dump that fails, or that clears the flag after its rename, keeps the invariant.
LEMMA EndKeeps ==
  ASSUME TypeOK, Undisturbed, NEW t \in Callers, DumpFails(t) \/ DumpClear(t)
  PROVE  Undisturbed'
<1>1. "idle" \notin Dumping /\ "idle" \notin Filing /\ "idle" # "clear"
  BY DEF Dumping, Filing
<1>2. CASE DumpFails(t)
  BY <1>1, <1>2, Returns, QuietStep, Zenon DEF DumpFails
<1>3. CASE DumpClear(t)
  <2>1. /\ pc[t] = "clear" /\ UNCHANGED <<disk, setBanned, incidents>> /\ pc'[t] = "idle"
        /\ \A u \in Callers : u # t => pc'[u] = pc[u] /\ fd'[u] = fd[u] /\ banmap'[u] = banmap[u]
    BY <1>3, Returns, Zenon DEF DumpClear, At
  <2>2. FilesKept => FilesKept'
    BY <1>1, <2>1, FilesAside, Zenon
  <2>3. Stored' = Stored
    BY <2>1, Zenon DEF Stored, disk
  <2>4. ListKept => ListKept'
    BY <1>1, <2>1, <2>3, Zenon DEF ListKept
  <2>5. QED  BY <2>1, <2>2, <2>4, Zenon DEF Undisturbed
<1>4. QED  BY <1>2, <1>3

\* After a restart the list is empty, and so is what was read, or it will be written.
LEMMA RestartKeeps ==
  ASSUME TypeOK, Undisturbed, NEW t \in Callers, Restart(t)
  PROVE  Undisturbed'
<1>1. /\ UNCHANGED <<temp, banlist, content>> /\ setBanned' = NoBans
      /\ setBannedIsDirty' = ~ReadSucceeds /\ incidents' = incidents \ {"changed"}
  BY Zenon DEF Restart, disk
<1>2. \A u \in Callers : pc'[u] \in {"idle", "sweep"}
  BY Zenon DEF Restart
<1>3. \A u \in Callers : pc'[u] \notin Filing /\ pc'[u] \notin Dumping /\ pc'[u] # "clear"
  BY <1>2 DEF Filing, Dumping
<1>4. "write" \in Filing /\ "rename" \in Filing
  BY DEF Filing
<1>5. FilesKept => FilesKept'
  BY <1>1, <1>3, <1>4, Zenon DEF FilesKept
<1>6. FilesKept => ListKept'
  <2>1. FilesKept /\ ReadSucceeds => banlist = 0
    BY DEF FilesKept, ReadSucceeds
  <2>2. QED  BY <1>1, <1>3, <2>1, Zenon DEF ListKept, Stored
<1>7. incidents' \subseteq {"changed"} => incidents \subseteq {"changed"}
  BY <1>1, Zenon
<1>8. QED  BY <1>5, <1>6, <1>7, Zenon DEF Undisturbed

\* Undisturbed is inductive, given the types.
LEMMA AlwaysUndisturbed == Spec => [](TypeOK /\ Undisturbed)
<1>1. Init => Undisturbed
  <2>1. "idle" \notin Dumping /\ "idle" \notin Filing
    BY DEF Dumping, Filing
  <2>2. QED  BY <2>1, Zenon DEF Init, Undisturbed, FilesKept, ListKept, Stored
<1>2. TypeOK /\ Undisturbed /\ [Next]_vars => Undisturbed'
  <2> SUFFICES ASSUME TypeOK, Undisturbed, [Next]_vars PROVE Undisturbed'  OBVIOUS
  <2>1. CASE UNCHANGED vars \/ Tick
    <3>1. UNCHANGED <<setBanned, setBannedIsDirty, temp, banlist, content, fd, banmap, pc, incidents>>
      BY <2>1, Zenon DEF Tick, vars, memory, disk
    <3>2. QED  BY <3>1, Zenon DEF Undisturbed, FilesKept, ListKept, Stored
  <2>2. QED
    BY <2>1, CallKeeps, SweepKeeps, TestKeeps, OpenKeeps, WriteKeeps, RenameKeeps, EndKeeps,
       RestartKeeps, Zenon DEF Next, DumpBanlist
<1>3. QED  BY <1>1, <1>2, InitTypeOK, NextTypeOK, PTL DEF Spec

\* The dirty flag is honest, for any number of callers, restarts and failures of the file
\* system: a list that is not in banlist.dat is marked as unwritten, unless a dump has missed
\* a change, shared its temporary file or lost what it wrote.
THEOREM FlagTheorem == Spec => []FlagHonest
<1>1. Undisturbed => FlagHonest
  BY Zenon DEF Undisturbed, ListKept, FlagHonest, NothingUnwritten
<1>2. QED  BY <1>1, AlwaysUndisturbed, PTL

\* banlist.dat is a complete list at every moment at which the process can end, for any number
\* of callers, unless a dump has shared its temporary file or lost what it wrote.
THEOREM FileTheorem == Spec => []FileWhole
<1>1. Undisturbed => FileWhole
  BY Zenon DEF Undisturbed, FilesKept, FileWhole
<1>2. QED  BY <1>1, AlwaysUndisturbed, PTL
=============================================================================
