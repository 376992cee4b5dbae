------------------------------ MODULE BanList ------------------------------
(***************************************************************************)
(* The ban list of CConnman (baseservice/transport/net.cpp): setBanned and *)
(* its dirty flag, both under cs_setBanned, the calls that change them,    *)
(* and banlist.dat, which DumpBanlist writes (CBanDB of addrdb.cpp over    *)
(* writeFile of toscore/common/CommonIO.cpp) and Start() reads back.       *)
(*                                                                         *)
(* DumpBanlist holds the lock only for moments, so it is a sequence of     *)
(* steps here.  Subnets do not overlap and an entry is reduced to its      *)
(* nBanUntil.  Ban() also marks the peers it matches for disconnection,    *)
(* which is DisconnectNode of module NodeLife.                             *)
(***************************************************************************)
EXTENDS Integers, FiniteSets

CONSTANTS
  Callers,     \* threads that call the ban interface: RPC, message handler, scheduler
  SubNets,
  MaxTime,     \* bound: the last instant of the clock
  MaxUntil,    \* bound: the last instant a ban can run to
  MaxRestarts, \* bound: how often the process is started again
  FlushFails   \* TRUE iff the file system may refuse what a closing stream flushes

ASSUME BanAssumption ==
  /\ IsFiniteSet(Callers) /\ IsFiniteSet(SubNets)
  /\ MaxTime \in Nat /\ MaxUntil \in Nat /\ MaxRestarts \in Nat
  /\ FlushFails \in BOOLEAN

VARIABLES
  now,               \* GetTime()
  setBanned,         \* a function from the banned subnets to their nBanUntil
  setBannedIsDirty,
  temp, banlist,     \* the inode under the names banlist.dat-%%%%%% and banlist.dat, 0 if none
  content,           \* what each inode holds
  fd, banmap,        \* a dumping thread's open file and its copy of setBanned
  pc,                \* where each caller is inside the call it makes
  starting,          \* TRUE while Start() is still dumping
  restarts,
  incidents          \* auxiliary: what has gone wrong for a dump, see Incidents

memory == <<setBanned, setBannedIsDirty>>
disk == <<temp, banlist, content>>
vars == <<now, memory, disk, fd, banmap, pc, starting, restarts, incidents>>

BanMaps == UNION {[S -> 1 .. MaxUntil] : S \in SUBSET SubNets}
NoBans == [s \in {} |-> 1]

\* Every name and every open file can refer to an inode of its own.
Inodes == 1 .. Cardinality(Callers) + 2

\* A file holds a serialized list, nothing after it was opened for writing, or the
\* remains of two lists written over each other.
Contents == [state : {"whole", "truncated", "torn"}, map : BanMaps]
Whole(m) == [state |-> "whole", map |-> m]
Truncated == [state |-> "truncated", map |-> NoBans]
Torn == [state |-> "torn", map |-> NoBans]

\* A dump may miss a change of the list made since it took its copy, share its temporary
\* file with another dump, or lose what it wrote when the stream is closed.
Incidents == {"changed", "shared", "lost"}

TypeOK ==
  /\ now \in 0 .. MaxTime
  /\ setBanned \in BanMaps /\ setBannedIsDirty \in BOOLEAN
  /\ temp \in Inodes \cup {0} /\ banlist \in Inodes \cup {0}
  /\ content \in [Inodes -> Contents]
  /\ fd \in [Callers -> Inodes \cup {0}] /\ banmap \in [Callers -> BanMaps]
  /\ pc \in [Callers -> {"idle", "sweep", "test", "copy", "open", "write", "rename", "clear"}]
  /\ starting \in BOOLEAN /\ restarts \in 0 .. MaxRestarts
  /\ incidents \subseteq Incidents

\* The first start: there is no banlist.dat, which Read() takes for an empty list.
Init ==
  /\ now = 0
  /\ setBanned = NoBans /\ setBannedIsDirty = FALSE
  /\ temp = 0 /\ banlist = 0
  /\ content = [i \in Inodes |-> Truncated]
  /\ fd = [t \in Callers |-> 0] /\ banmap = [t \in Callers |-> NoBans]
  /\ pc = [t \in Callers |-> "idle"]
  /\ starting = FALSE /\ restarts = 0 /\ incidents = {}

At(t, p) == pc[t] = p
Goto(t, p) == pc' = [pc EXCEPT ![t] = p]
Note(condition, incident) == incidents' = IF condition THEN incidents \cup {incident} ELSE incidents
NoteChange ==
  Note(setBanned' # setBanned /\ \E u \in Callers : pc[u] \in {"open", "write", "rename", "clear"},
       "changed")
Restricted(m, S) == [s \in S |-> m[s]]

\* The call of t ends, and with it Start() if that was the caller.
Return(t) ==
  /\ Goto(t, "idle")
  /\ fd' = [fd EXCEPT ![t] = 0] /\ banmap' = [banmap EXCEPT ![t] = NoBans]
  /\ starting' = FALSE

\* Mutated form: an entry is swept one instant before it expires.
SweepEarly ==
  LET kept == {s \in DOMAIN setBanned : now + 1 < setBanned[s]}
  IN  /\ setBanned' = Restricted(setBanned, kept)
      /\ setBannedIsDirty' = (setBannedIsDirty \/ kept # DOMAIN setBanned)

SweepBanned ==
  LET kept == {s \in DOMAIN setBanned : now <= setBanned[s]}
  IN  /\ setBanned' = Restricted(setBanned, kept)
      /\ setBannedIsDirty' = (setBannedIsDirty \/ kept # DOMAIN setBanned)

IsBanned(s) == s \in DOMAIN setBanned /\ now < setBanned[s]

-----------------------------------------------------------------------------
(* The calls.                                                              *)

Calls(t) == At(t, "idle") /\ ~starting

\* Ban(): it can only lengthen a ban; a user's ban is stored at once.  The caller gives
\* any expiry, relative to now or (sinceUnixEpoch) absolute.
Ban(t, s, until, manually) ==
  /\ Calls(t)
  /\ IF s \in DOMAIN setBanned THEN setBanned[s] < until ELSE 0 < until
  /\ setBanned' = [u \in DOMAIN setBanned \cup {s} |-> IF u = s THEN until ELSE setBanned[u]]
  /\ setBannedIsDirty' = TRUE
  /\ Goto(t, IF manually THEN "sweep" ELSE "idle")
  /\ NoteChange
  /\ UNCHANGED <<now, disk, fd, banmap, starting, restarts>>

Unban(t, s) ==
  /\ Calls(t)
  /\ s \in DOMAIN setBanned
  /\ setBanned' = Restricted(setBanned, DOMAIN setBanned \ {s})
  /\ setBannedIsDirty' = TRUE
  /\ Goto(t, "sweep")
  /\ NoteChange
  /\ UNCHANGED <<now, disk, fd, banmap, starting, restarts>>

ClearBanned(t) ==
  /\ Calls(t)
  /\ setBanned' = NoBans
  /\ setBannedIsDirty' = TRUE
  /\ Goto(t, "sweep")
  /\ NoteChange
  /\ UNCHANGED <<now, disk, fd, banmap, starting, restarts>>

\* DumpData(), by the scheduler or by Stop().
DumpData(t) ==
  /\ Calls(t)
  /\ Goto(t, "sweep")
  /\ UNCHANGED <<now, memory, disk, fd, banmap, starting, restarts, incidents>>

-----------------------------------------------------------------------------
(* DumpBanlist.                                                            *)

DumpSweep(t) ==
  /\ At(t, "sweep")
  /\ SweepBanned /\ NoteChange
  /\ Goto(t, "test")
  /\ UNCHANGED <<now, disk, fd, banmap, starting, restarts>>

\* BannedSetIsDirty().
DumpTest(t) ==
  /\ At(t, "test")
  /\ IF setBannedIsDirty THEN Goto(t, "copy") /\ UNCHANGED <<fd, banmap, starting>> ELSE Return(t)
  /\ UNCHANGED <<now, memory, disk, restarts, incidents>>

\* GetBanned().
DumpCopy(t) ==
  /\ At(t, "copy")
  /\ SweepBanned /\ NoteChange
  /\ banmap' = [banmap EXCEPT ![t] = setBanned']
  /\ Goto(t, "open")
  /\ UNCHANGED <<now, disk, fd, starting, restarts>>

\* Mutated form: the file is opened under its final name.
DumpOpenInPlace(t) ==
  /\ At(t, "open")
  /\ temp' \in IF banlist # 0 THEN {banlist} ELSE Inodes
  /\ content' = [content EXCEPT ![temp'] = Truncated]
  /\ fd' = [fd EXCEPT ![t] = temp']
  /\ Goto(t, "write")
  /\ Note(\E u \in Callers : pc[u] \in {"write", "rename"}, "shared")
  /\ UNCHANGED <<now, memory, banlist, banmap, starting, restarts>>

\* The temporary file is created or, if another thread has one, truncated.
DumpOpen(t) ==
  /\ At(t, "open")
  /\ temp' = IF temp # 0 THEN temp
             ELSE CHOOSE i \in Inodes : i # banlist /\ \A u \in Callers : fd[u] # i
  /\ content' = [content EXCEPT ![temp'] = Truncated]
  /\ fd' = [fd EXCEPT ![t] = temp']
  /\ Goto(t, "write")
  /\ Note(\E u \in Callers : pc[u] \in {"write", "rename"}, "shared")
  /\ UNCHANGED <<now, memory, banlist, banmap, starting, restarts>>

\* A second list written to an open file that has one may be too short to cover it.  The
\* stream is tested after write(), which buffers; its destructor flushes and reports nothing.
DumpWrite(t) ==
  /\ At(t, "write")
  /\ \E c \in {Whole(banmap[t])}
              \cup (IF content[fd[t]].state = "truncated" THEN {} ELSE {Torn})
              \cup (IF FlushFails THEN {content[fd[t]]} ELSE {}) :
       content' = [content EXCEPT ![fd[t]] = c]
  /\ Note(content'[fd[t]] # Whole(banmap[t]), "lost")
  /\ fd' = [fd EXCEPT ![t] = 0]
  /\ Goto(t, "rename")
  /\ UNCHANGED <<now, memory, temp, banlist, banmap, starting, restarts>>

\* The rename throws if another thread has already renamed the file.
DumpRename(t) ==
  /\ At(t, "rename")
  /\ IF temp = 0
     THEN Return(t) /\ UNCHANGED disk
     ELSE /\ banlist' = temp /\ temp' = 0
          /\ Goto(t, "clear")
          /\ UNCHANGED <<content, fd, banmap, starting>>
  /\ UNCHANGED <<now, memory, restarts, incidents>>

\* Mutated form: the result of Write() is ignored.
DumpFailsClears(t) ==
  /\ pc[t] \in {"open", "write", "rename"}
  /\ Return(t)
  /\ setBannedIsDirty' = FALSE
  /\ UNCHANGED <<now, setBanned, disk, restarts, incidents>>

\* Any of the three file operations can fail; Write() then returns false.
DumpFails(t) ==
  /\ pc[t] \in {"open", "write", "rename"}
  /\ Return(t)
  /\ UNCHANGED <<now, memory, disk, restarts, incidents>>

\* SetBannedSetDirty(false).
DumpClear(t) ==
  /\ At(t, "clear")
  /\ setBannedIsDirty' = FALSE
  /\ Return(t)
  /\ UNCHANGED <<now, setBanned, disk, restarts, incidents>>

DumpBanlist(t) ==
  \/ DumpSweep(t) \/ DumpTest(t) \/ DumpCopy(t) \/ DumpOpen(t) \/ DumpWrite(t)
  \/ DumpRename(t) \/ DumpFails(t) \/ DumpClear(t)

-----------------------------------------------------------------------------
(* Time, and the process ending and starting again.                        *)

Tick ==
  /\ now < MaxTime
  /\ now' = now + 1
  /\ UNCHANGED <<memory, disk, fd, banmap, pc, starting, restarts, incidents>>

\* CBanDB::Read.  Serialize() writes a pair (list as a byte string, hash).  UnSerialize-
\* Internal() takes the items of that pair for ban entries and throws on the first, which
\* is no list; only an absent or empty file is read, as no entries at all.
ReadSucceeds == banlist = 0 \/ content[banlist].state = "truncated"

\* The process ends anywhere and Start(), by thread t, reads banlist.dat or rewrites it.  A
\* change that a dump missed is forgotten with the list.
Restart(t) ==
  /\ restarts < MaxRestarts
  /\ restarts' = restarts + 1
  /\ setBanned' = NoBans
  /\ setBannedIsDirty' = ~ReadSucceeds
  /\ starting' = ~ReadSucceeds
  /\ pc' = [u \in Callers |-> IF u = t /\ ~ReadSucceeds THEN "sweep" ELSE "idle"]
  /\ fd' = [u \in Callers |-> 0] /\ banmap' = [u \in Callers |-> NoBans]
  /\ incidents' = incidents \ {"changed"}
  /\ UNCHANGED <<now, disk>>

Next ==
  \/ \E t \in Callers :
       \/ \E s \in SubNets, until \in 1 .. MaxUntil, manually \in BOOLEAN : Ban(t, s, until, manually)
       \/ \E s \in SubNets : Unban(t, s)
       \/ ClearBanned(t) \/ DumpData(t) \/ DumpBanlist(t) \/ Restart(t)
  \/ Tick

Spec == Init /\ [][Next]_vars

-----------------------------------------------------------------------------
(* Properties.                                                             *)

Stored == IF banlist = 0 THEN NoBans ELSE content[banlist].map

\* A subnet that is banned stays banned, as long as before or longer, until its ban
\* expires or Unban(), ClearBanned() or a restart lifts it; no sweep, dump or later Ban()
\* cuts it short.
BansOnlyLifted ==
  [][\A s \in SubNets : IsBanned(s) =>
       \/ s \in DOMAIN setBanned' /\ setBanned'[s] >= setBanned[s]
       \/ \E t \in Callers : Unban(t, s) \/ ClearBanned(t) \/ Restart(t)]_vars

\* The dirty flag tells whether "the banlist has unwritten changes" (net.h:387): when it is
\* clear and nobody is dumping, banlist.dat holds what setBanned holds.
NothingUnwritten ==
  ~setBannedIsDirty /\ (\A t \in Callers : At(t, "idle")) => Stored = setBanned

\* The flag is right, through failing file operations, crashes and restarts, unless a dump
\* has missed a change, shared its file or lost its output: nothing else that any number of
\* callers of Ban(), Unban(), ClearBanned() and DumpData() do makes DumpBanlist clear the
\* flag of a list that is not in banlist.dat.
FlagHonest == incidents = {} => NothingUnwritten

\* Whenever the process ends, banlist.dat is a complete list: the rename replaces one
\* complete list by another, and writeFile "throws exception on error" before it renames
\* (CommonIO.h:56-58, "useful not to lose any data").  This too fails only once a dump has
\* shared its temporary file or lost its output; a missed change does no harm here.
FileWhole ==
  incidents \subseteq {"changed"} /\ banlist # 0 => content[banlist].state = "whole"
=============================================================================
