# A TLA+ development for tos

This directory holds TLA+ models of the concurrent and persistent parts of
tos, the TLC configurations that check them on small instances, and TLAPS
proofs of the results that matter most. Paths below are relative to the
repository; `net.cpp` is `baseservice/transport/net.cpp`, and
`validation.cpp`, `chain.h`, `txdb.cpp`, `coins.h` and `init.cpp` are those of
the legacy node under `src/`.

## The system

| part | state | operations | interacts with |
|---|---|---|---|
| `toscore/concurrent/Worker` | `m_state`, `m_work`, `m_name` | `startWorking`, `stopWorking`, `setName`, `terminate`, the thread's loop | classes derived from it |
| connection manager (`CConnman`, `CNode`) | `vNodes`, `vNodesDisconnected`, `nRefCount`, `fDisconnect` | five threads, `Interrupt`, `Stop`, calls from outside | all of the transport service |
| connection slots | `semOutbound`, `semAddnode`, the grants | `ThreadOpenConnections`, `ThreadOpenAddedConnections`, `ProcessOneShot` | the connection manager |
| message queues of a peer | `vRecvMsg`, `vProcessMsg`, `vSendMsg`, the sizes, the pause flags | receive, splice, `ProcessMessages`, `PushMessage`, `SocketSendData` | socket and message threads |
| ban list | `setBanned`, `setBannedIsDirty`, `banlist.dat` | `Ban`, `Unban`, `ClearBanned`, `SweepBanned`, `DumpBanlist`, `Start` | file helpers, RLP |
| address manager | tables new and tried, `mapInfo`, `mapAddr`, `vRandom`, `peers.dat` | `Add_`, `Good_`, `GetAddr_`, `Clear`, (un)serialize | opener threads, DNS seeding |
| chain state (legacy node) | `mapBlockIndex`, candidates, `chainActive`, coins, block files, databases | accept header or block, `ActivateBestChain`, `InvalidateBlock`, `PreciousBlock`, `FlushStateToDisk`, load | network and RPC threads, under `cs_main` |
| scheduler, network time, block DAG (`sdag`), databases (`toscore/storage`), encodings, hashes, keys, logging, contracts, rest of the legacy tree | | | see "Not modelled" |

What makes these hard is listed, line by line, as `hazards` in
`PROJECT.json`: checks and uses in different critical sections, waits that
need somebody else's notification, references and grants that several threads
hold, file operations that fail or are cut off, two databases written one
after the other, and queues whose two ends throttle each other.

## Modules

| module | models | instance | proofs |
|---|---|---|---|
| `Worker` | `Worker.{h,cpp}` | `MCWorker` | `WorkerProofs` |
| `NodeLife` | a `CNode` from creation to deletion, and shutdown | `MCNodeLife` | `NodeLifeProofs` |
| `Slots` | connection slots and the opener threads | `MCSlots` | `SlotsProofs` |
| `BanList` | the ban list and its file | `MCBanList` | `BanListProofs` |
| `Peer` | the two message queues of one peer | `MCPeer` | `PeerProofs` |
| `AddrMan` | `CAddrMan` and its file | `MCAddrMan` | |
| `ChainState` | block index, active chain, coins, disk | `MCChain` | `ChainProofs`, `ChainIndexProofs`, `ChainDiskProofs` |
| `Ledger` | what the coins promise; implemented by `ChainState` | | |

In all of them a step is a stretch of code between two points at which
another thread can be observed: a critical section, a read of a flag, a wait,
a file operation. Names are those of the source. An operator whose comment
starts with "Mutated form" is a plausible mistake in the definition that
follows it; replacing the one by the other makes TLC report the property it
was written for, so that each property is known to depend on the code.

**Worker.** `tpc` is where the worker thread is, `cpc` where each controlling
thread is. A blocked thread is at a `...Waiting` point; `notify_all` (or a
spurious wake-up) moves it to the re-check of its loop. `Owners` use the
whole interface, `Stoppers` only `stopWorking`.

**NodeLife.** The threads `net` (`ThreadSocketHandler`), `msghand`
(`ThreadMessageHandler`), the openers, and `main` (`Interrupt`, `Stop`).
`pending[t]` is a node a thread has created and not yet pushed to `vNodes`;
`vNodesCopy[t]` the copy a loop works on. Which nodes get marked while they
are serviced is a choice. One listening socket is modelled.
`SetNetworkActive` writes its flag in one step and, when it was switched off,
marks the nodes in the next (`CloseNodes`).
`AttemptToEvictConnection` never finds a candidate, since the line that
collects them is commented out. Callers of `DisconnectNode`, `Ban` and
`SetNetworkActive` are assumed to be gone before `Stop` deletes the nodes,
which it does without taking `cs_vNodes`.

**Slots.** The two openers as program counters, the semaphores as numbers,
the grants as flags of openers and nodes. Whether a candidate address exists,
is banned or is connected is a choice; so is the outcome of a connect.

**BanList.** `DumpBanlist` is a sequence of eight steps, three of them file
operations; names and open files refer to inodes, because the temporary file
has the same name for every writer. `FlushFails` lets the flush of a closing
stream fail, which `writeFile` does not notice. `Restart` is a crash at any
point and the next `Start`. The auxiliary variable `incidents` notes when a
dump misses a change of the list, shares its temporary file with another dump,
or loses what it wrote: these are the three ways in which the flag or the file
go wrong, and `FlagHonest` and `FileWhole` say that there is no other. The periodic dump is a caller like any other (`tos/main.cpp`
creates the scheduler but starts no thread for it).

**Peer.** A message is its size and how much of it was read. `recv` returns
any number of bytes up to a bound, `send` takes any part of a buffer or
fails. `ProcessMessage` is commented out in the source, so processing answers
nothing; `SendMessages` returns at once. The `m_connman` pointer and the node
state that `ProcessMessages` uses are taken to be set. Byte totals are left
out. The sum over a queue is a recursive function, so that the proofs can use
it.

**AddrMan.** Every public call holds `cs` from start to end, so a call is one
step. `man` is the whole object; helpers such as `Delete`, `ClearNew` and
`MakeTried` map one value of it to the next, as the code's helpers do, and
`asserted` turns false where an `assert` would fail. The hashes of `nKey`
decide which buckets and places an address may have; the key is chosen once
among `Keys`. Times, ports, services and attempt counts decide only early
returns and `IsTerrible`, and those are choices; `Attempt_`, `Connected_` and
`SetServices_` change nothing else, and `Select_` changes nothing at all.
`GetAddr_` returns at most a share of `vRandom` and at most a maximum.
`Restart` is a dump followed by a load in the next process; `StartOver` a start
that finds `peers.dat` unreadable or of an unknown format and clears the
manager. A crash takes the process back to an earlier dump, a state that an
earlier `Restart` reached.

**ChainState.** The tree of blocks that can ever arrive is a constant; what
is in a block is reduced to whether `ContextualCheckBlock` (`BadBlocks`) and
`ConnectBlock` (`BadConnect`) accept it. A step is what a thread does while it
holds `cs_main`, cut at the places where the lock is released
(`ActivateBestChain` after each `ActivateBestChainStep`) or where state is
written. `FlushStateToDisk` writes block files and block index in one step
(`FlushIndex`; only the last block file and its undo file are committed) and
then the coins, in any number of partial batches (`PartialBatch`, with the
marker `DB_HEAD_BLOCKS`) and a last one (`LastBatch`). `Restart` is a crash at
any point and the next start as `LoadBlockIndexDB` does it. It keeps what was
written to the two databases and loses what was not committed in the block and
undo files (`revLost`); a block without its undo data cannot be disconnected
(`StepDisconnectFails`, `InvalidateTipFails`). If a crash came between two
batches, `ReplayBlocks` takes the coins to the first head and writes them; its
code is not in the tree (`init.cpp:1509` calls it), so this is what the code
around it expects of it. If the assert of `PruneBlockIndexCandidates` fails the
process is gone (`Abort`) and only a `Restart` is left. `diskIndex`,
`diskCoins`, `bestBlock`, `headBlocks`, `blkSynced` and `revSynced` are the
disk, everything else is memory.

**Ledger.** The coins are the state after one block, move by one block at a
time, are saved as a whole, and a crash restores what was saved. The
refinement mapping is `best <- coinsTip`, `saved <- Saved`: the block the next
start would have the coins of, or none if the database held coins of a block
that its heads do not name.

## Runs

| run | checks | shows |
|---|---|---|
| `worker_owner` | `TypeOK`, `StoppedMeansIdle`, `StartedMeansAlive`, `KillingIsFinal`, `OwnerCallsReturn`, `StopperReturns`, `StartReachesCallback` | with one owner the states mean what they say, the owner's calls return, a stopper returns unless a kill or a start overtakes it, a start reaches the callback |
| `worker_kill` | `KillingIsFinal` | violated with two owners: a start in progress overwrites a kill |
| `nodelife` | `TypeOK`, `NoUseAfterFree`, `RefCountExact`, `InboundLimit`, `StopFreesAll`, `ShutdownCompletes`, `DisconnectedReclaimed` | reference counting, limits and shutdown are right |
| `slots` | `TypeOK`, `SlotsConserved`, `ConnectionLimits`, `NoGrantOutlivesStop`, `ShutdownCompletes` | no slot is lost or invented, shutdown wakes every opener |
| `banlist` | `FlagHonest`, `FileWhole`, `BansOnlyLifted` | with two callers, failing or lost writes, a crash and a restart, flag and file go wrong only after one of the three incidents, and no ban is cut short |
| `banlist_race` | `NothingUnwritten` | violated with two callers: a concurrent ban is marked as written |
| `peer` | `RecvAccounting`, `SendAsserts`, `BytesConserved`, `PauseSendExact`, `PauseHoldsBack`, `QueuedMessagesProcessed`, `SendQueueDrains` | flow control is exact and neither queue is stuck |
| `addrman` | `AssertsHold`, `Consistent`, `TriedKept`, `OneForOne` | no assert fails, all of `Check_` holds after every call and restart; while the process runs, addresses are replaced and never just dropped |
| `chain` | `StatusConsistent`, `CandidatesExact`, `CoinsFollowTip`, `BestChainActive`, `DiskRecoverable`, `LedgerSpec`, `ActivationEnds` | index, candidates, coins and disk agree, the coins implement `Ledger`, every activation ends at the best chain |
| `chain_stale` | `BestChainActive` | violated with two threads: one follows a target that was overtaken while `cs_main` was free |
| `chain_failed_tip` | `PruneAssertHolds` | violated: after `invalidateblock`, a flush of the index and a crash, a start finds a failed tip and no candidate |
| `chain_files` | `UndoCommitted` | violated with several block files: the index is written before undo data it refers to |

The five violations are explained, with the lines they contradict, under
`findings` in `PROJECT.json`.

**Bounds.** They are small but reach the cases that matter. Two owners are
what `worker_kill` needs. Two nodes let one be deleted while another is in
use, and `MaxInbound = 1` is hit. In `slots` every semaphore has one slot, so
both openers meet an empty one; three nodes are more than the slots allow. In
`banlist` two interchangeable callers (`CallerSymmetry`) are enough for each
incident, a ban can be extended, expire, or outlive the clock
(`MaxUntil > MaxTime`), and the one restart can come anywhere in a dump. In
`peer`, sizes below, at and above the limits
occur, a receive can hold the end of one message and the start of the next,
and both pause limits are exceeded; `MaxProcess` and `MaxPush` bound what
arrives and what is sent.

In `addrman` three addresses compete for tables of two buckets with two
places. Under the key `Crowded` everything wants the same place, so additions
evict, a second success moves an address back from tried to new, and an
address has two references; under `Spread` the places differ. `MaxIds = 4`
bounds the ids one process hands out; a restart starts counting again. With
`GetAddrPct = 70` and `GetAddrMax = 1` both limits of `GetAddr_` are met.

In `chain` the block `a1` and a branch `b1` with the two ends `b2` and `c2`
grow from genesis, and their blocks come in any order. `c2` is refused when it
is stored and `b2` when it is connected, so activation must give up a branch
and go to another, blocks wait for their parents, and equal work occurs.
`Budgets` gives each behaviour one operator command, one crash and two
flushes, or one block that may be corrupt and one flush
(`CommandAndCrashOrCorruption`). `BlocksPerFile = 1` puts every block in a file
of its own, and with `MinBlocksToKeep = 1` an unrequested block more than one
above the tip is not stored. `chain_failed_tip` and `chain_files` have the same
tree with good blocks only; `chain_stale` has two threads, two plain branches
and no command or crash.

Two properties of `chain` do not survive everything that can happen:
`CandidatesExact` and `BestChainActive` assume that no `reconsiderblock` was
given, that no start found a failed tip, and that no undo data was lost
(`Regular`); what happens otherwise is in the runs that expect a violation and
under "Observations". All properties of `chain` but the three that `ChainProofs`
and `ChainDiskProofs` prove for any number of threads are checked with one
thread.

**Fairness.** A thread that can run does run: the operating system schedules
it, and its waits are timed or end with a notification. Nothing obliges a
caller to call, a peer to send, a callback to throw or a wait to wake for no
reason; nobody must ever call `Interrupt`. Three assumptions are stronger. In
`NodeLife`, the try-locks around the deletion of an unreferenced node succeed
in some round, since no thread keeps those locks. In `Peer`, a connection
with unsent data either makes progress again and again or meets the send
timeout of the inactivity check. In `ChainState`, a thread inside
`ActivateBestChain` goes on and gets `cs_main` in its turn. `slots` assumes
limits of at least one: with `nMaxAddnode = 0`, or no outbound and feeler
slot, `Interrupt` posts nothing and a waiting opener would never end.

## Proofs

Each theorem holds for every value of the constants that satisfies the named
assumption of the module. The argument is the same everywhere: an inductive
invariant (`IInv` or a name of its own), one lemma or step per action, and the
property as a consequence.

| module | proved | assumption |
|---|---|---|
| `WorkerProofs` | `TypeOK`, `StoppedMeansIdle`, `StartedMeansAlive`; for a single owner `KillingIsFinal` | `ThreadsDisjoint` |
| `NodeLifeProofs` | `TypeOK`, `RefCountExact`, `NoUseAfterFree`, `StopFreesAll`, `InboundLimit` | `LifeAssumption` |
| `SlotsProofs` | `SlotsConserved`, `ConnectionLimits`, `NoGrantOutlivesStop` | `LimitsAssumption` |
| `BanListProofs` | `TypeOK`, `BansOnlyLifted`, `FlagHonest`, `FileWhole` | `BanAssumption` |
| `PeerProofs` | `TypeOK`, `RecvAccounting`, `SendAsserts`, `BytesConserved`, `PauseSendExact`, `PauseHoldsBack` | `PeerAssumption` |
| `ChainProofs` | `CoinsFollowTip`, `LedgerSpec` | `TreeAssumption` |
| `ChainIndexProofs`, `ChainDiskProofs` | `DiskRecoverable` | `TreeAssumption`, `OrderAssumption` |

**Worker.** The invariant says which program points of the worker thread go
with which `m_state` and when the thread exists. `KillingIsFinal` is false in
general (see `worker_kill`) and is proved for a single owner and any number of
stoppers, from a second invariant: what the sole owner is waiting for excludes
the interleavings that break it.

**NodeLife.** None of the properties is inductive alone. The invariant adds
that a created node is in exactly one place (`Places`), at which program
points a thread holds a new node or a copy (`Holding`), and what is over after
`Stop` (`Ended`). `InboundLimit` needs in addition that only `net` creates
inbound nodes; then the set that is counted only shrinks between two calls of
`AcceptConnection`.

**Slots.** The invariant places every grant: which openers and nodes may hold
one at which program point (`Places`, `Pending`, `Grants`), and that free
slots and held grants add up to the limit plus what `Interrupt` has posted
(`Conserved`). The limits do not follow from that, because `Interrupt` posts
slots that were never there. They hold because a grant taken from those cannot
pass the interrupt test any more, so `Limited` counts the grants of nodes and
that of an opener past the test.

**BanList.** Types include that a dump always finds a free inode, which is an
argument by counting. The other theorems hold for any callers, subnets, times
and restarts, with failing flushes or without. As long as there was no
incident, the invariant says for each program point of a dump what the copy,
the temporary file and `banlist.dat` contain and that no other dump is near the
file; each step either keeps this or is the incident that ends it. A restart
forgets the list together with a missed change, so after it the flag can be
trusted again.

**Peer.** The sum of the sizes in a queue is a recursive function, and what
appending, removing and partly sending do to it is shown by induction, in the
form "a non-empty set of natural numbers has a least element" (`WFMin` from
the well-founded induction library). The invariant has a part for each
direction (`Sending`, `Receiving`); `Paused` says that a socket is read
without an error only if receiving was not paused when `select` was called,
and that it cannot become paused before the bytes are spliced.

**Chain.** Coins and tip move together except when a flush comes in between.
`Control` says for each program point who holds `cs_main`, which locals are
set and whether the coins may differ from the tip (a step of one thread keeps
it for all others, since none of them is at a locked place); `Following` that the
contract state is that of the coins and both agree with the tip while
`cs_main` is free. The theorem on `Ledger` goes through the steps one by one:
each moves the coins by one block, saves them, restores them or leaves them
alone. It needs that the database never holds coins of a block that its heads
do not name, through any number of partial batches.

`DiskRecoverable` rests on a larger invariant (`Base`, in `ChainIndexProofs`):
the index in memory is a part of the tree closed under parents; an entry that
is not dirty is as on disk in all that matters; block data is either in the
last file, whose commit precedes the next write of the index, or committed;
every block the tip, the coins or the heads stand on has its undo flag, in
memory and, once the coins are being written, on disk. `ChainIndexProofs` shows
what the operations on single entries do and that accepting and marking blocks
keeps the invariant, `ChainDiskProofs` the same for activation, flushing and
restarts. The property speaks of the undo *flag* of the index: that the undo
data itself is there is what `chain_files` refutes.

Only model-checked: every liveness property and everything about `ENABLED`
(out of the prover's reach); `AddrMan`, whose restart is built from folds and
sorting; and of `ChainState` the properties `StatusConsistent`,
`CandidatesExact` and `BestChainActive`, which need the whole of the index and
hold for one thread and bounded commands.

## Observations without a run of their own

These were met while modelling and lie outside the bounds of the runs or the
data that the models keep.

- `banlist.dat` is never read back: `Serialize` writes the pair of the
  serialized list and a hash (`addrdb.cpp:53-55`), `UnSerializeInternal`
  iterates over that pair as if it were the list (`addrdb.cpp:94-96`) and
  throws, and `Start` begins with an empty list (`net.cpp:2341-2345`), while
  `doc/files.md:2` says that the file "stores the IPs/Subnets of banned
  nodes". `ReadSucceeds` models this.
- An error of the flush that the destructor of a stream does goes unnoticed,
  and the incomplete file is renamed over the old one
  (`CommonIO.cpp:132,139-141`), while `CommonIO.h:56-58` says of `writeFile`
  "Throws exception on error." In `BanList` this is the incident `lost`.
- `reconsiderblock` clears the flags of a block, its descendants and its
  ancestors, but not those of a sibling branch above a failed ancestor it has
  cleared (`validation.cpp:3643-3650`), against the assertion at
  `validation.cpp:5379`.
- A block that arrives while its parent is stored, not linked and failed is not
  entered in `mapBlocksUnlinked` (`validation.cpp:3733`). On a branch of three
  blocks one `invalidateblock` is enough for the assertion at
  `validation.cpp:5368` to fail, and after reconsidering the parent the block
  waits until the next start.
- A crash between two batches of coins relies on `ReplayBlocks`, which
  `init.cpp:1509` calls and no file of this tree defines; "The on-disk coinsdb
  is now in a good state" (`init.cpp:1514`) depends on it.
- `encIndex` (`addrman.h:557`) is not cleared between buckets, so new
  addresses of later buckets are lost or misplaced at a restart, while
  `test/p2ptest/addrman_tests.cpp:168` expects equal sizes; and `nAttempts`
  is read from `rlp[2]` (`addrman.h:93`). `AddrMan` models the first as the
  code has it, which is why `OneForOne` excepts restarts.

## Not modelled

`PROJECT.json` lists every part with the reason.

- In the chain state: what blocks contain, the mempool, notifications,
  pruning, reindexing, disk operations and database writes that fail
  (`AbortNode`, the system errors of `validation.cpp:3413-3415`), the loss of a
  batch of coins that was written but not synced, invalidating genesis, `RewindBlockIndex`, `VerifyDB`,
  `pindexBestHeader` and `pindexBestInvalid`. The root that `globalState` has
  after a start comes from outside the modelled code.
- `sdag`: nothing constructs `MainChain` or `BlockMemPool`, and members that
  are dereferenced are never set, so there is no initial state to model.
- Scheduler and network time: in this program no thread serves the scheduler
  and nothing calls `AddTimeData`.
- `OverlayDB` and `MemoryDB` are used only by code under `contract/test`.
- Encodings, hashes, keys and message contents are data that the properties do
  not tell apart; start-up and account handling are sequential I/O.
- The contract machine and the Ethereum types come from other projects, and
  the rest of the legacy tree is not part of the build.

What could still be added on top of these modules: `Slots` composed with
`NodeLife`, so that the grant is released exactly when the node leaves
`vNodes`; pruning and failing disk operations in `ChainState`; and a proof of
`Consistent` for the calls of `AddrMan`.
