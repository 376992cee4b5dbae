------------------------------ MODULE NodeLife ------------------------------
(***************************************************************************)
(* The life of a CNode in the connection manager of                        *)
(* baseservice/transport/net.{h,cpp}: created by an opener thread or by    *)
(* AcceptConnection, shared by reference counting between                  *)
(* ThreadSocketHandler ("net") and ThreadMessageHandler ("msghand"),       *)
(* deleted when the last reference is gone or by Stop().                   *)
(*                                                                         *)
(* A step is a stretch of code between two points at which another thread  *)
(* can be observed: a critical section of cs_vNodes, a read of an          *)
(* interrupt flag, a wait.  What a peer does is a choice: whether          *)
(* a connection succeeds, and which nodes get marked fDisconnect while     *)
(* they are serviced.  The connection slots are in module Slots.           *)
(***************************************************************************)
EXTENDS Integers, FiniteSets

CONSTANTS
  NodeIds,    \* the ids that GetNewNodeId hands out, each one once
  Openers,    \* the threads that run OpenNetworkConnection
  MaxInbound  \* nMaxConnections - (nMaxOutbound + nMaxFeeler)

Copiers == {"net", "msghand"}
Creators == Openers \cup {"net"}
Threads == Creators \cup {"msghand", "main"}

ASSUME LifeAssumption ==
  /\ Openers \cap {"net", "msghand", "main"} = {}
  /\ IsFiniteSet(NodeIds)
  /\ MaxInbound \in Int

VARIABLES
  vNodes, vNodesDisconnected,  \* the two lists of CNode pointers
  created,      \* nodes that were constructed
  deleted,      \* nodes that were deleted
  inbound,      \* nodes with fInbound
  fDisconnect,  \* nodes with fDisconnect
  nRefCount,    \* CNode::nRefCount
  fNetworkActive, interruptNet, flagInterruptMsgProc,
  closing,      \* SetNetworkActive(false) has set the flag and not yet closed the nodes
  pc,           \* where each thread is
  vNodesCopy,   \* the referenced copy of vNodes that "net" and "msghand" work on
  pending       \* the node a thread has created and not yet added to vNodes

lists == <<vNodes, vNodesDisconnected>>
flags == <<fNetworkActive, interruptNet, flagInterruptMsgProc, closing>>
vars == <<lists, created, deleted, inbound, fDisconnect, nRefCount, flags, pc, vNodesCopy, pending>>

Points ==
  {"loop", "openTest", "connectNode", "push", "delete", "accept", "acceptPush", "copy", "service",
   "release", "running", "interruptNet", "stop", "exited"}

TypeOK ==
  /\ vNodes \subseteq NodeIds /\ vNodesDisconnected \subseteq NodeIds
  /\ created \subseteq NodeIds /\ deleted \subseteq NodeIds
  /\ inbound \subseteq NodeIds /\ fDisconnect \subseteq NodeIds
  /\ nRefCount \in [NodeIds -> Nat]
  /\ fNetworkActive \in BOOLEAN /\ interruptNet \in BOOLEAN /\ flagInterruptMsgProc \in BOOLEAN
  /\ closing \in BOOLEAN
  /\ pc \in [Threads -> Points]
  /\ vNodesCopy \in [Copiers -> SUBSET NodeIds]
  /\ pending \in [Creators -> SUBSET NodeIds]

\* The state in which Start() leaves the manager, its threads about to run.
Init ==
  /\ vNodes = {} /\ vNodesDisconnected = {}
  /\ created = {} /\ deleted = {} /\ inbound = {} /\ fDisconnect = {}
  /\ nRefCount = [n \in NodeIds |-> 0]
  /\ fNetworkActive = TRUE /\ interruptNet = FALSE /\ flagInterruptMsgProc = FALSE
  /\ closing = FALSE
  /\ pc = [t \in Threads |-> IF t = "main" THEN "running"
                             ELSE IF t \in Openers THEN "openTest" ELSE "loop"]
  /\ vNodesCopy = [t \in Copiers |-> {}]
  /\ pending = [t \in Creators |-> {}]

At(t, p) == pc[t] = p
Goto(t, p) == pc' = [pc EXCEPT ![t] = p]

AddRef(S) == [n \in NodeIds |-> IF n \in S THEN nRefCount[n] + 1 ELSE nRefCount[n]]
Release(S) == [n \in NodeIds |-> IF n \in S THEN nRefCount[n] - 1 ELSE nRefCount[n]]

\* Mutated form: the first AddRef() is forgotten.
NewNodeUnreferenced(t, n) ==
  /\ n \notin created
  /\ created' = created \cup {n}
  /\ pending' = [pending EXCEPT ![t] = {n}]
  /\ UNCHANGED nRefCount

\* new CNode(...) with a fresh id, and its first AddRef().
NewNode(t, n) ==
  /\ n \notin created
  /\ created' = created \cup {n}
  /\ nRefCount' = AddRef({n})
  /\ pending' = [pending EXCEPT ![t] = {n}]

PushBack(t) ==
  /\ vNodes' = vNodes \cup pending[t]
  /\ pending' = [pending EXCEPT ![t] = {}]

-----------------------------------------------------------------------------
(* OpenNetworkConnection, as the opener threads call it over and over.     *)

\* Mutated form: an interrupted opener does not end.
openTestForever(t) ==
  /\ At(t, "openTest")
  /\ ~interruptNet /\ fNetworkActive /\ Goto(t, "connectNode")
  /\ UNCHANGED <<lists, created, deleted, inbound, fDisconnect, nRefCount, flags, vNodesCopy, pending>>

\* The early returns (interrupted, network inactive, nothing to connect to) leave the
\* thread where it is; an interrupted opener ends at its next sleep.
openTest(t) ==
  /\ At(t, "openTest")
  /\ \/ interruptNet /\ Goto(t, "exited")
     \/ ~interruptNet /\ fNetworkActive /\ Goto(t, "connectNode")
  /\ UNCHANGED <<lists, created, deleted, inbound, fDisconnect, nRefCount, flags, vNodesCopy, pending>>

\* ConnectNode returns nullptr.
ConnectNodeFails(t) ==
  /\ At(t, "connectNode")
  /\ Goto(t, "openTest")
  /\ UNCHANGED <<lists, created, deleted, inbound, fDisconnect, nRefCount, flags, vNodesCopy, pending>>

ConnectNode(t, n) ==
  /\ At(t, "connectNode")
  /\ NewNode(t, n)
  /\ Goto(t, "push")
  /\ UNCHANGED <<lists, deleted, inbound, fDisconnect, flags, vNodesCopy>>

OpenPush(t) ==
  /\ At(t, "push")
  /\ PushBack(t)
  /\ Goto(t, "openTest")
  /\ UNCHANGED <<vNodesDisconnected, created, deleted, inbound, fDisconnect, nRefCount, flags,
                 vNodesCopy>>

OpenNetworkConnection(t) ==
  openTest(t) \/ ConnectNodeFails(t) \/ (\E n \in NodeIds : ConnectNode(t, n)) \/ OpenPush(t)

-----------------------------------------------------------------------------
(* ThreadSocketHandler.                                                    *)

\* Mutated form: a node leaves vNodes with the list's reference still counted.
DisconnectNodesNoRelease ==
  LET D == vNodes \cap fDisconnect IN
  /\ At("net", "loop") /\ ~interruptNet
  /\ vNodes' = vNodes \ D
  /\ vNodesDisconnected' = vNodesDisconnected \cup D
  /\ Goto("net", "delete")
  /\ UNCHANGED <<created, deleted, inbound, fDisconnect, nRefCount, flags, vNodesCopy, pending>>

\* Under cs_vNodes: every node marked for disconnection leaves vNodes.
DisconnectNodes ==
  LET D == vNodes \cap fDisconnect IN
  /\ At("net", "loop") /\ ~interruptNet
  /\ vNodes' = vNodes \ D
  /\ vNodesDisconnected' = vNodesDisconnected \cup D
  /\ nRefCount' = Release(D)
  /\ Goto("net", "delete")
  /\ UNCHANGED <<created, deleted, inbound, fDisconnect, flags, vNodesCopy, pending>>

\* Mutated form: the reference count is not looked at.
DeleteReferenced(D) ==
  /\ At("net", "delete")
  /\ D \subseteq vNodesDisconnected
  /\ vNodesDisconnected' = vNodesDisconnected \ D
  /\ deleted' = deleted \cup D
  /\ Goto("net", "accept")
  /\ UNCHANGED <<vNodes, created, inbound, fDisconnect, nRefCount, flags, vNodesCopy, pending>>

\* Disconnected nodes without references are deleted, unless a TRY_LOCK fails.
DeleteDisconnected(D) ==
  /\ At("net", "delete")
  /\ D \subseteq {n \in vNodesDisconnected : nRefCount[n] <= 0}
  /\ vNodesDisconnected' = vNodesDisconnected \ D
  /\ deleted' = deleted \cup D
  /\ Goto("net", "accept")
  /\ UNCHANGED <<vNodes, created, inbound, fDisconnect, nRefCount, flags, vNodesCopy, pending>>

\* Mutated form: one connection too many.
AcceptOneMore(n) ==
  /\ At("net", "accept") /\ ~interruptNet
  /\ fNetworkActive
  /\ Cardinality(vNodes \cap inbound) <= MaxInbound
  /\ NewNode("net", n)
  /\ inbound' = inbound \cup {n}
  /\ Goto("net", "acceptPush")
  /\ UNCHANGED <<lists, deleted, fDisconnect, flags, vNodesCopy>>

\* After select(): AcceptConnection when the listening socket is readable.  The inbound
\* nodes of vNodes are counted, and AttemptToEvictConnection never finds a candidate.
AcceptConnection(n) ==
  /\ At("net", "accept") /\ ~interruptNet
  /\ fNetworkActive
  /\ Cardinality(vNodes \cap inbound) < MaxInbound
  /\ NewNode("net", n)
  /\ inbound' = inbound \cup {n}
  /\ Goto("net", "acceptPush")
  /\ UNCHANGED <<lists, deleted, fDisconnect, flags, vNodesCopy>>

AcceptPush ==
  /\ At("net", "acceptPush")
  /\ PushBack("net")
  /\ Goto("net", "copy")
  /\ UNCHANGED <<vNodesDisconnected, created, deleted, inbound, fDisconnect, nRefCount, flags,
                 vNodesCopy>>

\* Nothing to accept, or the new connection is dropped.
AcceptNothing ==
  /\ At("net", "accept") /\ ~interruptNet
  /\ Goto("net", "copy")
  /\ UNCHANGED <<lists, created, deleted, inbound, fDisconnect, nRefCount, flags, vNodesCopy, pending>>

\* while (!interruptNet) and the test after select(); while (!flagInterruptMsgProc).
Interrupted(t) == IF t = "net" THEN interruptNet ELSE flagInterruptMsgProc

LoopInterrupted(t) ==
  /\ Interrupted(t)
  /\ At(t, "loop") \/ At(t, "accept")
  /\ Goto(t, "exited")
  /\ UNCHANGED <<lists, created, deleted, inbound, fDisconnect, nRefCount, flags, vNodesCopy, pending>>

CopyNodes(t) ==
  /\ IF t = "net" THEN At(t, "copy") ELSE At(t, "loop") /\ ~flagInterruptMsgProc
  /\ vNodesCopy' = [vNodesCopy EXCEPT ![t] = vNodes]
  /\ nRefCount' = AddRef(vNodes)
  /\ Goto(t, "service")
  /\ UNCHANGED <<lists, created, deleted, inbound, fDisconnect, flags, pending>>

\* The thread works on its copy: sockets that fail or time out, messages that are refused.
\* Once interrupted it may return from the middle of the loop (the message handler: after a
\* node it did not skip), and then it keeps the references of its copy.
ServiceNodes(t) ==
  /\ At(t, "service")
  /\ \E D \in SUBSET vNodesCopy[t] : fDisconnect' = fDisconnect \cup D
  /\ \/ Goto(t, "release")
     \/ /\ Interrupted(t)
        /\ \E n \in vNodesCopy[t] : t = "net" \/ n \notin fDisconnect
        /\ Goto(t, "exited")
  /\ UNCHANGED <<lists, created, deleted, inbound, nRefCount, flags, vNodesCopy, pending>>

\* Mutated form: the copy is forgotten with its references still counted.
ForgetNodes(t) ==
  /\ At(t, "release")
  /\ vNodesCopy' = [vNodesCopy EXCEPT ![t] = {}]
  /\ Goto(t, "loop")
  /\ UNCHANGED <<lists, created, deleted, inbound, fDisconnect, nRefCount, flags, pending>>

\* Under cs_vNodes.  The message handler's 100 ms wait that follows changes nothing here.
ReleaseNodes(t) ==
  /\ At(t, "release")
  /\ nRefCount' = Release(vNodesCopy[t])
  /\ vNodesCopy' = [vNodesCopy EXCEPT ![t] = {}]
  /\ Goto(t, "loop")
  /\ UNCHANGED <<lists, created, deleted, inbound, fDisconnect, flags, pending>>

LoopStep(t) == LoopInterrupted(t) \/ CopyNodes(t) \/ ServiceNodes(t) \/ ReleaseNodes(t)

ThreadSocketHandler ==
  \/ DisconnectNodes
  \/ \E D \in SUBSET vNodesDisconnected : DeleteDisconnected(D)
  \/ \E n \in NodeIds : AcceptConnection(n)
  \/ AcceptPush \/ AcceptNothing
  \/ LoopStep("net")

ThreadMessageHandler == LoopStep("msghand")

-----------------------------------------------------------------------------
(* Calls from outside: DisconnectNode and Ban mark nodes of vNodes,        *)
(* SetNetworkActive closes all of them.  The callers are gone before       *)
(* Stop() deletes the nodes, which it does without taking cs_vNodes.       *)

DisconnectNode(n) ==
  /\ pc["main"] # "exited"
  /\ n \in vNodes
  /\ fDisconnect' = fDisconnect \cup {n}
  /\ UNCHANGED <<lists, created, deleted, inbound, nRefCount, flags, pc, vNodesCopy, pending>>

\* One caller at a time, the RPC setnetworkactive.
SetNetworkActive(active) ==
  /\ pc["main"] # "exited"
  /\ ~closing /\ fNetworkActive # active
  /\ fNetworkActive' = active
  /\ closing' = ~active
  /\ UNCHANGED <<lists, created, deleted, inbound, fDisconnect, nRefCount, interruptNet,
                 flagInterruptMsgProc, pc, vNodesCopy, pending>>

\* The rest of SetNetworkActive(false), under cs_vNodes.  A connection that was let in
\* before the flag was set and that is added to vNodes after this step stays.
CloseNodes ==
  /\ pc["main"] # "exited"
  /\ closing
  /\ closing' = FALSE
  /\ fDisconnect' = fDisconnect \cup vNodes
  /\ UNCHANGED <<lists, created, deleted, inbound, nRefCount, fNetworkActive, interruptNet,
                 flagInterruptMsgProc, pc, vNodesCopy, pending>>

-----------------------------------------------------------------------------
(* Interrupt() and Stop().                                                 *)

InterruptMsgProc ==
  /\ At("main", "running")
  /\ flagInterruptMsgProc' = TRUE
  /\ Goto("main", "interruptNet")
  /\ UNCHANGED <<lists, created, deleted, inbound, fDisconnect, nRefCount, fNetworkActive,
                 interruptNet, closing, vNodesCopy, pending>>

InterruptNet ==
  /\ At("main", "interruptNet")
  /\ interruptNet' = TRUE
  /\ Goto("main", "stop")
  /\ UNCHANGED <<lists, created, deleted, inbound, fDisconnect, nRefCount, fNetworkActive,
                 flagInterruptMsgProc, closing, vNodesCopy, pending>>

\* Mutated form: the disconnected pool is cleared without deleting its nodes.
StopVNodesOnly ==
  /\ At("main", "stop")
  /\ \A t \in Threads \ {"main"} : At(t, "exited")
  /\ fDisconnect' = fDisconnect \cup vNodes
  /\ deleted' = deleted \cup vNodes
  /\ vNodes' = {} /\ vNodesDisconnected' = {}
  /\ Goto("main", "exited")
  /\ UNCHANGED <<created, inbound, nRefCount, flags, vNodesCopy, pending>>

\* Every thread is joined; then every socket is closed and every node of both lists deleted,
\* whatever its reference count.
Stop ==
  /\ At("main", "stop")
  /\ \A t \in Threads \ {"main"} : At(t, "exited")
  /\ fDisconnect' = fDisconnect \cup vNodes
  /\ deleted' = deleted \cup vNodes \cup vNodesDisconnected
  /\ vNodes' = {} /\ vNodesDisconnected' = {}
  /\ Goto("main", "exited")
  /\ UNCHANGED <<created, inbound, nRefCount, flags, vNodesCopy, pending>>

Shutdown == InterruptNet \/ Stop

\* After Stop() nothing happens any more.
Stopped == At("main", "exited") /\ UNCHANGED vars

Next ==
  \/ ThreadSocketHandler \/ ThreadMessageHandler
  \/ \E t \in Openers : OpenNetworkConnection(t)
  \/ InterruptMsgProc \/ Shutdown
  \/ \E active \in BOOLEAN : SetNetworkActive(active)
  \/ CloseNodes
  \/ \E n \in NodeIds : DisconnectNode(n)
  \/ Stopped

Spec == Init /\ [][Next]_vars

\* Every thread runs when it can: its waits are timed.  Nobody holds the locks of an
\* unreferenced node for ever, so its TRY_LOCKs succeed in some round.  No caller must call,
\* and nobody must ever call Interrupt().
Fairness ==
  /\ WF_vars(ThreadSocketHandler) /\ WF_vars(ThreadMessageHandler)
  /\ \A t \in Openers : WF_vars(OpenNetworkConnection(t))
  /\ WF_vars(Shutdown)
  /\ \A n \in NodeIds :
       SF_vars(\E D \in SUBSET vNodesDisconnected : n \in D /\ DeleteDisconnected(D))

FairSpec == Spec /\ Fairness

-----------------------------------------------------------------------------
(* Properties.                                                             *)

AllPending == UNION {pending[t] : t \in Creators}

\* "Hold in disconnected pool until all refs are released" (net.cpp): a node is deleted only
\* when it is in neither list, when no thread is about to add it, and when no thread is
\* still working on a copy of vNodes that contains it.
NoUseAfterFree ==
  /\ deleted \cap (vNodes \cup vNodesDisconnected \cup AllPending) = {}
  /\ \A t \in Copiers : pc[t] \in {"service", "release"} => deleted \cap vNodesCopy[t] = {}

One(b) == IF b THEN 1 ELSE 0

\* The reference count of a live node is exactly the number of its holders: the list (or
\* the thread that created it) and the copies of the two loops.  So no reference is lost,
\* and GetRefCount's assertion nRefCount >= 0 holds.
RefCountExact ==
  \A n \in NodeIds \ deleted :
    nRefCount[n] = One(n \in vNodes \cup AllPending)
                   + One(n \in vNodesCopy["net"]) + One(n \in vNodesCopy["msghand"])

\* AcceptConnection counts and adds in different critical sections; still the inbound
\* connections never exceed what nMaxConnections leaves for them.
InboundLimit ==
  Cardinality(inbound \cap (vNodes \cup AllPending)) <= IF MaxInbound > 0 THEN MaxInbound ELSE 0

\* When Stop() returns, every node that was ever created has been deleted: the openers
\* have handed theirs over before they were joined, and both lists were emptied.
StopFreesAll ==
  At("main", "exited") => created = deleted

\* Interrupt() followed by Stop() returns: every thread notices, whether it waits, connects
\* or services nodes.
ShutdownCompletes ==
  At("main", "interruptNet") ~> At("main", "exited")

\* A node of vNodes marked fDisconnect is eventually deleted, however the two loops take
\* and release their references.
DisconnectedReclaimed ==
  \A n \in NodeIds : (n \in vNodes \cap fDisconnect) ~> n \in deleted
=============================================================================
