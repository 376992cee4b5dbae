--------------------------- MODULE NodeLifeProofs ---------------------------
(***************************************************************************)
(* The reference counting of NodeLife is right for any number of nodes and *)
(* opener threads.  The invariants of NodeLife are not inductive alone:    *)
(* they need to know where a node can be at all, which thread holds a      *)
(* copy or a new node at which program point, and what is over when Stop() *)
(* has returned.                                                           *)
(***************************************************************************)
EXTENDS NodeLife, FiniteSetTheorems, TLAPS

IsPending(n) == \E t \in Creators : n \in pending[t]

\* RefCountExact, with the union over the threads written out.
Refs ==
  \A n \in NodeIds : n \notin deleted =>
    nRefCount[n] = One(n \in vNodes \/ IsPending(n))
                   + One(n \in vNodesCopy["net"]) + One(n \in vNodesCopy["msghand"])

\* A node that was created is in exactly one place.
Places ==
  /\ \A n \in created : n \in vNodes \/ n \in vNodesDisconnected \/ n \in deleted \/ IsPending(n)
  /\ \A n \in vNodes : n \in created /\ n \notin vNodesDisconnected /\ n \notin deleted /\ ~IsPending(n)
  /\ \A n \in vNodesDisconnected : n \in created /\ n \notin deleted /\ ~IsPending(n)
  /\ \A n \in deleted : n \in created /\ ~IsPending(n)
  /\ \A t \in Creators : \A n \in pending[t] : n \in created
  /\ \A t, u \in Creators : \A n \in pending[t] : n \in pending[u] => t = u

\* Who holds nodes where: a new node between its creation and the push_back, a copy while
\* it is worked on (and, unused, after a return from the middle of a loop).
Holding ==
  /\ \A t \in Creators : pending[t] # {} => pc[t] = IF t = "net" THEN "acceptPush" ELSE "push"
  /\ \A t \in Copiers : vNodesCopy[t] # {} => pc[t] \in {"service", "release", "exited"}
  /\ \A t \in Copiers : vNodesCopy[t] \subseteq created
  /\ \A t \in Copiers : pc[t] \in {"service", "release"} => \A n \in vNodesCopy[t] : n \notin deleted

\* After Stop() there is no thread and no node left.
Ended ==
  pc["main"] = "exited" =>
    /\ \A t \in Threads : pc[t] = "exited"
    /\ vNodes = {} /\ vNodesDisconnected = {}

IInv == TypeOK /\ Refs /\ Places /\ Holding /\ Ended

-----------------------------------------------------------------------------

\* The threads are distinct, and each has the roles its name says.
LEMMA ThreadFacts ==
  /\ "net" \in Creators /\ "net" \in Copiers /\ "msghand" \in Copiers
  /\ "net" \in Threads /\ "msghand" \in Threads /\ "main" \in Threads
  /\ \A t \in Openers : t \in Creators /\ t \in Threads /\ t # "net" /\ t # "msghand" /\ t # "main"
  /\ \A t \in Creators : t \in Threads /\ t # "main" /\ t # "msghand"
  /\ \A t \in Copiers : t \in Threads /\ t # "main" /\ (t = "net" \/ t = "msghand")
  /\ \A t \in Creators : t = "net" \/ t \in Openers
BY LifeAssumption DEF Creators, Copiers, Threads

\* Start() leaves no node anywhere.
LEMMA InitInv == Init => IInv
<1> SUFFICES ASSUME Init PROVE IInv
  OBVIOUS
<1>1. TypeOK
  BY ThreadFacts DEF Init, TypeOK, Points
<1>2. Refs
  BY ThreadFacts DEF Init, Refs, IsPending, One
<1>3. Places
  BY DEF Init, Places, IsPending
<1>4. Holding
  BY ThreadFacts DEF Init, Holding
<1>5. Ended
  BY ThreadFacts DEF Init, Ended
<1> QED BY <1>1, <1>2, <1>3, <1>4, <1>5 DEF IInv

\* Steps that create, move, reference and delete no node.
Quiet ==
  \/ \E t \in Openers : openTest(t) \/ ConnectNodeFails(t)
  \/ AcceptNothing
  \/ \E t \in Copiers : LoopInterrupted(t) \/ ServiceNodes(t)
  \/ InterruptMsgProc \/ InterruptNet
  \/ \E active \in BOOLEAN : SetNetworkActive(active)
  \/ CloseNodes
  \/ \E n \in NodeIds : DisconnectNode(n)
  \/ UNCHANGED vars

\* Quiet steps preserve the invariant: only a program counter moves, and it leaves no
\* point at which the thread holds a node it would forget.
LEMMA QuietStep == ASSUME IInv, Quiet PROVE IInv'
<1> DEFINE Same == UNCHANGED <<lists, created, deleted, nRefCount, vNodesCopy, pending>>
<1> USE ThreadFacts
<1>1. ASSUME NEW t \in Openers, openTest(t) PROVE TypeOK' /\ Same /\ Holding' /\ Ended'
  BY <1>1 DEF IInv, TypeOK, openTest, At, Goto, lists, flags, Points, Holding, Ended
<1>2. ASSUME NEW t \in Openers, ConnectNodeFails(t) PROVE TypeOK' /\ Same /\ Holding' /\ Ended'
  BY <1>2 DEF IInv, TypeOK, ConnectNodeFails, At, Goto, lists, flags, Points, Holding, Ended
<1>3. ASSUME AcceptNothing PROVE TypeOK' /\ Same /\ Holding' /\ Ended'
  BY <1>3 DEF IInv, TypeOK, AcceptNothing, At, Goto, lists, flags, Points, Holding, Ended
<1>4. ASSUME NEW t \in Copiers, LoopInterrupted(t) PROVE TypeOK' /\ Same /\ Holding' /\ Ended'
  BY <1>4 DEF IInv, TypeOK, LoopInterrupted, At, Goto, lists, flags, Points, Holding, Ended
<1>5. ASSUME NEW t \in Copiers, ServiceNodes(t) PROVE TypeOK' /\ Same /\ Holding' /\ Ended'
  BY <1>5 DEF IInv, TypeOK, ServiceNodes, At, Goto, lists, flags, Points, Holding, Ended
<1>6. ASSUME InterruptMsgProc PROVE TypeOK' /\ Same /\ Holding' /\ Ended'
  BY <1>6 DEF IInv, TypeOK, InterruptMsgProc, At, Goto, lists, flags, Points, Holding, Ended
<1>7. ASSUME InterruptNet PROVE TypeOK' /\ Same /\ Holding' /\ Ended'
  BY <1>7 DEF IInv, TypeOK, InterruptNet, At, Goto, lists, flags, Points, Holding, Ended
<1>8. ASSUME NEW active \in BOOLEAN, SetNetworkActive(active) PROVE TypeOK' /\ Same /\ Holding' /\ Ended'
  BY <1>8 DEF IInv, TypeOK, SetNetworkActive, lists, Holding, Ended
<1>9. ASSUME CloseNodes PROVE TypeOK' /\ Same /\ Holding' /\ Ended'
  BY <1>9 DEF IInv, TypeOK, CloseNodes, lists, Holding, Ended
<1>10. ASSUME NEW n \in NodeIds, DisconnectNode(n) PROVE TypeOK' /\ Same /\ Holding' /\ Ended'
  BY <1>10 DEF IInv, TypeOK, DisconnectNode, lists, flags, Holding, Ended
<1>11. ASSUME UNCHANGED vars PROVE TypeOK' /\ Same /\ Holding' /\ Ended'
  BY <1>11 DEF IInv, TypeOK, vars, lists, flags, Holding, Ended
<1>12. TypeOK' /\ Same /\ Holding' /\ Ended'
  BY <1>1, <1>2, <1>3, <1>4, <1>5, <1>6, <1>7, <1>8, <1>9, <1>10, <1>11 DEF Quiet
<1>13. Refs' /\ Places'
  BY <1>12 DEF IInv, Refs, Places, IsPending, lists
<1> QED BY <1>12, <1>13 DEF IInv

\* What creating a node does to the parts of the invariant that a program counter does not
\* matter for; t is the thread that creates it.
LEMMA NewNodeParts ==
  ASSUME IInv, NEW t \in Creators, NEW n \in NodeIds, NewNode(t, n), pending[t] = {},
         UNCHANGED <<lists, deleted, vNodesCopy>>
  PROVE  /\ Refs' /\ Places'
         /\ nRefCount' \in [NodeIds -> Nat] /\ created' \subseteq NodeIds
         /\ pending' \in [Creators -> SUBSET NodeIds]
<1> USE ThreadFacts
<1>1. nRefCount' \in [NodeIds -> Nat] /\ created' \subseteq NodeIds
      /\ pending' \in [Creators -> SUBSET NodeIds]
  BY DEF IInv, TypeOK, NewNode, AddRef
<1>2. \A m \in NodeIds : IsPending(m)' <=> (m = n \/ IsPending(m))
  BY DEF IInv, TypeOK, NewNode, IsPending
<1>3. n \notin vNodes /\ n \notin vNodesDisconnected /\ n \notin deleted /\ ~IsPending(n)
      /\ n \notin vNodesCopy["net"] /\ n \notin vNodesCopy["msghand"]
  BY DEF IInv, Places, Holding, NewNode, IsPending
<1>4. Refs'
  <2> SUFFICES ASSUME NEW m \in NodeIds, m \notin deleted'
               PROVE  nRefCount'[m] = One(m \in vNodes' \/ IsPending(m)')
                        + One(m \in vNodesCopy'["net"]) + One(m \in vNodesCopy'["msghand"])
    BY DEF Refs
  <2>1. nRefCount[m] = One(m \in vNodes \/ IsPending(m))
                        + One(m \in vNodesCopy["net"]) + One(m \in vNodesCopy["msghand"])
    BY DEF IInv, Refs
  <2>2. nRefCount'[m] = IF m = n THEN nRefCount[m] + 1 ELSE nRefCount[m]
    BY DEF NewNode, AddRef
  <2> QED BY <1>2, <1>3, <2>1, <2>2 DEF One, lists
<1>5. Places'
  BY <1>2, <1>3 DEF IInv, TypeOK, Places, NewNode, lists, IsPending
<1> QED BY <1>1, <1>4, <1>5

\* ConnectNode and AcceptConnection create a node and go on to push it.
LEMMA CreateStep ==
  ASSUME IInv, NEW n \in NodeIds,
         (\E t \in Openers : ConnectNode(t, n)) \/ AcceptConnection(n)
  PROVE  IInv'
<1> USE ThreadFacts
<1>1. ASSUME NEW t \in Openers, ConnectNode(t, n) PROVE IInv'
  <2>1. pending[t] = {} /\ NewNode(t, n) /\ UNCHANGED <<lists, deleted, vNodesCopy>>
    BY <1>1 DEF IInv, Holding, ConnectNode, At
  <2>2. Refs' /\ Places' /\ nRefCount' \in [NodeIds -> Nat] /\ created' \subseteq NodeIds
        /\ pending' \in [Creators -> SUBSET NodeIds]
    BY <2>1, NewNodeParts
  <2>3. TypeOK'
    BY <1>1, <2>2 DEF IInv, TypeOK, ConnectNode, Goto, lists, flags, Points
  <2>4. Holding'
    BY <1>1, <2>1 DEF IInv, TypeOK, Holding, ConnectNode, NewNode, At, Goto
  <2>5. Ended'
    BY <1>1 DEF IInv, TypeOK, Ended, ConnectNode, At, Goto, lists
  <2> QED BY <2>2, <2>3, <2>4, <2>5 DEF IInv
<1>2. ASSUME AcceptConnection(n) PROVE IInv'
  <2>1. pending["net"] = {} /\ NewNode("net", n) /\ UNCHANGED <<lists, deleted, vNodesCopy>>
    BY <1>2 DEF IInv, Holding, AcceptConnection, At
  <2>2. Refs' /\ Places' /\ nRefCount' \in [NodeIds -> Nat] /\ created' \subseteq NodeIds
        /\ pending' \in [Creators -> SUBSET NodeIds]
    BY <2>1, NewNodeParts
  <2>3. TypeOK'
    BY <1>2, <2>2 DEF IInv, TypeOK, AcceptConnection, Goto, lists, flags, Points
  <2>4. Holding'
    BY <1>2, <2>1 DEF IInv, TypeOK, Holding, AcceptConnection, NewNode, At, Goto
  <2>5. Ended'
    BY <1>2 DEF IInv, TypeOK, Ended, AcceptConnection, At, Goto, lists
  <2> QED BY <2>2, <2>3, <2>4, <2>5 DEF IInv
<1> QED BY <1>1, <1>2

\* push_back under cs_vNodes: the reference of the creating thread becomes the list's.
LEMMA PushStep ==
  ASSUME IInv, (\E t \in Openers : OpenPush(t)) \/ AcceptPush PROVE IInv'
<1> USE ThreadFacts
<1>1. PICK t \in Creators :
        /\ PushBack(t) /\ pc[t] # "exited"
        /\ Goto(t, IF t = "net" THEN "copy" ELSE "openTest")
        /\ UNCHANGED <<vNodesDisconnected, created, deleted, inbound, fDisconnect, nRefCount, flags,
                       vNodesCopy>>
        /\ pc[t] = IF t = "net" THEN "acceptPush" ELSE "push"
  BY DEF OpenPush, AcceptPush, At
<1>2. TypeOK'
  BY <1>1 DEF IInv, TypeOK, PushBack, Goto, flags, Points
<1>3. \A m \in NodeIds : /\ m \in vNodes' <=> m \in vNodes \/ m \in pending[t]
                         /\ IsPending(m)' <=> IsPending(m) /\ m \notin pending[t]
  BY <1>1 DEF IInv, TypeOK, PushBack, IsPending, Places
<1>4. \A m \in NodeIds : m \in vNodes' \/ IsPending(m)' <=> m \in vNodes \/ IsPending(m)
  BY <1>3 DEF IsPending
<1>5. Refs'
  BY <1>1, <1>4 DEF IInv, Refs, One
<1>6. Places'
  BY <1>1, <1>3, <1>2 DEF IInv, TypeOK, Places, PushBack, IsPending
<1>7. Holding'
  BY <1>1 DEF IInv, TypeOK, Holding, PushBack, Goto
<1>8. Ended'
  BY <1>1 DEF IInv, TypeOK, Ended, Goto
<1> QED BY <1>2, <1>5, <1>6, <1>7, <1>8 DEF IInv

\* A node that leaves vNodes loses the list's reference and no other.
LEMMA DisconnectStep == ASSUME IInv, DisconnectNodes PROVE IInv'
<1> USE ThreadFacts
<1> DEFINE D == vNodes \cap fDisconnect
<1>1. /\ pc["net"] = "loop" /\ Goto("net", "delete")
      /\ vNodes' = vNodes \ D /\ vNodesDisconnected' = vNodesDisconnected \cup D
      /\ nRefCount' = Release(D)
      /\ UNCHANGED <<created, deleted, inbound, fDisconnect, flags, vNodesCopy, pending>>
  BY DEF DisconnectNodes, At
<1>2. \A m \in NodeIds : IsPending(m)' <=> IsPending(m)
  BY <1>1 DEF IsPending
<1>3. \A m \in D : nRefCount[m] >= 1 /\ ~IsPending(m) /\ m \notin deleted
  BY DEF IInv, TypeOK, Refs, Places, One
<1>4. TypeOK'
  BY <1>1, <1>3 DEF IInv, TypeOK, Goto, Release, flags, Points
<1>5. Refs'
  <2> SUFFICES ASSUME NEW m \in NodeIds, m \notin deleted'
               PROVE  nRefCount'[m] = One(m \in vNodes' \/ IsPending(m)')
                        + One(m \in vNodesCopy'["net"]) + One(m \in vNodesCopy'["msghand"])
    BY DEF Refs
  <2>1. nRefCount[m] = One(m \in vNodes \/ IsPending(m))
                        + One(m \in vNodesCopy["net"]) + One(m \in vNodesCopy["msghand"])
    BY <1>1 DEF IInv, Refs
  <2>2. nRefCount'[m] = IF m \in D THEN nRefCount[m] - 1 ELSE nRefCount[m]
    BY <1>1 DEF Release
  <2>3. UNCHANGED vNodesCopy /\ (IsPending(m)' <=> IsPending(m)) /\ (m \in vNodes' <=> m \in vNodes \ D)
    BY <1>1, <1>2
  <2>4. CASE m \in D
    <3>1. m \in vNodes /\ ~IsPending(m)
      BY <1>3, <2>4
    <3>2. One(m \in vNodes \/ IsPending(m)) = 1 /\ One(m \in vNodes' \/ IsPending(m)') = 0
      BY <2>3, <2>4, <3>1 DEF One
    <3>3. One(m \in vNodesCopy["net"]) \in Nat /\ One(m \in vNodesCopy["msghand"]) \in Nat
      BY DEF One
    <3> HIDE DEF D
    <3>4. QED  BY <2>1, <2>2, <2>3, <2>4, <3>2, <3>3
  <2>5. CASE m \notin D
    <3>1. One(m \in vNodes' \/ IsPending(m)') = One(m \in vNodes \/ IsPending(m))
      BY <2>3, <2>5 DEF One
    <3> HIDE DEF D
    <3>2. QED  BY <2>1, <2>2, <2>3, <2>5, <3>1
  <2>6. QED  BY <2>4, <2>5
<1>6. Places'
  BY <1>1, <1>2, <1>3 DEF IInv, TypeOK, Places, IsPending
<1>7. Holding'
  BY <1>1 DEF IInv, TypeOK, Holding, Goto
<1>8. Ended'
  BY <1>1 DEF IInv, TypeOK, Ended, Goto
<1> QED BY <1>4, <1>5, <1>6, <1>7, <1>8 DEF IInv

\* A node whose count is zero is in no thread's copy, so deleting it harms nobody.
LEMMA DeleteStep ==
  ASSUME IInv, NEW D \in SUBSET vNodesDisconnected, DeleteDisconnected(D) PROVE IInv'
<1> USE ThreadFacts
<1>1. /\ pc["net"] = "delete" /\ Goto("net", "accept")
      /\ \A m \in D : m \in vNodesDisconnected /\ nRefCount[m] <= 0
      /\ vNodesDisconnected' = vNodesDisconnected \ D /\ deleted' = deleted \cup D
      /\ UNCHANGED <<vNodes, created, inbound, fDisconnect, nRefCount, flags, vNodesCopy, pending>>
  BY DEF DeleteDisconnected, At
<1>2. \A m \in NodeIds : IsPending(m)' <=> IsPending(m)
  BY <1>1 DEF IsPending
<1>3. \A m \in D : m \notin vNodesCopy["net"] /\ m \notin vNodesCopy["msghand"]
  BY <1>1 DEF IInv, TypeOK, Refs, Places, One
<1>4. TypeOK'
  BY <1>1 DEF IInv, TypeOK, Goto, flags, Points
<1>5. Refs'
  BY <1>1, <1>2 DEF IInv, Refs
<1>6. Places'
  BY <1>1, <1>2 DEF IInv, TypeOK, Places, IsPending
<1>7. Holding'
  BY <1>1, <1>3 DEF IInv, TypeOK, Holding, Goto
<1>8. Ended'
  BY <1>1 DEF IInv, TypeOK, Ended, Goto
<1> QED BY <1>4, <1>5, <1>6, <1>7, <1>8 DEF IInv

\* A thread that copies vNodes adds one reference to each node, for a copy that was empty.
LEMMA CopyStep == ASSUME IInv, NEW t \in Copiers, CopyNodes(t) PROVE IInv'
<1> USE ThreadFacts
<1>1. /\ pc[t] \in {"copy", "loop"} /\ Goto(t, "service") /\ vNodesCopy[t] = {}
      /\ vNodesCopy' = [vNodesCopy EXCEPT ![t] = vNodes] /\ nRefCount' = AddRef(vNodes)
      /\ UNCHANGED <<vNodes, vNodesDisconnected, created, deleted, inbound, fDisconnect, flags, pending>>
  BY DEF IInv, Holding, CopyNodes, At, lists
<1>2. \A m \in NodeIds : IsPending(m)' <=> IsPending(m)
  BY <1>1 DEF IsPending
<1>3. TypeOK'
  BY <1>1 DEF IInv, TypeOK, Goto, AddRef, flags, Points
<1>4. Refs'
  <2> SUFFICES ASSUME NEW m \in NodeIds, m \notin deleted'
               PROVE  nRefCount'[m] = One(m \in vNodes' \/ IsPending(m)')
                        + One(m \in vNodesCopy'["net"]) + One(m \in vNodesCopy'["msghand"])
    BY DEF Refs
  <2>1. nRefCount[m] = One(m \in vNodes \/ IsPending(m))
                        + One(m \in vNodesCopy["net"]) + One(m \in vNodesCopy["msghand"])
    BY <1>1 DEF IInv, Refs
  <2>2. nRefCount'[m] = IF m \in vNodes THEN nRefCount[m] + 1 ELSE nRefCount[m]
    BY <1>1 DEF AddRef
  <2>3. vNodesCopy'[t] = vNodes /\ \A u \in Copiers : u # t => vNodesCopy'[u] = vNodesCopy[u]
    BY <1>1 DEF IInv, TypeOK
  <2> QED BY <1>1, <1>2, <2>1, <2>2, <2>3 DEF One
<1>5. Places'
  BY <1>1, <1>2 DEF IInv, TypeOK, Places, IsPending
<1>6. Holding'
  BY <1>1 DEF IInv, TypeOK, Holding, Places, Goto
<1>7. Ended'
  BY <1>1 DEF IInv, TypeOK, Ended, Goto
<1> QED BY <1>3, <1>4, <1>5, <1>6, <1>7 DEF IInv

\* A thread that is done with its copy takes back exactly the references it added.
LEMMA ReleaseStep == ASSUME IInv, NEW t \in Copiers, ReleaseNodes(t) PROVE IInv'
<1> USE ThreadFacts
<1>1. /\ pc[t] = "release" /\ Goto(t, "loop")
      /\ vNodesCopy' = [vNodesCopy EXCEPT ![t] = {}] /\ nRefCount' = Release(vNodesCopy[t])
      /\ UNCHANGED <<vNodes, vNodesDisconnected, created, deleted, inbound, fDisconnect, flags, pending>>
  BY DEF ReleaseNodes, At, lists
<1>2. \A m \in NodeIds : IsPending(m)' <=> IsPending(m)
  BY <1>1 DEF IsPending
<1>3. \A m \in vNodesCopy[t] : m \in NodeIds /\ m \notin deleted /\ nRefCount[m] >= 1
  BY <1>1 DEF IInv, TypeOK, Holding, Refs, One
<1>4. TypeOK'
  BY <1>1, <1>3 DEF IInv, TypeOK, Goto, Release, flags, Points
<1>5. Refs'
  <2> SUFFICES ASSUME NEW m \in NodeIds, m \notin deleted'
               PROVE  nRefCount'[m] = One(m \in vNodes' \/ IsPending(m)')
                        + One(m \in vNodesCopy'["net"]) + One(m \in vNodesCopy'["msghand"])
    BY DEF Refs
  <2>1. nRefCount[m] = One(m \in vNodes \/ IsPending(m))
                        + One(m \in vNodesCopy["net"]) + One(m \in vNodesCopy["msghand"])
    BY <1>1 DEF IInv, Refs
  <2>2. nRefCount'[m] = IF m \in vNodesCopy[t] THEN nRefCount[m] - 1 ELSE nRefCount[m]
    BY <1>1 DEF Release
  <2>3. vNodesCopy'[t] = {} /\ \A u \in Copiers : u # t => vNodesCopy'[u] = vNodesCopy[u]
    BY <1>1 DEF IInv, TypeOK
  <2> QED BY <1>1, <1>2, <2>1, <2>2, <2>3 DEF One
<1>6. Places'
  BY <1>1, <1>2 DEF IInv, TypeOK, Places, IsPending
<1>7. Holding'
  BY <1>1 DEF IInv, TypeOK, Holding, Goto
<1>8. Ended'
  BY <1>1 DEF IInv, TypeOK, Ended, Goto
<1> QED BY <1>4, <1>5, <1>6, <1>7, <1>8 DEF IInv

\* Stop() runs when every other thread has ended, so nobody holds a new node.
LEMMA StopStep == ASSUME IInv, Stop PROVE IInv'
<1> USE ThreadFacts
<1>1. /\ \A t \in Threads : t # "main" => pc[t] = "exited"
      /\ Goto("main", "exited") /\ vNodes' = {} /\ vNodesDisconnected' = {}
      /\ deleted' = deleted \cup vNodes \cup vNodesDisconnected
      /\ fDisconnect' = fDisconnect \cup vNodes
      /\ UNCHANGED <<created, inbound, nRefCount, flags, vNodesCopy, pending>>
  BY DEF Stop, At
<1>2. \A m \in NodeIds : ~IsPending(m) /\ ~IsPending(m)'
  BY <1>1 DEF IInv, Holding, IsPending
<1>3. TypeOK'
  BY <1>1 DEF IInv, TypeOK, Goto, flags, Points
<1>4. Refs'
  BY <1>1, <1>2 DEF IInv, TypeOK, Refs, One
<1>5. Places'
  BY <1>1, <1>2 DEF IInv, TypeOK, Places, IsPending
<1>6. Holding'
  BY <1>1 DEF IInv, TypeOK, Holding, Goto
<1>7. Ended'
  BY <1>1 DEF IInv, TypeOK, Ended, Goto
<1> QED BY <1>3, <1>4, <1>5, <1>6, <1>7 DEF IInv

\* Every step preserves the invariant.
LEMMA NextInv == IInv /\ [Next]_vars => IInv'
<1> SUFFICES ASSUME IInv, [Next]_vars PROVE IInv'
  OBVIOUS
<1>1. CASE Quiet
  BY <1>1, QuietStep
<1>2. CASE \E n \in NodeIds : (\E t \in Openers : ConnectNode(t, n)) \/ AcceptConnection(n)
  BY <1>2, CreateStep
<1>3. CASE (\E t \in Openers : OpenPush(t)) \/ AcceptPush
  BY <1>3, PushStep
<1>4. CASE DisconnectNodes
  BY <1>4, DisconnectStep
<1>5. CASE \E D \in SUBSET vNodesDisconnected : DeleteDisconnected(D)
  BY <1>5, DeleteStep
<1>6. CASE \E t \in Copiers : CopyNodes(t)
  BY <1>6, CopyStep
<1>7. CASE \E t \in Copiers : ReleaseNodes(t)
  BY <1>7, ReleaseStep
<1>8. CASE Stop
  BY <1>8, StopStep
<1> QED
  BY <1>1, <1>2, <1>3, <1>4, <1>5, <1>6, <1>7, <1>8, ThreadFacts
  DEF Next, Quiet, ThreadSocketHandler, ThreadMessageHandler, LoopStep, OpenNetworkConnection,
      Shutdown, Stopped

\* The inductive invariant holds in every state that can be reached.
THEOREM LifeInvariant == Spec => []IInv
<1> QED BY InitInv, NextInv, PTL DEF Spec

\* Every variable keeps its type; in particular no reference count of a node becomes
\* negative, which GetRefCount() asserts.
THEOREM LifeTypeOK == Spec => []TypeOK
<1>1. IInv => TypeOK
  BY DEF IInv
<1> QED BY <1>1, LifeInvariant, PTL

\* The reference count of a node that is not deleted is the number of its holders.
THEOREM LifeRefCountExact == Spec => []RefCountExact
<1>1. IInv => RefCountExact
  <2> SUFFICES ASSUME IInv, NEW n \in NodeIds \ deleted
               PROVE  nRefCount[n] = One(n \in vNodes \cup AllPending)
                        + One(n \in vNodesCopy["net"]) + One(n \in vNodesCopy["msghand"])
    BY DEF RefCountExact
  <2>1. n \in AllPending <=> IsPending(n)
    BY DEF AllPending, IsPending
  <2> QED BY <2>1 DEF IInv, Refs, One
<1> QED BY <1>1, LifeInvariant, PTL

\* No list, no opener and no loop ever has a node that was deleted.
THEOREM LifeNoUseAfterFree == Spec => []NoUseAfterFree
<1>1. IInv => NoUseAfterFree
  <2> SUFFICES ASSUME IInv PROVE NoUseAfterFree
    OBVIOUS
  <2>1. \A n : n \in AllPending <=> IsPending(n)
    BY DEF AllPending, IsPending
  <2>2. deleted \cap (vNodes \cup vNodesDisconnected \cup AllPending) = {}
    BY <2>1 DEF IInv, Places
  <2>3. \A t \in Copiers : pc[t] \in {"service", "release"} => deleted \cap vNodesCopy[t] = {}
    BY DEF IInv, Holding
  <2> QED BY <2>2, <2>3 DEF NoUseAfterFree
<1> QED BY <1>1, LifeInvariant, PTL

\* When Stop() has returned, every node ever created has been deleted.
THEOREM LifeStopFreesAll == Spec => []StopFreesAll
<1>1. IInv => StopFreesAll
  <2> SUFFICES ASSUME IInv, pc["main"] = "exited" PROVE created = deleted
    BY DEF StopFreesAll, At
  <2>1. \A n : ~IsPending(n)
    BY ThreadFacts DEF IInv, Ended, Holding, IsPending
  <2> QED BY <2>1 DEF IInv, Ended, Places
<1> QED BY <1>1, LifeInvariant, PTL

-----------------------------------------------------------------------------
(* The limit on inbound connections.  Only "net" creates inbound nodes,    *)
(* and it has pushed the last one before it counts again; whatever the     *)
(* openers and the disconnections do, the set that is counted only shrinks *)
(* between two calls of AcceptConnection.                                  *)

Counted == inbound \cap (vNodes \cup AllPending)

Inbounds ==
  /\ \A n \in inbound : n \in created
  /\ \A t \in Openers : \A n \in pending[t] : n \notin inbound
  /\ InboundLimit

\* What is counted is inbound and in vNodes, or held by "net".
LEMMA CountedIs ==
  ASSUME Inbounds
  PROVE  \A n : n \in Counted <=> n \in inbound /\ (n \in vNodes \/ n \in pending["net"])
BY ThreadFacts DEF Counted, AllPending, Inbounds

\* A set of connections that does not grow stays within the limit.
LEMMA LimitKept ==
  ASSUME TypeOK, InboundLimit, Counted' \subseteq Counted PROVE InboundLimit'
<1>1. IsFiniteSet(Counted)
  BY FS_Subset, LifeAssumption DEF Counted, TypeOK
<1>2. IsFiniteSet(Counted') /\ Cardinality(Counted') <= Cardinality(Counted)
  BY <1>1, FS_Subset
<1>3. Cardinality(Counted) \in Nat /\ Cardinality(Counted') \in Nat
  BY <1>1, <1>2, FS_CardinalityType
<1>4. Cardinality(Counted) <= IF MaxInbound > 0 THEN MaxInbound ELSE 0
  BY DEF InboundLimit, Counted
<1>5. Cardinality(Counted') <= IF MaxInbound > 0 THEN MaxInbound ELSE 0
  BY <1>2, <1>3, <1>4, LifeAssumption
<1> QED BY <1>5 DEF InboundLimit, Counted

\* AcceptConnection adds one to what it has counted below the limit.
LEMMA AcceptKeepsLimit ==
  ASSUME IInv, Inbounds, NEW n \in NodeIds, AcceptConnection(n) PROVE Inbounds'
<1> USE ThreadFacts
<1>1. /\ pc["net"] = "accept" /\ n \notin created /\ created' = created \cup {n}
      /\ pending' = [pending EXCEPT !["net"] = {n}] /\ inbound' = inbound \cup {n}
      /\ vNodes' = vNodes /\ Cardinality(vNodes \cap inbound) < MaxInbound
  BY DEF AcceptConnection, NewNode, At, lists
<1>2. pending["net"] = {}
  BY <1>1 DEF IInv, Holding
<1>3. /\ \A m \in inbound' : m \in created'
      /\ \A t \in Openers : \A m \in pending'[t] : m \notin inbound'
  BY <1>1 DEF IInv, TypeOK, Places, Inbounds
<1>4. Counted' = (vNodes \cap inbound) \cup {n}
  BY <1>1, <1>3 DEF IInv, TypeOK, Places, Inbounds, Counted, AllPending
<1>5. IsFiniteSet(vNodes \cap inbound)
  BY FS_Subset, LifeAssumption DEF IInv, TypeOK
<1>6. n \notin vNodes \cap inbound
  BY <1>1 DEF Inbounds
<1>7. Cardinality((vNodes \cap inbound) \cup {n}) = Cardinality(vNodes \cap inbound) + 1
  BY <1>5, <1>6, FS_AddElement
<1>8. Cardinality(vNodes \cap inbound) \in Nat
  BY <1>5, FS_CardinalityType
<1>9. Cardinality(Counted') <= IF MaxInbound > 0 THEN MaxInbound ELSE 0
  BY <1>1, <1>4, <1>7, <1>8, LifeAssumption
<1>10. InboundLimit'
  BY <1>9 DEF InboundLimit, Counted
<1> QED BY <1>3, <1>10 DEF Inbounds

\* No other step creates an inbound node or counts one twice.
LEMMA OthersKeepLimit ==
  ASSUME IInv, Inbounds, [Next]_vars, \A n \in NodeIds : ~AcceptConnection(n) PROVE Inbounds'
<1> USE ThreadFacts
<1>1. ASSUME inbound' = inbound, created \subseteq created',
             \A m \in vNodes' : m \in inbound => m \in vNodes \/ m \in pending["net"],
             \A m \in pending'["net"] : m \in pending["net"],
             \A t \in Openers : \A m \in pending'[t] : m \notin inbound
      PROVE  Inbounds'
  <2>1. Counted' \subseteq Counted
    BY <1>1, CountedIs DEF Counted, AllPending
  <2>2. InboundLimit'
    BY <2>1, LimitKept DEF IInv, Inbounds
  <2> QED BY <1>1, <2>2 DEF Inbounds
<1>2. CASE \E t \in Openers, n \in NodeIds : ConnectNode(t, n)
  BY <1>1, <1>2 DEF ConnectNode, NewNode, IInv, TypeOK, Inbounds, lists
<1>3. CASE \E t \in Openers : OpenPush(t)
  BY <1>1, <1>3 DEF OpenPush, PushBack, IInv, TypeOK, Inbounds
<1>4. CASE AcceptPush
  BY <1>1, <1>4 DEF AcceptPush, PushBack, IInv, TypeOK, Inbounds
<1>5. CASE UNCHANGED <<inbound, created, pending>> /\ vNodes' \subseteq vNodes
  BY <1>1, <1>5 DEF Inbounds
<1>6. CASE DisconnectNodes \/ Stop \/ (\E t \in Copiers : CopyNodes(t) \/ ReleaseNodes(t))
           \/ (\E D \in SUBSET vNodesDisconnected : DeleteDisconnected(D))
  BY <1>5, <1>6 DEF DisconnectNodes, Stop, CopyNodes, ReleaseNodes, DeleteDisconnected, lists
<1>7. CASE Quiet
  BY <1>5, <1>7 DEF Quiet, openTest, ConnectNodeFails, AcceptNothing, LoopInterrupted, ServiceNodes,
     DisconnectNode, SetNetworkActive, CloseNodes, InterruptMsgProc, InterruptNet, lists, vars
<1> QED
  BY <1>2, <1>3, <1>4, <1>6, <1>7
  DEF Next, Quiet, ThreadSocketHandler, ThreadMessageHandler, LoopStep, OpenNetworkConnection,
      Shutdown, Stopped

\* The inbound connections never exceed the share of nMaxConnections that is left to them,
\* although AcceptConnection counts and adds in two critical sections.
THEOREM LifeInboundLimit == Spec => []InboundLimit
<1>1. Init => Inbounds
  <2> SUFFICES ASSUME Init PROVE Inbounds
    OBVIOUS
  <2>1. inbound \cap (vNodes \cup AllPending) = {}
    BY DEF Init
  <2>2. InboundLimit
    BY <2>1, FS_EmptySet, LifeAssumption DEF InboundLimit
  <2> QED BY <2>2, ThreadFacts DEF Init, Inbounds
<1>2. IInv /\ Inbounds /\ [Next]_vars => Inbounds'
  BY AcceptKeepsLimit, OthersKeepLimit
<1>3. Inbounds => InboundLimit
  BY DEF Inbounds
<1> QED BY <1>1, <1>2, <1>3, LifeInvariant, PTL DEF Spec
=============================================================================
