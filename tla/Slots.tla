------------------------------- MODULE Slots -------------------------------
(***************************************************************************)
(* Connection slots: the threads ThreadOpenConnections ("opencon") and     *)
(* ThreadOpenAddedConnections ("addcon") of baseservice/transport/net.cpp, *)
(* the semaphores semOutbound and semAddnode they draw on (CSemaphore and  *)
(* CSemaphoreGrant of deps/sync.h), and Interrupt() and Stop().            *)
(*                                                                         *)
(* Addresses are left out: whether a candidate is already connected,       *)
(* banned, unreachable or absent is a choice.  A CNode here is only the    *)
(* holder of a grant, so its identity is reused once it has been           *)
(* disconnected; module NodeLife follows it to its deletion.               *)
(***************************************************************************)
EXTENDS Integers, FiniteSets

CONSTANTS
  NodeIds,         \* connections that can be open at a time
  MaxConnections,  \* nMaxConnections
  MaxOutbound,     \* nMaxOutbound, after Init has cut it to nMaxConnections
  MaxFeeler,       \* nMaxFeeler
  MaxAddnode,      \* nMaxAddnode
  MaxOneShots      \* bound: how many one-shot destinations wait at a time

ASSUME LimitsAssumption ==
  /\ MaxConnections \in Nat /\ MaxOutbound \in Nat /\ MaxFeeler \in Nat
  /\ MaxAddnode \in Nat /\ MaxOneShots \in Nat
  /\ MaxOutbound <= MaxConnections
  /\ IsFiniteSet(NodeIds)

Openers == {"opencon", "addcon"}
Sems == {"semOutbound", "semAddnode"}

SemOf(t) == IF t = "opencon" THEN "semOutbound" ELSE "semAddnode"

\* The value a semaphore starts with, and how often Interrupt() posts it.
Slots(s) ==
  IF s = "semAddnode" THEN MaxAddnode
  ELSE IF MaxOutbound + MaxFeeler <= MaxConnections
       THEN MaxOutbound + MaxFeeler ELSE MaxConnections

Posts(s) == IF s = "semAddnode" THEN MaxAddnode ELSE MaxOutbound + MaxFeeler

VARIABLES
  vNodes,         \* the connections of vNodes that were opened from here
  pending,        \* the node an opener has created and not yet added to vNodes
  manual,         \* nodes with m_manual_connection
  grantOutbound,  \* the semaphore whose grant a node holds, or "none"
  value,          \* CSemaphore::value of each semaphore
  fHaveGrant,     \* whether an opener's local grant is held
  vOneShots,      \* number of queued one-shot destinations
  fOneShot,       \* whether "opencon" is inside ProcessOneShot
  connect,        \* TRUE iff -connect destinations were given
  fNetworkActive, interruptNet,
  pc              \* where the two openers and the main thread are

nodeVars == <<vNodes, pending, manual, grantOutbound>>
flags == <<connect, fNetworkActive, interruptNet>>
vars == <<nodeVars, value, fHaveGrant, vOneShots, fOneShot, flags, pc>>

Points ==
  {"loop", "oneShot", "sleep", "acquire", "acquired", "added", "openTest", "connectNode", "push",
   "sleepAdded", "running", "post", "join", "exited"}

TypeOK ==
  /\ vNodes \subseteq NodeIds /\ manual \subseteq NodeIds
  /\ pending \in [Openers -> SUBSET NodeIds]
  /\ grantOutbound \in [NodeIds -> Sems \cup {"none"}]
  /\ value \in [Sems -> Nat]
  /\ fHaveGrant \in [Openers -> BOOLEAN]
  /\ vOneShots \in 0 .. MaxOneShots
  /\ fOneShot \in BOOLEAN /\ connect \in BOOLEAN
  /\ fNetworkActive \in BOOLEAN /\ interruptNet \in BOOLEAN
  /\ pc \in [Openers \cup {"main"} -> Points]

\* The state in which Start() leaves the manager, its threads about to run.
Init ==
  /\ vNodes = {} /\ manual = {}
  /\ pending = [t \in Openers |-> {}]
  /\ grantOutbound = [n \in NodeIds |-> "none"]
  /\ value = [s \in Sems |-> Slots(s)]
  /\ fHaveGrant = [t \in Openers |-> FALSE]
  /\ vOneShots \in 0 .. MaxOneShots
  /\ fOneShot = FALSE
  /\ connect \in BOOLEAN
  /\ fNetworkActive = TRUE /\ interruptNet = FALSE
  /\ pc = [t \in Openers \cup {"main"} |->
             IF t = "opencon" THEN "loop" ELSE IF t = "addcon" THEN "acquire" ELSE "running"]

At(t, p) == pc[t] = p
Goto(t, p) == pc' = [pc EXCEPT ![t] = p]

-----------------------------------------------------------------------------
(* CSemaphoreGrant.                                                        *)

Holders(s) == {n \in NodeIds : grantOutbound[n] = s}

\* Mutated form: the semaphore is not posted.
LoseGrants(S) ==
  /\ UNCHANGED value
  /\ grantOutbound' = [n \in NodeIds |-> IF n \in S THEN "none" ELSE grantOutbound[n]]

\* grantOutbound.Release() of every node in S.
ReleaseGrants(S) ==
  /\ value' = [s \in Sems |-> value[s] + Cardinality(Holders(s) \cap S)]
  /\ grantOutbound' = [n \in NodeIds |-> IF n \in S THEN "none" ELSE grantOutbound[n]]

\* The opener's own grant goes out of scope.
DropGrant(t) ==
  /\ value' = [value EXCEPT ![SemOf(t)] = IF fHaveGrant[t] THEN @ + 1 ELSE @]
  /\ fHaveGrant' = [fHaveGrant EXCEPT ![t] = FALSE]

\* Mutated form: wait() lets a thread through a semaphore that has nothing left.
TakeAnyway(t) ==
  /\ value' = [value EXCEPT ![SemOf(t)] = @ - 1]
  /\ fHaveGrant' = [fHaveGrant EXCEPT ![t] = TRUE]

\* Acquire() and a successful TryAcquire().
TakeGrant(t) ==
  /\ value[SemOf(t)] >= 1
  /\ value' = [value EXCEPT ![SemOf(t)] = @ - 1]
  /\ fHaveGrant' = [fHaveGrant EXCEPT ![t] = TRUE]

-----------------------------------------------------------------------------
(* OpenNetworkConnection, as called by the two opener threads.             *)

\* Where the call returns to.  The -connect loop pauses between destinations (in its
\* first round only after the last one, which makes no difference to anybody).
ReturnPoint(t) ==
  IF t = "addcon" THEN "sleepAdded"
  ELSE IF connect THEN (IF fOneShot THEN "openTest" ELSE "sleep")
  ELSE IF fOneShot THEN "sleep" ELSE "loop"

\* A grant that is still here dies with its scope: the call for ProcessOneShot, the
\* iteration of the loop for ThreadOpenConnections.  ThreadOpenAddedConnections keeps it.
OpenReturn(t) ==
  /\ Goto(t, ReturnPoint(t))
  /\ fOneShot' = (fOneShot /\ t # "opencon")
  /\ IF t = "addcon" THEN UNCHANGED <<value, fHaveGrant>> ELSE DropGrant(t)
  /\ UNCHANGED <<vOneShots, flags>>

\* The early returns: interrupted, network inactive, or the destination is local, already
\* connected or banned.
openTest(t) ==
  /\ At(t, "openTest")
  /\ \/ OpenReturn(t)
     \/ /\ ~interruptNet /\ fNetworkActive
        /\ Goto(t, "connectNode")
        /\ UNCHANGED <<value, fHaveGrant, vOneShots, fOneShot, flags>>
  /\ UNCHANGED nodeVars

ConnectNodeFails(t) ==
  /\ At(t, "connectNode")
  /\ OpenReturn(t)
  /\ UNCHANGED nodeVars

\* Mutated form: the grant is copied to the node and stays with the opener.
ConnectNodeCopiesGrant(t, n) ==
  /\ At(t, "connectNode")
  /\ n \notin vNodes /\ \A u \in Openers : n \notin pending[u]
  /\ pending' = [pending EXCEPT ![t] = {n}]
  /\ manual' = IF t = "addcon" \/ (connect /\ ~fOneShot) THEN manual \cup {n} ELSE manual \ {n}
  /\ grantOutbound' = [grantOutbound EXCEPT ![n] = IF fHaveGrant[t] THEN SemOf(t) ELSE "none"]
  /\ Goto(t, "push")
  /\ UNCHANGED <<vNodes, value, fHaveGrant, vOneShots, fOneShot, flags>>

\* ConnectNode returns a node; grantOutbound->MoveTo(pnode->grantOutbound).
ConnectNode(t, n) ==
  /\ At(t, "connectNode")
  /\ n \notin vNodes /\ \A u \in Openers : n \notin pending[u]
  /\ pending' = [pending EXCEPT ![t] = {n}]
  /\ manual' = IF t = "addcon" \/ (connect /\ ~fOneShot) THEN manual \cup {n} ELSE manual \ {n}
  /\ grantOutbound' = [grantOutbound EXCEPT ![n] = IF fHaveGrant[t] THEN SemOf(t) ELSE "none"]
  /\ fHaveGrant' = [fHaveGrant EXCEPT ![t] = FALSE]
  /\ Goto(t, "push")
  /\ UNCHANGED <<vNodes, value, vOneShots, fOneShot, flags>>

OpenPush(t) ==
  /\ At(t, "push")
  /\ vNodes' = vNodes \cup pending[t]
  /\ pending' = [pending EXCEPT ![t] = {}]
  /\ OpenReturn(t)
  /\ UNCHANGED <<manual, grantOutbound>>

OpenNetworkConnection(t) ==
  openTest(t) \/ ConnectNodeFails(t) \/ (\E n \in NodeIds : ConnectNode(t, n)) \/ OpenPush(t)

-----------------------------------------------------------------------------
(* ThreadOpenConnections.                                                  *)

openLoop ==
  /\ At("opencon", "loop")
  /\ Goto("opencon", IF interruptNet /\ ~connect THEN "exited" ELSE "oneShot")
  /\ UNCHANGED <<nodeVars, value, fHaveGrant, vOneShots, fOneShot, flags>>

\* The destination is popped first, and lost when no slot is free.
ProcessOneShot ==
  /\ At("opencon", "oneShot")
  /\ vOneShots' = IF vOneShots = 0 THEN 0 ELSE vOneShots - 1
  /\ IF vOneShots > 0 /\ value["semOutbound"] >= 1
     THEN /\ TakeGrant("opencon")
          /\ fOneShot' = TRUE
          /\ Goto("opencon", "openTest")
     ELSE /\ Goto("opencon", IF connect THEN "openTest" ELSE "sleep")
          /\ UNCHANGED <<value, fHaveGrant, fOneShot>>
  /\ UNCHANGED <<nodeVars, flags>>

\* With -connect, on to the next destination or to the next round.
openSleep ==
  /\ At("opencon", "sleep")
  /\ \E p \in IF interruptNet THEN {"exited"}
              ELSE IF connect THEN {"openTest", "loop"} ELSE {"acquire"} : Goto("opencon", p)
  /\ UNCHANGED <<nodeVars, value, fHaveGrant, vOneShots, fOneShot, flags>>

\* CSemaphoreGrant grant(*semOutbound).
openAcquire ==
  /\ At("opencon", "acquire")
  /\ TakeGrant("opencon")
  /\ Goto("opencon", "acquired")
  /\ UNCHANGED <<nodeVars, vOneShots, fOneShot, flags>>

\* Interrupted, nothing to connect to (or no feeler due), or an address was selected.
openSelect ==
  /\ At("opencon", "acquired")
  /\ \/ Goto("opencon", IF interruptNet THEN "exited" ELSE "loop") /\ DropGrant("opencon")
     \/ ~interruptNet /\ Goto("opencon", "openTest") /\ UNCHANGED <<value, fHaveGrant>>
  /\ UNCHANGED <<nodeVars, vOneShots, fOneShot, flags>>

ThreadOpenConnections ==
  \/ openLoop \/ ProcessOneShot \/ openSleep \/ openAcquire \/ openSelect
  \/ OpenNetworkConnection("opencon")

-----------------------------------------------------------------------------
(* ThreadOpenAddedConnections.                                             *)

\* CSemaphoreGrant grant(*semAddnode).
addedAcquire ==
  /\ At("addcon", "acquire")
  /\ TakeGrant("addcon")
  /\ Goto("addcon", "added")
  /\ UNCHANGED <<nodeVars, vOneShots, fOneShot, flags>>

\* The next added node that is not connected, if there is one and a slot can be had.
addedNext ==
  /\ At("addcon", "added")
  /\ \/ Goto("addcon", "sleep") /\ UNCHANGED <<value, fHaveGrant>>
     \/ /\ Goto("addcon", "openTest")
        /\ IF fHaveGrant["addcon"] THEN UNCHANGED <<value, fHaveGrant>> ELSE TakeGrant("addcon")
  /\ UNCHANGED <<nodeVars, vOneShots, fOneShot, flags>>

\* The pause after an attempt keeps the grant, the one that ends the iteration drops it.
addedSleep ==
  /\ At("addcon", "sleep") \/ At("addcon", "sleepAdded")
  /\ Goto("addcon", IF interruptNet THEN "exited"
                    ELSE IF At("addcon", "sleep") THEN "acquire" ELSE "added")
  /\ IF interruptNet \/ At("addcon", "sleep")
     THEN DropGrant("addcon") ELSE UNCHANGED <<value, fHaveGrant>>
  /\ UNCHANGED <<nodeVars, vOneShots, fOneShot, flags>>

ThreadOpenAddedConnections ==
  addedAcquire \/ addedNext \/ addedSleep \/ OpenNetworkConnection("addcon")

-----------------------------------------------------------------------------
(* The rest of the manager.                                                *)

\* ThreadSocketHandler takes nodes marked fDisconnect out of vNodes and releases their
\* grants.  It is joined last, so it may still do so while the openers are shutting down.
DisconnectNodes(D) ==
  /\ pc["main"] # "exited"
  /\ D # {} /\ vNodes' = vNodes \ D
  /\ ReleaseGrants(D)
  /\ UNCHANGED <<pending, manual, fHaveGrant, vOneShots, fOneShot, flags, pc>>

AddOneShot ==
  /\ vOneShots < MaxOneShots
  /\ vOneShots' = vOneShots + 1
  /\ UNCHANGED <<nodeVars, value, fHaveGrant, fOneShot, flags, pc>>

SetNetworkActive ==
  /\ fNetworkActive' = ~fNetworkActive
  /\ UNCHANGED <<nodeVars, value, fHaveGrant, vOneShots, fOneShot, connect, interruptNet, pc>>

\* interruptNet() wakes the sleepers; the posts wake whoever waits for a slot.
InterruptNet ==
  /\ At("main", "running")
  /\ interruptNet' = TRUE
  /\ Goto("main", "post")
  /\ UNCHANGED <<nodeVars, value, fHaveGrant, vOneShots, fOneShot, connect, fNetworkActive>>

\* Mutated form: semAddnode is not posted.
PostOutboundOnly ==
  /\ At("main", "post")
  /\ value' = [value EXCEPT !["semOutbound"] = @ + Posts("semOutbound")]
  /\ Goto("main", "join")
  /\ UNCHANGED <<nodeVars, fHaveGrant, vOneShots, fOneShot, flags>>

PostSemaphores ==
  /\ At("main", "post")
  /\ value' = [s \in Sems |-> value[s] + Posts(s)]
  /\ Goto("main", "join")
  /\ UNCHANGED <<nodeVars, fHaveGrant, vOneShots, fOneShot, flags>>

\* Mutated form: ThreadOpenAddedConnections is not joined.
StopJoinsOne ==
  /\ At("main", "join")
  /\ At("opencon", "exited")
  /\ vNodes' = {}
  /\ ReleaseGrants(vNodes)
  /\ Goto("main", "exited")
  /\ UNCHANGED <<pending, manual, fHaveGrant, vOneShots, fOneShot, flags>>

\* Stop(): joins the threads, deletes the nodes (the destructor of a grant releases it) and
\* only then destroys the semaphores.
Stop ==
  /\ At("main", "join")
  /\ \A t \in Openers : At(t, "exited")
  /\ vNodes' = {}
  /\ ReleaseGrants(vNodes)
  /\ Goto("main", "exited")
  /\ UNCHANGED <<pending, manual, fHaveGrant, vOneShots, fOneShot, flags>>

Next ==
  \/ ThreadOpenConnections \/ ThreadOpenAddedConnections
  \/ \E D \in SUBSET vNodes : DisconnectNodes(D)
  \/ AddOneShot \/ SetNetworkActive
  \/ InterruptNet \/ PostSemaphores \/ Stop

Spec == Init /\ [][Next]_vars

\* Each thread runs when it can (sleeps and connects are timed, and it is the only one to
\* wait for its semaphore), and an Interrupt() that has begun is followed by Stop().
Fairness ==
  /\ WF_vars(ThreadOpenConnections) /\ WF_vars(ThreadOpenAddedConnections)
  /\ WF_vars(PostSemaphores \/ Stop)

FairSpec == Spec /\ Fairness

-----------------------------------------------------------------------------
(* Properties.                                                             *)

Open == vNodes \cup UNION {pending[t] : t \in Openers}

\* No connection slot is lost or invented: free slots, grants held by nodes and grants held
\* by the opener threads add up to what the semaphore started with and Interrupt() posted.
SlotsConserved ==
  \A s \in Sems :
    value[s] + Cardinality(Holders(s))
             + Cardinality({t \in Openers : SemOf(t) = s /\ fHaveGrant[t]})
      = Slots(s) + (IF pc["main"] \in {"running", "post"} THEN 0 ELSE Posts(s))

\* The limits that Options asks for hold in every interleaving, Interrupt()'s extra posts
\* included: automatic outbound connections, and (without -connect) added ones.
ConnectionLimits ==
  /\ Cardinality(Open \ manual) <= Slots("semOutbound")
  /\ ~connect => Cardinality(Open \cap manual) <= MaxAddnode

\* Stop() destroys the semaphores only when no grant is left that would post them.
NoGrantOutlivesStop ==
  At("main", "exited") =>
    (\A n \in NodeIds : grantOutbound[n] = "none") /\ (\A t \in Openers : ~fHaveGrant[t])

\* Interrupt() followed by Stop() returns: an opener notices whether it sleeps, waits for a
\* slot that nobody would give back, or connects.
ShutdownCompletes ==
  At("main", "post") ~> At("main", "exited")
=============================================================================
