---------------------------- MODULE SlotsProofs ----------------------------
(***************************************************************************)
(* No slot is lost and no limit exceeded, for any limits and any number of *)
(* connections: the inductive invariant of Slots, facts about the counts   *)
(* in it, and why the steps of every thread keep it.                       *)
(*                                                                         *)
(* The limits do not follow from the conservation of slots, because        *)
(* Interrupt() posts slots that were never there.  They hold because a     *)
(* grant taken from those cannot pass the interrupt test any more, so the  *)
(* invariant counts only the grants of nodes and that of an opener which   *)
(* is past the test (Limited).                                             *)
(***************************************************************************)
EXTENDS Slots, FiniteSetTheorems, TLAPS

OpenerOf(s) == IF s = "semOutbound" THEN "opencon" ELSE "addcon"
Held(s) == IF fHaveGrant[OpenerOf(s)] THEN 1 ELSE 0
Posted(s) == IF pc["main"] \in {"running", "post"} THEN 0 ELSE Posts(s)

\* Where each thread can be, and where an opener has or has not its grant.
Places ==
  /\ pc["main"] \in {"running", "post", "join", "exited"}
  /\ interruptNet <=> pc["main"] # "running"
  /\ pc["main"] = "exited" => pc["opencon"] = "exited" /\ pc["addcon"] = "exited"
  /\ pc["opencon"] \in {"loop", "oneShot", "sleep", "acquire", "exited"} => ~fHaveGrant["opencon"]
  /\ pc["opencon"] = "acquired" => fHaveGrant["opencon"]
  /\ pc["opencon"] \in {"openTest", "connectNode"} /\ (~connect \/ fOneShot) => fHaveGrant["opencon"]
  /\ fOneShot => pc["opencon"] \in {"openTest", "connectNode", "push"}
  /\ pc["addcon"] \in {"acquire", "exited"} => ~fHaveGrant["addcon"]
  /\ pc["addcon"] \in {"openTest", "connectNode"} => fHaveGrant["addcon"]

\* A node is created by one opener, and belongs to it until it is pushed.
Pending ==
  /\ \A t \in Openers : pending[t] # {} => pc[t] = "push"
  /\ \A t \in Openers : pending[t] \cap vNodes = {}
  /\ pending["opencon"] \cap pending["addcon"] = {}

\* Which semaphore's grant the nodes hold.
Grants ==
  /\ \A n \in NodeIds : grantOutbound[n] # "none" => n \in Open
  /\ \A n \in Open \ manual : grantOutbound[n] = "semOutbound"
  /\ ~connect => \A n \in Open \cap manual : grantOutbound[n] = "semAddnode"

Conserved ==
  \A s \in Sems : value[s] + Cardinality(Holders(s)) + Held(s) = Slots(s) + Posted(s)

Limited ==
  \A s \in Sems :
    Cardinality(Holders(s)) + (IF pc[OpenerOf(s)] = "connectNode" THEN Held(s) ELSE 0) <= Slots(s)

IInv == TypeOK /\ Places /\ Pending /\ Grants /\ Conserved /\ Limited

-----------------------------------------------------------------------------
(* Facts about the counts.                                                 *)

\* The limits of the semaphores and the posts of Interrupt() are natural numbers.
LEMMA SlotsNat == \A s \in Sems : Slots(s) \in Nat /\ Posts(s) \in Nat
BY LimitsAssumption DEF Sems, Slots, Posts

\* The nodes that hold a grant can be counted, ...
LEMMA HoldersNat ==
  \A s : IsFiniteSet(Holders(s)) /\ Cardinality(Holders(s)) \in Nat
<1> TAKE s
<1>1. Holders(s) \in SUBSET NodeIds
  BY DEF Holders
<1>2. QED  BY <1>1, LimitsAssumption, FS_Subset, FS_CardinalityType

\* ... before and after a step.
LEMMA HoldersNext ==
  \A s : IsFiniteSet(Holders(s)') /\ Cardinality(Holders(s)') \in Nat
<1> TAKE s
<1>1. Holders(s)' \in SUBSET NodeIds
  BY DEF Holders
<1>2. QED  BY <1>1, LimitsAssumption, FS_Subset, FS_CardinalityType

\* The open connections: those in vNodes and those an opener is about to add.
LEMMA OpenSet == Open = vNodes \cup pending["opencon"] \cup pending["addcon"]
BY DEF Open, Openers

\* Releasing the grants of S gives every semaphore what its holders in S had.
LEMMA ReleaseCount ==
  ASSUME TypeOK, NEW S, ReleaseGrants(S), NEW s \in Sems
  PROVE  /\ value'[s] \in Nat
         /\ value'[s] + Cardinality(Holders(s)') = value[s] + Cardinality(Holders(s))
         /\ Cardinality(Holders(s)') <= Cardinality(Holders(s))
<1>1. Holders(s)' = Holders(s) \ S
  BY DEF ReleaseGrants, Holders, Sems
<1>2. Cardinality(Holders(s)') = Cardinality(Holders(s)) - Cardinality(Holders(s) \cap S)
  BY <1>1, HoldersNat, FS_Difference
<1>3. Cardinality(Holders(s) \cap S) \in Nat
  BY HoldersNat, FS_Intersection, FS_CardinalityType
<1>4. value'[s] = value[s] + Cardinality(Holders(s) \cap S) /\ value[s] \in Nat
  BY DEF TypeOK, ReleaseGrants
<1>5. QED  BY <1>2, <1>3, <1>4, HoldersNat

\* The openers and semaphores as Start() creates them satisfy IInv.
THEOREM InitIInv == Init => IInv
<1> SUFFICES ASSUME Init PROVE IInv  OBVIOUS
<1>1. TypeOK
  BY SlotsNat DEF Init, TypeOK, Openers, Points
<1>2. Places
  BY DEF Init, Places, Openers
<1>3. Pending
  BY DEF Init, Pending, Openers
<1>4. Grants
  BY DEF Init, Grants, Open, Openers
<1>5. \A s \in Sems : Cardinality(Holders(s)) = 0
  <2>1. \A s \in Sems : Holders(s) = {}
    BY DEF Init, Holders, Sems
  <2>2. QED  BY <2>1, FS_EmptySet
<1>6. Conserved
  BY <1>5, SlotsNat DEF Init, Conserved, Held, OpenerOf, Posted, Openers
<1>7. Limited
  BY <1>5, SlotsNat DEF Init, Limited, Held, OpenerOf, Openers
<1>8. QED  BY <1>1, <1>2, <1>3, <1>4, <1>6, <1>7 DEF IInv

-----------------------------------------------------------------------------
(* The openers.                                                            *)

\* A step of an opener that leaves the nodes alone keeps IInv if it keeps the places in
\* order, takes or gives back slots one for one, and passes the interrupt test honestly.
LEMMA OpenerStep ==
  ASSUME IInv, NEW t \in Openers, NEW q \in Points,
         UNCHANGED <<nodeVars, flags>>, pc' = [pc EXCEPT ![t] = q],
         pc[t] # "push", TypeOK', Places',
         \A s \in Sems : value'[s] + Held(s)' = value[s] + Held(s),
         \A s \in Sems : OpenerOf(s) # t => Held(s)' = Held(s),
         q = "connectNode" => ~interruptNet /\ UNCHANGED <<value, fHaveGrant>>
  PROVE  IInv'
<1> USE DEF IInv
<1>1. Pending'
  BY DEF Pending, TypeOK, nodeVars, Openers
<1>2. Grants'
  BY DEF Grants, Open, nodeVars, flags
<1>3. \A s : Holders(s)' = Holders(s)
  BY DEF Holders, nodeVars
<1>4. pc'["main"] = pc["main"]
  BY DEF TypeOK, Openers
<1>5. Conserved'
  <2> SUFFICES ASSUME NEW s \in Sems
               PROVE  value'[s] + Cardinality(Holders(s)') + Held(s)' = Slots(s) + Posted(s)'
    BY DEF Conserved
  <2>1. value[s] + Cardinality(Holders(s)) + Held(s) = Slots(s) + Posted(s)
    BY DEF Conserved
  <2>2. Posted(s)' = Posted(s)
    BY <1>4 DEF Posted
  <2>3. value[s] \in Nat /\ value'[s] \in Nat /\ Held(s) \in Nat /\ Held(s)' \in Nat
    BY DEF TypeOK, Held
  <2>4. QED  BY <1>3, <2>1, <2>2, <2>3, HoldersNat
<1>6. Limited'
  <2> SUFFICES ASSUME NEW s \in Sems
               PROVE  Cardinality(Holders(s)')
                        + (IF pc'[OpenerOf(s)] = "connectNode" THEN Held(s)' ELSE 0) <= Slots(s)
    BY DEF Limited
  <2>1. Cardinality(Holders(s)) \in Nat /\ Held(s) \in {0, 1} /\ value[s] \in Nat
        /\ Slots(s) \in Nat
    BY HoldersNat, SlotsNat DEF Held, TypeOK
  <2>2. Cardinality(Holders(s))
          + (IF pc[OpenerOf(s)] = "connectNode" THEN Held(s) ELSE 0) <= Slots(s)
    BY DEF Limited
  <2>3. CASE OpenerOf(s) = t /\ q = "connectNode"
    <3>1. Posted(s) = 0 /\ Held(s)' = Held(s)
      BY <2>3 DEF Places, Posted, Held
    <3>2. Cardinality(Holders(s)) + Held(s) <= Slots(s)
      BY <2>1, <3>1 DEF Conserved
    <3>3. QED  BY <1>3, <2>1, <3>1, <3>2
  <2>4. CASE OpenerOf(s) = t /\ q # "connectNode"
    <3>1. pc'[OpenerOf(s)] # "connectNode"
      BY <2>4 DEF TypeOK
    <3>2. QED  BY <1>3, <2>1, <2>2, <3>1
  <2>5. CASE OpenerOf(s) # t
    <3>1. pc'[OpenerOf(s)] = pc[OpenerOf(s)]
      BY <2>5 DEF TypeOK, OpenerOf, Openers
    <3>2. Held(s)' = Held(s)
      BY <2>5
    <3>3. QED  BY <1>3, <2>2, <3>1, <3>2
  <2>6. QED  BY <2>3, <2>4, <2>5
<1>7. QED  BY <1>1, <1>2, <1>5, <1>6

\* What the two moves of a grant do to the slots.
Moved(t, have) ==
  /\ value' \in [Sems -> Nat] /\ fHaveGrant' = [fHaveGrant EXCEPT ![t] = have]
  /\ \A s \in Sems : value'[s] + Held(s)' = value[s] + Held(s)
  /\ \A s \in Sems : OpenerOf(s) # t => Held(s)' = Held(s)

\* An opener that takes a slot has one grant more, and the semaphore one less.
LEMMA TakeMoves ==
  ASSUME TypeOK, NEW t \in Openers, ~fHaveGrant[t], TakeGrant(t)
  PROVE  Moved(t, TRUE)
<1>1. SemOf(t) \in Sems /\ \A s \in Sems : OpenerOf(s) = t <=> s = SemOf(t)
  BY DEF SemOf, OpenerOf, Openers, Sems
<1>2. value' \in [Sems -> Nat] /\ fHaveGrant' = [fHaveGrant EXCEPT ![t] = TRUE]
  BY <1>1 DEF TypeOK, TakeGrant
<1>3. \A s \in Sems : OpenerOf(s) \in Openers
  BY DEF OpenerOf, Openers
<1>4. \A s \in Sems : OpenerOf(s) # t => Held(s)' = Held(s)
  BY <1>2, <1>3 DEF Held, TypeOK
<1>5. \A s \in Sems : value'[s] + Held(s)' = value[s] + Held(s)
  <2> TAKE s \in Sems
  <2>1. CASE s = SemOf(t)
    <3>1. Held(s) = 0 /\ Held(s)' = 1
      BY <1>1, <1>2, <2>1 DEF Held, TypeOK
    <3>2. value'[s] = value[s] - 1 /\ value[s] \in Nat
      BY <2>1 DEF TakeGrant, TypeOK
    <3>3. QED  BY <3>1, <3>2
  <2>2. CASE s # SemOf(t)
    <3>1. value'[s] = value[s]
      BY <2>2 DEF TakeGrant, TypeOK
    <3>2. QED  BY <1>1, <1>4, <2>2, <3>1
  <2>3. QED  BY <2>1, <2>2
<1>6. QED  BY <1>2, <1>4, <1>5 DEF Moved

\* An opener that destroys its grant gives back what it held.
LEMMA DropMoves ==
  ASSUME TypeOK, NEW t \in Openers, DropGrant(t)
  PROVE  Moved(t, FALSE)
<1>1. SemOf(t) \in Sems /\ \A s \in Sems : OpenerOf(s) = t <=> s = SemOf(t)
  BY DEF SemOf, OpenerOf, Openers, Sems
<1>2. value' \in [Sems -> Nat] /\ fHaveGrant' = [fHaveGrant EXCEPT ![t] = FALSE]
  BY <1>1 DEF TypeOK, DropGrant
<1>3. \A s \in Sems : OpenerOf(s) \in Openers
  BY DEF OpenerOf, Openers
<1>4. \A s \in Sems : OpenerOf(s) # t => Held(s)' = Held(s)
  BY <1>2, <1>3 DEF Held, TypeOK
<1>5. \A s \in Sems : value'[s] + Held(s)' = value[s] + Held(s)
  <2> TAKE s \in Sems
  <2>1. CASE s = SemOf(t)
    <3>1. Held(s) = (IF fHaveGrant[t] THEN 1 ELSE 0) /\ Held(s)' = 0
      BY <1>1, <1>2, <2>1 DEF Held, TypeOK
    <3>2. value'[s] = (IF fHaveGrant[t] THEN value[s] + 1 ELSE value[s]) /\ value[s] \in Nat
      BY <2>1 DEF DropGrant, TypeOK
    <3>3. QED  BY <3>1, <3>2
  <2>2. CASE s # SemOf(t)
    <3>1. value'[s] = value[s]
      BY <2>2 DEF DropGrant, TypeOK
    <3>2. QED  BY <1>1, <1>4, <2>2, <3>1
  <2>3. QED  BY <2>1, <2>2
<1>6. QED  BY <1>2, <1>4, <1>5 DEF Moved

\* An opener that touches no grant moves none.
LEMMA StayMoves ==
  ASSUME TypeOK, NEW t \in Openers, UNCHANGED <<value, fHaveGrant>>
  PROVE  Moved(t, fHaveGrant[t])
BY DEF Moved, TypeOK, Held

\* OpenerStep for the steps that also touch the one-shots: the places are what is left.
LEMMA OpenerMove ==
  ASSUME IInv, NEW t \in Openers, NEW q \in Points, NEW have \in BOOLEAN,
         UNCHANGED <<nodeVars, flags>>, pc' = [pc EXCEPT ![t] = q], pc[t] # "push",
         Moved(t, have), vOneShots' \in 0 .. MaxOneShots, fOneShot' \in BOOLEAN, Places',
         q = "connectNode" => ~interruptNet /\ UNCHANGED <<value, fHaveGrant>>
  PROVE  IInv'
<1>1. TypeOK'
  BY DEF IInv, TypeOK, Moved, nodeVars, flags
<1>2. QED  BY <1>1, OpenerStep DEF Moved

\* openLoop, ProcessOneShot, openSleep, openAcquire, openSelect
LEMMA OpenConnectionsKeep ==
  ASSUME IInv, openLoop \/ ProcessOneShot \/ openSleep \/ openAcquire \/ openSelect
  PROVE  IInv'
<1> USE DEF IInv
<1> "opencon" \in Openers  BY DEF Openers
<1>1. CASE openLoop
  <2>1. PICK q \in {"exited", "oneShot"} : pc' = [pc EXCEPT !["opencon"] = q]
    BY <1>1 DEF openLoop, Goto
  <2>2. Places'
    BY <1>1, <2>1 DEF Places, TypeOK, openLoop, At, flags, Openers
  <2>3. QED
    BY <1>1, <2>1, <2>2, StayMoves, OpenerMove DEF openLoop, At, TypeOK, Points, Openers
<1>2. CASE ProcessOneShot
  <2>1. vOneShots' \in 0 .. MaxOneShots
    BY <1>2, LimitsAssumption DEF ProcessOneShot, TypeOK
  <2>2. ~fHaveGrant["opencon"] /\ ~fOneShot
    BY <1>2 DEF ProcessOneShot, At, Places
  <2>3. CASE TakeGrant("opencon") /\ fOneShot' = TRUE /\ Goto("opencon", "openTest")
    <3>1. Moved("opencon", TRUE)
      BY <2>2, <2>3, TakeMoves
    <3>2. Places'
      BY <1>2, <2>3, <3>1 DEF Places, TypeOK, Moved, ProcessOneShot, At, Goto, flags, Openers
    <3>3. QED
      BY <1>2, <2>1, <2>3, <3>1, <3>2, OpenerMove DEF ProcessOneShot, At, Goto, Points
  <2>4. CASE Goto("opencon", IF connect THEN "openTest" ELSE "sleep")
             /\ UNCHANGED <<value, fHaveGrant, fOneShot>>
    <3>1. Places'
      BY <1>2, <2>2, <2>4 DEF Places, TypeOK, ProcessOneShot, At, Goto, flags, Openers
    <3>2. QED
      BY <1>2, <2>1, <2>4, <3>1, StayMoves, OpenerMove
      DEF ProcessOneShot, At, Goto, TypeOK, Points
  <2>5. QED  BY <1>2, <2>3, <2>4 DEF ProcessOneShot
<1>3. CASE openSleep
  <2>1. PICK q \in IF interruptNet THEN {"exited"}
                   ELSE IF connect THEN {"openTest", "loop"} ELSE {"acquire"} :
          pc' = [pc EXCEPT !["opencon"] = q]
    BY <1>3 DEF openSleep, Goto
  <2>2. Places'
    BY <1>3, <2>1 DEF Places, TypeOK, openSleep, At, flags, Openers
  <2>3. q \in Points /\ q # "connectNode"
    BY <2>1 DEF Points
  <2>4. QED
    BY <1>3, <2>1, <2>2, <2>3, StayMoves, OpenerMove DEF openSleep, At, TypeOK
<1>4. CASE openAcquire
  <2>1. Moved("opencon", TRUE)
    BY <1>4, TakeMoves DEF openAcquire, At, Places
  <2>2. Places'
    BY <1>4, <2>1 DEF Places, TypeOK, Moved, openAcquire, At, Goto, flags, Openers
  <2>3. QED
    BY <1>4, <2>1, <2>2, OpenerMove DEF openAcquire, At, Goto, TypeOK, Points
<1>5. CASE openSelect
  <2>1. CASE Goto("opencon", IF interruptNet THEN "exited" ELSE "loop") /\ DropGrant("opencon")
    <3>1. Moved("opencon", FALSE)
      BY <2>1, DropMoves
    <3>2. Places'
      BY <1>5, <2>1, <3>1 DEF Places, TypeOK, Moved, openSelect, At, Goto, flags, Openers
    <3>3. QED
      BY <1>5, <2>1, <3>1, <3>2, OpenerMove DEF openSelect, At, Goto, TypeOK, Points
  <2>2. CASE Goto("opencon", "openTest") /\ UNCHANGED <<value, fHaveGrant>>
    <3>1. Places'
      BY <1>5, <2>2 DEF Places, TypeOK, openSelect, At, Goto, flags, Openers
    <3>2. QED
      BY <1>5, <2>2, <3>1, StayMoves, OpenerMove DEF openSelect, At, Goto, TypeOK, Points
  <2>3. QED  BY <1>5, <2>1, <2>2 DEF openSelect
<1>6. QED  BY <1>1, <1>2, <1>3, <1>4, <1>5

\* addedAcquire, addedNext, addedSleep
LEMMA AddedConnectionsKeep ==
  ASSUME IInv, addedAcquire \/ addedNext \/ addedSleep
  PROVE  IInv'
<1> USE DEF IInv
<1> "addcon" \in Openers  BY DEF Openers
<1>1. CASE addedAcquire
  <2>1. Moved("addcon", TRUE)
    BY <1>1, TakeMoves DEF addedAcquire, At, Places
  <2>2. Places'
    BY <1>1, <2>1 DEF Places, TypeOK, Moved, addedAcquire, At, Goto, flags, Openers
  <2>3. QED
    BY <1>1, <2>1, <2>2, OpenerMove DEF addedAcquire, At, Goto, TypeOK, Points
<1>2. CASE addedNext
  <2>1. CASE Goto("addcon", "sleep") /\ UNCHANGED <<value, fHaveGrant>>
    <3>1. Places'
      BY <1>2, <2>1 DEF Places, TypeOK, addedNext, At, Goto, flags, Openers
    <3>2. QED
      BY <1>2, <2>1, <3>1, StayMoves, OpenerMove DEF addedNext, At, Goto, TypeOK, Points
  <2>2. CASE Goto("addcon", "openTest") /\ fHaveGrant["addcon"] /\ UNCHANGED <<value, fHaveGrant>>
    <3>1. Places'
      BY <1>2, <2>2 DEF Places, TypeOK, addedNext, At, Goto, flags, Openers
    <3>2. QED
      BY <1>2, <2>2, <3>1, StayMoves, OpenerMove DEF addedNext, At, Goto, TypeOK, Points
  <2>3. CASE Goto("addcon", "openTest") /\ ~fHaveGrant["addcon"] /\ TakeGrant("addcon")
    <3>1. Moved("addcon", TRUE)
      BY <2>3, TakeMoves
    <3>2. Places'
      BY <1>2, <2>3, <3>1 DEF Places, TypeOK, Moved, addedNext, At, Goto, flags, Openers
    <3>3. QED
      BY <1>2, <2>3, <3>1, <3>2, OpenerMove DEF addedNext, At, Goto, TypeOK, Points
  <2>4. QED  BY <1>2, <2>1, <2>2, <2>3 DEF addedNext
<1>3. CASE addedSleep
  <2>1. PICK q \in {"exited", "acquire", "added"} :
          /\ pc' = [pc EXCEPT !["addcon"] = q]
          /\ q = "added" <=> ~(interruptNet \/ At("addcon", "sleep"))
    BY <1>3 DEF addedSleep, Goto
  <2>2. q \in Points /\ q # "connectNode" /\ pc["addcon"] # "push"
    BY <1>3, <2>1 DEF Points, addedSleep, At
  <2>3. CASE q = "added"
    <3>1. UNCHANGED <<value, fHaveGrant>>
      BY <1>3, <2>1, <2>3 DEF addedSleep
    <3>2. Places'
      BY <1>3, <2>1, <2>3, <3>1 DEF Places, TypeOK, addedSleep, flags, Openers
    <3>3. QED
      BY <1>3, <2>1, <2>2, <3>1, <3>2, StayMoves, OpenerMove DEF addedSleep, TypeOK
  <2>4. CASE q # "added"
    <3>1. Moved("addcon", FALSE)
      BY <1>3, <2>1, <2>4, DropMoves DEF addedSleep
    <3>2. Places'
      <4>1. UNCHANGED <<fOneShot, flags>>
        BY <1>3 DEF addedSleep
      <4>2. ~fHaveGrant'["addcon"] /\ fHaveGrant'["opencon"] = fHaveGrant["opencon"]
        BY <3>1 DEF Moved, TypeOK, Openers
      <4>3. /\ pc'["addcon"] \in {"exited", "acquire"}
            /\ pc'["opencon"] = pc["opencon"] /\ pc'["main"] = pc["main"]
        BY <2>1, <2>4 DEF TypeOK, Openers
      <4>4. pc["main"] = "exited" => pc'["addcon"] = "exited"
        BY <1>3 DEF Places, addedSleep, At
      <4>5. QED  BY <4>1, <4>2, <4>3, <4>4 DEF Places, flags
    <3>3. QED
      BY <1>3, <2>1, <2>2, <2>4, <3>1, <3>2, OpenerMove DEF addedSleep, TypeOK
  <2>5. QED  BY <2>3, <2>4
<1>4. QED  BY <1>1, <1>2, <1>3

\* What the return from OpenNetworkConnection leaves, wherever it comes from.
LEMMA ReturnMoves ==
  ASSUME IInv, NEW t \in Openers, OpenReturn(t), pc[t] \in {"openTest", "connectNode", "push"}
  PROVE  /\ Moved(t, IF t = "addcon" THEN fHaveGrant[t] ELSE FALSE)
         /\ pc' = [pc EXCEPT ![t] = ReturnPoint(t)]
         /\ ReturnPoint(t) \in {"sleepAdded", "openTest", "sleep", "loop"}
         /\ Places'
<1> USE DEF IInv
<1>1. Moved(t, IF t = "addcon" THEN fHaveGrant[t] ELSE FALSE)
  BY StayMoves, DropMoves DEF OpenReturn
<1>2. ReturnPoint(t) \in {"sleepAdded", "openTest", "sleep", "loop"}
  BY DEF ReturnPoint
<1>3. CASE t = "addcon"
  <2>1. Places'
    BY <1>3 DEF Places, TypeOK, OpenReturn, ReturnPoint, Goto, flags, Openers
  <2>2. QED  BY <1>1, <1>2, <2>1 DEF OpenReturn, Goto
<1>4. CASE t = "opencon"
  <2>1. Places'
    BY <1>1, <1>4 DEF Places, TypeOK, Moved, OpenReturn, ReturnPoint, Goto, flags, Openers
  <2>2. QED  BY <1>1, <1>2, <2>1 DEF OpenReturn, Goto
<1>5. QED  BY <1>3, <1>4 DEF Openers

\* openTest and ConnectNodeFails
LEMMA OpenTestKeeps ==
  ASSUME IInv, NEW t \in Openers, openTest(t) \/ ConnectNodeFails(t)
  PROVE  IInv'
<1> USE DEF IInv
<1>1. CASE OpenReturn(t) /\ pc[t] \in {"openTest", "connectNode"} /\ UNCHANGED nodeVars
  <2>1. fOneShot' \in BOOLEAN /\ UNCHANGED flags /\ vOneShots' \in 0 .. MaxOneShots
    BY <1>1 DEF OpenReturn, TypeOK
  <2>2. ReturnPoint(t) \in Points /\ ReturnPoint(t) # "connectNode" /\ pc[t] # "push"
    BY <1>1, ReturnMoves DEF Points
  <2>3. (IF t = "addcon" THEN fHaveGrant[t] ELSE FALSE) \in BOOLEAN
    BY DEF TypeOK
  <2>4. QED  BY <1>1, <2>1, <2>2, <2>3, ReturnMoves, OpenerMove
<1>2. CASE /\ At(t, "openTest") /\ ~interruptNet /\ Goto(t, "connectNode")
           /\ UNCHANGED <<nodeVars, value, fHaveGrant, vOneShots, fOneShot, flags>>
  <2>1. Places'
    BY <1>2 DEF Places, TypeOK, At, Goto, flags, Openers
  <2>2. QED
    BY <1>2, <2>1, StayMoves, OpenerMove DEF At, Goto, TypeOK, Points
<1>3. QED  BY <1>1, <1>2 DEF openTest, ConnectNodeFails, At

\* The grant moves from the opener to the node it has created.
LEMMA ConnectNodeKeeps ==
  ASSUME IInv, NEW t \in Openers, NEW n \in NodeIds, ConnectNode(t, n)
  PROVE  IInv'
<1> USE DEF IInv
<1>0. /\ pc[t] = "connectNode" /\ n \notin vNodes /\ \A u \in Openers : n \notin pending[u]
      /\ UNCHANGED <<vNodes, value, vOneShots, fOneShot, flags>>
      /\ pc' = [pc EXCEPT ![t] = "push"] /\ fHaveGrant' = [fHaveGrant EXCEPT ![t] = FALSE]
  BY DEF ConnectNode, At, Goto
<1>1. TypeOK'
  BY <1>0 DEF TypeOK, ConnectNode, Goto, Points, flags, SemOf, Sems
<1>2. Places'
  BY <1>0 DEF Places, TypeOK, flags, Openers
<1>3. Pending'
  BY <1>0 DEF Pending, TypeOK, ConnectNode, Openers
<1>4. n \notin Open /\ grantOutbound[n] = "none"
  BY <1>0, OpenSet DEF Grants, Openers, TypeOK
<1>5. Open' = Open \cup {n}
  <2>1. Open' = vNodes' \cup pending'["opencon"] \cup pending'["addcon"]
    BY DEF Open, Openers
  <2>2. pending[t] = {}
    BY <1>0 DEF Pending
  <2>3. QED  BY <1>0, <2>1, <2>2, OpenSet DEF ConnectNode, TypeOK, Openers
<1>6. Grants'
  <2>1. grantOutbound'[n] = (IF fHaveGrant[t] THEN SemOf(t) ELSE "none")
        /\ \A m \in NodeIds : m # n => grantOutbound'[m] = grantOutbound[m]
    BY DEF ConnectNode, TypeOK
  <2>2. manual' = (IF t = "addcon" \/ (connect /\ ~fOneShot) THEN manual \cup {n} ELSE manual \ {n})
    BY DEF ConnectNode
  <2>3. t = "addcon" \/ ~connect \/ fOneShot => fHaveGrant[t]
    BY <1>0 DEF Places, Openers
  <2>4. Open \subseteq NodeIds
    BY OpenSet DEF TypeOK, Openers
  <2>5. \A m \in NodeIds : grantOutbound'[m] # "none" => m \in Open'
    BY <1>5, <2>1 DEF Grants
  <2>6. \A m \in Open' \ manual' : grantOutbound'[m] = "semOutbound"
    BY <1>5, <2>1, <2>2, <2>3, <2>4 DEF Grants, SemOf, Openers
  <2>7. connect' = connect
    BY <1>0 DEF flags
  <2>8. ~connect => \A m \in Open' \cap manual' : grantOutbound'[m] = "semAddnode"
    BY <1>5, <2>1, <2>2, <2>3, <2>4 DEF Grants, SemOf, Openers
  <2>9. QED  BY <2>5, <2>6, <2>7, <2>8 DEF Grants
<1>7. \A s \in Sems : /\ Held(s) \in {0, 1} /\ Held(s)' \in {0, 1}
                      /\ Cardinality(Holders(s)') + Held(s)' = Cardinality(Holders(s)) + Held(s)
                      /\ OpenerOf(s) # t => Held(s)' = Held(s)
                      /\ OpenerOf(s) = t => Held(s)' = 0
  <2> TAKE s \in Sems
  <2>1. OpenerOf(s) = t <=> s = SemOf(t)
    BY DEF OpenerOf, SemOf, Sems, Openers
  <2>2. CASE OpenerOf(s) = t /\ fHaveGrant[t]
    <3>1. Holders(s)' = Holders(s) \cup {n} /\ n \notin Holders(s)
      BY <1>4, <2>1, <2>2 DEF ConnectNode, Holders, TypeOK, Sems
    <3>2. Cardinality(Holders(s)') = Cardinality(Holders(s)) + 1
      BY <3>1, HoldersNat, FS_AddElement
    <3>3. Held(s) = 1 /\ Held(s)' = 0
      BY <1>0, <2>2 DEF Held, TypeOK
    <3>4. QED  BY <2>2, <3>2, <3>3, HoldersNat
  <2>3. CASE OpenerOf(s) # t \/ ~fHaveGrant[t]
    <3>1. Holders(s)' = Holders(s)
      BY <1>4, <2>1, <2>3 DEF ConnectNode, Holders, TypeOK, Sems
    <3>2. Held(s)' = Held(s) /\ Held(s) \in {0, 1} /\ (OpenerOf(s) = t => Held(s)' = 0)
      BY <1>0, <2>3 DEF Held, TypeOK, OpenerOf, Openers
    <3>3. QED  BY <3>1, <3>2
  <2>4. QED  BY <2>2, <2>3
<1>8. Conserved'
  <2> SUFFICES ASSUME NEW s \in Sems
               PROVE  value'[s] + Cardinality(Holders(s)') + Held(s)' = Slots(s) + Posted(s)'
    BY DEF Conserved
  <2>1. value[s] + Cardinality(Holders(s)) + Held(s) = Slots(s) + Posted(s)
    BY DEF Conserved
  <2>2. Posted(s)' = Posted(s)
    BY <1>0 DEF Posted, TypeOK, Openers
  <2>3. value[s] \in Nat /\ value' = value /\ Cardinality(Holders(s)') \in Nat
    BY <1>0, <1>1, HoldersNat, HoldersNext DEF TypeOK
  <2>4. QED  BY <1>7, <2>1, <2>2, <2>3, HoldersNat
<1>9. Limited'
  <2> SUFFICES ASSUME NEW s \in Sems
               PROVE  Cardinality(Holders(s)')
                        + (IF pc'[OpenerOf(s)] = "connectNode" THEN Held(s)' ELSE 0) <= Slots(s)
    BY DEF Limited
  <2>1. Cardinality(Holders(s))
          + (IF pc[OpenerOf(s)] = "connectNode" THEN Held(s) ELSE 0) <= Slots(s)
    BY DEF Limited
  <2>2. Cardinality(Holders(s)) \in Nat /\ Cardinality(Holders(s)') \in Nat /\ Slots(s) \in Nat
    BY HoldersNat, HoldersNext, SlotsNat
  <2>3. OpenerOf(s) # t => pc'[OpenerOf(s)] = pc[OpenerOf(s)]
    BY <1>0 DEF TypeOK, OpenerOf, Openers
  <2>4. OpenerOf(s) = t => pc[OpenerOf(s)] = "connectNode"
    BY <1>0
  <2>5. CASE OpenerOf(s) = t
    <3>1. pc'[OpenerOf(s)] # "connectNode"
      BY <1>0, <2>5 DEF TypeOK
    <3>2. Cardinality(Holders(s)) + Held(s) <= Slots(s)
      BY <2>1, <2>4, <2>5
    <3>3. /\ Held(s) \in {0, 1} /\ Held(s)' = 0
          /\ Cardinality(Holders(s)') + Held(s)' = Cardinality(Holders(s)) + Held(s)
      BY <1>7, <2>5
    <3>4. Cardinality(Holders(s)') <= Slots(s)
      <4> HIDE DEF IInv
      <4>1. QED  BY <2>2, <3>2, <3>3
    <3>5. QED  BY <2>2, <3>1, <3>4
  <2>6. CASE OpenerOf(s) # t
    <3>1. /\ Held(s) \in {0, 1} /\ Held(s)' = Held(s)
          /\ Cardinality(Holders(s)') + Held(s)' = Cardinality(Holders(s)) + Held(s)
      BY <1>7, <2>6
    <3>2. Cardinality(Holders(s)') = Cardinality(Holders(s))
      <4> HIDE DEF IInv
      <4>1. QED  BY <2>2, <3>1
    <3>3. QED  BY <2>1, <2>3, <2>6, <3>1, <3>2
  <2>7. QED  BY <2>5, <2>6
<1>10. QED  BY <1>1, <1>2, <1>3, <1>6, <1>8, <1>9

\* The node becomes visible; the set of open connections stays what it was.
LEMMA OpenPushKeeps ==
  ASSUME IInv, NEW t \in Openers, OpenPush(t)
  PROVE  IInv'
<1> USE DEF IInv
<1>0. /\ pc[t] = "push" /\ vNodes' = vNodes \cup pending[t]
      /\ pending' = [pending EXCEPT ![t] = {}]
      /\ UNCHANGED <<manual, grantOutbound, flags>> /\ OpenReturn(t)
  BY DEF OpenPush, At, OpenReturn
<1>1. /\ Moved(t, IF t = "addcon" THEN fHaveGrant[t] ELSE FALSE)
      /\ pc' = [pc EXCEPT ![t] = ReturnPoint(t)]
      /\ ReturnPoint(t) \in {"sleepAdded", "openTest", "sleep", "loop"}
      /\ Places'
  BY <1>0, ReturnMoves
<1>2. TypeOK'
  <2>1. /\ value' \in [Sems -> Nat] /\ fHaveGrant' \in [Openers -> BOOLEAN]
        /\ pc' \in [Openers \cup {"main"} -> Points]
    BY <1>1 DEF TypeOK, Moved, Points
  <2>2. /\ vNodes' \subseteq NodeIds /\ manual' \subseteq NodeIds
        /\ pending' \in [Openers -> SUBSET NodeIds]
        /\ grantOutbound' \in [NodeIds -> Sems \cup {"none"}]
    BY <1>0 DEF TypeOK
  <2>3. QED  BY <1>0, <2>1, <2>2 DEF TypeOK, OpenReturn, flags
<1>3. Pending'
  BY <1>0, <1>1 DEF Pending, TypeOK, Openers
<1>4. Open' = Open
  <2>1. Open' = vNodes' \cup pending'["opencon"] \cup pending'["addcon"]
    BY DEF Open, Openers
  <2>2. QED  BY <1>0, <2>1, OpenSet DEF TypeOK, Openers
<1>5. Grants'
  BY <1>0, <1>4 DEF Grants, flags
<1>6. \A s : Holders(s)' = Holders(s)
  BY <1>0 DEF Holders
<1>7. Conserved'
  <2> SUFFICES ASSUME NEW s \in Sems
               PROVE  value'[s] + Cardinality(Holders(s)') + Held(s)' = Slots(s) + Posted(s)'
    BY DEF Conserved
  <2>1. value[s] + Cardinality(Holders(s)) + Held(s) = Slots(s) + Posted(s)
    BY DEF Conserved
  <2>2. Posted(s)' = Posted(s)
    BY <1>1 DEF Posted, TypeOK, Openers
  <2>3. value[s] \in Nat /\ value'[s] \in Nat /\ Held(s) \in Nat /\ Held(s)' \in Nat
    BY <1>2 DEF TypeOK, Held
  <2>4. value'[s] + Held(s)' = value[s] + Held(s)
    BY <1>1 DEF Moved
  <2>5. Cardinality(Holders(s)') = Cardinality(Holders(s)) /\ Cardinality(Holders(s)) \in Nat
    BY <1>6, HoldersNat
  <2> HIDE DEF IInv
  <2>6. QED  BY <2>1, <2>2, <2>3, <2>4, <2>5
<1>8. Limited'
  <2> SUFFICES ASSUME NEW s \in Sems
               PROVE  Cardinality(Holders(s)')
                        + (IF pc'[OpenerOf(s)] = "connectNode" THEN Held(s)' ELSE 0) <= Slots(s)
    BY DEF Limited
  <2>1. Cardinality(Holders(s)) \in Nat /\ Held(s) \in {0, 1} /\ Slots(s) \in Nat
    BY HoldersNat, SlotsNat DEF Held
  <2>2. Cardinality(Holders(s))
          + (IF pc[OpenerOf(s)] = "connectNode" THEN Held(s) ELSE 0) <= Slots(s)
    BY DEF Limited
  <2>3. CASE OpenerOf(s) = t
    <3>1. pc'[OpenerOf(s)] # "connectNode"
      BY <1>1, <2>3 DEF TypeOK
    <3>2. QED  BY <1>6, <2>1, <2>2, <3>1
  <2>4. CASE OpenerOf(s) # t
    <3>1. pc'[OpenerOf(s)] = pc[OpenerOf(s)] /\ Held(s)' = Held(s)
      BY <1>1, <2>4 DEF TypeOK, Moved, OpenerOf, Openers
    <3>2. QED  BY <1>6, <2>2, <3>1
  <2>5. QED  BY <2>3, <2>4
<1>9. QED  BY <1>1, <1>2, <1>3, <1>5, <1>7, <1>8


(* The rest of the manager.                                                *)

\* Taking connections out of vNodes and releasing their grants, as the socket thread does
\* for some and Stop() for all.
LEMMA ReleaseKeeps ==
  ASSUME IInv, NEW S \in SUBSET vNodes, vNodes' = vNodes \ S, ReleaseGrants(S),
         UNCHANGED <<pending, manual, fHaveGrant, vOneShots, fOneShot, flags>>,
         pc' \in [Openers \cup {"main"} -> Points], Places',
         \A t \in Openers : pc'[t] = pc[t],
         pc["main"] \in {"running", "post"} <=> pc'["main"] \in {"running", "post"}
  PROVE  IInv'
<1> USE DEF IInv
<1>1. TypeOK'
  BY ReleaseCount DEF TypeOK, flags, ReleaseGrants
<1>2. Pending'
  BY DEF Pending, Openers
<1>3. Open' = Open \ S
  <2>1. Open' = vNodes' \cup pending'["opencon"] \cup pending'["addcon"]
    BY DEF Open, Openers
  <2>2. QED  BY <2>1, OpenSet DEF Pending, Openers
<1>4. Grants'
  <2>1. Open \subseteq NodeIds
    BY OpenSet DEF TypeOK, Openers
  <2>2. \A n \in NodeIds : grantOutbound'[n] = IF n \in S THEN "none" ELSE grantOutbound[n]
    BY DEF ReleaseGrants
  <2>3. QED  BY <1>3, <2>1, <2>2 DEF Grants, flags
<1>5. \A s \in Sems : Held(s)' = Held(s) /\ Held(s) \in {0, 1} /\ Posted(s)' = Posted(s)
  BY DEF Held, Posted
<1>6. Conserved'
  <2> SUFFICES ASSUME NEW s \in Sems
               PROVE  value'[s] + Cardinality(Holders(s)') + Held(s)' = Slots(s) + Posted(s)'
    BY DEF Conserved
  <2>1. value[s] + Cardinality(Holders(s)) + Held(s) = Slots(s) + Posted(s)
    BY DEF Conserved
  <2>2. value[s] \in Nat
    BY DEF TypeOK
  <2>3. QED  BY <1>5, <2>1, <2>2, ReleaseCount, HoldersNat, HoldersNext
<1>7. Limited'
  <2> SUFFICES ASSUME NEW s \in Sems
               PROVE  Cardinality(Holders(s)')
                        + (IF pc'[OpenerOf(s)] = "connectNode" THEN Held(s)' ELSE 0) <= Slots(s)
    BY DEF Limited
  <2>1. Cardinality(Holders(s))
          + (IF pc[OpenerOf(s)] = "connectNode" THEN Held(s) ELSE 0) <= Slots(s)
    BY DEF Limited
  <2>2. pc'[OpenerOf(s)] = pc[OpenerOf(s)]
    BY DEF OpenerOf, Openers
  <2>3. Slots(s) \in Nat
    BY SlotsNat
  <2>4. /\ Cardinality(Holders(s)') \in Nat /\ Cardinality(Holders(s)) \in Nat
        /\ Cardinality(Holders(s)') <= Cardinality(Holders(s))
    BY ReleaseCount, HoldersNat, HoldersNext
  <2>5. Held(s)' = Held(s) /\ Held(s) \in {0, 1}
    BY <1>5
  <2> HIDE DEF IInv
  <2>6. QED  BY <2>1, <2>2, <2>3, <2>4, <2>5
<1>8. QED  BY <1>1, <1>2, <1>4, <1>6, <1>7

\* AddOneShot, SetNetworkActive, InterruptNet and PostSemaphores: no connection and no grant
\* moves, and only the posts change a semaphore.
LEMMA ManagerKeeps ==
  ASSUME IInv, AddOneShot \/ SetNetworkActive \/ InterruptNet \/ PostSemaphores
  PROVE  IInv'
<1> USE DEF IInv
<1>0. /\ UNCHANGED <<vNodes, pending, manual, grantOutbound, fHaveGrant, connect, fOneShot>>
      /\ pc' \in [Openers \cup {"main"} -> Points] /\ \A t \in Openers : pc'[t] = pc[t]
  BY DEF AddOneShot, SetNetworkActive, InterruptNet, PostSemaphores, nodeVars, flags, Goto,
         TypeOK, Points, Openers
<1>1. /\ \A s \in Sems : value'[s] \in Nat /\ value'[s] + Posted(s) = value[s] + Posted(s)'
      /\ value' \in [Sems -> Nat]
  <2>1. CASE AddOneShot \/ SetNetworkActive
    BY <2>1 DEF AddOneShot, SetNetworkActive, TypeOK, Posted
  <2>2. CASE InterruptNet
    BY <2>2 DEF InterruptNet, At, Goto, TypeOK, Posted, Openers
  <2>3. CASE PostSemaphores
    <3>1. \A s \in Sems : value'[s] = value[s] + Posts(s) /\ value[s] \in Nat
      BY <2>3 DEF PostSemaphores, TypeOK
    <3>2. \A s \in Sems : Posted(s) = 0 /\ Posted(s)' = Posts(s)
      BY <2>3 DEF PostSemaphores, At, Goto, TypeOK, Posted, Openers
    <3>3. value' \in [Sems -> Nat]
      BY <2>3, <3>1, SlotsNat DEF PostSemaphores
    <3>4. QED  BY <3>1, <3>2, <3>3, SlotsNat
  <2>4. QED  BY <2>1, <2>2, <2>3
<1>2. TypeOK'
  <2>1. vOneShots' \in 0 .. MaxOneShots
    BY LimitsAssumption DEF AddOneShot, SetNetworkActive, InterruptNet, PostSemaphores, TypeOK
  <2>2. fNetworkActive' \in BOOLEAN /\ interruptNet' \in BOOLEAN
    BY DEF AddOneShot, SetNetworkActive, InterruptNet, PostSemaphores, TypeOK, flags
  <2>3. QED  BY <1>0, <1>1, <2>1, <2>2 DEF TypeOK
<1>3. Places'
  <2>1. /\ pc'["main"] \in {"running", "post", "join", "exited"}
        /\ interruptNet' <=> pc'["main"] # "running"
        /\ pc'["main"] = "exited" => pc["main"] = "exited"
    BY DEF AddOneShot, SetNetworkActive, InterruptNet, PostSemaphores, Places, TypeOK, At, Goto,
           flags, Openers
  <2>2. QED  BY <1>0, <2>1 DEF Places, Openers
<1>4. Pending'
  BY <1>0 DEF Pending
<1>5. Grants'
  BY <1>0 DEF Grants, Open
<1>6. \A s \in Sems : /\ Holders(s)' = Holders(s) /\ Held(s)' = Held(s) /\ Held(s) \in {0, 1}
                      /\ pc'[OpenerOf(s)] = pc[OpenerOf(s)]
  BY <1>0 DEF Holders, Held, OpenerOf, Openers
<1>7. Conserved'
  <2> SUFFICES ASSUME NEW s \in Sems
               PROVE  value'[s] + Cardinality(Holders(s)') + Held(s)' = Slots(s) + Posted(s)'
    BY DEF Conserved
  <2>1. value[s] + Cardinality(Holders(s)) + Held(s) = Slots(s) + Posted(s)
    BY DEF Conserved
  <2>2. /\ value[s] \in Nat /\ Slots(s) \in Nat
        /\ Posted(s) \in Nat /\ Posted(s)' \in Nat
    BY SlotsNat DEF TypeOK, Posted
  <2>3. Holders(s)' = Holders(s) /\ Held(s)' = Held(s) /\ Held(s) \in {0, 1}
    BY <1>6
  <2>4. Cardinality(Holders(s)) \in Nat /\ Cardinality(Holders(s)') = Cardinality(Holders(s))
    BY <2>3, HoldersNat
  <2>5. value'[s] \in Nat /\ value'[s] + Posted(s) = value[s] + Posted(s)'
    BY <1>1
  <2> HIDE DEF IInv
  <2>6. QED  BY <2>1, <2>2, <2>3, <2>4, <2>5
<1>8. Limited'
  BY <1>6 DEF Limited
<1>9. QED  BY <1>2, <1>3, <1>4, <1>5, <1>7, <1>8

\* IInv is inductive: every step of the openers, the socket thread and the main
\* thread keeps it.
THEOREM NextIInv == IInv /\ [Next]_vars => IInv'
<1> SUFFICES ASSUME IInv, [Next]_vars PROVE IInv'  OBVIOUS
<1>1. ASSUME NEW t \in Openers, OpenNetworkConnection(t) PROVE IInv'
  BY <1>1, OpenTestKeeps, ConnectNodeKeeps, OpenPushKeeps DEF OpenNetworkConnection
<1>2. CASE ThreadOpenConnections
  BY <1>1, <1>2, OpenConnectionsKeep DEF ThreadOpenConnections, Openers
<1>3. CASE ThreadOpenAddedConnections
  BY <1>1, <1>3, AddedConnectionsKeep DEF ThreadOpenAddedConnections, Openers
<1>4. ASSUME NEW D \in SUBSET vNodes, DisconnectNodes(D) PROVE IInv'
  <2>1. Places'
    BY <1>4 DEF IInv, Places, DisconnectNodes, flags
  <2>2. QED  BY <1>4, <2>1, ReleaseKeeps DEF DisconnectNodes, IInv, TypeOK
<1>5. CASE Stop
  <2>1. Places'
    BY <1>5 DEF IInv, Places, TypeOK, Stop, At, Goto, flags, Openers
  <2>2. /\ pc' \in [Openers \cup {"main"} -> Points] /\ \A t \in Openers : pc'[t] = pc[t]
        /\ pc["main"] = "join" /\ pc'["main"] = "exited"
    BY <1>5 DEF IInv, TypeOK, Stop, At, Goto, Points, Openers
  <2>3. vNodes' = vNodes \ vNodes
    BY <1>5 DEF Stop
  <2>4. QED  BY <1>5, <2>1, <2>2, <2>3, ReleaseKeeps DEF Stop
<1>6. CASE AddOneShot \/ SetNetworkActive \/ InterruptNet \/ PostSemaphores
  BY <1>6, ManagerKeeps
<1>7. CASE UNCHANGED vars
  <2> USE <1>7 DEF vars, nodeVars, flags
  <2>1. TypeOK' /\ Places' /\ Pending'
    BY DEF IInv, TypeOK, Places, Pending
  <2>2. Grants'
    BY DEF IInv, Grants, Open
  <2>3. Conserved' /\ Limited'
    BY DEF IInv, Conserved, Limited, Holders, Held, Posted
  <2>4. QED  BY <2>1, <2>2, <2>3 DEF IInv
<1>8. QED  BY <1>2, <1>3, <1>4, <1>5, <1>6, <1>7 DEF Next

\* IInv holds in every reachable state.
THEOREM AlwaysIInv == Spec => []IInv
BY InitIInv, NextIInv, PTL DEF Spec

\* No slot of a semaphore is lost or invented by any interleaving of the openers, the
\* socket thread and Interrupt()/Stop() (CSemaphoreGrant's moves and releases).
THEOREM SlotsTheorem == Spec => []SlotsConserved
<1>1. IInv => SlotsConserved
  <2> SUFFICES ASSUME IInv, NEW s \in Sems
               PROVE  value[s] + Cardinality(Holders(s))
                        + Cardinality({t \in Openers : SemOf(t) = s /\ fHaveGrant[t]})
                      = Slots(s) + Posted(s)
    BY DEF SlotsConserved, Posted
  <2>1. CASE fHaveGrant[OpenerOf(s)]
    <3>1. {t \in Openers : SemOf(t) = s /\ fHaveGrant[t]} = {OpenerOf(s)}
      BY <2>1 DEF Openers, SemOf, OpenerOf, Sems
    <3>2. QED  BY <2>1, <3>1, FS_Singleton DEF IInv, Conserved, Held
  <2>2. CASE ~fHaveGrant[OpenerOf(s)]
    <3>1. {t \in Openers : SemOf(t) = s /\ fHaveGrant[t]} = {}
      BY <2>2 DEF Openers, SemOf, OpenerOf, Sems
    <3>2. QED  BY <2>2, <3>1, FS_EmptySet DEF IInv, Conserved, Held
  <2>3. QED  BY <2>1, <2>2
<1>2. QED  BY <1>1, AlwaysIInv, PTL

\* The limits of CConnman::Options on automatic and added connections hold in every
\* interleaving, although Interrupt() posts the semaphores beyond them.
THEOREM LimitsTheorem == Spec => []ConnectionLimits
<1>1. IInv => ConnectionLimits
  <2> SUFFICES ASSUME IInv PROVE ConnectionLimits  OBVIOUS
  <2>1. \A s \in Sems : Cardinality(Holders(s)) <= Slots(s)
    <3> TAKE s \in Sems
    <3>1. Cardinality(Holders(s))
            + (IF pc[OpenerOf(s)] = "connectNode" THEN Held(s) ELSE 0) <= Slots(s)
      BY DEF IInv, Limited
    <3>2. Held(s) \in {0, 1} /\ Cardinality(Holders(s)) \in Nat /\ Slots(s) \in Nat
      BY HoldersNat, SlotsNat DEF Held
    <3>3. QED  BY <3>1, <3>2
  <2>2. Open \subseteq NodeIds
    BY OpenSet DEF IInv, TypeOK, Openers
  <2>3. Open \ manual \in SUBSET Holders("semOutbound")
    BY <2>2 DEF IInv, Grants, Holders
  <2>4. ~connect => Open \cap manual \in SUBSET Holders("semAddnode")
    BY <2>2 DEF IInv, Grants, Holders
  <2>5. /\ Cardinality(Open \ manual) \in Nat
        /\ Cardinality(Open \ manual) <= Cardinality(Holders("semOutbound"))
    BY <2>3, HoldersNat, FS_Subset, FS_CardinalityType
  <2>6. ~connect => /\ Cardinality(Open \cap manual) \in Nat
                    /\ Cardinality(Open \cap manual) <= Cardinality(Holders("semAddnode"))
    BY <2>4, HoldersNat, FS_Subset, FS_CardinalityType
  <2>7. Slots("semAddnode") = MaxAddnode
    BY DEF Slots
  <2>8. QED
    BY <2>1, <2>5, <2>6, <2>7, HoldersNat, SlotsNat DEF ConnectionLimits, Sems
<1>2. QED  BY <1>1, AlwaysIInv, PTL

\* When Stop() destroys the semaphores no grant is left that would post them.
THEOREM StopTheorem == Spec => []NoGrantOutlivesStop
<1> DEFINE Emptied == pc["main"] = "exited" => vNodes = {}
<1>1. Init => Emptied
  BY DEF Init
<1>2. IInv /\ Emptied /\ [Next]_vars => Emptied'
  <2> SUFFICES ASSUME IInv, Emptied, [Next]_vars, pc'["main"] = "exited" PROVE vNodes' = {}
    OBVIOUS
  <2>1. CASE pc["main"] = "exited"
    <3>1. pc["opencon"] = "exited" /\ pc["addcon"] = "exited"
      BY <2>1 DEF IInv, Places
    <3>2. ~ThreadOpenConnections /\ ~ThreadOpenAddedConnections
      BY <3>1 DEF ThreadOpenConnections, ThreadOpenAddedConnections, openLoop, ProcessOneShot,
           openSleep, openAcquire, openSelect, addedAcquire, addedNext, addedSleep,
           OpenNetworkConnection, openTest, ConnectNodeFails, ConnectNode, OpenPush, At
    <3>3. QED
      BY <2>1, <3>2 DEF Next, DisconnectNodes, AddOneShot, SetNetworkActive, InterruptNet,
           PostSemaphores, Stop, vars, nodeVars, At
  <2>2. CASE pc["main"] # "exited"
    <3>1. pc["main"] \in {"running", "post", "join"}
      BY <2>2 DEF IInv, Places
    <3>2. ThreadOpenConnections \/ ThreadOpenAddedConnections => pc'["main"] = pc["main"]
      BY DEF ThreadOpenConnections, ThreadOpenAddedConnections, openLoop, ProcessOneShot,
           openSleep, openAcquire, openSelect, addedAcquire, addedNext, addedSleep,
           OpenNetworkConnection, openTest, ConnectNodeFails, ConnectNode, OpenPush, OpenReturn,
           Goto, IInv, TypeOK, Openers
    <3>3. ~InterruptNet /\ ~PostSemaphores
      BY <3>1 DEF InterruptNet, PostSemaphores, Goto, IInv, TypeOK, Openers
    <3>4. QED
      BY <2>2, <3>2, <3>3 DEF Next, DisconnectNodes, AddOneShot, SetNetworkActive, Stop, vars
  <2>3. QED  BY <2>1, <2>2
<1>3. IInv /\ Emptied => NoGrantOutlivesStop
  <2> SUFFICES ASSUME IInv, Emptied, pc["main"] = "exited"
               PROVE  (\A n \in NodeIds : grantOutbound[n] = "none")
                        /\ (\A t \in Openers : ~fHaveGrant[t])
    BY DEF NoGrantOutlivesStop, At
  <2>1. pc["opencon"] = "exited" /\ pc["addcon"] = "exited"
    BY DEF IInv, Places
  <2>2. Open = {}
    BY <2>1, OpenSet DEF IInv, Pending, Openers
  <2>3. QED  BY <2>1, <2>2 DEF IInv, Grants, Places, Openers
<1> QED  BY <1>1, <1>2, <1>3, AlwaysIInv, PTL DEF Spec
=============================================================================
