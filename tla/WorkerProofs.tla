---------------------------- MODULE WorkerProofs ----------------------------
(***************************************************************************)
(* Proofs about Worker for every set of owners and stoppers, and, where    *)
(* the code needs it, for a worker that has a single owner.                *)
(***************************************************************************)
EXTENDS Worker, TLAPS

\* The thread exists exactly while m_work is set, only a killed thread has ended, and
\* only the owner that joined it is about to reset m_work.
ThreadLifetime ==
  /\ m_work <=> tpc # "none"
  /\ tpc \in {"exited", "joined"} => m_state = "Killing"
  /\ \A c \in Controllers : cpc[c] = "reset" => tpc = "joined"
  /\ \A c, d \in Controllers : cpc[c] = "reset" /\ cpc[d] = "reset" => c = d

\* A stop is requested only while the thread has a session of work to end.
StoppingMeansAlive ==
  m_state = "Stopping" => tpc \in InCallback \cup {"notifyStarted", "setStopped"}

IInv ==
  /\ TypeOK
  /\ ThreadLifetime
  /\ StoppedMeansIdle
  /\ StartedMeansAlive
  /\ StoppingMeansAlive

\* notify_all keeps every thread at one of its program points, and moves nobody to or
\* from the reset of m_work or a call's entry.
LEMMA WokenFacts ==
  ASSUME TypeOK
  PROVE  /\ Woken \in [Controllers -> ControllerPoint]
         /\ WokenThread \in ThreadPoint
         /\ \A c \in Controllers :
              \A p \in {"idle", "reset"} : Woken[c] = p <=> cpc[c] = p
<1>1. \A c \in Controllers : cpc[c] \in ControllerPoint
  BY DEF TypeOK
<1>2. Woken \in [Controllers -> ControllerPoint]
  BY <1>1 DEF Woken, WakeController, ControllerPoint
<1>3. WokenThread \in ThreadPoint
  BY DEF TypeOK, WokenThread, ThreadPoint, InCallback
<1> QED
  BY <1>1, <1>2, <1>3 DEF Woken, WakeController

\* Every step of the worker's interface and of its thread keeps IInv.
LEMMA NextIInv ==
  ASSUME IInv, [Next]_vars
  PROVE  IInv'
<1> USE DEF IInv
<1> DEFINE Rest == /\ ThreadLifetime' /\ StoppedMeansIdle'
                   /\ StartedMeansAlive' /\ StoppingMeansAlive'
<1>1. ASSUME NEW c \in Controllers, startWorking(c)
      PROVE  IInv'
  <2>1. TypeOK'
    BY <1>1, WokenFacts DEF startWorking, TypeOK, WorkerState, ControllerPoint, ThreadPoint
  <2>2. ThreadLifetime'
    BY <1>1, WokenFacts DEF startWorking, TypeOK, ThreadLifetime, WokenThread, ControllerPoint
  <2>3. StoppedMeansIdle' /\ StartedMeansAlive' /\ StoppingMeansAlive'
    BY <1>1 DEF startWorking, TypeOK, ThreadLifetime, WokenThread, StoppedMeansIdle,
                StartedMeansAlive, StoppingMeansAlive, InCallback
  <2> QED
    BY <2>1, <2>2, <2>3
<1>2. ASSUME NEW c \in Controllers, stopWorking(c)
      PROVE  IInv'
  <2>1. TypeOK'
    BY <1>2, WokenFacts DEF stopWorking, TypeOK, WorkerState, ControllerPoint
  <2>2. ThreadLifetime'
    BY <1>2, WokenFacts DEF stopWorking, TypeOK, ThreadLifetime, WokenThread, StartedMeansAlive,
                            ControllerPoint, InCallback
  <2>3. StoppedMeansIdle' /\ StartedMeansAlive' /\ StoppingMeansAlive'
    BY <1>2 DEF stopWorking, WokenThread, StoppedMeansIdle, StartedMeansAlive,
                StoppingMeansAlive, InCallback
  <2> QED
    BY <2>1, <2>2, <2>3
<1>3. ASSUME NEW c \in Controllers,
             startRecheck(c) \/ stopRecheck(c) \/ setNameTest(c) \/ setName(c)
      PROVE  IInv'
  <2>1. TypeOK'
    BY <1>3 DEF startRecheck, stopRecheck, setNameTest, setName, TypeOK, ControllerPoint
  <2>2. Rest
    BY <1>3 DEF startRecheck, stopRecheck, setNameTest, setName, TypeOK, ThreadLifetime,
                StoppedMeansIdle, StartedMeansAlive, StoppingMeansAlive
  <2> QED
    BY <2>1, <2>2
<1>4. ASSUME NEW c \in Controllers, terminate(c)
      PROVE  IInv'
  BY <1>4 DEF terminate, TypeOK, WorkerState, ControllerPoint, ThreadLifetime,
              StoppedMeansIdle, StartedMeansAlive, StoppingMeansAlive
<1>5. ASSUME NEW c \in Controllers, notifyKilling(c)
      PROVE  IInv'
  <2>1. TypeOK'
    BY <1>5, WokenFacts DEF notifyKilling, TypeOK, ControllerPoint
  <2>2. ThreadLifetime'
    BY <1>5, WokenFacts DEF notifyKilling, TypeOK, ThreadLifetime, WokenThread, ControllerPoint
  <2>3. StoppedMeansIdle' /\ StartedMeansAlive' /\ StoppingMeansAlive'
    BY <1>5 DEF notifyKilling, WokenThread, StoppedMeansIdle, StartedMeansAlive,
                StoppingMeansAlive, InCallback
  <2> QED
    BY <2>1, <2>2, <2>3
<1>6. ASSUME NEW c \in Controllers, join(c)
      PROVE  IInv'
  <2>1. TypeOK'
    BY <1>6 DEF join, TypeOK, ControllerPoint, ThreadPoint
  <2>2. Rest
    BY <1>6 DEF join, TypeOK, ThreadLifetime, StoppedMeansIdle, StartedMeansAlive,
                StoppingMeansAlive, InCallback
  <2> QED
    BY <2>1, <2>2
<1>7. ASSUME NEW c \in Controllers, reset(c)
      PROVE  IInv'
  <2>1. TypeOK'
    BY <1>7 DEF reset, TypeOK, ControllerPoint, ThreadPoint
  <2>2. Rest
    BY <1>7 DEF reset, TypeOK, ThreadLifetime, StoppedMeansIdle, StartedMeansAlive,
                StoppingMeansAlive, InCallback
  <2> QED
    BY <2>1, <2>2
<1>8. CASE threadNotify
  <2>1. TypeOK'
    BY <1>8, WokenFacts DEF threadNotify, TypeOK, ThreadPoint, InCallback
  <2>2. Rest
    BY <1>8, WokenFacts DEF threadNotify, TypeOK, ThreadLifetime, StoppedMeansIdle,
                            StartedMeansAlive, StoppingMeansAlive, InCallback
  <2> QED
    BY <2>1, <2>2
<1>9. CASE \/ threadTest \/ threadSetStarted \/ threadCallback \/ threadThrow
           \/ threadSetStopped \/ threadStoppedCheck
  <2> USE DEF threadTest, threadSetStarted, threadCallback, threadThrow, threadSetStopped,
              threadStoppedCheck
  <2>1. TypeOK'
    BY <1>9 DEF TypeOK, ThreadPoint, InCallback, WorkerState
  <2>2. Rest
    BY <1>9 DEF TypeOK, ThreadLifetime, StoppedMeansIdle, StartedMeansAlive,
                StoppingMeansAlive, InCallback
  <2> QED
    BY <2>1, <2>2
<1>10. CASE SpuriousWake
  <2>1. TypeOK'
    BY <1>10 DEF SpuriousWake, TypeOK, WakeController, ThreadPoint, ControllerPoint
  <2>2. Rest
    BY <1>10 DEF SpuriousWake, TypeOK, WakeController, ThreadLifetime, StoppedMeansIdle,
                 StartedMeansAlive, StoppingMeansAlive, InCallback
  <2> QED
    BY <2>1, <2>2
<1>11. CASE UNCHANGED vars
  BY <1>11 DEF vars, TypeOK, ThreadLifetime, StoppedMeansIdle, StartedMeansAlive,
               StoppingMeansAlive
<1> QED
  BY <1>1, <1>2, <1>3, <1>4, <1>5, <1>6, <1>7, <1>8, <1>9, <1>10, <1>11
     DEF Next, Call, Continue, ThreadStep

\* Worker objects satisfy IInv whatever threads share them.
THEOREM WorkerIInv == Spec => []IInv
<1>1. Init => IInv
  BY DEF Init, IInv, TypeOK, WorkerState, ControllerPoint, ThreadPoint, ThreadLifetime,
         StoppedMeansIdle, StartedMeansAlive, StoppingMeansAlive
<1>2. IInv /\ [Next]_vars => IInv'
  BY NextIInv
<1> QED
  BY <1>1, <1>2, PTL DEF Spec

\* Type correctness of the Worker model.
THEOREM WorkerTypeOK == Spec => []TypeOK
BY WorkerIInv, PTL DEF IInv

\* While m_state is Stopped the worker runs no callback, however many threads start,
\* stop and terminate it concurrently.
THEOREM WorkerStoppedMeansIdle == Spec => []StoppedMeansIdle
BY WorkerIInv, PTL DEF IInv

\* isWorking() never reports a thread that is gone.
THEOREM WorkerStartedMeansAlive == Spec => []StartedMeansAlive
BY WorkerIInv, PTL DEF IInv

-----------------------------------------------------------------------------
(* A worker with one owner.                                                *)

\* The owner's startWorking waits for as long as a start is pending, so the owner
\* cannot terminate between the thread's loop test and its Started.
SoleOwnerInv(o) ==
  /\ m_work /\ m_state = "Starting" => cpc[o] \in {"startWaiting", "startCheck"}
  /\ tpc = "test" => m_state \in {"Starting", "Killing"}
  /\ tpc = "setStarted" => m_state = "Starting"

\* Every step keeps SoleOwnerInv when o is the only owner.
LEMMA NextSoleOwnerInv ==
  ASSUME NEW o, Owners = {o}, IInv, SoleOwnerInv(o), [Next]_vars
  PROVE  SoleOwnerInv(o)'
<1> USE DEF IInv, SoleOwnerInv
<1>0. o \in Controllers /\ \A c \in Stoppers : c \in Controllers /\ c # o
  BY ThreadsDisjoint DEF Controllers
<1>00. Woken[o] \in {"startWaiting", "startCheck"} <=> cpc[o] \in {"startWaiting", "startCheck"}
  BY <1>0 DEF Woken, WakeController
<1>1. CASE startWorking(o)
  BY <1>0, <1>00, <1>1 DEF startWorking, TypeOK, ThreadLifetime, WokenThread, Woken
<1>2. ASSUME NEW c \in Controllers, stopWorking(c)
      PROVE  SoleOwnerInv(o)'
  BY <1>0, <1>00, <1>2 DEF stopWorking, TypeOK, WokenThread, StartedMeansAlive, InCallback, Woken
<1>3. ASSUME NEW c \in Controllers, startRecheck(c) \/ stopRecheck(c) \/ setName(c) \/ join(c)
      PROVE  SoleOwnerInv(o)'
  BY <1>0, <1>3 DEF startRecheck, stopRecheck, setName, join, TypeOK, ThreadLifetime
<1>4. CASE setNameTest(o) \/ terminate(o)
  BY <1>0, <1>4 DEF setNameTest, terminate, TypeOK
<1>5. ASSUME NEW c \in Controllers, notifyKilling(c)
      PROVE  SoleOwnerInv(o)'
  BY <1>0, <1>00, <1>5 DEF notifyKilling, TypeOK, WokenThread, Woken
<1>6. ASSUME NEW c \in Controllers, reset(c)
      PROVE  SoleOwnerInv(o)'
  BY <1>0, <1>6 DEF reset, TypeOK, ThreadLifetime
<1>7. CASE threadNotify
  BY <1>0, <1>00, <1>7 DEF threadNotify, TypeOK
<1>8. CASE threadTest \/ threadSetStarted \/ threadCallback \/ threadThrow \/ threadSetStopped
  BY <1>0, <1>8 DEF threadTest, threadSetStarted, threadCallback, threadThrow, threadSetStopped,
                    TypeOK, WorkerState, ThreadLifetime
<1>9. CASE threadStoppedCheck
  BY <1>9 DEF threadStoppedCheck, TypeOK, WorkerState, StartedMeansAlive, StoppingMeansAlive,
              InCallback
<1>10. CASE SpuriousWake
  BY <1>0, <1>10 DEF SpuriousWake, TypeOK, WakeController
<1>11. CASE UNCHANGED vars
  BY <1>11 DEF vars
<1> QED
  BY <1>1, <1>2, <1>3, <1>4, <1>5, <1>6, <1>7, <1>8, <1>9, <1>10, <1>11
     DEF Next, Call, Continue, ThreadStep

\* SoleOwnerInv holds throughout.
LEMMA SoleOwner ==
  ASSUME NEW CONSTANT o, Owners = {o}
  PROVE  Spec => []SoleOwnerInv(o)
<1>1. Init => SoleOwnerInv(o)
  BY DEF Init, SoleOwnerInv, Controllers
<1>2. IInv /\ SoleOwnerInv(o) /\ [Next]_vars => SoleOwnerInv(o)'
  BY NextSoleOwnerInv
<1> QED
  BY <1>1, <1>2, WorkerIInv, PTL DEF Spec

\* With one owner terminate() is final: the thread it kills is never started again.
THEOREM SoleOwnerKillingIsFinal ==
  ASSUME NEW CONSTANT o, Owners = {o}
  PROVE  Spec => KillingIsFinal
<1>1. ASSUME IInv, SoleOwnerInv(o), [Next]_vars
      PROVE  [m_state = "Killing" /\ m_work => m_state' = "Killing"]_vars
  BY <1>1 DEF Next, Call, Continue, ThreadStep, vars, SoleOwnerInv, startWorking, startRecheck,
     stopWorking, stopRecheck, setNameTest, setName, terminate, notifyKilling, join, reset,
     threadTest, threadSetStarted, threadNotify, threadCallback, threadThrow, threadSetStopped,
     threadStoppedCheck, SpuriousWake
<1> QED
  BY <1>1, SoleOwner, WorkerIInv, PTL DEF Spec, KillingIsFinal
=============================================================================
