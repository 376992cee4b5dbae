------------------------------- MODULE Worker -------------------------------
(***************************************************************************)
(* The restartable background thread of toscore/concurrent/Worker.{h,cpp}. *)
(*                                                                         *)
(* One Worker object is shared by the threads that control it: Owners call *)
(* startWorking, stopWorking, setName and terminate, Stoppers only         *)
(* stopWorking.  Every write of m_state happens under the mutex x_work, and *)
(* the only reads outside it are the worker thread's own loop tests, so a  *)
(* critical section is one step.  A thread blocked on m_state_notifier is   *)
(* at a "...Waiting" program point; notify_all moves it to the re-check of  *)
(* its while loop, and so may a spurious wake-up.                           *)
(***************************************************************************)
EXTENDS FiniteSets

CONSTANTS Owners,    \* threads that use the whole interface
          Stoppers,  \* threads that only call stopWorking
          Names      \* values of m_name

ASSUME ThreadsDisjoint == Owners \cap Stoppers = {}

Controllers == Owners \cup Stoppers

WorkerState == {"Starting", "Started", "Stopping", "Stopped", "Killing"}

VARIABLES
  m_state,  \* the atomic WorkerState
  m_work,   \* TRUE iff the unique_ptr to the thread is set
  m_name,   \* the worker's name
  tpc,      \* where the worker thread is
  cpc       \* where each controlling thread is

vars == <<m_state, m_work, m_name, tpc, cpc>>

\* Program points at which the worker runs the client's code (the callbacks).
InCallback == {"startedWorking", "workLoop", "doneWorking"}

ThreadPoint ==
  InCallback \cup
  {"none", "test", "setStarted", "notifyStarted", "setStopped", "notifyStopped",
   "stoppedCheck", "stoppedWaiting", "exited", "joined"}

ControllerPoint ==
  {"idle", "startWaiting", "startCheck", "stopWaiting", "stopCheck", "setName",
   "notifyKilling", "join", "reset"}

TypeOK ==
  /\ m_state \in WorkerState
  /\ m_work \in BOOLEAN
  /\ m_name \in Names
  /\ tpc \in ThreadPoint
  /\ cpc \in [Controllers -> ControllerPoint]

Init ==
  /\ m_state = "Starting"
  /\ m_work = FALSE
  /\ m_name \in Names
  /\ tpc = "none"
  /\ cpc = [c \in Controllers |-> "idle"]

-----------------------------------------------------------------------------
(* m_state_notifier.notify_all(): every blocked thread gets to re-check.   *)

WakeController(p) ==
  IF p = "startWaiting" THEN "startCheck"
  ELSE IF p = "stopWaiting" THEN "stopCheck" ELSE p

Woken == [c \in Controllers |-> WakeController(cpc[c])]

WokenThread == IF tpc = "stoppedWaiting" THEN "stoppedCheck" ELSE tpc

-----------------------------------------------------------------------------
(* The controlling threads.  Calls that return at once without writing     *)
(* anything (stopWorking or terminate without a thread, a second           *)
(* terminate, isWorking) leave the state alone and are not actions.        *)

\* Mutated form: the restart of an existing thread does not notify it.
startWorkingNoNotify(c) ==
  /\ cpc[c] = "idle"
  /\ m_state' = IF m_work /\ m_state # "Stopped" THEN m_state ELSE "Starting"
  /\ m_work' = TRUE
  /\ tpc' = IF m_work THEN tpc ELSE "test"
  /\ cpc' = [cpc EXCEPT ![c] = IF m_state' = "Starting" THEN "startWaiting" ELSE "idle"]
  /\ UNCHANGED m_name

\* Up to the first test of `while (m_state == Starting)`.
startWorking(c) ==
  /\ cpc[c] = "idle"
  /\ m_state' = IF m_work /\ m_state # "Stopped" THEN m_state ELSE "Starting"
  /\ m_work' = TRUE
  /\ tpc' = IF m_work THEN WokenThread ELSE "test"
  /\ cpc' = [Woken EXCEPT ![c] = IF m_state' = "Starting" THEN "startWaiting" ELSE "idle"]
  /\ UNCHANGED m_name

startRecheck(c) ==
  /\ cpc[c] = "startCheck"
  /\ cpc' = [cpc EXCEPT ![c] = IF m_state = "Starting" THEN "startWaiting" ELSE "idle"]
  /\ UNCHANGED <<m_state, m_work, m_name, tpc>>

\* Up to the first test of `while (m_state != Stopped)`.
stopWorking(c) ==
  /\ cpc[c] = "idle"
  /\ m_work /\ m_state = "Started"
  /\ m_state' = "Stopping"
  /\ tpc' = WokenThread
  /\ cpc' = [Woken EXCEPT ![c] = "stopWaiting"]
  /\ UNCHANGED <<m_work, m_name>>

stopRecheck(c) ==
  /\ cpc[c] = "stopCheck"
  /\ cpc' = [cpc EXCEPT ![c] = IF m_state = "Stopped" THEN "idle" ELSE "stopWaiting"]
  /\ UNCHANGED <<m_state, m_work, m_name, tpc>>

\* setName reads isWorking() under the lock and assigns after releasing it.
setNameTest(c) ==
  /\ cpc[c] = "idle"
  /\ m_state # "Started"
  /\ cpc' = [cpc EXCEPT ![c] = "setName"]
  /\ UNCHANGED <<m_state, m_work, m_name, tpc>>

\* Mutated form: the name is moved out of an argument that was already consumed.
setNameEmpty(c) ==
  /\ cpc[c] = "setName"
  /\ m_name' = {}
  /\ cpc' = [cpc EXCEPT ![c] = "idle"]
  /\ UNCHANGED <<m_state, m_work, tpc>>

setName(c) ==
  /\ cpc[c] = "setName"
  /\ m_name' \in Names
  /\ cpc' = [cpc EXCEPT ![c] = "idle"]
  /\ UNCHANGED <<m_state, m_work, tpc>>

terminate(c) ==
  /\ cpc[c] = "idle"
  /\ m_work /\ m_state # "Killing"
  /\ m_state' = "Killing"
  /\ cpc' = [cpc EXCEPT ![c] = "notifyKilling"]
  /\ UNCHANGED <<m_work, m_name, tpc>>

notifyKilling(c) ==
  /\ cpc[c] = "notifyKilling"
  /\ cpc' = [Woken EXCEPT ![c] = "join"]
  /\ tpc' = WokenThread
  /\ UNCHANGED <<m_state, m_work, m_name>>

\* m_work->join(): returns when the thread has ended.  Joining it a second time, or
\* through a pointer another owner has reset, is undefined: the caller gets no further.
join(c) ==
  /\ cpc[c] = "join"
  /\ m_work /\ tpc = "exited"
  /\ tpc' = "joined"
  /\ cpc' = [cpc EXCEPT ![c] = "reset"]
  /\ UNCHANGED <<m_state, m_work, m_name>>

reset(c) ==
  /\ cpc[c] = "reset"
  /\ m_work' = FALSE
  /\ tpc' = "none"
  /\ cpc' = [cpc EXCEPT ![c] = "idle"]
  /\ UNCHANGED <<m_state, m_name>>

-----------------------------------------------------------------------------
(* The worker thread: the lambda that startWorking passes to std::thread.  *)

\* while (m_state != Killing), read without the lock.
threadTest ==
  /\ tpc = "test"
  /\ tpc' = IF m_state = "Killing" THEN "exited" ELSE "setStarted"
  /\ UNCHANGED <<m_state, m_work, m_name, cpc>>

threadSetStarted ==
  /\ tpc = "setStarted"
  /\ m_state' = "Started"
  /\ tpc' = "notifyStarted"
  /\ UNCHANGED <<m_work, m_name, cpc>>

\* Mutated form: the state changes without notify_all.
threadNoNotify ==
  /\ tpc \in {"notifyStarted", "notifyStopped"}
  /\ tpc' = IF tpc = "notifyStarted" THEN "startedWorking" ELSE "stoppedCheck"
  /\ UNCHANGED <<m_state, m_work, m_name, cpc>>

threadNotify ==
  /\ tpc \in {"notifyStarted", "notifyStopped"}
  /\ tpc' = IF tpc = "notifyStarted" THEN "startedWorking" ELSE "stoppedCheck"
  /\ cpc' = Woken
  /\ UNCHANGED <<m_state, m_work, m_name>>

\* startedWorking(); workLoop(); doneWorking().  An iteration of workLoop that
\* finds m_state == Started calls doWork and changes nothing here.
threadCallback ==
  /\ \/ tpc = "startedWorking" /\ tpc' = "workLoop"
     \/ tpc = "workLoop" /\ m_state # "Started" /\ tpc' = "doneWorking"
     \/ tpc = "doneWorking" /\ tpc' = "setStopped"
  /\ UNCHANGED <<m_state, m_work, m_name, cpc>>

\* A std::exception out of a callback is logged and ends the session of work.
threadThrow ==
  /\ tpc \in InCallback
  /\ tpc' = "setStopped"
  /\ UNCHANGED <<m_state, m_work, m_name, cpc>>

\* Mutated form: only a pending start is put back.
threadSetStoppedDropsKill ==
  /\ tpc = "setStopped"
  /\ m_state' = IF m_state = "Starting" THEN m_state ELSE "Stopped"
  /\ tpc' = "notifyStopped"
  /\ UNCHANGED <<m_work, m_name, cpc>>

\* Mutated form: only a requested stop is acknowledged.
threadSetStoppedOnRequest ==
  /\ tpc = "setStopped"
  /\ m_state' = IF m_state = "Stopping" THEN "Stopped" ELSE m_state
  /\ tpc' = "notifyStopped"
  /\ UNCHANGED <<m_work, m_name, cpc>>

\* exchange(Stopped), and back again if a start or a kill was pending.
threadSetStopped ==
  /\ tpc = "setStopped"
  /\ m_state' = IF m_state \in {"Killing", "Starting"} THEN m_state ELSE "Stopped"
  /\ tpc' = "notifyStopped"
  /\ UNCHANGED <<m_work, m_name, cpc>>

\* Mutated form: the thread does not wait while Stopped.
threadNoStoppedWait ==
  /\ tpc = "stoppedCheck"
  /\ tpc' = "test"
  /\ UNCHANGED <<m_state, m_work, m_name, cpc>>

threadStoppedCheck ==
  /\ tpc = "stoppedCheck"
  /\ tpc' = IF m_state = "Stopped" THEN "stoppedWaiting" ELSE "test"
  /\ UNCHANGED <<m_state, m_work, m_name, cpc>>

\* A condition variable may wake one of its waiters for no reason.
SpuriousWake ==
  /\ \/ \E c \in Controllers :
          /\ WakeController(cpc[c]) # cpc[c]
          /\ cpc' = [cpc EXCEPT ![c] = WakeController(cpc[c])]
          /\ UNCHANGED tpc
     \/ tpc = "stoppedWaiting" /\ tpc' = "stoppedCheck" /\ UNCHANGED cpc
  /\ UNCHANGED <<m_state, m_work, m_name>>

-----------------------------------------------------------------------------
Call(c) ==
  \/ stopWorking(c)
  \/ c \in Owners /\ (startWorking(c) \/ setNameTest(c) \/ terminate(c))

Continue(c) ==
  \/ startRecheck(c) \/ stopRecheck(c) \/ setName(c)
  \/ notifyKilling(c) \/ join(c) \/ reset(c)

ThreadStep ==
  \/ threadTest \/ threadSetStarted \/ threadNotify \/ threadCallback
  \/ threadSetStopped \/ threadStoppedCheck

Next ==
  \/ \E c \in Controllers : Call(c) \/ Continue(c)
  \/ ThreadStep
  \/ threadThrow
  \/ SpuriousWake

Spec == Init /\ [][Next]_vars

\* The operating system runs every runnable thread; the callbacks return.
\* Nothing obliges a caller to call, a callback to throw or a wait to wake.
Fairness ==
  /\ WF_vars(ThreadStep)
  /\ \A c \in Controllers : WF_vars(Continue(c))

FairSpec == Spec /\ Fairness

-----------------------------------------------------------------------------
(* Properties.                                                             *)

\* "Stopped" is what stopWorking waits for before it returns: in that state the
\* worker thread is outside every callback, so the caller may touch what they use.
StoppedMeansIdle ==
  m_state = "Stopped" => tpc \in {"notifyStopped", "stoppedCheck", "stoppedWaiting"}

\* isWorking() (m_state == Started) is true only while the thread exists and is on
\* its way into, inside, or on its way out of its callbacks.
StartedMeansAlive ==
  m_state = "Started" =>
    m_work /\ tpc \in InCallback \cup {"notifyStarted", "setStopped"}

\* terminate() is final for the thread it kills: once m_state is Killing it stays
\* Killing until that thread has been joined and released ("Stop and never start
\* again", Worker.h).
KillingIsFinal ==
  [][m_state = "Killing" /\ m_work => m_state' = "Killing"]_vars

\* Whatever an owner calls (startWorking, stopWorking, setName, terminate) returns.
OwnerCallsReturn ==
  \A o \in Owners : cpc[o] # "idle" ~> cpc[o] = "idle"

\* A stopper whose stop is under way returns from stopWorking, unless an owner kills the
\* worker or starts it again before the stopper has seen Stopped; then it may wait for ever.
StopperReturns ==
  \A s \in Stoppers :
    (cpc[s] # "idle" /\ m_state = "Stopping") ~>
      (cpc[s] = "idle" \/ m_state \in {"Killing", "Starting"})

\* startWorking "causes startedWorking() to be called": a requested start always
\* reaches the callback.
StartReachesCallback ==
  (m_work /\ m_state = "Starting") ~> tpc = "startedWorking"
=============================================================================
