------------------------ MODULE SessionManagerProofs ------------------------
(***************************************************************************)
(* The sessions, their manager and the server use the queue as module      *)
(* TaskMessageQueue lets its callers use it, and keep the invariants of    *)
(* module SessionManager, for any number of sessions, tasks and producers. *)
(* What the queue guarantees them in return is taken from the theorems of  *)
(* module TaskMessageQueueProofs.                                          *)
(***************************************************************************)
EXTENDS SessionManager, TLAPS

\* What the sessions need of the queue: a handle is resumed once, and a task
\* handed over is seen.
QInv == Q!TypeOK /\ Q!HandleResumedOnce /\ Q!HandedTaskIsSeen

IoPlaces == {"write", "header", "body"}

\* Where a coroutine is inside the queue and where it is in run_coroutine fit
\* together; a pending I/O operation is one of a coroutine that is not done.
PlaceInv ==
    \A s \in Sessions :
        /\ s \notin created <=> at[s] = "absent"
        /\ at[s] = "absent" => co[s] = "running"
        /\ at[s] = "greeting" => co[s] \in {"running", "exited"}
        /\ at[s] \in IoPlaces <=> co[s] = "working"
        /\ at[s] \in {"lost", "failed"} => co[s] \in {"requeuing", "exited"}
        /\ s \in pending => at[s] \in {"greeting"} \cup IoPlaces /\ co[s] # "exited"

ErasedInv == \A s \in created \ active_sessions_ : co[s] = "exited"

\* From the end of io_->stop() on, no coroutine runs on its own ...
Late == server \notin {"running", "stopping", "io_stopped"}

Parked(s) == co[s] = "suspended" /\ result_[s] = NoTask

AtRest ==
    /\ \A s \in created : IsDone(s) \/ Parked(s) \/ s \in pending
    /\ \A th \in Q!Threads : calls[th] = <<>>

\* ... so that none is left to call add_task when the queue is shut down.
Closed == server \in {"queue_shutdown", "cleaning", "stopped"}

StopInv ==
    /\ shutdown_ => Closed
    /\ Late => AtRest
    /\ dropped = {}

SInv == SessionTypeOK /\ PlaceInv /\ ErasedInv /\ StopInv

----------------------------------------------------------------------------
(* The queue, as its callers use it *)

\* A step of a coroutine, an I/O operation or another thread of the process is
\* a step of the queue, or leaves the queue alone.
LEMMA SessionUsesQueue ==
  ASSUME NEW s \in Sessions,
         \/ CreateSession(s) \/ CoroutineStep(s) \/ IoSuspend(s) \/ IoStep(s) \/ WorkerGoes(s)
  PROVE  Q!Next \/ UNCHANGED queueVars
<1>1. CASE CreateSession(s) BY <1>1 DEF CreateSession
<1>2. CASE LoopHead(s) BY <1>2 DEF LoopHead, Q!Next, Q!SessionStep
<1>3. CASE InQueue(s) BY <1>3 DEF InQueue, Q!Next, Q!SessionStep
<1>4. CASE RequeueReturns(s) BY <1>4 DEF RequeueReturns, Q!Next, Q!SessionStep
<1>5. CASE IoSuspend(s) BY <1>5 DEF IoSuspend
<1>6. CASE Greeting(s) BY <1>6 DEF Greeting, Q!Next
<1>7. CASE WriteTask(s) BY <1>7 DEF WriteTask, IoError, Q!Next
<1>8. CASE ReadHeader(s) BY <1>8 DEF ReadHeader, IoError, BadReply, Q!Next
<1>9. CASE ReadBody(s) BY <1>9 DEF ReadBody, IoError, BadReply, Q!Next
<1>10. CASE WorkerGoes(s) BY <1>10 DEF WorkerGoes
<1> QED
  BY <1>1, <1>2, <1>3, <1>4, <1>5, <1>6, <1>7, <1>8, <1>9, <1>10 DEF CoroutineStep, IoStep

\* So is a step of a maintenance pass, ...
LEMMA CleanupUsesQueue == CleanupStep => Q!Next \/ UNCHANGED queueVars
<1>1. ASSUME NEW s \in Sessions,
             \/ ProbeCheck(s) \/ ProbeStore(s) \/ ProbeCancel(s)
             \/ Teardown(s) \/ Erase(s) \/ RequestTermination(s)
      PROVE  Q!Next \/ UNCHANGED queueVars
  <2>1. CASE ProbeCheck(s) BY <2>1 DEF ProbeCheck
  <2>2. CASE ProbeStore(s) BY <2>2 DEF ProbeStore
  <2>3. CASE ProbeCancel(s) BY <2>3 DEF ProbeCancel, Q!Next
  <2>4. CASE Teardown(s) BY <2>4 DEF Teardown, Q!Next
  <2>5. CASE Erase(s) BY <2>5 DEF Erase
  <2>6. CASE RequestTermination(s) BY <2>6 DEF RequestTermination, Q!Next
  <2> QED BY <1>1, <2>1, <2>2, <2>3, <2>4, <2>5, <2>6
<1>2. ASSUME ProbeDone \/ CleanupDone \/ TerminateDone \/ ForceDone PROVE UNCHANGED queueVars
  BY <1>2 DEF ProbeDone, CleanupDone, TerminateDone, ForceDone
<1>3. ASSUME DrainCancelled PROVE Q!Next BY <1>3 DEF DrainCancelled, Q!Next
<1> QED BY <1>1, <1>2, <1>3 DEF CleanupStep

\* ... and of stop().
LEMMA StopUsesQueue == StopContinues => Q!Next \/ UNCHANGED queueVars
<1>1. ASSUME StopIo \/ StopResponseContext \/ TerminateAllSessions \/ StopCleanup
      PROVE  UNCHANGED queueVars
  BY <1>1 DEF StopIo, StopResponseContext, TerminateAllSessions, StopCleanup
<1>2. ASSUME ShutdownQueue \/ ShutdownContinues PROVE Q!Next
  BY <1>2 DEF ShutdownQueue, ShutdownContinues, Q!Next
<1> QED BY <1>1, <1>2 DEF StopContinues

\* So is every step of the server.
LEMMA NextUsesQueue == [Next]_vars => [Q!Next]_(Q!vars)
<1> SUFFICES ASSUME [Next]_vars PROVE Q!Next \/ UNCHANGED queueVars BY DEF queueVars, Q!vars
<1>1. ASSUME NEW p \in Producers, EnqueueTasks(p) PROVE Q!Next BY <1>1 DEF EnqueueTasks, Q!Next
<1>2. ASSUME NEW th \in Q!Threads, InThread(th) PROVE Q!Next BY <1>2 DEF InThread, Q!Next
<1>3. ASSUME Maintain \/ Stop \/ Stopped \/ UNCHANGED vars PROVE UNCHANGED queueVars
  BY <1>3 DEF Maintain, Stop, Stopped, vars
<1> QED BY <1>1, <1>2, <1>3, SessionUsesQueue, CleanupUsesQueue, StopUsesQueue DEF Next

\* Sessions, manager and server use the queue only as its own module allows:
\* property ImplementsQueue.
THEOREM UsesQueueCorrectly == Spec => ImplementsQueue
<1>1. Init => Q!Init BY DEF Init
<1> QED BY <1>1, NextUsesQueue, PTL DEF Spec, ImplementsQueue, Q!Spec

----------------------------------------------------------------------------
(* Steps that leave most of the state alone *)

\* PlaceInv is about the coroutines, their places and pending I/O only.
LEMMA PlaceStays == ASSUME PlaceInv, UNCHANGED <<co, at, created, pending>> PROVE PlaceInv'
  BY DEF PlaceInv

\* ErasedInv is about the coroutines and the map of sessions only.
LEMMA ErasedStays == ASSUME ErasedInv, UNCHANGED <<co, created, active_sessions_>> PROVE ErasedInv'
  BY DEF ErasedInv

\* Nobody is woken by a step that only adds pending I/O operations.
LEMMA RestStays ==
  ASSUME AtRest, UNCHANGED <<created, co, result_, calls>>, pending \subseteq pending'
  PROVE  AtRest'
  BY DEF AtRest, Parked, IsDone

\* While stop() stays where it is, StopInv needs AtRest only once it is late.
LEMMA StopStays ==
  ASSUME StopInv, UNCHANGED <<shutdown_, server, dropped>>, Late /\ AtRest => AtRest'
  PROVE  StopInv'
<1>1. (Late' <=> Late) /\ (Closed' <=> Closed) BY DEF Late, Closed
<1> QED BY <1>1 DEF StopInv

----------------------------------------------------------------------------
(* Steps of the coroutines in the queue *)

QueuePlaces == {"ready", "trying", "suspending", "locking", "suspended"}

\* How such a step moves a coroutine.
CoMoves(s) ==
    \/ co'[s] = co[s]
    \/ co[s] \in QueuePlaces /\ co'[s] \in QueuePlaces \cup {"working", "exited"}
    \/ at[s] = "loop" /\ co[s] = "running" /\ co'[s] \in {"ready", "exited"}
    \/ co[s] = "requeuing" /\ co'[s] = IF at[s] = "loop" THEN "running" ELSE "exited"

\* Continue keeps place and queue in step.
LEMMA ContinuePlaces ==
  ASSUME SessionTypeOK, PlaceInv, ErasedInv, Continue, \A s \in Sessions : CoMoves(s)
  PROVE  SessionTypeOK' /\ PlaceInv' /\ ErasedInv'
<1>1. ASSUME NEW s \in Sessions
      PROVE  /\ at'[s] = IF co'[s] # co[s] /\ co'[s] = "working" THEN "write" ELSE at[s]
             /\ state_'[s] \in SessionState
  BY DEF Continue, SessionTypeOK, SessionState
<1>2. SessionTypeOK'
  <2>1. at' \in [Sessions -> Places] /\ state_' \in [Sessions -> SessionState]
    BY <1>1 DEF Continue, SessionTypeOK, Places
  <2> QED BY Zenon, <2>1 DEF Continue, SessionTypeOK, managerVars
<1>3. PlaceInv'
  <2> SUFFICES ASSUME NEW s \in Sessions
      PROVE  (/\ s \notin created <=> at[s] = "absent"
              /\ at[s] = "absent" => co[s] = "running"
              /\ at[s] = "greeting" => co[s] \in {"running", "exited"}
              /\ at[s] \in IoPlaces <=> co[s] = "working"
              /\ at[s] \in {"lost", "failed"} => co[s] \in {"requeuing", "exited"}
              /\ s \in pending => at[s] \in {"greeting"} \cup IoPlaces /\ co[s] # "exited")'
    BY DEF PlaceInv
  <2>1. created' = created /\ pending' = pending BY DEF Continue, managerVars
  <2>2. at[s] \in Places BY DEF SessionTypeOK
  <2>3. CoMoves(s) OBVIOUS
  <2> QED BY <1>1, <2>1, <2>2, <2>3 DEF PlaceInv, CoMoves, QueuePlaces, IoPlaces, Places
<1>4. ErasedInv'
  <2>1. created' = created /\ active_sessions_' = active_sessions_ /\ created \subseteq Sessions
    BY DEF Continue, managerVars, SessionTypeOK
  <2>2. ASSUME NEW s \in Sessions, co[s] = "exited" PROVE co'[s] = "exited"
    BY <2>2 DEF CoMoves, QueuePlaces
  <2> QED BY <2>1, <2>2 DEF ErasedInv
<1> QED BY <1>2, <1>3, <1>4

\* A coroutine's own steps in the queue: it is neither parked nor at an I/O
\* operation nor done.
LEMMA CoroutineFacts ==
  ASSUME QInv, NEW s \in Sessions, CoroutineStep(s)
  PROVE  /\ Continue
         /\ \A r \in Sessions : CoMoves(r)
         /\ \/ co[s] \in {"ready", "trying", "suspending", "locking", "requeuing"}
            \/ at[s] = "loop" /\ co[s] = "running"
         /\ UNCHANGED <<shutdown_, calls, cancelled, dropped>>
<1>1. co \in [Sessions -> Q!CoStates] BY DEF QInv, Q!TypeOK
<1> USE DEF Q!queueVars, Q!taskVars, Q!Goto, CoMoves, QueuePlaces
<1>2. CASE LoopHead(s) BY <1>1, <1>2 DEF LoopHead, Q!GetNextTask, Q!Leave
<1>3. CASE InQueue(s)
  <2>1. CASE Q!AwaitReady(s) BY <1>1, <1>3, <2>1 DEF InQueue, Q!AwaitReady, Q!Outcome
  <2>2. CASE Q!TryGetTaskImmediately(s)
    BY Zenon, <1>1, <1>3, <2>2 DEF InQueue, Q!TryGetTaskImmediately, Q!TakeFront
  <2>3. CASE Q!AwaitSuspendCheck(s) BY <1>1, <1>3, <2>3 DEF InQueue, Q!AwaitSuspendCheck, Q!Outcome
  <2>4. CASE Q!AwaitSuspendLocked(s)
    BY Zenon, <1>1, <1>3, <2>4 DEF InQueue, Q!AwaitSuspendLocked, Q!TakeFront, Q!Outcome
  <2> QED BY Zenon, <1>3, <2>1, <2>2, <2>3, <2>4 DEF InQueue
<1>4. CASE RequeueReturns(s) BY <1>1, <1>4 DEF RequeueReturns, Q!RequeueReturns
<1> QED BY Zenon, <1>2, <1>3, <1>4 DEF CoroutineStep

\* A resumption of a parked coroutine: it goes on with the task it was given,
\* and nothing else changes that the sessions could see.
Wakes ==
    /\ UNCHANGED <<shutdown_, calls, result_, cancelled, dropped>>
    /\ \A r \in Sessions :
          co'[r] = co[r] \/ (co[r] = "suspended" /\ co'[r] = Q!Outcome(result_[r]))

\* Only a parked coroutine is resumed.
LEMMA ResumeWakes ==
  ASSUME QInv, NEW th \in Q!Threads, Q!Resume(th)
  PROVE  \A r \in Sessions :
            co'[r] = co[r] \/ (co[r] = "suspended" /\ co'[r] = Q!Outcome(result_[r]))
<1> DEFINE q == resuming[th]
<1>1. co \in [Sessions -> Q!CoStates] /\ q \in Seq(Sessions) BY DEF QInv, Q!TypeOK
<1>2. q # <<>> /\ co' = [co EXCEPT ![Head(q)] = Q!Outcome(result_[Head(q)])]
  BY DEF Q!Resume, Q!Goto
<1>3. Head(q) \in Q!Range(q) BY <1>1, <1>2 DEF Q!Range
<1>4. co[Head(q)] = "suspended" BY <1>3 DEF QInv, Q!HandleResumedOnce
<1> HIDE DEF q
<1> QED BY <1>1, <1>2, <1>4

\* A thread inside add_task(s) or cancel_queue_wait places a task of its call,
\* or resumes a coroutine.
LEMMA ThreadFacts ==
  ASSUME QInv, NEW th \in Q!Threads, InThread(th)
  PROVE  /\ Continue
         /\ \A r \in Sessions : CoMoves(r)
         /\ UNCHANGED <<shutdown_, cancelled, dropped>>
         /\ Wakes \/ calls[th] # <<>>
<1> USE DEF Q!queueVars, Q!taskVars
<1>1. CASE Q!Distribute(th) BY <1>1 DEF InThread, Q!Distribute, CoMoves
<1>2. CASE Q!ResumeWaiter(th)
  <2>1. Wakes BY Zenon, <1>2, ResumeWakes DEF Q!ResumeWaiter, Wakes
  <2> QED BY <2>1 DEF InThread, Wakes, CoMoves, QueuePlaces, Q!Outcome
<1> QED BY <1>1, <1>2 DEF InThread, Q!ThreadStep

\* So does shutdown(), once it has its flag set.
LEMMA ShutdownFacts ==
  ASSUME QInv, ShutdownContinues
  PROVE  Continue /\ Wakes /\ \A r \in Sessions : CoMoves(r)
<1> USE DEF Q!queueVars, Q!taskVars
<1>1. Stopper \in Q!Threads BY DEF Q!Threads
<1>2. Wakes
  <2>1. CASE Q!ShutdownSwap BY Zenon, <2>1 DEF Q!ShutdownSwap, Wakes
  <2>2. CASE Q!ShutdownResume BY Zenon, <1>1, <2>2, ResumeWakes DEF Q!ShutdownResume, Wakes
  <2> QED BY <2>1, <2>2 DEF ShutdownContinues, Q!ShutdownStep
<1> QED BY Zenon, <1>2 DEF ShutdownContinues, Wakes, CoMoves, QueuePlaces, Q!Outcome

\* A step of a coroutine in the queue preserves the invariant, when stop() has
\* not come to the sessions yet or the step resumes a parked one.
LEMMA ContinuePreserves ==
  ASSUME SInv, Continue, \A r \in Sessions : CoMoves(r),
         UNCHANGED <<shutdown_, cancelled, dropped>>, ~Late \/ Wakes
  PROVE  SInv'
<1> USE DEF SInv
<1>1. SessionTypeOK' /\ PlaceInv' /\ ErasedInv' BY ContinuePlaces
<1>2. UNCHANGED <<pending, gone, termination_requested_, managerVars>> BY DEF Continue
<1>3. StopInv'
  <2>1. CASE ~Late BY <1>2, <2>1, StopStays DEF managerVars
  <2>2. CASE Wakes
    <3>1. created \subseteq Sessions /\ created' = created BY <1>2 DEF SessionTypeOK, managerVars
    <3>2. ASSUME NEW s \in created, Parked(s) PROVE Parked(s)' \/ IsDone(s)'
      BY Zenon, <2>2, <3>1, <3>2 DEF Parked, IsDone, Wakes, Q!Outcome
    <3>3. ASSUME NEW s \in created, IsDone(s) PROVE IsDone(s)'
      BY Zenon, <2>2, <3>1, <3>3 DEF IsDone, Wakes, Q!Outcome
    <3>4. AtRest => AtRest' BY Zenon, <1>2, <2>2, <3>1, <3>2, <3>3 DEF AtRest, Wakes
    <3> QED BY <1>2, <3>4, StopStays DEF managerVars
  <2> QED BY <2>1, <2>2
<1> QED BY <1>1, <1>3

\* After StopIo has joined the I/O threads and stop() has come to the sessions,
\* no session moves on its own.
LEMMA CoroutinePreserves ==
  ASSUME QInv, SInv, NEW s \in Sessions, CoroutineStep(s) PROVE SInv'
<1>1. ~Late
  <2> SUFFICES ASSUME Late PROVE FALSE OBVIOUS
  <2>1. \/ co[s] \in {"ready", "trying", "suspending", "locking", "requeuing"}
        \/ at[s] = "loop" /\ co[s] = "running"
    BY CoroutineFacts
  <2>2. s \in created BY <2>1 DEF SInv, PlaceInv
  <2>3. s \notin pending BY <2>1 DEF SInv, PlaceInv, IoPlaces
  <2> QED BY <2>1, <2>2, <2>3 DEF SInv, StopInv, AtRest, IsDone, Parked
<1> QED BY <1>1, CoroutineFacts, ContinuePreserves

\* The threads inside the queue only resume parked coroutines by then.
LEMMA ThreadPreserves ==
  ASSUME QInv, SInv, NEW th \in Q!Threads, InThread(th) PROVE SInv'
<1>1. ~Late \/ Wakes BY ThreadFacts DEF SInv, StopInv, AtRest
<1> QED BY <1>1, ThreadFacts, ContinuePreserves

\* So does shutdown().
LEMMA ShutdownPreserves == ASSUME QInv, SInv, ShutdownContinues PROVE SInv'
  BY ShutdownFacts, ContinuePreserves DEF Wakes

----------------------------------------------------------------------------
(* I/O *)

\* Once stop() has come to the sessions no I/O operation ends any more: the
\* threads that would end it are joined.
LEMMA NoIoLate ==
  ASSUME SInv, NEW s \in Sessions, NEW p \in {"greeting", "write", "header", "body"},
         IoCompletes(s, p)
  PROVE  ~Late /\ s \in created
<1>1. s \in created /\ co[s] # "suspended" BY DEF IoCompletes, SInv, PlaceInv, IoPlaces
<1>2. s \in pending => ~Late BY DEF IoCompletes, IoThreadsRun, Late
<1> QED BY <1>1, <1>2 DEF SInv, StopInv, AtRest, IoCompletes, Parked

\* An operation that ends by itself or in an error moves its session to the
\* next place; the queue's flag is not set, so add_task accepts the task.
LEMMA EnterAccepts ==
  ASSUME SInv, ~Late, NEW s \in Sessions, Q!Requeue(s)
  PROVE  /\ co[s] = "working" /\ co' = [co EXCEPT ![s] = "requeuing"]
         /\ UNCHANGED <<shutdown_, cancelled, dropped>>
<1>1. ~shutdown_ BY DEF SInv, StopInv, Closed, Late
<1> QED BY <1>1 DEF Q!Requeue, Q!Enter, Q!Goto, Q!queueVars

\* Where an operation may leave its session: the place, and in the queue.
Fits(p, w) ==
    \/ p = "greeting" /\ w = "exited"
    \/ p = "loop" /\ w \in {"running", "requeuing"}
    \/ p \in IoPlaces /\ w = "working"
    \/ p \in {"lost", "failed"} /\ w = "requeuing"

IoFrame(s) ==
    /\ ~IsDone(s)
    /\ pending' = pending \ {s}
    /\ UNCHANGED <<shutdown_, cancelled, dropped, gone, termination_requested_, managerVars>>

\* Such a move preserves the invariant.
LEMMA IoMovePreserves ==
  ASSUME SInv, QInv, ~Late, NEW s \in created, IoFrame(s), NEW p \in Places, NEW w, Fits(p, w),
         at' = [at EXCEPT ![s] = p], co' = [co EXCEPT ![s] = w],
         NEW st \in SessionState, state_' \in {state_, [state_ EXCEPT ![s] = st]},
         open' \in {open, open \ {s}}
  PROVE  SInv'
<1> USE DEF SInv, IoFrame
<1>1. s \in Sessions /\ created \subseteq Sessions /\ created' = created
  BY Zenon DEF SessionTypeOK, managerVars
<1>2. co \in [Sessions -> Q!CoStates] BY Zenon DEF QInv, Q!TypeOK
<1>3. at \in [Sessions -> Places] BY DEF SessionTypeOK
<1>4. SessionTypeOK'
  <2>1. at' \in [Sessions -> Places] /\ state_' \in [Sessions -> SessionState]
    BY <1>1, <1>3 DEF SessionTypeOK
  <2> QED BY Zenon, <2>1 DEF SessionTypeOK, managerVars
<1>5. PlaceInv'
  <2>1. ASSUME NEW r \in Sessions, r # s
        PROVE  co'[r] = co[r] /\ at'[r] = at[r] /\ (r \in pending' <=> r \in pending)
    BY Zenon, <1>2, <1>3, <2>1
  <2>2. co'[s] = w /\ at'[s] = p /\ s \notin pending' BY Zenon, <1>1, <1>2, <1>3
  <2> QED BY <1>1, <2>1, <2>2 DEF PlaceInv, Fits, IoPlaces
<1>6. ErasedInv' BY Zenon, <1>1, <1>2 DEF ErasedInv, IsDone, managerVars
<1>7. StopInv' BY StopStays DEF managerVars
<1> QED BY <1>4, <1>5, <1>6, <1>7

\* The task goes back to the queue: after a reply that does not fit, or after
\* an error.
LEMMA BackToQueue ==
  ASSUME SInv, QInv, ~Late, NEW s \in created, ~IsDone(s), pending' = pending \ {s},
         BadReply(s) \/ IoError(s),
         NEW st \in SessionState, state_' \in {state_, [state_ EXCEPT ![s] = st]},
         UNCHANGED <<open, gone, termination_requested_, managerVars>>
  PROVE  SInv'
<1>1. s \in Sessions BY DEF SInv, SessionTypeOK
<1>2. Q!Requeue(s) BY DEF BadReply, IoError
<1>3. co' = [co EXCEPT ![s] = "requeuing"] /\ IoFrame(s) BY <1>1, <1>2, EnterAccepts DEF IoFrame
<1>4. PICK p \in {"loop", "lost", "failed"} : at' = [at EXCEPT ![s] = p]
  BY DEF BadReply, IoError
<1>5. p \in Places /\ Fits(p, "requeuing") BY <1>4 DEF Places, Fits
<1> QED BY Zenon, <1>3, <1>4, <1>5, IoMovePreserves

\* Every operation of a session preserves the invariant.
LEMMA IoPreserves == ASSUME QInv, SInv, NEW s \in Sessions, IoStep(s) PROVE SInv'
<1> DEFINE P == {"greeting", "write", "header", "body"}
<1>1. PICK p \in P : IoCompletes(s, p)
  BY DEF IoStep, Greeting, WriteTask, ReadHeader, ReadBody
<1>2. ~Late /\ s \in created BY <1>1, NoIoLate
<1>3. ~IsDone(s) /\ pending' = pending \ {s} /\ at[s] = p BY <1>1 DEF IoCompletes
<1>4. UNCHANGED <<gone, termination_requested_, managerVars>>
  BY Zenon DEF IoStep, Greeting, WriteTask, ReadHeader, ReadBody
<1>5. co \in [Sessions -> Q!CoStates] /\ at \in [Sessions -> Places] /\ state_[s] \in SessionState
  BY Zenon DEF QInv, Q!TypeOK, SInv, SessionTypeOK
<1>6. CASE Greeting(s)
  <2>1. p = "greeting" /\ co[s] = "running" BY Zenon, <1>3, <1>6 DEF Greeting, IoCompletes, IsDone, SInv, PlaceInv
  <2>2. CASE at' = [at EXCEPT ![s] = "loop"] /\ state_' = [state_ EXCEPT ![s] = "ACTIVE"]
             /\ UNCHANGED <<queueVars, open>>
    <3>1. co' = [co EXCEPT ![s] = "running"] BY <1>5, <2>1, <2>2 DEF queueVars
    <3>2. IoFrame(s) BY <1>3, <1>4, <2>2 DEF IoFrame, queueVars
    <3> QED BY Zenon, <1>2, <2>2, <3>1, <3>2, IoMovePreserves DEF Fits, Places, SessionState
  <2>3. CASE Q!Leave(s) /\ UNCHANGED at /\ open' = open \ {s}
             /\ state_' = [state_ EXCEPT ![s] = "ERROR_STATE"]
    <3>1. at' = [at EXCEPT ![s] = "greeting"] BY <1>3, <1>5, <2>1, <2>3
    <3>2. co' = [co EXCEPT ![s] = "exited"] /\ IoFrame(s)
      BY Zenon, <1>3, <1>4, <2>3 DEF IoFrame, Q!Leave, Q!Goto, Q!queueVars, Q!taskVars
    <3> QED BY Zenon, <1>2, <2>3, <3>1, <3>2, IoMovePreserves DEF Fits, Places, SessionState
  <2> QED BY <1>6, <2>2, <2>3 DEF Greeting
<1>7. ASSUME p # "greeting", BadReply(s) \/ IoError(s), UNCHANGED open,
             state_' \in {state_, [state_ EXCEPT ![s] = "ACTIVE"]}
      PROVE  SInv'
  BY <1>2, <1>3, <1>4, <1>7, BackToQueue DEF SessionState
<1>8. ASSUME NEW q \in {"header", "body"}, p # "greeting", at' = [at EXCEPT ![s] = q],
             UNCHANGED <<queueVars, state_, open>>
      PROVE  SInv'
  <2>1. co[s] = "working" BY <1>3, <1>8 DEF SInv, PlaceInv, IoPlaces
  <2>2. co' = [co EXCEPT ![s] = "working"] BY <1>5, <1>8, <2>1 DEF queueVars
  <2>3. IoFrame(s) BY <1>3, <1>4, <1>8 DEF IoFrame, queueVars
  <2>4. Fits(q, "working") /\ q \in Places BY DEF Fits, IoPlaces, Places
  <2> QED BY Zenon, <1>2, <1>5, <1>8, <2>2, <2>3, <2>4, IoMovePreserves
<1>9. ASSUME Q!Complete(s), at' = [at EXCEPT ![s] = "loop"], UNCHANGED open,
             state_' = [state_ EXCEPT ![s] = "ACTIVE"]
      PROVE  SInv'
  <2>1. co' = [co EXCEPT ![s] = "running"] /\ IoFrame(s)
    BY <1>3, <1>4, <1>9 DEF IoFrame, Q!Complete, Q!Goto, Q!queueVars
  <2> QED BY Zenon, <1>2, <1>9, <2>1, IoMovePreserves DEF Fits, Places, SessionState
<1>10. CASE WriteTask(s)
  <2>1. p # "greeting" BY <1>3, <1>10 DEF WriteTask, IoCompletes
  <2> QED BY <1>7, <1>8, <1>10, <2>1 DEF WriteTask, IoError
<1>11. CASE ReadHeader(s)
  <2>1. p # "greeting" BY <1>3, <1>11 DEF ReadHeader, IoCompletes
  <2> QED BY Zenon, <1>7, <1>8, <1>11, <2>1 DEF ReadHeader, IoError
<1>12. CASE ReadBody(s)
  <2>1. p # "greeting" BY <1>3, <1>12 DEF ReadBody, IoCompletes
  <2> QED BY Zenon, <1>7, <1>9, <1>12, <2>1 DEF ReadBody, IoError
<1> QED BY <1>6, <1>10, <1>11, <1>12 DEF IoStep

\* An operation that is registered, a worker that goes, a new session.
LEMMA SessionPreserves ==
  ASSUME QInv, SInv, NEW s \in Sessions, IoSuspend(s) \/ WorkerGoes(s) \/ CreateSession(s)
  PROVE  SInv'
<1> USE DEF SInv
<1>1. CASE IoSuspend(s)
  <2>1. s \in created BY Zenon, <1>1 DEF IoSuspend, PlaceInv
  <2>2. SessionTypeOK' BY Zenon, <1>1, <2>1 DEF IoSuspend, SessionTypeOK, managerVars
  <2>3. /\ UNCHANGED <<created, at, co, result_, calls, shutdown_, dropped, server>>
        /\ pending' = pending \cup {s} /\ co[s] # "exited"
    BY Zenon, <1>1 DEF IoSuspend, IsDone, queueVars, managerVars
  <2>4. PlaceInv'
    <3>1. at[s] \in {"greeting"} \cup IoPlaces BY <1>1 DEF IoSuspend, IoPlaces
    <3> QED BY Zenon, <2>3, <3>1 DEF PlaceInv
  <2>5. ErasedInv' BY Zenon, <1>1, ErasedStays DEF IoSuspend, queueVars, managerVars
  <2>6. StopInv' BY <2>3, RestStays, StopStays
  <2> QED BY <2>2, <2>4, <2>5, <2>6
<1>2. CASE WorkerGoes(s)
  <2>1. SessionTypeOK' BY Zenon, <1>2 DEF WorkerGoes, SessionTypeOK, managerVars
  <2>2. PlaceInv' BY Zenon, <1>2, PlaceStays DEF WorkerGoes, queueVars, managerVars
  <2>3. ErasedInv' BY Zenon, <1>2, ErasedStays DEF WorkerGoes, queueVars, managerVars
  <2>4. StopInv' BY Zenon, <1>2, RestStays, StopStays DEF WorkerGoes, queueVars, managerVars
  <2> QED BY <2>1, <2>2, <2>3, <2>4
<1>3. CASE CreateSession(s)
  <2>1. at \in [Sessions -> Places] /\ s \notin pending BY Zenon, <1>3 DEF CreateSession, SessionTypeOK
  <2>2. SessionTypeOK' BY Zenon, <1>3 DEF CreateSession, SessionTypeOK, Places
  <2>3. PlaceInv'
    <3>1. at'[s] = "greeting" /\ created' = created \cup {s} /\ UNCHANGED <<co, pending>>
      BY Zenon, <1>3, <2>1 DEF CreateSession, queueVars
    <3>2. ASSUME NEW r \in Sessions, r # s PROVE at'[r] = at[r] /\ (r \in created' <=> r \in created)
      BY Zenon, <1>3, <2>1, <3>2 DEF CreateSession
    <3>3. co[s] = "running" BY Zenon, <1>3 DEF CreateSession, PlaceInv
    <3> QED BY Zenon, <2>1, <3>1, <3>2, <3>3 DEF PlaceInv, IoPlaces
  <2>4. ErasedInv' BY Zenon, <1>3 DEF CreateSession, ErasedInv, queueVars
  <2>5. StopInv'
    <3>1. ~Late BY Zenon, <1>3 DEF CreateSession, Late
    <3> QED BY Zenon, <1>3, <3>1, StopStays DEF CreateSession, queueVars
  <2> QED BY <2>2, <2>3, <2>4, <2>5
<1> QED BY <1>1, <1>2, <1>3

\* The queue accepts what the generators submit: its flag is set later.
LEMMA EnqueuePreserves ==
  ASSUME SInv, NEW p \in Producers, EnqueueTasks(p) PROVE SInv'
<1> USE DEF SInv
<1>1. ~Late /\ ~shutdown_ BY DEF EnqueueTasks, StopInv, Late, Closed
<1>2. UNCHANGED <<shutdown_, cancelled, co, result_, dropped>>
  BY <1>1 DEF EnqueueTasks, Q!AddTasks, Q!Enter, Q!queueVars
<1>3. UNCHANGED <<sessionVars, managerVars>> BY DEF EnqueueTasks
<1>4. SessionTypeOK' BY Zenon, <1>3 DEF SessionTypeOK, sessionVars, managerVars
<1>5. PlaceInv' BY <1>2, <1>3, PlaceStays DEF sessionVars, managerVars
<1>6. ErasedInv' BY <1>2, <1>3, ErasedStays DEF managerVars
<1>7. StopInv' BY <1>1, <1>2, <1>3, StopStays DEF managerVars
<1> QED BY <1>4, <1>5, <1>6, <1>7

----------------------------------------------------------------------------
(* Maintenance *)

\* The probe writes a state and cancels a token.
LEMMA ProbePreserves ==
  ASSUME SInv, NEW s \in Sessions, ProbeCheck(s) \/ ProbeStore(s) \/ ProbeCancel(s)
  PROVE  SInv'
<1> USE DEF SInv
<1>1. UNCHANGED <<shutdown_, calls, co, result_, dropped>>
  BY Zenon DEF ProbeCheck, ProbeStore, ProbeCancel, Q!Cancel, Q!queueVars, Q!taskVars, queueVars
<1>2. UNCHANGED <<at, pending, open, gone, termination_requested_, created, active_sessions_,
                  recent_disconnects_, cleanup, server>>
  BY Zenon DEF ProbeCheck, ProbeStore, ProbeCancel, sessionVars
<1>3. SessionTypeOK'
  <2>1. todo' \subseteq todo BY Zenon DEF ProbeCheck, ProbeStore, ProbeCancel
  <2>2. probing' \in {NotProbing, <<"store", s>>, <<"cancel", s>>}
    BY Zenon DEF ProbeCheck, ProbeStore, ProbeCancel
  <2>3. state_' \in [Sessions -> SessionState]
    BY Zenon DEF ProbeCheck, ProbeStore, ProbeCancel, SessionTypeOK, SessionState, sessionVars
  <2> QED BY <1>2, <2>1, <2>2, <2>3 DEF SessionTypeOK
<1>4. PlaceInv' /\ ErasedInv' BY Zenon, <1>1, <1>2, PlaceStays, ErasedStays
<1>5. StopInv' BY Zenon, <1>1, <1>2, RestStays, StopStays
<1> QED BY <1>3, <1>4, <1>5

\* Teardown takes a waiter off the queue with an invalid task; Erase frees a
\* session that is done; RequestTermination cancels what stop() asked to end.
LEMMA VisitPreserves ==
  ASSUME QInv, SInv, NEW s \in Sessions, Teardown(s) \/ Erase(s) \/ RequestTermination(s)
  PROVE  SInv'
<1> USE DEF SInv
<1>1. UNCHANGED <<shutdown_, calls, co, dropped>>
  <2>1. CASE Teardown(s) BY Zenon, <2>1 DEF Teardown, Q!CancelAndResumeWaiter, Q!taskVars, queueVars
  <2>2. CASE Erase(s) BY Zenon, <2>2 DEF Erase, queueVars
  <2>3. CASE RequestTermination(s)
    BY Zenon, <2>3 DEF RequestTermination, Q!Cancel, Q!queueVars, Q!taskVars
  <2> QED BY <2>1, <2>2, <2>3
<1>2. UNCHANGED <<at, pending, open, gone, created, cleanup, probing, server>>
  BY Zenon DEF Teardown, Erase, RequestTermination, sessionVars
<1>3. PlaceInv' BY Zenon, <1>1, <1>2, PlaceStays
<1>4. CASE Teardown(s)
  <2>1. UNCHANGED <<state_, termination_requested_, active_sessions_, recent_disconnects_>>
    BY Zenon, <1>4 DEF Teardown, sessionVars
  <2>2. todo' \subseteq todo BY <1>4 DEF Teardown
  <2>3. SessionTypeOK' BY Zenon, <1>2, <2>1, <2>2 DEF SessionTypeOK
  <2>4. cancelled' = cancelled /\ result_' \in {result_, [result_ EXCEPT ![s] = NoTask]}
    BY Zenon, <1>4 DEF Teardown, Q!CancelAndResumeWaiter, queueVars
  <2>5. ASSUME NEW r \in created, Parked(r) PROVE Parked(r)'
    <3>1. result_ \in [Sessions -> Tasks \cup {NoTask}] /\ created \subseteq Sessions
      BY Zenon DEF QInv, Q!TypeOK, SessionTypeOK
    <3> QED BY <1>1, <2>4, <2>5, <3>1 DEF Parked
  <2>6. AtRest => AtRest' BY Zenon, <1>1, <1>2, <2>5 DEF AtRest, IsDone
  <2>7. StopInv' BY <1>1, <1>2, <2>6, StopStays
  <2> QED BY Zenon, <1>1, <1>2, <1>3, <2>1, <2>3, <2>4, <2>7, ErasedStays
<1>5. CASE Erase(s)
  <2>1. UNCHANGED <<state_, termination_requested_, result_, cancelled>>
    BY Zenon, <1>5 DEF Erase, sessionVars, queueVars
  <2>2. active_sessions_' = active_sessions_ \/ (active_sessions_' = active_sessions_ \ {s} /\ IsDone(s))
    BY Zenon, <1>5 DEF Erase, IsCompleted
  <2>3. todo' \subseteq active_sessions_' BY Zenon, <1>5, <2>2 DEF Erase, SessionTypeOK
  <2>4. recent_disconnects_' \in Seq(Sessions)
    <3>1. recent_disconnects_ \in Seq(Sessions) BY Zenon DEF SessionTypeOK
    <3>2. <<s>> \o recent_disconnects_ \in Seq(Sessions) BY <3>1
    <3>3. ASSUME NEW q \in Seq(Sessions)
          PROVE  SubSeq(q, 1, IF Len(q) > HistoryCap THEN HistoryCap ELSE Len(q)) \in Seq(Sessions)
      BY HistoryAssumption
    <3> HIDE DEF SInv
    <3> QED BY Zenon, <1>5, <3>1, <3>2, <3>3 DEF Erase
  <2>5. SessionTypeOK' BY Zenon, <1>2, <2>1, <2>2, <2>3, <2>4 DEF SessionTypeOK
  <2>6. ErasedInv' BY <1>1, <1>2, <2>2 DEF ErasedInv, IsDone
  <2>7. StopInv' BY Zenon, <1>1, <1>2, <2>1, RestStays, StopStays
  <2> QED BY Zenon, <1>2, <1>3, <2>1, <2>5, <2>6, <2>7
<1>6. CASE RequestTermination(s)
  <2>1. UNCHANGED <<active_sessions_, recent_disconnects_, result_>>
    BY Zenon, <1>6 DEF RequestTermination, Q!Cancel
  <2>2. SessionTypeOK' BY <1>2, <1>6, <2>1 DEF RequestTermination, SessionTypeOK, SessionState
  <2>3. StopInv' BY Zenon, <1>1, <1>2, <2>1, RestStays, StopStays
  <2> QED BY Zenon, <1>1, <1>2, <1>3, <2>1, <2>2, <2>3, ErasedStays
<1> QED BY Zenon, <1>4, <1>5, <1>6

\* A step between the passes, or from one step of stop() to the next, changes
\* neither a session nor the queue.
Between ==
    /\ UNCHANGED <<cancelled, co, result_, calls, dropped, sessionVars, created,
                   active_sessions_, recent_disconnects_, probing>>
    /\ cleanup' \in {"idle", "probe", "teardown", "erase", "terminate", "force"}
    /\ todo' \subseteq active_sessions_

\* Such a step preserves the invariant if stop() comes to the sessions, and
\* the queue's flag is set, only when it may.
LEMMA BetweenPreserves ==
  ASSUME SInv, Between,
         server' \in {"running", "stopping", "io_stopped", "response_stopped", "terminating",
                      "terminated", "queue_shutdown", "cleaning", "stopped"},
         Late' => AtRest, shutdown_' => Closed'
  PROVE  SInv'
<1> USE DEF SInv, Between, sessionVars
<1>1. SessionTypeOK' BY Zenon DEF SessionTypeOK
<1>2. StopInv' BY Zenon, RestStays DEF StopInv
<1> QED BY Zenon, <1>1, <1>2, PlaceStays, ErasedStays

\* Where stop() may go in a step between two passes.
ServerMoves ==
    \/ server' = server
    \/ server = "cleaning" /\ server' = "stopped"
    \/ server = "terminating" /\ server' = "terminated"

\* The steps of the passes that visit no session.
LEMMA PassPreserves ==
  ASSUME SInv, Maintain \/ ProbeDone \/ DrainCancelled \/ CleanupDone \/ TerminateDone \/ ForceDone
  PROVE  SInv'
<1>1. Between /\ ServerMoves /\ shutdown_' = shutdown_
  <2>0. todo \subseteq active_sessions_ BY DEF SInv, SessionTypeOK
  <2> USE <2>0 DEF Between, ServerMoves, queueVars, BeginPass, EndPass
  <2>1. CASE Maintain BY Zenon, <2>1 DEF Maintain
  <2>2. CASE ProbeDone BY Zenon, <2>2 DEF ProbeDone
  <2>3. CASE DrainCancelled BY Zenon, <2>3 DEF DrainCancelled, Q!DrainCancelled, Q!taskVars
  <2>4. CASE CleanupDone BY Zenon, <2>4 DEF CleanupDone
  <2>5. CASE TerminateDone BY Zenon, <2>5 DEF TerminateDone
  <2>6. CASE ForceDone BY Zenon, <2>6 DEF ForceDone, StopStep
  <2> QED BY Zenon, <2>1, <2>2, <2>3, <2>4, <2>5, <2>6
<1>2. (Late' => Late) /\ (Closed => Closed') BY <1>1 DEF ServerMoves, Late, Closed
<1>3. server' \in {server, "stopped", "terminated"} BY <1>1 DEF ServerMoves
<1>4. server' \in {"running", "stopping", "io_stopped", "response_stopped", "terminating",
                   "terminated", "queue_shutdown", "cleaning", "stopped"}
  BY Zenon, <1>3 DEF SInv, SessionTypeOK
<1> QED BY Zenon, <1>1, <1>2, <1>4, BetweenPreserves DEF SInv, StopInv

----------------------------------------------------------------------------
(* stop() *)

\* stop() goes on from the I/O threads to the sessions when no other thread is
\* left: every coroutine is parked with an invalid task, waits for I/O for
\* ever, or is done.
LEMMA QuietIsLate ==
  ASSUME QInv, SessionTypeOK, Quiet
  PROVE  AtRest
<1>1. \A th \in Q!Threads : calls[th] = <<>> /\ resuming[th] = <<>> BY Zenon DEF Quiet, Q!Idle
<1>2. ASSUME NEW s \in created, co[s] = "suspended" PROVE result_[s] = NoTask
  <2>1. s \in Sessions BY Zenon DEF SessionTypeOK
  <2>2. \A th \in Q!Threads : s \notin Q!Range(resuming[th]) BY <1>1 DEF Q!Range
  <2> QED BY Zenon, <1>2, <2>1, <2>2 DEF QInv, Q!HandedTaskIsSeen
<1> QED BY Zenon, <1>1, <1>2 DEF Quiet, AtRest, Parked

\* The steps of stop() preserve the invariant; the flag of the queue is set
\* when nobody is left to add a task.
LEMMA StopPreserves == ASSUME QInv, SInv, Stop \/ StopContinues PROVE SInv'
<1>1. CASE ShutdownContinues BY <1>1, ShutdownPreserves
<1>2. todo \subseteq active_sessions_ /\ cleanup \in {"idle", "probe", "teardown", "erase", "terminate", "force"}
  BY DEF SInv, SessionTypeOK
<1>3. CASE Stop \/ StopIo
  <2>1. /\ Between /\ shutdown_' = shutdown_
        /\ server \in {"running", "stopping"} /\ server' \in {"stopping", "io_stopped"}
    BY Zenon, <1>2, <1>3 DEF Stop, StopIo, StopStep, Between, queueVars
  <2>2. ~Late' /\ ~Closed BY <2>1 DEF Late, Closed
  <2> QED BY Zenon, <2>1, <2>2, BetweenPreserves DEF SInv, StopInv
<1>4. CASE StopResponseContext
  <2>1. /\ Between /\ shutdown_' = shutdown_ /\ Quiet
        /\ server = "io_stopped" /\ server' = "response_stopped"
    BY Zenon, <1>2, <1>4 DEF StopResponseContext, StopStep, Between, queueVars
  <2>2. ~Closed BY <2>1 DEF Closed
  <2>3. AtRest BY <2>1, QuietIsLate DEF SInv
  <2> QED BY Zenon, <2>1, <2>2, <2>3, BetweenPreserves DEF SInv, StopInv
<1>5. CASE TerminateAllSessions
  <2>1. /\ Between /\ shutdown_' = shutdown_
        /\ server = "response_stopped" /\ server' = "terminating"
    BY Zenon, <1>2, <1>5 DEF TerminateAllSessions, StopStep, BeginPass, Between, queueVars
  <2>2. Late /\ ~Closed BY <2>1 DEF Late, Closed
  <2> QED BY Zenon, <2>1, <2>2, BetweenPreserves DEF SInv, StopInv
<1>6. CASE ShutdownQueue \/ StopCleanup
  <2>1. /\ Between
        /\ \/ server = "terminated" /\ server' = "queue_shutdown"
           \/ server = "queue_shutdown" /\ server' = "cleaning"
    <3>1. CASE ShutdownQueue
      BY Zenon, <1>2, <3>1 DEF ShutdownQueue, StopStep, Between, Q!ShutdownFlag, Q!taskVars
    <3>2. CASE StopCleanup
      BY Zenon, <1>2, <3>2 DEF StopCleanup, StopStep, BeginPass, Between, queueVars
    <3> QED BY <1>6, <3>1, <3>2
  <2>2. Late /\ Closed' BY <2>1 DEF Late, Closed
  <2> QED BY Zenon, <2>1, <2>2, BetweenPreserves DEF SInv, StopInv
<1> QED BY <1>1, <1>3, <1>4, <1>5, <1>6 DEF StopContinues

----------------------------------------------------------------------------
(* The inductive invariant *)

\* Nothing is created, running or cancelled when the server starts.
LEMMA InitSInv == Init => SInv
<1> SUFFICES ASSUME Init PROVE SInv OBVIOUS
<1> USE DEF Init
<1>1. SessionTypeOK BY DEF SessionTypeOK, SessionState, Places
<1>2. PlaceInv BY Zenon DEF PlaceInv, IoPlaces, Q!Init
<1>3. ErasedInv /\ StopInv BY Zenon DEF ErasedInv, StopInv, Late, Q!Init
<1> QED BY <1>1, <1>2, <1>3 DEF SInv

\* Every step preserves the sessions' invariant, the queue's given.
LEMMA NextSInv == QInv /\ SInv /\ [Next]_vars => SInv'
<1> SUFFICES ASSUME QInv, SInv, [Next]_vars PROVE SInv' OBVIOUS
<1>1. CASE UNCHANGED vars
  <2>1. UNCHANGED <<shutdown_, cancelled, co, result_, calls, dropped>> BY Zenon, <1>1 DEF vars, queueVars
  <2>2. UNCHANGED <<sessionVars, managerVars>> BY <1>1 DEF vars
  <2>3. SessionTypeOK' BY Zenon, <2>2 DEF SInv, SessionTypeOK, sessionVars, managerVars
  <2>4. StopInv' BY Zenon, <2>1, <2>2, RestStays, StopStays DEF SInv, sessionVars, managerVars
  <2> QED BY Zenon, <2>1, <2>2, <2>3, <2>4, PlaceStays, ErasedStays
          DEF SInv, sessionVars, managerVars
<1>2. CASE Stopped BY <1>1, <1>2 DEF Stopped
<1>3. CASE CleanupStep BY <1>3, ProbePreserves, VisitPreserves, PassPreserves DEF CleanupStep
<1>4. CASE Maintain BY <1>4, PassPreserves
<1>5. CASE Stop \/ StopContinues BY <1>5, StopPreserves
<1>6. ASSUME NEW s \in Sessions,
             \/ CreateSession(s) \/ CoroutineStep(s) \/ IoSuspend(s) \/ IoStep(s) \/ WorkerGoes(s)
      PROVE  SInv'
  BY <1>6, SessionPreserves, CoroutinePreserves, IoPreserves
<1>7. ASSUME NEW p \in Producers, EnqueueTasks(p) PROVE SInv' BY <1>7, EnqueuePreserves
<1>8. ASSUME NEW th \in Q!Threads, InThread(th) PROVE SInv' BY <1>8, ThreadPreserves
<1> QED BY Zenon, <1>1, <1>2, <1>3, <1>4, <1>5, <1>6, <1>7, <1>8 DEF Next

----------------------------------------------------------------------------
(* The queue the sessions use is the one of module TaskMessageQueueProofs  *)

QP == INSTANCE TaskMessageQueueProofs

\* Both instances start in the same state.
LEMMA QueueInitAgrees == Q!Init => QP!Init
  BY Zenon DEF Q!Init, QP!Init, Q!Threads, QP!Threads

\* The library operators mean the same in both instances: the elements of a
\* sequence, ...
LEMMA RangeAgrees == ASSUME NEW f PROVE Q!Range(f) = QP!Range(f) BY DEF Q!Range, QP!Range

\* ... a sequence without repetition, ...
LEMMA InjectiveAgrees == ASSUME NEW f PROVE Q!IsInjective(f) <=> QP!IsInjective(f)
  BY DEF Q!IsInjective, QP!IsInjective

\* ... and the functions without repetition.
LEMMA InjectionAgrees == ASSUME NEW S, NEW T PROVE Q!Injection(S, T) = QP!Injection(S, T)
  BY InjectiveAgrees DEF Q!Injection, QP!Injection

\* A step of the queue as the sessions use it is a step of the queue that the
\* proofs are about.
LEMMA QueueNextAgrees == [Q!Next]_(Q!vars) => [QP!Next]_(QP!vars)
<1> SUFFICES ASSUME Q!Next PROVE QP!Next BY DEF Q!vars, QP!vars
<1>1. Q!Threads = QP!Threads BY DEF Q!Threads, QP!Threads
<1>2. ASSUME NEW th PROVE Q!Idle(th) <=> QP!Idle(th) BY DEF Q!Idle, QP!Idle
<1>3. ASSUME NEW q, NEW S PROVE Q!Without(q, S) = QP!Without(q, S)
  BY Zenon, RangeAgrees, InjectionAgrees DEF Q!Without, QP!Without
<1>4. ASSUME NEW th, NEW ts PROVE Q!Enter(th, ts) <=> QP!Enter(th, ts)
  BY RangeAgrees DEF Q!Enter, QP!Enter
<1>5. ASSUME NEW s, NEW where PROVE Q!Goto(s, where) <=> QP!Goto(s, where) BY DEF Q!Goto, QP!Goto
<1>6. ASSUME NEW t PROVE Q!Outcome(t) = QP!Outcome(t) BY DEF Q!Outcome, QP!Outcome
<1>7. ASSUME NEW s PROVE Q!TakeFront(s) <=> QP!TakeFront(s) BY <1>5 DEF Q!TakeFront, QP!TakeFront
<1>8. ASSUME NEW th PROVE Q!Resume(th) <=> QP!Resume(th) BY <1>5, <1>6 DEF Q!Resume, QP!Resume
<1>9. ASSUME NEW k PROVE Q!IsFirstLive(k) <=> QP!IsFirstLive(k) BY DEF Q!IsFirstLive, QP!IsFirstLive
<1> USE DEF Q!queueVars, QP!queueVars, Q!taskVars, QP!taskVars
<1>10. ASSUME NEW s \in Sessions, Q!SessionStep(s) PROVE QP!SessionStep(s)
  <2>1. Q!GetNextTask(s) => QP!GetNextTask(s) BY <1>5 DEF Q!GetNextTask, QP!GetNextTask
  <2>2. Q!AwaitReady(s) => QP!AwaitReady(s) BY <1>5, <1>6 DEF Q!AwaitReady, QP!AwaitReady
  <2>3. Q!TryGetTaskImmediately(s) => QP!TryGetTaskImmediately(s)
    BY <1>5, <1>7 DEF Q!TryGetTaskImmediately, QP!TryGetTaskImmediately
  <2>4. Q!AwaitSuspendCheck(s) => QP!AwaitSuspendCheck(s)
    BY <1>5, <1>6 DEF Q!AwaitSuspendCheck, QP!AwaitSuspendCheck, Q!GivesUp, QP!GivesUp
  <2>5. Q!AwaitSuspendLocked(s) => QP!AwaitSuspendLocked(s)
    BY Zenon, <1>5, <1>6, <1>7 DEF Q!AwaitSuspendLocked, QP!AwaitSuspendLocked, Q!GivesUp, QP!GivesUp
  <2>6. Q!RequeueReturns(s) => QP!RequeueReturns(s)
    BY <1>2, <1>5 DEF Q!RequeueReturns, QP!RequeueReturns
  <2> QED BY <1>10, <2>1, <2>2, <2>3, <2>4, <2>5, <2>6 DEF Q!SessionStep, QP!SessionStep
<1>11. ASSUME NEW s \in Sessions, Q!Requeue(s) PROVE QP!Requeue(s)
  BY <1>4, <1>5, <1>11 DEF Q!Requeue, QP!Requeue
<1>12. ASSUME NEW s \in Sessions, Q!Complete(s) PROVE QP!Complete(s)
  BY <1>5, <1>12 DEF Q!Complete, QP!Complete
<1>13. ASSUME NEW s \in Sessions, Q!Leave(s) PROVE QP!Leave(s)
  BY <1>5, <1>13 DEF Q!Leave, QP!Leave
<1>14. ASSUME NEW s \in Sessions, Q!Cancel(s) PROVE QP!Cancel(s)
  BY <1>14 DEF Q!Cancel, QP!Cancel
<1>15. ASSUME NEW s \in Sessions, Q!CancelAndResumeWaiter(s) PROVE QP!CancelAndResumeWaiter(s)
  BY Zenon, RangeAgrees, <1>2, <1>3, <1>15 DEF Q!CancelAndResumeWaiter, QP!CancelAndResumeWaiter
<1>16. ASSUME NEW p \in Producers, Q!AddTasks(p) PROVE QP!AddTasks(p)
  <2>1. Q!NewBatches = QP!NewBatches BY Zenon, InjectionAgrees DEF Q!NewBatches, QP!NewBatches
  <2> QED BY RangeAgrees, <1>2, <1>4, <1>16, <2>1 DEF Q!AddTasks, QP!AddTasks
<1>17. ASSUME NEW th, Q!Distribute(th) PROVE QP!Distribute(th)
  BY Zenon, <1>9, <1>17 DEF Q!Distribute, QP!Distribute
<1>18. ASSUME NEW th, Q!ResumeWaiter(th) PROVE QP!ResumeWaiter(th)
  BY <1>8, <1>18 DEF Q!ResumeWaiter, QP!ResumeWaiter
<1>19. ASSUME Q!DrainCancelled PROVE QP!DrainCancelled
  BY <1>2, <1>3, <1>19 DEF Q!DrainCancelled, QP!DrainCancelled
<1>20. ASSUME Q!ShutdownFlag PROVE QP!ShutdownFlag BY <1>20 DEF Q!ShutdownFlag, QP!ShutdownFlag
<1>21. ASSUME Q!ShutdownSwap PROVE QP!ShutdownSwap BY <1>21 DEF Q!ShutdownSwap, QP!ShutdownSwap
<1>22. ASSUME Q!ShutdownResume PROVE QP!ShutdownResume
  BY <1>8, <1>22 DEF Q!ShutdownResume, QP!ShutdownResume
<1>23. ASSUME NEW th, Q!ThreadStep(th) PROVE QP!ThreadStep(th)
  BY <1>17, <1>18, <1>23 DEF Q!ThreadStep, QP!ThreadStep
<1>24. ASSUME Q!ShutdownStep PROVE QP!ShutdownStep
  BY <1>21, <1>22, <1>24 DEF Q!ShutdownStep, QP!ShutdownStep
<1> QED
  BY <1>1, <1>10, <1>11, <1>12, <1>13, <1>14, <1>15, <1>16, <1>19, <1>20, <1>23, <1>24
  DEF Q!Next, QP!Next

\* The queue's inductive invariant says what the sessions rely on.
LEMMA QueueInvAgrees == QP!IInv => QInv
<1> SUFFICES ASSUME QP!IInv PROVE QInv OBVIOUS
<1>1. Q!Threads = QP!Threads BY DEF Q!Threads, QP!Threads
<1>2. Q!CoStates = QP!CoStates BY DEF Q!CoStates, QP!CoStates
<1>3. Q!TypeOK BY <1>1, <1>2 DEF QP!IInv, QP!TypeOK, Q!TypeOK
<1>4. Q!HandleResumedOnce
  BY Zenon, RangeAgrees, InjectiveAgrees, <1>1
  DEF QP!IInv, QP!HandleInv, QP!HandleResumedOnce, Q!HandleResumedOnce
<1>5. Q!HandedTaskIsSeen
  BY RangeAgrees, <1>1 DEF QP!IInv, QP!HandleInv, QP!HandedTaskIsSeen, Q!HandedTaskIsSeen
<1> QED BY <1>3, <1>4, <1>5 DEF QInv

\* The sessions, whatever else happens to them, always find the queue as its
\* own proofs promise: they only use it through its operations.
LEMMA QueueGuarantees == Spec => []QInv
<1>1. QP!Spec => []QP!IInv BY QP!Invariance, TaskAssumption, ThreadAssumption, BatchAssumption
<1> QED BY <1>1, UsesQueueCorrectly, QueueInitAgrees, QueueNextAgrees, QueueInvAgrees, PTL
        DEF ImplementsQueue, Q!Spec, QP!Spec

----------------------------------------------------------------------------
(* The invariants of the sessions *)

\* The inductive invariant holds: the queue's guarantees carry the sessions'.
THEOREM SessionInvariance == Spec => [](QInv /\ SInv)
  BY InitSInv, NextSInv, QueueGuarantees, PTL DEF Spec

\* Every variable keeps its type: property TypeOK.
THEOREM SessionTypeCorrect == Spec => []TypeOK
<1>1. QInv /\ SInv => TypeOK BY Zenon DEF QInv, SInv, TypeOK
<1> QED BY <1>1, SessionInvariance, PTL

\* cleanup_completed_sessions frees a coroutine frame only when nobody can
\* resume it any more: property NoDanglingHandle.
THEOREM FreedWhenUnreachable == Spec => []NoDanglingHandle
<1>1. ASSUME QInv, SInv, NEW s \in created \ active_sessions_
      PROVE  IsDone(s) /\ ~Q!Reachable(s) /\ s \notin pending /\ result_[s] = NoTask
  <2>1. s \in Sessions /\ co[s] = "exited" BY Zenon, <1>1 DEF SInv, SessionTypeOK, ErasedInv
  <2>2. ~Q!Reachable(s) BY <1>1, <2>1 DEF QInv, Q!HandleResumedOnce, Q!Reachable
  <2>3. result_[s] = NoTask BY <1>1, <2>1 DEF QInv, Q!HandedTaskIsSeen
  <2>4. s \notin pending BY Zenon, <1>1, <2>1 DEF SInv, PlaceInv
  <2> QED BY <2>1, <2>2, <2>3, <2>4 DEF IsDone
<1>2. QInv /\ SInv => NoDanglingHandle BY Zenon, <1>1 DEF NoDanglingHandle
<1> QED BY <1>2, SessionInvariance, PTL

\* The order in which AsyncTransportServer::stop takes the server apart makes
\* add_task refuse no task: property NoTaskRefused.
THEOREM StopRefusesNoTask == Spec => []NoTaskRefused
<1>1. SInv => NoTaskRefused BY Zenon DEF SInv, StopInv, NoTaskRefused, Closed, Late, AtRest
<1> QED BY <1>1, SessionInvariance, PTL
=============================================================================
