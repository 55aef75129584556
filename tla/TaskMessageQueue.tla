-------------------------- MODULE TaskMessageQueue --------------------------
(***************************************************************************)
(* The dispatcher's shared task queue: class TaskMessageQueue, the         *)
(* awaitable TaskQueueAwaitable that get_next_task returns, and the        *)
(* CancellationToken stored with a waiter (src/message).                   *)
(*                                                                         *)
(* One action is one critical section of mutex_, one atomic access made    *)
(* outside of it, or one resumption of a coroutine.  A session coroutine   *)
(* is identified with its handle, its awaitable and its token: each        *)
(* Session owns one of each.  The body of the session is left open here:   *)
(* a session that holds a task completes it or puts it back with add_task. *)
(***************************************************************************)
EXTENDS Naturals, Sequences, Functions

CONSTANTS
    Sessions,     \* the session coroutines
    Tasks,        \* the valid TaskMessages (task_id /= 0)
    Producers,    \* the threads that call add_tasks
    Maintenance,  \* the thread that tears dead sessions down
    Stopper,      \* the thread that calls shutdown()
    NoTask,       \* TaskMessage{}: the invalid task, task_id = 0
    MaxBatch      \* bound on the tasks of one add_tasks call

Threads == Producers \cup Sessions \cup {Maintenance, Stopper}

ASSUME TaskAssumption == NoTask \notin Tasks

ASSUME ThreadAssumption ==
    /\ Producers \cap Sessions = {}
    /\ Maintenance \notin Producers \cup Sessions
    /\ Stopper \notin Producers \cup Sessions
    /\ Maintenance # Stopper

ASSUME BatchAssumption == MaxBatch \in Nat

VARIABLES
    shutdown_,         \* the atomic flag
    swapped,           \* shutdown() has emptied waiting_workers_
    tasks_,            \* the deque of pending tasks
    waiting_workers_,  \* the queue of Waiters {handle, awaiter, token}
    cancelled,         \* the sessions whose token is_cancelled()
    co,                \* where each session coroutine is
    result_,           \* the task in a session's awaitable, then in its hands
    calls,             \* add_task(s) calls past the flag: tasks still to place
    resuming,          \* handles taken off waiting_workers_, not yet resumed
    issued,            \* tasks handed to add_tasks so far
    completed,         \* tasks completed by a session
    dropped            \* tasks an add_task(s) call returned without keeping

queueVars == <<shutdown_, swapped, tasks_, waiting_workers_>>
taskVars  == <<issued, completed, dropped>>
vars == <<shutdown_, swapped, tasks_, waiting_workers_, cancelled, co, result_,
          calls, resuming, issued, completed, dropped>>

\* running:    between two tasks        ready:     entering await_ready
\* trying:     before try_get's lock    suspending: entering await_suspend
\* locking:    before its lock          suspended: parked in the queue
\* working:    has a valid task         requeuing: inside its own add_task
\* exited:     got an invalid task, left its loop, at final_suspend
CoStates == {"running", "ready", "trying", "suspending", "locking",
             "suspended", "working", "requeuing", "exited"}

Init ==
    /\ shutdown_ = FALSE
    /\ swapped = FALSE
    /\ tasks_ = <<>>
    /\ waiting_workers_ = <<>>
    /\ cancelled = {}
    /\ co = [s \in Sessions |-> "running"]
    /\ result_ = [s \in Sessions |-> NoTask]
    /\ calls = [th \in Threads |-> <<>>]
    /\ resuming = [th \in Threads |-> <<>>]
    /\ issued = {}
    /\ completed = {}
    /\ dropped = {}

----------------------------------------------------------------------------
(* co_await get_next_task(token) *)

\* The coroutine goes on with the task t: the loop of Session::run_coroutine
\* keeps a valid one and breaks on TaskMessage{}.
Outcome(t) == IF t = NoTask THEN "exited" ELSE "working"

Goto(s, where) == co' = [co EXCEPT ![s] = where]

\* Pop the front of the deque into the awaitable of s.
TakeFront(s) ==
    /\ tasks_ # <<>>
    /\ result_' = [result_ EXCEPT ![s] = Head(tasks_)]
    /\ tasks_' = Tail(tasks_)
    /\ Goto(s, "working")

GetNextTask(s) ==
    /\ co[s] = "running"
    /\ Goto(s, "ready")
    /\ UNCHANGED <<queueVars, cancelled, result_, calls, resuming, taskVars>>

\* await_ready up to the lock of try_get_task_immediately.
AwaitReady(s) ==
    /\ co[s] = "ready"
    /\ Goto(s, IF s \in cancelled THEN Outcome(NoTask)
               ELSE IF shutdown_ THEN "suspending" ELSE "trying")
    /\ UNCHANGED <<queueVars, cancelled, result_, calls, resuming, taskVars>>

TryGetTaskImmediately(s) ==
    /\ co[s] = "trying"
    /\ \/ TakeFront(s)
       \/ /\ tasks_ = <<>>
          /\ Goto(s, "suspending")
          /\ UNCHANGED <<tasks_, result_>>
    /\ UNCHANGED <<shutdown_, swapped, waiting_workers_, cancelled, calls,
                   resuming, taskVars>>


GivesUp(s) == shutdown_ \/ s \in cancelled

\* await_suspend before its lock.
AwaitSuspendCheck(s) ==
    /\ co[s] = "suspending"
    /\ Goto(s, IF GivesUp(s) THEN Outcome(NoTask) ELSE "locking")
    /\ UNCHANGED <<queueVars, cancelled, result_, calls, resuming, taskVars>>

\* Mutant: the deque is not looked at again under the lock.
AwaitSuspendWithoutRetry(s) ==
    /\ co[s] = "locking"
    /\ IF GivesUp(s)
         THEN /\ Goto(s, Outcome(NoTask))
              /\ UNCHANGED waiting_workers_
         ELSE /\ waiting_workers_' = Append(waiting_workers_, s)
              /\ Goto(s, "suspended")
    /\ UNCHANGED <<shutdown_, swapped, tasks_, cancelled, result_, calls,
                   resuming, taskVars>>

\* await_suspend under the lock: check again, take a task, or park.
AwaitSuspendLocked(s) ==
    /\ co[s] = "locking"
    /\ \/ /\ GivesUp(s)
          /\ Goto(s, Outcome(NoTask))
          /\ UNCHANGED <<tasks_, waiting_workers_, result_>>
       \/ /\ ~GivesUp(s)
          /\ TakeFront(s)
          /\ UNCHANGED waiting_workers_
       \/ /\ ~GivesUp(s)
          /\ tasks_ = <<>>
          /\ waiting_workers_' = Append(waiting_workers_, s)
          /\ Goto(s, "suspended")
          /\ UNCHANGED <<tasks_, result_>>
    /\ UNCHANGED <<shutdown_, swapped, cancelled, calls, resuming, taskVars>>

----------------------------------------------------------------------------
(* add_task, add_tasks *)

Idle(th) == calls[th] = <<>> /\ resuming[th] = <<>>

\* The call reads shutdown_ before it locks; when set, it returns and the
\* tasks of its argument are destroyed.
Enter(th, ts) ==
    IF shutdown_
      THEN /\ dropped' = dropped \cup Range(ts)
           /\ UNCHANGED calls
      ELSE /\ calls' = [calls EXCEPT ![th] = ts]
           /\ UNCHANGED dropped

NewBatches == UNION {Injection(1..n, Tasks \ issued) : n \in 1..MaxBatch}

AddTasks(p) ==
    /\ Idle(p)
    /\ \E ts \in NewBatches :
          /\ issued' = issued \cup Range(ts)
          /\ Enter(p, ts)
    /\ UNCHANGED <<queueVars, cancelled, co, result_, resuming, completed>>

\* A session puts its task back (I/O error, bad reply) on its own thread.
Requeue(s) ==
    /\ co[s] = "working"
    /\ Goto(s, "requeuing")
    /\ Enter(s, <<result_[s]>>)
    /\ result_' = [result_ EXCEPT ![s] = NoTask]
    /\ UNCHANGED <<queueVars, cancelled, resuming, issued, completed>>

\* The position of the first waiter whose token is live; past the end if none.
IsFirstLive(k) ==
    /\ k \in 1 .. Len(waiting_workers_) + 1
    /\ \A i \in 1 .. k-1 : waiting_workers_[i] \in cancelled
    /\ k \in DOMAIN waiting_workers_ => waiting_workers_[k] \notin cancelled

\* Mutant: without a waiter add_tasks keeps only the task it is at.
DistributeFirstOnly(th) ==
    /\ calls[th] # <<>>
    /\ resuming[th] = <<>>
    /\ IsFirstLive(Len(waiting_workers_) + 1)
    /\ waiting_workers_' = <<>>
    /\ tasks_' = Append(tasks_, Head(calls[th]))
    /\ calls' = [calls EXCEPT ![th] = <<>>]
    /\ UNCHANGED <<shutdown_, swapped, cancelled, co, result_, resuming, taskVars>>

\* Mutant: the tasks are pushed to the front of the deque.
DistributeToFront(th) ==
    /\ calls[th] # <<>>
    /\ resuming[th] = <<>>
    /\ IsFirstLive(Len(waiting_workers_) + 1)
    /\ waiting_workers_' = <<>>
    /\ tasks_' = calls[th] \o tasks_
    /\ calls' = [calls EXCEPT ![th] = <<>>]
    /\ UNCHANGED <<shutdown_, swapped, cancelled, co, result_, resuming, taskVars>>

\* Under the lock: pop and discard cancelled waiters; give the first task to
\* the first live waiter and leave the lock to resume it, or append every task
\* left (no waiter can appear while the lock is held).
Distribute(th) ==
    /\ calls[th] # <<>>
    /\ resuming[th] = <<>>
    /\ \E k \in 1 .. Len(waiting_workers_) + 1 :
          /\ IsFirstLive(k)
          /\ waiting_workers_' =
                SubSeq(waiting_workers_, k + 1, Len(waiting_workers_))
          /\ IF k \in DOMAIN waiting_workers_
               THEN LET w == waiting_workers_[k]
                    IN  /\ result_' = [result_ EXCEPT ![w] = Head(calls[th])]
                        /\ resuming' = [resuming EXCEPT ![th] = <<w>>]
                        /\ calls' = [calls EXCEPT ![th] = Tail(@)]
                        /\ UNCHANGED tasks_
               ELSE /\ tasks_' = tasks_ \o calls[th]
                    /\ calls' = [calls EXCEPT ![th] = <<>>]
                    /\ UNCHANGED <<result_, resuming>>
    /\ UNCHANGED <<shutdown_, swapped, cancelled, co, taskVars>>

\* handle.resume() outside the lock, by add_task(s), by
\* cancel_and_resume_waiter or by shutdown(): await_resume moves result_ out.
Resume(th) ==
    /\ resuming[th] # <<>>
    /\ LET w == Head(resuming[th])
       IN  Goto(w, Outcome(result_[w]))
    /\ resuming' = [resuming EXCEPT ![th] = Tail(@)]

ResumeWaiter(th) ==
    /\ th # Stopper
    /\ Resume(th)
    /\ UNCHANGED <<queueVars, cancelled, result_, calls, taskVars>>

\* add_task has returned to the session, which goes on or gives up.
RequeueReturns(s) ==
    /\ co[s] = "requeuing"
    /\ Idle(s)
    /\ \E where \in {"running", "exited"} : Goto(s, where)
    /\ UNCHANGED <<queueVars, cancelled, result_, calls, resuming, taskVars>>

Complete(s) ==
    /\ co[s] = "working"
    /\ completed' = completed \cup {result_[s]}
    /\ result_' = [result_ EXCEPT ![s] = NoTask]
    /\ Goto(s, "running")
    /\ UNCHANGED <<queueVars, cancelled, calls, resuming, issued, dropped>>

\* The session leaves its loop without asking for another task.
Leave(s) ==
    /\ co[s] = "running"
    /\ Goto(s, "exited")
    /\ UNCHANGED <<queueVars, cancelled, result_, calls, resuming, taskVars>>

----------------------------------------------------------------------------
(* Cancellation *)

Cancel(s) ==
    /\ cancelled' = cancelled \cup {s}
    /\ UNCHANGED <<queueVars, co, result_, calls, resuming, taskVars>>

\* The sequences (there is one) with the elements of q outside S, in order.
Without(q, S) ==
    {r \in UNION {Injection(1..n, Range(q) \ S) : n \in 0 .. Len(q)} :
        /\ Range(q) \ S \subseteq Range(r)
        /\ \A i, j \in DOMAIN r : \A a, b \in DOMAIN q :
              (i < j /\ q[a] = r[i] /\ q[b] = r[j]) => a < b}

DrainCancelled ==
    /\ Idle(Maintenance)
    /\ waiting_workers_' \in Without(waiting_workers_, cancelled)
    /\ UNCHANGED <<shutdown_, swapped, tasks_, cancelled, co, result_, calls,
                   resuming, taskVars>>

\* Mutant: the waiter is resumed but left in the queue.
CancelAndResumeInPlace(s) ==
    /\ Idle(Maintenance)
    /\ s \in Range(waiting_workers_)
    /\ resuming' = [resuming EXCEPT ![Maintenance] = <<s>>]
    /\ UNCHANGED <<queueVars, cancelled, co, result_, calls, taskVars>>

\* Take the waiter of s off the queue with an invalid result, to resume it
\* outside the lock; nothing when s is not in the queue.
CancelAndResumeWaiter(s) ==
    /\ Idle(Maintenance)
    /\ waiting_workers_' \in Without(waiting_workers_, {s})
    /\ IF s \in Range(waiting_workers_)
         THEN /\ result_' = [result_ EXCEPT ![s] = NoTask]
              /\ resuming' = [resuming EXCEPT ![Maintenance] = <<s>>]
         ELSE UNCHANGED <<result_, resuming>>
    /\ UNCHANGED <<shutdown_, swapped, tasks_, cancelled, co, calls, taskVars>>

----------------------------------------------------------------------------
(* shutdown(): flag, swap under the lock, resume what was swapped out *)

ShutdownFlag ==
    /\ ~shutdown_
    /\ shutdown_' = TRUE
    /\ UNCHANGED <<swapped, tasks_, waiting_workers_, cancelled, co, result_,
                   calls, resuming, taskVars>>

\* Mutant: the waiters are cleared instead of being swapped out and resumed.
ShutdownClear ==
    /\ shutdown_
    /\ ~swapped
    /\ swapped' = TRUE
    /\ waiting_workers_' = <<>>
    /\ UNCHANGED <<shutdown_, tasks_, cancelled, co, result_, calls, resuming, taskVars>>

ShutdownSwap ==
    /\ shutdown_
    /\ ~swapped
    /\ swapped' = TRUE
    /\ resuming' = [resuming EXCEPT ![Stopper] = waiting_workers_]
    /\ waiting_workers_' = <<>>
    /\ UNCHANGED <<shutdown_, tasks_, cancelled, co, result_, calls, taskVars>>

\* A waiter whose token was cancelled meanwhile is skipped.
ShutdownResume ==
    /\ \/ /\ resuming[Stopper] # <<>>
          /\ Head(resuming[Stopper]) \in cancelled
          /\ resuming' = [resuming EXCEPT ![Stopper] = Tail(@)]
          /\ UNCHANGED co
       \/ /\ resuming[Stopper] # <<>>
          /\ Head(resuming[Stopper]) \notin cancelled
          /\ Resume(Stopper)
    /\ UNCHANGED <<queueVars, cancelled, result_, calls, taskVars>>

----------------------------------------------------------------------------

SessionStep(s) ==
    \/ GetNextTask(s)
    \/ AwaitReady(s)
    \/ TryGetTaskImmediately(s)
    \/ AwaitSuspendCheck(s)
    \/ AwaitSuspendLocked(s)
    \/ RequeueReturns(s)

\* The steps of a call in progress: they are never blocked.
ThreadStep(th) == Distribute(th) \/ ResumeWaiter(th)

ShutdownStep == ShutdownSwap \/ ShutdownResume

Next ==
    \/ \E s \in Sessions :
          \/ SessionStep(s)
          \/ Requeue(s)
          \/ Complete(s)
          \/ Leave(s)
          \/ Cancel(s)
          \/ CancelAndResumeWaiter(s)
    \/ \E p \in Producers : AddTasks(p)
    \/ \E th \in Threads : ThreadStep(th)
    \/ DrainCancelled
    \/ ShutdownFlag
    \/ ShutdownStep

Spec == Init /\ [][Next]_vars

\* The threads of the process run on: a call in progress, a coroutine that is
\* not parked and a shutdown under way keep taking steps.  A worker answers or
\* its connection fails, so a session does not keep a task for ever.
Fairness ==
    /\ \A s \in Sessions :
          /\ WF_vars(SessionStep(s))
          /\ WF_vars(Complete(s) \/ Requeue(s))
    /\ \A th \in Threads : WF_vars(ThreadStep(th))
    /\ WF_vars(ShutdownStep)

FairSpec == Spec /\ Fairness

----------------------------------------------------------------------------
(* Properties *)

Queued == Range(tasks_)
Held   == {result_[s] : s \in Sessions} \ {NoTask}
InCall == UNION {Range(calls[th]) : th \in Threads}

TypeOK ==
    /\ shutdown_ \in BOOLEAN
    /\ swapped \in BOOLEAN
    /\ tasks_ \in Seq(Tasks)
    /\ waiting_workers_ \in Seq(Sessions)
    /\ cancelled \subseteq Sessions
    /\ co \in [Sessions -> CoStates]
    /\ result_ \in [Sessions -> Tasks \cup {NoTask}]
    /\ calls \in [Threads -> Seq(Tasks)]
    /\ resuming \in [Threads -> Seq(Sessions)]
    /\ issued \subseteq Tasks
    /\ completed \subseteq Tasks
    /\ dropped \subseteq Tasks

\* No task that was handed to add_tasks disappears: whatever add_task(s),
\* await_ready, await_suspend, requeues, cancellations and shutdown() do to
\* it, it is in the deque, in a call, in the hands of a session, completed, or
\* was refused by the shutdown check at the top of add_task(s).
NoTaskLost ==
    issued = Queued \cup Held \cup InCall \cup completed \cup dropped

EachOnce ==
    /\ IsInjective(tasks_)
    /\ \A s1, s2 \in Sessions :
          (result_[s1] = result_[s2] /\ result_[s1] # NoTask) => s1 = s2
    /\ \A th \in Threads : IsInjective(calls[th])
    /\ \A th1, th2 \in Threads :
          th1 # th2 => Range(calls[th1]) \cap Range(calls[th2]) = {}

PlacesDisjoint ==
    /\ Queued \cap (Held \cup InCall) = {}
    /\ Held \cap InCall = {}
    /\ completed \cap (Queued \cup Held \cup InCall) = {}
    /\ dropped \cap (Queued \cup Held \cup InCall \cup completed) = {}

\* No task is in two of those places, or twice in one: it is never sent to
\* two sessions at a time and never queued again after it was completed.
NoTaskTwice == EachOnce /\ PlacesDisjoint

\* Tasks and parked sessions never wait for each other: the deque is empty
\* whenever waiting_workers_ is not (await_suspend looks at the deque again
\* under the lock, add_task looks at the waiters before it appends).
NeverBothWait == tasks_ = <<>> \/ waiting_workers_ = <<>>

\* A coroutine handle is resumed by one thread, once per suspension: the
\* handles in waiting_workers_ and in the hands of add_task(s), shutdown() and
\* cancel_and_resume_waiter are all different and all of parked coroutines.
HandleResumedOnce ==
    /\ IsInjective(waiting_workers_)
    /\ \A s \in Range(waiting_workers_) : co[s] = "suspended"
    /\ \A th \in Threads :
          /\ IsInjective(resuming[th])
          /\ \A s \in Range(resuming[th]) : co[s] = "suspended"
          /\ Range(resuming[th]) \cap Range(waiting_workers_) = {}
    /\ \A th1, th2 \in Threads :
          th1 # th2 => Range(resuming[th1]) \cap Range(resuming[th2]) = {}

\* A task put in the awaitable of a parked session is seen by that session:
\* the thread that put it there is about to resume it, and it is not shutdown()
\* (which skips cancelled waiters), so the task cannot be stranded there.
HandedTaskIsSeen ==
    \A s \in Sessions :
        result_[s] # NoTask =>
            \/ co[s] = "working"
            \/ /\ co[s] = "suspended"
               /\ \E th \in Threads \ {Stopper} : s \in Range(resuming[th])

\* The handle of a parked coroutine is still known to the queue or to a thread
\* about to resume it.
Reachable(s) ==
    \/ s \in Range(waiting_workers_)
    \/ \E th \in Threads : s \in Range(resuming[th])

\* Only a cancelled session can be forgotten: add_task, drain_cancelled and
\* shutdown() discard waiters without resuming them, but none with a live token.
OnlyCancelledStranded ==
    \A s \in Sessions : co[s] = "suspended" => Reachable(s) \/ s \in cancelled

\* Once shutdown() has emptied waiting_workers_ nobody parks any more: a
\* session that passed the first check of await_suspend before the flag was
\* set sees it under the lock.
NobodyParksAfterShutdown == swapped => waiting_workers_ = <<>>

\* The queue implements the FIFO pool of module TaskPool.
Pool == INSTANCE TaskPool WITH
            pool <- tasks_, offered <- InCall, held <- result_,
            fresh <- Tasks \ issued, refused <- dropped, closed <- shutdown_

\* Every step of the queue is a step of the pool or changes nothing in it:
\* in particular add_task hands a task directly to a waiter only while the
\* deque is empty, so tasks are handed out in the order they were accepted.
ImplementsPool == Pool!Spec

\* After shutdown() every session still parked is one whose token is cancelled:
\* the others have been resumed with an invalid task.
ShutdownWakesLive ==
    shutdown_ ~> [](\A s \in Sessions : co[s] = "suspended" => s \in cancelled)

\* A task in the deque does not stay there for ever while some session is
\* still taking tasks and the queue is not shut down.
QueuedTaskIsTaken ==
    \A t \in Tasks :
        t \in Queued ~> \/ t \notin Queued
                        \/ shutdown_
                        \/ \A s \in Sessions : co[s] = "exited" \/ s \in cancelled
=============================================================================
