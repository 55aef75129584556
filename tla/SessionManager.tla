--------------------------- MODULE SessionManager ---------------------------
(***************************************************************************)
(* The dispatcher around its task queue: the coroutine of each Session,    *)
(* the SessionManager that creates, probes, tears down and erases sessions,*)
(* and the start and stop sequence of AsyncTransportServer                 *)
(* (src/dispatcher/session, src/dispatcher/transport).                     *)
(*                                                                         *)
(* The queue is module TaskMessageQueue, at its own granularity; this      *)
(* module gives its session coroutines the body of Session::run_coroutine  *)
(* and its Maintenance and Stopper threads the callers they have.  Code a  *)
(* coroutine runs between two suspensions without touching shared state is *)
(* part of the step that resumed it.                                       *)
(***************************************************************************)
EXTENDS Naturals, Sequences, Functions

CONSTANTS Sessions, Tasks, Producers, Maintenance, Stopper, NoTask, MaxBatch,
    HistoryCap   \* kRecentDisconnectHistoryCap

ASSUME HistoryAssumption == HistoryCap \in Nat \ {0}

\* As module TaskMessageQueue assumes them.
ASSUME TaskAssumption == NoTask \notin Tasks

ASSUME ThreadAssumption ==
    /\ Producers \cap Sessions = {}
    /\ Maintenance \notin Producers \cup Sessions
    /\ Stopper \notin Producers \cup Sessions
    /\ Maintenance # Stopper

ASSUME BatchAssumption == MaxBatch \in Nat

VARIABLES
    shutdown_, swapped, tasks_, waiting_workers_, cancelled, co, result_,
    calls, resuming, issued, completed, dropped,
    state_,                 \* SessionState of each session
    at,                     \* where its coroutine is outside the queue
    pending,                \* sessions suspended in an I/O operation
    open,                   \* sessions whose socket is open
    gone,                   \* sessions whose socket reports the connection's end
    termination_requested_, \* sessions asked to terminate
    created,                \* sessions accepted so far
    active_sessions_,       \* the map's keys
    recent_disconnects_,    \* newest first
    cleanup,                \* the pass in progress under sessions_mutex_
    todo,                   \* sessions its current loop has not visited
    probing,                \* the session being probed, and how far
    server                  \* how far AsyncTransportServer::stop has come

Q == INSTANCE TaskMessageQueue

queueVars == <<shutdown_, swapped, tasks_, waiting_workers_, cancelled, co,
               result_, calls, resuming, issued, completed, dropped>>
sessionVars == <<state_, at, pending, open, gone, termination_requested_>>
managerVars == <<created, active_sessions_, recent_disconnects_, cleanup, todo,
                 probing, server>>
vars == <<queueVars, sessionVars, managerVars>>

SessionState == {"INITIALIZING", "ACTIVE", "WAITING_FOR_TASK",
                 "PROCESSING_TASK", "COMPLETING", "TERMINATED", "ERROR_STATE"}

\* greeting, write, header, body: in that I/O operation.  loop: at the head of
\* the task loop, or in the queue on its behalf.  lost, failed: putting the
\* task back after an I/O error, then ends as TERMINATED or ERROR_STATE.
Places == {"absent", "greeting", "loop", "write", "header", "body", "lost",
           "failed"}

NotProbing == <<"none">>

Init ==
    /\ Q!Init
    /\ state_ = [s \in Sessions |-> "INITIALIZING"]
    /\ at = [s \in Sessions |-> "absent"]
    /\ pending = {}
    /\ open = {}
    /\ gone = {}
    /\ termination_requested_ = {}
    /\ created = {}
    /\ active_sessions_ = {}
    /\ recent_disconnects_ = <<>>
    /\ cleanup = "idle"
    /\ todo = {}
    /\ probing = NotProbing
    /\ server = "running"

----------------------------------------------------------------------------
(* Session::run_coroutine *)

IsDone(s) == co[s] = "exited"

IsActive(s) ==
    /\ state_[s] \in {"ACTIVE", "WAITING_FOR_TASK", "PROCESSING_TASK", "COMPLETING"}
    /\ s \in open
    /\ s \notin termination_requested_

IsAwaitingTeardown(s) == ~IsDone(s) /\ state_[s] \in {"TERMINATED", "ERROR_STATE"}

\* Mutant: the state alone makes a session completed.
IsEndedState(s) == state_[s] \in {"TERMINATED", "ERROR_STATE"}

IsCompleted(s) == IsDone(s) /\ state_[s] \in {"TERMINATED", "ERROR_STATE"}

\* What coroutines do around a step of the queue: update_state before
\* await_ready; with a valid task, update_state and on to async_write; at the
\* end of run_coroutine, update_state and finalize_session, which closes the
\* socket.
Continue ==
    LET Moved(s) == co'[s] # co[s]
        Ended    == {s \in Sessions : Moved(s) /\ co'[s] = "exited"}
        Asking   == {s \in Sessions : Moved(s) /\ co[s] = "ready"} \ Ended
        Got      == {s \in Sessions : Moved(s) /\ co'[s] = "working"}
    IN  /\ state_' = [s \in Sessions |->
                        IF s \in Got THEN "PROCESSING_TASK"
                        ELSE IF s \in Asking THEN "WAITING_FOR_TASK"
                        ELSE IF s \notin Ended THEN state_[s]
                        ELSE IF at[s] = "failed" THEN "ERROR_STATE"
                        ELSE "TERMINATED"]
        /\ at' = [s \in Sessions |-> IF s \in Got THEN "write" ELSE at[s]]
        /\ open' = open \ Ended
        /\ UNCHANGED <<pending, gone, termination_requested_, managerVars>>

\* The loop condition: on to get_next_task, or out of the loop.
LoopHead(s) ==
    /\ at[s] = "loop"
    /\ \/ IsActive(s) /\ Q!GetNextTask(s)
       \/ ~IsActive(s) /\ Q!Leave(s)
    /\ Continue

InQueue(s) ==
    /\ \/ Q!AwaitReady(s)
       \/ Q!TryGetTaskImmediately(s)
       \/ Q!AwaitSuspendCheck(s)
       \/ Q!AwaitSuspendLocked(s)
    /\ Continue

InThread(th) == Q!ThreadStep(th) /\ Continue

\* add_task has returned: `continue' or the end of the error handler.
RequeueReturns(s) ==
    /\ Q!RequeueReturns(s)
    /\ co'[s] = IF at[s] = "loop" THEN "running" ELSE "exited"
    /\ Continue

\* async_read, async_read_header and async_write try the operation at once;
\* one that is not complete is registered and retried by the I/O threads.
IoSuspend(s) ==
    /\ at[s] \in {"greeting", "write", "header", "body"}
    /\ ~IsDone(s)
    /\ s \notin pending
    /\ pending' = pending \cup {s}
    /\ UNCHANGED <<queueVars, state_, at, open, gone, termination_requested_, managerVars>>

IoThreadsRun == server \in {"running", "stopping"}

\* The operation of s at place p ends now.
IoCompletes(s, p) ==
    /\ at[s] = p
    /\ ~IsDone(s)
    /\ s \in pending => IoThreadsRun
    /\ pending' = pending \ {s}

Greeting(s) ==
    /\ IoCompletes(s, "greeting")
    /\ \/ /\ state_' = [state_ EXCEPT ![s] = "ACTIVE"]
          /\ at' = [at EXCEPT ![s] = "loop"]
          /\ UNCHANGED <<queueVars, open>>
       \/ \* bad magic or version, or the read failed
          /\ Q!Leave(s)
          /\ state_' = [state_ EXCEPT ![s] = "ERROR_STATE"]
          /\ open' = open \ {s}
          /\ UNCHANGED at
    /\ UNCHANGED <<gone, termination_requested_, managerVars>>

\* The reply is not one to the task: back to the queue, and on.
BadReply(s) ==
    /\ Q!Requeue(s)
    /\ at' = [at EXCEPT ![s] = "loop"]

\* Mutant: the handler of system_error does not put the task back.
IoErrorForgetsTask(s) ==
    /\ co[s] = "working"
    /\ co' = [co EXCEPT ![s] = "exited"]
    /\ result_' = [result_ EXCEPT ![s] = NoTask]
    /\ UNCHANGED <<shutdown_, swapped, tasks_, waiting_workers_, cancelled, calls,
                   resuming, issued, completed, dropped, at, state_>>

\* A system_error in the operation, one of the connection errors or another:
\* back to the queue, and the session ends.
IoError(s) ==
    /\ Q!Requeue(s)
    /\ \E end \in {"lost", "failed"} : at' = [at EXCEPT ![s] = end]
    /\ UNCHANGED state_

WriteTask(s) ==
    /\ IoCompletes(s, "write")
    /\ \/ /\ at' = [at EXCEPT ![s] = "header"]
          /\ UNCHANGED <<queueVars, state_>>
       \/ IoError(s)
    /\ UNCHANGED <<open, gone, termination_requested_, managerVars>>

\* A wrong task id: the state stays PROCESSING_TASK and no body is read.
ReadHeader(s) ==
    /\ IoCompletes(s, "header")
    /\ \/ /\ at' = [at EXCEPT ![s] = "body"]
          /\ UNCHANGED <<queueVars, state_>>
       \/ BadReply(s) /\ UNCHANGED state_
       \/ IoError(s)
    /\ UNCHANGED <<open, gone, termination_requested_, managerVars>>

\* The same skill id completes the task, another one puts it back; so does an
\* exception other than system_error, before update_state(ACTIVE).
ReadBody(s) ==
    /\ IoCompletes(s, "body")
    /\ \/ /\ Q!Complete(s)
          /\ at' = [at EXCEPT ![s] = "loop"]
          /\ state_' = [state_ EXCEPT ![s] = "ACTIVE"]
       \/ /\ BadReply(s)
          /\ state_' \in {state_, [state_ EXCEPT ![s] = "ACTIVE"]}
       \/ IoError(s)
    /\ UNCHANGED <<open, gone, termination_requested_, managerVars>>

\* The worker closes its end, crashes or becomes unreachable, and nothing of
\* what it sent is left to read.
WorkerGoes(s) ==
    /\ s \in open \ gone
    /\ gone' = gone \cup {s}
    /\ UNCHANGED <<queueVars, state_, at, pending, open, termination_requested_, managerVars>>

----------------------------------------------------------------------------
(* SessionManager: everything below holds sessions_mutex_ *)

MutexFree == cleanup = "idle"

\* The acceptor: the session enters the map and run() starts its coroutine.
CreateSession(s) ==
    /\ server = "running"
    /\ MutexFree
    /\ s \notin created
    /\ created' = created \cup {s}
    /\ active_sessions_' = active_sessions_ \cup {s}
    /\ open' = open \cup {s}
    /\ at' = [at EXCEPT ![s] = "greeting"]
    /\ UNCHANGED <<queueVars, state_, pending, gone, termination_requested_,
                   recent_disconnects_, cleanup, todo, probing, server>>

\* cleanup_completed_sessions is four passes; each of the loops visits the
\* sessions of the map one by one while other threads go on.
BeginPass(phase) ==
    /\ cleanup' = phase
    /\ todo' = IF phase = "idle" THEN {} ELSE active_sessions_

\* maybe_run_maintenance, by the acceptor after a connection or by a request to
\* the monitoring service; if there is neither it never runs.
Maintain ==
    /\ server \in {"running", "stopping", "io_stopped"}
    /\ MutexFree
    /\ BeginPass("probe")
    /\ UNCHANGED <<queueVars, sessionVars, created, active_sessions_,
                   recent_disconnects_, probing, server>>

EndPass(from, to) ==
    /\ cleanup = from
    /\ todo = {}
    /\ probing = NotProbing
    /\ Q!Idle(Maintenance)
    /\ BeginPass(to)

\* What check_alive() may say: dead without a descriptor or at the end of the
\* connection, and for any error but would-block, which may occur at any time.
CheckAlive(s) == IF s \in gone \/ s \notin open THEN {FALSE} ELSE BOOLEAN

\* Mutant: the probe looks at busy sessions instead of idle ones.
ProbeBusyOnly(s) ==
    /\ cleanup = "probe"
    /\ probing = NotProbing
    /\ s \in todo
    /\ todo' = todo \ {s}
    /\ \E alive \in CheckAlive(s) :
          probing' = IF state_[s] = "PROCESSING_TASK" /\ ~alive
                       THEN <<"store", s>> ELSE NotProbing
    /\ UNCHANGED <<queueVars, sessionVars, created, active_sessions_,
                   recent_disconnects_, cleanup, server>>

\* probe_connection_liveness: read the state and peek at the socket ...
ProbeCheck(s) ==
    /\ cleanup = "probe"
    /\ probing = NotProbing
    /\ s \in todo
    /\ todo' = todo \ {s}
    /\ \E alive \in CheckAlive(s) :
          probing' = IF state_[s] = "WAITING_FOR_TASK" /\ ~alive
                       THEN <<"store", s>> ELSE NotProbing
    /\ UNCHANGED <<queueVars, sessionVars, created, active_sessions_,
                   recent_disconnects_, cleanup, server>>

\* ... update_state(TERMINATED) ...
ProbeStore(s) ==
    /\ probing = <<"store", s>>
    /\ probing' = <<"cancel", s>>
    /\ state_' = [state_ EXCEPT ![s] = "TERMINATED"]
    /\ UNCHANGED <<queueVars, at, pending, open, gone, termination_requested_, created,
                   active_sessions_, recent_disconnects_, cleanup, todo, server>>

\* ... and cancel the token.  client_socket_->shutdown() only sets a flag that
\* the asynchronous operations do not look at.
ProbeCancel(s) ==
    /\ probing = <<"cancel", s>>
    /\ probing' = NotProbing
    /\ Q!Cancel(s)
    /\ UNCHANGED <<sessionVars, created, active_sessions_, recent_disconnects_,
                   cleanup, todo, server>>

ProbeDone ==
    /\ EndPass("probe", "teardown")
    /\ UNCHANGED <<queueVars, sessionVars, created, active_sessions_,
                   recent_disconnects_, probing, server>>

\* cancel_queue_wait resumes the coroutine on this thread before the next visit.
Teardown(s) ==
    /\ cleanup \in {"teardown", "force"}
    /\ s \in todo
    /\ Q!Idle(Maintenance)
    /\ todo' = todo \ {s}
    /\ IF IsAwaitingTeardown(s)
         THEN Q!CancelAndResumeWaiter(s)
         ELSE UNCHANGED queueVars
    /\ UNCHANGED <<sessionVars, created, active_sessions_, recent_disconnects_,
                   cleanup, probing, server>>

DrainCancelled ==
    /\ EndPass("teardown", "erase")
    /\ Q!DrainCancelled
    /\ UNCHANGED <<sessionVars, created, active_sessions_, recent_disconnects_,
                   probing, server>>

\* An entry at the front, the oldest out beyond the cap; the session is freed.
Erase(s) ==
    /\ cleanup = "erase"
    /\ s \in todo
    /\ todo' = todo \ {s}
    /\ IF IsCompleted(s)
         THEN /\ active_sessions_' = active_sessions_ \ {s}
              /\ recent_disconnects_' =
                    LET all == <<s>> \o recent_disconnects_
                    IN  SubSeq(all, 1, IF Len(all) > HistoryCap THEN HistoryCap
                                                                ELSE Len(all))
         ELSE UNCHANGED <<active_sessions_, recent_disconnects_>>
    /\ UNCHANGED <<queueVars, sessionVars, created, cleanup, probing, server>>

CleanupDone ==
    /\ cleanup = "erase"
    /\ todo = {}
    /\ cleanup' = "idle"
    /\ server' = IF server = "cleaning" THEN "stopped" ELSE server
    /\ UNCHANGED <<queueVars, sessionVars, created, active_sessions_,
                   recent_disconnects_, todo, probing>>

----------------------------------------------------------------------------
(* Submission, and AsyncTransportServer::stop *)

\* Tasks come one by one from the generators, which call the queue themselves
\* (TaskSubmitAwaitable), or as a batch through enqueue_tasks, until the response
\* context is stopped.  Neither runs maintenance.
EnqueueTasks(p) ==
    /\ server \in {"running", "stopping", "io_stopped"}
    /\ Q!AddTasks(p)
    /\ UNCHANGED <<sessionVars, managerVars>>

StopStep(from, to) ==
    /\ server = from
    /\ server' = to

Stop ==
    /\ StopStep("running", "stopping")
    /\ UNCHANGED <<queueVars, sessionVars, created, active_sessions_,
                   recent_disconnects_, cleanup, todo, probing>>

\* The acceptor has been joined; io_->stop() joins the I/O threads.
StopIo ==
    /\ StopStep("stopping", "io_stopped")
    /\ UNCHANGED <<queueVars, sessionVars, created, active_sessions_,
                   recent_disconnects_, cleanup, todo, probing>>

\* Mutant: stop() does not wait for the threads it stops.
NotJoined == MutexFree

\* Mutant: stop() waits for every session to end before it cancels any.
AllEnded ==
    /\ MutexFree
    /\ \A th \in Q!Threads : Q!Idle(th)
    /\ \A s \in created : IsDone(s)

\* No thread but the one in stop() is left inside the server: every call has
\* returned and every coroutine is parked, waiting for I/O, or done.
Quiet ==
    /\ MutexFree
    /\ \A th \in Q!Threads : Q!Idle(th)
    /\ \A s \in created : IsDone(s) \/ co[s] = "suspended" \/ s \in pending

StopResponseContext ==
    /\ Quiet
    /\ StopStep("io_stopped", "response_stopped")
    /\ UNCHANGED <<queueVars, sessionVars, created, active_sessions_,
                   recent_disconnects_, cleanup, todo, probing>>

TerminateAllSessions ==
    /\ MutexFree
    /\ StopStep("response_stopped", "terminating")
    /\ BeginPass("terminate")
    /\ UNCHANGED <<queueVars, sessionVars, created, active_sessions_,
                   recent_disconnects_, probing>>

RequestTermination(s) ==
    /\ cleanup = "terminate"
    /\ s \in todo
    /\ todo' = todo \ {s}
    /\ termination_requested_' = termination_requested_ \cup {s}
    /\ Q!Cancel(s)
    /\ state_' = [state_ EXCEPT ![s] = "COMPLETING"]
    /\ UNCHANGED <<at, pending, open, gone, created, active_sessions_,
                   recent_disconnects_, cleanup, probing, server>>

\* All are asked: now resume those that await teardown.
TerminateDone ==
    /\ EndPass("terminate", "force")
    /\ UNCHANGED <<queueVars, sessionVars, created, active_sessions_,
                   recent_disconnects_, probing, server>>

ForceDone ==
    /\ EndPass("force", "idle")
    /\ StopStep("terminating", "terminated")
    /\ UNCHANGED <<queueVars, sessionVars, created, active_sessions_,
                   recent_disconnects_, probing>>

ShutdownQueue ==
    /\ StopStep("terminated", "queue_shutdown")
    /\ Q!ShutdownFlag
    /\ UNCHANGED <<sessionVars, created, active_sessions_, recent_disconnects_,
                   cleanup, todo, probing>>

ShutdownContinues == Q!ShutdownStep /\ Continue

StopCleanup ==
    /\ swapped
    /\ resuming[Stopper] = <<>>
    /\ StopStep("queue_shutdown", "cleaning")
    /\ BeginPass("probe")
    /\ UNCHANGED <<queueVars, sessionVars, created, active_sessions_,
                   recent_disconnects_, probing>>

----------------------------------------------------------------------------

IoStep(s) == Greeting(s) \/ WriteTask(s) \/ ReadHeader(s) \/ ReadBody(s)

CoroutineStep(s) == LoopHead(s) \/ InQueue(s) \/ RequeueReturns(s)

CleanupStep ==
    \/ \E s \in Sessions :
          \/ ProbeCheck(s)
          \/ ProbeStore(s)
          \/ ProbeCancel(s)
          \/ Teardown(s)
          \/ Erase(s)
          \/ RequestTermination(s)
    \/ ProbeDone
    \/ DrainCancelled
    \/ CleanupDone
    \/ TerminateDone
    \/ ForceDone

StopContinues ==
    \/ StopIo
    \/ StopResponseContext
    \/ TerminateAllSessions
    \/ ShutdownQueue
    \/ ShutdownContinues
    \/ StopCleanup

\* stop() has returned and nothing is left to run.
Stopped == server = "stopped" /\ UNCHANGED vars

Next ==
    \/ \E s \in Sessions :
          \/ CreateSession(s)
          \/ CoroutineStep(s)
          \/ IoSuspend(s)
          \/ IoStep(s)
          \/ WorkerGoes(s)
    \/ \E p \in Producers : EnqueueTasks(p)
    \/ \E th \in Q!Threads : InThread(th)
    \/ Maintain
    \/ CleanupStep
    \/ Stop
    \/ StopContinues
    \/ Stopped

Spec == Init /\ [][Next]_vars

\* Threads keep running; the operations of a session do not all complete at
\* once for ever, for a worker answers after it was asked; an operation that is
\* retried ends, with an answer or because the connection fails; a maintenance
\* pass that has begun ends, and a stop() finds sessions_mutex_ free between two
\* passes, which are a second apart, and goes on.  Nothing makes maintenance
\* begin: workers need not connect, and monitoring is optional.
Fairness ==
    /\ \A s \in Sessions :
          /\ WF_vars(CoroutineStep(s))
          /\ SF_vars(IoSuspend(s))
          /\ WF_vars(IoStep(s))
    /\ \A th \in Q!Threads : WF_vars(InThread(th))
    /\ WF_vars(CleanupStep)
    /\ SF_vars(StopContinues)

FairSpec == Spec /\ Fairness

----------------------------------------------------------------------------
(* Properties *)

SessionTypeOK ==
    /\ state_ \in [Sessions -> SessionState]
    /\ at \in [Sessions -> Places]
    /\ pending \subseteq created
    /\ open \subseteq created
    /\ gone \subseteq created
    /\ termination_requested_ \subseteq created
    /\ created \subseteq Sessions
    /\ active_sessions_ \subseteq created
    /\ recent_disconnects_ \in Seq(Sessions)
    /\ cleanup \in {"idle", "probe", "teardown", "erase", "terminate", "force"}
    /\ todo \subseteq active_sessions_
    /\ probing \in {NotProbing} \cup ({"store", "cancel"} \X Sessions)
    /\ server \in {"running", "stopping", "io_stopped", "response_stopped",
                   "terminating", "terminated", "queue_shutdown", "cleaning",
                   "stopped"}

TypeOK == Q!TypeOK /\ SessionTypeOK

\* Sessions, manager and server use the queue only as module TaskMessageQueue
\* lets its callers use it, so all that is shown there holds here: no task is
\* lost or duplicated, no handle is resumed twice.
ImplementsQueue == Q!Spec

\* A session is erased from active_sessions_, which frees its coroutine frame,
\* only when nobody can resume that frame any more: it is at final_suspend, its
\* handle is neither in the queue, nor with a thread about to resume it, nor in
\* a pending I/O operation, and it holds no task.
NoDanglingHandle ==
    \A s \in created \ active_sessions_ :
        IsDone(s) /\ ~Q!Reachable(s) /\ s \notin pending /\ result_[s] = NoTask

\* The order in which stop() takes the server apart refuses no task: when the
\* queue is shut down nobody is left to call add_task, so a task a session
\* puts back after an I/O error is never dropped, and no call that has passed
\* its check of shutdown_ is left to put tasks where nobody looks for them.
NoTaskRefused ==
    /\ dropped = {}
    /\ shutdown_ => \A th \in Q!Threads : calls[th] = <<>>

\* A session parked in the queue whose connection has ended does not stay there
\* if maintenance passes keep coming: the liveness probe finds it, so no task
\* waits for it to fail first.
DeadWaiterLeavesQueue ==
    []<>(cleanup = "probe") =>
        \A s \in Sessions :
            (s \in gone /\ s \in Range(waiting_workers_)) ~>
                (s \notin Range(waiting_workers_) \/ server # "running")

\* Suspended in the queue, with nobody left to resume it.
Stranded(s) == co[s] = "suspended" /\ ~Q!Reachable(s)


\* stop() returns, wherever the sessions, the calls and a maintenance pass are
\* when it begins.
StopReturns == (server = "stopping") ~> (server = "stopped")

\* cleanup_completed_sessions on its teardown loop: "Each coroutine runs
\* synchronously on this thread and reaches final_suspend, making is_done()
\* true."
TeardownFinishesParked ==
    cleanup = "erase" =>
        \A s \in active_sessions_ : IsAwaitingTeardown(s) => co[s] # "suspended"
=============================================================================
