--------------------------- MODULE TaskGenerator ---------------------------
(***************************************************************************)
(* Generators, task submission and the delivery of responses: the          *)
(* coroutines of src/generators, TaskSubmitAwaitable, TaskCompletionSource *)
(* and the ResponseContext that resumes them.                              *)
(*                                                                         *)
(* A coroutine of process_single_task submits one task: frame, TaskMessage *)
(* and TaskCompletionSource are one model value.  The generator's thread   *)
(* creates the frames and destroys them; sessions (module SessionManager)  *)
(* move the message; the threads of the ResponseContext run the coroutine  *)
(* after its co_await.                                                     *)
(***************************************************************************)
EXTENDS Naturals, FiniteSets, Sequences, Functions

CONSTANTS Coros,          \* the coroutines a behaviour may create
          Workers,        \* threads of the ResponseContext
          NoHandle,
          LowThreshold,   \* LOW_THRESHOLD of AutoRefillGenerator
          RefillAmount,   \* REFILL_AMOUNT
          MaxAnswer,      \* the largest answer to the prompt
          MaxSessions,    \* sessions, each with at most one task
          IdLimit         \* 2^32, the range of a task id

ASSUME GeneratorAssumption ==
    {LowThreshold, RefillAmount, MaxAnswer, MaxSessions, IdLimit} \subseteq Nat \ {0}

VARIABLES
    running_, pending_, worker, handle, notifies, stop, posted, processed,
    shutdown_requested,
    interactive,  \* the program is an InteractiveGenerator, not an AutoRefillGenerator
    run,          \* where the generator's thread is
    todo,         \* tasks that dispatch_tasks still has to start
    frame,        \* what has become of each coroutine frame
    message,      \* where the TaskMessage of each coroutine is
    counter_,     \* TaskIdGenerator
    id            \* the id of each task, 0 before it has one

responseVars == <<running_, pending_, worker, handle, notifies, stop, posted, processed>>
appVars == <<shutdown_requested, interactive, run, todo, frame, message, counter_, id>>
vars == <<responseVars, appVars>>

RC == INSTANCE ResponseContext WITH Handles <- Coros

\* AsyncTransportServer::start has started the ResponseContext.
Init ==
    /\ running_ = TRUE
    /\ pending_ = <<>>
    /\ worker = [w \in Workers |-> "loop"]
    /\ handle = [w \in Workers |-> NoHandle]
    /\ notifies = 0
    /\ stop = "none"
    /\ posted = {}
    /\ processed = {}
    /\ shutdown_requested = FALSE
    /\ interactive \in BOOLEAN
    /\ run = "loop"
    /\ todo = 0
    /\ frame = [c \in Coros |-> "none"]
    /\ message = [c \in Coros |-> "none"]
    /\ counter_ = 1
    /\ id = [c \in Coros |-> 0]

With(where) == {c \in Coros : message[c] = where}
Alive == {c \in Coros : frame[c] \in {"suspended", "resumed", "done"}}

-----------------------------------------------------------------------------
(* The generator's thread.                                                 *)

\* A signal, or a second caller of request_shutdown.
RequestShutdown ==
    /\ ~shutdown_requested
    /\ shutdown_requested' = TRUE
    /\ UNCHANGED <<responseVars, interactive, run, todo, frame, message, counter_, id>>

\* ~GeneratorCoroutine of every element of S: a frame that was done is freed, any
\* other one is destroyed before its time.
Destroy(S) ==
    frame' = [c \in Coros |-> CASE c \notin S -> frame[c]
                                [] c \in S /\ frame[c] = "done" -> "freed"
                                [] OTHER -> "destroyed"]

\* The loop condition fails; the vector of coroutines dies with run().
Return ==
    /\ run = "loop"
    /\ shutdown_requested
    /\ run' = "returned"
    /\ Destroy(Alive)
    /\ UNCHANGED <<responseVars, shutdown_requested, interactive, todo, message, counter_, id>>

\* AutoRefillGenerator: erase_if removes the coroutines that are done.
Prune ==
    /\ ~interactive
    /\ run = "loop"
    /\ ~shutdown_requested
    /\ run' = "size"
    /\ Destroy({c \in Alive : frame[c] = "done"})
    /\ UNCHANGED <<responseVars, shutdown_requested, interactive, todo, message, counter_, id>>

\* Mutant: the queue is refilled at the threshold, too.
RefillAtThreshold ==
    /\ run = "size"
    /\ IF Cardinality(With("queued")) <= LowThreshold
       THEN run' = "dispatch" /\ todo' = RefillAmount
       ELSE run' = "loop" /\ UNCHANGED todo
    /\ UNCHANGED <<responseVars, shutdown_requested, interactive, frame, message, counter_, id>>

\* AutoRefillGenerator: task_queue_size() is compared, then the thread sleeps
\* or begins to dispatch.
Refill ==
    /\ run = "size"
    /\ IF Cardinality(With("queued")) < LowThreshold
       THEN run' = "dispatch" /\ todo' = RefillAmount
       ELSE run' = "loop" /\ UNCHANGED todo
    /\ UNCHANGED <<responseVars, shutdown_requested, interactive, frame, message, counter_, id>>

\* InteractiveGenerator: a positive answer to the prompt.  Input that is no
\* number repeats the prompt and changes nothing.
Prompt ==
    /\ interactive
    /\ run = "loop"
    /\ ~shutdown_requested
    /\ run' = "dispatch"
    /\ todo' \in 1..MaxAnswer
    /\ UNCHANGED <<responseVars, shutdown_requested, interactive, frame, message, counter_, id>>

\* InteractiveGenerator: an answer of 0 or less requests the shutdown and
\* leaves the loop.
PromptQuit ==
    /\ interactive
    /\ run = "loop"
    /\ shutdown_requested' = TRUE
    /\ run' = "returned"
    /\ UNCHANGED <<responseVars, interactive, todo, frame, message, counter_, id>>

\* get_next_id: the value that the counter n yields; 0 is skipped.
NextId(n) == IF n = 0 THEN 1 ELSE n

\* dispatch_tasks starts process_single_task for one task.  The coroutine
\* runs up to await_suspend, which attaches its handle to a TaskMessage and
\* puts that in the queue.  stopped_ is set after run() only.
Dispatch(c) ==
    /\ run = "dispatch"
    /\ todo > 0
    /\ frame[c] = "none"
    /\ todo' = todo - 1
    /\ id' = [id EXCEPT ![c] = NextId(counter_)]
    /\ counter_' = (NextId(counter_) + 1) % IdLimit
    /\ frame' = [frame EXCEPT ![c] = "suspended"]
    /\ message' = [message EXCEPT ![c] = "queued"]
    /\ UNCHANGED <<responseVars, shutdown_requested, interactive, run>>

\* dispatch_tasks returns.  (The model also stops when it has used every
\* member of Coros.)
Dispatched ==
    /\ run = "dispatch"
    /\ todo = 0 \/ \A c \in Coros : frame[c] # "none"
    /\ todo' = 0
    /\ run' = IF interactive THEN "wait" ELSE "loop"
    /\ UNCHANGED <<responseVars, shutdown_requested, interactive, frame, message, counter_, id>>

AllDone == \A c \in Alive : frame[c] = "done"

\* InteractiveGenerator: the wait ends and pending_coroutines goes out of
\* scope.
Wait ==
    /\ run = "wait"
    /\ AllDone \/ shutdown_requested
    /\ run' = "loop"
    /\ Destroy(Alive)
    /\ UNCHANGED <<responseVars, shutdown_requested, interactive, todo, message, counter_, id>>

-----------------------------------------------------------------------------
(* Sessions: the part of Session::run_coroutine that concerns a message.   *)

SessionsRun == run \notin {"io_stopped", "stopped"}

TakeTask(c) ==
    /\ SessionsRun
    /\ message[c] = "queued"
    /\ Cardinality(With("taken") \cup With("completed")) < MaxSessions
    /\ message' = [message EXCEPT ![c] = "taken"]
    /\ UNCHANGED <<responseVars, shutdown_requested, interactive, run, todo, frame, counter_, id>>

\* A failed connection or a wrong reply: the task goes back to the queue.
PutBack(c) ==
    /\ SessionsRun
    /\ message[c] = "taken"
    /\ message' = [message EXCEPT ![c] = "queued"]
    /\ UNCHANGED <<responseVars, shutdown_requested, interactive, run, todo, frame, counter_, id>>

\* Mutant: the session fills in the response and posts nothing.
CompleteSilently(c) ==
    /\ SessionsRun
    /\ message[c] = "taken"
    /\ message' = [message EXCEPT ![c] = "completed"]
    /\ UNCHANGED <<responseVars, shutdown_requested, interactive, run, todo, frame, counter_, id>>

\* TaskMessage::complete fills in the response and posts the handle.
Complete(c) ==
    /\ SessionsRun
    /\ message[c] = "taken"
    /\ message' = [message EXCEPT ![c] = "completed"]
    /\ RC!Post(c)
    /\ UNCHANGED <<shutdown_requested, interactive, run, todo, frame, counter_, id>>

\* The session's local variable task goes out of scope, and with it the
\* session's reference to the TaskCompletionSource.
EndIteration(c) ==
    /\ message[c] = "completed"
    /\ message' = [message EXCEPT ![c] = "freed"]
    /\ UNCHANGED <<responseVars, shutdown_requested, interactive, run, todo, frame, counter_, id>>

-----------------------------------------------------------------------------
(* The threads of the ResponseContext.                                     *)

\* process_handle finds a suspended coroutine and resumes it.  At the end of
\* the full expression of the co_await the TaskSubmitAwaitable is destroyed,
\* and with it the coroutine's reference to the TaskCompletionSource.
ResumeCoroutine(w) ==
    /\ worker[w] = "busy"
    /\ frame[handle[w]] = "suspended"
    /\ frame' = [frame EXCEPT ![handle[w]] = "resumed"]
    /\ UNCHANGED <<responseVars, shutdown_requested, interactive, run, todo, message, counter_, id>>

\* The coroutine reads the response through result, verifies it, returns and
\* suspends for the last time: done() is true from here on, and its owner may
\* free the frame, while the thread is still in resume().
ReadResult(w) ==
    /\ worker[w] = "busy"
    /\ frame[handle[w]] = "resumed"
    /\ frame' = [frame EXCEPT ![handle[w]] = "done"]
    /\ UNCHANGED <<responseVars, shutdown_requested, interactive, run, todo, message, counter_, id>>

\* resume() returns to process_handle, which does not use the handle again.
ResumeReturns(w) ==
    /\ worker[w] = "busy"
    /\ frame[handle[w]] \in {"done", "freed"}
    /\ RC!Process(w)
    /\ UNCHANGED appVars

\* The frame was destroyed before its coroutine was done.  What done() reads
\* there is undefined: process_handle returns, or it runs whatever the memory
\* holds now.
ResumeDestroyed(w) ==
    /\ worker[w] = "busy"
    /\ frame[handle[w]] = "destroyed"
    /\ frame' \in {frame, [frame EXCEPT ![handle[w]] = "corrupt"]}
    /\ RC!Process(w)
    /\ UNCHANGED <<shutdown_requested, interactive, run, todo, message, counter_, id>>

WorkerLoop(w) ==
    /\ RC!WaitForWork(w) \/ RC!Take(w) \/ RC!Exit(w)
    /\ UNCHANGED appVars

Spurious(w) == RC!SpuriousWakeup(w) /\ UNCHANGED appVars

Notify == RC!NotifyOne /\ UNCHANGED appVars

-----------------------------------------------------------------------------
(* run_generator calls app.stop() when run() has returned.                 *)

\* The acceptor and the I/O threads are joined, each at the next co_await of
\* the session it runs: no session moves any more.
StopIo ==
    /\ run = "returned"
    /\ With("completed") = {}
    /\ run' = "io_stopped"
    /\ UNCHANGED <<responseVars, shutdown_requested, interactive, todo, frame, message, counter_, id>>

StopResponses ==
    /\ run = "io_stopped"
    /\ RC!StopFlag \/ RC!StopNotify
    /\ UNCHANGED appVars

\* The rest of stop(): the queue and the sessions go, and with them every
\* message that is left.
StopReturns ==
    /\ run = "io_stopped"
    /\ RC!StopJoin
    /\ run' = "stopped"
    /\ message' = [c \in Coros |-> IF message[c] = "none" THEN "none" ELSE "freed"]
    /\ UNCHANGED <<shutdown_requested, interactive, todo, frame, counter_, id>>

Stopped == run = "stopped" /\ UNCHANGED vars

GeneratorStep ==
    \/ Return \/ Prune \/ Refill \/ Prompt \/ PromptQuit \/ Dispatched \/ Wait
    \/ \E c \in Coros : Dispatch(c)

ResponseStep(w) ==
    WorkerLoop(w) \/ ResumeCoroutine(w) \/ ReadResult(w) \/ ResumeReturns(w)
    \/ ResumeDestroyed(w)

StopStep == StopIo \/ StopResponses \/ StopReturns

Next ==
    \/ RequestShutdown
    \/ GeneratorStep
    \/ \E c \in Coros : TakeTask(c) \/ PutBack(c) \/ Complete(c) \/ EndIteration(c)
    \/ \E w \in Workers : ResponseStep(w) \/ Spurious(w)
    \/ Notify
    \/ StopStep
    \/ Stopped

Spec == Init /\ [][Next]_vars

\* Threads keep running.  Sessions take tasks while there are any, and do not
\* put every task back for ever: strong fairness, because another session may
\* take or complete a task first.
Fairness ==
    /\ WF_vars(GeneratorStep)
    /\ WF_vars(Notify)
    /\ WF_vars(StopStep)
    /\ \A w \in Workers : WF_vars(ResponseStep(w))
    /\ SF_vars(\E c \in Coros : TakeTask(c))
    /\ SF_vars(\E c \in Coros : Complete(c))
    /\ WF_vars(\E c \in Coros : EndIteration(c))

FairSpec == Spec /\ Fairness

-----------------------------------------------------------------------------
\* The type of the generator's state.
TypeOK ==
    /\ shutdown_requested \in BOOLEAN
    /\ run \in {"loop", "size", "dispatch", "wait", "returned", "io_stopped", "stopped"}
    /\ interactive \in BOOLEAN
    /\ todo \in Nat
    /\ frame \in [Coros -> {"none", "suspended", "resumed", "done", "freed", "destroyed", "corrupt"}]
    /\ message \in [Coros -> {"none", "queued", "taken", "completed", "freed"}]
    /\ counter_ \in 0..IdLimit - 1
    /\ id \in [Coros -> 0..IdLimit - 1]

\* AutoRefillGenerator keeps the queue short, although the size it compares is
\* stale when it dispatches: sessions put their tasks back before, between and
\* after the tasks of a refill, and the queue outgrows the threshold by one
\* refill and one task for each session, never more.
BoundedBacklog ==
    ~interactive =>
        Cardinality(With("queued")) <= LowThreshold - 1 + RefillAmount + MaxSessions

\* No task has the id 0, with which TaskMessage::is_valid would make the
\* session that gets the task end and lose it.
IdsValid == \A c \in Coros : message[c] # "none" => id[c] # 0

\* Every submitted task gets its response, unless the shutdown comes first.
ResponseArrives ==
    \A c \in Coros : (message[c] = "queued") ~> (c \in processed \/ shutdown_requested)

\* After a shutdown request the generator returns and app.stop() ends.
ShutdownEnds == shutdown_requested ~> (run = "stopped")

\* The coroutines are "kept alive until all complete" (TaskGenerator.hpp): no
\* thread of the ResponseContext is given the handle of a destroyed frame.
KeptAliveUntilComplete ==
    \A w \in Workers : worker[w] = "busy" => frame[handle[w]] # "destroyed"
=============================================================================
