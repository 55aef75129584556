-------------------------- MODULE ResponseContext --------------------------
(***************************************************************************)
(* The executor that resumes the generators' coroutines                    *)
(* (src/message/ResponseContext.hpp).  Sessions post the handle of a       *)
(* coroutine whose response has arrived; worker threads take handles from  *)
(* pending_ and resume them.  pending_ and running_ are protected by       *)
(* mutex_, so a critical section is one action; notify_one, notify_all and *)
(* join are calls outside of it and actions of their own.                  *)
(***************************************************************************)
EXTENDS Naturals, Sequences, Functions

CONSTANTS Handles,      \* coroutine handles, each posted at most once
          Workers,      \* the threads of workers_
          NoHandle      \* what a worker holds while it processes nothing

\* start() creates at least one thread.
ASSUME NoHandleAssumption == NoHandle \notin Handles
ASSUME WorkersAssumption == Workers # {}

VARIABLES
    running_,
    pending_,
    worker,       \* where each thread is in worker_loop
    handle,       \* the local variable of worker_loop
    notifies,     \* post() calls between their unlock and their notify_one
    stop,         \* how far stop() has come
    posted,       \* handles post() was called with and accepted (history)
    processed     \* handles process_handle returned from (history)

vars == <<running_, pending_, worker, handle, notifies, stop, posted, processed>>

Init ==
    /\ running_ = FALSE
    /\ pending_ = <<>>
    /\ worker = [w \in Workers |-> "none"]
    /\ handle = [w \in Workers |-> NoHandle]
    /\ notifies = 0
    /\ stop = "none"
    /\ posted = {}
    /\ processed = {}

-----------------------------------------------------------------------------
\* start(n): a second call finds running_ set and returns.
Start ==
    /\ ~running_
    /\ stop = "none"
    /\ running_' = TRUE
    /\ worker' = [w \in Workers |-> "loop"]
    /\ UNCHANGED <<pending_, handle, notifies, stop, posted, processed>>

\* Mutant: post() notifies nobody.
PostSilently(h) ==
    /\ h \notin posted
    /\ running_
    /\ pending_' = Append(pending_, h)
    /\ posted' = posted \cup {h}
    /\ UNCHANGED <<running_, worker, handle, notifies, stop, processed>>

\* post(h) while the context runs: the critical section.
Post(h) ==
    /\ h \notin posted
    /\ running_
    /\ pending_' = Append(pending_, h)
    /\ posted' = posted \cup {h}
    /\ notifies' = notifies + 1
    /\ UNCHANGED <<running_, worker, handle, stop, processed>>

\* cv_.notify_one() of some post(): one waiting thread, if there is one,
\* is made to look again.
NotifyOne ==
    /\ notifies > 0
    /\ notifies' = notifies - 1
    /\ \/ \E w \in Workers :
             /\ worker[w] = "waiting"
             /\ worker' = [worker EXCEPT ![w] = "loop"]
       \/ /\ \A w \in Workers : worker[w] # "waiting"
          /\ UNCHANGED worker
    /\ UNCHANGED <<running_, pending_, handle, stop, posted, processed>>

-----------------------------------------------------------------------------
\* The predicate of cv_.wait is false: the thread waits and releases mutex_.
WaitForWork(w) ==
    /\ worker[w] = "loop"
    /\ pending_ = <<>>
    /\ running_
    /\ worker' = [worker EXCEPT ![w] = "waiting"]
    /\ UNCHANGED <<running_, pending_, handle, notifies, stop, posted, processed>>

\* A condition variable may wake a thread for no reason.
SpuriousWakeup(w) ==
    /\ worker[w] = "waiting"
    /\ worker' = [worker EXCEPT ![w] = "loop"]
    /\ UNCHANGED <<running_, pending_, handle, notifies, stop, posted, processed>>

\* pending_.front() and pop(), even after stop() has cleared running_.
Take(w) ==
    /\ worker[w] = "loop"
    /\ pending_ # <<>>
    /\ handle' = [handle EXCEPT ![w] = Head(pending_)]
    /\ pending_' = Tail(pending_)
    /\ worker' = [worker EXCEPT ![w] = "busy"]
    /\ UNCHANGED <<running_, notifies, stop, posted, processed>>

\* process_handle returns and the thread goes round its loop again.
Process(w) ==
    /\ worker[w] = "busy"
    /\ processed' = processed \cup {handle[w]}
    /\ handle' = [handle EXCEPT ![w] = NoHandle]
    /\ worker' = [worker EXCEPT ![w] = "loop"]
    /\ UNCHANGED <<running_, pending_, notifies, stop, posted>>

\* Mutant: a thread leaves the loop as soon as the context is stopped.
ExitUndrained(w) ==
    /\ worker[w] = "loop"
    /\ ~running_
    /\ worker' = [worker EXCEPT ![w] = "exited"]
    /\ UNCHANGED <<running_, pending_, handle, notifies, stop, posted, processed>>

\* The break of worker_loop.
Exit(w) ==
    /\ worker[w] = "loop"
    /\ ~running_
    /\ pending_ = <<>>
    /\ worker' = [worker EXCEPT ![w] = "exited"]
    /\ UNCHANGED <<running_, pending_, handle, notifies, stop, posted, processed>>

-----------------------------------------------------------------------------
\* stop(): the critical section.  A call that finds ~running_ returns.
StopFlag ==
    /\ running_
    /\ running_' = FALSE
    /\ stop' = "notify"
    /\ UNCHANGED <<pending_, worker, handle, notifies, posted, processed>>

\* Mutant: stop() wakes nobody.
StopSilently ==
    /\ stop = "notify"
    /\ stop' = "join"
    /\ UNCHANGED <<running_, pending_, worker, handle, notifies, posted, processed>>

\* cv_.notify_all().
StopNotify ==
    /\ stop = "notify"
    /\ stop' = "join"
    /\ worker' = [w \in Workers |-> IF worker[w] = "waiting" THEN "loop"
                                    ELSE worker[w]]
    /\ UNCHANGED <<running_, pending_, handle, notifies, posted, processed>>

\* All threads are joined and workers_ is cleared.
StopJoin ==
    /\ stop = "join"
    /\ \A w \in Workers : worker[w] = "exited"
    /\ stop' = "none"
    /\ worker' = [w \in Workers |-> "none"]
    /\ UNCHANGED <<running_, pending_, handle, notifies, posted, processed>>

WorkerStep(w) == WaitForWork(w) \/ Take(w) \/ Process(w) \/ Exit(w)

Next ==
    \/ Start
    \/ \E h \in Handles : Post(h)
    \/ NotifyOne
    \/ \E w \in Workers : WorkerStep(w) \/ SpuriousWakeup(w)
    \/ StopFlag
    \/ StopNotify
    \/ StopJoin

Spec == Init /\ [][Next]_vars

\* Threads run and a call to post() or stop(), once begun, goes on.  Nothing
\* is assumed of spurious wake-ups.
Fairness ==
    /\ \A w \in Workers : WF_vars(WorkerStep(w))
    /\ WF_vars(NotifyOne)
    /\ WF_vars(StopNotify)
    /\ WF_vars(StopJoin)

FairSpec == Spec /\ Fairness

-----------------------------------------------------------------------------
\* The type of the state.
TypeOK ==
    /\ running_ \in BOOLEAN
    /\ pending_ \in Seq(Handles)
    /\ worker \in [Workers -> {"none", "loop", "waiting", "busy", "exited"}]
    /\ handle \in [Workers -> Handles \cup {NoHandle}]
    /\ notifies \in Nat
    /\ stop \in {"none", "notify", "join"}
    /\ posted \subseteq Handles
    /\ processed \subseteq Handles

\* The handles that threads are processing.
InProcess == {handle[w] : w \in {x \in Workers : worker[x] = "busy"}}

\* No accepted handle is forgotten: post() returned for it while the context
\* ran, so it is pending, being processed or processed.
NoHandleLost == posted = Range(pending_) \cup InProcess \cup processed

\* No coroutine is resumed twice: a handle is at one place of pending_, with
\* one thread, or processed, and never at two of these.
ResumedOnce ==
    /\ IsInjective(pending_)
    /\ Range(pending_) \cap (InProcess \cup processed) = {}
    /\ InProcess \cap processed = {}
    /\ \A v, w \in Workers :
          worker[v] = "busy" /\ worker[w] = "busy" /\ handle[v] = handle[w] => v = w

\* No lost notification: handles are never pending while every thread sleeps,
\* unless some post() is about to notify one or stop() all of them.
NoLostNotify ==
    (pending_ # <<>> /\ running_) =>
        \/ \E w \in Workers : worker[w] # "waiting"
        \/ notifies > 0

\* stop() leaves nothing behind: when the threads are joined, every handle
\* that was accepted has been processed.
StopDrains ==
    (\A w \in Workers : worker[w] = "none") => posted = processed

\* Every accepted handle is processed, also when stop() comes in between.
PostedIsProcessed == \A h \in Handles : (h \in posted) ~> (h \in processed)
=============================================================================
