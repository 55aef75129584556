---------------------------- MODULE TaskExchange ----------------------------
(***************************************************************************)
(* A task's way over the wire and back: the session coroutine of the       *)
(* dispatcher (Session::run_coroutine), the awaitables of its socket       *)
(* (CoroSocketAdapter), the threads that retry pending operations and      *)
(* resume coroutines (CoroIoContext), the two byte streams, and the        *)
(* worker's run loop (AsyncRuntime, BlockingRuntime, TaskProcessor).       *)
(*                                                                         *)
(* A frame is a header and a body.  The streams carry units of a frame, so *)
(* that a transfer may be partial; a header is HeaderSize units.  The task *)
(* queue is the pool that module TaskMessageQueue implements.              *)
(***************************************************************************)
EXTENDS Naturals, Sequences, SequencesExt, FiniteSets, FiniteSetsExt

CONSTANTS Tasks, Sessions, Workers, Threads,
          Faults,      \* what is wrong with a task, a set of "too_large" (for a
                       \* blocking worker), "no_skill" (nobody registered it),
                       \* "malformed" (the request) and "not_computed"
          BodySize,    \* units of a task's body, and of its response's
          HeaderSize,
          Window,      \* units a stream holds at most
          MaxLosses,   \* connections that are lost
          None

VARIABLES
    queue, waiters,        \* the task queue: tasks, and parked sessions
    fresh, completed,      \* tasks not yet submitted, and completed ones
    pc, task, buf,         \* a session's place, task, and buffer of its operation
    runner,                \* what runs its coroutine (an I/O thread, "acceptor" or
                           \* "producer"); None while suspended
    pending_ops_,          \* sessions with a registered operation
    fetched, requeue,      \* a thread's batch, and what it will put back
    io,                    \* running_, and how far stop() has come
    exited,                \* threads that have left their loop
    down, up,              \* the streams of a session's connection
    peer,                  \* the worker at the other end, None once it closed
    wpc, wsocket, wtask, wbuf,  \* a worker's place, connection, task and buffer
    losses

queueVars == <<queue, waiters, fresh, completed>>
sessionVars == <<pc, task, buf, runner>>
ioVars == <<pending_ops_, fetched, requeue, io, exited>>
wireVars == <<down, up, peer>>
workerVars == <<wpc, wsocket, wtask, wbuf, losses>>
vars == <<queueVars, sessionVars, ioVars, wireVars, workerVars>>

Init ==
    /\ queue = <<>> /\ waiters = <<>> /\ fresh = Tasks /\ completed = {}
    /\ pc = [s \in Sessions |-> "done"]
    /\ task = [s \in Sessions |-> None]
    /\ buf = [s \in Sessions |-> <<>>]
    /\ runner = [s \in Sessions |-> None]
    /\ pending_ops_ = <<>>
    /\ fetched = [t \in Threads |-> <<>>]
    /\ requeue = [t \in Threads |-> <<>>]
    /\ io = "running" /\ exited = {}
    /\ down = [s \in Sessions |-> <<>>]
    /\ up = [s \in Sessions |-> <<>>]
    /\ peer = [s \in Sessions |-> None]
    /\ wpc = [w \in Workers |-> "off"]
    /\ wsocket = [w \in Workers |-> None]
    /\ wtask = [w \in Workers |-> None]
    /\ wbuf = [w \in Workers |-> <<>>]
    /\ losses = 0

----------------------------------------------------------------------------
(* Frames: TaskMessage::wire_bytes *)

Units(part, t, n) == [i \in 1 .. n |-> [part |-> part, of |-> t]]
Header(t) == Units("header", t, HeaderSize)
Body(t) == Units("body", t, BodySize[t])

\* What can be read from stream s into a buffer that wants n units in all, and
\* what can be written of rest.
Read(s, got, n) ==
    {[stream |-> SubSeq(s, k + 1, Len(s)), buf |-> got \o SubSeq(s, 1, k)] :
        k \in 1 .. Min({Len(s), n - Len(got)})}
Write(s, rest) ==
    {[stream |-> s \o SubSeq(rest, 1, k), buf |-> SubSeq(rest, k + 1, Len(rest))] :
        k \in 1 .. Min({Len(rest), Window - Len(s)})}

----------------------------------------------------------------------------
(* CoroSocketAdapter: an attempt at the operation of session s *)

Reading(s) == pc[s] \in {"greeting", "read_header", "read_body"}

Want(s) ==
    CASE pc[s] = "greeting" -> 1
      [] pc[s] = "read_header" -> HeaderSize
      [] pc[s] = "read_body" -> BodySize[task[s]]
      [] OTHER -> 0

\* Mutant: a short read ends the operation.
Finished(s, b) == TRUE

\* The operation is complete with buffer b: all read, or nothing left to write.
Complete(s, b) == IF Reading(s) THEN Len(b) = Want(s) ELSE b = <<>>

\* The outcomes of try_complete_current_operation, with the session's streams
\* and buffer after it.  The peer's close shows when nothing is left to read; the
\* flag that shutdown() sets in the session's own socket is not looked at.
Attempts(s) ==
    LET Outcome(u, d, b, broken) ==
            [up |-> u, down |-> d, buf |-> b,
             is |-> IF broken THEN "error" ELSE IF Complete(s, b) THEN "complete" ELSE "again"]
        read == {Outcome(r.stream, down[s], r.buf, FALSE) : r \in Read(up[s], buf[s], Want(s))}
        written == {Outcome(up[s], r.stream, r.buf, FALSE) : r \in Write(down[s], buf[s])}
        broken == Outcome(up[s], down[s], buf[s], TRUE)
        blocked == [broken EXCEPT !.is = "again"]
        moved == IF Reading(s) THEN read ELSE IF peer[s] = None THEN {} ELSE written
    IN  IF moved # {} THEN moved
        ELSE IF peer[s] = None THEN {broken} ELSE {blocked}

----------------------------------------------------------------------------
(* Session::run_coroutine *)

\* A session goes on at a place with a task and a buffer for its next operation.
Goes(place, t, b) == [pc |-> place, task |-> t, buf |-> b]

Set(s, g, r) ==
    /\ pc' = [pc EXCEPT ![s] = g.pc]
    /\ task' = [task EXCEPT ![s] = g.task]
    /\ buf' = [buf EXCEPT ![s] = g.buf]
    /\ runner' = [runner EXCEPT ![s] = r]

\* Mutant: a task that comes back goes before the others.
EnqueueFirst(t) == <<t>> \o queue

Enqueue(t) == Append(queue, t)

\* add_task, called by r: a parked session takes the task and runs on the
\* caller's thread, or the task is queued.  The caller, if it is a session of
\* the set from, goes on at place to.
AddTask(t, from, to, r) ==
    LET taker == IF waiters = <<>> THEN {} ELSE {Head(waiters)}
        New(f, given, left) ==
            [x \in Sessions |-> IF x \in taker THEN given ELSE IF x \in from THEN left ELSE f[x]]
    IN  /\ pc' = New(pc, "write_header", to)
        /\ task' = New(task, t, None)
        /\ buf' = New(buf, Header(t), <<>>)
        /\ runner' = New(runner, r, IF to = "done" THEN None ELSE r)
        /\ queue' = IF taker = {} THEN Enqueue(t) ELSE queue
        /\ waiters' = IF taker = {} THEN waiters ELSE Tail(waiters)

\* The response has arrived with the operation that is complete.
Answered(s) == pc[s] = IF BodySize[task[s]] > 0 THEN "read_body" ELSE "read_header"

\* Where session s goes after a completed operation.
After(s) ==
    LET t == task[s]
    IN  CASE pc[s] = "write_header" /\ BodySize[t] > 0 -> Goes("write_body", t, Body(t))
          [] pc[s] = "write_header" /\ BodySize[t] = 0 -> Goes("read_header", t, <<>>)
          [] pc[s] = "write_body" -> Goes("read_header", t, <<>>)
          [] pc[s] = "read_header" /\ BodySize[t] > 0 -> Goes("read_body", t, <<>>)
          [] OTHER -> Goes("get", None, <<>>)

\* What follows a completed operation with buffer b, on r's thread.  A response
\* to another task sends the task back to the queue.
Proceed(s, b, r) ==
    IF pc[s] = "read_header" /\ b[1].of # task[s]
      THEN AddTask(task[s], {s}, "get", r) /\ UNCHANGED completed
      ELSE /\ Set(s, After(s), r)
           /\ completed' = IF task[s] # None /\ Answered(s) THEN completed \cup {task[s]} ELSE completed
           /\ UNCHANGED <<queue, waiters>>

\* An operation failed: the task goes back to the queue, the session is over
\* and its socket closed.
Fail(s, r) ==
    /\ IF task[s] # None
         THEN AddTask(task[s], {s}, "done", r)
         ELSE Set(s, Goes("done", None, <<>>), None) /\ UNCHANGED <<queue, waiters>>
    /\ UNCHANGED completed

\* The streams after an attempt; a session that ends closes its socket.
Streams(s, a) ==
    /\ up' = [up EXCEPT ![s] = IF a.is = "error" THEN <<>> ELSE a.up]
    /\ down' = [down EXCEPT ![s] = a.down]
    /\ UNCHANGED peer

\* co_await: an attempt at once (await_ready), then the operation is registered
\* and the coroutine suspended (await_suspend).
Await(s) ==
    /\ runner[s] # None
    /\ pc[s] \notin {"get", "done"}
    /\ \E a \in Attempts(s) :
          /\ Streams(s, a)
          /\ \/ a.is = "complete" /\ Proceed(s, a.buf, runner[s]) /\ UNCHANGED pending_ops_
             \/ a.is = "error" /\ Fail(s, runner[s]) /\ UNCHANGED pending_ops_
             \/ /\ a.is = "again"
                /\ Set(s, Goes(pc[s], task[s], a.buf), None)
                /\ pending_ops_' = Append(pending_ops_, s)
                /\ UNCHANGED <<queue, waiters, completed>>
    /\ UNCHANGED <<fresh, fetched, requeue, io, exited, workerVars>>

\* get_next_task: the oldest task, or the session is parked.  The loop condition
\* holds: sessions are asked to end when the I/O threads have stopped (module
\* SessionManager), or by the probe.
GetNextTask(s) ==
    /\ runner[s] # None
    /\ pc[s] = "get"
    /\ IF queue # <<>>
         THEN /\ Set(s, Goes("write_header", Head(queue), Header(Head(queue))), runner[s])
              /\ queue' = Tail(queue)
              /\ UNCHANGED waiters
         ELSE /\ Set(s, Goes("parked", None, <<>>), None)
              /\ waiters' = Append(waiters, s)
              /\ UNCHANGED queue
    /\ UNCHANGED <<fresh, completed, ioVars, wireVars, workerVars>>

\* The liveness probe ends a parked session whose worker is gone, or whose
\* connection fails: the rest of the worker's end follows (RunLoopFails).
Probe(s) ==
    /\ pc[s] = "parked"
    /\ \/ peer[s] = None /\ UNCHANGED losses
       \/ peer[s] # None /\ losses < MaxLosses /\ losses' = losses + 1
    /\ waiters' = SelectSeq(waiters, LAMBDA x : x # s)
    /\ Set(s, Goes("done", None, <<>>), None)
    /\ UNCHANGED <<queue, fresh, completed, ioVars, wireVars, wpc, wsocket, wtask, wbuf>>

Busy(r) == \E s \in Sessions : runner[s] = r

Submit(t) ==
    /\ t \in fresh
    /\ ~Busy("producer")
    /\ fresh' = fresh \ {t}
    /\ AddTask(t, {}, None, "producer")
    /\ UNCHANGED <<completed, ioVars, wireVars, workerVars>>

----------------------------------------------------------------------------
(* CoroIoContext *)

\* process_pending_ops takes all pending operations.
Fetch(t) ==
    /\ t \notin exited
    /\ ~Busy(t)
    /\ fetched[t] = <<>> /\ requeue[t] = <<>>
    /\ pending_ops_ # <<>>
    /\ fetched' = [fetched EXCEPT ![t] = pending_ops_]
    /\ pending_ops_' = <<>>
    /\ UNCHANGED <<requeue, io, exited, queueVars, sessionVars, wireVars, workerVars>>

\* One attempt at the next of them.  A completed one, also with an error,
\* resumes its coroutine on this thread.
TryComplete(t) ==
    LET s == Head(fetched[t])
    IN  /\ fetched[t] # <<>>
        /\ ~Busy(t)
        /\ fetched' = [fetched EXCEPT ![t] = Tail(@)]
        /\ \E a \in Attempts(s) :
              /\ Streams(s, a)
              /\ \/ a.is = "complete" /\ Proceed(s, a.buf, t) /\ UNCHANGED requeue
                 \/ a.is = "error" /\ Fail(s, t) /\ UNCHANGED requeue
                 \/ /\ a.is = "again"
                    /\ Set(s, Goes(pc[s], task[s], a.buf), None)
                    /\ requeue' = [requeue EXCEPT ![t] = Append(@, s)]
                    /\ UNCHANGED <<queue, waiters, completed>>
        /\ UNCHANGED <<fresh, pending_ops_, io, exited, workerVars>>

\* Mutant: what another thread has registered meanwhile is overwritten.
PutBackOver(t) ==
    /\ fetched[t] = <<>> /\ requeue[t] # <<>>
    /\ ~Busy(t)
    /\ pending_ops_' = requeue[t]
    /\ requeue' = [requeue EXCEPT ![t] = <<>>]
    /\ UNCHANGED <<fetched, io, exited, queueVars, sessionVars, wireVars, workerVars>>

PutBack(t) ==
    /\ fetched[t] = <<>> /\ requeue[t] # <<>>
    /\ ~Busy(t)
    /\ pending_ops_' = pending_ops_ \o requeue[t]
    /\ requeue' = [requeue EXCEPT ![t] = <<>>]
    /\ UNCHANGED <<fetched, io, exited, queueVars, sessionVars, wireVars, workerVars>>

\* stop(), and the loop condition of run().
StopBegins ==
    /\ io = "running"
    /\ io' = "stopping"
    /\ UNCHANGED <<pending_ops_, fetched, requeue, exited, queueVars, sessionVars, wireVars, workerVars>>

\* Mutant: the flag is looked at before what was fetched is put back.
ThreadExitsEarly(t) ==
    /\ io = "stopping"
    /\ t \notin exited
    /\ fetched[t] = <<>>
    /\ ~Busy(t)
    /\ exited' = exited \cup {t}
    /\ requeue' = [requeue EXCEPT ![t] = <<>>]
    /\ UNCHANGED <<pending_ops_, fetched, io, queueVars, sessionVars, wireVars, workerVars>>

ThreadExits(t) ==
    /\ io = "stopping"
    /\ t \notin exited
    /\ fetched[t] = <<>> /\ requeue[t] = <<>>
    /\ ~Busy(t)
    /\ exited' = exited \cup {t}
    /\ UNCHANGED <<pending_ops_, fetched, requeue, io, queueVars, sessionVars, wireVars, workerVars>>

StopReturns ==
    /\ io = "stopping"
    /\ exited = Threads
    /\ io' = "stopped"
    /\ UNCHANGED <<pending_ops_, fetched, requeue, exited, queueVars, sessionVars, wireVars, workerVars>>

----------------------------------------------------------------------------
(* The worker *)

WSet(w, place, t, b) ==
    /\ wpc' = [wpc EXCEPT ![w] = place]
    /\ wtask' = [wtask EXCEPT ![w] = t]
    /\ wbuf' = [wbuf EXCEPT ![w] = b]

\* The worker connects and greets; the acceptor starts a session's coroutine.
Connects(w) ==
    /\ wpc[w] = "off"
    /\ ~Busy("acceptor")
    /\ \E s \in Sessions :
          /\ pc[s] = "done"
          /\ peer[s] = None
          /\ Set(s, Goes("greeting", None, <<>>), "acceptor")
          /\ peer' = [peer EXCEPT ![s] = w]
          /\ up' = [up EXCEPT ![s] = <<>>]
          /\ down' = [down EXCEPT ![s] = <<>>]
          /\ wsocket' = [wsocket EXCEPT ![w] = s]
    /\ WSet(w, "greet", None, <<>>)
    /\ UNCHANGED <<queueVars, ioVars, losses>>

Greets(w) ==
    /\ wpc[w] = "greet"
    /\ up' = [up EXCEPT ![wsocket[w]] = Units("greeting", None, 1)]
    /\ WSet(w, "read_header", None, <<>>)
    /\ UNCHANGED <<queueVars, sessionVars, ioVars, down, peer, wsocket, losses>>

\* The run loop has returned false and the socket is closed.
Leaves(w) ==
    /\ WSet(w, "off", None, <<>>)
    /\ peer' = [peer EXCEPT ![wsocket[w]] = None]
    /\ wsocket' = [wsocket EXCEPT ![w] = None]
    /\ UNCHANGED <<queueVars, sessionVars, ioVars, down, up>>

\* The dispatcher's end is closed.
Gone(w) == pc[wsocket[w]] = "done"

\* read_task: the header, whose body_size may be above max_frame_size, then the
\* body.
ReadsTask(w) ==
    LET s == wsocket[w]
        t == wtask[w]
    IN  /\ wpc[w] \in {"read_header", "read_body"}
        /\ \E r \in Read(down[s], wbuf[w], IF wpc[w] = "read_header" THEN HeaderSize ELSE BodySize[t]) :
              /\ down' = [down EXCEPT ![s] = r.stream]
              /\ IF wpc[w] = "read_header" /\ Len(r.buf) = HeaderSize
                   THEN LET h == r.buf[1].of
                        IN  \/ WSet(w, IF BodySize[h] > 0 THEN "read_body" ELSE "process", h, <<>>)
                            \/ "too_large" \in Faults[h] /\ WSet(w, "fail", h, <<>>)
                 ELSE IF wpc[w] = "read_body" /\ Len(r.buf) = BodySize[t]
                   THEN WSet(w, "process", t, <<>>)
                   ELSE WSet(w, wpc[w], t, r.buf)
        /\ UNCHANGED <<queueVars, sessionVars, ioVars, up, peer, wsocket, losses>>

\* SkillRegistry: the skill of a task, a response buffer that its request is
\* read for, and the run of the skill.
GetPayloadFactory(t) == "no_skill" \notin Faults[t]
CreateResponseBuffer(t) == GetPayloadFactory(t) /\ "malformed" \notin Faults[t]
Process(t) == Faults[t] \cap {"malformed", "not_computed"} = {}
Dispatch(t) == GetPayloadFactory(t) /\ Process(t)

\* A response is written for a task that has been processed only.
Processes(w) ==
    /\ wpc[w] = "process"
    /\ LET t == wtask[w]
       IN  IF CreateResponseBuffer(t) /\ Dispatch(t)
             THEN WSet(w, "write", t, Header(t) \o Body(t))
             ELSE WSet(w, "fail", t, <<>>)
    /\ UNCHANGED <<queueVars, sessionVars, ioVars, wireVars, wsocket, losses>>

WritesResponse(w) ==
    LET s == wsocket[w]
    IN  /\ wpc[w] = "write"
        /\ ~Gone(w)
        /\ \E r \in Write(up[s], wbuf[w]) :
              /\ up' = [up EXCEPT ![s] = r.stream]
              /\ IF r.buf = <<>> THEN WSet(w, "read_header", None, <<>>)
                 ELSE WSet(w, "write", wtask[w], r.buf)
        /\ UNCHANGED <<queueVars, sessionVars, ioVars, down, peer, wsocket, losses>>

\* run_loop ends: the task failed, or the dispatcher has closed.
RunLoopFails(w) ==
    /\ \/ wpc[w] = "fail"
       \/ wpc[w] \in {"read_header", "read_body"} /\ Gone(w) /\ down[wsocket[w]] = <<>>
       \/ wpc[w] = "write" /\ Gone(w)
    /\ Leaves(w)
    /\ UNCHANGED losses

ConnectionLost(w) ==
    /\ wpc[w] # "off"
    /\ losses < MaxLosses
    /\ losses' = losses + 1
    /\ Leaves(w)

WorkerStep(w) ==
    \/ Connects(w) \/ Greets(w)
    \/ ReadsTask(w) \/ Processes(w) \/ WritesResponse(w) \/ RunLoopFails(w)

----------------------------------------------------------------------------

CoroutineStep(s) == Await(s) \/ GetNextTask(s)

ThreadStep(t) == Fetch(t) \/ TryComplete(t) \/ PutBack(t) \/ ThreadExits(t)

Next ==
    \/ \E s \in Sessions : CoroutineStep(s) \/ Probe(s)
    \/ \E t \in Threads : ThreadStep(t)
    \/ \E w \in Workers : WorkerStep(w) \/ ConnectionLost(w)
    \/ \E t \in Tasks : Submit(t)
    \/ StopBegins
    \/ StopReturns

Spec == Init /\ [][Next]_vars

\* Threads and workers keep running; nobody has to probe.
Fairness ==
    /\ \A s \in Sessions : WF_vars(CoroutineStep(s))
    /\ \A t \in Threads : WF_vars(ThreadStep(t))
    /\ \A w \in Workers : WF_vars(WorkerStep(w))
    /\ WF_vars(\E t \in Tasks : Submit(t))

FairSpec == Spec /\ Fairness

----------------------------------------------------------------------------

\* The types of the sessions', the I/O context's and the workers' variables.
TypeOK ==
    /\ fresh \subseteq Tasks /\ completed \subseteq Tasks
    /\ Range(queue) \subseteq Tasks /\ Range(waiters) \subseteq Sessions
    /\ task \in [Sessions -> Tasks \union {None}] /\ wtask \in [Workers -> Tasks \union {None}]
    /\ exited \subseteq Threads
    /\ runner \in [Sessions -> Threads \union {"acceptor", "producer", None}]
    /\ Range(pending_ops_) \subseteq Sessions
    /\ \A t \in Threads : Range(fetched[t]) \union Range(requeue[t]) \subseteq Sessions
    /\ peer \in [Sessions -> Workers \union {None}]
    /\ wsocket \in [Workers -> Sessions \union {None}]
    /\ losses \in 0 .. MaxLosses

\* What is read, and what is on its way, is the header of a task and then its
\* body, for the session those of the task it has sent: partial reads and
\* writes, retries by any thread and lost connections never shift the frames of
\* a connection.  The session never sees the response of another task, the case
\* in which run_coroutine would leave a body unread.
FramesAligned ==
    /\ \A s \in Sessions :
          /\ pc[s] = "read_header" => IsPrefix(buf[s] \o up[s], Header(task[s]) \o Body(task[s]))
          /\ pc[s] = "read_body" => IsPrefix(buf[s] \o up[s], Body(task[s]))
    /\ \A w \in Workers :
          LET coming == wbuf[w] \o down[wsocket[w]]
          IN  /\ wpc[w] = "read_header" =>
                    coming = <<>> \/ IsPrefix(coming, Header(coming[1].of) \o Body(coming[1].of))
              /\ wpc[w] = "read_body" => IsPrefix(coming, Body(wtask[w]))

\* A session that is suspended in an operation is in exactly one place of the
\* I/O context, and a session that is not is in none: process_pending_ops loses
\* no coroutine, and no two threads can resume the same one.
EveryOpHeldOnce ==
    \A s \in Sessions :
        LET Count(q) == Len(SelectSeq(q, LAMBDA x : x = s))
            Held(t) == Count(fetched[t]) + Count(requeue[t])
        IN  Count(pending_ops_) + MapThenSumSet(Held, Threads)
              = IF runner[s] = None /\ pc[s] \notin {"parked", "done"} THEN 1 ELSE 0

\* When CoroIoContext::stop has joined its threads, every suspended operation is
\* back in pending_ops_, where a later start() finds it, and none of the threads
\* was inside a coroutine.
StopKeepsOps ==
    io = "stopped" =>
        \A s \in Sessions :
            /\ runner[s] \notin Threads
            /\ runner[s] = None /\ pc[s] \notin {"parked", "done"} => Contains(pending_ops_, s)

\* A completed task is over: no session holds it and it is not queued again,
\* whatever happens to the connection after its response.
CompletedIsOver ==
    \A t \in completed : ~Contains(queue, t) /\ \A s \in Sessions : task[s] # t

\* A queued task that the workers can process is completed although another one
\* makes every worker that gets it leave, and comes back each time: it goes
\* behind the others (the requeueing in run_coroutine).
GoodTaskFinishes ==
    \A t \in {g \in Tasks : Faults[g] = {}} :
        t \notin fresh ~> t \in completed \/ io # "running"
=============================================================================
