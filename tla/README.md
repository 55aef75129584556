# A TLA+ verification of the task messenger

The task messenger distributes tasks from a *dispatcher* process to *worker*
processes over a ZeroTier network. This directory holds TLA+ models of its
concurrent parts, the TLC configurations that check them on small instances,
and TLAPS proofs of the properties that matter most, for instances of any size.
`PROJECT.json` relates every definition to the source lines it models.

## 1. The system and its parts

| part | source | state | operations |
|---|---|---|---|
| shared task queue | `src/message/TaskMessageQueue.*` | deque of tasks, queue of suspended sessions, shutdown flag | `get_next_task`, `add_task(s)`, `drain_cancelled`, `cancel_and_resume_waiter`, `shutdown` |
| session | `src/dispatcher/session/Session.*` | state, token, socket, coroutine | greeting, send a task, read the reply, put a task back, probe, terminate |
| session manager | `src/dispatcher/session/SessionManager.*` | map of sessions, disconnect history | create, cleanup pass, terminate all, enqueue |
| transport server | `src/dispatcher/transport/AsyncTransportServer.*` | acceptor, I/O threads | accept, maintenance, stop |
| response context, submission | `src/message/ResponseContext.hpp`, `TaskSubmitAwaitable.hpp`, `TaskCompletionSource.hpp` | queue of coroutine handles, worker threads | post, resume, stop |
| generators | `src/generators/**`, `src/message/GeneratorCoroutine.hpp` | coroutines in flight | dispatch, prune, wait |
| coroutine I/O | `src/transport/coro/*` | pending operations, poll threads | register, poll, run, stop |
| sockets | `src/transport/socket/**` | descriptor, node service, network leases | connect, accept, read, write, close, join, leave |
| worker | `src/worker/session/*`, `src/worker/runtime/*`, `src/worker/ui/*` | connection, run/pause/disconnect/shutdown flags | connect, run loop, pause, disconnect, rediscover |
| rendezvous | `src/rendezvous/*`, `src/services/rendezvous/*` | one registered endpoint with a time to live, last snapshot | register, unregister, discover, report snapshot |
| dispatcher application, monitoring | `src/dispatcher/DispatcherApp.*`, `src/dispatcher/monitoring/*` | lifecycle, registration and reporting threads | start, stop, register, report |
| worker farm | `src/worker-farm/**` (Go) | registry of worker rows, processes, run directories | spawn, stop, adopt, quarantine, purge, poll codespaces |
| libzt's node service | `src/subprojects/libzt-wrapper/NodeService.*` | identity and joined networks on disk, networks with their addresses, status | run, join, leave, callbacks, events, terminate |
| skills, serialization, options, logging, dashboards, packaging | the rest of `src/` | none that is shared | pure functions and I/O |

How they interact: a *generator* submits tasks to the *queue* and suspends one
coroutine per task; a *session* coroutine per connected worker takes a task,
writes it to the worker's socket and reads the reply; with the reply the
*response context* resumes the generator's coroutine. I/O threads retry the
socket operations the coroutines wait for; *maintenance* (called by the acceptor
after each accepted connection and by the monitoring loop, if monitoring is on)
probes idle sessions, tears down dead ones and erases ended ones. `stop()` takes
all of this apart in a fixed order. Workers find the dispatcher through the
*rendezvous* service, where the dispatcher's registration thread enters it and
its report thread sends snapshots; the *worker farm* starts and stops worker
processes. All sockets of a process share one ZeroTier node, and hold leases of
the network it has joined.

What makes it hard: coroutines are resumed by whichever thread delivers what
they wait for; the queue's mutex is released while a coroutine is resumed;
flags are read outside the mutex; a session's state is written by its coroutine
and by the maintenance pass; frames are destroyed by owners that do not know
who still holds a handle. `hazards` in `PROJECT.json` lists the places.

## 2. The modules

| module | models |
|---|---|
| `TaskMessageQueue` | the queue, one action per critical section, unlocked flag access or resumption |
| `TaskPool` | what the queue promises: a FIFO pool without threads, locks or waiters |
| `SessionManager` | session coroutines, the manager's cleanup pass, the server's stop sequence, on top of `TaskMessageQueue` (`INSTANCE`) |
| `ResponseContext` | the executor that resumes the generators' coroutines: `post`, the worker threads, `stop` |
| `TaskGenerator` | the generators and the life of their coroutines and completion sources, on top of `ResponseContext` (`INSTANCE`) |
| `WorkerSession` | a worker process: its control thread with `connect` and `run_loop`, against the user interface's calls |
| `FarmManager` | the farm's local worker manager with its registry, manifest and sentinels, its requests, and restarts of the farm |
| `RendezvousServer` | the rendezvous service: two ports with an accept thread each, the endpoint and its time to live, the last snapshot, stop and restart |
| `DispatcherApp` | the dispatcher's start and stop, registration thread, report thread and HTTP handlers, on top of `RendezvousServer` (`EXTENDS`) |
| `TaskExchange` | a task's way over the wire: session coroutine, pending operations and I/O threads, byte streams, worker loop, skill registry |
| `ZeroTierNodeService` | the process-wide node, the waits of a join and the network leases |
| `ZeroTierSocket` | the sockets of a dispatcher or a worker and the threads that use, cancel and close them, on top of `ZeroTierNodeService` (`EXTENDS`) |
| `StateStore` | libzt's files: puts in two steps, gets, and what a killed process leaves |
| `NodeService` | libzt's node service: `run()`, the core's callbacks, the application, on top of `StateStore` (`EXTENDS`) |
| `MC...` | symmetry sets and model values for TLC, one module per component |
| `TaskMessageQueueProofs` | the inductive invariant of the queue, its theorems, and the refinement of `TaskPool` |
| `ResponseContextProofs` | the inductive invariant of the executor and its theorems |
| `NodeServiceProofs` | the inductive invariant of libzt's node service with its store, and its theorems |
| `ZeroTierSocketProofs` | the inductive invariant of the leases and of a dispatcher's sockets, and its theorems |
| `DispatcherAppProofs` | what holds of the runs of a dispatcher, of the rendezvous service and of its connections, and the theorems about both |
| `SessionManagerProofs` | that the sessions, the manager and the server use the queue as its callers may, their inductive invariant on top of the queue's, and its theorems |
| `FarmManagerProofs` | the inductive invariant of the farm's manager, its goroutines and its files, and its theorems |
| `WorkerSessionProofs` | the inductive invariant of a worker's control thread and user interface, and its theorems |

Operators that a comment marks as a mutant are deliberately wrong variants of the
definition that follows them. They are never used by a specification; they show
that a property would notice that mistake in the code.

### TaskMessageQueue

A session coroutine, its awaitable and its cancellation token are one model
value: each `Session` owns one of each. `co` is the place of the coroutine in
`co_await get_next_task(token)`: `AwaitReady` (the token and the flag, both read
without the lock), `TryGetTaskImmediately` (a critical section),
`AwaitSuspendCheck` (again without the lock) and `AwaitSuspendLocked` (check
again, take, or park). `add_task` and `add_tasks` are one thing: `AddTasks` or
`Requeue` is the unlocked read of the flag, `Distribute` one turn under the
lock, `ResumeWaiter` the resumption with the lock released. `shutdown()` is
`ShutdownFlag`, `ShutdownSwap` and one `ShutdownResume` per waiter.

In the code a resumed coroutine runs on the resuming thread until it suspends
again. The model lets it run beside that thread, which allows every behaviour
of the code and more interleavings of the remaining batch.

The body of a session is open in this module: a session that holds a task
completes it or puts it back. A task is a model value; `NoTask` is the invalid
`TaskMessage{}`.

### SessionManager

`SessionManager` instantiates the queue and conjoins its actions with what the
session, the manager and the server do around them. `at` is the I/O operation
the coroutine is in, `pending` the coroutines waiting for an I/O thread, `open`
the sockets, `gone` the connections that have ended. Every I/O operation may
succeed, or fail with a connection error or another one, and `check_alive` may
take any session for dead, because it does so for every error but would-block. A
reply may carry a wrong task id or a wrong skill id.

`cleanup_completed_sessions` holds `sessions_mutex_` during its four loops, but
the coroutines, the producers and the queue go on meanwhile: each visit of a
session is an action, the probe three (look, store TERMINATED, cancel).
`terminate_all_sessions` is two loops in the same way. `server` is the progress
of `AsyncTransportServer::stop()`.

### ResponseContext and TaskGenerator

`post` is a critical section and a `notify_one` after it; `worker_loop` is the
wait, the removal of a handle and its processing; `stop` sets the flag, notifies
all and joins. Spurious wake-ups are allowed and never relied on (they have no
fairness).

`TaskGenerator` follows one coroutine per task: its `frame` (suspended, resumed,
done, destroyed), where its `message` is (queued, taken, completed, freed) and
what the generator's loop does with it: refill and prune (auto-refill), or
prompt, dispatch and wait (interactive). The queue and the sessions are reduced
to what the generators see of them; `TaskMessageQueue` shows that they neither
lose nor duplicate a task, and `MaxSessions` tasks at most are out at a time. A
coroutine runs inside the `resume()` of a worker thread, which goes on to the next
handle when the coroutine has returned (`ResumeReturns`). Task ids wrap at
`IdLimit`, which stands for 2^32.

### WorkerSession

`pc` is where the control thread is in `start()`, in `try_discover_dispatcher()`
below it, in `connect()` or in `run_loop()`; `ui` is where the user interface's
thread is in one of its calls. The flags are atomics without a common lock, so
each access the other thread can get between is an action of its own. `socket_`
tells a socket with a descriptor (`"open"`) from one that is connected, because
`is_connected()` does not. A blocking and an asynchronous runtime take the same
steps at this level. `request` is a history variable: the last thing the user
asked for, and whether a disconnect met the running loop.

### FarmManager

A slot stands for the worker spawned in it: `proc` is its process, `row` its
registry row, `sentinel` and `manifest` what the disk says of it. The goroutines
are `spawner` (`spawnOne`), `supervisor` (`supervise`, `superviseAdopted`) and
`killer` (`gracefulKill`) of a slot and the HTTP requests; a lock of the code
makes one action of what it covers, and nothing else does. `persistRun` is
`SnapshotIds` under the manager's mutex, `Render` with `writeMu`, and
`WriteManifest`; the goroutine that called it goes on when it is `Free`.
`FarmEnds` forgets everything but the processes and the files, at any point;
`FarmStarts` is the adoption scan. Slots in `Foreign` have the sentinels of
another installation and go through the quarantine. One run is spawned: a second
one has its own directory, ids and `writeMu`. `stop-all` and `purge-all` are
several requests, one per worker. `forgotten` is a history variable: the
processes that the code gives up. Pids are not reused (`pidfile.go` relies on the
same), and manifest writes and file removals succeed; a sentinel write may fail.

### RendezvousServer and DispatcherApp

A connection is a record of its peer, the frame that is in it and whether the
peer's end is open, first in a port's `backlog` and then in `serving`: each port
has one thread, which serves a connection to its end before it accepts the next.
`Dispatchers` are successive runs of the dispatcher, 1, 2, ...; endpoints and
snapshots are the number of the run they come from. `fresh` is the comparison of
`last_seen` with the time to live; `Expire` is the passing of that time.

`ex` is where a run's `RendezvousClient::exchange` is, `report` where its report
thread is in `report_loop` and `SnapshotReporter::report`, `app` where
`DispatcherApp::start` or `stop` is. Creating a socket, publishing it and looking
at the cancelled flag again are separate steps, because `cancel()` comes between
them. A run may be killed at any point; its open connections end later
(`Keepalive`), and what they hold is still served.

### TaskExchange

A stream holds the units of frames, at most `Window` of them, and a transfer
moves any non-zero number of them, so that headers and bodies arrive in pieces.
`Await` is an operation's first attempt on the coroutine's own thread; what is
not complete goes into `pending_ops_`, from where `Fetch` takes everything,
`TryComplete` makes one attempt each and resumes the coroutine, and `PutBack`
returns the rest. `runner` says which thread is inside a coroutine. `Faults` says
what is wrong with a task: `Processes` follows `TaskProcessor::process` through
the registry's `Dispatch` to each error, after which the worker leaves without an
answer. The queue is the pool that `TaskMessageQueue` is shown to implement,
with the hand-over to a parked session, whose coroutine then runs on the
producer's thread. `Probe` is what maintenance does to a parked session whose
worker is gone or whose connection fails.

### ZeroTierNodeService and ZeroTierSocket

`acquire()` holds its mutex through every wait, so the places of a caller in it
(`acq`) are steps of one thread while others queue at `Lock`; the node, the
network and the address change by themselves. `interrupt` is the flag that
`shutdown()` of any socket sets and nothing clears.

A socket has its thread's place `pc`, its descriptor `sfd` and the copy `tfd` the
thread made before a blocking call. Descriptors are reused as libzt does.
`role` makes the process a dispatcher, whose listening socket joins the network
first, or a worker, which has only client sockets. A worker's one control thread
uses two of them in turn: the rendezvous client's, made for each exchange, and the
`Runtime`'s, which `connect()` makes once, stores where `shutdown()` finds it,
closes and uses again, and which `release()` drops at the end.

### StateStore and NodeService

`Put` is `nodeStatePutFunction` up to `fopen(p, "wb")`, which empties the file,
`WritePut` the rest; the process can be killed between the two. `pc` is the
place of `run()`. The core answers a join with callbacks: `Up`, with the
configuration it has stored or with none, then `ConfigUpdate` and `Down`; both
of the first two copy the configuration and sync the tap's addresses
(`TakeConfig`). `Announced` are the statuses that `generateSyntheticEvents` has
an event for, and `lwip` is whether the stack is up, which it asks for first.
`heard` is what the application knows from the events it was sent, `wanted` and
`kept` are history variables. The core, the taps and the event queue are
external: they do what `NodeService.cpp` expects of them, a tap may refuse to
take or to drop an address, and what a new tap has for the last status announced
may be none or that of a request (`TapStatuses`).

## 3. The runs

| run | bounds | what it shows |
|---|---|---|
| `queue` | 2 sessions, 2 tasks, 2 producers, batches of 2 | no task lost; no lost wake-up; no handle resumed twice; the queue implements `TaskPool`; queued tasks are taken; `shutdown()` wakes every live waiter |
| `dispatcher_safety` | 2 sessions, 1 task, history cap 1 | no dangling handle; `stop()` refuses no task and leaves no call behind that could still queue one; the dispatcher uses the queue as `TaskMessageQueue` allows |
| `dispatcher_liveness` | 1 session, 2 tasks | dead waiters leave the queue as long as maintenance passes come; a session that the probe gave up ends; `stop()` returns |
| `responses` | 3 threads, 3 handles | no notification is lost; `stop()` leaves no accepted handle behind |
| `generators` | both generators, 3 coroutines, threshold 1, refill 1, answers up to 2, ids modulo 3 | the refilled queue stays short although the size it was refilled by is outdated; responses arrive, a shutdown request ends everything |
| `worker` | 2 presses, 1 move of the dispatcher, 2 endpoints, every rendezvous setting | a disconnect that meets the loop holds until the next start; a shutdown that finds a socket ends `start()`; lost connections are repaired |
| `farm` | 1 worker of the farm, 1 foreign one, 2 requests | the manifest of a farm that knows the run has no outdated state, and a worker without a row no sentinel in any farm; across ends and restarts of the farm no live worker is lost, except where the code gives it up; a stop ends the worker and returns |
| `rendezvous_order` | 2 runs of the dispatcher, 2 waiting connections | what the service knows never goes back to an earlier run; nobody reads the sessions of a server that `stop()` takes down |
| `rendezvous_liveness` | 1 run, 1 waiting connection, a service that stops, crashes and starts again | both `stop()`s return; a running dispatcher is in the end the endpoint that the service knows, unless the service goes down with a registration it has confirmed; one that ended is in the end not discovered |
| `exchange` | 2 tasks, one of which ends its worker, 2 sessions, 1 worker, 2 I/O threads, headers of 2 units, 1 lost connection | frames stay aligned; an operation is held exactly once; `CoroIoContext::stop` keeps them; the good task is completed |
| `sockets` | a dispatcher or a worker, 2 client sockets each, 1 accepted socket at a time, 4 descriptors | the network is joined while a lease is held; a dispatcher's clients never depend on the interrupted waits; a stop gets every thread out and leaves the network, unless a worker's `shutdown()` comes while `connect()` is making its socket |
| `node` | 1 network, 1 address, 2 identities, 2 configurations | a stored identity and a joined network survive kills at any point; addresses are announced as the taps have them, and every lasting status that has an event is announced |

The modules also state type invariants and some invariants that follow closely
from one definition (`NoTaskTwice`, `HandedTaskIsSeen`, `OnlyCancelledStranded`,
`NoHandleLost`, `ResumedOnce`, `PostedIsProcessed`, `IdsValid`,
`StoppedIsReleased`, `ShutDownForGood`, `HeldIsIdle`, `CompletedIsOver`,
`EntriesAreWhole`, `FatalEnds`). They hold in the same instances; the first five,
`StoppedIsReleased`, `ShutDownForGood` and the type invariants of the modules
with proofs are proved (section 4).

Deadlock is checked where the system has always something left to do; it is not
in `rendezvous_*`, `exchange`, `sockets` and `node`, where the processes may end
for good.

Bounds: a race for a waiter needs two threads and one waiter, a race between
waiters a second one; the second producer lets two batches overlap. Batches of
two are needed for the window in which `add_tasks` has released the lock. Two
tasks make order observable; that nothing depends on more is what the proofs
show. In `SessionManager` the one task moves between two sessions, or two tasks
through one; the history cap of 1 makes the second erased session push the first
one out. In `ResponseContext` a third thread can wait while one processes and
one leaves. The generators need more coroutines than one refill starts, a round
of two, and ids that wrap. In `WorkerSession` two presses make every pair of
requests in every order. In `FarmManager` a spawn, its supervisor and two
requests that stop and purge the same worker write one manifest; nothing else is
bounded, in particular not the restarts. (`NoStaleTrace` was also checked with
two workers and one request; with liveness that instance is too large.) Two runs
of the dispatcher are what it takes for one to overtake the other, and two
waiting connections what it takes for their order to matter; a service that
stops, crashes and restarts makes every wait of one dispatcher happen, so the
liveness run has one. (`Registers` was also checked with two runs and a service
that stays up, where the first run's leftovers are in the second one's way; that
instance takes longer than a run should.) In `TaskExchange` a header of two
units is read and written in pieces, two sessions let a thread take a batch of
two operations while the other puts one back, and a single worker must get past
the task that ends it. In `ZeroTierSocket` there is a descriptor for each
socket, and a number that is closed is given out again while a thread may still
hold its copy. In `NodeService` a second identity is what a lost first one would
be replaced by, and a second configuration what makes a put change the file of a
network. One address can be taken, refused, kept and dropped; addresses do not
interact. (With two, the instance takes eight minutes and shows the same; the
theorem is for any number.)

Fairness: threads and coroutines that are not parked keep running (weak fairness
of their steps). In `SessionManager` a pending operation ends, with an answer or
because the connection fails; a maintenance pass that has begun comes to its
end, but nothing is assumed of there being another one: monitoring is optional,
and the acceptor maintains only after it has accepted a connection; a session's
operations do not all complete at once for ever, because a worker answers only
after it was asked (strong fairness of `IoSuspend`); `stop()` gets the mutex
between two maintenance passes, which are a second apart (strong fairness of
`StopContinues`). In `TaskGenerator` some session takes a task again and again,
and some session completes one (strong fairness: a failing connection may come
between), and the user answers the prompt. In `WorkerSession` both threads keep
running and calls on a socket that is closed, shut down or without a peer return
(the sockets have timeouts for this); a read may wait for a task for ever; a
dispatcher that went away comes back, and attempts to find or reach one that is
there do not fail for ever (strong fairness). In `FarmManager` every goroutine
keeps running (weak fairness for each); nothing is assumed of the workers, which
may ignore `SIGTERM`, of request deadlines or of the farm being ended or
started. In `DispatcherApp` every thread keeps running, time passes (`Expire`),
dead connections are noticed (`Keepalive`), and an exchange that can go through
again and again does so in the end (strong fairness of `Transfer`:
`registration_loop` retries without limit). In `TaskExchange` coroutines,
threads and workers keep running and tasks are submitted; nothing is assumed of
the probe, and lost connections are bounded. In `ZeroTierSocket` threads keep
running and a mutex that is released again and again is obtained (strong
fairness of `Lock`); nothing is assumed of the node, the network or the peers.
In `NodeService` only the main loop is fair, nothing is assumed of the core, of
the stack or of the application.

## 4. What is proved

`TaskMessageQueueProofs` proves, for any finite or infinite sets of sessions,
tasks and producers and any batch bound, that each invariant of `queue` and the
other invariants of `TaskMessageQueue` hold in every reachable state, and that
nobody parks after `shutdown()`. The assumptions are those of `TaskMessageQueue`:
the invalid task is not a task, and threads and sessions are different things.

The invariants are proved together, as the inductive invariant `IInv`, because
they need each other: that a waiter has no task in its awaitable
(`HandedTaskIsSeen`) is needed to show that handing it one loses none
(`NoTaskLost`); that handles are unique (`HandleResumedOnce`) is needed to show
that a resumed session is nowhere else. `Discipline` adds what none of them
says: where `shutdown()` is, that the thread in `shutdown()` adds no tasks, that
a session at work has a task, and that a session is inside `add_task` only while
it puts a task back. There is one lemma per action; steps that only move handles
share `RemoveWaitersPreserves` and `NextHandlePreserves`, steps that change a
call's tasks share `CallsUpdate`.

That the queue implements `TaskPool` (`QueueImplementsPool`) is proved from `IInv`:
`PoolInit` maps the initial states, `PoolNext` every step, to the accepting, giving
out, returning, completing or refusing step of the pool or to no step at all. The
pool is `tasks_`, the tasks on offer are those of the calls in progress (`InCall`),
and what a session holds is in its awaitable. `IInv` contributes that a session
that is given a task has none, and that a task is in one place only: without it a
hand-over could overwrite a task or take one out of two calls.

`ResponseContextProofs` proves the invariants of `ResponseContext` for any sets of
handles and threads (at least one thread, which `start()` guarantees). Its
inductive invariant adds `Discipline`: a busy thread holds a handle; before
`start()` there are no threads and nothing is pending; while `running_` is set
nobody is stopping and no thread has left; a thread leaves only when nothing is
pending.

`NodeServiceProofs` proves the three invariants of `node` for any networks,
addresses, identities and configurations, from `StoreAssumption` (files have
different names and contents differ from no content) and `NetworkAssumption`.
`IdentityStored` is what makes `IdentityKept` inductive: a complete identity stays
in its file, so a put of the identity can only be on its way while there is none,
and the core, the service's memory and such a put agree. `NetworksStored` does the
same for `JoinedSurvivesRestart`: a network that is wanted has a file, in whatever
state, and once the cached networks are joined it is among those of the core.
`EntriesJoined` relates `_nets` to the core's networks for `AddressesAsAnnounced`: of a
network that is not joined there is no entry and the application knows no address,
so that the stored configuration with which a network comes up is announced on top
of nothing (`UpResult`), and a later one on top of what is known
(`TakeConfigResult`).

`ZeroTierSocketProofs` proves `LeaseKeepsNetwork` and `ClientsNeverWait` for any
number of sockets and descriptors; `OwnersAssumption` asks for finitely many
owners, since the code counts them, and `SocketsAssumption` says which sockets
there are. The invariant of the service alone is `ServiceInv`: whoever is inside
`acquire()` has the mutex and no lease, and the waits for the network happen
without any lease and after the join. `ListenerServes` adds the order in which a
dispatcher uses it: from the first client socket to the last its listening socket
accepts and has its lease. So the count is positive when a client comes, which is
granted at once, and the interrupted waits are never reached.

`DispatcherAppProofs` proves `NoBuildOnStoppedServer` and the action property
`ServedViewNeverGoesBack` for any number of successive runs and any backlog. One
part of the inductive invariant, `ProcessInv`, is about the runs: one is alive
at a time and nothing is left of an ended one (`RunsInOrder`); the client is
cancelled when `stop()` comes to unregister, so only registrations reach a
socket (`OnlyRegistrations`); past `MonitoringService::stop()` neither its
report thread nor a handler is left (`MonitoringJoined`). The other,
`ServiceInv`, is about the two ports: what a connection holds comes from its own
peer (`Genuine`), and what is served, then what is being served, then the
backlog are in the order of the runs (`ConnectionsInOrder`). The order needs
both parts: a run connects when all earlier ones have ended, so it comes behind
their connections, which may still be waiting with a frame in them.

`SessionManagerProofs` proves the three safety properties of `dispatcher_safety` for
any sessions, tasks and producers, any batch bound and any positive history cap;
the other assumptions are the queue's. It composes two proofs.
`UsesQueueCorrectly` shows that every step of the dispatcher is a step of the queue
or leaves it alone, so it implements the specification that
`TaskMessageQueueProofs` is about, and the queue's theorem (cited through an
`INSTANCE`; the `...Agrees` lemmas say that both instances mean the same) gives
`QInv`: a handle is resumed once and a task handed over is seen. On top of it
`SInv` is inductive: `PlaceInv` relates the place of a coroutine in the queue to its
place in `run_coroutine`, without which nothing says that a done coroutine has no
pending operation; `ErasedInv` says that only such coroutines are erased, and with
`QInv` nobody can reach them (`NoDanglingHandle`); `StopInv` says that from the end
of `io_->stop()` on every coroutine is done, parked or waits for an I/O thread that
is gone, and no producer is inside the queue, so that nobody is left to call
`add_task` when the queue is shut down (`NoTaskRefused`).

`FarmManagerProofs` proves `LiveWorkerKnown` and `NoStaleTrace` for any number of
workers, of foreign sentinels and of requests, across any number of ends and
restarts of the farm; `SlotsAssumption` is its only assumption. `DownInv` says that
a farm that is down remembers nothing, `RunInv` that one request launches the run,
in slots nobody has used, and `SlotInv` in which order the spawn, the supervisor
and a purge of one slot come. `LiveInv` strengthens `LiveWorkerKnown`: a live
process is not exited or being purged, and it has its sentinel or its spawn has yet
to write it, which is what the next farm's scan finds. `PersistInv` strengthens
`NoStaleTrace` to the times between: either somebody has yet to take a snapshot of
the row and write it, or what is on disk, or about to be written by the one holder
of `writeMu` (`LockInv`), is what the row says. `SentinelInv` is its second half,
and holds in every farm: a slot without a row has no sentinel, but while its spawn,
its supervisor or a purge of it is between the two.

`WorkerSessionProofs` proves `HeldUntilStart`, `StoppedIsReleased` and
`ShutDownForGood` for any number of button presses, moves of the dispatcher and
endpoints, and every subset of the rendezvous settings (`ModesAssumption`,
`EndpointsAssumption`, `BoundsAssumption`). A disconnect is written to two flags by
one thread and cleared by the other in several places; `CallInv` follows it until
it has come to the runtime and `HeldInv` from there on, through the end of
`run_loop` and the test after it, to the wait for a start. `EndInv` says that the
loop is left for a shutdown only, and `ShutInv` that a socket which `shutdown()` has
found is not connected, except inside that call or before its greeting fails.

What stays with TLC, and why:

* liveness, which needs fairness and `ENABLED`, out of this prover's reach;
* the three invariants of `exchange`. `FramesAligned` needs facts about prefixes of
  frames of any length that are moved piece by piece, an induction over data;
  `EveryOpHeldOnce` counts an operation's occurrences with a filter and a fold over
  the threads, both defined by recursion; `StopKeepsOps` follows from it;
* `BoundedBacklog` of `generators` and those of the invariants named below
  the table of section 3 that are not said there to be proved. They are within
  reach of the method above; TLC alone checks them.

## 5. What the code does not guarantee

The models also reach states that a comment, a document or a reader's
expectation excludes. Each can be seen by checking the formula as an invariant or
property of the module (a named formula is defined there).

| module | formula | what happens |
|---|---|---|
| `SessionManager` | `TeardownFinishesParked` | between the probe's `cancel()` and `cancel_queue_wait()` an `add_tasks` of another thread pops the cancelled waiter without resuming it: the coroutine stays suspended and the session is never erased; `SessionManager.cpp:131` says "Each coroutine runs synchronously on this thread and reaches final_suspend, making is_done() true." |
| `SessionManager` | `\A s \in Sessions : s \in cancelled ~> IsDone(s) \/ server # "running"` | the probe stores `TERMINATED`, the coroutine overwrites it with `WAITING_FOR_TASK` and parks, the probe cancels its token: the teardown loop passes it over for its state, and `drain_cancelled` or an `add_task` drops its waiter without resuming it (`Stranded`) |
| `SessionManager` | `\A s \in Sessions : (s \in gone /\ s \in Range(waiting_workers_)) ~> (s \notin Range(waiting_workers_) \/ server # "running")` | without monitoring and without new connections there is no maintenance pass, and the session of a worker that died stays parked until a task is handed to it |
| `TaskGenerator` | `KeptAliveUntilComplete` | after a shutdown request frames are destroyed before their responses, whose thread then calls `done()` on them; `TaskGenerator.hpp:41` says "must be kept alive until all complete" |
| `WorkerSession` | `NoReconnectUntilStart` | a failed `connect()` skips the test of the disconnect, and `run_loop` clears it; `WorkerSession.cpp:278` says "Ensure we do not reconnect until user requests start" |
| `WorkerSession` | `ShutdownEnds` | `shutdown()` finds no socket, the control thread is past its test of the flag, connects and blocks; `worker/session/README.md:27` says "safe to call regardless of the current state" |
| `TaskMessageQueue` | `[][shutdown_ => Range(tasks_') \subseteq Range(tasks_)]_vars` | `add_tasks` has read the flag before `shutdown()` set it and appends afterwards; "After shutdown, no new tasks will be accepted" |
| `SessionManager` | `server = "terminated" => \A s \in active_sessions_ : co[s] # "suspended"` | `request_termination` sets `COMPLETING`, so the second loop of `terminate_all_sessions` resumes nobody; nor does the queue's `shutdown()`, which skips the waiters whose tokens are cancelled, as these are |
| `TaskGenerator` | `\A c \in Coros : frame[c] = "resumed" => message[c] = "completed"` | the session drops the completion source, whose other owner was a temporary of the `co_await`, before the coroutine has read the response through its reference |
| `WorkerSession` | `rendezvous = "on" /\ pc \in Connecting => host_ # Configured` | a start after a cancelled first discovery connects to the configured host |
| `WorkerSession` | `pc = "discover" ~> pc \notin Discovering` | after one disconnect the rendezvous client stays cancelled, and no later discovery succeeds |
| `WorkerSession` | `pc \in {"need", "run"} /\ is_connected => socket_ = "connected"` | a failed `connect()` leaves the descriptor open, which counts as a connection |
| `WorkerSession` | `request = "start" ~> pc \in Running \/ request # "start" \/ shutdown_requested_` | a start before the control thread has acted on a disconnect is cleared together with it |
| `SessionManager` | `server = "stopped" => \A s \in created : IsDone(s)` | `stop()` joins the I/O threads before it terminates the sessions, so a coroutine that waits for I/O is never resumed, and neither is a parked one (see above); a session that is done keeps the state `COMPLETING` that `request_termination` gave it, and is not erased; `AsyncTransportServer.cpp:78` says "every coroutine reaches final_suspend before destruction" |
| `FarmManager` | `\A s \in Own : Settled(s) => manifest[s] = row[s]` | a goroutine takes the ids before another one enters its own, and writes after it: the entry is missing until the next change; `manager.go:444` says "the on-disk view never lags the registry by more than one syscall" |
| `FarmManager` | `\A s \in Slots : row[s] = "stopping" ~> row[s] # "stopping"` | `Stop` finds the worker tracked, the supervisor records its exit, `Stop` overwrites the row: it stays `stopping`, and `Purge` asks to "stop it first" |
| `FarmManager` | `\A s \in Own : Settled(s) => manifest[s] \in {"none", row[s]}` | a farm that was started again adopts workers without knowing their run: `superviseAdopted` persists nothing, and the `persistRun` of a `Purge` returns at once, so the manifest keeps the rows that the earlier farm wrote, also of purged workers; `manager.go:444` as above, and `manager.go:783` on `Purge` |
| `ZeroTierSocket` | `app = "stopping" ~> (app = "ended" /\ leases = {})` | `shutdown()` of a worker comes after `connect()` has found no socket and before it stores the new one: it shuts down nothing, and the control thread may wait in `connect()` or in a read for ever |
| `DispatcherApp` | `UnregisterIsTried` | `stop()` cancels the client first, so that its later unregistration returns at once; `DispatcherApp.cpp:171` says "Best-effort unregister from rendezvous before tearing down transport." |
| `DispatcherApp` | `\A d \in Dispatchers : <>[](app[d] = "running" /\ server = "up") => <>[](endpoint_ = d)` | the registration thread ends with its first success: after a restart of the service nobody registers again |
| `NodeService` | `NoEventWithoutConfig` | a `leave()` after an exception in the main loop makes an entry without configuration, and an event from it |
| `NodeService` | `NewPortIsBound` | the port picked after a while offline is stored where the binder does not look; `NodeService.cpp:389` says "bind a new secondary port" |
| `NodeService` | `OnlineFlagFollows` | any event but ONLINE clears `_nodeIsOnline` |
| `NodeService` | `StatusHasEvent` | `PORT_ERROR` has no case in `generateSyntheticEvents`: it is recorded as announced without an event, and the application still believes the status before it while `getNetworkStatus` reports this one |
| `NodeService` | `ReasonKept`, `FailedIsNotRunning` | the reason of a fatal error is overwritten by the end of `run()`; a `run()` that could not start leaves `_run` set |
| `NodeService` | `ReportedIsOnTap` | an address that a tap refused is reported by `getFirstAssignedAddr` and not tried again |

Also worth knowing, and visible in the models: a second dispatcher's snapshot
connection waits while the first one lives; a worker is served by whichever
thread adds a task, so a task put back by one session runs the next one's
coroutine on the same stack; the first ended session of a dispatcher interrupts
every later wait for the network in its process, which is harmless only because
its client sockets are created after the listening socket has joined
(`ClientsNeverWait`).

## 6. What is not modelled

* The worker farm's codespaces, pidfile and identity file. What a codespace does
  is known from the output of the `gh` program and through SSH, about which
  nothing in the repository can be assumed.
* In `NodeService.cpp`: the TCP fallback tunnel (`phyOnTcp*`, the packet paths
  of `nodeWirePacketSendFunction`), peers and their cache, path checks, the
  interface blacklist and the multipath settings, and `setIdentity`, with which
  an application may supply an identity before the start. They carry packets for
  the ZeroTier core or set it up, and have no state that the application sees
  later.
* What a torn copy of `WorkerSession::runtime_` does: the control thread replaces
  the pointer while the user interface's thread copies it, without a lock. A call
  on the runtime that was replaced is modelled.
* The core, the taps, the event queue and the sockets of libzt: external, as
  their callers use them.
* `ZeroTierNodeService::stop`, `try_connect`, `check_connect_complete`,
  `terminate_session` and `HttpRequestHandler.cpp`, which nothing calls.
* What skills compute, `verify_response`, code generation, serialization, option
  parsing, logging, dashboards, the HTTP side's formatting, statistics and
  packaging: pure functions or I/O without shared state that a model checker
  would explore.
