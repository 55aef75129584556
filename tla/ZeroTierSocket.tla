--------------------------- MODULE ZeroTierSocket ---------------------------
(***************************************************************************)
(* The sockets of one process (ZeroTierSocket).  A dispatcher has the      *)
(* listening socket with its acceptor thread, the blocking client sockets  *)
(* of the rendezvous client and of the snapshot reporter, each with the    *)
(* thread that uses it and the thread that may cancel it, and the sockets  *)
(* accept() returns, which sessions shut down and close.  A worker has the *)
(* socket of its rendezvous client and the one its runtime keeps over all  *)
(* connections; its control thread uses one at a time, and joins the       *)
(* network with the first of them.                                         *)
(*                                                                         *)
(* pc[s] is the place of the thread that uses s, sfd[s] is socket_fd_      *)
(* (0 for -1), tfd[s] the descriptor that thread has copied under          *)
(* socket_mtx_.  Descriptors are numbers that libzt gives out again: fdt   *)
(* says what each one is.  What a peer does, and when, is left open.       *)
(***************************************************************************)
EXTENDS ZeroTierNodeService, FiniteSetsExt

CONSTANTS Server,       \* the listening socket
          Clients,      \* blocking client sockets
          Persistent,   \* those that keep their connection (the reporter's)
          Runtime,      \* socket_ of a worker's runtime
          Accepted,     \* sockets that accept() returns
          MaxFd         \* descriptors libzt has

ASSUME SocketsAssumption ==
    /\ Owners = Clients \union {Server} /\ Server \notin Clients
    /\ Accepted \cap Owners = {} /\ Persistent \subseteq Clients
    /\ Runtime \in Clients \ Persistent
    /\ MaxFd \in Nat

VARIABLES role, app, pc, sfd, tfd, cancel, shut, fdt

Sockets == Owners \union Accepted
Fds == 1 .. MaxFd

socketVars == <<sfd, tfd, shut, fdt>>
vars == <<role, app, pc, sfd, tfd, cancel, shut, fdt, serviceVars, libztVars>>

Init ==
    /\ ServiceInit
    /\ \/ role = "dispatcher" /\ app = "starting"
       \/ role = "worker" /\ app = "running"
    /\ pc = [s \in Sockets |-> "none"]
    /\ sfd = [s \in Sockets |-> 0] /\ tfd = [s \in Sockets |-> 0]
    /\ fdt = [f \in Fds |-> "free"]
    /\ cancel = [c \in Clients |-> "no"] /\ shut = [s \in Sockets |-> FALSE]

Goto(s, place) == pc' = [pc EXCEPT ![s] = place]
Keeps(f) == UNCHANGED <<role, app, cancel, serviceVars, libztVars>> /\ f

(***************************************************************************)
(* Descriptors                                                             *)
(***************************************************************************)
Free == {f \in Fds : fdt[f] = "free"}

\* open_fd_if_needed(): libzt takes the lowest free number.
OpenFd(s) ==
    \/ sfd[s] # 0 /\ UNCHANGED <<sfd, fdt>>
    \/ /\ sfd[s] = 0 /\ Free # {}
       /\ sfd' = [sfd EXCEPT ![s] = Min(Free)]
       /\ fdt' = [fdt EXCEPT ![Min(Free)] = "open"]

\* close(): the number is taken out of the socket under socket_mtx_, and closed.
CloseFd(s) ==
    /\ sfd' = [sfd EXCEPT ![s] = 0]
    /\ fdt' = IF sfd[s] = 0 THEN fdt ELSE [fdt EXCEPT ![sfd[s]] = "free"]

\* shutdown() of one socket interrupts the waits of acquire() for good.
ShutdownAlone(s) ==                                                 \* mutant
    shut' = [shut EXCEPT ![s] = TRUE] /\ UNCHANGED interrupt
Shutdown(s) ==
    shut' = [shut EXCEPT ![s] = TRUE] /\ interrupt' = TRUE

(***************************************************************************)
(* The client sockets' threads: exchange() and report()                    *)
(***************************************************************************)
\* The client sockets the process has.
Users == IF role = "worker" THEN Clients \ Persistent ELSE Clients \ {Runtime}

\* A worker's one thread is not in connect() or run_loop() of its runtime.
ControlFree == role = "worker" => pc[Runtime] \in {"none", "held"}

CreateEarly(c) ==                                                   \* mutant
    /\ c \in Users \ {Runtime} /\ ControlFree
    /\ app # "ended" /\ pc[c] = "none" /\ cancel[c] = "no"
    /\ EnsureLease(c)
    /\ Goto(c, "lease")
    /\ UNCHANGED <<role, app, cancel, socketVars>>

\* exchange() and report() read the flag of cancel() before they make a socket
\* and after they have published it: in one step.  A dispatcher starts its
\* reporter and its registration once it listens.
Create(c) ==
    /\ c \in Users \ {Runtime} /\ ControlFree
    /\ app \in {"running", "stopping"} /\ pc[c] = "none" /\ cancel[c] = "no"
    /\ EnsureLease(c)
    /\ Goto(c, "lease")
    /\ UNCHANGED <<role, app, cancel, socketVars>>

\* connect() of the runtime, which the control thread calls when it has found no
\* shutdown requested: without a socket it makes one, an open one it closes.
RuntimeConnects ==
    /\ role = "worker" /\ app = "running"
    /\ pc[Runtime] \in {"none", "held"} /\ \A c \in Users \ {Runtime} : pc[c] = "none"
    /\ Goto(Runtime, IF pc[Runtime] = "none" THEN "new" ELSE "ready")
    /\ CloseFd(Runtime) /\ tfd' = [tfd EXCEPT ![Runtime] = 0]
    /\ Keeps(UNCHANGED shut)

\* The new socket is stored, where shutdown() can find it; nobody looks whether
\* shutdown() has been called.
StoreSocket ==
    /\ pc[Runtime] = "new"
    /\ Goto(Runtime, "ready")
    /\ Keeps(UNCHANGED socketVars)

\* ensure_lease() of a socket that may have its lease from an earlier connection.
RuntimeLease ==
    /\ pc[Runtime] = "ready"
    /\ \/ /\ Runtime \in leases /\ Goto(Runtime, "open") /\ UNCHANGED <<serviceVars, libztVars>>
       \/ EnsureLease(Runtime) /\ Goto(Runtime, "lease")
    /\ UNCHANGED <<role, app, cancel, socketVars>>

\* Where a thread goes when connect() fails: the others close their socket, the
\* runtime keeps it as it is.
GivesUp(c) == IF c = Runtime THEN "held" ELSE "close"

\* The lease is there, or acquire() threw, and the caller cleans up.
Leased(c) ==
    /\ pc[c] = "lease"
    /\ \/ c \in leases /\ Goto(c, "open") /\ UNCHANGED acq
       \/ acq[c] = "threw" /\ Goto(c, GivesUp(c)) /\ Step(c, "out")
    /\ UNCHANGED <<role, app, cancel, socketVars, mtx, node_started, join_count, interrupt, leases, libztVars>>

Open(c) ==
    /\ pc[c] = "open"
    /\ Keeps(UNCHANGED <<tfd, shut>>)
    /\ \/ OpenFd(c) /\ Goto(c, "connect")
       \/ Goto(c, GivesUp(c)) /\ UNCHANGED <<sfd, fdt>>

\* The copy of the descriptor, and zts_bsd_connect() on it: in progress,
\* connected at once, or refused.
Connect(c) ==
    /\ pc[c] = "connect"
    /\ Keeps(UNCHANGED <<sfd, shut>>)
    /\ LET f == sfd[c] IN
       \/ f = 0 /\ Goto(c, GivesUp(c)) /\ UNCHANGED <<tfd, fdt>>
       \/ f # 0 /\ tfd' = [tfd EXCEPT ![c] = f]
          /\ \/ fdt[f] = "open" /\ Goto(c, "poll") /\ fdt' = [fdt EXCEPT ![f] = "connecting"]
             \/ fdt[f] = "open" /\ Goto(c, "write") /\ fdt' = [fdt EXCEPT ![f] = "connected"]
             \/ Goto(c, GivesUp(c)) /\ UNCHANGED fdt

\* The loop that polls a connection in progress looks at the flag and at the
\* descriptor every 500 ms; the connection comes about, fails, or does neither.
PollInterrupted(c) ==
    /\ pc[c] = "poll" /\ (shut[c] \/ sfd[c] = 0)
    /\ Goto(c, GivesUp(c))
    /\ Keeps(UNCHANGED socketVars)

PollResult(c) ==
    /\ pc[c] = "poll" /\ ~shut[c] /\ sfd[c] # 0
    /\ Keeps(UNCHANGED <<sfd, tfd, shut>>)
    /\ \/ /\ fdt[tfd[c]] = "connecting"
          /\ Goto(c, "write") /\ fdt' = [fdt EXCEPT ![tfd[c]] = "connected"]
       \/ Goto(c, GivesUp(c)) /\ UNCHANGED fdt

\* The top of the loops of write() and read(): the flag, and the descriptor.
Begin(c, op, call) ==
    /\ pc[c] = op
    /\ Keeps(UNCHANGED <<sfd, shut, fdt>>)
    /\ IF shut[c] \/ sfd[c] = 0 THEN Goto(c, "failed") /\ UNCHANGED tfd
       ELSE Goto(c, call) /\ tfd' = [tfd EXCEPT ![c] = sfd[c]]

\* The one second timeout that setup_socket() gives a socket: the call is
\* repeated if the socket is still open.
TimesOut(c, op) == fdt[tfd[c]] # "free" /\ sfd[c] # 0 /\ Goto(c, op)

\* zts_send() or zts_recv() on the copied descriptor: the whole message, an
\* error, or the timeout.
Call(c, op, call, done) ==
    /\ pc[c] = call
    /\ Keeps(UNCHANGED <<sfd, shut, fdt>>)
    /\ tfd' = [tfd EXCEPT ![c] = 0]
    /\ \/ fdt[tfd[c]] = "connected" /\ Goto(c, done)
       \/ Goto(c, "failed")
       \/ TimesOut(c, op)

Write(c) == Begin(c, "write", "send") \/ Call(c, "write", "send", "read")

\* What follows an answer: the next report on the same connection, the reply to
\* the task that was read, or the end of the exchange.
AfterRead(c) == IF c \in Persistent THEN "kept" ELSE IF c = Runtime THEN "write" ELSE "close"
Read(c) == Begin(c, "read", "recv") \/ Call(c, "read", "recv", AfterRead(c))

\* report() on the connection that is open already.
NextReport(c) ==
    /\ pc[c] = "kept" /\ cancel[c] = "no"
    /\ Goto(c, "write")
    /\ Keeps(UNCHANGED socketVars)

\* An I/O error: report() also shuts its socket down.
Failed(c) ==
    /\ pc[c] = "failed"
    /\ Goto(c, "close")
    /\ IF c \in Persistent THEN Shutdown(c) ELSE UNCHANGED <<shut, interrupt>>
    /\ UNCHANGED <<role, app, cancel, sfd, tfd, fdt, mtx, acq, node_started, join_count, leases, libztVars>>

\* close(), and then the destructor, which also gives the lease back.  The
\* canceller's reference keeps the socket until cancel() is through with it.
\* The runtime's socket stays until the control thread has seen the request to
\* shut down, and release() drops it.
Close(c) ==
    /\ pc[c] = "close"
    /\ CloseFd(c)
    /\ tfd' = [tfd EXCEPT ![c] = 0]
    /\ Goto(c, IF c = Runtime THEN "held" ELSE "destroy")
    /\ Keeps(UNCHANGED shut)

Destroy(c) ==
    /\ \/ pc[c] = "destroy" \/ (pc[c] = "kept" /\ cancel[c] = "done")
       \/ pc[c] = "held" /\ app = "stopping"
    /\ cancel[c] # "close"
    /\ CloseFd(c) /\ Release(c)
    /\ shut' = [shut EXCEPT ![c] = FALSE]
    /\ Goto(c, "none")
    /\ UNCHANGED <<role, app, cancel, tfd>>

\* cancel() of the client and of the reporter: the flag that is read before an
\* exchange, then shutdown() and close() of a socket that is in use; and, last,
\* shutdown() of the runtime, which does nothing when it finds no socket.  That
\* it came while connect() was making one is kept as "missed" (history).
NoSocket(c) == pc[c] \in {"none", "new"}
Cancelled(c) == cancel[c] \in {"done", "missed"}

CancelBegins(c) ==
    /\ app = "stopping" /\ c \in Users /\ cancel[c] = "no"
    /\ c = Runtime => \A d \in Users \ {Runtime} : Cancelled(d)
    /\ cancel' = [cancel EXCEPT ![c] = CASE pc[c] = "none" -> "done"
                                          [] pc[c] = "new" -> "missed"
                                          [] OTHER -> "close"]
    /\ IF NoSocket(c) THEN UNCHANGED <<shut, interrupt>> ELSE Shutdown(c)
    /\ UNCHANGED <<role, app, pc, sfd, tfd, fdt, mtx, acq, node_started, join_count, leases, libztVars>>

CancelCloses(c) ==
    /\ cancel[c] = "close"
    /\ cancel' = [cancel EXCEPT ![c] = "done"]
    /\ CloseFd(c)
    /\ UNCHANGED <<role, app, pc, tfd, shut, serviceVars, libztVars>>

ClientStep(c) ==
    \/ Leased(c) \/ Open(c) \/ Connect(c) \/ PollInterrupted(c)
    \/ Write(c) \/ Read(c) \/ Failed(c) \/ Close(c) \/ Destroy(c)

(***************************************************************************)
(* The listening socket, the acceptor thread and the accepted sockets      *)
(***************************************************************************)
StartServer ==
    /\ app = "starting" /\ pc[Server] = "none"
    /\ EnsureLease(Server)
    /\ Goto(Server, "lease")
    /\ UNCHANGED <<role, app, cancel, socketVars>>

\* start_listening(): a failure ends the program.
Listen ==
    /\ pc[Server] = "lease"
    /\ \/ /\ Server \in leases /\ OpenFd(Server)
          /\ Goto(Server, "listen") /\ UNCHANGED app
       \/ /\ acq[Server] = "threw" \/ Server \in leases
          /\ app' = "ended" /\ Goto(Server, "destroy") /\ UNCHANGED <<sfd, fdt>>
    /\ UNCHANGED <<role, cancel, tfd, shut, serviceVars, libztVars>>

StartAcceptor ==
    /\ pc[Server] = "listen"
    /\ fdt' = [fdt EXCEPT ![sfd[Server]] = "listening"]
    /\ Goto(Server, "accept")
    /\ app' = "running"
    /\ UNCHANGED <<role, cancel, sfd, tfd, shut, serviceVars, libztVars>>

\* accept() on the listening descriptor; from_fd() wraps what it returns.
Accept(k) ==
    /\ pc[Server] = "accept" /\ app \in {"running", "stopping"}
    /\ pc[k] = "none" /\ Free # {}
    /\ sfd' = [sfd EXCEPT ![k] = Min(Free)]
    /\ fdt' = [fdt EXCEPT ![Min(Free)] = "connected"]
    /\ shut' = [shut EXCEPT ![k] = FALSE]
    /\ Goto(k, "live")
    /\ Keeps(UNCHANGED tfd)

\* finalize_session() of the session that owns the socket.
SessionEnds(k) ==
    /\ pc[k] = "live"
    /\ Shutdown(k) /\ CloseFd(k)
    /\ Goto(k, "none")
    /\ UNCHANGED <<role, app, cancel, tfd, mtx, acq, node_started, join_count, leases, libztVars>>

\* The acceptor looks at running_ whenever accept() has timed out.
AcceptorEnds ==
    /\ pc[Server] = "accept" /\ app = "closing"
    /\ Goto(Server, "joined")
    /\ Keeps(UNCHANGED socketVars)

StopBegins ==
    /\ app = "running" /\ app' = "stopping"
    /\ UNCHANGED <<role, pc, cancel, socketVars, serviceVars, libztVars>>

\* stop() has joined the threads of the client sockets; start() and shutdown() of
\* a worker have returned.
ServerStops ==
    /\ app = "stopping" /\ \A c \in Users : Cancelled(c) /\ pc[c] = "none"
    /\ app' = IF role = "dispatcher" THEN "closing" ELSE "ended"
    /\ UNCHANGED <<role, pc, cancel, socketVars, serviceVars, libztVars>>

CloseListener ==
    /\ pc[Server] = "joined"
    /\ CloseFd(Server)
    /\ Goto(Server, "destroy")
    /\ app' = "ended"
    /\ UNCHANGED <<role, cancel, tfd, shut, serviceVars, libztVars>>

DestroyServer ==
    /\ pc[Server] = "destroy"
    /\ CloseFd(Server) /\ Release(Server)
    /\ Goto(Server, "gone")
    /\ UNCHANGED <<role, app, cancel, tfd, shut>>

ServerStep == Listen \/ StartAcceptor \/ AcceptorEnds \/ ServerStops \/ CloseListener \/ DestroyServer

Acquiring(o) == AcquireStep(o) /\ UNCHANGED <<role, app, pc, cancel, socketVars>>
Libzt == (NodeChanges \/ NetworkChanges) /\ UNCHANGED <<role, app, pc, cancel, socketVars>>

Next ==
    \/ \E c \in Clients : \/ Create(c) \/ NextReport(c) \/ ClientStep(c) \/ PollResult(c)
                           \/ CancelBegins(c) \/ CancelCloses(c)
    \/ RuntimeConnects \/ StoreSocket \/ RuntimeLease
    \/ StartServer \/ ServerStep \/ StopBegins
    \/ \E k \in Accepted : Accept(k) \/ SessionEnds(k)
    \/ \E o \in Owners : Acquiring(o)
    \/ Libzt

Spec == Init /\ [][Next]_vars

\* Threads run, timeouts expire, and a thread that waits for mtx_ gets it if it
\* is free again and again.  Nothing is assumed of libzt, of peers or of users.
Fairness ==
    /\ \A c \in Clients : WF_vars(ClientStep(c)) /\ WF_vars(CancelBegins(c) \/ CancelCloses(c))
    /\ WF_vars(ServerStep) /\ WF_vars(StoreSocket) /\ WF_vars(RuntimeLease)
    /\ \A o \in Owners : WF_vars(Acquiring(o)) /\ SF_vars(Lock(o) /\ UNCHANGED <<role, app, pc, cancel, socketVars>>)

FairSpec == Spec /\ Fairness

(***************************************************************************)
(* Properties                                                              *)
(***************************************************************************)
\* The types of the sockets' variables.
SocketTypeOK ==
    /\ role \in {"dispatcher", "worker"}
    /\ app \in {"starting", "running", "stopping", "closing", "ended"}
    /\ pc \in [Sockets -> {"none", "lease", "open", "connect", "poll", "write", "send", "read",
                           "recv", "kept", "failed", "close", "destroy", "listen", "accept",
                           "joined", "gone", "live", "new", "ready", "held"}]
    /\ sfd \in [Sockets -> 0 .. MaxFd] /\ tfd \in [Sockets -> 0 .. MaxFd]
    /\ cancel \in [Clients -> {"no", "close", "done", "missed"}] /\ shut \in [Sockets -> BOOLEAN]
    /\ fdt \in [Fds -> {"free", "open", "connecting", "connected", "listening"}]

TypeOK == ServiceTypeOK /\ SocketTypeOK

\* While the dispatcher runs, no client socket waits for the network or is
\* refused it: the listening socket's lease outlives every exchange.  Any wait
\* would fail, since the first session that ends interrupts them all for good.
ClientsNeverWait ==
    role = "dispatcher" =>
        \A c \in Clients : acq[c] \in {"out", "lock", "start", "join"}

\* Stopping gets every thread out of its socket, wherever it is: in the waits
\* of acquire(), in connect(), write(), read() or accept(), or between two of
\* them; and the network is given back, by a worker also on the way out of a
\* connect() that was interrupted.  The one gap is a shutdown() of the runtime
\* that comes after connect() was called and before it has stored its socket:
\* it finds nothing to interrupt.
StopLeavesNetwork ==
    app = "stopping" ~> (app = "ended" /\ leases = {}) \/ cancel[Runtime] = "missed"
=============================================================================
