---------------------------- MODULE DispatcherApp ----------------------------
(***************************************************************************)
(* The dispatcher process around its transport server, and its use of the  *)
(* rendezvous service: DispatcherApp, the RendezvousClient its             *)
(* registration thread uses, MonitoringService and the SnapshotReporter    *)
(* its report thread uses (src/dispatcher, src/rendezvous); and the client *)
(* of a worker that asks for the dispatcher.  The service is module        *)
(* RendezvousServer.                                                       *)
(*                                                                         *)
(* A dispatcher is run again after it has stopped or crashed: Dispatchers  *)
(* are its runs, in order.  Blocking socket calls end when they succeed,   *)
(* when they fail, or when the socket has been shut down.                  *)
(***************************************************************************)
EXTENDS RendezvousServer

ASSUME DispatchersAssumption ==
    Dispatchers \subseteq Nat \ {0} /\ None \notin Dispatchers /\ Backlog \in Nat

VARIABLES
    \* RendezvousClient, one per process
    ex,              \* where exchange() is
    request,         \* its request
    result,          \* its result
    cancelled_,      \* clients that have been cancelled
    active_socket_,  \* clients whose socket is published
    shut,            \* clients whose current socket was shut down
    \* DispatcherApp
    app,             \* where start() or stop() is
    shutdown_requested, registered_,
    registration,    \* the registration thread
    \* MonitoringService and SnapshotReporter
    running_,        \* services that have not been stopped
    report,          \* the report thread
    handler,         \* services an HTTP handler of which found nothing cached
    cached,          \* services that have a cached_snapshot_json_
    rcancelled_,     \* reporters that have been cancelled
    socket_,         \* reporters that have a cached socket
    rshut            \* reporters whose current socket was shut down

clientVars == <<ex, request, result, cancelled_, active_socket_, shut>>
appVars == <<app, shutdown_requested, registered_, registration>>
reportVars == <<running_, report, handler, cached, rcancelled_, socket_, rshut>>
vars == <<serverVars, clientVars, appVars, reportVars>>

AppInit ==
    /\ Init
    /\ ex = [d \in Dispatchers |-> "idle"]
    /\ request = [d \in Dispatchers |-> None]
    /\ result = [d \in Dispatchers |-> None]
    /\ cancelled_ = {} /\ active_socket_ = {} /\ shut = {}
    /\ app = [d \in Dispatchers |-> "off"]
    /\ shutdown_requested = {} /\ registered_ = {}
    /\ registration = [d \in Dispatchers |-> "none"]
    /\ running_ = {} /\ handler = {} /\ cached = {}
    /\ report = [d \in Dispatchers |-> "none"]
    /\ rcancelled_ = {} /\ socket_ = {} /\ rshut = {}

----------------------------------------------------------------------------
(* RendezvousClient *)

Goto(d, place) == ex' = [ex EXCEPT ![d] = place]

\* exchange(): nothing once cancelled; otherwise a new socket.
ExchangeBegins(d, m) ==
    /\ ex[d] = "idle"
    /\ request' = [request EXCEPT ![d] = m]
    /\ result' = [result EXCEPT ![d] = None]
    /\ Goto(d, IF d \in cancelled_ THEN "returned" ELSE "created")
    /\ shut' = shut \ {d}
    /\ UNCHANGED <<cancelled_, active_socket_>>

Publish(d) ==
    /\ ex[d] = "created"
    /\ Goto(d, "published")
    /\ active_socket_' = active_socket_ \cup {d}
    /\ UNCHANGED <<serverVars, request, result, cancelled_, shut>>

\* Mutant: the flag is not read again.
NoRecheck(d) ==
    /\ ex[d] = "published"
    /\ Goto(d, "connect")
    /\ UNCHANGED <<serverVars, request, result, cancelled_, active_socket_, shut>>

\* "Re-check the cancelled flag after publishing".
Recheck(d) ==
    /\ ex[d] = "published"
    /\ IF d \in cancelled_
         THEN Goto(d, "returned") /\ active_socket_' = active_socket_ \ {d}
         ELSE Goto(d, "connect") /\ UNCHANGED active_socket_
    /\ UNCHANGED <<serverVars, request, result, cancelled_, shut>>

\* connect, write_message and read_message, while the socket is usable.
Transfer(d) ==
    /\ d \notin shut
    /\ \/ ex[d] = "connect" /\ Connect("vn", d) /\ Goto(d, "write") /\ UNCHANGED result
       \/ ex[d] = "write" /\ Send("vn", d, request[d]) /\ Goto(d, "read") /\ UNCHANGED result
       \/ ex[d] = "read" /\ Receive("vn", d) /\ Goto(d, "returned")
          /\ result' = [result EXCEPT ![d] = reply["vn"][d]]
    /\ active_socket_' = IF ex[d] = "read" THEN active_socket_ \ {d} ELSE active_socket_
    /\ UNCHANGED <<request, cancelled_, shut>>

\* The socket is closed and withdrawn, and exchange returns nothing.
GiveUp(d) ==
    /\ Goto(d, "returned")
    /\ Close({"vn"}, d)
    /\ active_socket_' = active_socket_ \ {d}
    /\ UNCHANGED <<request, result, cancelled_, shut>>

\* One of them ends with an error: shut down, or the connection is gone.
Interrupted(d) ==
    /\ ex[d] \in {"connect", "write", "read"}
    /\ d \in shut \/ (ex[d] # "connect" /\ Broken("vn", d))
    /\ GiveUp(d)

\* connect() fails for a reason of the network or of the peer's host.
ConnectFails(d) == ex[d] = "connect" /\ GiveUp(d)

ClientStep(d) ==
    /\ Publish(d) \/ Recheck(d) \/ Transfer(d) \/ Interrupted(d)
    /\ UNCHANGED <<appVars, reportVars>>

----------------------------------------------------------------------------
(* DispatcherApp::start and the registration thread *)

Ended(d) == app[d] \in {"failed", "stopped", "dead"}

At(d, from, to) == app[d] = from /\ app' = [app EXCEPT ![d] = to]

\* Options, then the transport server.  The caller returns when either fails.
StartServer(d) ==
    /\ \A e \in Dispatchers : e < d => Ended(e)
    /\ \E to \in {"started", "failed"} : At(d, "off", to)
    /\ UNCHANGED <<serverVars, clientVars, shutdown_requested, registered_,
                   registration, reportVars>>

\* Monitoring may be disabled or fail to start.
StartMonitoring(d) ==
    /\ At(d, "started", "monitored")
    /\ \/ /\ running_' = running_ \cup {d}
          /\ report' = [report EXCEPT ![d] = "build"]
       \/ UNCHANGED <<running_, report>>
    /\ UNCHANGED <<serverVars, clientVars, shutdown_requested, registered_,
                   registration, handler, cached, rcancelled_, socket_, rshut>>

\* The reporter is attached before the registration thread starts.  The bound
\* listening socket gives an address to register.
StartRendezvous(d) ==
    /\ At(d, "monitored", "running")
    /\ registration' = [registration EXCEPT ![d] = "loop"]
    /\ UNCHANGED <<serverVars, clientVars, shutdown_requested, registered_, reportVars>>

\* They succeed when the service answers "ok".
RegisterEndpoint(d) == ExchangeBegins(d, "register")
UnregisterEndpoint(d) == ExchangeBegins(d, "unregister")

Registration(d, from, to) ==
    registration[d] = from /\ registration' = [registration EXCEPT ![d] = to]

\* The loop and the sleep before a retry both look at the flag.
RegistrationLoop(d) ==
    /\ \/ /\ d \in shutdown_requested
          /\ Registration(d, "loop", "exited")
          /\ UNCHANGED clientVars
       \/ /\ d \notin shutdown_requested
          /\ Registration(d, "loop", "calling")
          /\ RegisterEndpoint(d)
    /\ UNCHANGED <<serverVars, app, shutdown_requested, registered_, reportVars>>

\* register_endpoint has returned.
Registered(d) ==
    /\ ex[d] = "returned"
    /\ Goto(d, "idle")
    /\ IF result[d] = "ok"
         THEN /\ registered_' = registered_ \cup {d}
              /\ Registration(d, "calling", "exited")
         ELSE /\ Registration(d, "calling", "loop")
              /\ UNCHANGED registered_
    /\ UNCHANGED <<serverVars, request, result, cancelled_, active_socket_, shut,
                   app, shutdown_requested, reportVars>>

----------------------------------------------------------------------------
(* MonitoringService *)

\* build() reads the sessions of the transport server.
Building(d) == report[d] = "build" \/ d \in handler

Reporting(d, from, to) == report[d] = from /\ report' = [report EXCEPT ![d] = to]

BuildAndCache(d) ==
    /\ Reporting(d, "build", "wait")
    /\ cached' = cached \cup {d}
    /\ UNCHANGED <<serverVars, clientVars, appVars, running_, handler,
                   rcancelled_, socket_, rshut>>

\* A request for /api/monitor before anything is cached builds for itself.
HttpRequest(d) ==
    /\ d \in running_
    /\ d \notin handler
    /\ d \notin cached
    /\ handler' = handler \cup {d}
    /\ UNCHANGED <<serverVars, clientVars, appVars, running_, report, cached,
                   rcancelled_, socket_, rshut>>

HttpBuilt(d) ==
    /\ d \in handler
    /\ handler' = handler \ {d}
    /\ cached' = cached \cup {d}
    /\ UNCHANGED <<serverVars, clientVars, appVars, running_, report, rcancelled_, socket_, rshut>>

\* wait_for returns after the interval, or once running_ is false.
WaitReturns(d) ==
    /\ IF d \notin running_ THEN Reporting(d, "wait", "exited")
       ELSE IF app[d] \in {"started", "monitored"} THEN Reporting(d, "wait", "build")
       ELSE Reporting(d, "wait", "report")
    /\ UNCHANGED <<serverVars, clientVars, appVars, running_, handler, cached,
                   rcancelled_, socket_, rshut>>

\* The report thread is back at the head of its loop.
ReportLoop(d, from) ==
    Reporting(d, from, IF d \in running_ THEN "build" ELSE "exited")

----------------------------------------------------------------------------
(* SnapshotReporter *)

ReportBegins(d) ==
    /\ IF d \in rcancelled_ THEN ReportLoop(d, "report")
       ELSE IF d \in socket_ THEN Reporting(d, "report", "write")
       ELSE Reporting(d, "report", "created")
    /\ UNCHANGED <<serverVars, clientVars, appVars, running_, handler, cached,
                   rcancelled_, socket_, rshut>>

\* Under socket_mtx_: closed again if cancelled meanwhile.
PublishSocket(d) ==
    /\ IF d \in rcancelled_
         THEN ReportLoop(d, "created") /\ UNCHANGED <<socket_, rshut>>
         ELSE /\ Reporting(d, "created", "connect")
              /\ socket_' = socket_ \cup {d}
              /\ rshut' = rshut \ {d}
    /\ UNCHANGED <<serverVars, clientVars, appVars, running_, handler, cached,
                   rcancelled_>>

ReportTransfer(d) ==
    /\ d \notin rshut
    /\ \/ Reporting(d, "connect", "write") /\ Connect("snapshot", d)
       \/ Reporting(d, "write", "ack") /\ Send("snapshot", d, d)
       \/ ReportLoop(d, "ack") /\ Receive("snapshot", d)
    /\ UNCHANGED <<clientVars, appVars, running_, handler, cached, rcancelled_, socket_, rshut>>

\* "tear down so next call reconnects"
TearDown(d) ==
    /\ ReportLoop(d, report[d])
    /\ socket_' = socket_ \ {d}
    /\ Close({"snapshot"}, d)
    /\ UNCHANGED <<clientVars, appVars, running_, handler, cached, rcancelled_, rshut>>

ReportInterrupted(d) ==
    /\ report[d] \in {"connect", "write", "ack"}
    /\ \/ d \in rshut
       \/ report[d] # "connect" /\ Broken("snapshot", d)
    /\ TearDown(d)

ReportConnectFails(d) ==
    /\ report[d] = "connect"
    /\ TearDown(d)

ReportStep(d) ==
    \/ BuildAndCache(d)
    \/ WaitReturns(d)
    \/ ReportBegins(d)
    \/ PublishSocket(d)
    \/ ReportTransfer(d)
    \/ ReportInterrupted(d)

----------------------------------------------------------------------------
(* DispatcherApp::stop, which the generator's main thread calls *)

StopBegins(d) ==
    /\ At(d, "running", "cancel_client")
    /\ shutdown_requested' = shutdown_requested \cup {d}
    /\ cancelled_' = cancelled_ \cup {d}
    /\ UNCHANGED <<serverVars, ex, request, result, active_socket_, shut,
                   registered_, registration, reportVars>>

\* cancel() shuts down and closes the socket it finds published.
CancelClient(d) ==
    /\ At(d, "cancel_client", "cancel_reporter")
    /\ IF d \in active_socket_
         THEN shut' = shut \cup {d} /\ Close({"vn"}, d)
         ELSE UNCHANGED <<shut, serverVars>>
    /\ rcancelled_' = rcancelled_ \cup {d}
    /\ UNCHANGED <<ex, request, result, cancelled_, active_socket_,
                   shutdown_requested, registered_, registration, running_, report,
                   handler, cached, socket_, rshut>>

CancelReporter(d) ==
    /\ At(d, "cancel_reporter", "stop_monitoring")
    /\ socket_' = socket_ \ {d}
    /\ IF d \in socket_
         THEN rshut' = rshut \cup {d} /\ Close({"snapshot"}, d)
         ELSE UNCHANGED <<rshut, serverVars>>
    /\ UNCHANGED <<clientVars, shutdown_requested, registered_, registration, running_,
                   report, handler, cached, rcancelled_>>

\* Mutant: the transport server is stopped before monitoring.
StopServerFirst(d) ==
    /\ app[d] = "stop_monitoring"
    /\ \/ /\ d \in running_
          /\ running_' = running_ \ {d}
          /\ UNCHANGED app
       \/ /\ d \notin running_
          /\ At(d, "stop_monitoring", "stop_server")
          /\ UNCHANGED running_
    /\ UNCHANGED <<serverVars, clientVars, shutdown_requested, registered_,
                   registration, report, handler, cached, rcancelled_, socket_, rshut>>

\* MonitoringService::stop: the flag, then both threads are joined; httplib
\* ends its handlers first.
StopMonitoring(d) ==
    /\ app[d] = "stop_monitoring"
    /\ \/ /\ d \in running_
          /\ running_' = running_ \ {d}
          /\ UNCHANGED app
       \/ /\ d \notin running_
          /\ d \notin handler
          /\ report[d] \in {"none", "exited"}
          /\ At(d, "stop_monitoring", "join_registration")
          /\ UNCHANGED running_
    /\ UNCHANGED <<serverVars, clientVars, shutdown_requested, registered_,
                   registration, report, handler, cached, rcancelled_, socket_, rshut>>

JoinRegistration(d) ==
    /\ registration[d] = "exited"
    /\ At(d, "join_registration", IF d \in registered_ THEN "unregister" ELSE "stop_server")
    /\ UNCHANGED <<serverVars, clientVars, shutdown_requested, registered_,
                   registration, reportVars>>

\* unregister_endpoint goes through the client that was cancelled.
Unregister(d) ==
    /\ app[d] = "unregister"
    /\ \/ UnregisterEndpoint(d) /\ UNCHANGED app
       \/ /\ ex[d] = "returned"
          /\ Goto(d, "idle")
          /\ At(d, "unregister", "stop_server")
          /\ UNCHANGED <<request, result, cancelled_, active_socket_, shut>>
    /\ UNCHANGED <<serverVars, shutdown_requested, registered_, registration, reportVars>>

\* Nothing of run d's process is left.
ProcessEnds(d, to) ==
    /\ app' = [app EXCEPT ![d] = to]
    /\ shutdown_requested' = shutdown_requested \ {d}
    /\ registered_' = registered_ \ {d}
    /\ registration' = [registration EXCEPT ![d] = "none"]
    /\ ex' = [ex EXCEPT ![d] = "idle"]
    /\ request' = [request EXCEPT ![d] = None]
    /\ result' = [result EXCEPT ![d] = None]
    /\ cancelled_' = cancelled_ \ {d}
    /\ active_socket_' = active_socket_ \ {d}
    /\ shut' = shut \ {d}
    /\ running_' = running_ \ {d}
    /\ report' = [report EXCEPT ![d] = "none"]
    /\ handler' = handler \ {d}
    /\ cached' = cached \ {d}
    /\ rcancelled_' = rcancelled_ \ {d}
    /\ socket_' = socket_ \ {d}
    /\ rshut' = rshut \ {d}

StopServer(d) ==
    /\ app[d] = "stop_server"
    /\ ProcessEnds(d, "stopped")
    /\ UNCHANGED serverVars

StopStep(d) ==
    \/ CancelClient(d)
    \/ CancelReporter(d)
    \/ StopMonitoring(d)
    \/ JoinRegistration(d)
    \/ Unregister(d)
    \/ StopServer(d)

\* The process is killed; the service finds out when keepalive gives up.
Killed(d) ==
    /\ app[d] \notin {"off", "failed", "stopped", "dead"}
    /\ ProcessEnds(d, "dead")
    /\ reply' = [p \in Ports |-> [reply[p] EXCEPT ![d] = None]]
    /\ UNCHANGED <<server, snapshot_listener_, loop, backlog, serving, endpoint_,
                   fresh, last_snapshot_>>

Keepalive(d) ==
    /\ app[d] = "dead"
    /\ \E p \in Ports : Connected(p, d)
    /\ Close(Ports, d)
    /\ UNCHANGED <<clientVars, appVars, reportVars>>

----------------------------------------------------------------------------

StartStep(d) == StartServer(d) \/ StartMonitoring(d) \/ StartRendezvous(d)

RegistrationStep(d) == RegistrationLoop(d) \/ Registered(d)

Service ==
    /\ Start \/ VnThread \/ SnapshotThread \/ Expire \/ Stop \/ StopListener \/ Crash
    /\ UNCHANGED <<clientVars, appVars, reportVars>>

Next ==
    \/ \E d \in Dispatchers :
          \/ StartStep(d)
          \/ RegistrationStep(d)
          \/ ClientStep(d)
          \/ ConnectFails(d) /\ UNCHANGED <<appVars, reportVars>>
          \/ ReportStep(d)
          \/ HttpRequest(d)
          \/ HttpBuilt(d)
          \/ ReportConnectFails(d)
          \/ StopBegins(d)
          \/ StopStep(d)
          \/ Killed(d)
          \/ Keepalive(d)
    \/ Service

Spec == AppInit /\ [][Next]_vars

\* Every thread goes on, but a connect() that nobody answers need not fail.
\* The network lets a client that keeps trying through, time passes, and
\* keepalive gives up on a peer that is gone.
Fairness ==
    /\ WF_vars(VnThread /\ UNCHANGED <<clientVars, appVars, reportVars>>)
    /\ WF_vars(SnapshotThread /\ UNCHANGED <<clientVars, appVars, reportVars>>)
    /\ WF_vars(StopListener /\ UNCHANGED <<clientVars, appVars, reportVars>>)
    /\ WF_vars(Expire /\ UNCHANGED <<clientVars, appVars, reportVars>>)
    /\ \A d \in Dispatchers :
          /\ WF_vars(RegistrationStep(d) \/ ClientStep(d))
          /\ SF_vars(Transfer(d) /\ UNCHANGED <<appVars, reportVars>>)
          /\ WF_vars(ReportStep(d))
          /\ WF_vars(HttpBuilt(d))
          /\ WF_vars(StopStep(d))
          /\ WF_vars(Keepalive(d))

FairSpec == Spec /\ Fairness

----------------------------------------------------------------------------

\* The connections of a port, by what may be sent on them.
Frames(p) == IF p = "snapshot" THEN Dispatchers ELSE {"register", "unregister"}
Connections(p) == [by : Dispatchers, msg : {None} \cup Frames(p), open : BOOLEAN]

\* The types of the variables of the service.
ServiceTypeOK ==
    /\ server \in {"down", "up", "join_vn", "join_snapshot"}
    /\ snapshot_listener_ \in BOOLEAN /\ loop \subseteq Ports
    /\ backlog = [p \in Ports |-> backlog[p]] /\ serving = [p \in Ports |-> serving[p]]
    /\ \A p \in Ports : /\ backlog[p] \in Seq(Connections(p)) /\ Len(backlog[p]) <= Backlog
                      /\ serving[p] \in Seq(Connections(p)) /\ Len(serving[p]) <= 1
    /\ reply \in [Ports -> [Dispatchers -> {"ok", None}]]
    /\ endpoint_ \in Dispatchers \cup {None} /\ fresh \in BOOLEAN
    /\ last_snapshot_ \in Dispatchers \cup {0}

\* The types of the variables of the dispatcher's runs, by thread.
ClientTypeOK ==
    /\ ex \in [Dispatchers -> {"idle", "created", "published", "connect", "write", "read", "returned"}]
    /\ request \in [Dispatchers -> {None, "register", "unregister"}]
    /\ result \in [Dispatchers -> {None, "ok"}]
    /\ cancelled_ \subseteq Dispatchers /\ active_socket_ \subseteq Dispatchers
    /\ shut \subseteq Dispatchers

AppTypeOK ==
    /\ app \in [Dispatchers -> {"off", "failed", "started", "monitored", "running", "cancel_client",
                                "cancel_reporter", "stop_monitoring", "join_registration",
                                "unregister", "stop_server", "stopped", "dead"}]
    /\ shutdown_requested \subseteq Dispatchers /\ registered_ \subseteq Dispatchers
    /\ registration \in [Dispatchers -> {"none", "loop", "calling", "exited"}]

ReportTypeOK ==
    /\ report \in [Dispatchers -> {"none", "build", "wait", "report", "created", "connect",
                                   "write", "ack", "exited"}]
    /\ running_ \subseteq Dispatchers /\ handler \subseteq Dispatchers
    /\ cached \subseteq Dispatchers /\ rcancelled_ \subseteq Dispatchers
    /\ socket_ \subseteq Dispatchers /\ rshut \subseteq Dispatchers

ProcessTypeOK == ClientTypeOK /\ AppTypeOK /\ ReportTypeOK

TypeOK == ServiceTypeOK /\ ProcessTypeOK

\* What the service knows never goes back to an earlier run of the dispatcher:
\* what a run that has ended left in a connection is handled before what its
\* successor sends, because each port serves its connections one at a time and
\* in the order they came (vn_accept_loop, SnapshotListener::accept_loop).
ServedViewNeverGoesBack ==
    [][server = "up" /\ server' = "up" =>
          /\ last_snapshot_ <= last_snapshot_'
          /\ endpoint_ # None => endpoint_' >= endpoint_]_vars

\* stop() takes the transport server down only when no thread of the monitoring
\* service can be reading its sessions: the report thread and the HTTP handlers
\* are joined before (DispatcherApp::stop, MonitoringService::stop).
NoBuildOnStoppedServer ==
    \A d \in Dispatchers : app[d] = "stop_server" => ~Building(d) /\ d \notin running_

\* stop() returns even if the rendezvous service never answers: neither the
\* registration thread nor the report thread is left in a blocking call that
\* nobody interrupts (the re-checks after a socket is published).
StopReturns ==
    \A d \in Dispatchers : app[d] = "cancel_client" ~> Ended(d)

\* RendezvousServer::stop joins both accept threads although dispatchers keep
\* their snapshot connection open and go on reporting.
ServerStopReturns == server = "join_vn" ~> server = "down"

\* The service went down after it had accepted d's registration, which is lost
\* with it: the registration thread ends with its first success.
RegistrationLost(d) ==
    server # "up" /\ "ok" \in {reply["vn"][d], result[d]}

\* A dispatcher that keeps running is in the end the one whose endpoint the
\* service gives to workers, although the service may be away at first, or go
\* away in the middle of the exchange, and although the dispatcher's snapshot
\* connection occupies it for good (registration_loop, the two accept loops).
Registers ==
    \A d \in Dispatchers :
        <>[](app[d] = "running" /\ server = "up") =>
            <>[](endpoint_ = d) \/ <>RegistrationLost(d)

\* Workers are in the end no longer sent to a run that is over: its endpoint
\* stays registered, but goes stale (handle_discover), also when a registration
\* or a snapshot of its is handled after its end.
EndedIsNotServed ==
    \A d \in Dispatchers :
        Ended(d) ~> [](Discover.found /\ Discover.at = d => Discover.stale)

\* What stop() says of itself: "Best-effort unregister from rendezvous before
\* tearing down transport."  Best effort would at least open a socket.  The
\* client was cancelled at the start of stop(), so exchange returns at once.
UnregisterIsTried ==
    [][\A d \in Dispatchers :
          app[d] = "unregister" /\ ex[d] = "idle" /\ ex'[d] # "idle" => ex'[d] = "created"]_vars
=============================================================================
