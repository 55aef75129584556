------------------------ MODULE DispatcherAppProofs ------------------------
(***************************************************************************)
(* The safety of the dispatcher's runs and of the rendezvous service, for  *)
(* any number of runs and any backlog of connections.                      *)
(*                                                                         *)
(* First the successive runs, one alive at a time: what their threads,     *)
(* their start and their stop keep true of the process.  Then the service  *)
(* they talk to: connections and frames wait in the order of the runs they *)
(* are from, so what the service presents never goes back to an older run. *)
(***************************************************************************)
EXTENDS DispatcherApp, TLAPS

Alive(d) == app[d] \notin {"off", "failed", "stopped", "dead"}

\* One run is alive at a time, and its successors have not started; nothing is
\* left of a run that has ended.
RunsInOrder ==
    /\ \A d, e \in Dispatchers : e < d /\ app[d] # "off" => Ended(e)
    /\ \A d \in Dispatchers :
          ~Alive(d) => ex[d] = "idle" /\ registration[d] = "none" /\ report[d] = "none"

\* Only registrations reach a socket: what stop() would unregister with is the
\* client it has cancelled.
OnlyRegistrations ==
    \A d \in Dispatchers :
        /\ ex[d] \notin {"idle", "returned"} => request[d] = "register"
        /\ app[d] \in {"cancel_client", "cancel_reporter", "stop_monitoring", "join_registration",
                       "unregister", "stop_server"} => d \in cancelled_

\* Past MonitoringService::stop() none of its threads is left.
MonitoringJoined ==
    \A d \in Dispatchers :
        app[d] \in {"join_registration", "unregister", "stop_server"} =>
            report[d] \in {"none", "exited"} /\ d \notin running_ /\ d \notin handler

ProcessInv == ProcessTypeOK /\ RunsInOrder /\ OnlyRegistrations /\ MonitoringJoined

\* A run that has started stays started.
OnceStarted == \A d \in Dispatchers : app[d] # "off" => app'[d] # "off"

----------------------------------------------------------------------------
(* The runs of the dispatcher *)

\* Variables that a step leaves alone keep their types.
LEMMA TypesStay ==
  /\ ClientTypeOK /\ UNCHANGED clientVars => ClientTypeOK'
  /\ AppTypeOK /\ UNCHANGED appVars => AppTypeOK'
  /\ ReportTypeOK /\ UNCHANGED reportVars => ReportTypeOK'
<1>1. ClientTypeOK /\ UNCHANGED clientVars => ClientTypeOK' BY DEF ClientTypeOK, clientVars
<1>2. AppTypeOK /\ UNCHANGED appVars => AppTypeOK' BY DEF AppTypeOK, appVars
<1>3. ReportTypeOK /\ UNCHANGED reportVars => ReportTypeOK' BY DEF ReportTypeOK, reportVars
<1> QED BY Zenon, <1>1, <1>2, <1>3

\* So the client's thread has only its own types to keep,
LEMMA ClientTypesMove ==
  ASSUME ProcessInv, ClientTypeOK', UNCHANGED <<appVars, reportVars>>
  PROVE  ProcessTypeOK'
<1>1. UNCHANGED appVars /\ UNCHANGED reportVars OBVIOUS
<1> QED BY Zenon, <1>1, TypesStay DEF ProcessInv, ProcessTypeOK

\* A step of the service leaves the runs as they are.
LEMMA ProcessStays ==
  ASSUME ProcessInv, UNCHANGED <<clientVars, appVars, reportVars>>
  PROVE  ProcessInv' /\ OnceStarted
<1>1. ProcessTypeOK' BY TypesStay DEF ProcessInv, ProcessTypeOK
<1>2. RunsInOrder' /\ OnlyRegistrations' /\ MonitoringJoined'
  BY DEF ProcessInv, RunsInOrder, OnlyRegistrations, MonitoringJoined, Alive, Ended,
         clientVars, appVars, reportVars
<1> QED BY <1>1, <1>2 DEF ProcessInv, OnceStarted, appVars

\* What the steps of a thread leave alone, they cannot disturb.
LEMMA ClientAlone ==
  ASSUME ProcessInv, ProcessTypeOK', NEW d \in Dispatchers, Alive(d),
         UNCHANGED <<app, report, cancelled_, running_, handler>>,
         \A e \in Dispatchers \ {d} :
             ex'[e] = ex[e] /\ request'[e] = request[e] /\ registration'[e] = registration[e],
         ex'[d] \notin {"idle", "returned"} => request'[d] = "register"
  PROVE  ProcessInv' /\ OnceStarted
<1>1. RunsInOrder'
  BY DEF ProcessInv, ProcessTypeOK, ClientTypeOK, AppTypeOK, RunsInOrder, Alive, Ended
<1>2. OnlyRegistrations' BY DEF ProcessInv, OnlyRegistrations
<1>3. MonitoringJoined' BY DEF ProcessInv, MonitoringJoined
<1> QED BY <1>1, <1>2, <1>3 DEF ProcessInv, OnceStarted

\* So a thread in exchange() goes on with a registration, or returns.
LEMMA ClientMoves ==
  ASSUME ProcessInv, ClientTypeOK', NEW d \in Dispatchers, Alive(d),
         UNCHANGED <<appVars, reportVars>>, UNCHANGED <<request, cancelled_>>,
         \A e \in Dispatchers \ {d} : ex'[e] = ex[e],
         ex[d] \notin {"idle", "returned"} \/ ex'[d] = "returned"
  PROVE  ProcessInv' /\ OnceStarted
<1>1. ProcessTypeOK' BY ClientTypesMove
<1>2. UNCHANGED <<app, registration, report, running_, handler>> BY DEF appVars, reportVars
<1>3. ex'[d] \notin {"idle", "returned"} => request'[d] = "register" BY DEF ProcessInv, OnlyRegistrations
<1> QED BY <1>1, <1>2, <1>3, ClientAlone

\* The same for the report thread and the HTTP handlers, which stop() waits for.
LEMMA MonitorAlone ==
  ASSUME ProcessInv, ReportTypeOK', NEW d \in Dispatchers,
         UNCHANGED <<clientVars, appVars, running_>>,
         \A e \in Dispatchers \ {d} : report'[e] = report[e],
         handler' \ {d} = handler \ {d},
         \/ report[d] \notin {"none", "exited"}
         \/ report' = report /\ (d \in running_ \/ d \in handler)
  PROVE  ProcessInv' /\ OnceStarted
<1>1. UNCHANGED <<ex, request, cancelled_, app, registration>> BY DEF clientVars, appVars
<1>2. RunsInOrder' BY <1>1 DEF ProcessInv, RunsInOrder, Alive, Ended
<1>3. OnlyRegistrations' BY <1>1 DEF ProcessInv, OnlyRegistrations
<1>4. MonitoringJoined' BY <1>1 DEF ProcessInv, MonitoringJoined
<1>5. ProcessTypeOK'
  <2>1. UNCHANGED clientVars /\ UNCHANGED appVars OBVIOUS
  <2> QED BY Zenon, <2>1, TypesStay DEF ProcessInv, ProcessTypeOK
<1> QED BY <1>1, <1>2, <1>3, <1>4, <1>5 DEF ProcessInv, OnceStarted

\* And for the thread in start() or stop(), which moves on with app.
LEMMA AppAlone ==
  ASSUME ProcessInv, ProcessTypeOK', NEW d \in Dispatchers, app[d] # "off", ~Ended(d),
         app'[d] # "off", ~Ended(d)',
         \A e \in Dispatchers \ {d} : app'[e] = app[e] /\ registration'[e] = registration[e],
         UNCHANGED <<ex, request, report, handler>>, cancelled_ \subseteq cancelled_',
         running_' \subseteq running_,
         app'[d] \in {"cancel_client", "cancel_reporter", "stop_monitoring", "join_registration",
                      "unregister", "stop_server"} => d \in cancelled_',
         app'[d] \in {"join_registration", "unregister", "stop_server"} =>
             report[d] \in {"none", "exited"} /\ d \notin running_' /\ d \notin handler
  PROVE  ProcessInv' /\ OnceStarted
<1>1. RunsInOrder'
  BY DEF ProcessInv, ProcessTypeOK, AppTypeOK, RunsInOrder, Alive, Ended
<1>2. OnlyRegistrations'
  BY DEF ProcessInv, OnlyRegistrations
<1>3. MonitoringJoined'
  BY DEF ProcessInv, MonitoringJoined
<1> QED BY <1>1, <1>2, <1>3 DEF ProcessInv, OnceStarted

----------------------------------------------------------------------------
(* The end of a run *)

\* The end of a process, in StopServer or killed.
LEMMA ProcessEndsPreserves ==
  ASSUME ProcessInv, NEW d \in Dispatchers, Alive(d),
         NEW to \in {"stopped", "dead"}, ProcessEnds(d, to)
  PROVE  ProcessInv' /\ OnceStarted
<1> USE DEF ProcessInv, ProcessTypeOK
<1>1. ProcessTypeOK'
  <2>1. ClientTypeOK' BY DEF ProcessEnds, ClientTypeOK
  <2>2. AppTypeOK' BY DEF ProcessEnds, AppTypeOK
  <2>3. ReportTypeOK' BY DEF ProcessEnds, ReportTypeOK
  <2> QED BY <2>1, <2>2, <2>3
<1>2. /\ app'[d] = to /\ ex'[d] = "idle" /\ registration'[d] = "none" /\ report'[d] = "none"
      /\ \A e \in Dispatchers \ {d} :
            /\ app'[e] = app[e] /\ ex'[e] = ex[e] /\ registration'[e] = registration[e]
            /\ report'[e] = report[e] /\ request'[e] = request[e]
      /\ cancelled_' = cancelled_ \ {d} /\ running_' = running_ \ {d} /\ handler' = handler \ {d}
  BY DEF ProcessEnds, ClientTypeOK, AppTypeOK, ReportTypeOK
<1>3. RunsInOrder' BY <1>2 DEF RunsInOrder, Alive, Ended
<1>4. OnlyRegistrations' BY <1>2 DEF OnlyRegistrations
<1>5. MonitoringJoined' BY <1>2 DEF MonitoringJoined
<1> QED BY <1>1, <1>2, <1>3, <1>4, <1>5 DEF OnceStarted

\* The cancelled client returns at once, without a socket.
LEMMA UnregisterPreserves ==
  ASSUME ProcessInv, NEW d \in Dispatchers, Unregister(d)
  PROVE  ProcessInv' /\ OnceStarted
<1>1. app[d] = "unregister" /\ d \in cancelled_ BY DEF ProcessInv, Unregister, OnlyRegistrations
<1>2. ProcessTypeOK'
  <2>1. ClientTypeOK' BY DEF ProcessInv, ProcessTypeOK, Unregister, UnregisterEndpoint, ExchangeBegins, Goto, ClientTypeOK
  <2>2. AppTypeOK' BY DEF ProcessInv, ProcessTypeOK, AppTypeOK, At, Unregister
  <2> QED BY <2>1, <2>2, TypesStay DEF ProcessInv, ProcessTypeOK, Unregister
<1>3. /\ app'[d] \in {"unregister", "stop_server"} /\ ex'[d] \in {"idle", "returned"}
      /\ \A e \in Dispatchers \ {d} : app'[e] = app[e] /\ ex'[e] = ex[e] /\ request'[e] = request[e]
      /\ UNCHANGED <<cancelled_, registration, report, running_, handler>>
  BY <1>1
  DEF ProcessInv, ProcessTypeOK, ClientTypeOK, AppTypeOK, At, Unregister, UnregisterEndpoint,
      ExchangeBegins, Goto, reportVars
<1>4. RunsInOrder' BY <1>1, <1>3 DEF ProcessInv, RunsInOrder, Alive, Ended
<1>5. OnlyRegistrations' BY <1>1, <1>3 DEF ProcessInv, OnlyRegistrations
<1>6. MonitoringJoined' BY <1>1, <1>3 DEF ProcessInv, MonitoringJoined
<1> QED BY <1>1, <1>2, <1>3, <1>4, <1>5, <1>6 DEF ProcessInv, OnceStarted

\* DispatcherApp::stop() and the end of the process.
LEMMA StopPreserves ==
  ASSUME ProcessInv, NEW d \in Dispatchers, StopBegins(d) \/ StopStep(d) \/ Killed(d)
  PROVE  ProcessInv' /\ OnceStarted
<1>1. CASE StopBegins(d)
  <2>1. ProcessTypeOK'
    <3>1. ClientTypeOK' BY <1>1 DEF ProcessInv, ProcessTypeOK, AppTypeOK, At, StopBegins, ClientTypeOK
    <3>2. AppTypeOK' BY <1>1 DEF ProcessInv, ProcessTypeOK, AppTypeOK, At, StopBegins
    <3> QED BY <3>1, <3>2, <1>1, TypesStay DEF ProcessInv, ProcessTypeOK, StopBegins
  <2>2. /\ app[d] = "running" /\ app'[d] = "cancel_client" /\ cancelled_' = cancelled_ \cup {d}
        /\ \A e \in Dispatchers \ {d} : app'[e] = app[e] /\ registration'[e] = registration[e]
        /\ UNCHANGED <<ex, request, report, handler, running_>>
    BY <1>1 DEF ProcessInv, ProcessTypeOK, AppTypeOK, At, StopBegins, reportVars
  <2> QED BY <2>1, <2>2, AppAlone DEF Ended
<1>2. CASE CancelClient(d)
  <2>1. ProcessTypeOK'
    <3>1. ClientTypeOK' BY <1>2 DEF ProcessInv, ProcessTypeOK, AppTypeOK, At, CancelClient, ClientTypeOK
    <3>2. AppTypeOK' BY <1>2 DEF ProcessInv, ProcessTypeOK, AppTypeOK, At, CancelClient
    <3>3. ReportTypeOK' BY <1>2 DEF ProcessInv, ProcessTypeOK, AppTypeOK, At, CancelClient, ReportTypeOK
    <3> QED BY <3>1, <3>2, <3>3, <1>2, TypesStay DEF ProcessInv, ProcessTypeOK, CancelClient
  <2>2. /\ app[d] = "cancel_client" /\ app'[d] = "cancel_reporter" /\ d \in cancelled_
        /\ \A e \in Dispatchers \ {d} : app'[e] = app[e] /\ registration'[e] = registration[e]
        /\ UNCHANGED <<ex, request, report, handler, running_, cancelled_>>
    BY <1>2 DEF ProcessInv, ProcessTypeOK, AppTypeOK, At, CancelClient, OnlyRegistrations
  <2> QED BY Zenon, <2>1, <2>2, AppAlone DEF Ended
<1>3. CASE CancelReporter(d)
  <2>1. ProcessTypeOK'
    <3>1. AppTypeOK' BY <1>3 DEF ProcessInv, ProcessTypeOK, AppTypeOK, At, CancelReporter
    <3>2. ReportTypeOK' BY <1>3 DEF ProcessInv, ProcessTypeOK, AppTypeOK, At, CancelReporter, ReportTypeOK
    <3> QED BY <3>1, <3>2, <1>3, TypesStay DEF ProcessInv, ProcessTypeOK, CancelReporter
  <2>2. /\ app[d] = "cancel_reporter" /\ app'[d] = "stop_monitoring" /\ d \in cancelled_
        /\ \A e \in Dispatchers \ {d} : app'[e] = app[e] /\ registration'[e] = registration[e]
        /\ UNCHANGED <<ex, request, report, handler, running_, cancelled_>>
    BY <1>3 DEF ProcessInv, ProcessTypeOK, AppTypeOK, At, CancelReporter, OnlyRegistrations, clientVars
  <2> QED BY Zenon, <2>1, <2>2, AppAlone DEF Ended
<1>4. CASE StopMonitoring(d)
  <2>1. ProcessTypeOK'
    <3>1. AppTypeOK' BY <1>4 DEF ProcessInv, ProcessTypeOK, AppTypeOK, At, StopMonitoring
    <3>2. ReportTypeOK' BY <1>4 DEF ProcessInv, ProcessTypeOK, AppTypeOK, At, StopMonitoring, ReportTypeOK
    <3> QED BY <3>1, <3>2, <1>4, TypesStay DEF ProcessInv, ProcessTypeOK, StopMonitoring
  <2>2. /\ app[d] = "stop_monitoring" /\ app'[d] \in {"stop_monitoring", "join_registration"} /\ d \in cancelled_
        /\ running_' \subseteq running_ /\ (app'[d] = "join_registration" =>
              report[d] \in {"none", "exited"} /\ d \notin running_' /\ d \notin handler)
        /\ \A e \in Dispatchers \ {d} : app'[e] = app[e] /\ registration'[e] = registration[e]
        /\ UNCHANGED <<ex, request, report, handler, cancelled_>>
    BY <1>4 DEF ProcessInv, ProcessTypeOK, AppTypeOK, At, StopMonitoring, OnlyRegistrations, clientVars
  <2> QED BY Zenon, <2>1, <2>2, AppAlone DEF Ended
<1>5. CASE JoinRegistration(d)
  <2>1. ProcessTypeOK'
    <3>1. AppTypeOK' BY <1>5 DEF ProcessInv, ProcessTypeOK, AppTypeOK, At, JoinRegistration
    <3> QED BY <3>1, <1>5, TypesStay DEF ProcessInv, ProcessTypeOK, JoinRegistration
  <2>2. /\ app[d] = "join_registration" /\ app'[d] \in {"unregister", "stop_server"} /\ d \in cancelled_
        /\ report[d] \in {"none", "exited"} /\ d \notin running_ /\ d \notin handler
        /\ \A e \in Dispatchers \ {d} : app'[e] = app[e] /\ registration'[e] = registration[e]
        /\ UNCHANGED <<ex, request, report, handler, running_, cancelled_>>
    BY <1>5 DEF ProcessInv, ProcessTypeOK, AppTypeOK, At, JoinRegistration,
           OnlyRegistrations, MonitoringJoined, clientVars, reportVars
  <2> QED BY <2>1, <2>2, AppAlone DEF Ended
<1>6. CASE Unregister(d) BY <1>6, UnregisterPreserves
<1>7. CASE StopServer(d)
  <2>1. Alive(d) /\ ProcessEnds(d, "stopped") BY <1>7 DEF StopServer, Alive
  <2> QED BY <2>1, ProcessEndsPreserves
<1>8. CASE Killed(d)
  <2>1. Alive(d) /\ ProcessEnds(d, "dead") BY Zenon, <1>8 DEF Killed, Alive
  <2> QED BY <2>1, ProcessEndsPreserves
<1> QED BY Zenon, <1>1, <1>2, <1>3, <1>4, <1>5, <1>6, <1>7, <1>8 DEF StopStep

----------------------------------------------------------------------------
(* The threads of a run *)

ExchangeStep(d) ==
    \/ ClientStep(d)
    \/ ConnectFails(d) /\ UNCHANGED <<appVars, reportVars>>
    \/ RegistrationStep(d)

MonitoringStep(d) == ReportStep(d) \/ HttpRequest(d) \/ HttpBuilt(d) \/ ReportConnectFails(d)

\* exchange() and the registration thread.
LEMMA ExchangePreserves ==
  ASSUME ProcessInv, ServiceTypeOK, NEW d \in Dispatchers, ExchangeStep(d)
  PROVE  ProcessInv' /\ OnceStarted
<1>1. Alive(d)
  BY Zenon DEF ProcessInv, RunsInOrder, ExchangeStep, ClientStep, Publish, Recheck, Transfer, Interrupted, ConnectFails,
         RegistrationStep, RegistrationLoop, Registered, Registration
<1>2. CASE Publish(d) /\ UNCHANGED <<appVars, reportVars>>
  <2>1. ClientTypeOK' BY <1>2 DEF ProcessInv, ProcessTypeOK, ClientTypeOK, Publish, Goto
  <2>2. /\ UNCHANGED <<appVars, reportVars>> /\ UNCHANGED <<request, cancelled_>>
        /\ \A e \in Dispatchers \ {d} : ex'[e] = ex[e]
        /\ ex[d] = "created"
    BY <1>2 DEF ProcessInv, ProcessTypeOK, ClientTypeOK, Publish, Goto
  <2> QED BY Zenon, <2>1, <2>2, <1>1, ClientMoves
<1>3. CASE Recheck(d) /\ UNCHANGED <<appVars, reportVars>>
  <2>1. ClientTypeOK' BY <1>3 DEF ProcessInv, ProcessTypeOK, ClientTypeOK, Recheck, Goto
  <2>2. /\ UNCHANGED <<appVars, reportVars>> /\ UNCHANGED <<request, cancelled_>>
        /\ \A e \in Dispatchers \ {d} : ex'[e] = ex[e]
        /\ ex[d] = "published"
    BY <1>3 DEF ProcessInv, ProcessTypeOK, ClientTypeOK, Recheck, Goto
  <2> QED BY <2>1, <2>2, <1>1, ClientMoves
<1>4. CASE GiveUp(d) /\ UNCHANGED <<appVars, reportVars>>
  <2>1. ClientTypeOK' BY <1>4 DEF ProcessInv, ProcessTypeOK, ClientTypeOK, GiveUp, Goto
  <2>2. /\ UNCHANGED <<appVars, reportVars>> /\ UNCHANGED <<request, cancelled_>>
        /\ \A e \in Dispatchers \ {d} : ex'[e] = ex[e]
        /\ ex'[d] = "returned"
    BY <1>4 DEF ProcessInv, ProcessTypeOK, ClientTypeOK, GiveUp, Goto
  <2> QED BY <2>1, <2>2, <1>1, ClientMoves
<1>5. CASE Transfer(d) /\ UNCHANGED <<appVars, reportVars>>
  <2>1. reply["vn"][d] \in {"ok", None} BY DEF ServiceTypeOK, Ports
  <2>2. result' \in [Dispatchers -> {None, "ok"}]
    BY Zenon, <1>5, <2>1 DEF ProcessInv, ProcessTypeOK, ClientTypeOK, Transfer
  <2>3. ClientTypeOK' BY Zenon, <1>5, <2>2 DEF ProcessInv, ProcessTypeOK, ClientTypeOK, Transfer, Goto
  <2>4. /\ UNCHANGED <<appVars, reportVars>> /\ UNCHANGED <<request, cancelled_>>
        /\ \A e \in Dispatchers \ {d} : ex'[e] = ex[e]
        /\ ex[d] \in {"connect", "write", "read"}
    BY Zenon, <1>5 DEF ProcessInv, ProcessTypeOK, ClientTypeOK, Transfer, Goto
  <2> QED BY <2>3, <2>4, <1>1, ClientMoves
<1>6. CASE RegistrationLoop(d)
  <2> USE DEF ProcessInv, ProcessTypeOK, RegistrationLoop, Registration, RegisterEndpoint, ExchangeBegins, Goto
  <2>1. ClientTypeOK' BY <1>6 DEF ClientTypeOK, clientVars
  <2>2. AppTypeOK' BY <1>6 DEF AppTypeOK
  <2>3. ProcessTypeOK' BY <2>1, <2>2, <1>6, TypesStay
  <2>4. /\ UNCHANGED <<app, report, cancelled_, running_, handler>>
        /\ \A e \in Dispatchers \ {d} :
              ex'[e] = ex[e] /\ request'[e] = request[e] /\ registration'[e] = registration[e]
    BY <1>6 DEF ClientTypeOK, AppTypeOK, clientVars, reportVars
  <2>5. ex'[d] \notin {"idle", "returned"} => request'[d] = "register"
    BY <1>6 DEF ClientTypeOK, OnlyRegistrations, clientVars
  <2> HIDE DEF ProcessInv, ProcessTypeOK, RegistrationLoop, Registration, RegisterEndpoint, ExchangeBegins, Goto
  <2> QED BY Zenon, <2>3, <2>4, <2>5, <1>1, ClientAlone
<1>7. CASE Registered(d)
  <2> USE DEF ProcessInv, ProcessTypeOK, Registered, Registration, Goto
  <2>1. ClientTypeOK' BY <1>7 DEF ClientTypeOK
  <2>2. AppTypeOK' BY <1>7 DEF AppTypeOK
  <2>3. ProcessTypeOK' BY <2>1, <2>2, <1>7, TypesStay
  <2>4. /\ UNCHANGED <<app, report, cancelled_, running_, handler>> /\ ex'[d] = "idle"
        /\ \A e \in Dispatchers \ {d} :
              ex'[e] = ex[e] /\ request'[e] = request[e] /\ registration'[e] = registration[e]
    BY <1>7 DEF ClientTypeOK, AppTypeOK, reportVars
  <2> HIDE DEF ProcessInv, ProcessTypeOK, Registered, Registration, Goto
  <2>5. ex'[d] \notin {"idle", "returned"} => request'[d] = "register" BY Zenon, <2>4
  <2> QED BY Zenon, <2>3, <2>4, <2>5, <1>1, ClientAlone
<1> QED
  BY <1>2, <1>3, <1>4, <1>5, <1>6, <1>7 DEF ExchangeStep, ClientStep, Interrupted, ConnectFails, RegistrationStep

\* The report thread and the HTTP handlers of the monitoring service.
LEMMA MonitoringPreserves ==
  ASSUME ProcessInv, NEW d \in Dispatchers, MonitoringStep(d)
  PROVE  ProcessInv' /\ OnceStarted
<1> USE DEF ProcessInv, ProcessTypeOK, Reporting, ReportLoop
<1>1. CASE BuildAndCache(d)
  <2>1. ReportTypeOK' BY <1>1 DEF ReportTypeOK, BuildAndCache
  <2>2. /\ UNCHANGED <<clientVars, appVars, running_>> /\ handler' \ {d} = handler \ {d}
        /\ \A e \in Dispatchers \ {d} : report'[e] = report[e]
        /\ report[d] \notin {"none", "exited"}
    BY <1>1 DEF BuildAndCache, ReportTypeOK
  <2> QED BY <2>1, <2>2, MonitorAlone
<1>2. CASE HttpRequest(d)
  <2>1. ReportTypeOK' BY <1>2 DEF ReportTypeOK, HttpRequest
  <2>2. /\ UNCHANGED <<clientVars, appVars, running_>> /\ handler' \ {d} = handler \ {d}
        /\ \A e \in Dispatchers \ {d} : report'[e] = report[e]
        /\ report' = report /\ d \in running_
    BY <1>2 DEF HttpRequest, ReportTypeOK
  <2> QED BY <2>1, <2>2, MonitorAlone
<1>3. CASE HttpBuilt(d)
  <2>1. ReportTypeOK' BY <1>3 DEF ReportTypeOK, HttpBuilt
  <2>2. /\ UNCHANGED <<clientVars, appVars, running_>> /\ handler' \ {d} = handler \ {d}
        /\ \A e \in Dispatchers \ {d} : report'[e] = report[e]
        /\ report' = report /\ d \in handler
    BY <1>3 DEF HttpBuilt, ReportTypeOK
  <2> QED BY <2>1, <2>2, MonitorAlone
<1>4. CASE WaitReturns(d)
  <2>1. ReportTypeOK' BY <1>4 DEF ReportTypeOK, WaitReturns
  <2>2. /\ UNCHANGED <<clientVars, appVars, running_>> /\ handler' \ {d} = handler \ {d}
        /\ \A e \in Dispatchers \ {d} : report'[e] = report[e]
        /\ report[d] \notin {"none", "exited"}
    BY Zenon, <1>4 DEF WaitReturns, ReportTypeOK
  <2> QED BY <2>1, <2>2, MonitorAlone
<1>5. CASE ReportBegins(d)
  <2>1. ReportTypeOK' BY <1>5 DEF ReportTypeOK, ReportBegins
  <2>2. /\ UNCHANGED <<clientVars, appVars, running_>> /\ handler' \ {d} = handler \ {d}
        /\ \A e \in Dispatchers \ {d} : report'[e] = report[e]
        /\ report[d] \notin {"none", "exited"}
    BY <1>5 DEF ReportBegins, ReportTypeOK
  <2> QED BY <2>1, <2>2, MonitorAlone
<1>6. CASE PublishSocket(d)
  <2>1. ReportTypeOK' BY <1>6 DEF ReportTypeOK, PublishSocket
  <2>2. /\ UNCHANGED <<clientVars, appVars, running_>> /\ handler' \ {d} = handler \ {d}
        /\ \A e \in Dispatchers \ {d} : report'[e] = report[e]
        /\ report[d] \notin {"none", "exited"}
    BY <1>6 DEF PublishSocket, ReportTypeOK
  <2> QED BY <2>1, <2>2, MonitorAlone
<1>7. CASE ReportTransfer(d)
  <2>1. ReportTypeOK' BY <1>7 DEF ReportTypeOK, ReportTransfer
  <2>2. /\ UNCHANGED <<clientVars, appVars, running_>> /\ handler' \ {d} = handler \ {d}
        /\ \A e \in Dispatchers \ {d} : report'[e] = report[e]
        /\ report[d] \notin {"none", "exited"}
    BY <1>7 DEF ReportTransfer, ReportTypeOK
  <2> QED BY <2>1, <2>2, MonitorAlone
<1>8. CASE report[d] \in {"connect", "write", "ack"} /\ TearDown(d)
  <2>1. ReportTypeOK' BY <1>8 DEF ReportTypeOK, TearDown
  <2>2. /\ UNCHANGED <<clientVars, appVars, running_>> /\ handler' \ {d} = handler \ {d}
        /\ \A e \in Dispatchers \ {d} : report'[e] = report[e]
        /\ report[d] \notin {"none", "exited"}
    BY <1>8 DEF TearDown, ReportTypeOK
  <2> QED BY <2>1, <2>2, MonitorAlone
<1> HIDE DEF ProcessInv, ProcessTypeOK, Reporting, ReportLoop
<1> QED
  BY Zenon, <1>1, <1>2, <1>3, <1>4, <1>5, <1>6, <1>7, <1>8 DEF MonitoringStep, ReportStep, ReportInterrupted, ReportConnectFails

\* DispatcherApp::start(): a run starts when all earlier ones have ended.
LEMMA StartPreserves ==
  ASSUME ProcessInv, NEW d \in Dispatchers, StartStep(d)
  PROVE  ProcessInv' /\ OnceStarted
<1> USE DispatchersAssumption DEF ProcessInv, ProcessTypeOK, AppTypeOK, At
<1>1. CASE StartServer(d)
  <2>1. ProcessTypeOK'
    <3>1. AppTypeOK' BY <1>1 DEF StartServer
    <3> QED BY Zenon, <3>1, <1>1, TypesStay DEF StartServer
  <2>2. app[d] = "off" /\ app'[d] \in {"started", "failed"}
        /\ UNCHANGED <<ex, request, cancelled_, registration, running_, report, handler>>
        /\ (\A e \in Dispatchers \ {d} : app'[e] = app[e])
    BY <1>1 DEF StartServer, clientVars, reportVars
  <2>3. \A e \in Dispatchers : e < d => Ended(e) BY <1>1 DEF StartServer
  <2>4. ASSUME NEW c \in Dispatchers, NEW e \in Dispatchers, e < c, app'[c] # "off"
        PROVE  Ended(e)'
    <3>1. CASE c = d BY <3>1, <2>4, <2>2, <2>3 DEF Ended
    <3>2. CASE c # d
      <4>1. Ended(e) BY <3>2, <2>4, <2>2 DEF RunsInOrder
      <4> QED BY <4>1, <2>2 DEF Ended
    <3> QED BY <3>1, <3>2
  <2>5. \A e \in Dispatchers :
          ~Alive(e)' => ex'[e] = "idle" /\ registration'[e] = "none" /\ report'[e] = "none"
    BY <2>2 DEF RunsInOrder, Alive
  <2>6. RunsInOrder' BY <2>4, <2>5 DEF RunsInOrder
  <2>7. OnlyRegistrations' BY <2>2 DEF OnlyRegistrations
  <2>8. MonitoringJoined' BY <2>2 DEF MonitoringJoined
  <2> QED BY <2>1, <2>2, <2>6, <2>7, <2>8 DEF OnceStarted
<1>2. CASE StartMonitoring(d)
  <2>1. ProcessTypeOK'
    <3>1. AppTypeOK' BY <1>2 DEF StartMonitoring
    <3>2. ReportTypeOK' BY Zenon, <1>2 DEF StartMonitoring, ReportTypeOK
    <3> QED BY Zenon, <3>1, <3>2, <1>2, TypesStay DEF StartMonitoring
  <2>2. /\ app[d] = "started" /\ app'[d] = "monitored"
        /\ UNCHANGED <<ex, request, cancelled_, registration, handler>>
        /\ \A e \in Dispatchers \ {d} : app'[e] = app[e] /\ report'[e] = report[e]
        /\ running_' \ {d} = running_ \ {d}
    BY <1>2 DEF StartMonitoring, ReportTypeOK, clientVars
  <2>3. RunsInOrder' BY <2>2 DEF RunsInOrder, Alive, Ended
  <2>4. OnlyRegistrations' BY Zenon, <2>2 DEF OnlyRegistrations
  <2>5. MonitoringJoined' BY <2>2 DEF MonitoringJoined
  <2> QED BY <2>1, <2>2, <2>3, <2>4, <2>5 DEF OnceStarted
<1>3. CASE StartRendezvous(d)
  <2>1. ProcessTypeOK'
    <3>1. AppTypeOK' BY <1>3 DEF StartRendezvous
    <3> QED BY Zenon, <3>1, <1>3, TypesStay DEF StartRendezvous
  <2> QED BY <2>1, <1>3, AppAlone DEF StartRendezvous, Ended, clientVars, reportVars
<1> HIDE DEF ProcessInv, ProcessTypeOK, AppTypeOK, At
<1> QED BY <1>1, <1>2, <1>3 DEF StartStep

\* The run whose endpoint, or whose snapshot, the service has; 0 for none.
Served(p) == IF p = "snapshot" THEN last_snapshot_ ELSE IF endpoint_ = None THEN 0 ELSE endpoint_

\* What a connection brings is of the run that made it; a is app.
Frame(p, d) == IF p = "snapshot" THEN d ELSE "register"
Genuine(a, p, k) == a[k.by] # "off" /\ k.msg \in {None, Frame(p, k.by)}

\* The connections of a port, b to accept and s accepted, are in the order of
\* the runs, after the run that is served.
InOrder(a, p, b, s, last) ==
    /\ last # 0 => a[last] # "off"
    /\ \A i \in DOMAIN b :
          /\ Genuine(a, p, b[i]) /\ last <= b[i].by
          /\ \A j \in DOMAIN b : i < j => b[i].by <= b[j].by
    /\ \A i \in DOMAIN s :
          /\ Genuine(a, p, s[i]) /\ last <= s[i].by
          /\ \A j \in DOMAIN b : s[i].by <= b[j].by

ConnectionsInOrder == \A p \in Ports : InOrder(app, p, backlog[p], serving[p], Served(p))

ServiceInv == ServiceTypeOK /\ ConnectionsInOrder

\* The inductive invariant.
IInv == ProcessInv /\ ServiceInv

----------------------------------------------------------------------------
(* The connections of a port *)

\* t is a sequence of connections of the port as s is, made by the same runs.
Alike(p, s, t) ==
    /\ t \in Seq(Connections(p)) /\ Len(t) = Len(s) /\ DOMAIN t = DOMAIN s
    /\ \A i \in DOMAIN s : t[i].by = s[i].by

\* The messages of s, or m where run c has sent it.
OnlySent(s, t, c, m) == \A i \in DOMAIN s : t[i].msg = s[i].msg \/ (s[i].by = c /\ t[i].msg = m)

\* A frame is put on connections of the port and changes nothing else.
LEMMA SentFacts ==
  ASSUME NEW p \in Ports, NEW s \in Seq(Connections(p)), NEW c, NEW m \in Frames(p)
  PROVE  Alike(p, s, Sent(s, c, m)) /\ OnlySent(s, Sent(s, c, m), c, m)
<1> \A i \in DOMAIN s : s[i] \in Connections(p) OBVIOUS
<1>1. \A i \in DOMAIN s : s[i] \in Connections(p) /\ [s[i] EXCEPT !.msg = m] \in Connections(p)
  BY DEF Connections
<1>2. DOMAIN s = 1 .. Len(s) /\ Len(s) \in Nat OBVIOUS
<1>3. Sent(s, c, m) \in Seq(Connections(p)) /\ Len(Sent(s, c, m)) = Len(s)
      /\ DOMAIN Sent(s, c, m) = DOMAIN s
  BY <1>1, <1>2 DEF Sent
<1>4. \A i \in DOMAIN s : \/ Sent(s, c, m)[i] = s[i]
                          \/ s[i].by = c /\ Sent(s, c, m)[i] = [s[i] EXCEPT !.msg = m]
  BY DEF Sent
<1>5. \A i \in DOMAIN s : [s[i] EXCEPT !.msg = m].by = s[i].by /\ [s[i] EXCEPT !.msg = m].msg = m
  BY <1>1 DEF Connections
<1> QED BY Zenon, <1>3, <1>4, <1>5 DEF Alike, OnlySent

\* Nor does the end of a connection change more than it says.
LEMMA ShutFacts ==
  ASSUME NEW p \in Ports, NEW s \in Seq(Connections(p)), NEW c
  PROVE  /\ Alike(p, s, Shut(s, c))
         /\ \A i \in DOMAIN s : Shut(s, c)[i].msg = s[i].msg
<1> \A i \in DOMAIN s : s[i] \in Connections(p) OBVIOUS
<1>1. \A i \in DOMAIN s : s[i] \in Connections(p) /\ [s[i] EXCEPT !.open = FALSE] \in Connections(p)
  BY Zenon DEF Connections
<1>2. DOMAIN s = 1 .. Len(s) /\ Len(s) \in Nat OBVIOUS
<1>3. Shut(s, c) \in Seq(Connections(p)) /\ Len(Shut(s, c)) = Len(s) /\ DOMAIN Shut(s, c) = DOMAIN s
  BY <1>1, <1>2 DEF Shut
<1>4. \A i \in DOMAIN s : Shut(s, c)[i] = s[i] \/ Shut(s, c)[i] = [s[i] EXCEPT !.open = FALSE]
  BY DEF Shut
<1>5. \A i \in DOMAIN s : /\ [s[i] EXCEPT !.open = FALSE].by = s[i].by
                          /\ [s[i] EXCEPT !.open = FALSE].msg = s[i].msg
  BY <1>1 DEF Connections
<1> QED BY Zenon, <1>3, <1>4, <1>5 DEF Alike

\* Runs that start or end do not disturb the order.
LEMMA OrderStays ==
  ASSUME NEW p \in Ports, NEW b \in Seq(Connections(p)), NEW s \in Seq(Connections(p)),
         NEW last \in Dispatchers \cup {0}, NEW a, NEW aa, InOrder(a, p, b, s, last),
         \A d \in Dispatchers : a[d] # "off" => aa[d] # "off"
  PROVE  InOrder(aa, p, b, s, last)
<1> /\ \A i \in DOMAIN b : b[i] \in Connections(p)
    /\ \A i \in DOMAIN s : s[i] \in Connections(p)
  OBVIOUS
<1>1. /\ \A i \in DOMAIN b : b[i].by \in Dispatchers
      /\ \A i \in DOMAIN s : s[i].by \in Dispatchers
  BY Zenon DEF Connections
<1> QED BY Zenon, <1>1 DEF InOrder, Genuine

\* The order is that of the runs, whatever they have sent or closed.
LEMMA OrderMapped ==
  ASSUME NEW p, NEW b, NEW s, NEW last, NEW a, InOrder(a, p, b, s, last), NEW bb, NEW ss,
         Alike(p, b, bb), \A i \in DOMAIN b : Genuine(a, p, bb[i]),
         Alike(p, s, ss), \A i \in DOMAIN s : Genuine(a, p, ss[i])
  PROVE  InOrder(a, p, bb, ss, last)
  BY Zenon DEF InOrder, Alike

\* Nor does a frame, of the run that sends it,
LEMMA OrderSent ==
  ASSUME NEW p \in Ports, NEW b \in Seq(Connections(p)), NEW s \in Seq(Connections(p)),
         NEW last, NEW a, NEW c, NEW m \in Frames(p), m = Frame(p, c), InOrder(a, p, b, s, last)
  PROVE  /\ Alike(p, b, Sent(b, c, m)) /\ Alike(p, s, Sent(s, c, m))
         /\ InOrder(a, p, Sent(b, c, m), Sent(s, c, m), last)
<1>1. Alike(p, b, Sent(b, c, m)) /\ Alike(p, s, Sent(s, c, m)) BY Zenon, SentFacts
<1>2. ASSUME NEW t \in Seq(Connections(p)), \A i \in DOMAIN t : Genuine(a, p, t[i]),
             NEW i \in DOMAIN t
      PROVE  Genuine(a, p, Sent(t, c, m)[i])
  <2>0. Alike(p, t, Sent(t, c, m)) /\ OnlySent(t, Sent(t, c, m), c, m) BY Zenon, SentFacts
  <2>1. Sent(t, c, m)[i].by = t[i].by BY Zenon, <2>0 DEF Alike
  <2>2. Sent(t, c, m)[i].msg = t[i].msg \/ (t[i].by = c /\ Sent(t, c, m)[i].msg = m)
    BY Zenon, <2>0 DEF OnlySent
  <2> QED BY Zenon, <2>1, <2>2, <1>2 DEF Genuine
<1>3. /\ \A i \in DOMAIN b : Genuine(a, p, Sent(b, c, m)[i])
      /\ \A i \in DOMAIN s : Genuine(a, p, Sent(s, c, m)[i])
  BY Zenon, <1>2 DEF InOrder
<1> QED BY Zenon, <1>1, <1>3, OrderMapped

\* nor a connection that is closed.
LEMMA OrderShut ==
  ASSUME NEW p \in Ports, NEW b \in Seq(Connections(p)), NEW s \in Seq(Connections(p)),
         NEW last, NEW a, NEW c, InOrder(a, p, b, s, last)
  PROVE  /\ Alike(p, b, Shut(b, c)) /\ Alike(p, s, Shut(s, c))
         /\ InOrder(a, p, Shut(b, c), Shut(s, c), last)
<1>1. Alike(p, b, Shut(b, c)) /\ Alike(p, s, Shut(s, c)) BY Zenon, ShutFacts
<1>2. ASSUME NEW t \in Seq(Connections(p)), \A i \in DOMAIN t : Genuine(a, p, t[i]),
             NEW i \in DOMAIN t
      PROVE  Genuine(a, p, Shut(t, c)[i])
  <2>1. Shut(t, c)[i].by = t[i].by BY Zenon, ShutFacts DEF Alike
  <2>2. Shut(t, c)[i].msg = t[i].msg BY Zenon, ShutFacts
  <2> QED BY Zenon, <2>1, <2>2, <1>2 DEF Genuine
<1>3. /\ \A i \in DOMAIN b : Genuine(a, p, Shut(b, c)[i])
      /\ \A i \in DOMAIN s : Genuine(a, p, Shut(s, c)[i])
  BY Zenon, <1>2 DEF InOrder
<1> QED BY Zenon, <1>1, <1>3, OrderMapped

\* The run that is alive connects after all others.
LEMMA OrderAppend ==
  ASSUME NEW p \in Ports, NEW b \in Seq(Connections(p)), NEW s \in Seq(Connections(p)),
         NEW last \in Dispatchers \cup {0}, NEW a, InOrder(a, p, b, s, last),
         NEW k \in Connections(p), Genuine(a, p, k), \A e \in Dispatchers : a[e] # "off" => e <= k.by
  PROVE  InOrder(a, p, Append(b, k), s, last)
<1> USE DispatchersAssumption
<1>1. k.by \in Dispatchers /\ k.by \in Nat BY Zenon DEF Connections
<1>2. Len(b) \in Nat /\ DOMAIN b = 1 .. Len(b) OBVIOUS
<1>3. /\ Append(b, k) \in Seq(Connections(p)) /\ Len(Append(b, k)) = Len(b) + 1
      /\ DOMAIN Append(b, k) = 1 .. (Len(b) + 1)
      /\ \A i \in 1 .. Len(b) : Append(b, k)[i] = b[i]
      /\ Append(b, k)[Len(b) + 1] = k
  BY <1>1, <1>2
<1> /\ \A i \in DOMAIN b : b[i] \in Connections(p)
    /\ \A i \in DOMAIN s : s[i] \in Connections(p)
  OBVIOUS
<1> /\ \A i \in DOMAIN b : b[i].by \in Dispatchers
    /\ \A i \in DOMAIN s : s[i].by \in Dispatchers
  BY Zenon DEF Connections
<1>4. /\ \A i \in DOMAIN b : b[i].by \in Dispatchers /\ b[i].by <= k.by
      /\ \A i \in DOMAIN s : s[i].by \in Dispatchers /\ s[i].by <= k.by
  BY Zenon DEF InOrder, Genuine
<1> last <= k.by
  <2>1. CASE last = 0
    <3>1. 0 <= k.by BY <1>1
    <3> QED BY Zenon, <3>1, <2>1
  <2>2. CASE last # 0 BY Zenon, <2>2 DEF InOrder
  <2> QED BY Zenon, <2>1, <2>2
<1>5. \A i \in 1 .. (Len(b) + 1) : i \in 1 .. Len(b) \/ i = Len(b) + 1 BY <1>2
<1>6. \A i \in 1 .. (Len(b) + 1) :
          /\ Genuine(a, p, Append(b, k)[i]) /\ last <= Append(b, k)[i].by
          /\ \A j \in 1 .. (Len(b) + 1) : i < j => Append(b, k)[i].by <= Append(b, k)[j].by
  <2> TAKE i \in 1 .. (Len(b) + 1)
  <2>1. Genuine(a, p, Append(b, k)[i]) /\ last <= Append(b, k)[i].by
    BY Zenon, <1>2, <1>3, <1>5 DEF InOrder
  <2>2. ASSUME NEW j \in 1 .. (Len(b) + 1), i < j PROVE Append(b, k)[i].by <= Append(b, k)[j].by
    <3>1. i \in 1 .. Len(b) BY <1>2, <2>2
    <3>2. CASE j = Len(b) + 1 BY Zenon, <1>2, <1>3, <1>4, <3>1, <3>2
    <3>3. CASE j \in 1 .. Len(b) BY Zenon, <1>2, <1>3, <2>2, <3>1, <3>3 DEF InOrder
    <3> QED BY Zenon, <1>5, <3>2, <3>3
  <2> QED BY Zenon, <2>1, <2>2
<1>7. \A i \in DOMAIN s : \A j \in 1 .. (Len(b) + 1) : s[i].by <= Append(b, k)[j].by
  BY Zenon, <1>1, <1>2, <1>3, <1>4, <1>5 DEF InOrder
<1> QED BY Zenon, <1>3, <1>6, <1>7 DEF InOrder

\* accept() takes the first connection of the backlog.
LEMMA OrderAccept ==
  ASSUME NEW p \in Ports, NEW b \in Seq(Connections(p)), b # <<>>,
         NEW s, NEW last, NEW a, InOrder(a, p, b, s, last)
  PROVE  /\ Tail(b) \in Seq(Connections(p)) /\ Len(Tail(b)) = Len(b) - 1
         /\ <<Head(b)>> \in Seq(Connections(p))
         /\ InOrder(a, p, Tail(b), <<Head(b)>>, last)
<1>1. Len(b) \in Nat /\ Len(b) > 0 /\ DOMAIN b = 1 .. Len(b) OBVIOUS
<1>2. Head(b) = b[1] /\ Head(b) \in Connections(p) BY <1>1
<1>3. /\ Tail(b) \in Seq(Connections(p)) /\ Len(Tail(b)) = Len(b) - 1
      /\ DOMAIN Tail(b) = 1 .. (Len(b) - 1)
      /\ \A i \in 1 .. (Len(b) - 1) : Tail(b)[i] = b[i + 1]
  BY <1>1
<1>4. /\ <<Head(b)>> \in Seq(Connections(p)) /\ DOMAIN <<Head(b)>> = {1}
      /\ <<Head(b)>>[1] = b[1]
  BY <1>2
<1>5. \A i \in 1 .. (Len(b) - 1) : i + 1 \in DOMAIN b /\ 1 < i + 1 BY <1>1
<1>6. 1 \in DOMAIN b BY <1>1
<1>7. \A i \in 1 .. (Len(b) - 1) :
          /\ Genuine(a, p, Tail(b)[i]) /\ last <= Tail(b)[i].by
          /\ \A j \in 1 .. (Len(b) - 1) : i < j => Tail(b)[i].by <= Tail(b)[j].by
  BY <1>1, <1>3, <1>5 DEF InOrder
<1>8. /\ Genuine(a, p, b[1]) /\ last <= b[1].by
      /\ \A j \in 1 .. (Len(b) - 1) : b[1].by <= Tail(b)[j].by
  BY Zenon, <1>3, <1>5, <1>6 DEF InOrder
<1> QED BY Zenon, <1>3, <1>4, <1>7, <1>8 DEF InOrder

\* What is accepted may be dropped, or become what is served.
LEMMA OrderServed ==
  ASSUME NEW p \in Ports, NEW b \in Seq(Connections(p)), NEW s \in Seq(Connections(p)),
         s # <<>>, NEW last, NEW a, InOrder(a, p, b, s, last)
  PROVE  /\ s[1] \in Connections(p) /\ Genuine(a, p, s[1]) /\ last <= s[1].by
         /\ InOrder(a, p, b, <<>>, last)
         /\ InOrder(a, p, b, <<>>, s[1].by)
         /\ <<[s[1] EXCEPT !.msg = None]>> \in Seq(Connections(p))
         /\ InOrder(a, p, b, <<[s[1] EXCEPT !.msg = None]>>, s[1].by)
<1> USE DispatchersAssumption
<1>1. 1 \in DOMAIN s /\ s[1] \in Connections(p) OBVIOUS
<1>2. /\ Genuine(a, p, s[1]) /\ last <= s[1].by
      /\ \A j \in DOMAIN b : s[1].by <= b[j].by
  BY Zenon, <1>1 DEF InOrder
<1>3. s[1].by \in Nat /\ a[s[1].by] # "off" BY Zenon, <1>1, <1>2 DEF Connections, Genuine
<1> DEFINE k == [s[1] EXCEPT !.msg = None]
<1>4. k \in Connections(p) /\ k.by = s[1].by /\ k.msg = None BY Zenon, <1>1 DEF Connections
<1>5. Genuine(a, p, k) BY <1>3, <1>4 DEF Genuine
<1>6. <<k>> \in Seq(Connections(p)) /\ DOMAIN <<k>> = {1} /\ <<k>>[1] = k BY <1>4
<1>7. DOMAIN <<>> = {} OBVIOUS
<1> HIDE DEF k
<1>8. InOrder(a, p, b, <<>>, last) /\ InOrder(a, p, b, <<>>, s[1].by)
  BY Zenon, <1>2, <1>3, <1>7 DEF InOrder
<1>9. InOrder(a, p, b, <<k>>, s[1].by)
  <2>1. s[1].by <= s[1].by BY <1>3
  <2>2. \A i \in DOMAIN <<k>> : <<k>>[i] = k BY <1>6
  <2> QED BY Zenon, <2>1, <2>2, <1>2, <1>4, <1>5, <1>8 DEF InOrder
<1> QED BY <1>1, <1>2, <1>6, <1>8, <1>9 DEF k

----------------------------------------------------------------------------
(* The service *)

\* What the service has is of some run, or nothing.
LEMMA ServedType == ServiceTypeOK => \A p \in Ports : Served(p) \in Dispatchers \cup {0}
  BY DEF ServiceTypeOK, Served

\* The run that is alive is the last one that has started.
LEMMA AliveIsLast ==
  ASSUME ProcessInv, NEW d \in Dispatchers, Alive(d)
  PROVE  app[d] # "off" /\ \A e \in Dispatchers : app[e] # "off" => e <= d
  BY DispatchersAssumption DEF ProcessInv, RunsInOrder, Alive, Ended

\* Steps that touch neither the connections nor what is served.
LEMMA ServiceStays ==
  ASSUME ServiceInv, ServiceTypeOK', OnceStarted,
         UNCHANGED <<backlog, serving, endpoint_, last_snapshot_>>
  PROVE  ServiceInv'
<1>1. ASSUME NEW p \in Ports PROVE InOrder(app', p, backlog'[p], serving'[p], Served(p)')
  <2>1. Served(p)' = Served(p) BY DEF Served
  <2>2. InOrder(app, p, backlog[p], serving[p], Served(p)) BY Zenon DEF ServiceInv, ConnectionsInOrder
  <2>3. /\ backlog[p] \in Seq(Connections(p)) /\ serving[p] \in Seq(Connections(p))
        /\ Served(p) \in Dispatchers \cup {0}
    BY Zenon, ServedType DEF ServiceInv, ServiceTypeOK
  <2>4. InOrder(app', p, backlog[p], serving[p], Served(p))
    BY Zenon, <2>2, <2>3, OrderStays DEF OnceStarted
  <2> QED BY Zenon, <2>1, <2>4
<1> QED BY Zenon, <1>1 DEF ServiceInv, ConnectionsInOrder

\* A new connection is of the run that is alive.
LEMMA ConnectPreserves ==
  ASSUME IInv, NEW c \in Ports, NEW d \in Dispatchers, Alive(d), Connect(c, d), UNCHANGED app
  PROVE  ServiceInv'
<1> DEFINE k == [by |-> d, msg |-> None, open |-> TRUE]
<1>1. app[d] # "off" /\ \A e \in Dispatchers : app[e] # "off" => e <= d
  BY AliveIsLast DEF IInv
<1>2. /\ backlog' = [backlog EXCEPT ![c] = Append(@, k)] /\ Len(backlog[c]) < Backlog
      /\ UNCHANGED <<server, snapshot_listener_, loop, serving, reply, endpoint_, fresh, last_snapshot_>>
  BY DEF Connect
<1> \A p \in Ports : k \in Connections(p) /\ k.by = d /\ k.msg = None BY DEF Connections
<1> HIDE DEF k
<1>3. backlog' = [p \in Ports |-> IF p = c THEN Append(backlog[c], k) ELSE backlog[p]]
  BY Zenon, <1>2 DEF IInv, ServiceInv, ServiceTypeOK
<1>4. ASSUME NEW p \in Ports
      PROVE  /\ backlog'[p] \in Seq(Connections(p)) /\ Len(backlog'[p]) <= Backlog
             /\ InOrder(app', p, backlog'[p], serving'[p], Served(p)')
  <2>1. /\ backlog[p] \in Seq(Connections(p)) /\ serving[p] \in Seq(Connections(p))
        /\ Served(p) \in Dispatchers \cup {0} /\ Len(backlog[p]) <= Backlog
    BY Zenon, ServedType DEF IInv, ServiceInv, ServiceTypeOK
  <2>2. InOrder(app, p, backlog[p], serving[p], Served(p))
    BY Zenon DEF IInv, ServiceInv, ConnectionsInOrder
  <2>3. Served(p)' = Served(p) BY <1>2 DEF Served
  <2>4. CASE p = c
    <3>1. Genuine(app, p, k) BY <1>1 DEF Genuine
    <3>2. InOrder(app, p, Append(backlog[p], k), serving[p], Served(p))
      BY Zenon, <1>1, <2>1, <2>2, <3>1, OrderAppend
    <3>3. /\ Append(backlog[p], k) \in Seq(Connections(p)) /\ Len(backlog[p]) \in Nat
          /\ Len(Append(backlog[p], k)) = Len(backlog[p]) + 1
      BY <2>1
    <3>4. Len(backlog[p]) + 1 <= Backlog BY <3>3, <2>4, <1>2, DispatchersAssumption
    <3> QED BY Zenon, <3>2, <3>3, <3>4, <2>1, <2>3, <2>4, <1>2, <1>3
  <2>5. CASE p # c BY Zenon, <2>5, <2>1, <2>2, <2>3, <1>2, <1>3
  <2> QED BY Zenon, <2>4, <2>5
<1>5. ServiceTypeOK' BY Zenon, <1>2, <1>3, <1>4 DEF IInv, ServiceInv, ServiceTypeOK
<1> QED BY Zenon, <1>4, <1>5 DEF ServiceInv, ConnectionsInOrder

\* A frame is of the run that sends it.
LEMMA SendPreserves ==
  ASSUME ServiceInv, NEW c \in Ports, NEW d \in Dispatchers, NEW m \in Frames(c),
         m = Frame(c, d), Send(c, d, m), UNCHANGED app
  PROVE  ServiceInv'
<1>1. /\ backlog' = [p \in Ports |-> IF p = c THEN Sent(backlog[p], d, m) ELSE backlog[p]]
      /\ serving' = [p \in Ports |-> IF p = c THEN Sent(serving[p], d, m) ELSE serving[p]]
      /\ UNCHANGED <<server, snapshot_listener_, loop, reply, endpoint_, fresh, last_snapshot_>>
  BY Zenon DEF Send, ServiceInv, ServiceTypeOK
<1>2. ASSUME NEW p \in Ports
      PROVE  /\ backlog'[p] \in Seq(Connections(p)) /\ Len(backlog'[p]) <= Backlog
             /\ serving'[p] \in Seq(Connections(p)) /\ Len(serving'[p]) <= 1
             /\ InOrder(app', p, backlog'[p], serving'[p], Served(p)')
  <2>1. /\ backlog[p] \in Seq(Connections(p)) /\ Len(backlog[p]) <= Backlog
        /\ serving[p] \in Seq(Connections(p)) /\ Len(serving[p]) <= 1
    BY Zenon DEF ServiceInv, ServiceTypeOK
  <2>2. InOrder(app, p, backlog[p], serving[p], Served(p)) BY Zenon DEF ServiceInv, ConnectionsInOrder
  <2>3. Served(p)' = Served(p) BY Zenon, <1>1 DEF Served
  <2>4. CASE p = c
    <3>1. m \in Frames(p) /\ m = Frame(p, d) BY <2>4
    <3>2. /\ Alike(p, backlog[p], Sent(backlog[p], d, m))
          /\ Alike(p, serving[p], Sent(serving[p], d, m))
          /\ InOrder(app, p, Sent(backlog[p], d, m), Sent(serving[p], d, m), Served(p))
      BY Zenon, <3>1, <2>1, <2>2, OrderSent
    <3> QED BY Zenon, <3>2, <2>1, <2>3, <2>4, <1>1 DEF Alike
  <2>5. CASE p # c BY Zenon, <2>5, <2>1, <2>2, <2>3, <1>1
  <2> QED BY Zenon, <2>4, <2>5
<1>3. ServiceTypeOK' BY Zenon, <1>1, <1>2 DEF ServiceInv, ServiceTypeOK
<1> QED BY Zenon, <1>2, <1>3 DEF ServiceInv, ConnectionsInOrder

\* A peer that closes its end, in the middle of its life or as its stop goes on.
LEMMA ClosePreserves ==
  ASSUME ServiceInv, NEW ps, NEW d \in Dispatchers, Close(ps, d), OnceStarted
  PROVE  ServiceInv'
<1>1. /\ backlog' = [p \in Ports |-> IF p \in ps THEN Shut(backlog[p], d) ELSE backlog[p]]
      /\ serving' = [p \in Ports |-> IF p \in ps THEN Shut(serving[p], d) ELSE serving[p]]
      /\ UNCHANGED <<server, snapshot_listener_, loop, endpoint_, fresh, last_snapshot_>>
  BY Zenon DEF Close
<1>2. reply' \in [Ports -> [Dispatchers -> {"ok", None}]]
  BY Zenon DEF Close, ServiceInv, ServiceTypeOK
<1>3. ASSUME NEW p \in Ports
      PROVE  /\ backlog'[p] \in Seq(Connections(p)) /\ Len(backlog'[p]) <= Backlog
             /\ serving'[p] \in Seq(Connections(p)) /\ Len(serving'[p]) <= 1
             /\ InOrder(app', p, backlog'[p], serving'[p], Served(p)')
  <2>1. /\ backlog[p] \in Seq(Connections(p)) /\ Len(backlog[p]) <= Backlog
        /\ serving[p] \in Seq(Connections(p)) /\ Len(serving[p]) <= 1
        /\ Served(p) \in Dispatchers \cup {0}
    BY ServedType DEF ServiceInv, ServiceTypeOK
  <2>2. InOrder(app, p, backlog[p], serving[p], Served(p)) BY Zenon DEF ServiceInv, ConnectionsInOrder
  <2>3. InOrder(app', p, backlog[p], serving[p], Served(p))
    BY Zenon, <2>1, <2>2, OrderStays DEF OnceStarted
  <2>4. Served(p)' = Served(p) BY Zenon, <1>1 DEF Served
  <2>5. CASE p \in ps
    <3>1. /\ Alike(p, backlog[p], Shut(backlog[p], d))
          /\ Alike(p, serving[p], Shut(serving[p], d))
          /\ InOrder(app', p, Shut(backlog[p], d), Shut(serving[p], d), Served(p))
      BY Zenon, <2>1, <2>3, OrderShut
    <3> QED BY Zenon, <3>1, <2>1, <2>4, <2>5, <1>1 DEF Alike
  <2>6. CASE p \notin ps BY Zenon, <2>6, <2>1, <2>3, <2>4, <1>1
  <2> QED BY Zenon, <2>5, <2>6
<1>4. ServiceTypeOK' BY Zenon, <1>1, <1>2, <1>3 DEF ServiceInv, ServiceTypeOK
<1> QED BY Zenon, <1>3, <1>4 DEF ServiceInv, ConnectionsInOrder

\* A port whose connections change, while the other keeps its own.
LEMMA PortPreserves ==
  ASSUME ServiceInv, UNCHANGED app, NEW c \in Ports, NEW b, NEW s,
         b \in Seq(Connections(c)), Len(b) <= Backlog, s \in Seq(Connections(c)), Len(s) <= 1,
         backlog' = [backlog EXCEPT ![c] = b], serving' = [serving EXCEPT ![c] = s],
         server' \in {"down", "up", "join_vn", "join_snapshot"},
         snapshot_listener_' \in BOOLEAN, loop' \subseteq Ports,
         reply' \in [Ports -> [Dispatchers -> {"ok", None}]],
         endpoint_' \in Dispatchers \cup {None}, fresh' \in BOOLEAN,
         last_snapshot_' \in Dispatchers \cup {0},
         InOrder(app, c, b, s, Served(c)'),
         \A p \in Ports \ {c} : Served(p)' = Served(p)
  PROVE  ServiceInv'
<1>1. /\ backlog' = [p \in Ports |-> IF p = c THEN b ELSE backlog[p]]
      /\ serving' = [p \in Ports |-> IF p = c THEN s ELSE serving[p]]
  BY Zenon DEF ServiceInv, ServiceTypeOK
<1>2. ASSUME NEW p \in Ports
      PROVE  /\ backlog'[p] \in Seq(Connections(p)) /\ Len(backlog'[p]) <= Backlog
             /\ serving'[p] \in Seq(Connections(p)) /\ Len(serving'[p]) <= 1
             /\ InOrder(app', p, backlog'[p], serving'[p], Served(p)')
  <2>1. CASE p = c BY Zenon, <2>1, <1>1
  <2>2. CASE p # c
    <3>1. /\ backlog[p] \in Seq(Connections(p)) /\ Len(backlog[p]) <= Backlog
          /\ serving[p] \in Seq(Connections(p)) /\ Len(serving[p]) <= 1
      BY Zenon DEF ServiceInv, ServiceTypeOK
    <3>2. InOrder(app, p, backlog[p], serving[p], Served(p)) BY Zenon DEF ServiceInv, ConnectionsInOrder
    <3> QED BY Zenon, <3>1, <3>2, <2>2, <1>1
  <2> QED BY Zenon, <2>1, <2>2
<1>3. ServiceTypeOK' BY Zenon, <1>1, <1>2 DEF ServiceTypeOK
<1> QED BY Zenon, <1>2, <1>3 DEF ServiceInv, ConnectionsInOrder

\* The accept threads take connections in order and drop them.
LEMMA AcceptPreserves ==
  ASSUME ServiceInv, NEW c \in Ports, Accept(c) \/ ServeFails(c), UNCHANGED app
  PROVE  ServiceInv'
<1>1. /\ backlog[c] \in Seq(Connections(c)) /\ Len(backlog[c]) <= Backlog
      /\ serving[c] \in Seq(Connections(c)) /\ Len(backlog[c]) \in Nat
      /\ backlog = [p \in Ports |-> backlog[p]]
  BY DEF ServiceInv, ServiceTypeOK
<1>2. InOrder(app, c, backlog[c], serving[c], Served(c)) BY Zenon DEF ServiceInv, ConnectionsInOrder
<1>3. UNCHANGED <<server, snapshot_listener_, loop, reply, endpoint_, fresh, last_snapshot_>>
  BY Zenon DEF Accept, ServeFails
<1>4. \A p \in Ports : Served(p)' = Served(p) BY <1>3 DEF Served
<1>5. /\ server' \in {"down", "up", "join_vn", "join_snapshot"}
      /\ snapshot_listener_' \in BOOLEAN /\ loop' \subseteq Ports
      /\ reply' \in [Ports -> [Dispatchers -> {"ok", None}]]
      /\ endpoint_' \in Dispatchers \cup {None} /\ fresh' \in BOOLEAN
      /\ last_snapshot_' \in Dispatchers \cup {0}
  BY <1>3 DEF ServiceInv, ServiceTypeOK
<1>6. CASE Accept(c)
  <2>1. /\ backlog' = [backlog EXCEPT ![c] = Tail(backlog[c])]
        /\ serving' = [serving EXCEPT ![c] = <<Head(backlog[c])>>]
        /\ backlog[c] # <<>>
    BY Zenon, <1>6 DEF Accept
  <2>2. /\ Tail(backlog[c]) \in Seq(Connections(c)) /\ Len(Tail(backlog[c])) = Len(backlog[c]) - 1
        /\ <<Head(backlog[c])>> \in Seq(Connections(c))
        /\ InOrder(app, c, Tail(backlog[c]), <<Head(backlog[c])>>, Served(c))
    BY Zenon, <1>1, <1>2, <2>1, OrderAccept
  <2>3. Len(<<Head(backlog[c])>>) <= 1 OBVIOUS
  <2>4. Len(Tail(backlog[c])) <= Backlog BY <2>2, <1>1, DispatchersAssumption
  <2> QED BY Zenon, <2>1, <2>2, <2>3, <2>4, <1>4, <1>5, PortPreserves
<1>7. CASE ServeFails(c)
  <2>1. /\ backlog' = [backlog EXCEPT ![c] = backlog[c]]
        /\ serving' = [serving EXCEPT ![c] = <<>>] /\ serving[c] # <<>>
    BY Zenon, <1>7, <1>1 DEF ServeFails
  <2>2. InOrder(app, c, backlog[c], <<>>, Served(c)) BY Zenon, <1>1, <1>2, <2>1, OrderServed
  <2>3. <<>> \in Seq(Connections(c)) /\ Len(<<>>) <= 1 OBVIOUS
  <2> QED BY Zenon, <2>1, <2>2, <2>3, <1>1, <1>4, <1>5, PortPreserves
<1> QED BY <1>6, <1>7

\* A registration is that of the run that sent it, which no earlier run follows.
LEMMA HandleRequestPreserves ==
  ASSUME ServiceInv, HandleRequest, UNCHANGED app
  PROVE  /\ ServiceInv' /\ endpoint_' \in Nat
         /\ endpoint_ # None => endpoint_' >= endpoint_
<1> DEFINE k == serving["vn"][1]
<1> USE DEF Ports
<1>1. /\ backlog["vn"] \in Seq(Connections("vn")) /\ Len(backlog["vn"]) <= Backlog
      /\ serving["vn"] \in Seq(Connections("vn"))
      /\ backlog = [p \in Ports |-> backlog[p]]
  BY DEF ServiceInv, ServiceTypeOK
<1>2. InOrder(app, "vn", backlog["vn"], serving["vn"], Served("vn"))
  BY DEF ServiceInv, ConnectionsInOrder
<1>3. /\ serving["vn"] # <<>> /\ k.msg # None
      /\ serving' = [serving EXCEPT !["vn"] = <<>>]
      /\ endpoint_' = DispatchMessage(k).endpoint /\ fresh' = DispatchMessage(k).fresh
      /\ Answer("vn", "ok")
      /\ UNCHANGED <<server, snapshot_listener_, loop, backlog, last_snapshot_>>
  BY DEF HandleRequest
<1>4. /\ k \in Connections("vn") /\ Genuine(app, "vn", k) /\ Served("vn") <= k.by
      /\ InOrder(app, "vn", backlog["vn"], <<>>, k.by)
  BY Zenon, <1>1, <1>2, <1>3, OrderServed
<1>5. k.by \in Dispatchers /\ k.msg = "register" BY Zenon, <1>3, <1>4 DEF Frame, Connections, Genuine
<1>6. endpoint_' = k.by /\ fresh' = TRUE BY Zenon, <1>3, <1>5 DEF DispatchMessage, HandleRegister
<1>7. reply' \in [Ports -> [Dispatchers -> {"ok", None}]]
  BY Zenon, <1>3, <1>5 DEF Answer, ServiceInv, ServiceTypeOK
<1>8. Served("vn")' = k.by BY Zenon, <1>5, <1>6, DispatchersAssumption DEF Served
<1>9. \A p \in Ports \ {"vn"} : Served(p)' = Served(p) BY Zenon, <1>3 DEF Served
<1>10. backlog' = [backlog EXCEPT !["vn"] = backlog["vn"]] BY Zenon, <1>1, <1>3
<1>11. /\ server' \in {"down", "up", "join_vn", "join_snapshot"}
       /\ snapshot_listener_' \in BOOLEAN /\ loop' \subseteq Ports
       /\ endpoint_' \in Dispatchers \cup {None} /\ fresh' \in BOOLEAN
       /\ last_snapshot_' \in Dispatchers \cup {0}
  BY Zenon, <1>3, <1>5, <1>6 DEF ServiceInv, ServiceTypeOK
<1>12. <<>> \in Seq(Connections("vn")) /\ Len(<<>>) <= 1 OBVIOUS
<1> HIDE DEF k
<1>13. ServiceInv'
  BY Zenon, <1>1, <1>3, <1>4, <1>7, <1>8, <1>9, <1>10, <1>11, <1>12, PortPreserves
<1>14. endpoint_ # None => endpoint_ <= k.by
  BY <1>4 DEF Served
<1> QED BY Zenon, <1>5, <1>6, <1>13, <1>14, DispatchersAssumption DEF ServiceInv, ServiceTypeOK

\* A snapshot is that of the run that sent it.
LEMMA HandleSnapshotPreserves ==
  ASSUME ServiceInv, HandleSnapshot, UNCHANGED app
  PROVE  ServiceInv' /\ last_snapshot_ <= last_snapshot_'
<1> DEFINE k == serving["snapshot"][1]
<1> USE DEF Ports
<1>1. /\ backlog["snapshot"] \in Seq(Connections("snapshot")) /\ Len(backlog["snapshot"]) <= Backlog
      /\ serving["snapshot"] \in Seq(Connections("snapshot"))
      /\ backlog = [p \in Ports |-> backlog[p]]
  BY DEF ServiceInv, ServiceTypeOK
<1>2. InOrder(app, "snapshot", backlog["snapshot"], serving["snapshot"], Served("snapshot"))
  BY DEF ServiceInv, ConnectionsInOrder
<1> DEFINE rest == IF Running("snapshot") THEN <<[k EXCEPT !.msg = None]>> ELSE <<>>
<1>3. /\ serving["snapshot"] # <<>> /\ k.msg # None
      /\ serving' = [serving EXCEPT !["snapshot"] = rest]
      /\ last_snapshot_' = k.msg /\ fresh' = (fresh \/ endpoint_ # None)
      /\ Answer("snapshot", "ok")
      /\ UNCHANGED <<server, snapshot_listener_, loop, backlog, endpoint_>>
  BY DEF HandleSnapshot, OnSnapshot
<1>4. /\ k \in Connections("snapshot") /\ Genuine(app, "snapshot", k) /\ Served("snapshot") <= k.by
      /\ InOrder(app, "snapshot", backlog["snapshot"], <<>>, k.by)
      /\ <<[k EXCEPT !.msg = None]>> \in Seq(Connections("snapshot"))
      /\ InOrder(app, "snapshot", backlog["snapshot"], <<[k EXCEPT !.msg = None]>>, k.by)
  BY Zenon, <1>1, <1>2, <1>3, OrderServed
<1>5. k.by \in Dispatchers /\ k.msg = k.by BY <1>3, <1>4 DEF Frame, Connections, Genuine
<1>6. /\ rest \in Seq(Connections("snapshot")) /\ Len(rest) <= 1
      /\ InOrder(app, "snapshot", backlog["snapshot"], rest, k.by)
  <2>1. /\ <<>> \in Seq(Connections("snapshot")) /\ Len(<<>>) <= 1
        /\ Len(<<[k EXCEPT !.msg = None]>>) <= 1
    OBVIOUS
  <2> QED BY <2>1, <1>4
<1>7. reply' \in [Ports -> [Dispatchers -> {"ok", None}]]
  BY Zenon, <1>3, <1>5 DEF Answer, ServiceInv, ServiceTypeOK
<1>8. Served("snapshot")' = k.by /\ Served("snapshot") = last_snapshot_ BY <1>3, <1>5 DEF Served
<1>9. \A p \in Ports \ {"snapshot"} : Served(p)' = Served(p) BY <1>3 DEF Served
<1>10. backlog' = [backlog EXCEPT !["snapshot"] = backlog["snapshot"]] BY <1>1, <1>3
<1>11. /\ server' \in {"down", "up", "join_vn", "join_snapshot"}
       /\ snapshot_listener_' \in BOOLEAN /\ loop' \subseteq Ports
       /\ endpoint_' \in Dispatchers \cup {None} /\ fresh' \in BOOLEAN
       /\ last_snapshot_' \in Dispatchers \cup {0}
  BY <1>3, <1>5 DEF ServiceInv, ServiceTypeOK
<1> HIDE DEF k, rest
<1>12. ServiceInv'
  BY Zenon, <1>1, <1>3, <1>6, <1>7, <1>8, <1>9, <1>10, <1>11, PortPreserves
<1> QED BY <1>3, <1>4, <1>5, <1>8, <1>12

\* The end of the process forgets all connections.
LEMMA ExitPreserves ==
  ASSUME ServiceInv, Exit
  PROVE  ServiceInv'
<1>1. /\ backlog' = [p \in Ports |-> <<>>] /\ serving' = [p \in Ports |-> <<>>]
      /\ endpoint_' = None /\ last_snapshot_' = 0
  BY DEF Exit
<1>2. ASSUME NEW p \in Ports
      PROVE  /\ backlog'[p] = <<>> /\ serving'[p] = <<>> /\ <<>> \in Seq(Connections(p))
             /\ Len(<<>>) = 0 /\ 0 <= Backlog /\ 0 <= 1
             /\ InOrder(app', p, <<>>, <<>>, 0)
  BY <1>1, DispatchersAssumption DEF InOrder
<1>3. \A p \in Ports : Served(p)' = 0 BY <1>1 DEF Served
<1>4. ServiceTypeOK'
  <2>1. \A p \in Ports : /\ backlog'[p] \in Seq(Connections(p)) /\ Len(backlog'[p]) <= Backlog
                        /\ serving'[p] \in Seq(Connections(p)) /\ Len(serving'[p]) <= 1
    BY Zenon, <1>2
  <2>2. /\ backlog' = [p \in Ports |-> backlog'[p]] /\ serving' = [p \in Ports |-> serving'[p]]
    BY <1>1
  <2>3. reply' \in [Ports -> [Dispatchers -> {"ok", None}]] BY Zenon DEF Exit, ServiceInv, ServiceTypeOK
  <2>4. /\ server' = "down" /\ snapshot_listener_' = FALSE /\ loop' = {} /\ fresh' = FALSE
    BY DEF Exit
  <2> QED BY Zenon, <2>1, <2>2, <2>3, <2>4, <1>1 DEF ServiceTypeOK
<1> QED BY Zenon, <1>2, <1>3, <1>4 DEF ServiceInv, ConnectionsInOrder

\* Every step of the service.
LEMMA ServicePreserves ==
  ASSUME ServiceInv, Service
  PROVE  ServiceInv'
<1>1. UNCHANGED app /\ OnceStarted BY DEF Service, appVars, OnceStarted
<1> USE DEF Ports
<1>2. CASE Accept("vn") \/ ServeFails("vn") \/ Accept("snapshot") \/ ServeFails("snapshot")
  BY <1>1, <1>2, AcceptPreserves
<1>3. CASE HandleRequest BY <1>1, <1>3, HandleRequestPreserves
<1>4. CASE HandleSnapshot BY <1>1, <1>4, HandleSnapshotPreserves
<1>5. CASE Exit BY <1>5, ExitPreserves
<1>6. CASE Start \/ LoopEnds("vn") \/ LoopEnds("snapshot") \/ Expire \/ Stop
  <2>1. UNCHANGED <<backlog, serving, reply, endpoint_, last_snapshot_>>
    BY Zenon, <1>6 DEF Start, LoopEnds, Expire, Stop
  <2>2. /\ server' \in {server, "up", "join_vn"} /\ snapshot_listener_' \in BOOLEAN
        /\ loop' \subseteq Ports /\ fresh' \in BOOLEAN
    BY Zenon, <1>6 DEF Start, StartSnapshotListener, LoopEnds, Expire, Stop, ServiceInv, ServiceTypeOK
  <2>3. ServiceTypeOK' BY Zenon, <2>1, <2>2 DEF ServiceInv, ServiceTypeOK
  <2> QED BY <2>1, <2>3, <1>1, ServiceStays
<1>7. CASE StopVn
  <2>1. /\ backlog["vn"] \in Seq(Connections("vn")) /\ serving["vn"] \in Seq(Connections("vn"))
        /\ Len(serving["vn"]) <= 1 /\ serving = [p \in Ports |-> serving[p]]
        /\ <<>> \in Seq(Connections("vn")) /\ Len(<<>>) <= Backlog
    BY DispatchersAssumption DEF ServiceInv, ServiceTypeOK
  <2>2. InOrder(app, "vn", backlog["vn"], serving["vn"], Served("vn"))
    BY DEF ServiceInv, ConnectionsInOrder
  <2>3. InOrder(app, "vn", <<>>, serving["vn"], Served("vn"))
    <3>1. \A i \in DOMAIN <<>> : FALSE OBVIOUS
    <3> QED BY Zenon, <2>2, <3>1 DEF InOrder
  <2>4. /\ backlog' = [backlog EXCEPT !["vn"] = <<>>]
        /\ serving' = [serving EXCEPT !["vn"] = serving["vn"]] /\ server' = "join_snapshot"
        /\ UNCHANGED <<snapshot_listener_, loop, reply, endpoint_, fresh, last_snapshot_>>
    BY <1>7, <2>1 DEF StopVn
  <2>5. \A p \in Ports : Served(p)' = Served(p) BY <2>4 DEF Served
  <2>6. /\ server' \in {"down", "up", "join_vn", "join_snapshot"}
        /\ snapshot_listener_' \in BOOLEAN /\ loop' \subseteq Ports
        /\ reply' \in [Ports -> [Dispatchers -> {"ok", None}]]
        /\ endpoint_' \in Dispatchers \cup {None} /\ fresh' \in BOOLEAN
        /\ last_snapshot_' \in Dispatchers \cup {0}
    BY Zenon, <2>4 DEF ServiceInv, ServiceTypeOK
  <2> QED BY Zenon, <2>1, <2>3, <2>4, <2>5, <2>6, <1>1, PortPreserves
<1> QED
  BY <1>2, <1>3, <1>4, <1>5, <1>6, <1>7
  DEF Service, VnThread, SnapshotThread, StopListener, StopSnapshots, Crash

\* What the runs do to the service: their calls on connections.
LEMMA PeerPreserves ==
  ASSUME IInv, NEW d \in Dispatchers, OnceStarted,
         \/ UNCHANGED serverVars
         \/ \E ps \in SUBSET Ports : Close(ps, d)
         \/ ClientStep(d) /\ Transfer(d)
         \/ ReportTransfer(d)
         \/ Killed(d)
  PROVE  ServiceInv'
<1> USE DEF IInv
<1>1. CASE UNCHANGED serverVars
  <2>1. ServiceTypeOK' BY Zenon, <1>1 DEF ServiceInv, ServiceTypeOK, serverVars
  <2> QED BY <2>1, <1>1, ServiceStays DEF serverVars
<1>2. CASE \E ps \in SUBSET Ports : Close(ps, d) BY <1>2, ClosePreserves
<1>3. CASE \E p \in Ports : Receive(p, d)
  <2>1. UNCHANGED <<server, snapshot_listener_, loop, backlog, serving, endpoint_, fresh, last_snapshot_>>
    BY <1>3 DEF Receive
  <2>2. reply' \in [Ports -> [Dispatchers -> {"ok", None}]]
    BY <1>3 DEF Receive, ServiceInv, ServiceTypeOK
  <2>3. ServiceTypeOK' BY Zenon, <2>1, <2>2 DEF ServiceInv, ServiceTypeOK
  <2> QED BY <2>1, <2>3, ServiceStays
<1>4. CASE ClientStep(d) /\ Transfer(d)
  <2>1. UNCHANGED app BY <1>4 DEF ClientStep, appVars
  <2>2. Alive(d) BY Zenon, <1>4 DEF Transfer, ProcessInv, RunsInOrder
  <2>3. CASE ex[d] = "connect" /\ Connect("vn", d)
    BY <2>1, <2>2, <2>3, ConnectPreserves DEF Ports
  <2>4. CASE ex[d] = "write" /\ Send("vn", d, request[d])
    <3>1. request[d] = "register" BY Zenon, <2>4 DEF ProcessInv, OnlyRegistrations
    <3>2. Send("vn", d, "register") BY Zenon, <2>4, <3>1
    <3>3. "register" \in Frames("vn") /\ "vn" \in Ports BY DEF Frames, Ports
    <3> QED BY <3>2, <3>3, <2>1, SendPreserves DEF Frame
  <2>5. CASE Receive("vn", d) BY <2>5, <1>3 DEF Ports
  <2> QED BY Zenon, <1>4, <2>3, <2>4, <2>5 DEF Transfer
<1>5. CASE ReportTransfer(d)
  <2>1. UNCHANGED app BY Zenon, <1>5 DEF ReportTransfer, appVars
  <2>2. Alive(d) BY Zenon, <1>5 DEF ReportTransfer, Reporting, ReportLoop, ProcessInv, RunsInOrder
  <2>3. CASE Connect("snapshot", d) BY <2>1, <2>2, <2>3, ConnectPreserves DEF Ports
  <2>4. CASE Send("snapshot", d, d)
    <3>1. d \in Frames("snapshot") /\ "snapshot" \in Ports BY DEF Frames, Ports
    <3> QED BY <3>1, <2>4, <2>1, SendPreserves DEF Frame
  <2>5. CASE Receive("snapshot", d) BY <2>5, <1>3 DEF Ports
  <2> QED BY Zenon, <1>5, <2>3, <2>4, <2>5 DEF ReportTransfer
<1>6. CASE Killed(d)
  <2>1. UNCHANGED <<server, snapshot_listener_, loop, backlog, serving, endpoint_, fresh, last_snapshot_>>
    BY Zenon, <1>6 DEF Killed
  <2>2. reply' \in [Ports -> [Dispatchers -> {"ok", None}]]
    BY Zenon, <1>6 DEF Killed, ServiceInv, ServiceTypeOK
  <2>3. ServiceTypeOK' BY Zenon, <2>1, <2>2 DEF ServiceInv, ServiceTypeOK
  <2> QED BY <2>1, <2>3, ServiceStays
<1> QED BY Zenon, <1>1, <1>2, <1>4, <1>5, <1>6

----------------------------------------------------------------------------
(* The whole *)

\* The steps of run d.
RunAction(d) ==
    \/ StartStep(d) \/ RegistrationStep(d) \/ ClientStep(d)
    \/ ConnectFails(d) /\ UNCHANGED <<appVars, reportVars>>
    \/ ReportStep(d) \/ HttpRequest(d) \/ HttpBuilt(d) \/ ReportConnectFails(d)
    \/ StopBegins(d) \/ StopStep(d) \/ Killed(d) \/ Keepalive(d)

\* A step of a run is one of its calls on connections, or leaves the service alone.
LEMMA RunOnService ==
  ASSUME NEW d \in Dispatchers, RunAction(d)
  PROVE  \/ UNCHANGED serverVars
         \/ \E ps \in SUBSET Ports : Close(ps, d)
         \/ ClientStep(d) /\ Transfer(d)
         \/ ReportTransfer(d)
         \/ Killed(d)
<1>1. /\ {"vn"} \in SUBSET Ports /\ {"snapshot"} \in SUBSET Ports /\ Ports \in SUBSET Ports
  BY DEF Ports
<1>2. CASE StartStep(d) \/ RegistrationStep(d) \/ HttpRequest(d) \/ HttpBuilt(d) \/ StopBegins(d)
  BY Zenon, <1>2
  DEF StartStep, StartServer, StartMonitoring, StartRendezvous, RegistrationStep, RegistrationLoop,
      Registered, HttpRequest, HttpBuilt, StopBegins
<1>3. CASE ClientStep(d) \/ ConnectFails(d)
  BY Zenon, <1>1, <1>3 DEF ClientStep, Publish, Recheck, Interrupted, ConnectFails, GiveUp
<1>4. CASE ReportStep(d) \/ ReportConnectFails(d)
  BY Zenon, <1>1, <1>4
  DEF ReportStep, BuildAndCache, WaitReturns, ReportBegins, PublishSocket, ReportInterrupted,
      ReportConnectFails, TearDown
<1>5. CASE StopStep(d)
  BY Zenon, <1>1, <1>5
  DEF StopStep, CancelClient, CancelReporter, StopMonitoring, JoinRegistration, Unregister, StopServer
<1>6. CASE Keepalive(d) BY Zenon, <1>1, <1>6 DEF Keepalive
<1> QED BY Zenon, <1>2, <1>3, <1>4, <1>5, <1>6 DEF RunAction

\* The initial state satisfies the invariant.
LEMMA InitInv == AppInit => IInv
<1> SUFFICES ASSUME AppInit PROVE IInv OBVIOUS
<1> USE DEF AppInit, Init
<1>1. ProcessTypeOK BY Zenon DEF ProcessTypeOK, ClientTypeOK, AppTypeOK, ReportTypeOK
<1>2. RunsInOrder BY Zenon DEF RunsInOrder
<1>3. OnlyRegistrations BY Zenon DEF OnlyRegistrations
<1>4. MonitoringJoined BY Zenon DEF MonitoringJoined
<1>5. ASSUME NEW p \in Ports
      PROVE  /\ backlog[p] = <<>> /\ serving[p] = <<>> /\ <<>> \in Seq(Connections(p)) /\ Len(<<>>) = 0
             /\ InOrder(app, p, <<>>, <<>>, 0)
  BY DEF InOrder
<1>6. \A p \in Ports : Served(p) = 0 BY Zenon DEF Served
<1>7. ServiceTypeOK
  <2>1. 0 <= Backlog /\ 0 <= 1 BY DispatchersAssumption
  <2>2. \A p \in Ports : /\ backlog[p] \in Seq(Connections(p)) /\ Len(backlog[p]) <= Backlog
                        /\ serving[p] \in Seq(Connections(p)) /\ Len(serving[p]) <= 1
    BY Zenon, <2>1, <1>5
  <2>3. /\ backlog = [p \in Ports |-> backlog[p]] /\ serving = [p \in Ports |-> serving[p]]
        /\ reply \in [Ports -> [Dispatchers -> {"ok", None}]]
    OBVIOUS
  <2> QED BY Zenon, <2>2, <2>3 DEF ServiceTypeOK
<1>8. ConnectionsInOrder BY Zenon, <1>5, <1>6 DEF ConnectionsInOrder
<1> QED BY Zenon, <1>1, <1>2, <1>3, <1>4, <1>7, <1>8 DEF IInv, ProcessInv, ServiceInv

\* Every step preserves it.
LEMMA NextPreserves == IInv /\ [Next]_vars => IInv'
<1> SUFFICES ASSUME IInv, [Next]_vars PROVE IInv' OBVIOUS
<1>1. ASSUME NEW d \in Dispatchers, RunAction(d) PROVE IInv'
  <2>1. CASE Keepalive(d)
    <3>1. UNCHANGED <<clientVars, appVars, reportVars>> BY <2>1 DEF Keepalive
    <3>2. ProcessInv' /\ OnceStarted BY <3>1, ProcessStays DEF IInv
    <3> QED BY Zenon, <3>2, <1>1, RunOnService, PeerPreserves DEF IInv
  <2>2. CASE ~Keepalive(d)
    <3>1. ProcessInv' /\ OnceStarted
      BY <1>1, <2>2, ExchangePreserves, MonitoringPreserves, StartPreserves, StopPreserves
      DEF RunAction, ExchangeStep, MonitoringStep, IInv, ServiceInv
    <3> QED BY <3>1, <1>1, RunOnService, PeerPreserves DEF IInv
  <2> QED BY <2>1, <2>2
<1>2. ASSUME Service \/ UNCHANGED vars PROVE IInv'
  <2>1. UNCHANGED <<clientVars, appVars, reportVars>> BY <1>2 DEF Service, vars
  <2>2. ProcessInv' /\ OnceStarted BY <2>1, ProcessStays DEF IInv
  <2>3. CASE Service BY <2>2, <2>3, ServicePreserves DEF IInv
  <2>4. CASE UNCHANGED vars
    <3>1. ServiceTypeOK' BY Zenon, <2>4 DEF IInv, ServiceInv, ServiceTypeOK, vars, serverVars
    <3> QED BY <3>1, <2>2, <2>4, ServiceStays DEF IInv, vars, serverVars
  <2> QED BY <1>2, <2>3, <2>4
<1> QED BY Zenon, <1>1, <1>2 DEF Next, RunAction

\* The registered endpoint and the snapshot only move on, while the process lives.
LEMMA ViewMovesOn ==
  ASSUME IInv, Next, server = "up", server' = "up"
  PROVE  /\ last_snapshot_ <= last_snapshot_'
         /\ endpoint_ # None => endpoint_' >= endpoint_
<1>1. last_snapshot_ \in Nat /\ (endpoint_ # None => endpoint_ \in Nat)
  BY DispatchersAssumption DEF IInv, ServiceInv, ServiceTypeOK
<1>2. CASE UNCHANGED <<endpoint_, last_snapshot_>> BY <1>1, <1>2
<1>3. ASSUME NEW d \in Dispatchers, RunAction(d) PROVE UNCHANGED <<endpoint_, last_snapshot_>>
  <2>1. \/ UNCHANGED serverVars
        \/ \E ps \in SUBSET Ports : Close(ps, d)
        \/ ClientStep(d) /\ Transfer(d)
        \/ ReportTransfer(d)
        \/ Killed(d)
    BY <1>3, RunOnService
  <2> QED BY Zenon, <2>1 DEF serverVars, Close, Transfer, Connect, Send, Receive, ReportTransfer, Killed
<1>4. CASE Service
  <2>1. UNCHANGED app BY <1>4 DEF Service, appVars
  <2>2. CASE HandleRequest
    <3>1. UNCHANGED last_snapshot_ BY <2>2 DEF HandleRequest
    <3> QED BY <3>1, <2>1, <2>2, <1>1, HandleRequestPreserves DEF IInv
  <2>3. CASE HandleSnapshot
    <3>1. UNCHANGED endpoint_ BY <2>3 DEF HandleSnapshot
    <3> QED BY <3>1, <2>1, <2>3, <1>1, HandleSnapshotPreserves DEF IInv
  <2>4. CASE ~HandleRequest /\ ~HandleSnapshot
    <3>1. UNCHANGED <<endpoint_, last_snapshot_>>
      BY Zenon, <1>4, <2>4
      DEF Service, Start, VnThread, SnapshotThread, Accept, LoopEnds, ServeFails, Expire, Stop,
          StopListener, StopVn, StopSnapshots, Crash, Exit
    <3> QED BY <3>1, <1>2
  <2> QED BY <2>2, <2>3, <2>4
<1> QED BY Zenon, <1>2, <1>3, <1>4 DEF Next, RunAction

\* The inductive invariant of the service and of the dispatcher's runs.
THEOREM RendezvousInvariant == Spec => []IInv
  BY InitInv, NextPreserves, PTL DEF Spec

\* Every reachable state is well typed: no port has more than one connection in
\* handle_connection, whatever the runs of the dispatcher do.
THEOREM RendezvousTypes == Spec => []TypeOK
<1>1. IInv => TypeOK BY DEF IInv, ProcessInv, ServiceInv, TypeOK
<1> QED BY <1>1, RendezvousInvariant, PTL

\* DispatcherApp::stop never takes the transport server down while the report
\* thread or an HTTP handler builds a snapshot of its sessions.
THEOREM StoppedServerIsNotRead == Spec => []NoBuildOnStoppedServer
<1>1. IInv => NoBuildOnStoppedServer
  BY DEF IInv, ProcessInv, MonitoringJoined, NoBuildOnStoppedServer, Building
<1> QED BY <1>1, RendezvousInvariant, PTL

\* While the rendezvous process lives, neither the registered endpoint nor the
\* last snapshot goes back to an earlier run of the dispatcher, for any number
\* of runs and any backlog.
THEOREM ViewNeverGoesBack == Spec => ServedViewNeverGoesBack
<1>1. IInv /\ [Next]_vars =>
        [server = "up" /\ server' = "up" =>
            /\ last_snapshot_ <= last_snapshot_'
            /\ endpoint_ # None => endpoint_' >= endpoint_]_vars
  BY ViewMovesOn
<1> QED BY <1>1, RendezvousInvariant, PTL DEF Spec, ServedViewNeverGoesBack
=============================================================================
