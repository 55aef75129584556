--------------------------- MODULE WorkerSession ---------------------------
(***************************************************************************)
(* One worker process (src/worker): the control thread, which runs         *)
(* WorkerSession::start() and below it connect() and run_loop() of the     *)
(* runtime, and the thread of the user interface, which calls              *)
(* start_runtime, pause_runtime, disconnect_runtime and shutdown.  The two *)
(* share atomic flags and the socket; there is no lock around a decision,  *)
(* so every read or write the other thread can get between is an action.   *)
(* BlockingRuntime and AsyncRuntime take the same steps at this level.     *)
(***************************************************************************)
EXTENDS Naturals

CONSTANTS Modes,        \* the settings of rendezvous_opts to consider
          Endpoints,    \* where a dispatcher that registers may listen
          Configured,   \* the host and port of the worker's options
          MaxPresses,   \* bound on the buttons the user presses
          MaxMoves      \* bound on the dispatcher's moves

ASSUME ModesAssumption == Modes \subseteq {"off", "on", "misconfigured"}
ASSUME EndpointsAssumption == Configured \notin Endpoints /\ "none" \notin Endpoints \cup {Configured}
ASSUME BoundsAssumption == MaxPresses \in Nat /\ MaxMoves \in Nat

VARIABLES
    rendezvous,             \* the setting: "off", "on" or "misconfigured"
    pc,                     \* where the control thread is
    rearm,                  \* discovery follows a lost connection
    start_requested_, disconnect_requested_, shutdown_requested_,
    connection_status_,
    host_,                  \* where runtime_ connects to
    client,                 \* rendezvous_client_: "none", "ready", "cancelled"
    pause_requested_,       \* of the runtime, as the next three
    rt_disconnect_,         \* the runtime's own disconnect_requested_
    socket_,                \* "null", "closed", "open" (a descriptor), "connected"
    sock_shutdown_,         \* shutdown_requested_ of that socket
    ui,                     \* where the user interface is in a call
    ui_runtime,             \* the call's runtime: "current" or "old"
    presses,
    request,                \* the user's last request: "start", "pause",
                            \* "disconnect", "held" (it met run_loop) (history)
    dispatcher,             \* where the dispatcher listens, or "none"
    moves

flags   == <<start_requested_, disconnect_requested_, shutdown_requested_>>
runtime == <<pause_requested_, rt_disconnect_, socket_, sock_shutdown_>>
user    == <<ui, ui_runtime, presses, request>>
env     == <<rendezvous, dispatcher, moves>>
vars == <<pc, rearm, flags, connection_status_, host_, client, runtime, user, env>>

\* Without rendezvous the dispatcher can only be where the options say.
Places == IF rendezvous = "on" THEN Endpoints ELSE {Configured}

Init ==
    /\ pc = "start" /\ rearm = FALSE
    /\ start_requested_ = TRUE
    /\ disconnect_requested_ = FALSE
    /\ shutdown_requested_ = FALSE
    /\ connection_status_ = "Disconnected"
    /\ host_ = Configured
    /\ client = "none"
    /\ pause_requested_ = FALSE /\ rt_disconnect_ = FALSE
    /\ socket_ = "null" /\ sock_shutdown_ = FALSE
    /\ ui = "idle" /\ ui_runtime = "current"
    /\ presses = 0 /\ request = "start"
    /\ rendezvous \in Modes
    /\ dispatcher \in Places \cup {"none"} /\ moves = 0

\* The control thread goes from one place to another.
Go(from, to) == pc = from /\ pc' = to

\* runtime_->is_connected(): the socket has a descriptor.
is_connected == socket_ \in {"open", "connected"}

\* close() of a socket that exists.
Closed(s) == IF s = "null" THEN "null" ELSE "closed"

-----------------------------------------------------------------------------
(* start() up to its loop, and discovery.                                  *)

\* The configuration is validated and the client created; without a client
\* try_discover_dispatcher returns Disabled at once.
Start ==
    /\ pc = "start"
    /\ CASE rendezvous = "off" ->
              /\ pc' = "while"
              /\ UNCHANGED <<shutdown_requested_, connection_status_, client>>
         [] rendezvous = "misconfigured" ->
              /\ pc' = "while"
              /\ shutdown_requested_' = TRUE
              /\ connection_status_' = "Error"
              /\ UNCHANGED client
         [] rendezvous = "on" ->
              /\ pc' = "discover"
              /\ client' = "ready"
              /\ connection_status_' = "Discovering"
              /\ UNCHANGED shutdown_requested_
    /\ UNCHANGED <<rearm, start_requested_, disconnect_requested_, host_, runtime, user, env>>

\* The head of the discovery loop, and the sleep of its end: both return
\* Cancelled when a flag is set.
Discover ==
    /\ pc \in {"discover", "backoff"}
    /\ pc' = IF shutdown_requested_ \/ disconnect_requested_ THEN "cancelled"
             ELSE IF pc = "backoff" THEN "discover" ELSE "exchange"
    /\ UNCHANGED <<rearm, flags, connection_status_, host_, client, runtime, user, env>>

\* exchange() begins; it fails at once on a cancelled client.
Exchange ==
    /\ pc = "exchange"
    /\ pc' = IF client = "cancelled" THEN "backoff" ELSE "answer"
    /\ UNCHANGED <<rearm, flags, connection_status_, host_, client, runtime, user, env>>

\* No answer, no dispatcher, or a stale or invalid endpoint.
AnswerUseless ==
    /\ Go("answer", "backoff")
    /\ UNCHANGED <<rearm, flags, connection_status_, host_, client, runtime, user, env>>

\* Places of the user interface at which it has read runtime_.
Holding == {"flag", "close", "quit_socket", "quit_close"}

\* A live endpoint; one that differs from host_ gets a new runtime, and a
\* call of the user interface may still hold the old one.
AnswerFound ==
    /\ Go("answer", IF rearm THEN "rearm" ELSE "while")
    /\ dispatcher # "none"
    /\ host_' = dispatcher
    /\ IF dispatcher = host_
       THEN UNCHANGED <<runtime, ui_runtime>>
       ELSE /\ pause_requested_' = FALSE /\ rt_disconnect_' = FALSE
            /\ socket_' = "null" /\ sock_shutdown_' = FALSE
            /\ ui_runtime' = IF ui \in Holding THEN "old" ELSE ui_runtime
    /\ UNCHANGED <<rearm, flags, connection_status_, client, ui, presses, request, env>>

\* Discovery was cancelled: a disconnect is over, a shutdown ends the loop.
Cancelled ==
    /\ Go("cancelled", "while")
    /\ IF disconnect_requested_ /\ ~shutdown_requested_
       THEN /\ disconnect_requested_' = FALSE
            /\ start_requested_' = FALSE
            /\ connection_status_' = "Disconnected"
       ELSE UNCHANGED <<disconnect_requested_, start_requested_, connection_status_>>
    /\ UNCHANGED <<rearm, shutdown_requested_, host_, client, runtime, user, env>>

-----------------------------------------------------------------------------
(* The control loop: connect.                                              *)

While ==
    /\ pc = "while"
    /\ pc' = IF shutdown_requested_ THEN "release" ELSE "need"
    /\ UNCHANGED <<rearm, flags, connection_status_, host_, client, runtime, user, env>>

\* need_connection and start_requested_.
Need ==
    /\ pc = "need"
    /\ IF start_requested_ /\ ~is_connected
       THEN pc' = "socket" /\ connection_status_' = "Connecting"
       ELSE pc' = "run" /\ UNCHANGED connection_status_
    /\ UNCHANGED <<rearm, flags, host_, client, runtime, user, env>>

\* connect(): a socket is created unless there is one, and stored; an open
\* one is closed.
CreateSocket ==
    /\ \/ /\ Go("socket", "open")
          /\ socket_' = "closed"
          /\ IF socket_ = "null" THEN sock_shutdown_' = FALSE ELSE UNCHANGED sock_shutdown_
       \/ /\ Go("socket", "failed")
          /\ socket_ = "null"
          /\ UNCHANGED <<socket_, sock_shutdown_>>
    /\ UNCHANGED <<rearm, flags, connection_status_, host_, client,
                   pause_requested_, rt_disconnect_, user, env>>

\* sock->connect() joins the network and opens a descriptor, or throws.
OpenDescriptor ==
    /\ \/ Go("open", "connecting") /\ socket_' = "open"
       \/ Go("open", "failed") /\ UNCHANGED socket_
    /\ UNCHANGED <<rearm, flags, connection_status_, host_, client,
                   pause_requested_, rt_disconnect_, sock_shutdown_, user, env>>

\* The connection is made.
ConnectSucceeds ==
    /\ Go("connecting", "greeting")
    /\ socket_ = "open"
    /\ dispatcher = host_
    /\ socket_' = "connected"
    /\ UNCHANGED <<rearm, flags, connection_status_, host_, client,
                   pause_requested_, rt_disconnect_, sock_shutdown_, user, env>>

\* The connection is refused, or the socket was shut down or closed; the
\* descriptor stays as it is.
ConnectFails ==
    /\ Go("connecting", "failed")
    /\ UNCHANGED <<rearm, flags, connection_status_, host_, client, runtime, user, env>>

\* send_worker_greeting, which a socket that was shut down refuses.
Greet ==
    /\ \/ /\ Go("greeting", "run")
          /\ socket_ = "connected" /\ ~sock_shutdown_
          /\ connection_status_' = "Connected"
          /\ UNCHANGED socket_
       \/ /\ Go("greeting", "failed")
          /\ socket_' = "closed"
          /\ UNCHANGED connection_status_
    /\ UNCHANGED <<rearm, flags, host_, client, pause_requested_, rt_disconnect_,
                   sock_shutdown_, user, env>>

\* connect() returned false: leave on shutdown, or sleep and try again
\* without a look at disconnect_requested_.
Failed ==
    /\ pc = "failed"
    /\ pc' = IF shutdown_requested_ THEN "release" ELSE "while"
    /\ UNCHANGED <<rearm, flags, connection_status_, host_, client, runtime, user, env>>

-----------------------------------------------------------------------------
(* The control loop: run_loop.                                             *)

\* The start request is consumed when there is a connection.
Run ==
    /\ pc = "run"
    /\ IF start_requested_ /\ is_connected
       THEN /\ pc' = "clear"
            /\ start_requested_' = FALSE
            /\ connection_status_' = "Running"
       ELSE pc' = "check" /\ UNCHANGED <<start_requested_, connection_status_>>
    /\ UNCHANGED <<rearm, disconnect_requested_, shutdown_requested_, host_, client,
                   runtime, user, env>>

\* run_loop() begins: pending requests are forgotten.
ClearRequests ==
    /\ Go("clear", "loop")
    /\ pause_requested_' = FALSE
    /\ rt_disconnect_' = FALSE
    /\ UNCHANGED <<rearm, flags, connection_status_, host_, client, socket_,
                   sock_shutdown_, user, env>>

\* The head of the loop; run_loop() returns true when it is paused.
CheckPause ==
    /\ pc = "loop"
    /\ pause_requested_' = FALSE
    /\ IF pause_requested_
       THEN pc' = "check" /\ connection_status_' = "Paused"
       ELSE pc' = "read" /\ UNCHANGED connection_status_
    /\ UNCHANGED <<rearm, flags, host_, client, rt_disconnect_, socket_, sock_shutdown_,
                   user, env>>

Online == socket_ = "connected" /\ dispatcher = host_

\* A task is read, and processed; after the answer is written the loop goes on.
ReadTask ==
    /\ Go("read", "write")
    /\ Online
    /\ UNCHANGED <<rearm, flags, connection_status_, host_, client, runtime, user, env>>

WriteResponse ==
    /\ Go("write", "loop")
    /\ Online
    /\ UNCHANGED <<rearm, flags, connection_status_, host_, client, runtime, user, env>>

\* The dispatcher or the socket is gone, or the socket was shut down (which
\* blocking calls notice even before it is closed).
IoFails ==
    /\ pc \in {"read", "write"}
    /\ pc' = "error"
    /\ ~Online \/ sock_shutdown_
    /\ UNCHANGED <<rearm, flags, connection_status_, host_, client, runtime, user, env>>

\* The skill is unknown or the task cannot be processed.
ProcessingFails ==
    /\ Go("write", "error")
    /\ UNCHANGED <<rearm, flags, connection_status_, host_, client, runtime, user, env>>

\* Mutant: a failed run_loop() always counts as a lost connection.
ErrorIsLoss ==
    /\ Go("error", "lost")
    /\ UNCHANGED <<rearm, flags, connection_status_, host_, client, runtime, user, env>>

\* run_loop() returned false: a disconnect by the user, or a lost connection.
Error ==
    /\ pc = "error"
    /\ IF rt_disconnect_
       THEN /\ pc' = "while"
            /\ disconnect_requested_' = FALSE
            /\ start_requested_' = FALSE
            /\ connection_status_' = "Disconnected"
       ELSE pc' = "lost" /\ UNCHANGED <<disconnect_requested_, start_requested_, connection_status_>>
    /\ UNCHANGED <<rearm, shutdown_requested_, host_, client, runtime, user, env>>

\* The dirty socket is closed and the dispatcher looked for again.
Lost ==
    /\ pc = "lost"
    /\ rt_disconnect_' = TRUE
    /\ socket_' = Closed(socket_)
    /\ IF client = "none"
       THEN /\ pc' = "rearm"
            /\ connection_status_' = "Disconnected"
            /\ UNCHANGED rearm
       ELSE /\ pc' = "discover"
            /\ connection_status_' = "Discovering"
            /\ rearm' = TRUE
    /\ UNCHANGED <<flags, host_, client, pause_requested_, sock_shutdown_, user, env>>

\* Mutant: nobody asks for a new connection.
RearmForgotten ==
    /\ Go("rearm", "while")
    /\ UNCHANGED <<rearm, flags, connection_status_, host_, client, runtime, user, env>>

\* The outer loop is made to connect again.
Rearm ==
    /\ Go("rearm", "while")
    /\ start_requested_' = TRUE
    /\ UNCHANGED <<rearm, disconnect_requested_, shutdown_requested_, connection_status_,
                   host_, client, runtime, user, env>>

\* The end of a turn: a disconnect request, or an idle wait.
CheckDisconnect ==
    /\ Go("check", "while")
    /\ IF disconnect_requested_
       THEN /\ rt_disconnect_' = TRUE
            /\ socket_' = Closed(socket_)
            /\ disconnect_requested_' = FALSE
            /\ start_requested_' = FALSE
            /\ connection_status_' = "Disconnected"
       ELSE UNCHANGED <<rt_disconnect_, socket_, disconnect_requested_, start_requested_,
                        connection_status_>>
    /\ UNCHANGED <<rearm, shutdown_requested_, host_, client, pause_requested_,
                   sock_shutdown_, user, env>>

\* After the loop: the socket is destroyed, and a fatal error stays visible.
Release ==
    /\ Go("release", "done")
    /\ socket_' = "null" /\ sock_shutdown_' = FALSE
    /\ connection_status_' = IF connection_status_ = "Error" THEN "Error" ELSE "Stopped"
    /\ UNCHANGED <<rearm, flags, host_, client, pause_requested_, rt_disconnect_, user, env>>

Control ==
    \/ Start \/ Discover \/ Exchange \/ AnswerUseless \/ AnswerFound \/ Cancelled
    \/ While \/ Need \/ CreateSocket \/ OpenDescriptor \/ ConnectSucceeds \/ ConnectFails
    \/ Greet \/ Failed \/ Run \/ ClearRequests \/ CheckPause \/ ReadTask \/ WriteResponse
    \/ IoFails \/ ProcessingFails \/ Error \/ Lost \/ Rearm \/ CheckDisconnect \/ Release

-----------------------------------------------------------------------------
(* The buttons of the user interface.  Its thread makes one call at a time *)
(* and stays until start() has returned.                                   *)

Press(next) ==
    /\ ui = "idle" /\ pc # "done"
    /\ presses < MaxPresses
    /\ presses' = presses + 1
    /\ ui' = next
    /\ UNCHANGED ui_runtime

start_runtime ==
    /\ Press("idle")
    /\ start_requested_' = TRUE
    /\ request' = "start"
    /\ UNCHANGED <<pc, rearm, disconnect_requested_, shutdown_requested_, connection_status_,
                   host_, client, runtime, env>>

pause_runtime ==
    /\ Press("idle")
    /\ pause_requested_' = TRUE
    /\ request' = IF request = "start" THEN "pause" ELSE request
    /\ UNCHANGED <<pc, rearm, flags, connection_status_, host_, client, rt_disconnect_,
                   socket_, sock_shutdown_, env>>

disconnect_runtime ==
    /\ Press("cancel")
    /\ disconnect_requested_' = TRUE
    /\ request' = "disconnect"
    /\ UNCHANGED <<pc, rearm, start_requested_, shutdown_requested_, connection_status_,
                   host_, client, runtime, env>>

\* cancel() of the rendezvous client, if there is one yet; then runtime_ is read.
CancelDiscovery ==
    /\ \/ ui = "cancel" /\ ui' = "flag"
       \/ ui = "quit_cancel" /\ ui' = "quit_socket"
    /\ client' = IF client = "none" THEN "none" ELSE "cancelled"
    /\ ui_runtime' = "current"
    /\ UNCHANGED <<pc, rearm, flags, connection_status_, host_, runtime, presses, request, env>>

\* disconnect() of the runtime: its flag.  A request that finds run_loop at
\* work, or just returned, is sure to be seen.
DisconnectFlag ==
    /\ ui = "flag" /\ ui' = "close"
    /\ rt_disconnect_' = (rt_disconnect_ \/ ui_runtime = "current")
    /\ request' = IF ui_runtime = "current" /\ pc \in {"loop", "read", "write", "error"}
                  THEN "held" ELSE request
    /\ UNCHANGED <<pc, rearm, flags, connection_status_, host_, client, pause_requested_,
                   socket_, sock_shutdown_, ui_runtime, presses, env>>

\* close() of the socket, at the end of disconnect() and of shutdown().
CloseSocket ==
    /\ ui \in {"close", "quit_close"} /\ ui' = "idle"
    /\ socket_' = IF ui_runtime = "current" THEN Closed(socket_) ELSE socket_
    /\ UNCHANGED <<pc, rearm, flags, connection_status_, host_, client, pause_requested_,
                   rt_disconnect_, sock_shutdown_, ui_runtime, presses, request, env>>

\* Mutant: shutdown() leaves the socket to the control thread.
ShutdownForgetsSocket ==
    /\ ui = "quit_socket" /\ ui' = "idle"
    /\ sock_shutdown_' = (socket_ # "null")
    /\ UNCHANGED <<pc, rearm, flags, connection_status_, host_, client, pause_requested_,
                   rt_disconnect_, socket_, ui_runtime, presses, request, env>>

shutdown ==
    /\ Press("quit_flag")
    /\ shutdown_requested_' = TRUE
    /\ UNCHANGED <<pc, rearm, start_requested_, disconnect_requested_, connection_status_,
                   host_, client, runtime, request, env>>

ShutdownDisconnects ==
    /\ ui = "quit_flag" /\ ui' = "quit_cancel"
    /\ disconnect_requested_' = TRUE
    /\ UNCHANGED <<pc, rearm, start_requested_, shutdown_requested_, connection_status_,
                   host_, client, runtime, ui_runtime, presses, request, env>>

\* shutdown() of the runtime: nothing without a socket.
ShutdownSocket ==
    /\ ui = "quit_socket"
    /\ IF ui_runtime = "current" /\ socket_ # "null"
       THEN ui' = "quit_close" /\ sock_shutdown_' = TRUE
       ELSE ui' = "idle" /\ UNCHANGED sock_shutdown_
    /\ UNCHANGED <<pc, rearm, flags, connection_status_, host_, client, pause_requested_,
                   rt_disconnect_, socket_, ui_runtime, presses, request, env>>

InCall == CancelDiscovery \/ DisconnectFlag \/ CloseSocket \/ ShutdownDisconnects \/ ShutdownSocket

\* The dispatcher goes away, moves or comes back.
Move ==
    /\ moves < MaxMoves
    /\ moves' = moves + 1
    /\ dispatcher' \in (Places \cup {"none"}) \ {dispatcher}
    /\ UNCHANGED <<rendezvous, pc, rearm, flags, connection_status_, host_, client, runtime, user>>

ComeBack ==
    /\ dispatcher = "none"
    /\ dispatcher' \in Places
    /\ UNCHANGED <<moves, rendezvous, pc, rearm, flags, connection_status_, host_, client, runtime, user>>

Done == pc = "done" /\ UNCHANGED vars

Next ==
    \/ Control
    \/ start_runtime \/ pause_runtime \/ disconnect_runtime \/ shutdown \/ InCall
    \/ Move \/ ComeBack \/ Done

Spec == Init /\ [][Next]_vars

-----------------------------------------------------------------------------
(* Fairness: both threads keep running, and calls on a socket that is      *)
(* closed, shut down or has lost its peer return.  A read may wait for a   *)
(* task for ever.  A dispatcher that went away comes back, and attempts to *)
(* reach one that is there do not fail for ever.                           *)

Working ==
    \/ Start \/ Discover \/ Exchange \/ AnswerUseless \/ Cancelled \/ While \/ Need
    \/ CreateSocket \/ OpenDescriptor \/ ConnectFails \/ Greet \/ Failed \/ Run
    \/ ClearRequests \/ CheckPause \/ WriteResponse \/ IoFails \/ Error \/ Lost \/ Rearm
    \/ CheckDisconnect \/ Release

\* connect() gets as far as a connection and its greeting.
Reaching == CreateSocket /\ pc' = "open"
Opening == OpenDescriptor /\ pc' = "connecting"
Greeting == Greet /\ pc' = "run"

Fairness ==
    /\ WF_vars(Working) /\ WF_vars(InCall) /\ WF_vars(ComeBack)
    /\ SF_vars(AnswerFound) /\ SF_vars(ConnectSucceeds)
    /\ SF_vars(Reaching) /\ SF_vars(Opening) /\ SF_vars(Greeting)

FairSpec == Spec /\ Fairness

-----------------------------------------------------------------------------
(* Properties.                                                             *)

Running == {"loop", "read", "write", "error"}
Discovering == {"discover", "exchange", "answer", "backoff"}
Connecting == {"socket", "open", "connecting", "greeting", "failed"}
ControlPlaces == Running \cup Discovering \cup Connecting \cup
    {"start", "cancelled", "while", "need", "run", "clear", "lost", "rearm", "check", "release", "done"}

\* The values of the variables: of the control thread, ...
ControlTypeOK ==
    /\ pc \in ControlPlaces /\ rearm \in BOOLEAN
    /\ start_requested_ \in BOOLEAN /\ disconnect_requested_ \in BOOLEAN
    /\ shutdown_requested_ \in BOOLEAN
    /\ connection_status_ \in {"Disconnected", "Discovering", "Connecting", "Connected",
                               "Running", "Paused", "Stopped", "Error"}
    /\ host_ \in Endpoints \cup {Configured}
    /\ client \in {"none", "ready", "cancelled"}

\* ... of the runtime, ...
RuntimeTypeOK ==
    /\ pause_requested_ \in BOOLEAN /\ rt_disconnect_ \in BOOLEAN
    /\ socket_ \in {"null", "closed", "open", "connected"} /\ sock_shutdown_ \in BOOLEAN

\* ... of the user interface, and of the rest.
UserTypeOK ==
    /\ ui \in {"idle", "cancel", "quit_flag", "quit_cancel"} \cup Holding
    /\ ui_runtime \in {"current", "old"}
    /\ presses \in 0..MaxPresses
    /\ request \in {"start", "pause", "disconnect", "held"}

EnvTypeOK ==
    /\ rendezvous \in Modes
    /\ dispatcher \in Places \cup {"none"}
    /\ moves \in 0..MaxMoves

TypeOK == ControlTypeOK /\ RuntimeTypeOK /\ UserTypeOK /\ EnvTypeOK

\* A disconnect that meets the running loop is obeyed: whatever the control
\* thread is doing, and in whatever order the flags and the failing read are
\* seen, it does not connect again until the user asks for a start.
HeldUntilStart == request = "held" => pc \notin Connecting \cup {"clear"}

\* The status the user is shown as final is true: "Stopped" or "Error" with
\* start() returned means that the socket, and with it the network lease, is
\* gone, on every path out of the loop; and it is "Error" exactly when the
\* rendezvous configuration was incomplete.
StoppedIsReleased ==
    pc = "done" =>
        /\ socket_ = "null" /\ shutdown_requested_
        /\ connection_status_ = IF rendezvous = "misconfigured" THEN "Error" ELSE "Stopped"

\* A socket that shutdown() has found and closed never carries a task again,
\* although connect() may reuse it and open a new descriptor.
ShutDownForGood ==
    sock_shutdown_ /\ ui # "quit_close" => ~(pc \in {"read", "write"} /\ socket_ = "connected")

\* A shutdown() that found a socket ends start(), whatever the control thread
\* was blocked in.
ShutdownInterrupts == sock_shutdown_ ~> pc = "done"

\* A disconnect that met the running loop closes the connection and leaves
\* the worker idle, unless the user asks for something else meanwhile.
HeldIsIdle ==
    request = "held" ~>
        \/ request # "held" \/ shutdown_requested_
        \/ pc = "check" /\ ~start_requested_ /\ ~is_connected /\ connection_status_ = "Disconnected"

\* A lost connection is repaired, also when the dispatcher moved: the loop
\* runs again on a connection, unless the user pauses, disconnects or shuts
\* down, or has cancelled the rendezvous client before.
LossIsRepaired ==
    pc = "lost" ~> \/ pc \in Running /\ socket_ = "connected"
                   \/ connection_status_ = "Paused"
                   \/ disconnect_requested_ \/ shutdown_requested_ \/ client = "cancelled"

-----------------------------------------------------------------------------
(* What comments and documents say and the code does not do.               *)

\* WorkerSession.cpp: after a disconnect "we do not reconnect until user
\* requests start": no connect() begins once disconnect_runtime() has returned.
NoReconnectUntilStart ==
    [][pc = "need" /\ pc' = "socket" /\ ui = "idle" => request # "disconnect"]_vars

\* README.md of the session: stopping is "safe to call regardless of the
\* current state".
ShutdownEnds == shutdown_requested_ ~> pc = "done"
=============================================================================
