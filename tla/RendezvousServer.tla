-------------------------- MODULE RendezvousServer --------------------------
(***************************************************************************)
(* The rendezvous process (src/services/rendezvous): RendezvousServer with *)
(* its VN listener, the SnapshotListener on a port of its own, and what    *)
(* the HTTP dashboard serves.  Each port has one thread that accepts a     *)
(* connection, serves it to its end and accepts the next.                  *)
(*                                                                         *)
(* A connection is a record of the peer, the frame it has sent and nobody  *)
(* has read yet, and whether its end is still open.  Dispatchers act on    *)
(* connections with Connect, Send, Receive and Close.                      *)
(***************************************************************************)
EXTENDS Naturals, Sequences

CONSTANTS Dispatchers,   \* successive runs of the dispatcher: 1..n, in order
          None,
          Backlog,       \* bound on connections waiting to be accepted
          MayExit        \* whether the service stops or crashes in this instance

VARIABLES
    server,          \* running_ and how far stop() has come
    snapshot_listener_,
    loop,            \* ports whose accept thread is in its loop
    backlog,         \* connections not yet accepted
    serving,         \* the connection in handle_connection, if any
    reply,           \* the answer a peer has not read yet
    endpoint_,       \* the registered dispatcher
    fresh,           \* last_seen is at most ttl_seconds ago
    last_snapshot_   \* number of the snapshot, 0 for none

serverVars == <<server, snapshot_listener_, loop, backlog, serving, reply,
                endpoint_, fresh, last_snapshot_>>

Ports == {"vn", "snapshot"}

Init ==
    /\ server = "down"
    /\ snapshot_listener_ = FALSE
    /\ loop = {}
    /\ backlog = [p \in Ports |-> <<>>]
    /\ serving = [p \in Ports |-> <<>>]
    /\ reply = [p \in Ports |-> [c \in Dispatchers |-> None]]
    /\ endpoint_ = None
    /\ fresh = FALSE
    /\ last_snapshot_ = 0

----------------------------------------------------------------------------
(* Connections, as the peers use them *)

\* Each listener's own running_ flag; stop() clears them one after the other.
Running(p) ==
    \/ server = "up"
    \/ p = "snapshot" /\ server = "join_vn"

Listening(p) == p \in loop

\* The peer's end of its connection, wherever the connection is.
OpenIn(s, c) == \E i \in DOMAIN s : s[i].by = c /\ s[i].open
Connected(p, c) == OpenIn(backlog[p], c) \/ OpenIn(serving[p], c)

\* A frame of the peer c, or the end of its connection, as the listener finds it.
Sent(s, c, m) ==
    [i \in DOMAIN s |-> IF s[i].by = c /\ s[i].open THEN [s[i] EXCEPT !.msg = m] ELSE s[i]]
Shut(s, c) ==
    [i \in DOMAIN s |-> IF s[i].by = c THEN [s[i] EXCEPT !.open = FALSE] ELSE s[i]]

Connect(p, c) ==
    /\ Listening(p)
    /\ Len(backlog[p]) < Backlog
    /\ backlog' = [backlog EXCEPT ![p] = Append(@, [by |-> c, msg |-> None, open |-> TRUE])]
    /\ UNCHANGED <<server, snapshot_listener_, loop, serving, reply, endpoint_,
                   fresh, last_snapshot_>>

Send(p, c, m) ==
    /\ Connected(p, c)
    /\ backlog' = [backlog EXCEPT ![p] = Sent(@, c, m)]
    /\ serving' = [serving EXCEPT ![p] = Sent(@, c, m)]
    /\ UNCHANGED <<server, snapshot_listener_, loop, reply, endpoint_, fresh,
                   last_snapshot_>>

Receive(p, c) ==
    /\ reply[p][c] # None
    /\ reply' = [reply EXCEPT ![p][c] = None]
    /\ UNCHANGED <<server, snapshot_listener_, loop, backlog, serving, endpoint_,
                   fresh, last_snapshot_>>

\* Broken: neither an answer to read nor a connection to read it from.
Broken(p, c) == ~Connected(p, c) /\ reply[p][c] = None

\* The peer's end is closed on ports ps; what it has sent stays readable.
Close(ps, c) ==
    /\ backlog' = [p \in Ports |->
                      IF p \in ps THEN Shut(backlog[p], c) ELSE backlog[p]]
    /\ serving' = [p \in Ports |->
                      IF p \in ps THEN Shut(serving[p], c) ELSE serving[p]]
    /\ reply' = [p \in Ports |->
                    IF p \in ps THEN [reply[p] EXCEPT ![c] = None] ELSE reply[p]]
    /\ UNCHANGED <<server, snapshot_listener_, loop, endpoint_, fresh, last_snapshot_>>

----------------------------------------------------------------------------
(* RendezvousServer: start, the accept loops, stop *)

\* SnapshotListener::start(): it may fail to listen, which is not fatal.
StartSnapshotListener ==
    /\ snapshot_listener_' \in BOOLEAN
    /\ loop' = IF snapshot_listener_' THEN Ports ELSE {"vn"}

\* start(): a failed VN listen or HTTP bind ends the process.
Start ==
    /\ server = "down"
    /\ server' = "up"
    /\ StartSnapshotListener
    /\ UNCHANGED <<backlog, serving, reply, endpoint_, fresh, last_snapshot_>>

\* Mutant: the most recent connection is served first.
AcceptNewest(p) ==
    /\ Listening(p)
    /\ Running(p)
    /\ serving[p] = <<>>
    /\ backlog[p] # <<>>
    /\ serving' = [serving EXCEPT ![p] = <<backlog[p][Len(backlog[p])]>>]
    /\ backlog' = [backlog EXCEPT ![p] = SubSeq(@, 1, Len(@) - 1)]
    /\ UNCHANGED <<server, snapshot_listener_, loop, reply, endpoint_, fresh, last_snapshot_>>

\* Mutant: one thread serves both ports.
AcceptOneThread(p) ==
    /\ Listening(p)
    /\ Running(p)
    /\ \A q \in Ports : serving[q] = <<>>
    /\ backlog[p] # <<>>
    /\ serving' = [serving EXCEPT ![p] = <<Head(backlog[p])>>]
    /\ backlog' = [backlog EXCEPT ![p] = Tail(@)]
    /\ UNCHANGED <<server, snapshot_listener_, loop, reply, endpoint_, fresh, last_snapshot_>>

Accept(p) ==
    /\ Listening(p)
    /\ Running(p)
    /\ serving[p] = <<>>
    /\ backlog[p] # <<>>
    /\ serving' = [serving EXCEPT ![p] = <<Head(backlog[p])>>]
    /\ backlog' = [backlog EXCEPT ![p] = Tail(@)]
    /\ UNCHANGED <<server, snapshot_listener_, loop, reply, endpoint_, fresh, last_snapshot_>>

\* The loop condition fails; a connection accepted meanwhile is closed.
LoopEnds(p) ==
    /\ Listening(p)
    /\ ~Running(p)
    /\ serving[p] = <<>>
    /\ loop' = loop \ {p}
    /\ UNCHANGED <<server, snapshot_listener_, backlog, serving, reply, endpoint_, fresh, last_snapshot_>>

\* read_message throws: the peer has closed and left nothing to read.
ServeFails(p) ==
    /\ serving[p] # <<>>
    /\ ~serving[p][1].open
    /\ serving[p][1].msg = None
    /\ serving' = [serving EXCEPT ![p] = <<>>]
    /\ UNCHANGED <<server, snapshot_listener_, loop, backlog, reply, endpoint_, fresh, last_snapshot_>>

Answer(p, m) ==
    LET k == serving[p][1]
    IN  reply' = IF k.open THEN [reply EXCEPT ![p][k.by] = m] ELSE reply

\* Mutant: the time to live is not looked at.
DiscoverForever == [found |-> endpoint_ # None, at |-> endpoint_, stale |-> FALSE]

Discover == [found |-> endpoint_ # None, at |-> endpoint_, stale |-> ~fresh]

\* The registry after a request.  All dispatchers register, and would
\* unregister, as "dispatcher" "default".
HandleRegister(by) == [endpoint |-> by, fresh |-> TRUE]

HandleUnregister == [endpoint |-> None, fresh |-> fresh]

DispatchMessage(k) ==
    IF k.msg = "register" THEN HandleRegister(k.by) ELSE HandleUnregister

\* handle_connection on the VN port: one request, one answer, then close.
HandleRequest ==
    LET k == serving["vn"][1]
    IN  /\ serving["vn"] # <<>>
        /\ k.msg # None
        /\ endpoint_' = DispatchMessage(k).endpoint
        /\ fresh' = DispatchMessage(k).fresh
        /\ Answer("vn", "ok")
        /\ serving' = [serving EXCEPT !["vn"] = <<>>]
        /\ UNCHANGED <<server, snapshot_listener_, loop, backlog, last_snapshot_>>

\* on_snapshot keeps the payload and touches the endpoint, whichever run of the
\* dispatcher registered it: the snapshots carry no name.
OnSnapshot(k) ==
    /\ last_snapshot_' = k.msg
    /\ fresh' = (fresh \/ endpoint_ # None)

\* Mutant: the loop over a connection's frames does not look at running_.
ServesForever ==
    LET k == serving["snapshot"][1]
    IN  /\ serving["snapshot"] # <<>>
        /\ k.msg # None
        /\ OnSnapshot(k)
        /\ Answer("snapshot", "ok")
        /\ serving' = [serving EXCEPT !["snapshot"][1].msg = None]
        /\ UNCHANGED <<server, snapshot_listener_, loop, backlog, endpoint_>>

\* handle_connection on the snapshot port: the callback, the ack, and the next
\* frame of the same connection while running_.
HandleSnapshot ==
    LET k == serving["snapshot"][1]
    IN  /\ serving["snapshot"] # <<>>
        /\ k.msg # None
        /\ OnSnapshot(k)
        /\ Answer("snapshot", "ok")
        /\ serving' = [serving EXCEPT !["snapshot"] =
                          IF Running("snapshot") THEN <<[k EXCEPT !.msg = None]>> ELSE <<>>]
        /\ UNCHANGED <<server, snapshot_listener_, loop, backlog, endpoint_>>

\* ttl_seconds have passed since last_seen.
Expire ==
    /\ fresh
    /\ fresh' = FALSE
    /\ UNCHANGED <<server, snapshot_listener_, loop, backlog, serving, reply,
                   endpoint_, last_snapshot_>>

\* GET /api/monitor
ApiMonitor == IF last_snapshot_ = 0 THEN "503" ELSE last_snapshot_

\* main has seen the signal: running_ is cleared and accept() unblocked.
Stop ==
    /\ MayExit
    /\ server = "up"
    /\ server' = "join_vn"
    /\ UNCHANGED <<snapshot_listener_, loop, backlog, serving, reply, endpoint_,
                   fresh, last_snapshot_>>

\* The process ends, and with it all it knew and its connections.
Exit ==
    /\ server' = "down"
    /\ snapshot_listener_' = FALSE
    /\ loop' = {}
    /\ backlog' = [p \in Ports |-> <<>>]
    /\ serving' = [p \in Ports |-> <<>>]
    /\ endpoint_' = None
    /\ fresh' = FALSE
    /\ last_snapshot_' = 0
    /\ UNCHANGED reply

\* The VN thread is joined and its socket closed.
StopVn ==
    /\ server = "join_vn"
    /\ "vn" \notin loop
    /\ snapshot_listener_
    /\ server' = "join_snapshot"
    /\ backlog' = [backlog EXCEPT !["vn"] = <<>>]
    /\ UNCHANGED <<snapshot_listener_, loop, serving, reply, endpoint_, fresh, last_snapshot_>>

\* Then the same for the snapshot listener, if there is one; last the HTTP server.
StopSnapshots ==
    /\ server \in {"join_vn", "join_snapshot"}
    /\ server = "join_vn" => ~snapshot_listener_
    /\ loop = {}
    /\ Exit

StopListener == StopVn \/ StopSnapshots

Crash == MayExit /\ server # "down" /\ Exit

\* The two accept threads, and the main thread in stop().
VnThread == Accept("vn") \/ LoopEnds("vn") \/ ServeFails("vn") \/ HandleRequest
SnapshotThread ==
    Accept("snapshot") \/ LoopEnds("snapshot") \/ ServeFails("snapshot") \/ HandleSnapshot
=============================================================================
