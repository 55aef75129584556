----------------------------- MODULE NodeService -----------------------------
(***************************************************************************)
(* subprojects/libzt-wrapper/NodeService.cpp: the main thread of run(),    *)
(* the core's callbacks for networks and events, and the application's     *)
(* thread that joins and leaves networks.  The core (Node), the taps and   *)
(* the event queue are libzt's; what they do here is what NodeService      *)
(* expects of them.                                                        *)
(***************************************************************************)
EXTENDS StateStore, FiniteSets

CONSTANTS
    Addrs,          \* addresses a network may assign
    Listens         \* whether the application listens to events

VARIABLES
    pc,             \* run()
    run_, termReason,
    node,           \* the identity of the core, or None
    online,         \* _node->online()
    nodeIsOnline,   \* _nodeIsOnline
    made,           \* the identities generated so far
    secondaryPort,  \* _secondaryPort: 0, or 2 for a port picked while offline
    lwip,           \* zts_lwip_is_up()
    core,           \* the networks the core has joined
    nets,           \* _nets
    events,         \* whether the event queue takes events
    heard,          \* what the application was told of each network
    garbage,        \* whether an event was made from an unfilled config
    wanted          \* history: networks joined, stored, and not left since

runVars == <<pc, run_, termReason, node, online, nodeIsOnline, made>>
netVars == <<core, nets, events, heard, garbage, wanted>>
sideVars == <<secondaryPort, lwip>>
vars == <<storeVars, runVars, sideVars, netVars>>

\* The statuses that generateSyntheticEvents() has a case for, NOT_FOUND,
\* CLIENT_TOO_OLD and ACCESS_DENIED like these, and those of its default case:
\* PORT_ERROR.
Announced == {"requesting", "ok"}
Statuses == Announced \cup {"port_error"}

\* The entries of _nets, and what the application was told of a network.
NetworkStates ==
    [tap : BOOLEAN, filled : BOOLEAN, status : Statuses,
     ips : SUBSET Addrs, managedIps : SUBSET Addrs, told : Statuses \cup {"none"}]
News == [status : Statuses \cup {"none"}, addrs : SUBSET Addrs]

ASSUME NetworkAssumption == None \notin NetworkStates /\ Listens \in BOOLEAN

Unheard == [status |-> "none", addrs |-> {}]
InLoop == {"loop", "events", "poll"}

Init ==
    /\ StoreInit
    /\ pc = "off" /\ run_ = FALSE /\ termReason = "running"
    /\ node = None /\ online = FALSE /\ nodeIsOnline = FALSE /\ made = {}
    /\ secondaryPort = 0 /\ lwip = FALSE
    /\ core = {} /\ nets = [n \in Networks |-> None]
    /\ events = FALSE /\ heard = [n \in Networks |-> Unheard] /\ garbage = FALSE
    /\ wanted = {}

(***************************************************************************)
(* Events and networks                                                     *)
(***************************************************************************)
\* sendEventToUser(): the queue drops what it is given while it is disabled.
Tell(news) == heard' = IF events THEN news ELSE heard

\* NetworkState(): neither the tap nor the config is there yet.
Fresh == [tap |-> FALSE, filled |-> FALSE, status |-> "requesting",
          ips |-> {}, managedIps |-> {}, told |-> "none"]

SyncAnnouncesAll(n, entry, new) ==                                  \* mutant
    \E dropped \in SUBSET ((entry.managedIps \ new) \cap entry.ips),
       taken \in SUBSET (new \ entry.managedIps) :
       /\ nets' = [nets EXCEPT ![n] = [entry EXCEPT !.managedIps = new,
                                                   !.ips = (@ \ dropped) \cup taken]]
       /\ Tell([heard EXCEPT ![n].addrs = new])

\* syncManagedStuff() of an entry with the addresses of the config that was
\* copied before: an address that the tap fails to drop or to take is not
\* announced, and not tried again.
SyncManagedStuff(n, entry, new) ==
    \E dropped \in SUBSET ((entry.managedIps \ new) \cap entry.ips),
       taken \in SUBSET (new \ entry.managedIps) :
       /\ nets' = [nets EXCEPT ![n] = [entry EXCEPT !.managedIps = new,
                                                   !.ips = (@ \ dropped) \cup taken]]
       /\ Tell([heard EXCEPT ![n].addrs = (@ \ dropped) \cup taken])

\* What both of the next operations do: the config is copied, then synced.
TakeConfig(n, entry, s, new) ==
    SyncManagedStuff(n, [entry EXCEPT !.filled = TRUE, !.status = s], new)

\* What a new tap's _networkStatus is: no status, or the one of a request.
TapStatuses == {"none", "requesting"}

\* CONFIG_OPERATION_UP: a tap when there is none, then as CONFIG_UPDATE, with
\* what the core has: the config it stored, or none yet.
Up(n) ==
    \E t \in TapStatuses, new \in SUBSET Addrs :
       LET entry == IF nets[n] = None THEN [Fresh EXCEPT !.tap = TRUE, !.told = t] ELSE nets[n]
       IN  IF Get(n) \in Contents THEN TakeConfig(n, entry, "ok", new)
           ELSE TakeConfig(n, entry, "requesting", {})

\* CONFIG_OPERATION_CONFIG_UPDATE; the core then stores the configuration.
ConfigUpdate(n) ==
    /\ n \in core
    /\ \E s \in Statuses, new \in SUBSET Addrs : TakeConfig(n, nets[n], s, new)
    /\ \E c \in Contents : Put(n, c)
    /\ UNCHANGED <<core, events, garbage, wanted>>

\* CONFIG_OPERATION_DOWN and _DESTROY: _nets[net_id] makes an entry when there
\* is none, NETWORK_DOWN is made from its config, and the entry goes.
Down(S) ==
    /\ Tell([n \in Networks |-> IF n \in S THEN Unheard ELSE heard[n]])
    /\ garbage' = (garbage \/ (events /\ \E n \in S : nets[n] = None))
    /\ nets' = [n \in Networks |-> IF n \in S THEN None ELSE nets[n]]

\* The networks whose status the loop over _nets finds changed.
Changed == {n \in Networks : nets[n] # None /\ nets[n].status # nets[n].told}

\* The body of that loop for the networks S: an event for the statuses that have
\* a case, and the status is noted, with or without one.
TellStatus(S) ==
    /\ nets' = [n \in Networks |->
                  IF n \in S THEN [nets[n] EXCEPT !.told = nets[n].status] ELSE nets[n]]
    /\ Tell([n \in Networks |->
                  IF n \in S /\ nets[n].status \in Announced
                  THEN [heard[n] EXCEPT !.status = nets[n].status] ELSE heard[n]])

EventsByFlag == TellStatus(IF nodeIsOnline /\ lwip THEN Changed ELSE {})   \* mutant

\* generateSyntheticEvents(), its part about networks: only while the node is
\* online and the stack is up.
GenerateSyntheticEvents == TellStatus(IF online /\ lwip THEN Changed ELSE {})

\* What the application's calls report: getNetworkStatus() and
\* getFirstAssignedAddr(), which reads the configuration, not the tap.
GetNetworkStatus(n) == IF run_ /\ nets[n] # None THEN nets[n].status ELSE "none"
GetAssignedAddrs(n) == IF nets[n] # None THEN nets[n].managedIps ELSE {}

\* terminate(): the run flag, the settings, and the event queue.
Terminate == run_' = FALSE /\ Forget /\ events' = FALSE

(***************************************************************************)
(* run()                                                                   *)
(***************************************************************************)
\* zts_node_start(), with the events enabled or not.
Start ==
    /\ pc = "off"
    /\ pc' = "home" /\ run_' = TRUE /\ events' = Listens
    /\ UNCHANGED <<storeVars, sideVars, termReason, node, online, nodeIsOnline, made,
                   core, nets, heard, garbage, wanted>>

\* The early returns of run(): no home path, or no port to bind.
StartFails ==
    /\ pc \in {"home", "ports"} /\ put = None
    /\ pc' = "failed" /\ termReason' = "error"
    /\ UNCHANGED <<storeVars, sideVars, netVars, run_, node, online, nodeIsOnline, made>>

\* The home path and Node(): the core takes the stored identity or makes one,
\* and stores it (again).
NewNode ==
    /\ pc = "home" /\ pc' = "ports"
    /\ nodeIsOnline' = FALSE
    /\ Get(Identity) \in Identities \/ made # Identities
    /\ LET i == IF Get(Identity) \in Identities THEN Get(Identity)
                ELSE CHOOSE new \in Identities : new \notin made
       IN  node' = i /\ made' = made \cup {i} /\ Put(Identity, i)
    /\ UNCHANGED <<sideVars, netVars, run_, termReason, online>>

\* _getRandomPort(): a port that a trial bind accepts, or none after 1000 trials.
GetRandomPort(port) == {0, port}

\* The ports of the start; which they are does not matter.
PickPorts ==
    /\ pc = "ports" /\ put = None
    /\ pc' = "cached"
    /\ UNCHANGED <<storeVars, sideVars, netVars, run_, termReason, node, online, nodeIsOnline, made>>

CachedUsable ==                                                     \* mutant
    IF home THEN {n \in Networks : disk[n] \in Contents} ELSE {}

\* The networks that have a file in networks.d, whatever is in it.
Cached == IF home THEN {n \in Networks : disk[n] # None} ELSE {}

\* Each of them is joined, and reported as up, before the main loop begins.
JoinCached ==
    /\ pc = "cached"
    /\ \/ \E n \in Cached \ core : core' = core \cup {n} /\ Up(n) /\ UNCHANGED pc
       \/ Cached \subseteq core /\ pc' = "loop" /\ UNCHANGED <<core, nets, heard>>
    /\ UNCHANGED <<storeVars, sideVars, run_, termReason, node, online, nodeIsOnline, made,
                   events, garbage, wanted>>

\* What the binder gets: _ports, the ports of the start.
Bound == {1}

\* The main loop, up to the binder: after a while offline a secondary port is
\* picked, once.
LoopTop ==
    /\ pc = "loop" /\ put = None
    /\ \/ ~run_ /\ pc' = "clear" /\ termReason' = "normal" /\ UNCHANGED secondaryPort
       \/ /\ run_ /\ pc' = "events" /\ UNCHANGED termReason
          /\ \/ UNCHANGED secondaryPort
             \/ ~online /\ secondaryPort = 0 /\ secondaryPort' \in GetRandomPort(2)
    /\ UNCHANGED <<storeVars, lwip, netVars, run_, node, online, nodeIsOnline, made>>

Announce ==
    /\ pc = "events" /\ pc' = "poll"
    /\ GenerateSyntheticEvents
    /\ UNCHANGED <<storeVars, sideVars, run_, termReason, node, online, nodeIsOnline, made,
                   core, events, garbage, wanted>>

\* The rest of an iteration: the core's background tasks and the packets that
\* poll() takes in may do nothing, ...
Poll(f) == pc = "poll" /\ pc' = "loop" /\ f /\ UNCHANGED <<sideVars, node, made>>

Idle == Poll(UNCHANGED <<storeVars, netVars, run_, termReason, online, nodeIsOnline>>)

\* ... change whether the node is online, or bring an event of another kind
\* (nodeEventCallback() takes every event but ONLINE for the node being offline), ...
NodeEvent ==
    Poll(/\ \/ online' = ~online /\ nodeIsOnline' = ~online
            \/ online' = online /\ nodeIsOnline' = FALSE
         /\ UNCHANGED <<storeVars, netVars, run_, termReason>>)

\* ... bring a network's configuration, ...
Configured ==
    Poll((\E n \in Networks : ConfigUpdate(n)) /\ UNCHANGED <<run_, termReason, online, nodeIsOnline>>)

\* ... or a fatal result of processWirePacket() or an identity collision.
Fatal ==
    Poll(/\ \/ termReason' = "error" /\ UNCHANGED nodeIsOnline
            \/ termReason' = "collision" /\ nodeIsOnline' = FALSE
         /\ Terminate
         /\ UNCHANGED <<online, core, nets, heard, garbage, wanted>>)

\* The handlers around the main loop.
Throws ==
    /\ pc \in {"events", "poll"}
    /\ pc' = "clear" /\ termReason' = "error"
    /\ UNCHANGED <<storeVars, sideVars, netVars, run_, node, online, nodeIsOnline, made>>

\* The taps are deleted and the entries dropped, without an event.
ClearNets ==
    /\ pc = "clear" /\ pc' = "tell"
    /\ nets' = [n \in Networks |-> None]
    /\ UNCHANGED <<storeVars, sideVars, run_, termReason, node, online, nodeIsOnline, made,
                   core, events, heard, garbage, wanted>>

\* nodeEventCallback() with DOWN, or, after an error, with the collision.
Conclude ==
    /\ pc = "tell" /\ pc' = "delete" /\ nodeIsOnline' = FALSE
    /\ IF termReason = "error" THEN termReason' = "collision" /\ Terminate
       ELSE UNCHANGED <<termReason, run_, events, storeVars>>
    /\ UNCHANGED <<sideVars, node, online, made, core, nets, heard, garbage, wanted>>

\* delete _node: the core reports each of its networks as down.
DeleteNode ==
    /\ pc = "delete" /\ pc' = "ended"
    /\ Down(core)
    /\ core' = {} /\ node' = None /\ online' = FALSE
    /\ UNCHANGED <<storeVars, sideVars, run_, termReason, nodeIsOnline, made, events, wanted>>

(***************************************************************************)
(* The application's thread, and the end of the process                    *)
(***************************************************************************)
Serves == run_ /\ pc \in InLoop \cup {"clear", "tell"} /\ put = None

\* join(): the core makes a file for a network that has none, if it can.
Join(n) ==
    /\ Serves /\ n \notin core
    /\ core' = core \cup {n} /\ Up(n)
    /\ \/ disk' = disk
       \/ home /\ disk[n] = None /\ disk' = [disk EXCEPT ![n] = Blank]
    /\ wanted' = IF disk'[n] # None THEN wanted \cup {n} ELSE wanted
    /\ UNCHANGED <<home, memory, put, kept, runVars, sideVars, events, garbage>>

\* leave(): the core reports the network as destroyed and removes its file.
Leave(n) ==
    /\ Serves /\ n \in core
    /\ Down({n}) /\ Remove(n)
    /\ core' = core \ {n} /\ wanted' = wanted \ {n}
    /\ UNCHANGED <<runVars, sideVars, events>>

\* lwIP's thread: the stack comes up, or is taken down.
Stack == pc # "off" /\ lwip' = ~lwip /\ UNCHANGED <<storeVars, runVars, secondaryPort, netVars>>

Killed ==
    /\ pc # "off"
    /\ Reboot
    /\ pc' = "off" /\ run_' = FALSE /\ termReason' = "running"
    /\ node' = None /\ online' = FALSE /\ nodeIsOnline' = FALSE
    /\ secondaryPort' = 0 /\ lwip' = FALSE
    /\ core' = {} /\ nets' = [n \in Networks |-> None]
    /\ events' = FALSE /\ heard' = [n \in Networks |-> Unheard] /\ garbage' = FALSE
    /\ UNCHANGED <<made, wanted>>

Written == WritePut /\ UNCHANGED <<runVars, sideVars, netVars>>

Main ==
    \/ StartFails \/ NewNode \/ Written \/ PickPorts \/ JoinCached
    \/ LoopTop \/ Announce
    \/ Idle \/ NodeEvent \/ Configured \/ Fatal
    \/ Throws \/ ClearNets \/ Conclude \/ DeleteNode

Next ==
    \/ Start \/ Main \/ Stack \/ Killed
    \/ \E n \in Networks : Join(n) \/ Leave(n)

Spec == Init /\ [][Next]_vars

\* The main thread keeps running until it ends.
FairSpec == Spec /\ WF_vars(Main)

-----------------------------------------------------------------------------
(* Properties *)

\* The types of the variables of the store and of the service.
StoreTypeOK ==
    /\ disk \in [Objects -> Identities \cup Contents \cup {None, Blank}]
    /\ home \in BOOLEAN
    /\ memory \in Identities \cup {None} /\ kept \in Identities \cup {None}
    /\ put \in [object : Objects, value : Identities \cup Contents] \cup {None}

RunTypeOK ==
    /\ pc \in {"off", "home", "ports", "cached", "loop", "events", "poll", "clear",
               "tell", "delete", "ended", "failed"}
    /\ run_ \in BOOLEAN /\ online \in BOOLEAN /\ nodeIsOnline \in BOOLEAN
    /\ termReason \in {"running", "normal", "error", "collision"}
    /\ node \in Identities \cup {None} /\ made \subseteq Identities

NetTypeOK ==
    /\ core \subseteq Networks /\ wanted \subseteq Networks
    /\ nets \in [Networks -> NetworkStates \cup {None}] /\ heard \in [Networks -> News]
    /\ events \in BOOLEAN /\ garbage \in BOOLEAN

TypeOK == StoreTypeOK /\ RunTypeOK /\ NetTypeOK

\* Once an identity is stored completely, every later start of the process runs
\* with that identity, wherever it was killed: nodeStatePutFunction() does not
\* open a file for writing that holds the value already.
IdentityKept == node # None /\ kept # None => node = kept

\* A network that was joined, got its file in networks.d and was not left is
\* joined by every later run(), even when a put of its configuration was cut
\* between fopen() and fwrite().
JoinedSurvivesRestart == pc \in InLoop /\ run_ => wanted \subseteq core

\* Every entry that the callbacks leave in _nets has its tap and its config, as
\* generateSyntheticEvents() and the getters expect that use them unchecked.
EntriesAreWhole == \A n \in Networks : nets[n] # None => nets[n].tap /\ nets[n].filled

\* An application that listens to ADDR_ADDED, ADDR_REMOVED and NETWORK_DOWN
\* knows the addresses that the taps have, also when a tap fails to take or to
\* drop one.
AddressesAsAnnounced ==
    events => \A n \in Networks : nets[n] # None => heard[n].addrs = nets[n].ips

\* A status that getNetworkStatus() keeps reporting, of those that have an event,
\* is the last one announced, while the node stays online and the stack up and
\* whatever other events and statuses came before.  A new tap may count the
\* request for a first configuration as announced.
StatusIsTold ==
    \A n \in Networks, s \in Announced :
        LET Lasts == pc \in InLoop /\ events /\ online /\ lwip /\ GetNetworkStatus(n) = s
            Told  == heard[n].status = s \/ (s = "requesting" /\ heard[n].status = "none")
        IN  Lasts ~> (~Lasts \/ Told)

\* run() comes to its end after a fatal error or an identity collision.
FatalEnds == (pc \in InLoop /\ termReason # "running") ~> (pc \in {"ended", "off"})

-----------------------------------------------------------------------------
(* What the code does not guarantee *)

\* No event is made from the unfilled entry that a DOWN callback creates once
\* _nets was cleared: a leave() after an exception in the main loop, before
\* terminate() closes the queue, makes one.
NoEventWithoutConfig == ~garbage

\* The port picked after a while offline is bound: the binder gets _ports.
NewPortIsBound == pc = "poll" /\ secondaryPort # 0 => secondaryPort \in Bound

\* nodeIsOnline() follows the core: any other event clears the flag.
OnlineFlagFollows == pc = "loop" /\ online => nodeIsOnline

\* The application can follow a network's status by its events alone: PORT_ERROR
\* has none, and is noted as announced.
StatusHasEvent ==
    \A n \in Networks : pc = "poll" /\ events /\ nets[n] # None /\ nets[n].told # "none"
        => heard[n].status \in {"none", nets[n].told}

\* run() returns the reason it ended for: the main loop and the last callback
\* overwrite what phyOnDatagram() and the handlers stored.
ReasonKept ==
    [][(termReason \in {"error", "collision"}) => (termReason' \in {termReason, "running"})]_vars

\* isRunning() is over when run() returned early.
FailedIsNotRunning == pc = "failed" => ~run_

\* An address that getFirstAssignedAddr() reports is on the tap.
ReportedIsOnTap == \A n \in Networks : nets[n] # None => GetAssignedAddrs(n) \subseteq nets[n].ips
=============================================================================
