------------------------- MODULE ZeroTierNodeService -------------------------
(***************************************************************************)
(* The process-wide ZeroTier node and the reference count of the default   *)
(* network (ZeroTierNodeService).  acquire() holds mtx_ from its first     *)
(* line to its last, the waits for the node, the network and the address   *)
(* included; acq[o] is the place in it of the socket o that called it.     *)
(* The node, the network and the address are libzt's: they change by       *)
(* themselves, and nothing is assumed of when.                             *)
(***************************************************************************)
EXTENDS Naturals, FiniteSets

CONSTANTS Owners,   \* the sockets that take a lease
          None

ASSUME OwnersAssumption == IsFiniteSet(Owners) /\ None \notin Owners

VARIABLES mtx, acq, node_started, join_count, interrupt, leases,
          node, net, addr

libztVars == <<node, net, addr>>
serviceVars == <<mtx, acq, node_started, join_count, interrupt, leases>>

ServiceInit ==
    /\ mtx = None /\ acq = [o \in Owners |-> "out"]
    /\ node_started = FALSE /\ join_count = 0 /\ interrupt = FALSE /\ leases = {}
    /\ node = "stopped" /\ net = "left" /\ addr = FALSE

Step(o, place) == acq' = [acq EXCEPT ![o] = place]

\* The caller leaves acquire() by an exception: the lock is released, what the
\* waits have changed stays.
Throw(o) ==
    /\ mtx' = None /\ Step(o, "threw")
    /\ UNCHANGED <<node_started, join_count, interrupt, leases>>

GrantedOnce(o) ==                                                   \* mutant
    /\ join_count' = 1 /\ leases' = leases \union {o}
    /\ mtx' = None /\ Step(o, "out")
    /\ UNCHANGED <<node_started, interrupt>>

\* ++count, and the lease that acquire() returns.
Granted(o) ==
    /\ join_count' = join_count + 1 /\ leases' = leases \union {o}
    /\ mtx' = None /\ Step(o, "out")
    /\ UNCHANGED <<node_started, interrupt>>

\* ensure_lease() calls acquire_default() only without a valid lease.
EnsureLease(o) ==
    /\ acq[o] = "out" /\ o \notin leases
    /\ Step(o, "lock")
    /\ UNCHANGED <<mtx, node_started, join_count, interrupt, leases, libztVars>>

Lock(o) ==
    /\ acq[o] = "lock" /\ mtx = None
    /\ mtx' = o /\ Step(o, "start")
    /\ UNCHANGED <<node_started, join_count, interrupt, leases, libztVars>>

\* With a usable identity path the node joins the networks it finds there by
\* itself; with an ephemeral identity there are none.
StoredNetwork == {"left", "joining"}

\* zts_node_start() is refused when the node runs already, and may fail.
EnsureNodeStarted(o) ==
    /\ acq[o] = "start"
    /\ \/ /\ node_started \/ node = "online"
          /\ node_started' = TRUE /\ Step(o, "join")
          /\ UNCHANGED <<mtx, join_count, interrupt, leases, libztVars>>
       \/ /\ ~node_started /\ node = "stopped"
          /\ node' = "offline" /\ net' \in StoredNetwork /\ Step(o, "online")
          /\ UNCHANGED <<mtx, node_started, join_count, interrupt, leases, addr>>
       \/ ~node_started /\ node # "online" /\ Throw(o) /\ UNCHANGED libztVars

WaitOnline(o) ==
    /\ acq[o] = "online" /\ UNCHANGED libztVars
    /\ \/ /\ node = "online"
          /\ node_started' = TRUE /\ Step(o, "join")
          /\ UNCHANGED <<mtx, join_count, interrupt, leases>>
       \/ node # "online" /\ interrupt /\ Throw(o)

JoinNetwork(o) ==
    /\ acq[o] = "join"
    /\ \/ join_count > 0 /\ Granted(o) /\ UNCHANGED libztVars
       \/ /\ join_count = 0 /\ net = "ok"
          /\ Step(o, "addr")
          /\ UNCHANGED <<mtx, node_started, join_count, interrupt, leases, libztVars>>
       \/ /\ join_count = 0 /\ net # "ok"
          /\ net' = "joining" /\ Step(o, "status")
          /\ UNCHANGED <<mtx, node_started, join_count, interrupt, leases, node, addr>>
       \/ join_count = 0 /\ net # "ok" /\ Throw(o) /\ UNCHANGED libztVars

WaitStatus(o) ==
    /\ acq[o] = "status" /\ UNCHANGED libztVars
    /\ \/ interrupt /\ Throw(o)
       \/ /\ ~interrupt /\ net = "ok"
          /\ Step(o, "addr")
          /\ UNCHANGED <<mtx, node_started, join_count, interrupt, leases>>

\* Ten seconds without an address are no error.
WaitAddr(o) ==
    /\ acq[o] = "addr" /\ UNCHANGED libztVars
    /\ IF ~addr /\ interrupt THEN Throw(o) ELSE Granted(o)

\* NetworkLease::release(), which waits for mtx_.
Release(o) ==
    /\ mtx = None
    /\ leases' = leases \ {o}
    /\ IF o \notin leases THEN UNCHANGED <<join_count, net, addr>>
       ELSE /\ join_count' = join_count - 1
            /\ IF join_count = 1 THEN net' = "left" /\ addr' = FALSE
                                 ELSE UNCHANGED <<net, addr>>
    /\ UNCHANGED <<mtx, acq, node_started, interrupt, node>>

\* The node comes online, the network is granted, an address is assigned.  That
\* they are lost again later is left out: the service does not look at them
\* again while it counts a lease.
NodeChanges ==
    /\ node = "offline" /\ node' = "online"
    /\ UNCHANGED <<net, addr, serviceVars>>

NetworkChanges ==
    /\ \/ net = "joining" /\ node = "online" /\ net' = "ok" /\ UNCHANGED addr
       \/ net = "ok" /\ ~addr /\ addr' = TRUE /\ UNCHANGED net
    /\ UNCHANGED <<node, serviceVars>>

AcquireStep(o) ==
    \/ Lock(o)
    \/ EnsureNodeStarted(o) \/ WaitOnline(o)
    \/ JoinNetwork(o) \/ WaitStatus(o) \/ WaitAddr(o)

(***************************************************************************)
(* Properties                                                              *)
(***************************************************************************)
\* The types of the service's variables and of what it sees of libzt.
ServiceTypeOK ==
    /\ mtx \in Owners \union {None} /\ leases \subseteq Owners
    /\ acq \in [Owners -> {"out", "lock", "start", "online", "join", "status", "addr", "threw"}]
    /\ node_started \in BOOLEAN /\ join_count \in Nat /\ interrupt \in BOOLEAN
    /\ node \in {"stopped", "offline", "online"} /\ net \in {"left", "joining", "ok"}
    /\ addr \in BOOLEAN

\* The count is the number of leases that are held, whatever acquire() threw
\* half way, and the network is joined as long as there is one.
LeaseKeepsNetwork ==
    /\ join_count = Cardinality(leases)
    /\ leases # {} => net # "left"
=============================================================================
