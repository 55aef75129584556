------------------------ MODULE ZeroTierSocketProofs ------------------------
(***************************************************************************)
(* The safety of the leases of the default network, and of the order in    *)
(* which a dispatcher takes and gives them back, for any number of client  *)
(* sockets, accepted sockets and descriptors.                              *)
(***************************************************************************)
EXTENDS ZeroTierSocket, FiniteSetTheorems, TLAPS

\* acquire() works under mtx_, and whoever is in it has no lease.
LockHeld ==
    \A o \in Owners :
        /\ acq[o] \in {"start", "online", "join", "status", "addr"} => mtx = o
        /\ acq[o] # "out" => o \notin leases

\* The node is waited for once, and past ensure_node_started() it runs; in the
\* waits for the network there is no lease, and the network was joined.
NodeRuns ==
    /\ node_started => node = "online"
    /\ leases # {} => node_started
    /\ \A o \in Owners :
        /\ acq[o] = "online" => ~node_started
        /\ acq[o] \in {"join", "status", "addr"} => node_started
        /\ acq[o] \in {"status", "addr"} => leases = {} /\ net # "left"

\* The inductive invariant of the service alone.
ServiceInv == ServiceTypeOK /\ LeaseKeepsNetwork /\ LockHeld /\ NodeRuns

\* A dispatcher has the lease of its listening socket while it runs and stops,
\* and no client socket before and after; it refuses none.
ListenerServes ==
    /\ \A c \in Clients : acq[c] # "out" => pc[c] = "lease"
    /\ role = "dispatcher" =>
        /\ app \in {"running", "stopping"} => Server \in leases /\ pc[Server] = "accept"
        /\ app \notin {"running", "stopping"} => \A c \in Clients : pc[c] = "none"
        /\ pc[Server] = "listen" => Server \in leases
        /\ pc[Runtime] = "none"
        /\ \A c \in Clients : acq[c] # "threw"

\* The inductive invariant.
IInv == SocketTypeOK /\ ServiceInv /\ ListenerServes

-----------------------------------------------------------------------------
(* The reference count *)

\* The initial state.
LEMMA ServiceInitInv == ServiceInit => ServiceInv
<1> SUFFICES ASSUME ServiceInit PROVE ServiceInv OBVIOUS
<1> USE DEF ServiceInit
<1>1. ServiceTypeOK BY Zenon DEF ServiceTypeOK
<1>2. LeaseKeepsNetwork BY FS_EmptySet DEF LeaseKeepsNetwork
<1>3. LockHeld /\ NodeRuns BY DEF LockHeld, NodeRuns
<1> QED BY <1>1, <1>2, <1>3 DEF ServiceInv

\* The count is zero when there is no lease, and only then.
LEMMA LeasesCounted == ServiceInv => (join_count = 0 <=> leases = {})
BY OwnersAssumption, FS_Subset, FS_EmptySet DEF ServiceInv, LeaseKeepsNetwork, ServiceTypeOK

\* A shutdown of a socket changes the service by its flag at most.
LEMMA InterruptPreserves ==
  ASSUME ServiceInv, interrupt' \in BOOLEAN,
         UNCHANGED <<mtx, acq, node_started, join_count, leases, libztVars>>
  PROVE  ServiceInv'
BY DEF ServiceInv, ServiceTypeOK, LeaseKeepsNetwork, LockHeld, NodeRuns, libztVars

\* Most steps of a socket do not touch the service.
LEMMA ServiceStays == ASSUME ServiceInv, UNCHANGED <<serviceVars, libztVars>> PROVE ServiceInv'
<1>1. interrupt' \in BOOLEAN BY DEF ServiceInv, ServiceTypeOK, serviceVars
<1> QED BY <1>1, InterruptPreserves DEF serviceVars

\* ensure_lease() of a socket without a lease.
LEMMA EnsureLeasePreserves ==
  ASSUME ServiceInv, NEW o \in Owners, EnsureLease(o)
  PROVE  ServiceInv'
<1> USE DEF ServiceInv, EnsureLease, Step, libztVars
<1>1. ServiceTypeOK' BY DEF ServiceTypeOK
<1>2. LeaseKeepsNetwork' BY DEF LeaseKeepsNetwork
<1>3. LockHeld' BY DEF LockHeld, ServiceTypeOK
<1>4. NodeRuns' BY DEF NodeRuns, ServiceTypeOK
<1> QED BY <1>1, <1>2, <1>3, <1>4

\* acquire() takes mtx_.
LEMMA LockPreserves ==
  ASSUME ServiceInv, NEW o \in Owners, Lock(o)
  PROVE  ServiceInv'
<1> USE DEF ServiceInv, Lock, Step, libztVars
<1>1. ServiceTypeOK' BY DEF ServiceTypeOK
<1>2. LeaseKeepsNetwork' BY DEF LeaseKeepsNetwork
<1>3. LockHeld' BY OwnersAssumption DEF LockHeld, ServiceTypeOK
<1>4. NodeRuns' BY DEF NodeRuns, ServiceTypeOK
<1> QED BY <1>1, <1>2, <1>3, <1>4

\* An exception leaves what there was of leases.
LEMMA ThrowPreserves ==
  ASSUME ServiceInv, NEW o \in Owners, mtx = o, acq[o] # "out", Throw(o), UNCHANGED libztVars
  PROVE  ServiceInv'
<1> USE DEF ServiceInv, Throw, Step, libztVars
<1>1. ServiceTypeOK' BY DEF ServiceTypeOK
<1>2. LeaseKeepsNetwork' BY DEF LeaseKeepsNetwork
<1>3. LockHeld' BY OwnersAssumption DEF LockHeld, ServiceTypeOK
<1>4. NodeRuns' BY DEF NodeRuns, ServiceTypeOK
<1> QED BY <1>1, <1>2, <1>3, <1>4

\* A lease is granted when the node runs and the network is joined, and only to
\* a socket that has none.
LEMMA GrantedPreserves ==
  ASSUME ServiceInv, NEW o \in Owners, mtx = o, o \notin leases, node_started, net # "left",
         Granted(o), UNCHANGED libztVars
  PROVE  ServiceInv'
<1> USE DEF ServiceInv, Granted, Step, libztVars
<1>1. ServiceTypeOK' BY DEF ServiceTypeOK
<1>2. LeaseKeepsNetwork'
  <2>1. IsFiniteSet(leases) BY OwnersAssumption, FS_Subset DEF ServiceTypeOK
  <2>2. Cardinality(leases \cup {o}) = Cardinality(leases) + 1 BY Zenon, <2>1, FS_AddElement
  <2> QED BY <2>2 DEF LeaseKeepsNetwork
<1>3. \A p \in Owners \ {o} : acq[p] \notin {"start", "online", "join", "status", "addr"}
  BY DEF LockHeld
<1>4. LockHeld' BY <1>3 DEF LockHeld, ServiceTypeOK
<1>5. NodeRuns' BY <1>3 DEF NodeRuns, ServiceTypeOK
<1> QED BY <1>1, <1>2, <1>4, <1>5

\* Only the holder of mtx_ moves within acquire().
LEMMA EnsureNodeStartedPreserves ==
  ASSUME ServiceInv, NEW o \in Owners, EnsureNodeStarted(o)
  PROVE  ServiceInv'
<1> USE DEF ServiceInv
<1>1. acq[o] = "start" /\ mtx = o BY DEF EnsureNodeStarted, LockHeld
<1>2. \A p \in Owners \ {o} : acq[p] \notin {"start", "online", "join", "status", "addr"}
  BY <1>1 DEF LockHeld
<1>3. CASE Throw(o) /\ UNCHANGED libztVars BY <1>1, <1>3, ThrowPreserves
<1>4. CASE /\ node_started \/ node = "online"
           /\ node_started' = TRUE /\ Step(o, "join")
           /\ UNCHANGED <<mtx, join_count, interrupt, leases, libztVars>>
  <2> USE <1>4 DEF Step, libztVars
  <2>1. ServiceTypeOK' BY DEF ServiceTypeOK
  <2>2. LeaseKeepsNetwork' BY DEF LeaseKeepsNetwork
  <2>3. LockHeld' BY <1>1, <1>2 DEF LockHeld, ServiceTypeOK
  <2>4. NodeRuns' BY <1>2 DEF NodeRuns, ServiceTypeOK
  <2> QED BY <2>1, <2>2, <2>3, <2>4
<1>5. CASE /\ ~node_started /\ node = "stopped"
           /\ node' = "offline" /\ net' \in StoredNetwork /\ Step(o, "online")
           /\ UNCHANGED <<mtx, node_started, join_count, interrupt, leases, addr>>
  <2> USE <1>5 DEF Step, StoredNetwork
  <2>1. ServiceTypeOK' BY DEF ServiceTypeOK
  <2>2. LeaseKeepsNetwork' BY DEF LeaseKeepsNetwork, NodeRuns
  <2>3. LockHeld' BY <1>1, <1>2 DEF LockHeld, ServiceTypeOK
  <2>4. NodeRuns' BY <1>2 DEF NodeRuns, ServiceTypeOK
  <2> QED BY <2>1, <2>2, <2>3, <2>4
<1> QED BY Zenon, <1>3, <1>4, <1>5 DEF EnsureNodeStarted

\* The wait for the node.
LEMMA WaitOnlinePreserves ==
  ASSUME ServiceInv, NEW o \in Owners, WaitOnline(o)
  PROVE  ServiceInv'
<1> USE DEF ServiceInv
<1>1. /\ acq[o] = "online" /\ mtx = o
      /\ \A p \in Owners \ {o} : acq[p] \notin {"start", "online", "join", "status", "addr"}
  BY DEF WaitOnline, LockHeld
<1>2. CASE Throw(o) BY <1>1, <1>2, ThrowPreserves DEF WaitOnline
<1>3. CASE /\ node = "online" /\ node_started' = TRUE /\ Step(o, "join")
           /\ UNCHANGED <<mtx, join_count, interrupt, leases, libztVars>>
  <2> USE <1>3 DEF Step, libztVars
  <2>1. ServiceTypeOK' BY DEF ServiceTypeOK
  <2>2. LeaseKeepsNetwork' BY DEF LeaseKeepsNetwork
  <2>3. LockHeld' BY <1>1 DEF LockHeld, ServiceTypeOK
  <2>4. NodeRuns' BY <1>1 DEF NodeRuns, ServiceTypeOK
  <2> QED BY <2>1, <2>2, <2>3, <2>4
<1> QED BY Zenon, <1>2, <1>3 DEF WaitOnline

\* join(), which counts a lease at once when there is one already.
LEMMA JoinNetworkPreserves ==
  ASSUME ServiceInv, NEW o \in Owners, JoinNetwork(o)
  PROVE  ServiceInv'
<1> USE DEF ServiceInv
<1>1. acq[o] = "join" /\ mtx = o /\ o \notin leases /\ node_started
  BY DEF JoinNetwork, LockHeld, NodeRuns
<1>2. join_count = 0 <=> leases = {} BY LeasesCounted
<1>3. CASE join_count > 0 /\ Granted(o) /\ UNCHANGED libztVars
  BY <1>1, <1>2, <1>3, GrantedPreserves DEF LeaseKeepsNetwork
<1>4. CASE Throw(o) /\ UNCHANGED libztVars BY <1>1, <1>4, ThrowPreserves
<1>5. CASE /\ join_count = 0 /\ UNCHANGED <<mtx, node_started, join_count, interrupt, leases, node, addr>>
           /\ \/ net = "ok" /\ net' = net /\ Step(o, "addr")
              \/ net' = "joining" /\ Step(o, "status")
  <2> USE <1>5 DEF Step
  <2>1. ServiceTypeOK' BY DEF ServiceTypeOK
  <2>2. LeaseKeepsNetwork' BY Zenon DEF LeaseKeepsNetwork
  <2>3. LockHeld' BY <1>1 DEF LockHeld, ServiceTypeOK
  <2>4. NodeRuns' BY <1>1, <1>2 DEF NodeRuns, ServiceTypeOK
  <2> QED BY <2>1, <2>2, <2>3, <2>4
<1> QED BY <1>3, <1>4, <1>5 DEF JoinNetwork, libztVars

\* The wait for the network.
LEMMA WaitStatusPreserves ==
  ASSUME ServiceInv, NEW o \in Owners, WaitStatus(o)
  PROVE  ServiceInv'
<1> USE DEF ServiceInv
<1>1. acq[o] = "status" /\ mtx = o BY DEF WaitStatus, LockHeld
<1>2. CASE Throw(o) BY <1>1, <1>2, ThrowPreserves DEF WaitStatus
<1>3. CASE /\ net = "ok" /\ Step(o, "addr")
           /\ UNCHANGED <<mtx, node_started, join_count, interrupt, leases, libztVars>>
  <2> USE <1>3 DEF Step, libztVars
  <2>1. ServiceTypeOK' BY DEF ServiceTypeOK
  <2>2. LeaseKeepsNetwork' BY DEF LeaseKeepsNetwork
  <2>3. LockHeld' BY <1>1 DEF LockHeld, ServiceTypeOK
  <2>4. NodeRuns' BY <1>1 DEF NodeRuns, ServiceTypeOK
  <2> QED BY <2>1, <2>2, <2>3, <2>4
<1> QED BY <1>2, <1>3 DEF WaitStatus

\* The wait for an address, and the lease.
LEMMA WaitAddrPreserves ==
  ASSUME ServiceInv, NEW o \in Owners, WaitAddr(o)
  PROVE  ServiceInv'
<1>1. /\ acq[o] = "addr" /\ mtx = o /\ o \notin leases /\ node_started /\ net # "left"
      /\ UNCHANGED libztVars
  BY DEF WaitAddr, ServiceInv, LockHeld, NodeRuns
<1> QED BY <1>1, ThrowPreserves, GrantedPreserves DEF WaitAddr

\* Every step of acquire().
LEMMA AcquireStepPreserves ==
  ASSUME ServiceInv, NEW o \in Owners, AcquireStep(o)
  PROVE  ServiceInv'
BY LockPreserves, EnsureNodeStartedPreserves, WaitOnlinePreserves, JoinNetworkPreserves,
   WaitStatusPreserves, WaitAddrPreserves DEF AcquireStep

\* release(): the last lease leaves the network, and no acquire() is in between.
LEMMA ReleasePreserves ==
  ASSUME ServiceInv, NEW o \in Owners, Release(o)
  PROVE  ServiceInv'
<1> USE DEF ServiceInv, Release
<1>1. IsFiniteSet(leases) BY OwnersAssumption, FS_Subset DEF ServiceTypeOK
<1>2. CASE o \notin leases
  <2>1. leases' = leases BY <1>2
  <2> QED BY <1>2, <2>1 DEF ServiceTypeOK, LeaseKeepsNetwork, LockHeld, NodeRuns
<1>3. CASE o \in leases
  <2>1. Cardinality(leases \ {o}) = Cardinality(leases) - 1 BY Zenon, <1>1, <1>3, FS_RemoveElement
  <2>2. IsFiniteSet(leases \ {o}) BY <1>1, FS_RemoveElement
  <2>3. join_count \in Nat /\ join_count - 1 \in Nat /\ (join_count = 1 => leases \ {o} = {})
    <3>1. Cardinality(leases) \in Nat /\ Cardinality(leases \ {o}) \in Nat
      BY <1>1, <2>2, FS_CardinalityType
    <3>2. Cardinality(leases \ {o}) = 0 => leases \ {o} = {} BY <2>2, FS_EmptySet
    <3> QED BY <2>1, <3>1, <3>2 DEF LeaseKeepsNetwork
  <2>4. \A p \in Owners : acq[p] \notin {"start", "online", "join", "status", "addr"}
    BY OwnersAssumption DEF LockHeld
  <2>5. ServiceTypeOK'
    <3>1. join_count' \in Nat /\ leases' \subseteq Owners BY <1>3, <2>3 DEF ServiceTypeOK
    <3>2. net' \in {"left", "joining", "ok"} /\ addr' \in BOOLEAN BY Zenon, <1>3 DEF ServiceTypeOK
    <3> QED BY <3>1, <3>2 DEF ServiceTypeOK
  <2>6. LeaseKeepsNetwork' BY <1>3, <2>1, <2>3 DEF LeaseKeepsNetwork
  <2>7. LockHeld' BY DEF LockHeld
  <2>8. NodeRuns' BY <1>3, <2>4 DEF NodeRuns
  <2> QED BY <2>5, <2>6, <2>7, <2>8
<1> QED BY <1>2, <1>3

\* What libzt does by itself.
LEMMA LibztPreserves == ServiceInv /\ (NodeChanges \/ NetworkChanges) => ServiceInv'
<1> SUFFICES ASSUME ServiceInv, NodeChanges \/ NetworkChanges PROVE ServiceInv' OBVIOUS
<1> USE DEF ServiceInv, NodeChanges, NetworkChanges, serviceVars
<1>1. ServiceTypeOK' BY Zenon DEF ServiceTypeOK
<1>2. LeaseKeepsNetwork' BY DEF LeaseKeepsNetwork
<1>3. LockHeld' BY DEF LockHeld
<1>4. NodeRuns' BY DEF NodeRuns
<1> QED BY <1>1, <1>2, <1>3, <1>4

-----------------------------------------------------------------------------
(* Descriptors *)

\* libzt finds a descriptor when one is free.
LEMMA MinIsFree ==
  ASSUME MaxFd \in Nat, Free # {}
  PROVE  Min(Free) \in Free /\ Min(Free) \in Fds
<1> DEFINE Less == {ss \in Nat \X Nat : ss[1] < ss[2]}
<1>1. Free \subseteq Fds /\ Fds \subseteq Nat BY DEF Free, Fds
<1>2. IsWellFoundedOn(Less, Nat) BY NatLessThanWellFounded DEF OpToRel
<1>3. \A k, m \in Nat : k < m => <<k, m>> \in Less OBVIOUS
<1> HIDE DEF Less
<1>4. PICK m \in Free : \A k \in Free : <<k, m>> \notin Less BY Zenon, <1>1, <1>2, WFMin
<1>5. ASSUME NEW k \in Free PROVE m <= k
  <2>1. m \in Nat /\ k \in Nat BY <1>1
  <2>2. ~(k < m) BY <1>3, <1>4, <2>1, Zenon
  <2> QED BY <2>1, <2>2, SMT
<1> QED BY Zenon, <1>1, <1>5 DEF Min

\* A descriptor that is opened is one of libzt's, ...
LEMMA OpenFdType ==
  ASSUME SocketTypeOK, NEW s \in Sockets, OpenFd(s)
  PROVE  /\ sfd' \in [Sockets -> 0 .. MaxFd]
         /\ fdt' \in [Fds -> {"free", "open", "connecting", "connected", "listening"}]
<1>1. CASE sfd[s] # 0 BY <1>1 DEF SocketTypeOK, OpenFd
<1>2. CASE sfd[s] = 0
  <2>1. Free # {} /\ MaxFd \in Nat BY Zenon, <1>2, SocketsAssumption DEF OpenFd
  <2>2. Min(Free) \in Fds BY <2>1, MinIsFree
  <2>3. /\ sfd' = [sfd EXCEPT ![s] = Min(Free)]
        /\ fdt' = [fdt EXCEPT ![Min(Free)] = "open"]
    BY Zenon, <1>2 DEF OpenFd
  <2>4. Min(Free) \in 0 .. MaxFd BY <2>1, <2>2 DEF Fds
  <2> QED BY Zenon, <2>2, <2>3, <2>4 DEF SocketTypeOK
<1> QED BY <1>1, <1>2

\* ... and so is one that is closed.
LEMMA CloseFdType ==
  ASSUME SocketTypeOK, NEW s \in Sockets, CloseFd(s)
  PROVE  /\ sfd' \in [Sockets -> 0 .. MaxFd]
         /\ fdt' \in [Fds -> {"free", "open", "connecting", "connected", "listening"}]
BY SocketsAssumption DEF SocketTypeOK, CloseFd, Fds

-----------------------------------------------------------------------------
(* The sockets *)

\* The steps of the threads that use and cancel client sockets, past the lease.
ClientAction(c) ==
    \/ Open(c) \/ Connect(c) \/ PollInterrupted(c) \/ PollResult(c)
    \/ Write(c) \/ Read(c) \/ NextReport(c) \/ Failed(c) \/ Close(c) \/ Destroy(c)

\* They leave the places and the leases of the other sockets alone.
LEMMA ClientActionMoves ==
  ASSUME NEW c \in Clients, ClientAction(c)
  PROVE  /\ pc[c] \notin {"none", "lease"} /\ \E place : Goto(c, place)
         /\ UNCHANGED <<role, app, cancel, acq>> /\ leases' \in {leases, leases \ {c}}
<1>1. CASE Open(c) BY <1>1 DEF Open, Keeps, serviceVars
<1>2. CASE Connect(c) BY <1>2 DEF Connect, Keeps, serviceVars
<1>3. CASE PollInterrupted(c) BY <1>3 DEF PollInterrupted, Keeps, serviceVars
<1>4. CASE PollResult(c) BY <1>4 DEF PollResult, Keeps, serviceVars
<1>5. CASE Write(c) BY <1>5 DEF Write, Begin, Call, TimesOut, Keeps, serviceVars
<1>6. CASE Read(c) BY <1>6 DEF Read, Begin, Call, TimesOut, Keeps, serviceVars
<1>7. CASE NextReport(c) BY <1>7 DEF NextReport, Keeps, serviceVars
<1>8. CASE Failed(c) BY <1>8 DEF Failed
<1>9. CASE Close(c) BY <1>9 DEF Close, Keeps, serviceVars
<1>10. CASE Destroy(c) BY Zenon, <1>10 DEF Destroy, Release
<1> QED BY <1>1, <1>2, <1>3, <1>4, <1>5, <1>6, <1>7, <1>8, <1>9, <1>10 DEF ClientAction

\* They keep the service's invariant.
LEMMA ClientActionService ==
  ASSUME ServiceInv, NEW c \in Clients, ClientAction(c)
  PROVE  ServiceInv'
<1>1. CASE UNCHANGED <<serviceVars, libztVars>>
  BY <1>1, ServiceStays
<1>2. CASE Failed(c) BY Zenon, <1>2, InterruptPreserves DEF Failed, Shutdown, ServiceInv, ServiceTypeOK
<1>3. CASE Destroy(c) BY <1>3, ReleasePreserves, SocketsAssumption DEF Destroy
<1> QED
  BY Zenon, <1>1, <1>2, <1>3 DEF ClientAction, Open, Connect, PollInterrupted, PollResult, Write, Read,
     Begin, Call, NextReport, Close, Keeps

\* They keep the types.
LEMMA ClientActionType ==
  ASSUME SocketTypeOK, NEW c \in Clients, ClientAction(c)
  PROVE  SocketTypeOK'
<1>1. c \in Sockets /\ MaxFd \in Nat BY SocketsAssumption DEF Sockets
<1> DEFINE SocketTypes ==
      /\ sfd' \in [Sockets -> 0 .. MaxFd] /\ tfd' \in [Sockets -> 0 .. MaxFd]
      /\ shut' \in [Sockets -> BOOLEAN]
      /\ fdt' \in [Fds -> {"free", "open", "connecting", "connected", "listening"}]
      /\ pc' \in [Sockets -> {"none", "lease", "open", "connect", "poll", "write", "send", "read",
                              "recv", "kept", "failed", "close", "destroy", "listen", "accept",
                              "joined", "gone", "live", "new", "ready", "held"}]
<1> SUFFICES SocketTypes BY ClientActionMoves DEF SocketTypeOK
<1> USE <1>1 DEF Goto, Keeps, socketVars
<1>2. CASE Open(c) BY <1>2, OpenFdType DEF Open, GivesUp, SocketTypeOK
<1>3. CASE Connect(c)
  <2>1. UNCHANGED <<sfd, shut>> /\ (UNCHANGED tfd \/ tfd' = [tfd EXCEPT ![c] = sfd[c]])
    BY <1>3 DEF Connect
  <2>2. \E place \in {"close", "held", "poll", "write"} : Goto(c, place) BY <1>3 DEF Connect, GivesUp
  <2>3. UNCHANGED fdt \/ \E what \in {"connecting", "connected"} : fdt' = [fdt EXCEPT ![sfd[c]] = what]
    BY <1>3 DEF Connect
  <2> QED BY <2>1, <2>2, <2>3 DEF SocketTypeOK
<1>4. CASE PollInterrupted(c) \/ NextReport(c) BY <1>4 DEF PollInterrupted, NextReport, GivesUp, SocketTypeOK
<1>5. CASE PollResult(c)
  <2>1. UNCHANGED <<sfd, tfd, shut>> BY Zenon, <1>5 DEF PollResult
  <2>2. \E place \in {"write", "close", "held"} : Goto(c, place) BY Zenon, <1>5 DEF PollResult, GivesUp
  <2>3. UNCHANGED fdt \/ fdt' = [fdt EXCEPT ![tfd[c]] = "connected"] BY Zenon, <1>5 DEF PollResult
  <2> QED BY <2>1, <2>2, <2>3 DEF SocketTypeOK
<1>6. CASE Write(c) \/ Read(c)
  <2> USE <1>6 DEF Write, Read, Begin, Call
  <2>1. UNCHANGED <<sfd, shut, fdt>> BY Zenon
  <2>2. 0 \in 0 .. MaxFd /\ sfd[c] \in 0 .. MaxFd BY <1>1 DEF SocketTypeOK
  <2>3. UNCHANGED tfd \/ \E f \in 0 .. MaxFd : tfd' = [tfd EXCEPT ![c] = f] BY Zenon, <2>2
  <2>4. \E place \in {"failed", "send", "recv", "write", "read", "kept", "close"} : Goto(c, place)
    BY Zenon DEF TimesOut, AfterRead
  <2> HIDE <1>6 DEF Write, Read, Begin, Call
  <2> QED BY <2>1, <2>3, <2>4 DEF SocketTypeOK
<1>7. CASE Failed(c) BY Zenon, <1>7 DEF Failed, Shutdown, SocketTypeOK
<1>8. CASE Close(c) BY <1>8, CloseFdType DEF Close, SocketTypeOK
<1>9. CASE Destroy(c) BY <1>9, CloseFdType DEF Destroy, SocketTypeOK
<1> QED BY <1>2, <1>3, <1>4, <1>5, <1>6, <1>7, <1>8, <1>9 DEF ClientAction

\* They keep the invariant: a client socket that moves exists, so that the
\* dispatcher runs or stops, and the listening socket keeps its lease.
LEMMA ClientActionPreserves ==
  ASSUME IInv, NEW c \in Clients, ClientAction(c)
  PROVE  IInv'
<1> USE DEF IInv
<1>1. ServiceInv' BY ClientActionService
<1>2. SocketTypeOK' BY ClientActionType
<1>3. ListenerServes'
  <2>1. PICK place : Goto(c, place) BY ClientActionMoves
  <2>2. /\ pc[c] \notin {"none", "lease"} /\ UNCHANGED <<role, app, acq>>
        /\ leases' \in {leases, leases \ {c}} /\ c # Server /\ Server \in Sockets
    BY ClientActionMoves, SocketsAssumption DEF Sockets
  <2> QED BY <2>1, <2>2, SocketsAssumption DEF ListenerServes, Goto, SocketTypeOK, Sockets
<1> QED BY <1>1, <1>2, <1>3

\* The initial state: a dispatcher that starts, or a worker.
LEMMA InitIInv == Init => IInv
<1> SUFFICES ASSUME Init PROVE IInv OBVIOUS
<1>1. ServiceInv BY ServiceInitInv DEF Init
<1>2. SocketTypeOK BY SocketsAssumption DEF Init, SocketTypeOK, Fds
<1>3. ListenerServes
  BY SocketsAssumption DEF Init, ServiceInit, ListenerServes, Sockets
<1> QED BY <1>1, <1>2, <1>3 DEF IInv

\* A client socket is made while the program runs, ...
LEMMA CreatePreserves == ASSUME IInv, NEW c \in Clients, Create(c) PROVE IInv'
<1> USE SocketsAssumption DEF IInv, Create, socketVars
<1>1. c \in Owners /\ c \in Sockets /\ Server \in Sockets /\ c # Server BY DEF Sockets
<1>2. ServiceInv' BY <1>1, EnsureLeasePreserves
<1>3. SocketTypeOK' BY <1>1 DEF SocketTypeOK, Goto
<1>4. ListenerServes'
  BY <1>1 DEF ListenerServes, EnsureLease, Step, Goto, SocketTypeOK, ServiceInv, ServiceTypeOK
<1> QED BY Zenon, <1>2, <1>3, <1>4

\* ... and has its lease or gives up.
LEMMA LeasedPreserves == ASSUME IInv, NEW c \in Clients, Leased(c) PROVE IInv'
<1> USE SocketsAssumption DEF IInv
<1>1. c \in Owners /\ c \in Sockets /\ Server \in Sockets /\ c # Server BY DEF Sockets
<1>2. /\ pc[c] = "lease" /\ UNCHANGED <<role, app, cancel, socketVars>>
      /\ UNCHANGED <<mtx, node_started, join_count, interrupt, leases, libztVars>>
      /\ \E place \in {"open", "close", "held"} : Goto(c, place)
  BY DEF Leased, GivesUp
<1>3. (acq' = acq /\ acq[c] = "out") \/ acq' = [acq EXCEPT ![c] = "out"]
  BY <1>1 DEF Leased, Step, ServiceInv, LockHeld
<1>4. ServiceTypeOK' BY <1>2, <1>3 DEF ServiceInv, ServiceTypeOK, libztVars
<1>5. LeaseKeepsNetwork' BY <1>2 DEF ServiceInv, LeaseKeepsNetwork, libztVars
<1>6. \A o \in Owners : acq'[o] \in {acq[o], "out"} BY <1>3 DEF ServiceInv, ServiceTypeOK
<1>7. LockHeld' BY <1>2, <1>6 DEF ServiceInv, LockHeld
<1>8. NodeRuns' BY <1>2, <1>6 DEF ServiceInv, NodeRuns, libztVars
<1>9. SocketTypeOK' BY <1>1, <1>2 DEF SocketTypeOK, Goto, socketVars
<1>10. ListenerServes'
  <2>1. /\ acq'[c] = "out" /\ pc'[c] # "none"
        /\ \A o \in Sockets : o # c => pc'[o] = pc[o]
        /\ \A o \in Owners : o # c => acq'[o] = acq[o]
    BY <1>1, <1>2, <1>3 DEF Goto, SocketTypeOK, ServiceInv, ServiceTypeOK
  <2>2. \A o \in Clients : o \in Owners /\ o \in Sockets BY DEF Sockets
  <2> QED BY Zenon, <1>1, <1>2, <2>1, <2>2 DEF ListenerServes
<1> QED BY <1>4, <1>5, <1>7, <1>8, <1>9, <1>10 DEF ServiceInv

\* connect() of a worker's runtime, up to the lease of its socket.
LEMMA RuntimePreserves == IInv /\ (RuntimeConnects \/ StoreSocket \/ RuntimeLease) => IInv'
<1> USE SocketsAssumption DEF IInv
<1> SUFFICES ASSUME IInv, RuntimeConnects \/ StoreSocket \/ RuntimeLease PROVE IInv' OBVIOUS
<1>1. Runtime \in Owners /\ Runtime \in Clients /\ Runtime \in Sockets BY DEF Sockets
<1>2. /\ UNCHANGED <<role, app, cancel, shut>> /\ role = "worker"
      /\ \E place \in {"new", "ready", "open", "lease"} : Goto(Runtime, place)
  BY Zenon, <1>1 DEF RuntimeConnects, StoreSocket, RuntimeLease, Keeps, socketVars, ListenerServes,
     SocketTypeOK
<1>3. \/ UNCHANGED <<serviceVars, libztVars>>
      \/ EnsureLease(Runtime) /\ Goto(Runtime, "lease")
  BY Zenon DEF RuntimeConnects, StoreSocket, RuntimeLease, Keeps
<1>4. ServiceInv' BY Zenon, <1>1, <1>3, ServiceStays, EnsureLeasePreserves
<1>5. UNCHANGED <<sfd, tfd, fdt>> \/ (CloseFd(Runtime) /\ tfd' = [tfd EXCEPT ![Runtime] = 0])
  BY Zenon DEF RuntimeConnects, StoreSocket, RuntimeLease, Keeps, socketVars
<1>6. SocketTypeOK'
  <2>1. /\ sfd' \in [Sockets -> 0 .. MaxFd]
        /\ fdt' \in [Fds -> {"free", "open", "connecting", "connected", "listening"}]
    BY Zenon, <1>1, <1>5, CloseFdType DEF SocketTypeOK
  <2>2. tfd' \in [Sockets -> 0 .. MaxFd] BY <1>1, <1>5 DEF SocketTypeOK
  <2>3. PICK place \in {"new", "ready", "open", "lease"} : Goto(Runtime, place) BY <1>2
  <2> QED BY Zenon, <1>1, <1>2, <2>1, <2>2, <2>3 DEF SocketTypeOK, Goto
<1>7. ListenerServes'
  <2>1. ASSUME NEW c \in Clients, acq'[c] # "out" PROVE pc'[c] = "lease"
    <3>1. c \in Sockets /\ c \in Owners BY DEF Sockets
    <3>2. CASE UNCHANGED <<serviceVars, libztVars>>
      <4>1. acq[Runtime] = "out"
        BY Zenon, <1>1 DEF ListenerServes, RuntimeConnects, StoreSocket, RuntimeLease
      <4> QED BY <1>2, <2>1, <3>1, <3>2, <4>1 DEF ListenerServes, Goto, SocketTypeOK, serviceVars
    <3>3. CASE EnsureLease(Runtime) /\ Goto(Runtime, "lease")
      BY <2>1, <3>1, <3>3 DEF ListenerServes, Goto, EnsureLease, Step, SocketTypeOK, ServiceInv,
         ServiceTypeOK
    <3> QED BY <1>3, <3>2, <3>3
  <2> QED BY <1>2, <2>1 DEF ListenerServes
<1> QED BY <1>4, <1>6, <1>7

\* cancel() changes no place.
LEMMA CancelPreserves ==
  ASSUME IInv, NEW c \in Clients, CancelBegins(c) \/ CancelCloses(c)
  PROVE  IInv'
<1> USE SocketsAssumption DEF IInv
<1>1. c \in Sockets BY DEF Sockets
<1>2. CASE CancelBegins(c)
  <2>1. ServiceInv'
    BY Zenon, <1>2, InterruptPreserves DEF CancelBegins, Shutdown, ServiceInv, ServiceTypeOK
  <2>2. SocketTypeOK' BY Zenon, <1>1, <1>2 DEF CancelBegins, Shutdown, SocketTypeOK
  <2>3. ListenerServes' BY Zenon, <1>2 DEF CancelBegins, ListenerServes
  <2> QED BY <2>1, <2>2, <2>3
<1>3. CASE CancelCloses(c)
  <2>1. ServiceInv' BY Zenon, <1>3, ServiceStays DEF CancelCloses
  <2>2. SocketTypeOK' BY <1>1, <1>3, CloseFdType DEF CancelCloses, SocketTypeOK
  <2>3. ListenerServes' BY Zenon, <1>3 DEF CancelCloses, ListenerServes, serviceVars
  <2> QED BY <2>1, <2>2, <2>3
<1> QED BY <1>2, <1>3

\* The steps of acquire(), of any socket.
LEMMA AcquiringPreserves == ASSUME IInv, NEW o \in Owners, Acquiring(o) PROVE IInv'
<1> USE DEF IInv, Acquiring, socketVars
<1>1. ServiceInv' BY AcquireStepPreserves
<1>2. SocketTypeOK' BY DEF SocketTypeOK
<1>3. leases \subseteq leases'
  BY Zenon DEF AcquireStep, Lock, EnsureNodeStarted, WaitOnline, JoinNetwork, WaitStatus, WaitAddr,
     Throw, Granted
<1>4. acq[o] # "out" /\ \E place : Step(o, place)
  BY Zenon DEF AcquireStep, Lock, EnsureNodeStarted, WaitOnline, JoinNetwork, WaitStatus, WaitAddr,
     Throw, Granted
<1>5. ASSUME role = "dispatcher", o \in Clients PROVE acq'[o] # "threw"
  <2>1. Server \in leases BY Zenon, <1>4, <1>5 DEF ListenerServes
  <2>2. node_started /\ join_count # 0 BY <2>1, LeasesCounted DEF ServiceInv, NodeRuns
  <2>3. acq[o] \notin {"online", "status", "addr"} BY <2>1, <2>2 DEF ServiceInv, NodeRuns
  <2> QED
    BY Zenon, <2>2, <2>3 DEF AcquireStep, Lock, EnsureNodeStarted, WaitOnline, JoinNetwork, WaitStatus,
       WaitAddr, Granted, Step, ServiceInv, ServiceTypeOK
<1>6. ListenerServes'
  BY <1>3, <1>4, <1>5, SocketsAssumption DEF ListenerServes, Step, ServiceInv, ServiceTypeOK
<1> QED BY <1>1, <1>2, <1>6

\* What libzt does by itself moves no socket.
LEMMA LibztKeepsIInv == IInv /\ Libzt => IInv'
<1> SUFFICES ASSUME IInv, Libzt PROVE IInv' OBVIOUS
<1> USE DEF IInv, Libzt, socketVars
<1>1. ServiceInv' BY LibztPreserves
<1>2. SocketTypeOK' BY DEF SocketTypeOK
<1>3. ListenerServes' BY DEF ListenerServes, NodeChanges, NetworkChanges, serviceVars
<1> QED BY <1>1, <1>2, <1>3

\* The accepted sockets, which have no lease.
LEMMA AcceptedPreserves ==
  ASSUME IInv, NEW k \in Accepted, Accept(k) \/ SessionEnds(k)
  PROVE  IInv'
<1> USE SocketsAssumption DEF IInv
<1>1. k \in Sockets /\ k # Server /\ k \notin Clients /\ Server \in Sockets BY DEF Sockets
<1>2. /\ UNCHANGED <<role, app, cancel, tfd>> /\ \E place \in {"live", "none"} : Goto(k, place)
      /\ UNCHANGED <<mtx, acq, node_started, join_count, leases, libztVars>>
      /\ interrupt' \in {interrupt, TRUE} /\ shut' \in [Sockets -> BOOLEAN]
  BY Zenon, <1>1 DEF Accept, SessionEnds, Keeps, serviceVars, Shutdown, SocketTypeOK
<1>3. ServiceInv' BY Zenon, <1>2, InterruptPreserves DEF ServiceInv, ServiceTypeOK
<1>4. /\ sfd' \in [Sockets -> 0 .. MaxFd]
      /\ fdt' \in [Fds -> {"free", "open", "connecting", "connected", "listening"}]
  <2>1. CASE Accept(k)
    <3>1. Min(Free) \in Fds BY <2>1, MinIsFree DEF Accept
    <3> QED BY <1>1, <2>1, <3>1 DEF Accept, SocketTypeOK, Fds
  <2>2. CASE SessionEnds(k) BY <1>1, <2>2, CloseFdType DEF SessionEnds
  <2> QED BY <2>1, <2>2
<1>5. SocketTypeOK'
  <2>1. PICK place \in {"live", "none"} : Goto(k, place) BY <1>2
  <2> QED BY Zenon, <1>1, <1>2, <1>4, <2>1 DEF SocketTypeOK, Goto
<1>6. ListenerServes' BY <1>1, <1>2 DEF ListenerServes, Goto, SocketTypeOK
<1> QED BY <1>3, <1>5, <1>6

\* The start of the dispatcher: its listening socket takes its lease first, ...
LEMMA ServerStartPreserves == IInv /\ (StartServer \/ Listen \/ StartAcceptor) => IInv'
<1> USE SocketsAssumption DEF IInv
<1> SUFFICES ASSUME IInv, StartServer \/ Listen \/ StartAcceptor PROVE IInv' OBVIOUS
<1>1. Server \in Owners /\ Server \in Sockets /\ \A c \in Clients : c \in Sockets /\ c # Server
  BY DEF Sockets
<1>2. CASE StartServer
  <2>1. ServiceInv' BY <1>1, <1>2, EnsureLeasePreserves DEF StartServer
  <2>2. SocketTypeOK' BY <1>1, <1>2 DEF StartServer, SocketTypeOK, Goto, socketVars
  <2>3. ListenerServes'
    BY <1>1, <1>2 DEF StartServer, ListenerServes, EnsureLease, Step, Goto, SocketTypeOK, ServiceInv,
       ServiceTypeOK
  <2> QED BY <2>1, <2>2, <2>3
<1>3. CASE Listen
  <2>1. ServiceInv' BY Zenon, <1>3, ServiceStays DEF Listen
  <2>2. SocketTypeOK' BY Zenon, <1>1, <1>3, OpenFdType DEF Listen, SocketTypeOK, Goto
  <2>3. ListenerServes' BY <1>1, <1>3 DEF Listen, ListenerServes, Goto, SocketTypeOK, serviceVars
  <2> QED BY <2>1, <2>2, <2>3
<1>4. CASE StartAcceptor
  <2>1. ServiceInv' BY Zenon, <1>4, ServiceStays DEF StartAcceptor
  <2>2. SocketTypeOK' BY Zenon, <1>1, <1>4 DEF StartAcceptor, SocketTypeOK, Goto
  <2>3. ListenerServes' BY Zenon, <1>1, <1>4 DEF StartAcceptor, ListenerServes, Goto, SocketTypeOK, serviceVars
  <2> QED BY <2>1, <2>2, <2>3
<1> QED BY <1>2, <1>3, <1>4

\* ... and its end, which gives the lease back last.
LEMMA ServerStopPreserves ==
  IInv /\ (StopBegins \/ ServerStops \/ AcceptorEnds \/ CloseListener \/ DestroyServer) => IInv'
<1> USE SocketsAssumption DEF IInv
<1> SUFFICES ASSUME IInv, StopBegins \/ ServerStops \/ AcceptorEnds \/ CloseListener \/ DestroyServer
             PROVE  IInv'
  OBVIOUS
<1>1. Server \in Owners /\ Server \in Sockets /\ \A c \in Clients : c \in Sockets /\ c # Server
  BY DEF Sockets
<1>2. CASE StopBegins \/ ServerStops
  <2>1. ServiceInv' BY <1>2, ServiceStays DEF StopBegins, ServerStops
  <2>2. SocketTypeOK' BY <1>2 DEF StopBegins, ServerStops, SocketTypeOK, socketVars
  <2>3. CASE StopBegins
    <3>1. ListenerServes' BY <2>3 DEF StopBegins, ListenerServes, serviceVars
    <3> QED BY <2>1, <2>2, <3>1
  <2>4. CASE ServerStops
    <3>1. ASSUME role = "dispatcher" PROVE \A c \in Clients : pc[c] = "none"
      BY Zenon, <2>4, <3>1 DEF ServerStops, Users, ListenerServes
    <3>2. ListenerServes' BY Zenon, <2>4, <3>1 DEF ServerStops, ListenerServes, serviceVars
    <3> QED BY <2>1, <2>2, <3>2
  <2> QED BY <1>2, <2>3, <2>4
<1>3. CASE AcceptorEnds
  <2>1. ServiceInv' BY Zenon, <1>3, ServiceStays DEF AcceptorEnds, Keeps
  <2>2. SocketTypeOK' BY Zenon, <1>1, <1>3 DEF AcceptorEnds, Keeps, SocketTypeOK, Goto, socketVars
  <2>3. ListenerServes'
    BY <1>1, <1>3 DEF AcceptorEnds, Keeps, ListenerServes, Goto, SocketTypeOK, serviceVars
  <2> QED BY <2>1, <2>2, <2>3
<1>4. CASE CloseListener
  <2>1. ServiceInv' BY <1>4, ServiceStays DEF CloseListener
  <2>2. SocketTypeOK' BY Zenon, <1>1, <1>4, CloseFdType DEF CloseListener, SocketTypeOK, Goto
  <2>3. ListenerServes' BY <1>1, <1>4 DEF CloseListener, ListenerServes, Goto, SocketTypeOK, serviceVars
  <2> QED BY <2>1, <2>2, <2>3
<1>5. CASE DestroyServer
  <2>1. ServiceInv' BY <1>1, <1>5, ReleasePreserves DEF DestroyServer
  <2>2. SocketTypeOK' BY Zenon, <1>1, <1>5, CloseFdType DEF DestroyServer, SocketTypeOK, Goto
  <2>3. ListenerServes'
    BY <1>1, <1>5 DEF DestroyServer, Release, ListenerServes, Goto, SocketTypeOK
  <2> QED BY <2>1, <2>2, <2>3
<1> QED BY Zenon, <1>2, <1>3, <1>4, <1>5

-----------------------------------------------------------------------------
(* The theorems *)

\* Every step keeps the invariant.
LEMMA NextPreserves == IInv /\ [Next]_vars => IInv'
<1> SUFFICES ASSUME IInv, [Next]_vars PROVE IInv' OBVIOUS
<1>1. ASSUME NEW c \in Clients, Create(c) \/ Leased(c) \/ CancelBegins(c) \/ CancelCloses(c)
      PROVE  IInv'
  BY <1>1, CreatePreserves, LeasedPreserves, CancelPreserves
<1>8. CASE RuntimeConnects \/ StoreSocket \/ RuntimeLease BY <1>8, RuntimePreserves
<1>2. ASSUME NEW c \in Clients, ClientAction(c) PROVE IInv' BY <1>2, ClientActionPreserves
<1>3. CASE StartServer \/ ServerStep \/ StopBegins
  BY <1>3, ServerStartPreserves, ServerStopPreserves DEF ServerStep
<1>4. CASE \E k \in Accepted : Accept(k) \/ SessionEnds(k) BY <1>4, AcceptedPreserves
<1>5. CASE \E o \in Owners : Acquiring(o) BY <1>5, AcquiringPreserves
<1>6. CASE Libzt BY <1>6, LibztKeepsIInv
<1>7. CASE UNCHANGED vars
  <2>1. ServiceInv' BY <1>7, ServiceStays DEF vars, IInv
  <2>2. SocketTypeOK' BY Zenon, <1>7 DEF vars, IInv, SocketTypeOK
  <2>3. ListenerServes' BY Zenon, <1>7 DEF vars, serviceVars, IInv, ListenerServes
  <2> QED BY <2>1, <2>2, <2>3 DEF IInv
<1> QED BY <1>1, <1>2, <1>3, <1>4, <1>5, <1>6, <1>7, <1>8 DEF Next, ClientStep, ClientAction

\* The invariant holds throughout, in particular the types.
THEOREM SocketInvariant == Spec => []IInv
<1>1. Init => IInv BY InitIInv
<1>2. IInv /\ [Next]_vars => IInv' BY NextPreserves
<1> QED BY <1>1, <1>2, PTL DEF Spec

\* The reference count of ZeroTierNodeService is the number of leases that are
\* held, and the network is joined as long as there is one, for any number of
\* sockets that acquire, fail half way and release.
THEOREM LeasesKeepNetwork == Spec => []LeaseKeepsNetwork
<1>1. IInv => LeaseKeepsNetwork BY DEF IInv, ServiceInv
<1> QED BY <1>1, SocketInvariant, PTL

\* No client socket of a dispatcher waits for the network or is refused it: the
\* lease of the listening socket outlives every exchange.
THEOREM DispatcherClientsNeverWait == Spec => []ClientsNeverWait
<1>1. IInv => ClientsNeverWait
  <2> SUFFICES ASSUME IInv, role = "dispatcher", NEW c \in Clients, acq[c] # "out"
               PROVE  acq[c] \in {"lock", "start", "join"}
    BY DEF ClientsNeverWait
  <2>1. Server \in leases /\ acq[c] # "threw" BY Zenon DEF IInv, ListenerServes
  <2>2. c \in Owners BY SocketsAssumption
  <2> QED BY Zenon, <2>1, <2>2 DEF IInv, ServiceInv, NodeRuns, ServiceTypeOK
<1> QED BY <1>1, SocketInvariant, PTL
=============================================================================
