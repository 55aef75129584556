------------------------- MODULE NodeServiceProofs -------------------------
(***************************************************************************)
(* The safety of libzt's node service and of its store, for any sets of    *)
(* networks, addresses, identities and configurations.                     *)
(***************************************************************************)
EXTENDS NodeService, TLAPS

\* An identity that is stored completely stays in its file, and whoever has an
\* identity or is about to store one has that one.
IdentityStored ==
    /\ kept # None => disk[Identity] = kept
    /\ put # None => put.object \in Objects
    /\ put # None /\ put.object = Identity =>
          /\ kept = None /\ put.value \in Identities
          /\ node # None => node = put.value
          /\ memory # None => memory = put.value
    /\ put # None /\ put.object # Identity => put.value \in Contents
    /\ kept # None /\ memory # None => memory = kept

\* Until the cached networks are joined the store has its path, and before that
\* there is no network; a wanted network has a file.
Starting == {"off", "home", "ports", "cached"}
NetworksStored ==
    /\ pc \in Starting => home
    /\ pc \in Starting \ {"cached"} => core = {}
    /\ pc \in {"off", "home"} => node = None
    /\ \A n \in wanted : disk[n] # None
    /\ pc \in InLoop \cup {"clear", "tell"} => wanted \subseteq core

\* The entries of _nets are those of the joined networks until they are all
\* dropped, and of a network that is not joined nothing is known.
EntriesJoined ==
    /\ \A n \in Networks : n \notin core => nets[n] = None
    /\ pc \in InLoop \cup {"cached"} => \A n \in core : nets[n] # None
    /\ pc = "off" => ~events /\ \A n \in Networks : heard[n].addrs = {}
    /\ events => \A n \in Networks : n \notin core => heard[n].addrs = {}

\* The inductive invariant.
IInv ==
    /\ TypeOK /\ IdentityStored /\ IdentityKept
    /\ NetworksStored /\ EntriesJoined /\ AddressesAsAnnounced

-----------------------------------------------------------------------------
(* The parts of it, under the steps that do not touch their variables *)

\* Whatever leaves the store and the identity of the core alone, or ends them.
LEMMA StoreStays ==
  ASSUME IdentityStored, IdentityKept, UNCHANGED <<disk, put, kept>>,
         node' \in {node, None}, memory' \in {memory, None}
  PROVE  IdentityStored' /\ IdentityKept'
BY DEF IdentityStored, IdentityKept

\* Each part of the types stays with its variables.
LEMMA TypesStay ==
  ASSUME TypeOK
  PROVE  /\ UNCHANGED storeVars => StoreTypeOK'
         /\ UNCHANGED runVars => RunTypeOK'
         /\ UNCHANGED netVars => NetTypeOK'
<1> USE DEF TypeOK
<1>1. UNCHANGED storeVars => StoreTypeOK' BY Zenon DEF StoreTypeOK, storeVars
<1>2. UNCHANGED runVars => RunTypeOK' BY Zenon DEF RunTypeOK, runVars
<1>3. UNCHANGED netVars => NetTypeOK' BY Zenon DEF NetTypeOK, netVars
<1> QED BY Zenon, <1>1, <1>2, <1>3

\* Whatever leaves the networks alone and moves run() on within its loop or
\* towards its end.
LEMMA NetworksStay ==
  ASSUME NetworksStored, EntriesJoined, AddressesAsAnnounced,
         UNCHANGED <<disk, core, nets, heard, wanted>>,
         UNCHANGED events \/ events' = FALSE,
         pc \notin Starting, pc' \notin Starting,
         pc' \in InLoop => pc \in InLoop,
         pc' \in InLoop \cup {"clear", "tell"} => pc \in InLoop \cup {"clear", "tell"}
  PROVE  NetworksStored' /\ EntriesJoined' /\ AddressesAsAnnounced'
<1>1. NetworksStored' BY DEF NetworksStored, Starting
<1>2. EntriesJoined'
  <2>1. CASE UNCHANGED events BY <2>1 DEF EntriesJoined, Starting
  <2>2. CASE events' = FALSE BY <2>2 DEF EntriesJoined, Starting
  <2> QED BY Zenon, <2>1, <2>2
<1>3. AddressesAsAnnounced' BY Zenon DEF AddressesAsAnnounced
<1> QED BY <1>1, <1>2, <1>3

-----------------------------------------------------------------------------
(* The callbacks for a network *)

\* A config is taken: of the other networks nothing changes, and where the
\* addresses of the entry were known those of the new one are.
LEMMA TakeConfigResult ==
  ASSUME TypeOK, NEW n \in Networks, NEW entry \in NetworkStates,
         NEW s \in Statuses, NEW new \in SUBSET Addrs, TakeConfig(n, entry, s, new)
  PROVE  /\ nets' \in [Networks -> NetworkStates \cup {None}] /\ heard' \in [Networks -> News]
         /\ nets'[n] \in NetworkStates
         /\ \A m \in Networks \ {n} : nets'[m] = nets[m] /\ heard'[m] = heard[m]
         /\ events /\ heard[n].addrs = entry.ips => heard'[n].addrs = nets'[n].ips
<1> DEFINE copied == [entry EXCEPT !.filled = TRUE, !.status = s]
<1>1. copied \in NetworkStates /\ copied.ips = entry.ips BY DEF NetworkStates
<1>2. PICK dropped \in SUBSET Addrs, taken \in SUBSET Addrs :
         /\ nets' = [nets EXCEPT ![n] = [copied EXCEPT !.managedIps = new,
                                                      !.ips = (@ \ dropped) \cup taken]]
         /\ Tell([heard EXCEPT ![n].addrs = (@ \ dropped) \cup taken])
  <2> HIDE DEF copied
  <2>1. SyncManagedStuff(n, copied, new) BY DEF TakeConfig, copied
  <2>2. copied.ips \subseteq Addrs BY <1>1 DEF NetworkStates
  <2> QED BY Zenon, <2>1, <2>2 DEF SyncManagedStuff
<1> DEFINE synced == [copied EXCEPT !.managedIps = new, !.ips = (@ \ dropped) \cup taken]
<1>3. synced \in NetworkStates /\ synced.ips = (entry.ips \ dropped) \cup taken
  <2> HIDE DEF copied
  <2> QED BY <1>1 DEF NetworkStates
<1>4. nets' = [nets EXCEPT ![n] = synced] BY <1>2
<1> HIDE DEF synced, copied
<1>5. /\ nets' \in [Networks -> NetworkStates \cup {None}] /\ nets'[n] = synced
      /\ \A m \in Networks \ {n} : nets'[m] = nets[m]
  BY <1>3, <1>4 DEF TypeOK, NetTypeOK
<1>6. /\ heard' \in [Networks -> News]
      /\ \A m \in Networks \ {n} : heard'[m] = heard[m]
      /\ events => heard'[n].addrs = (heard[n].addrs \ dropped) \cup taken
  BY <1>2 DEF Tell, TypeOK, NetTypeOK, News
<1> QED BY Zenon, <1>3, <1>5, <1>6

\* A network is reported as up: its entry has the addresses that were announced.
LEMMA UpResult ==
  ASSUME TypeOK, NEW n \in Networks, nets[n] = None, events => heard[n].addrs = {}, Up(n)
  PROVE  /\ nets' \in [Networks -> NetworkStates \cup {None}] /\ heard' \in [Networks -> News]
         /\ nets'[n] \in NetworkStates
         /\ \A m \in Networks \ {n} : nets'[m] = nets[m] /\ heard'[m] = heard[m]
         /\ events => heard'[n].addrs = nets'[n].ips
<1>1. PICK t \in TapStatuses, new \in SUBSET Addrs :
         LET entry == IF nets[n] = None THEN [Fresh EXCEPT !.tap = TRUE, !.told = t] ELSE nets[n]
         IN  IF Get(n) \in Contents THEN TakeConfig(n, entry, "ok", new)
             ELSE TakeConfig(n, entry, "requesting", {})
  BY Zenon DEF Up
<1> DEFINE entry == [Fresh EXCEPT !.tap = TRUE, !.told = t]
<1>2. entry \in NetworkStates /\ entry.ips = {}
  BY DEF Fresh, NetworkStates, Statuses, Announced, TapStatuses
<1>3. PICK s \in Statuses, given \in SUBSET Addrs : TakeConfig(n, entry, s, given)
  <2> HIDE DEF entry
  <2>1. TakeConfig(n, entry, "ok", new) \/ TakeConfig(n, entry, "requesting", {})
    BY Zenon, <1>1 DEF entry
  <2> QED BY <2>1 DEF Statuses, Announced
<1> HIDE DEF entry
<1> QED BY Zenon, <1>2, <1>3, TakeConfigResult

-----------------------------------------------------------------------------
(* The start of run() *)

\* The initial state satisfies the invariant.
LEMMA InitIInv == Init => IInv
<1> SUFFICES ASSUME Init PROVE IInv OBVIOUS
<1> USE DEF Init, StoreInit
<1>1. TypeOK
  <2>1. heard \in [Networks -> News] BY DEF Unheard, News
  <2> QED BY Zenon, <2>1 DEF TypeOK, StoreTypeOK, RunTypeOK, NetTypeOK, Objects
<1>2. IdentityStored /\ IdentityKept BY DEF IdentityStored, IdentityKept
<1>3. NetworksStored BY DEF NetworksStored, Starting, InLoop
<1>4. EntriesJoined BY DEF EntriesJoined, InLoop, Unheard
<1>5. AddressesAsAnnounced BY DEF AddressesAsAnnounced
<1> QED BY <1>1, <1>2, <1>3, <1>4, <1>5 DEF IInv

\* A start of the process.
LEMMA StartPreserves == IInv /\ Start => IInv'
<1> SUFFICES ASSUME IInv, Start PROVE IInv' OBVIOUS
<1> USE DEF IInv, Start, storeVars
<1>1. TypeOK' BY NetworkAssumption DEF TypeOK, StoreTypeOK, RunTypeOK, NetTypeOK
<1>2. IdentityStored' /\ IdentityKept' BY StoreStays
<1>3. NetworksStored' BY DEF NetworksStored, Starting, InLoop
<1>4. EntriesJoined' BY DEF EntriesJoined, InLoop
<1>5. AddressesAsAnnounced'
  BY DEF AddressesAsAnnounced, EntriesJoined, NetworksStored, Starting, TypeOK, StoreTypeOK
<1> QED BY <1>1, <1>2, <1>3, <1>4, <1>5

\* The core takes the stored identity or makes one.
LEMMA NewNodePreserves == IInv /\ NewNode => IInv'
<1> SUFFICES ASSUME IInv, NewNode PROVE IInv' OBVIOUS
<1> USE DEF IInv
<1>1. home /\ node = None BY DEF NewNode, NetworksStored, Starting
<1>2. PICK i \in Identities : /\ node' = i /\ made' = made \cup {i} /\ Put(Identity, i)
                              /\ kept # None => i = kept
  <2>1. CASE Get(Identity) \in Identities
    <3>1. node' = Get(Identity) /\ made' = made \cup {Get(Identity)} /\ Put(Identity, Get(Identity))
      BY <2>1 DEF NewNode
    <3>2. kept # None => Get(Identity) = kept BY <1>1 DEF IdentityStored, Get
    <3> QED BY <2>1, <3>1, <3>2
  <2>2. CASE Get(Identity) \notin Identities
    <3>1. \E new \in Identities : new \notin made BY <2>2 DEF NewNode, TypeOK, RunTypeOK
    <3>2. kept = None BY <1>1, <2>2 DEF IdentityStored, Get, TypeOK, StoreTypeOK
    <3> QED BY Zenon, <2>2, <3>1, <3>2 DEF NewNode
  <2> QED BY <2>1, <2>2
<1>3. /\ put = None /\ memory' = i /\ UNCHANGED <<home, kept>>
      /\ \/ UNCHANGED <<disk, put>>
         \/ /\ disk[Identity] # i /\ disk' = [disk EXCEPT ![Identity] = Blank]
            /\ put' = [object |-> Identity, value |-> i]
  BY <1>2 DEF Put
<1>4. pc = "home" /\ pc' = "ports" /\ UNCHANGED <<netVars, run_, termReason, online>>
      /\ nodeIsOnline' = FALSE
  BY DEF NewNode
<1>5. TypeOK'
  <2>1. disk' \in [Objects -> Identities \cup Contents \cup {None, Blank}]
    BY <1>3 DEF TypeOK, StoreTypeOK, Objects
  <2>2. put' \in [object : Objects, value : Identities \cup Contents] \cup {None}
    BY <1>2, <1>3 DEF Objects
  <2> QED BY Zenon, <1>2, <1>3, <1>4, <2>1, <2>2 DEF TypeOK, StoreTypeOK, RunTypeOK, NetTypeOK, netVars
<1>6. IdentityStored' /\ IdentityKept'
  BY <1>1, <1>2, <1>3, StoreAssumption DEF IdentityStored, IdentityKept, TypeOK, StoreTypeOK, Objects
<1>7. NetworksStored'
  BY Zenon, <1>3, <1>4, StoreAssumption
     DEF NetworksStored, TypeOK, StoreTypeOK, NetTypeOK, Starting, InLoop, Objects, netVars
<1>8. EntriesJoined' BY <1>4 DEF EntriesJoined, InLoop, netVars
<1>9. AddressesAsAnnounced' BY <1>4 DEF AddressesAsAnnounced, netVars
<1> QED BY <1>5, <1>6, <1>7, <1>8, <1>9

\* A put comes to its end, or is only reported to have failed.
LEMMA WrittenPreserves == IInv /\ Written => IInv'
<1> SUFFICES ASSUME IInv, Written PROVE IInv' OBVIOUS
<1> USE DEF IInv, Written, WritePut, runVars, netVars
<1>1. put.object \in Objects /\ put.value \in Identities \cup Contents
  BY DEF TypeOK, StoreTypeOK
<1>2. TypeOK' BY <1>1 DEF TypeOK, StoreTypeOK, RunTypeOK, NetTypeOK, IdentityStored
<1>3. IdentityStored' /\ IdentityKept'
  BY <1>1, StoreAssumption DEF IdentityStored, IdentityKept, TypeOK, StoreTypeOK, Objects
<1>4. NetworksStored'
  BY SMTT(60), <1>1, StoreAssumption DEF NetworksStored, TypeOK, StoreTypeOK, NetTypeOK, Objects
<1>5. EntriesJoined' BY Zenon DEF EntriesJoined
<1>6. AddressesAsAnnounced' BY DEF AddressesAsAnnounced
<1> QED BY <1>2, <1>3, <1>4, <1>5, <1>6

\* The networks that have a file are joined, one by one.
LEMMA JoinCachedPreserves == IInv /\ JoinCached => IInv'
<1> SUFFICES ASSUME IInv, JoinCached PROVE IInv' OBVIOUS
<1> USE DEF IInv
<1>1. /\ pc = "cached" /\ home /\ Cached = {n \in Networks : disk[n] # None}
      /\ UNCHANGED <<storeVars, run_, termReason, node, online, nodeIsOnline, made,
                     events, garbage, wanted>>
  BY DEF JoinCached, NetworksStored, Starting, Cached
<1>2. IdentityStored' /\ IdentityKept' BY <1>1, StoreStays DEF storeVars
<1>3. CASE Cached \subseteq core /\ pc' = "loop" /\ UNCHANGED <<core, nets, heard>>
  <2> USE <1>1, <1>3 DEF storeVars
  <2>1. TypeOK'
    <3>1. StoreTypeOK' BY Zenon, TypesStay
    <3>2. RunTypeOK' BY DEF TypeOK, RunTypeOK
    <3>3. NetTypeOK' BY Zenon, TypesStay DEF netVars
    <3> QED BY Zenon, <3>1, <3>2, <3>3 DEF TypeOK
  <2>2. wanted \subseteq core BY Zenon DEF NetworksStored, TypeOK, NetTypeOK
  <2>3. NetworksStored' BY <2>2 DEF NetworksStored, Starting, InLoop
  <2>4. EntriesJoined' BY DEF EntriesJoined, InLoop
  <2>5. AddressesAsAnnounced' BY Zenon DEF AddressesAsAnnounced
  <2> QED BY Zenon, <1>2, <2>1, <2>3, <2>4, <2>5
<1>4. ASSUME NEW n \in Cached \ core, core' = core \cup {n}, Up(n), UNCHANGED pc
      PROVE  IInv'
  <2>1. n \in Networks /\ n \notin core /\ nets[n] = None /\ (events => heard[n].addrs = {})
    BY <1>1, <1>4 DEF EntriesJoined
  <2>2. /\ nets' \in [Networks -> NetworkStates \cup {None}] /\ heard' \in [Networks -> News]
        /\ nets'[n] \in NetworkStates
        /\ \A m \in Networks \ {n} : nets'[m] = nets[m] /\ heard'[m] = heard[m]
        /\ events => heard'[n].addrs = nets'[n].ips
    BY Zenon, <1>4, <2>1, UpResult
  <2>3. TypeOK'
    <3>1. StoreTypeOK' BY Zenon, <1>1, TypesStay
    <3>2. RunTypeOK' BY Zenon, <1>1, <1>4 DEF TypeOK, RunTypeOK
    <3>3. NetTypeOK' BY <1>1, <1>4, <2>1, <2>2 DEF TypeOK, NetTypeOK
    <3> QED BY Zenon, <3>1, <3>2, <3>3 DEF TypeOK
  <2>4. NetworksStored' BY <1>1, <1>4 DEF NetworksStored, Starting, InLoop, storeVars
  <2>5. EntriesJoined'
    <3>1. \A m \in Networks : m \notin core' => m # n /\ m \notin core BY Zenon, <1>4
    <3>2. \A m \in core' : nets'[m] # None
      BY Zenon, <1>1, <1>4, <2>2, NetworkAssumption DEF EntriesJoined, TypeOK, NetTypeOK
    <3> QED BY Zenon, <1>1, <1>4, <2>2, <3>1, <3>2 DEF EntriesJoined
  <2>6. AddressesAsAnnounced' BY Zenon, <1>1, <2>2 DEF AddressesAsAnnounced
  <2> QED BY Zenon, <1>2, <2>3, <2>4, <2>5, <2>6
<1> QED BY Zenon, <1>3, <1>4 DEF JoinCached

\* The early returns of the start, and the choice of the ports.
LEMMA StartingPreserves == IInv /\ (StartFails \/ PickPorts) => IInv'
<1> SUFFICES ASSUME IInv, StartFails \/ PickPorts PROVE IInv' OBVIOUS
<1> USE DEF IInv, StartFails, PickPorts, storeVars, netVars
<1>1. TypeOK' BY DEF TypeOK, StoreTypeOK, RunTypeOK, NetTypeOK
<1>2. IdentityStored' /\ IdentityKept' BY StoreStays
<1>3. NetworksStored' BY DEF NetworksStored, Starting, InLoop
<1>4. EntriesJoined' BY DEF EntriesJoined, NetworksStored, Starting, InLoop
<1>5. AddressesAsAnnounced' BY Zenon DEF AddressesAsAnnounced
<1> QED BY <1>1, <1>2, <1>3, <1>4, <1>5

-----------------------------------------------------------------------------
(* The main loop *)

\* The top of the loop, an idle iteration, a change of the node's state, and the
\* handlers around the loop: neither the store nor the networks change.
LEMMA LoopPreserves == IInv /\ (LoopTop \/ Idle \/ NodeEvent \/ Throws) => IInv'
<1> SUFFICES ASSUME IInv, LoopTop \/ Idle \/ NodeEvent \/ Throws PROVE IInv' OBVIOUS
<1> USE DEF IInv
<1>1. /\ UNCHANGED <<storeVars, netVars, node, made, run_>>
      /\ pc \in InLoop /\ pc' \in InLoop \cup {"clear"}
  BY DEF LoopTop, Idle, NodeEvent, Throws, Poll, InLoop
<1>2. online' \in BOOLEAN /\ nodeIsOnline' \in BOOLEAN
  BY Zenon DEF TypeOK, RunTypeOK, LoopTop, Idle, NodeEvent, Throws, Poll
<1>3. termReason' \in {"running", "normal", "error", "collision"}
  BY DEF TypeOK, RunTypeOK, LoopTop, Idle, NodeEvent, Throws, Poll
<1>4. TypeOK'
  BY <1>1, <1>2, <1>3 DEF TypeOK, StoreTypeOK, RunTypeOK, NetTypeOK, InLoop, storeVars, netVars
<1>5. IdentityStored' /\ IdentityKept' BY <1>1, StoreStays DEF storeVars
<1>6. NetworksStored' /\ EntriesJoined' /\ AddressesAsAnnounced'
  BY <1>1, NetworksStay DEF storeVars, netVars, InLoop, Starting
<1> QED BY <1>4, <1>5, <1>6

\* The events that generateSyntheticEvents() makes: of each entry it changes
\* what was told, and of each news the status.
LEMMA AnnouncePreserves == IInv /\ Announce => IInv'
<1> SUFFICES ASSUME IInv, Announce PROVE IInv' OBVIOUS
<1> USE DEF IInv, Announce, storeVars
<1> DEFINE S == IF online /\ lwip THEN Changed ELSE {}
<1>0. TellStatus(S) /\ S \subseteq Changed
  <2>1. TellStatus(S) BY Zenon DEF GenerateSyntheticEvents
  <2> QED BY Zenon, <2>1
<1> HIDE DEF S
<1>1. \A n \in Networks :
         /\ nets[n] = None => nets'[n] = None
         /\ nets[n] # None => nets'[n] \in NetworkStates /\ nets'[n].ips = nets[n].ips
  <2> SUFFICES ASSUME NEW n \in Networks
               PROVE  /\ nets[n] = None => nets'[n] = None
                      /\ nets[n] # None => nets'[n] \in NetworkStates /\ nets'[n].ips = nets[n].ips
    BY Zenon
  <2>1. nets[n] \in NetworkStates \cup {None} BY Zenon DEF TypeOK, NetTypeOK
  <2>2. nets'[n] = nets[n] \/ (nets[n] # None /\ nets'[n] = [nets[n] EXCEPT !.told = nets[n].status])
    BY <1>0 DEF TellStatus, Changed
  <2>3. ASSUME nets[n] \in NetworkStates
        PROVE  /\ [nets[n] EXCEPT !.told = nets[n].status] \in NetworkStates
               /\ [nets[n] EXCEPT !.told = nets[n].status].ips = nets[n].ips
    BY <2>3 DEF NetworkStates
  <2> QED BY Zenon, <2>1, <2>2, <2>3, NetworkAssumption
<1>2. \A n \in Networks : heard'[n] \in News /\ heard'[n].addrs = heard[n].addrs
  <2> SUFFICES ASSUME NEW n \in Networks
               PROVE  heard'[n] \in News /\ heard'[n].addrs = heard[n].addrs
    BY Zenon
  <2>1. heard[n] \in News BY Zenon DEF TypeOK, NetTypeOK
  <2>2. \/ heard'[n] = heard[n]
        \/ \E status \in Statuses : heard'[n] = [heard[n] EXCEPT !.status = status]
    BY Zenon, <1>0 DEF TellStatus, Tell, Statuses, TypeOK, NetTypeOK
  <2> QED BY <2>1, <2>2 DEF News
<1>3. nets' \in [Networks -> NetworkStates \cup {None}] /\ heard' \in [Networks -> News]
  BY <1>0, <1>1, <1>2 DEF TypeOK, NetTypeOK, TellStatus, Tell
<1>4. TypeOK' BY <1>3 DEF TypeOK, StoreTypeOK, RunTypeOK, NetTypeOK
<1>5. IdentityStored' /\ IdentityKept' BY StoreStays
<1>6. NetworksStored' BY DEF NetworksStored, Starting, InLoop
<1>7. EntriesJoined' BY <1>1, <1>2, NetworkAssumption DEF EntriesJoined, InLoop, TypeOK, NetTypeOK
<1>8. AddressesAsAnnounced' BY <1>1, <1>2, NetworkAssumption DEF AddressesAsAnnounced
<1> QED BY <1>4, <1>5, <1>6, <1>7, <1>8

\* A network's configuration: the tap may fail to drop or to take addresses, and
\* the put of the configuration opens the network's file.
LEMMA ConfiguredPreserves == IInv /\ Configured => IInv'
<1> SUFFICES ASSUME IInv, Configured PROVE IInv' OBVIOUS
<1> USE DEF IInv
<1>1. PICK n \in Networks : ConfigUpdate(n) BY DEF Configured, Poll
<1>2. /\ pc = "poll" /\ pc' = "loop"
      /\ UNCHANGED <<node, made, run_, termReason, online, nodeIsOnline, core, events, garbage, wanted>>
  BY SMTT(60), <1>1 DEF Configured, Poll, ConfigUpdate
<1>3. n \in core /\ nets[n] \in NetworkStates
  BY Zenon, <1>1, <1>2 DEF ConfigUpdate, EntriesJoined, InLoop, TypeOK, NetTypeOK
<1>4. PICK s \in Statuses, new \in SUBSET Addrs : TakeConfig(n, nets[n], s, new)
  BY <1>1 DEF ConfigUpdate
<1>5. /\ nets' \in [Networks -> NetworkStates \cup {None}] /\ heard' \in [Networks -> News]
      /\ nets'[n] \in NetworkStates
      /\ \A m \in Networks \ {n} : nets'[m] = nets[m] /\ heard'[m] = heard[m]
      /\ events /\ heard[n].addrs = nets[n].ips => heard'[n].addrs = nets'[n].ips
  BY Zenon, <1>3, <1>4, TakeConfigResult
<1>6. PICK c \in Contents : Put(n, c) BY <1>1 DEF ConfigUpdate
<1>7. /\ put = None /\ UNCHANGED <<memory, home, kept>>
      /\ \/ UNCHANGED <<disk, put>>
         \/ /\ disk' = [disk EXCEPT ![n] = Blank]
            /\ put' = [object |-> n, value |-> c]
  BY <1>6, StoreAssumption DEF Put
<1>8. TypeOK'
  <2>1. disk' \in [Objects -> Identities \cup Contents \cup {None, Blank}]
    BY <1>7 DEF TypeOK, StoreTypeOK, Objects
  <2>2. put' \in [object : Objects, value : Identities \cup Contents] \cup {None}
    BY SMTT(60), <1>7 DEF Objects
  <2> QED BY <1>2, <1>5, <1>7, <2>1, <2>2 DEF TypeOK, StoreTypeOK, RunTypeOK, NetTypeOK
<1>9. IdentityStored' /\ IdentityKept'
  BY <1>2, <1>7, StoreAssumption DEF IdentityStored, IdentityKept, Objects, TypeOK, StoreTypeOK
<1>10. NetworksStored'
  BY SMTT(60), <1>2, <1>7, StoreAssumption
     DEF NetworksStored, Starting, InLoop, TypeOK, StoreTypeOK, NetTypeOK, Objects
<1>11. EntriesJoined'
  <2>1. \A m \in Networks : m \notin core => nets'[m] = None /\ heard'[m] = heard[m]
    BY SMTT(60), <1>3, <1>5 DEF EntriesJoined
  <2>2. \A m \in core : nets'[m] # None
    BY Zenon, <1>2, <1>5, NetworkAssumption DEF EntriesJoined, InLoop, TypeOK, NetTypeOK
  <2> QED BY Zenon, <1>2, <2>1, <2>2 DEF EntriesJoined
<1>12. AddressesAsAnnounced'
  BY Zenon, <1>2, <1>3, <1>5, NetworkAssumption DEF AddressesAsAnnounced
<1> QED BY <1>8, <1>9, <1>10, <1>11, <1>12

\* A fatal result or an identity collision: terminate() forgets the path and the
\* identity, and closes the event queue.
LEMMA FatalPreserves == IInv /\ Fatal => IInv'
<1> SUFFICES ASSUME IInv, Fatal PROVE IInv' OBVIOUS
<1> USE DEF IInv, Fatal, Poll, Terminate, Forget
<1>1. TypeOK' BY Zenon DEF TypeOK, StoreTypeOK, RunTypeOK, NetTypeOK
<1>2. IdentityStored' /\ IdentityKept' BY StoreStays
<1>3. NetworksStored' /\ EntriesJoined' /\ AddressesAsAnnounced'
  BY NetworksStay DEF InLoop, Starting
<1> QED BY <1>1, <1>2, <1>3

-----------------------------------------------------------------------------
(* The end of run() *)

\* The entries are dropped.
LEMMA ClearNetsPreserves == IInv /\ ClearNets => IInv'
<1> SUFFICES ASSUME IInv, ClearNets PROVE IInv' OBVIOUS
<1> USE DEF IInv, ClearNets, storeVars
<1>1. TypeOK' BY DEF TypeOK, StoreTypeOK, RunTypeOK, NetTypeOK
<1>2. IdentityStored' /\ IdentityKept' BY StoreStays
<1>3. NetworksStored' BY SMTT(60) DEF NetworksStored, Starting, InLoop
<1>4. EntriesJoined' BY Zenon DEF EntriesJoined, InLoop
<1>5. AddressesAsAnnounced' BY Zenon DEF AddressesAsAnnounced
<1> QED BY <1>1, <1>2, <1>3, <1>4, <1>5

\* The last callback, with or without terminate().
LEMMA ConcludePreserves == IInv /\ Conclude => IInv'
<1> SUFFICES ASSUME IInv, Conclude PROVE IInv' BY SMTT(60)
<1> USE DEF IInv, Conclude, Terminate, Forget, storeVars
<1>1. TypeOK'
  <2>1. StoreTypeOK' BY Zenon DEF TypeOK, StoreTypeOK
  <2>2. RunTypeOK' BY Zenon DEF TypeOK, RunTypeOK
  <2>3. NetTypeOK' BY Zenon DEF TypeOK, NetTypeOK
  <2> QED BY Zenon, <2>1, <2>2, <2>3 DEF TypeOK
<1>2. IdentityStored' /\ IdentityKept' BY StoreStays
<1>3. NetworksStored' /\ EntriesJoined' /\ AddressesAsAnnounced'
  BY NetworksStay DEF InLoop, Starting
<1> QED BY <1>1, <1>2, <1>3

\* What the callbacks for networks that go down leave behind.
LEMMA DownResult ==
  ASSUME TypeOK, NEW S, S \subseteq Networks, Down(S)
  PROVE  /\ nets' \in [Networks -> NetworkStates \cup {None}]
         /\ heard' \in [Networks -> News] /\ garbage' \in BOOLEAN
         /\ \A n \in Networks : nets'[n] = IF n \in S THEN None ELSE nets[n]
         /\ events => \A n \in Networks :
               heard'[n].addrs = IF n \in S THEN {} ELSE heard[n].addrs
         /\ ~events => heard' = heard
<1> USE DEF Down, Tell
<1>1. Unheard \in News /\ Unheard.addrs = {} BY DEF Unheard, News
<1>2. garbage' \in BOOLEAN BY DEF TypeOK, NetTypeOK
<1>3. heard' \in [Networks -> News] BY <1>1 DEF TypeOK, NetTypeOK
<1> QED BY Zenon, <1>1, <1>2, <1>3 DEF TypeOK, NetTypeOK

\* The core goes, and with it its networks.
LEMMA DeleteNodePreserves == IInv /\ DeleteNode => IInv'
<1> SUFFICES ASSUME IInv, DeleteNode PROVE IInv' OBVIOUS
<1> USE DEF IInv
<1>1. /\ pc = "delete" /\ pc' = "ended" /\ Down(core)
      /\ core' = {} /\ node' = None /\ online' = FALSE
      /\ UNCHANGED <<storeVars, run_, termReason, nodeIsOnline, made, events, wanted>>
  BY DEF DeleteNode
<1>2. core \subseteq Networks BY Zenon DEF TypeOK, NetTypeOK
<1>3. TypeOK'
  <2>1. StoreTypeOK' BY Zenon, <1>1, TypesStay
  <2>2. RunTypeOK' BY Zenon, <1>1 DEF TypeOK, RunTypeOK
  <2>3. NetTypeOK' BY Zenon, <1>1, <1>2, DownResult DEF TypeOK, NetTypeOK
  <2> QED BY Zenon, <2>1, <2>2, <2>3 DEF TypeOK
<1>4. IdentityStored' /\ IdentityKept' BY <1>1, StoreStays DEF storeVars
<1>5. NetworksStored' BY <1>1 DEF NetworksStored, Starting, InLoop, storeVars
<1>6. \A n \in Networks : nets'[n] = None BY <1>1, <1>2, DownResult DEF EntriesJoined
<1>7. EntriesJoined' BY SMTT(60), <1>1, <1>2, <1>6, DownResult DEF EntriesJoined, InLoop
<1>8. AddressesAsAnnounced' BY <1>6 DEF AddressesAsAnnounced
<1> QED BY <1>3, <1>4, <1>5, <1>7, <1>8

-----------------------------------------------------------------------------
(* The application's thread, and the end of the process *)

\* join(): the network gets an entry, and a file when that can be made.
LEMMA JoinPreserves == ASSUME IInv, NEW n \in Networks, Join(n) PROVE IInv'
<1> USE DEF IInv
<1>1. /\ pc \in InLoop \cup {"clear", "tell"} /\ put = None /\ n \notin core
      /\ core' = core \cup {n} /\ Up(n)
      /\ UNCHANGED <<home, memory, put, kept, runVars, events, garbage>>
  BY DEF Join, Serves
<1>2. /\ disk' = disk \/ (disk[n] = None /\ disk' = [disk EXCEPT ![n] = Blank])
      /\ wanted' = IF disk'[n] # None THEN wanted \cup {n} ELSE wanted
  BY DEF Join
<1>3. nets[n] = None /\ (events => heard[n].addrs = {}) BY Zenon, <1>1 DEF EntriesJoined
<1>4. /\ nets' \in [Networks -> NetworkStates \cup {None}] /\ heard' \in [Networks -> News]
      /\ nets'[n] # None /\ (events => heard'[n].addrs = nets'[n].ips)
      /\ \A m \in Networks \ {n} : nets'[m] = nets[m] /\ heard'[m] = heard[m]
  BY Zenon, <1>1, <1>3, UpResult, NetworkAssumption
<1>5. TypeOK'
  <2>1. disk' \in [Objects -> Identities \cup Contents \cup {None, Blank}]
    BY <1>2 DEF TypeOK, StoreTypeOK
  <2>2. StoreTypeOK' BY Zenon, <1>1, <2>1 DEF TypeOK, StoreTypeOK
  <2>3. RunTypeOK' BY Zenon, <1>1, TypesStay
  <2>4. NetTypeOK' BY <1>1, <1>2, <1>4 DEF TypeOK, NetTypeOK
  <2> QED BY Zenon, <2>2, <2>3, <2>4 DEF TypeOK
<1>6. IdentityStored' /\ IdentityKept'
  <2>1. disk'[Identity] = disk[Identity]
    BY SMTT(60), <1>2, StoreAssumption DEF TypeOK, StoreTypeOK, Objects
  <2> QED BY <1>1, <2>1 DEF IdentityStored, IdentityKept, runVars
<1>7. NetworksStored'
  BY Zenon, <1>1, <1>2, StoreAssumption
     DEF NetworksStored, TypeOK, StoreTypeOK, NetTypeOK, Objects, Starting, InLoop, runVars
<1>8. EntriesJoined'
  <2>1. \A m \in Networks : m \notin core' => m # n /\ m \notin core BY SMTT(60), <1>1
  <2>2. pc' \in InLoop => \A m \in core' : nets'[m] # None
    BY Zenon, <1>1, <1>4 DEF EntriesJoined, TypeOK, NetTypeOK, runVars
  <2>3. events' => \A m \in Networks : m \notin core' => heard'[m].addrs = {}
    BY Zenon, <1>1, <1>4, <2>1 DEF EntriesJoined
  <2> QED BY Zenon, <1>1, <1>4, <2>1, <2>2, <2>3 DEF EntriesJoined, InLoop, runVars
<1>9. AddressesAsAnnounced' BY Zenon, <1>1, <1>4 DEF AddressesAsAnnounced, EntriesJoined, runVars
<1> QED BY <1>5, <1>6, <1>7, <1>8, <1>9

\* leave(): the entry goes, then the file.
LEMMA LeavePreserves == ASSUME IInv, NEW n \in Networks, Leave(n) PROVE IInv'
<1> USE DEF IInv
<1>1. /\ pc \in InLoop \cup {"clear", "tell"} /\ put = None /\ n \in core
      /\ Down({n}) /\ core' = core \ {n} /\ wanted' = wanted \ {n}
      /\ UNCHANGED <<home, memory, put, kept, runVars, events>>
      /\ disk' = disk \/ disk' = [disk EXCEPT ![n] = None]
  BY SMTT(60) DEF Leave, Serves, Remove
<1>2. TypeOK'
  <2>1. disk' \in [Objects -> Identities \cup Contents \cup {None, Blank}]
    BY <1>1 DEF TypeOK, StoreTypeOK
  <2>2. StoreTypeOK' BY Zenon, <1>1, <2>1 DEF TypeOK, StoreTypeOK
  <2>3. RunTypeOK' BY Zenon, <1>1, TypesStay
  <2>4. core' \subseteq Networks /\ wanted' \subseteq Networks BY Zenon, <1>1 DEF TypeOK, NetTypeOK
  <2>5. NetTypeOK' BY Zenon, <1>1, <2>4, DownResult DEF TypeOK, NetTypeOK
  <2> QED BY Zenon, <2>2, <2>3, <2>5 DEF TypeOK
<1>3. IdentityStored' /\ IdentityKept'
  <2>1. disk'[Identity] = disk[Identity]
    BY SMTT(60), <1>1, StoreAssumption DEF TypeOK, StoreTypeOK, Objects
  <2> QED BY <1>1, <2>1 DEF IdentityStored, IdentityKept, runVars
<1>4. NetworksStored'
  BY Zenon, <1>1, StoreAssumption
     DEF NetworksStored, TypeOK, StoreTypeOK, NetTypeOK, Objects, Starting, InLoop, runVars
<1>5. EntriesJoined'
  <2>1. \A m \in Networks : nets'[m] = IF m = n THEN None ELSE nets[m] BY <1>1, DownResult
  <2>2. \A m \in core' : m \in Networks /\ m \in core /\ m # n BY Zenon, <1>1 DEF TypeOK, NetTypeOK
  <2>3. pc' \in InLoop => \A m \in core' : nets'[m] # None
    BY Zenon, <1>1, <2>1, <2>2 DEF EntriesJoined, runVars
  <2>4. \A m \in Networks : m \notin core' => m = n \/ m \notin core BY Zenon, <1>1
  <2>5. events' => \A m \in Networks : m \notin core' => heard'[m].addrs = {}
    <3>1. events => \A m \in Networks : heard'[m].addrs = IF m = n THEN {} ELSE heard[m].addrs
      BY <1>1, DownResult
    <3> QED BY Zenon, <1>1, <2>4, <3>1 DEF EntriesJoined
  <2> QED BY Zenon, <1>1, <2>1, <2>2, <2>3, <2>5 DEF EntriesJoined, InLoop, runVars
<1>6. AddressesAsAnnounced' BY Zenon, <1>1, DownResult DEF AddressesAsAnnounced
<1> QED BY <1>2, <1>3, <1>4, <1>5, <1>6

\* The process is killed, at any point of the above, and can start again.
LEMMA KilledPreserves == IInv /\ Killed => IInv'
<1> SUFFICES ASSUME IInv, Killed PROVE IInv' OBVIOUS
<1> USE DEF IInv, Killed, Reboot
<1>1. Unheard \in News /\ Unheard.addrs = {} BY SMTT(60) DEF Unheard, News
<1>2. TypeOK'
  <2>1. StoreTypeOK' BY Zenon DEF TypeOK, StoreTypeOK
  <2>2. RunTypeOK' BY Zenon DEF TypeOK, RunTypeOK
  <2>3. NetTypeOK' BY Zenon, <1>1 DEF TypeOK, NetTypeOK
  <2> QED BY Zenon, <2>1, <2>2, <2>3 DEF TypeOK
<1>3. IdentityStored' /\ IdentityKept' BY DEF IdentityStored, IdentityKept
<1>4. NetworksStored' BY DEF NetworksStored, Starting, InLoop
<1>5. EntriesJoined' BY <1>1 DEF EntriesJoined, InLoop
<1>6. AddressesAsAnnounced' BY Zenon DEF AddressesAsAnnounced
<1> QED BY <1>2, <1>3, <1>4, <1>5, <1>6

-----------------------------------------------------------------------------
(* The theorems *)

\* Every step keeps the invariant.
LEMMA NextPreserves == IInv /\ [Next]_vars => IInv'
<1> SUFFICES ASSUME IInv, [Next]_vars PROVE IInv' OBVIOUS
<1>1. CASE Start BY <1>1, StartPreserves
<1>2. CASE Main
  BY <1>2, StartingPreserves, NewNodePreserves, WrittenPreserves, JoinCachedPreserves,
     LoopPreserves, AnnouncePreserves, ConfiguredPreserves, FatalPreserves,
     ClearNetsPreserves, ConcludePreserves, DeleteNodePreserves DEF Main
<1>3. CASE Killed BY <1>3, KilledPreserves
<1>4. CASE \E n \in Networks : Join(n) \/ Leave(n) BY SMTT(60), <1>4, JoinPreserves, LeavePreserves
<1>5. CASE Stack \/ UNCHANGED vars
  <2>0. UNCHANGED <<storeVars, runVars, netVars>> BY <1>5 DEF Stack, vars
  <2> USE <2>0 DEF IInv, storeVars, runVars, netVars
  <2>1. TypeOK' BY Zenon, TypesStay DEF TypeOK
  <2>2. IdentityStored' /\ IdentityKept' BY Zenon DEF IdentityStored, IdentityKept
  <2>3. NetworksStored' BY Zenon DEF NetworksStored
  <2>4. EntriesJoined' /\ AddressesAsAnnounced' BY Zenon DEF EntriesJoined, AddressesAsAnnounced
  <2> QED BY Zenon, <2>1, <2>2, <2>3, <2>4
<1> QED BY <1>1, <1>2, <1>3, <1>4, <1>5 DEF Next

\* The invariant holds throughout, in particular the types.
THEOREM NodeServiceInvariant == Spec => []IInv
<1>1. Init => IInv BY InitIInv
<1>2. IInv /\ [Next]_vars => IInv' BY NextPreserves
<1> QED BY <1>1, <1>2, PTL DEF Spec

\* Once an identity is stored completely, every later start of the process runs
\* with that identity, wherever it was killed, for any number of starts,
\* networks and identities.
THEOREM IdentityIsKept == Spec => []IdentityKept
<1>1. IInv => IdentityKept BY DEF IInv
<1> QED BY <1>1, NodeServiceInvariant, PTL

\* A network that was joined and stored, and not left since, is joined by every
\* later run(), also when a put of its configuration was cut.
THEOREM JoinedNetworksSurvive == Spec => []JoinedSurvivesRestart
<1>1. IInv => JoinedSurvivesRestart BY DEF IInv, NetworksStored, JoinedSurvivesRestart
<1> QED BY <1>1, NodeServiceInvariant, PTL

\* An application that listens knows the addresses that the taps have.
THEOREM AddressesAreAnnounced == Spec => []AddressesAsAnnounced
<1>1. IInv => AddressesAsAnnounced BY DEF IInv
<1> QED BY <1>1, NodeServiceInvariant, PTL
=============================================================================
