-------------------------- MODULE FarmManagerProofs --------------------------
(***************************************************************************)
(* The safety of the worker farm, for any slots and any number of          *)
(* requests: no live worker is lost, and no trace on disk outlives what    *)
(* the registry says.                                                      *)
(***************************************************************************)
EXTENDS FarmManager, TLAPS

Launching(r) == request[r] = <<"launch", NoSlot>>

\* A request is on its way to purge the slot.
Purging(r, s) == request[r] \in {<<"remove", s>>, <<"drop", s>>}

\* A request has the slot from the quarantine.
Taken(r, s) == request[r] \in {<<"adopt", s>>, <<"track", s>>, <<"kill", s>>, <<"ignore", s>>}

\* Nothing has happened in the slot yet.
Fresh(s) ==
  /\ proc[s] # "alive" /\ row[s] = "none" /\ spawner[s] = "none"
  /\ supervisor[s] = "none" /\ s \notin sentinel
  /\ \A r \in Requests : ~Purging(r, s)

\* A farm that is down has no memory.
DownInv ==
  ~up => /\ run # "known" /\ row = Nowhere /\ quarantine = {}
         /\ \A r \in Requests : request[r] = Idle

\* The one run is launched by one request, in slots nobody has used; only
\* foreign slots are taken from the quarantine.
RunInv ==
  /\ run # "known" => \A s \in Own : spawner[s] = "none"
  /\ \A r \in Requests : Launching(r) =>
       run = "known" /\ \A q \in Requests : Launching(q) => q = r
  /\ (run = "none" \/ \E r \in Requests : Launching(r)) => \A s \in Own : Fresh(s)
  /\ \A r \in Requests, s \in Own : ~Taken(r, s)

\* The life of a slot of the run: nothing runs before its start, it is supervised, exited or purged only when
\* its spawn is over, and its sentinel is there only together with its row.
SlotOK(s) ==
  /\ spawner[s] = "open" => proc[s] # "alive"
  /\ row[s] = "exited" => spawner[s] \in {"failed", "done"}
  /\ supervisor[s] # "none" => spawner[s] = "done"
  /\ spawner[s] \in {"added", "tracked"} => row[s] \in {"running", "stopping"}
  /\ row[s] = "none" => s \notin sentinel
  /\ \A r \in Requests :
       /\ Purging(r, s) => spawner[s] \in {"failed", "done"}
       /\ request[r] = <<"drop", s>> => s \notin sentinel

SlotInv == run = "known" => \A s \in Own : SlotOK(s)

Known(s) ==
  \/ row[s] \in {"running", "stopping"}
  \/ s \in quarantine \/ Acting(s)
  \/ s \in Own /\ spawner[s] = "started"

\* The exited and the purged have no live process; a live one that is not given
\* up is known, and has its sentinel or its spawn has not come to write it.
LiveOK(s) ==
  proc[s] = "alive" =>
    /\ row[s] # "exited" /\ \A r \in Requests : ~Purging(r, s)
    /\ s \notin forgotten => s \in sentinel \/ Untraced(s)
    /\ s \notin forgotten /\ up => Known(s)

LiveInv == \A s \in Slots : LiveOK(s)

\* writeMu is held by one writer.
LockInv == \A v, w \in Writers : phase[v] = "write" /\ phase[w] = "write" => v = w

\* Somebody has yet to read the row of the slot and to write the manifest.
Unpersisted(s) ==
  \/ \E w \in Writers : phase[w] \in {"snapshot", "lock"}
  \/ spawner[s] \in {"failed", "added", "tracked"}
  \/ supervisor[s] = "untrack"
  \/ \E r \in Requests : request[r] = <<"clear", s>>

\* What is written or about to be written is what the row says, unless somebody
\* writes it again.
PersistOK(s) ==
  \/ Unpersisted(s)
  \/ /\ manifest[s] \in {"none", row[s]} \/ \E w \in Writers : phase[w] = "write"
     /\ \A w \in Writers : phase[w] = "write" => rendered[w][s] \in {"none", row[s]}

PersistInv == run = "known" => \A s \in Own : PersistOK(s)

IInv == TypeOK /\ DownInv /\ RunInv /\ SlotInv /\ LiveInv /\ LockInv /\ PersistInv

----------------------------------------------------------------------------
(* What each part of the invariant is about *)

\* Variables that a step leaves alone keep their types.
LEMMA TypesStay ==
  ASSUME TypeOK
  PROVE  /\ UNCHANGED <<world, forgotten>> => WorldTypeOK'
         /\ UNCHANGED <<up, registry>> => RegistryTypeOK'
         /\ UNCHANGED <<spawner, supervisor, killer>> => SlotTypeOK'
         /\ UNCHANGED request => RequestTypeOK'
         /\ UNCHANGED persisting => PersistTypeOK'
<1>1. UNCHANGED <<world, forgotten>> => WorldTypeOK' BY DEF TypeOK, WorldTypeOK, world
<1>2. UNCHANGED <<up, registry>> => RegistryTypeOK' BY DEF TypeOK, RegistryTypeOK, registry
<1>3. UNCHANGED <<spawner, supervisor, killer>> => SlotTypeOK' BY DEF TypeOK, SlotTypeOK
<1>4. UNCHANGED request => RequestTypeOK' BY DEF TypeOK, RequestTypeOK
<1>5. UNCHANGED persisting => PersistTypeOK' BY DEF TypeOK, PersistTypeOK, persisting
<1> QED BY <1>1, <1>2, <1>3, <1>4, <1>5

\* Whether the farm is down is seen in these variables only.
LEMMA DownStays == ASSUME DownInv, UNCHANGED <<up, run, row, quarantine, request>> PROVE DownInv'
  BY DEF DownInv

\* A farm that is up stays up.
LEMMA UpStays == ASSUME up, UNCHANGED up PROVE DownInv'
  BY DEF DownInv

\* How far the run is is seen in the spawns and requests, and in the slots
\* that nothing has happened in.
LEMMA RunKept ==
  ASSUME RunInv, UNCHANGED <<run, request, spawner>>, \A s \in Own : Fresh(s) => Fresh(s)'
  PROVE  RunInv'
  BY DEF RunInv, Launching, Taken

\* A process that ends is not that of such a slot.
LEMMA RunStays ==
  ASSUME RunInv, UNCHANGED <<run, request, spawner, supervisor, row, sentinel>>,
         \A s \in Own : proc'[s] = "alive" => proc[s] = "alive"
  PROVE  RunInv'
<1>1. \A s \in Own : Fresh(s) => Fresh(s)' BY DEF Fresh, Purging
<1> QED BY <1>1, RunKept

\* Once slots are launched, RunInv is about the run and the requests only.
LEMMA RunGoesOn ==
  ASSUME RunInv, run = "known", UNCHANGED <<run, request>>,
         NEW s \in Own, ~Fresh(s)
  PROVE  RunInv'
  BY DEF RunInv, Launching, Taken

\* The life of the slots is seen in these variables only.
LEMMA SlotsStay ==
  ASSUME SlotInv, UNCHANGED <<run, request, spawner, supervisor, row, sentinel>>,
         \A s \in Own : proc'[s] = "alive" => proc[s] = "alive"
  PROVE  SlotInv'
  BY DEF SlotInv, SlotOK, Purging

\* No request begins to purge the slot, or leaves the fate of one that it has
\* taken from the quarantine open.
NothingNew(s) ==
  /\ \A r \in Requests : Purging(r, s)' => Purging(r, s)
  /\ \A r \in Requests : request'[r] = <<"drop", s>> => request[r] = <<"drop", s>>
  /\ Acting(s) => Acting(s)'

\* Whether a process is known is seen in what concerns its slot; it may end or
\* be given up at any time.
LEMMA LiveKept ==
  ASSUME NEW s \in Slots, LiveOK(s), proc'[s] = "alive" => proc[s] = "alive",
         row'[s] = row[s], s \in Own => spawner'[s] = spawner[s],
         s \in sentinel => s \in sentinel', s \in forgotten => s \in forgotten',
         s \in quarantine => s \in quarantine', UNCHANGED up, NothingNew(s)
  PROVE  LiveOK(s)'
<1>1. Known(s) => Known(s)' BY Zenon DEF Known, NothingNew
<1>2. Untraced(s) => Untraced(s)' BY Zenon DEF Untraced
<1> QED BY <1>1, <1>2 DEF LiveOK, NothingNew

\* The same when no request moves.
LEMMA LiveFrame ==
  ASSUME NEW s \in Slots, LiveOK(s), proc'[s] = "alive" => proc[s] = "alive",
         row'[s] = row[s], s \in Own => spawner'[s] = spawner[s],
         s \in sentinel => s \in sentinel', s \in forgotten => s \in forgotten',
         s \in quarantine => s \in quarantine', UNCHANGED <<up, request>>
  PROVE  LiveOK(s)'
<1>1. NothingNew(s) BY Zenon DEF NothingNew, Acting, Purging
<1> QED BY <1>1, LiveKept

\* The life of a slot is seen in what concerns it.
LEMMA SlotKept ==
  ASSUME NEW s \in Own, SlotOK(s), row'[s] = row[s], spawner'[s] = spawner[s],
         supervisor'[s] = supervisor[s], proc'[s] = "alive" => proc[s] = "alive",
         s \in sentinel' => s \in sentinel, NothingNew(s)
  PROVE  SlotOK(s)'
  BY Zenon DEF SlotOK, NothingNew

\* The same when no request moves.
LEMMA SlotFrame ==
  ASSUME NEW s \in Own, SlotOK(s), row'[s] = row[s], spawner'[s] = spawner[s],
         supervisor'[s] = supervisor[s], proc'[s] = "alive" => proc[s] = "alive",
         s \in sentinel' => s \in sentinel, UNCHANGED request
  PROVE  SlotOK(s)'
<1>1. NothingNew(s) BY Zenon DEF NothingNew, Acting, Purging
<1> QED BY Zenon, <1>1, SlotKept

\* So a step that only ends processes changes nothing in that.
LEMMA LiveStays ==
  ASSUME LiveInv, UNCHANGED <<up, row, quarantine, request, spawner, sentinel, forgotten>>,
         \A s \in Slots : proc'[s] = "alive" => proc[s] = "alive"
  PROVE  LiveInv'
  BY LiveFrame DEF LiveInv

\* The lock is seen in the phases of the writers only.
LEMMA LockStays == ASSUME LockInv, UNCHANGED phase PROVE LockInv'
  BY DEF LockInv

\* What is persisted is seen in these variables only.
LEMMA PersistedStays ==
  ASSUME PersistInv,
         UNCHANGED <<run, phase, spawner, supervisor, request, manifest, row, rendered>>
  PROVE  PersistInv'
  BY DEF PersistInv, PersistOK, Unpersisted

\* A row may change where somebody will persist it.
LEMMA PersistedKept ==
  ASSUME PersistInv, UNCHANGED <<run, phase, rendered, manifest>>,
         \A t \in Own : Unpersisted(t)' \/ (row'[t] = row[t] /\ ~Unpersisted(t))
  PROVE  PersistInv'
<1> SUFFICES ASSUME run = "known", NEW t \in Own PROVE PersistOK(t)' BY DEF PersistInv
<1>1. PersistOK(t) BY DEF PersistInv
<1> QED BY <1>1 DEF PersistOK

\* A goroutine that calls persistRun: what it will write is still to be read.
LEMMA Persists ==
  ASSUME TypeOK, LockInv, NEW w \in Writers, Persist(w), UNCHANGED <<run, snapshot, rendered>>
  PROVE  PersistTypeOK' /\ LockInv' /\ PersistInv'
<1>1. PersistTypeOK' BY DEF TypeOK, PersistTypeOK, Persist
<1>2. \A v \in Writers : phase'[v] = "write" => phase[v] = "write"
  BY DEF TypeOK, PersistTypeOK, Persist
<1>3. LockInv' BY Zenon, <1>2 DEF LockInv
<1>4. run = "known" => phase'[w] = "snapshot" BY DEF TypeOK, PersistTypeOK, Persist
<1>5. PersistInv' BY Zenon, <1>4 DEF PersistInv, PersistOK, Unpersisted
<1> QED BY <1>1, <1>3, <1>5

----------------------------------------------------------------------------
(* persistRun *)

\* The steps of persistRun after its call: the lock and the manifest.
LEMMA PersistPreserves ==
  ASSUME IInv, NEW w \in Writers, PersistStep(w)
  PROVE  IInv'
<1> USE DEF IInv
<1>1. UNCHANGED <<up, proc, sentinel, registry, spawner, supervisor, killer, request, forgotten>>
  BY DEF PersistStep, SnapshotIds, Render, WriteManifest, world
<1>2. RegistryTypeOK' /\ SlotTypeOK' /\ RequestTypeOK' BY <1>1, TypesStay
<1>3. UNCHANGED <<run, row, quarantine>> BY <1>1 DEF registry
<1>4. DownInv' BY <1>1, <1>3, DownStays
<1>5. RunInv' /\ SlotInv' BY <1>1, <1>3, RunStays, SlotsStay
<1>6. LiveInv' BY <1>1, <1>3, LiveStays
<1>7. CASE SnapshotIds(w)
  <2>1. WorldTypeOK' BY <1>1, <1>7, TypesStay DEF SnapshotIds, world
  <2>2. PersistTypeOK' BY <1>7 DEF SnapshotIds, TypeOK, PersistTypeOK, RegistryTypeOK
  <2>3. phase'[w] = "lock" /\ \A v \in Writers : v # w => phase'[v] = phase[v]
    BY <1>7 DEF SnapshotIds, TypeOK, PersistTypeOK
  <2>4. LockInv' BY Zenon, <2>3 DEF LockInv
  <2>5. PersistInv' BY Zenon, <2>3 DEF PersistInv, PersistOK, Unpersisted
  <2> QED BY <1>2, <1>4, <1>5, <1>6, <2>1, <2>2, <2>4, <2>5 DEF TypeOK
<1>8. CASE Render(w)
  <2>1. WorldTypeOK' BY <1>1, <1>8, TypesStay DEF Render, world
  <2>2. Rows(snapshot[w]) \in [Own -> {"none"} \cup States] BY DEF Rows, TypeOK, RegistryTypeOK, Slots
  <2>3. PersistTypeOK' BY <1>8, <2>2 DEF Render, TypeOK, PersistTypeOK
  <2>4. phase'[w] = "write" /\ \A v \in Writers : v # w => phase'[v] # "write"
    BY <1>8 DEF Render, TypeOK, PersistTypeOK
  <2>5. LockInv' BY Zenon, <2>4 DEF LockInv
  <2>6. \A s \in Own : rendered'[w][s] \in {"none", row'[s]}
    BY <1>3, <1>8 DEF Render, Rows, TypeOK, PersistTypeOK
  <2>7. PersistInv' BY Zenon, <2>4, <2>6 DEF PersistInv, PersistOK
  <2> QED BY <1>2, <1>4, <1>5, <1>6, <2>1, <2>3, <2>5, <2>7 DEF TypeOK
<1>9. CASE WriteManifest(w)
  <2>1. WorldTypeOK' BY <1>1, <1>9 DEF WriteManifest, TypeOK, WorldTypeOK, PersistTypeOK
  <2>2. Rows({}) \in [Own -> {"none"} \cup States] BY DEF Rows
  <2>3. PersistTypeOK' BY <1>9, <2>2 DEF WriteManifest, TypeOK, PersistTypeOK
  <2>4. phase[w] = "write" /\ phase'[w] = "none" /\ \A v \in Writers : v # w => phase'[v] = phase[v]
    BY <1>9 DEF WriteManifest, TypeOK, PersistTypeOK
  <2>5. \A v \in Writers : phase'[v] # "write" BY <2>4 DEF LockInv
  <2>6. LockInv' BY Zenon, <2>5 DEF LockInv
  <2>7. ASSUME NEW s \in Own, run = "known" PROVE PersistOK(s)'
    <3>1. Unpersisted(s) => Unpersisted(s)' BY <1>1, <2>4 DEF Unpersisted
    <3>2. manifest'[s] = rendered[w][s] BY <1>9 DEF WriteManifest
    <3>3. PersistOK(s) BY <2>7 DEF PersistInv
    <3> QED BY <1>3, <2>4, <2>5, <3>1, <3>2, <3>3 DEF PersistOK
  <2>8. PersistInv' BY <1>3, <2>7 DEF PersistInv
  <2> QED BY <1>2, <1>4, <1>5, <1>6, <2>1, <2>3, <2>6, <2>8 DEF TypeOK
<1> QED BY <1>7, <1>8, <1>9 DEF PersistStep

----------------------------------------------------------------------------
(* spawnOne *)

\* A spawn goes on in a farm that is up, after its launch.
LEMMA SpawnGoesOn ==
  ASSUME DownInv, RunInv, SlotInv, NEW s \in Own, spawner[s] # "none",
         UNCHANGED <<up, run, quarantine, request>>
  PROVE  up /\ run = "known" /\ DownInv' /\ RunInv' /\ \A t \in Own : SlotOK(t)
<1>1. run = "known" BY DEF RunInv
<1>2. up BY <1>1 DEF DownInv
<1>3. ~Fresh(s) BY DEF Fresh
<1> QED BY <1>1, <1>2, <1>3, UpStays, RunGoesOn DEF SlotInv

\* What the steps of spawnOne leave alone.
LEMMA SpawnerFacts ==
  ASSUME IInv, NEW s \in Own, SpawnerStep(s)
  PROVE  /\ s \in Slots /\ <<"spawn", s>> \in Writers
         /\ UNCHANGED <<up, run, quarantine, stopped, closed, killer, request, manifest>>
         /\ run = "known" /\ DownInv' /\ RunInv' /\ RequestTypeOK'
         /\ (\A t \in Own : SlotOK(t)) /\ (\A t \in Slots : LiveOK(t))
<1> USE DEF IInv
<1>1. s \in Slots /\ <<"spawn", s>> \in Writers BY DEF Slots, Writers
<1>2. UNCHANGED <<up, run, quarantine, stopped, closed, killer, request, manifest>> /\ spawner[s] # "none"
  BY Zenon DEF SpawnerStep, StartProcess, StartFails, FailureRecorded, AddRow, Track, WriteSentinel,
         Supervise, world, registry
<1>3. run = "known" /\ DownInv' /\ RunInv' /\ \A t \in Own : SlotOK(t) BY Zenon, <1>2, SpawnGoesOn
<1>4. RequestTypeOK' BY <1>2, TypesStay
<1>5. \A t \in Slots : LiveOK(t) BY Zenon DEF LiveInv
<1> QED BY Zenon, <1>1, <1>2, <1>3, <1>4, <1>5

\* The worker process is started ...
LEMMA StartProcessPreserves == ASSUME IInv, NEW s \in Own, StartProcess(s) PROVE IInv'
<1> USE DEF IInv
<1>0. /\ s \in Slots /\ <<"spawn", s>> \in Writers
      /\ UNCHANGED <<up, run, quarantine, stopped, closed, killer, request, manifest>>
      /\ run = "known" /\ DownInv' /\ RunInv' /\ RequestTypeOK'
      /\ (\A t \in Own : SlotOK(t)) /\ (\A t \in Slots : LiveOK(t))
  BY Zenon, SpawnerFacts DEF SpawnerStep
<1>1. UNCHANGED <<sentinel, registry, supervisor, persisting, forgotten>> /\ spawner[s] = "open"
      /\ proc' = [proc EXCEPT ![s] = "alive"] /\ spawner' = [spawner EXCEPT ![s] = "started"]
  BY DEF StartProcess, SpawnerGoes
<1>2. WorldTypeOK' /\ SlotTypeOK' BY <1>0, <1>1 DEF TypeOK, WorldTypeOK, SlotTypeOK
<1>3. RegistryTypeOK' /\ PersistTypeOK' BY <1>0, <1>1, TypesStay
<1>4. UNCHANGED <<row, phase, rendered>> BY <1>1 DEF registry, persisting
<1>5. proc'[s] = "alive" /\ spawner'[s] = "started"
      /\ (\A t \in Slots : t # s => proc'[t] = proc[t]) /\ (\A t \in Own : t # s => spawner'[t] = spawner[t])
  BY <1>0, <1>1 DEF TypeOK, WorldTypeOK, SlotTypeOK
<1>6. SlotInv'
  <2>1. SlotOK(s)' BY <1>0, <1>1, <1>4, <1>5 DEF SlotOK, Purging
  <2>2. \A t \in Own : t # s => SlotOK(t)' BY Zenon, <1>0, <1>1, <1>4, <1>5, SlotFrame DEF Slots
  <2> QED BY Zenon, <2>1, <2>2 DEF SlotInv
<1>7. LiveOK(s)'
  <2>1. row[s] # "exited" /\ \A r \in Requests : ~Purging(r, s) BY <1>0, <1>1 DEF SlotOK
  <2>2. \A r \in Requests : ~Purging(r, s)' BY <1>0, <2>1 DEF Purging
  <2> QED BY <1>4, <1>5, <2>1, <2>2 DEF LiveOK, Known, Untraced
<1>8. LiveInv' BY <1>0, <1>1, <1>4, <1>5, <1>7, LiveFrame DEF LiveInv
<1>9. LockInv' BY <1>4, LockStays
<1>10. \A t \in Own : Unpersisted(t) => Unpersisted(t)' BY <1>0, <1>1, <1>4, <1>5 DEF Unpersisted
<1>11. PersistInv' BY Zenon, <1>0, <1>4, <1>10, PersistedKept
<1> QED BY <1>0, <1>2, <1>3, <1>6, <1>8, <1>9, <1>11 DEF TypeOK

\* ... or is not, and there is a row that says so, ...
LEMMA StartFailsPreserves == ASSUME IInv, NEW s \in Own, StartFails(s) PROVE IInv'
<1> USE DEF IInv
<1>0. /\ s \in Slots /\ <<"spawn", s>> \in Writers
      /\ UNCHANGED <<up, run, quarantine, stopped, closed, killer, request, manifest>>
      /\ run = "known" /\ DownInv' /\ RunInv' /\ RequestTypeOK'
      /\ (\A t \in Own : SlotOK(t)) /\ (\A t \in Slots : LiveOK(t))
  BY Zenon, SpawnerFacts DEF SpawnerStep
<1>1. UNCHANGED <<world, forgotten, supervisor, tracked, workerIDs, persisting>> /\ spawner[s] = "open"
      /\ row' = [row EXCEPT ![s] = "exited"] /\ spawner' = [spawner EXCEPT ![s] = "failed"]
  BY DEF StartFails, SpawnerGoes
<1>2. RegistryTypeOK' /\ SlotTypeOK' BY <1>0, <1>1 DEF TypeOK, RegistryTypeOK, SlotTypeOK, States
<1>3. WorldTypeOK' /\ PersistTypeOK' BY <1>1, TypesStay
<1>4. UNCHANGED <<proc, sentinel, phase, rendered>> BY <1>1 DEF world, persisting
<1>5. row'[s] = "exited" /\ spawner'[s] = "failed"
      /\ (\A t \in Slots : t # s => row'[t] = row[t]) /\ (\A t \in Own : t # s => spawner'[t] = spawner[t])
  BY <1>0, <1>1 DEF TypeOK, RegistryTypeOK, SlotTypeOK
<1>6. SlotInv'
  <2>1. SlotOK(s)' BY <1>0, <1>1, <1>4, <1>5 DEF SlotOK, Purging
  <2>2. \A t \in Own : t # s => SlotOK(t)' BY Zenon, <1>0, <1>1, <1>4, <1>5, SlotFrame DEF Slots
  <2> QED BY Zenon, <2>1, <2>2 DEF SlotInv
<1>7. LiveOK(s)' BY Zenon, <1>0, <1>1, <1>4 DEF LiveOK, SlotOK
<1>8. LiveInv' BY <1>0, <1>1, <1>4, <1>5, <1>7, LiveFrame DEF LiveInv
<1>9. LockInv' BY <1>4, LockStays
<1>10. \A t \in Own : Unpersisted(t)' \/ (row'[t] = row[t] /\ ~Unpersisted(t))
  BY Zenon, <1>0, <1>1, <1>4, <1>5 DEF Unpersisted, Slots
<1>11. PersistInv' BY Zenon, <1>0, <1>4, <1>10, PersistedKept
<1> QED BY <1>0, <1>2, <1>3, <1>6, <1>8, <1>9, <1>11 DEF TypeOK

\* ... which enters the run.
LEMMA FailureRecordedPreserves == ASSUME IInv, NEW s \in Own, FailureRecorded(s) PROVE IInv'
<1> USE DEF IInv
<1>0. /\ s \in Slots /\ <<"spawn", s>> \in Writers
      /\ UNCHANGED <<up, run, quarantine, stopped, closed, killer, request, manifest>>
      /\ run = "known" /\ DownInv' /\ RunInv' /\ RequestTypeOK'
      /\ (\A t \in Own : SlotOK(t)) /\ (\A t \in Slots : LiveOK(t))
  BY Zenon, SpawnerFacts DEF SpawnerStep
<1>1. UNCHANGED <<world, forgotten, supervisor, row, tracked, snapshot, rendered>> /\ spawner[s] = "failed"
      /\ workerIDs' = workerIDs \cup {s} /\ Persist(<<"spawn", s>>) /\ spawner' = [spawner EXCEPT ![s] = "done"]
  BY DEF FailureRecorded, SpawnerGoes
<1>2. RegistryTypeOK' /\ SlotTypeOK' BY <1>0, <1>1 DEF TypeOK, RegistryTypeOK, SlotTypeOK
<1>3. WorldTypeOK' BY <1>1, TypesStay
<1>4. UNCHANGED <<proc, sentinel>> BY <1>1 DEF world
<1>5. spawner'[s] = "done" /\ \A t \in Own : t # s => spawner'[t] = spawner[t]
  BY <1>1 DEF TypeOK, SlotTypeOK
<1>6. SlotInv'
  <2>1. SlotOK(s)' BY Zenon, <1>0, <1>1, <1>4, <1>5 DEF SlotOK, Purging
  <2>2. \A t \in Own : t # s => SlotOK(t)' BY Zenon, <1>0, <1>1, <1>4, <1>5, SlotFrame DEF Slots
  <2> QED BY Zenon, <2>1, <2>2 DEF SlotInv
<1>7. LiveOK(s)'
  <2>1. LiveOK(s) BY <1>0
  <2>2. ~Untraced(s) /\ (Known(s) => Known(s)') BY Zenon, <1>0, <1>1 DEF Untraced, Known, Acting
  <2>3. \A r \in Requests : Purging(r, s)' => Purging(r, s) BY <1>0 DEF Purging
  <2> QED BY Zenon, <1>0, <1>1, <1>4, <2>1, <2>2, <2>3 DEF LiveOK
<1>8. LiveInv' BY Zenon, <1>0, <1>1, <1>4, <1>5, <1>7, LiveFrame DEF LiveInv
<1>9. PersistTypeOK' /\ LockInv' /\ PersistInv' BY <1>0, <1>1, Persists
<1> QED BY <1>0, <1>2, <1>3, <1>6, <1>8, <1>9 DEF TypeOK

\* The process gets its row ...
LEMMA AddRowPreserves == ASSUME IInv, NEW s \in Own, AddRow(s) PROVE IInv'
<1> USE DEF IInv
<1>0. /\ s \in Slots /\ <<"spawn", s>> \in Writers
      /\ UNCHANGED <<up, run, quarantine, stopped, closed, killer, request, manifest>>
      /\ run = "known" /\ DownInv' /\ RunInv' /\ RequestTypeOK'
      /\ (\A t \in Own : SlotOK(t)) /\ (\A t \in Slots : LiveOK(t))
  BY Zenon, SpawnerFacts DEF SpawnerStep
<1>1. UNCHANGED <<world, forgotten, supervisor, tracked, workerIDs, persisting>> /\ spawner[s] = "started"
      /\ row' = [row EXCEPT ![s] = "running"] /\ spawner' = [spawner EXCEPT ![s] = "added"]
  BY DEF AddRow, SpawnerGoes
<1>2. RegistryTypeOK' /\ SlotTypeOK' BY <1>0, <1>1 DEF TypeOK, RegistryTypeOK, SlotTypeOK, States
<1>3. WorldTypeOK' /\ PersistTypeOK' BY <1>1, TypesStay
<1>4. UNCHANGED <<proc, sentinel, phase, rendered>> BY <1>1 DEF world, persisting
<1>5. row'[s] = "running" /\ spawner'[s] = "added"
      /\ (\A t \in Slots : t # s => row'[t] = row[t]) /\ (\A t \in Own : t # s => spawner'[t] = spawner[t])
  BY <1>0, <1>1 DEF TypeOK, RegistryTypeOK, SlotTypeOK
<1>6. SlotInv'
  <2>1. SlotOK(s)' BY <1>0, <1>1, <1>4, <1>5 DEF SlotOK, Purging
  <2>2. \A t \in Own : t # s => SlotOK(t)' BY Zenon, <1>0, <1>1, <1>4, <1>5, SlotFrame DEF Slots
  <2> QED BY Zenon, <2>1, <2>2 DEF SlotInv
<1>7. LiveOK(s)'
  <2>1. LiveOK(s) BY <1>0
  <2>2. Untraced(s)' /\ Known(s)' BY <1>5 DEF Untraced, Known
  <2>3. \A r \in Requests : Purging(r, s)' => Purging(r, s) BY <1>0 DEF Purging
  <2> QED BY Zenon, <1>4, <1>5, <2>1, <2>2, <2>3 DEF LiveOK
<1>8. LiveInv' BY <1>0, <1>1, <1>4, <1>5, <1>7, LiveFrame DEF LiveInv
<1>9. LockInv' BY <1>4, LockStays
<1>10. \A t \in Own : Unpersisted(t)' \/ (row'[t] = row[t] /\ ~Unpersisted(t))
  BY Zenon, <1>0, <1>1, <1>4, <1>5 DEF Unpersisted, Slots
<1>11. PersistInv' BY Zenon, <1>0, <1>4, <1>10, PersistedKept
<1> QED BY <1>0, <1>2, <1>3, <1>6, <1>8, <1>9, <1>11 DEF TypeOK

\* ... and is tracked ...
LEMMA TrackPreserves == ASSUME IInv, NEW s \in Own, Track(s) PROVE IInv'
<1> USE DEF IInv
<1>0. /\ s \in Slots /\ <<"spawn", s>> \in Writers
      /\ UNCHANGED <<up, run, quarantine, stopped, closed, killer, request, manifest>>
      /\ run = "known" /\ DownInv' /\ RunInv' /\ RequestTypeOK'
      /\ (\A t \in Own : SlotOK(t)) /\ (\A t \in Slots : LiveOK(t))
  BY Zenon, SpawnerFacts DEF SpawnerStep
<1>1. UNCHANGED <<world, forgotten, supervisor, row, persisting>> /\ spawner[s] = "added"
      /\ tracked' = tracked \cup {s} /\ workerIDs' = workerIDs \cup {s}
      /\ spawner' = [spawner EXCEPT ![s] = "tracked"]
  BY DEF Track, SpawnerGoes
<1>2. RegistryTypeOK' /\ SlotTypeOK' BY <1>0, <1>1 DEF TypeOK, RegistryTypeOK, SlotTypeOK
<1>3. WorldTypeOK' /\ PersistTypeOK' BY <1>1, TypesStay
<1>4. UNCHANGED <<proc, sentinel, phase, rendered>> BY <1>1 DEF world, persisting
<1>5. spawner'[s] = "tracked" /\ \A t \in Own : t # s => spawner'[t] = spawner[t]
  BY <1>1 DEF TypeOK, SlotTypeOK
<1>6. SlotInv'
  <2>1. SlotOK(s)' BY <1>0, <1>1, <1>4, <1>5 DEF SlotOK, Purging
  <2>2. \A t \in Own : t # s => SlotOK(t)' BY Zenon, <1>0, <1>1, <1>4, <1>5, SlotFrame DEF Slots
  <2> QED BY Zenon, <2>1, <2>2 DEF SlotInv
<1>7. LiveOK(s)'
  <2>1. LiveOK(s) BY <1>0
  <2>2. Untraced(s)' /\ (Known(s) => Known(s)') BY Zenon, <1>0, <1>1, <1>5 DEF Untraced, Known, Acting
  <2>3. \A r \in Requests : Purging(r, s)' => Purging(r, s) BY Zenon, <1>0 DEF Purging
  <2> QED BY Zenon, <1>0, <1>1, <1>4, <2>1, <2>2, <2>3 DEF LiveOK
<1>8. LiveInv' BY Zenon, <1>0, <1>1, <1>4, <1>5, <1>7, LiveFrame DEF LiveInv
<1>9. LockInv' BY <1>4, LockStays
<1>10. \A t \in Own : Unpersisted(t) => Unpersisted(t)' BY Zenon, <1>0, <1>1, <1>4, <1>5 DEF Unpersisted
<1>11. PersistInv' BY <1>0, <1>1, <1>4, <1>10, PersistedKept
<1> QED BY <1>0, <1>2, <1>3, <1>6, <1>8, <1>9, <1>11 DEF TypeOK

\* ... before its sentinel is written, or cannot be written.
LEMMA WriteSentinelPreserves == ASSUME IInv, NEW s \in Own, WriteSentinel(s) PROVE IInv'
<1> USE DEF IInv
<1>0. /\ s \in Slots /\ <<"spawn", s>> \in Writers
      /\ UNCHANGED <<up, run, quarantine, stopped, closed, killer, request, manifest>>
      /\ run = "known" /\ DownInv' /\ RunInv' /\ RequestTypeOK'
      /\ (\A t \in Own : SlotOK(t)) /\ (\A t \in Slots : LiveOK(t))
  BY Zenon, SpawnerFacts DEF SpawnerStep
<1>1. UNCHANGED <<proc, registry, supervisor, snapshot, rendered>> /\ spawner[s] = "tracked"
      /\ Persist(<<"spawn", s>>) /\ spawner' = [spawner EXCEPT ![s] = "written"]
      /\ sentinel \subseteq sentinel' /\ sentinel' \subseteq sentinel \cup {s}
      /\ forgotten \subseteq forgotten' /\ forgotten' \subseteq forgotten \cup {s}
      /\ (s \in sentinel' \/ s \in forgotten')
  BY DEF WriteSentinel, SpawnerGoes
<1>2. WorldTypeOK' /\ SlotTypeOK' BY <1>0, <1>1 DEF TypeOK, WorldTypeOK, SlotTypeOK
<1>3. RegistryTypeOK' BY <1>0, <1>1, TypesStay
<1>4. UNCHANGED row BY <1>1 DEF registry
<1>5. spawner'[s] = "written" /\ \A t \in Own : t # s => spawner'[t] = spawner[t]
  BY <1>1 DEF TypeOK, SlotTypeOK
<1>6. SlotInv'
  <2>1. SlotOK(s)' BY Zenon, <1>0, <1>1, <1>4, <1>5 DEF SlotOK, Purging
  <2>2. \A t \in Own : t # s => SlotOK(t)' BY Zenon, <1>0, <1>1, <1>4, <1>5, SlotFrame DEF Slots
  <2> QED BY Zenon, <2>1, <2>2 DEF SlotInv
<1>7. LiveOK(s)'
  <2>1. LiveOK(s) BY <1>0
  <2>2. Known(s) => Known(s)' BY Zenon, <1>0, <1>1, <1>4 DEF Known, Acting
  <2>3. \A r \in Requests : Purging(r, s)' => Purging(r, s) BY Zenon, <1>0 DEF Purging
  <2> QED BY Zenon, <1>0, <1>1, <1>4, <2>1, <2>2, <2>3 DEF LiveOK
<1>8. LiveInv' BY Zenon, <1>0, <1>1, <1>4, <1>5, <1>7, LiveFrame DEF LiveInv
<1>9. PersistTypeOK' /\ LockInv' /\ PersistInv' BY <1>0, <1>1, Persists
<1> QED BY <1>0, <1>2, <1>3, <1>6, <1>8, <1>9 DEF TypeOK

\* The supervisor starts when the spawn is over.
LEMMA SupervisePreserves == ASSUME IInv, NEW s \in Own, Supervise(s) PROVE IInv'
<1> USE DEF IInv
<1>0. /\ s \in Slots /\ <<"spawn", s>> \in Writers
      /\ UNCHANGED <<up, run, quarantine, stopped, closed, killer, request, manifest>>
      /\ run = "known" /\ DownInv' /\ RunInv' /\ RequestTypeOK'
      /\ (\A t \in Own : SlotOK(t)) /\ (\A t \in Slots : LiveOK(t))
  BY Zenon, SpawnerFacts DEF SpawnerStep
<1>1. UNCHANGED <<world, forgotten, registry, persisting>> /\ spawner[s] = "written"
      /\ supervisor' = [supervisor EXCEPT ![s] = "wait"] /\ spawner' = [spawner EXCEPT ![s] = "done"]
  BY DEF Supervise, SpawnerGoes
<1>2. SlotTypeOK' BY <1>0, <1>1 DEF TypeOK, SlotTypeOK
<1>3. WorldTypeOK' /\ RegistryTypeOK' /\ PersistTypeOK' BY <1>0, <1>1, TypesStay
<1>4. UNCHANGED <<proc, sentinel, row, phase, rendered>> BY <1>1 DEF world, registry, persisting
<1>5. spawner'[s] = "done" /\ supervisor'[s] = "wait" /\ \A t \in Own : t # s =>
        spawner'[t] = spawner[t] /\ supervisor'[t] = supervisor[t]
  BY <1>1 DEF TypeOK, SlotTypeOK, Slots
<1>6. SlotInv'
  <2>1. SlotOK(s)' BY Zenon, <1>0, <1>1, <1>4, <1>5 DEF SlotOK, Purging
  <2>2. \A t \in Own : t # s => SlotOK(t)' BY Zenon, <1>0, <1>1, <1>4, <1>5, SlotFrame DEF Slots
  <2> QED BY Zenon, <2>1, <2>2 DEF SlotInv
<1>7. LiveOK(s)'
  <2>1. LiveOK(s) BY <1>0
  <2>2. ~Untraced(s) /\ (Known(s) => Known(s)') BY Zenon, <1>0, <1>1, <1>4 DEF Untraced, Known, Acting
  <2>3. \A r \in Requests : Purging(r, s)' => Purging(r, s) BY <1>0 DEF Purging
  <2> QED BY Zenon, <1>0, <1>1, <1>4, <2>1, <2>2, <2>3 DEF LiveOK
<1>8. LiveInv' BY Zenon, <1>0, <1>1, <1>4, <1>5, <1>7, LiveFrame DEF LiveInv
<1>9. LockInv' BY <1>4, LockStays
<1>10. supervisor[s] = "none" BY Zenon, <1>0, <1>1 DEF SlotOK
<1>11. \A t \in Own : Unpersisted(t) => Unpersisted(t)' BY Zenon, <1>0, <1>1, <1>4, <1>5, <1>10 DEF Unpersisted
<1>12. PersistInv' BY Zenon, <1>0, <1>4, <1>11, PersistedKept
<1> QED BY <1>0, <1>2, <1>3, <1>6, <1>8, <1>9, <1>12 DEF TypeOK

\* Every step of spawnOne.
LEMMA SpawnerPreserves == ASSUME IInv, NEW s \in Own, SpawnerStep(s) PROVE IInv'
  BY Zenon, StartProcessPreserves, StartFailsPreserves, FailureRecordedPreserves, AddRowPreserves,
     TrackPreserves, WriteSentinelPreserves, SupervisePreserves DEF SpawnerStep

----------------------------------------------------------------------------
(* supervise, gracefulKill and the processes *)

\* reg.Update changes the row of the slot, if there is one.
LEMMA SetRowFacts ==
  ASSUME TypeOK, NEW s \in Slots, NEW x \in States, SetRow(s, x)
  PROVE  /\ row' \in [Slots -> {"none"} \cup States]
         /\ row'[s] = IF row[s] = "none" THEN "none" ELSE x
         /\ \A t \in Slots : t # s => row'[t] = row[t]
         /\ row = Nowhere => row' = row
<1>1. CASE row[s] = "none" BY <1>1 DEF SetRow, TypeOK, RegistryTypeOK
<1>2. CASE row[s] # "none" BY <1>2 DEF SetRow, TypeOK, RegistryTypeOK, Nowhere
<1> QED BY <1>1, <1>2

\* The end of the process is entered in the row, to be persisted next.
LEMMA MarkExitedPreserves == ASSUME IInv, NEW s \in Slots, MarkExited(s) PROVE IInv'
<1> USE DEF IInv
<1>1. /\ UNCHANGED <<up, world, tracked, run, workerIDs, quarantine, stopped, closed,
                     spawner, killer, request, persisting, forgotten>>
      /\ supervisor[s] = "wait" /\ proc[s] = "dead" /\ SetRow(s, "exited")
      /\ supervisor' = [supervisor EXCEPT ![s] = "untrack"]
  BY DEF MarkExited, SupervisorGoes
<1>2. RegistryTypeOK' BY Zenon, <1>1, SetRowFacts DEF TypeOK, RegistryTypeOK, States
<1>3. SlotTypeOK' BY <1>1 DEF TypeOK, SlotTypeOK
<1>4. WorldTypeOK' /\ RequestTypeOK' /\ PersistTypeOK' BY <1>1, TypesStay
<1>5. UNCHANGED <<proc, sentinel, manifest, phase, rendered>> BY <1>1 DEF world, persisting
<1>6. /\ row'[s] = IF row[s] = "none" THEN "none" ELSE "exited"
      /\ \A t \in Slots : t # s => row'[t] = row[t]
      /\ row = Nowhere => row' = row
  BY <1>1, SetRowFacts DEF States
<1>7. supervisor'[s] = "untrack" /\ \A t \in Slots : t # s => supervisor'[t] = supervisor[t]
  BY <1>1 DEF TypeOK, SlotTypeOK
<1>8. DownInv' BY Zenon, <1>1, <1>6 DEF DownInv
<1>9. \A t \in Own : t \in Slots BY DEF Slots
<1>10. \A t \in Own : Fresh(t) => Fresh(t)' BY Zenon, <1>1, <1>5, <1>6, <1>7, <1>9 DEF Fresh, Purging
<1>11. RunInv' BY <1>1, <1>10, RunKept
<1>12. SlotInv'
  <2>1. ASSUME s \in Own, run = "known" PROVE SlotOK(s)'
    BY Zenon, <2>1, <1>1, <1>5, <1>6, <1>7 DEF SlotInv, SlotOK, Purging
  <2> QED BY Zenon, <2>1, <1>1, <1>5, <1>6, <1>7, <1>9, SlotFrame DEF SlotInv
<1>13. LiveOK(s)' BY Zenon, <1>1, <1>5 DEF LiveOK
<1>14. LiveInv' BY Zenon, <1>1, <1>5, <1>6, <1>13, LiveFrame DEF LiveInv
<1>15. LockInv' BY <1>5, LockStays
<1>16. \A t \in Own : Unpersisted(t)' \/ (row'[t] = row[t] /\ ~Unpersisted(t))
  BY Zenon, <1>1, <1>5, <1>6, <1>7, <1>9 DEF Unpersisted
<1>17. PersistInv' BY Zenon, <1>1, <1>5, <1>16, PersistedKept
<1> QED BY <1>2, <1>3, <1>4, <1>8, <1>11, <1>12, <1>14, <1>15, <1>17 DEF TypeOK

\* The supervisor persists the run, and closes stopCh.
LEMMA SupervisorEndPreserves == ASSUME IInv, NEW s \in Slots, Untrack(s) \/ CloseStopCh(s) PROVE IInv'
<1> USE DEF IInv
<1>1. /\ UNCHANGED <<up, world, row, run, workerIDs, quarantine, stopped, spawner, killer, request,
                     snapshot, rendered, forgotten>>
      /\ tracked' \subseteq tracked /\ closed' \subseteq closed \cup {s}
  BY DEF Untrack, CloseStopCh, persisting
<1>2. supervisor[s] # "none" /\ \E x \in {"none", "close"} : supervisor' = [supervisor EXCEPT ![s] = x]
  BY DEF Untrack, CloseStopCh, SupervisorGoes
<1>3. RegistryTypeOK' BY <1>1 DEF TypeOK, RegistryTypeOK
<1>4. SlotTypeOK' BY <1>1, <1>2 DEF TypeOK, SlotTypeOK
<1>5. WorldTypeOK' /\ RequestTypeOK' BY <1>1, TypesStay
<1>6. UNCHANGED <<proc, sentinel, manifest>> BY <1>1 DEF world
<1>7. \A t \in Own : t \in Slots BY DEF Slots
<1>8. \A t \in Own : supervisor'[t] = supervisor[t] \/ supervisor[t] # "none"
  BY <1>2, <1>7 DEF TypeOK, SlotTypeOK
<1>9. DownInv' BY <1>1, DownStays
<1>10. \A t \in Own : Fresh(t) => Fresh(t)' BY <1>1, <1>6, <1>8 DEF Fresh, Purging
<1>11. RunInv' BY <1>1, <1>10, RunKept
<1>12. SlotInv' BY Zenon, <1>1, <1>6, <1>8 DEF SlotInv, SlotOK, Purging
<1>13. LiveInv' BY <1>1, <1>6, LiveStays
<1>14. PersistTypeOK' /\ LockInv' /\ PersistInv'
  <2>1. CASE s \in Own /\ Untrack(s)
    <3>1. <<"supervise", s>> \in Writers /\ Persist(<<"supervise", s>>) BY <2>1 DEF Untrack, Writers
    <3> QED BY <1>1, <3>1, Persists
  <2>2. CASE s \notin Own \/ CloseStopCh(s)
    <3>1. UNCHANGED phase /\ (s \in Own => supervisor[s] = "close")
      BY Zenon, <2>2 DEF Untrack, CloseStopCh, persisting
    <3>2. \A t \in Own : supervisor'[t] = supervisor[t] \/ supervisor[t] = "close"
      BY <1>2, <1>7, <3>1 DEF TypeOK, SlotTypeOK
    <3>3. \A t \in Own : Unpersisted(t) => Unpersisted(t)' BY Zenon, <1>1, <3>1, <3>2 DEF Unpersisted
    <3>4. PersistInv' BY Zenon, <1>1, <1>6, <3>1, <3>3, PersistedKept
    <3>5. PersistTypeOK' BY <1>1, <3>1, TypesStay DEF persisting
    <3> QED BY <3>1, <3>4, <3>5, LockStays
  <2> QED BY <2>1, <2>2
<1> QED BY <1>3, <1>4, <1>5, <1>9, <1>11, <1>12, <1>13, <1>14 DEF TypeOK

\* A process that exits by itself or is killed, and the goroutine that kills.
LEMMA EndPreserves == ASSUME IInv, NEW s \in Slots, KillerStep(s) \/ WorkerExits(s) PROVE IInv'
<1> USE DEF IInv
<1>1. UNCHANGED <<up, sentinel, manifest, registry, spawner, supervisor, request, persisting, forgotten>>
  BY DEF KillerStep, GraceSufficed, GraceExpires, WorkerExits, world
<1>2. \/ UNCHANGED proc
      \/ proc' = [proc EXCEPT ![s] = "dead"]
  BY DEF KillerStep, GraceSufficed, GraceExpires, WorkerExits, world
<1>3. UNCHANGED killer \/ killer' = [killer EXCEPT ![s] = "none"]
  BY DEF KillerStep, GraceSufficed, GraceExpires, WorkerExits
<1>4. WorldTypeOK' BY <1>1, <1>2 DEF TypeOK, WorldTypeOK
<1>5. SlotTypeOK' BY <1>1, <1>3 DEF TypeOK, SlotTypeOK
<1>6. RegistryTypeOK' /\ RequestTypeOK' /\ PersistTypeOK' BY <1>1, TypesStay
<1>7. \A t \in Slots : proc'[t] = "alive" => proc[t] = "alive" BY <1>2 DEF TypeOK, WorldTypeOK
<1>8. UNCHANGED <<run, row, quarantine, phase, rendered>> BY <1>1 DEF registry, persisting
<1>9. DownInv' BY <1>1, <1>8, DownStays
<1>10. RunInv' /\ SlotInv' BY Zenon, <1>1, <1>7, <1>8, RunStays, SlotsStay DEF Slots
<1>11. LiveInv' BY Zenon, <1>1, <1>7, <1>8, LiveStays
<1>12. LockInv' BY <1>8, LockStays
<1>13. PersistInv' BY <1>1, <1>8, PersistedStays
<1> QED BY <1>4, <1>5, <1>6, <1>9, <1>10, <1>11, <1>12, <1>13 DEF TypeOK

----------------------------------------------------------------------------
(* The requests *)

\* A request that moves touches what concerns the slots it comes from and goes
\* to only.
LEMMA RequestMoves ==
  ASSUME TypeOK, NEW r \in Requests, NEW x, request' = [request EXCEPT ![r] = x], NEW t \in Slots,
         x \notin {<<"remove", t>>, <<"drop", t>>},
         request[r] \notin {"adopt", "kill", "ignore"} \X {t}
  PROVE  NothingNew(t)
<1>1. request'[r] = x /\ \A q \in Requests : q # r => request'[q] = request[q]
  BY DEF TypeOK, RequestTypeOK
<1>2. \A q \in Requests : Purging(q, t)' => Purging(q, t) BY Zenon, <1>1 DEF Purging
<1>3. \A q \in Requests : request'[q] = <<"drop", t>> => request[q] = <<"drop", t>> BY Zenon, <1>1
<1>4. Acting(t) => Acting(t)' BY Zenon, <1>1 DEF Acting
<1> QED BY Zenon, <1>2, <1>3, <1>4 DEF NothingNew

\* What a request does about a slot is not nothing.
LEMMA NotIdle == \A x, s : x # "idle" => <<x, s>> # Idle
  BY DEF Idle

\* Only a farm that is up serves requests.
LEMMA BusyIsUp == ASSUME DownInv, NEW r \in Requests, request[r] # Idle PROVE up
  BY DEF DownInv

\* How far the run is, when a request moves that launches nothing.
LEMMA RunRequest ==
  ASSUME TypeOK, RunInv, NEW r \in Requests, NEW x, request' = [request EXCEPT ![r] = x],
         x # <<"launch", NoSlot>>,
         \A s \in Own : x \notin {<<"adopt", s>>, <<"track", s>>, <<"kill", s>>, <<"ignore", s>>},
         UNCHANGED <<run, spawner>>, \A s \in Own : Fresh(s) => Fresh(s)'
  PROVE  RunInv'
<1>1. request'[r] = x /\ \A q \in Requests : q # r => request'[q] = request[q]
  BY DEF TypeOK, RequestTypeOK
<1>2. \A q \in Requests : Launching(q)' => Launching(q) BY <1>1 DEF Launching
<1>3. \A q \in Requests, s \in Own : Taken(q, s)' => Taken(q, s) BY <1>1 DEF Taken
<1> QED BY <1>2, <1>3 DEF RunInv

\* Whether a slot will be persisted, when a request moves that does not have
\* to do it.
LEMMA UnpersistedKept ==
  ASSUME TypeOK, NEW r \in Requests, NEW x, request' = [request EXCEPT ![r] = x], NEW t \in Own,
         request[r] # <<"clear", t>>, UNCHANGED phase, supervisor'[t] = supervisor[t],
         spawner[t] = "none" \/ spawner'[t] = spawner[t], Unpersisted(t)
  PROVE  Unpersisted(t)'
<1>1. \A q \in Requests : q # r => request'[q] = request[q] BY Zenon DEF TypeOK, RequestTypeOK
<1> QED BY Zenon, <1>1 DEF Unpersisted

\* What requests do that only start, wait or stop a worker.
Plain == {Idle, <<"join", NoSlot>>} \cup ({"stop", "mark", "once", "await"} \X Slots)

\* ... is none of the things the invariant is about.
LEMMA PlainFacts ==
  ASSUME NEW x \in Plain
  PROVE  /\ x # <<"launch", NoSlot>>
         /\ \A t \in Slots : x \notin {<<"adopt", t>>, <<"track", t>>, <<"kill", t>>, <<"ignore", t>>}
         /\ \A t \in Slots : x \notin {<<"remove", t>>, <<"drop", t>>}
         /\ \A t \in Slots : x # <<"clear", t>>
         /\ \A t \in Slots : x \notin {"adopt", "kill", "ignore"} \X {t}
  BY DEF Plain, Idle

\* A request between such steps concerns nothing else.
LEMMA PlainMoves ==
  ASSUME TypeOK, NEW r \in Requests, NEW x \in Plain, request' = [request EXCEPT ![r] = x],
         request[r] \in Plain
  PROVE  \A t \in Slots : NothingNew(t)
  BY Zenon, PlainFacts, RequestMoves

\* So a request that goes on that way preserves it.
LEMMA PlainPreserves ==
  ASSUME IInv, up, NEW r \in Requests, NEW x \in Plain, request' = [request EXCEPT ![r] = x],
         request[r] \in Plain,
         UNCHANGED <<up, run, row, quarantine, spawner, supervisor, proc, sentinel, forgotten,
                     phase, manifest, rendered>>
  PROVE  DownInv' /\ RunInv' /\ SlotInv' /\ LiveInv' /\ LockInv' /\ PersistInv'
<1> USE DEF IInv
<1>1. \A t \in Own : t \in Slots BY DEF Slots
<1>2. \A t \in Slots : NothingNew(t) BY Zenon, PlainMoves
<1>3. DownInv' BY UpStays
<1>4. \A t \in Own : Fresh(t) => Fresh(t)' BY Zenon, <1>1, <1>2 DEF Fresh, NothingNew
<1>5. RunInv' BY Zenon, <1>1, <1>4, PlainFacts, RunRequest
<1>6. SlotInv' BY Zenon, <1>1, <1>2, SlotKept DEF SlotInv
<1>7. LiveInv' BY Zenon, <1>2, LiveKept DEF LiveInv
<1>8. LockInv' BY LockStays
<1>9. \A t \in Own : Unpersisted(t) => Unpersisted(t)' BY Zenon, <1>1, PlainFacts, UnpersistedKept
<1>10. PersistInv' BY <1>9, PersistedKept
<1> QED BY <1>3, <1>5, <1>6, <1>7, <1>8, <1>10

\* The steps of Stop and of wg.Wait that only move the request: their variables
\* keep their types, ...
LEMMA PlainTypes ==
  ASSUME TypeOK, NEW r \in Requests, NEW x \in Plain, request' = [request EXCEPT ![r] = x]
  PROVE  RequestTypeOK'
  BY DEF TypeOK, RequestTypeOK, RequestStates, Plain

\* ... and with them the invariant holds on.
LEMMA WaitingPreserves ==
  ASSUME IInv, NEW r \in Requests, NEW s,
         \/ Join(r)
         \/ s \in Slots /\ (BeginStop(r, s) \/ LookUp(r, s) \/ StopOnce(r, s) \/ StopDone(r, s))
  PROVE  IInv'
<1> USE DEF IInv
<1>1. UNCHANGED <<up, world, row, tracked, run, workerIDs, quarantine, closed, spawner, supervisor,
                  persisting, forgotten>>
  BY Zenon DEF Join, BeginStop, LookUp, StopOnce, StopDone, registry
<1>2. PICK x \in Plain : request' = [request EXCEPT ![r] = x]
  <2>1. Idle \in Plain BY DEF Plain
  <2>2. s \in Slots => <<"stop", s>> \in Plain /\ <<"mark", s>> \in Plain /\ <<"await", s>> \in Plain
    BY DEF Plain
  <2>3. CASE Join(r) BY Zenon, <2>1, <2>3 DEF Join, Returns
  <2>4. CASE s \in Slots /\ BeginStop(r, s) BY Zenon, <2>2, <2>4 DEF BeginStop, Goes
  <2>5. CASE s \in Slots /\ LookUp(r, s) BY Zenon, <2>1, <2>2, <2>5 DEF LookUp, Goes, Returns
  <2>6. CASE s \in Slots /\ StopOnce(r, s) BY Zenon, <2>2, <2>6 DEF StopOnce, Goes
  <2>7. CASE s \in Slots /\ StopDone(r, s) BY Zenon, <2>1, <2>7 DEF StopDone, Returns
  <2> QED BY Zenon, <2>3, <2>4, <2>5, <2>6, <2>7
<1>3. request[r] \in {Idle, <<"join", NoSlot>>} \/ (s \in Slots /\ request[r] \in {<<"stop", s>>, <<"once", s>>, <<"await", s>>})
  BY Zenon DEF Join, BeginStop, LookUp, StopOnce, StopDone, At
<1>4. request[r] \in Plain BY <1>3 DEF Plain
<1>5. up
  <2>1. CASE BeginStop(r, s) BY <2>1 DEF BeginStop
  <2>2. CASE request[r] # Idle BY <2>2, BusyIsUp
  <2>3. Join(r) \/ LookUp(r, s) \/ StopOnce(r, s) \/ StopDone(r, s) => request[r] # Idle
    BY Zenon, NotIdle DEF Join, LookUp, StopOnce, StopDone, At
  <2> QED BY <2>1, <2>2, <2>3
<1>6. WorldTypeOK' /\ PersistTypeOK' BY Zenon, <1>1, TypesStay
<1>7. RequestTypeOK' BY Zenon, <1>2, PlainTypes
<1>8. stopped' \subseteq Slots /\ killer' \in [Slots -> {"none", "grace"}]
  <2>1. CASE s \in Slots /\ StopOnce(r, s) BY Zenon, <2>1 DEF StopOnce, TypeOK, RegistryTypeOK, SlotTypeOK
  <2>2. UNCHANGED <<stopped, killer>> \/ (s \in Slots /\ StopOnce(r, s)) BY Zenon DEF Join, BeginStop, LookUp, StopDone, registry
  <2> QED BY <2>1, <2>2 DEF TypeOK, RegistryTypeOK, SlotTypeOK
<1>9. RegistryTypeOK' /\ SlotTypeOK' BY Zenon, <1>1, <1>8 DEF TypeOK, RegistryTypeOK, SlotTypeOK
<1>10. UNCHANGED <<proc, sentinel, manifest, phase, rendered>> BY <1>1 DEF world, persisting
<1>11. DownInv' /\ RunInv' /\ SlotInv' /\ LiveInv' /\ LockInv' /\ PersistInv'
  BY Zenon, <1>1, <1>2, <1>5, <1>10, <1>4, PlainPreserves
<1> QED BY <1>6, <1>7, <1>9, <1>11 DEF TypeOK

\* The row becomes stopping, and is persisted.
LEMMA MarkStoppingPreserves ==
  ASSUME IInv, NEW r \in Requests, NEW s \in Slots, MarkStopping(r, s) PROVE IInv'
<1> USE DEF IInv
<1>1. /\ UNCHANGED <<up, world, tracked, run, workerIDs, quarantine, stopped, closed, spawner,
                     supervisor, killer, snapshot, rendered, forgotten>>
      /\ request[r] = <<"mark", s>> /\ SetRow(s, "stopping")
      /\ request' = [request EXCEPT ![r] = <<"once", s>>]
  BY Zenon DEF MarkStopping, At, Goes
<1>2. row[s] = "none" \/ s \in Foreign \/ Persist(r) BY DEF MarkStopping
<1>3. row[s] = "none" \/ s \in Foreign => UNCHANGED phase BY DEF MarkStopping
<1>4. <<"once", s>> \in Plain /\ <<"mark", s>> \in Plain BY DEF Plain
<1>5. WorldTypeOK' /\ SlotTypeOK' BY Zenon, <1>1, TypesStay
<1>6. RequestTypeOK' BY Zenon, <1>1, <1>4, PlainTypes
<1>7. /\ row' \in [Slots -> {"none"} \cup States]
      /\ row'[s] = IF row[s] = "none" THEN "none" ELSE "stopping"
      /\ \A t \in Slots : t # s => row'[t] = row[t]
  BY Zenon, <1>1, SetRowFacts DEF States
<1>8. RegistryTypeOK' BY Zenon, <1>1, <1>7 DEF TypeOK, RegistryTypeOK
<1>9. up BY <1>1, BusyIsUp DEF Idle
<1>10. DownInv' BY <1>1, <1>9, UpStays
<1>11. UNCHANGED <<proc, sentinel, manifest>> BY <1>1 DEF world
<1>12. \A t \in Own : t \in Slots BY DEF Slots
<1>13. \A t \in Slots : NothingNew(t) BY Zenon, <1>1, <1>4, PlainMoves
<1>14. RunInv'
  <2>1. \A t \in Own : Fresh(t) => Fresh(t)' BY Zenon, <1>1, <1>7, <1>11, <1>12, <1>13 DEF Fresh, NothingNew
  <2> QED BY Zenon, <1>1, <1>4, <1>12, <2>1, PlainFacts, RunRequest
<1>15. SlotInv'
  <2>1. ASSUME SlotOK(s), s \in Own PROVE SlotOK(s)'
    BY Zenon, <1>1, <1>7, <1>11, <1>13, <2>1 DEF SlotOK, NothingNew
  <2> QED BY Zenon, <1>1, <1>7, <1>11, <1>12, <1>13, <2>1, SlotKept DEF SlotInv
<1>16. LiveInv'
  <2>1. ASSUME LiveOK(s) PROVE LiveOK(s)'
    <3>1. (Known(s) => Known(s)') /\ (Untraced(s) => Untraced(s)')
      BY Zenon, <1>1, <1>7, <1>13 DEF Known, Untraced, NothingNew
    <3> QED BY Zenon, <1>1, <1>7, <1>11, <1>13, <2>1, <3>1 DEF LiveOK, NothingNew
  <2> QED BY Zenon, <1>1, <1>7, <1>11, <1>13, <2>1, LiveKept DEF LiveInv
<1>17. PersistTypeOK' /\ LockInv' /\ PersistInv'
  <2>1. r \in Writers BY DEF Writers
  <2>2. CASE Persist(r) BY Zenon, <1>1, <2>1, <2>2, Persists
  <2>3. CASE row[s] = "none" \/ s \in Foreign
    <3>1. UNCHANGED <<phase, persisting>> BY <1>1, <1>3, <2>3 DEF persisting
    <3>2. \A t \in Own : row'[t] = row[t] BY <1>7, <1>12, <2>3, SlotsAssumption
    <3>3. \A t \in Own : Unpersisted(t) => Unpersisted(t)'
      BY Zenon, <1>1, <1>4, <1>12, <3>1, PlainFacts, UnpersistedKept
    <3>4. PersistInv' BY Zenon, <1>1, <1>11, <3>1, <3>2, <3>3, PersistedKept
    <3> QED BY <3>1, <3>4, TypesStay, LockStays
  <2> QED BY <1>2, <2>2, <2>3
<1> QED BY <1>5, <1>6, <1>8, <1>10, <1>14, <1>15, <1>16, <1>17 DEF TypeOK

\* A request that moves keeps its type.
LEMMA RequestTypes ==
  ASSUME TypeOK, NEW r \in Requests, NEW x \in RequestStates, request' = [request EXCEPT ![r] = x]
  PROVE  RequestTypeOK'
  BY DEF TypeOK, RequestTypeOK

\* The run is registered while nothing has happened in its slots.
LEMMA SpawnPreserves == ASSUME IInv, NEW r \in Requests, Spawn(r) PROVE IInv'
<1> USE DEF IInv
<1>1. /\ UNCHANGED <<up, world, row, tracked, workerIDs, quarantine, stopped, closed, spawner,
                     supervisor, killer, snapshot, rendered, forgotten>>
      /\ up /\ request[r] = Idle /\ run = "none" /\ run' = "known"
      /\ phase' = [phase EXCEPT ![r] = "snapshot"]
      /\ request' = [request EXCEPT ![r] = <<"launch", NoSlot>>]
  BY DEF Spawn, Goes
<1>2. r \in Writers BY DEF Writers
<1>3. PersistTypeOK' BY <1>1, <1>2 DEF TypeOK, PersistTypeOK
<1>4. RegistryTypeOK' BY Zenon, <1>1 DEF TypeOK, RegistryTypeOK
<1>5. WorldTypeOK' /\ SlotTypeOK' BY Zenon, <1>1, TypesStay
<1>6. <<"launch", NoSlot>> \in RequestStates BY DEF RequestStates
<1>7. RequestTypeOK' BY Zenon, <1>1, <1>6, RequestTypes
<1>8. UNCHANGED <<proc, sentinel>> BY <1>1 DEF world
<1>9. \A t \in Own : t \in Slots BY DEF Slots
<1>10. \A t \in Slots : NothingNew(t)
  <2>1. Idle \in Plain BY DEF Plain
  <2>2. \A t \in Slots : <<"launch", NoSlot>> \notin {<<"remove", t>>, <<"drop", t>>} OBVIOUS
  <2> QED BY Zenon, <1>1, <2>1, <2>2, PlainFacts, RequestMoves
<1>11. request'[r] = <<"launch", NoSlot>> /\ \A q \in Requests : q # r => request'[q] = request[q]
  BY <1>1 DEF TypeOK, RequestTypeOK
<1>12. \A t \in Own : Fresh(t) BY Zenon, <1>1 DEF RunInv
<1>13. \A t \in Own : Fresh(t)' BY Zenon, <1>1, <1>8, <1>9, <1>10, <1>12 DEF Fresh, NothingNew
<1>14. DownInv' BY <1>1, UpStays
<1>15. RunInv'
  <2>1. \A q \in Requests : Launching(q)' => q = r BY Zenon, <1>1, <1>11 DEF Launching, RunInv
  <2>2. \A q \in Requests, t \in Own : Taken(q, t)' => Taken(q, t) BY <1>11 DEF Taken
  <2> QED BY Zenon, <1>1, <1>13, <2>1, <2>2 DEF RunInv
<1>16. SlotInv'
  <2> SUFFICES ASSUME NEW t \in Own PROVE SlotOK(t)' BY DEF SlotInv
  <2>1. Fresh(t)' BY <1>13
  <2>2. \A q \in Requests : request'[q] = <<"drop", t>> => Purging(q, t)' BY DEF Purging
  <2> QED BY Zenon, <2>1, <2>2 DEF SlotOK, Fresh
<1>17. LiveInv' BY Zenon, <1>1, <1>8, <1>10, LiveKept DEF LiveInv
<1>18. phase'[r] = "snapshot" /\ \A v \in Writers : v # r => phase'[v] = phase[v]
  BY <1>1, <1>2 DEF TypeOK, PersistTypeOK
<1>19. LockInv' BY Zenon, <1>18 DEF LockInv
<1>20. PersistInv' BY Zenon, <1>2, <1>18 DEF PersistInv, PersistOK, Unpersisted
<1> QED BY <1>3, <1>4, <1>5, <1>7, <1>14, <1>15, <1>16, <1>17, <1>19, <1>20 DEF TypeOK

\* The slots are launched.
LEMMA LaunchPreserves == ASSUME IInv, NEW r \in Requests, Launch(r) PROVE IInv'
<1> USE DEF IInv
<1>1. /\ UNCHANGED <<up, world, registry, supervisor, killer, persisting, forgotten>>
      /\ request[r] = <<"launch", NoSlot>>
      /\ request' = [request EXCEPT ![r] = <<"join", NoSlot>>]
  BY Zenon DEF Launch, At, Goes
<1>2. PICK batch \in SUBSET Own : spawner' = [t \in Own |-> IF t \in batch THEN "open" ELSE "none"]
  BY Zenon DEF Launch
<1>3. \A t \in Own : spawner'[t] \in {"open", "none"} BY <1>2
<1>4. SlotTypeOK' BY <1>1, <1>2 DEF TypeOK, SlotTypeOK
<1>5. WorldTypeOK' /\ RegistryTypeOK' /\ PersistTypeOK' BY <1>1, TypesStay
<1>6. <<"join", NoSlot>> \in Plain BY DEF Plain
<1>7. RequestTypeOK' BY Zenon, <1>1, <1>6, PlainTypes
<1>8. UNCHANGED <<proc, sentinel, manifest, row, run, quarantine, phase, rendered>>
  BY <1>1 DEF world, registry, persisting
<1>9. \A t \in Own : t \in Slots BY DEF Slots
<1>10. \A t \in Slots : NothingNew(t)
  <2>1. \A t \in Slots : request[r] \notin {"adopt", "kill", "ignore"} \X {t} BY <1>1
  <2> QED BY Zenon, <1>1, <1>6, <2>1, PlainFacts, RequestMoves
<1>11. request'[r] = <<"join", NoSlot>> /\ \A q \in Requests : q # r => request'[q] = request[q]
  BY <1>1 DEF TypeOK, RequestTypeOK
<1>12. run = "known" /\ (\A t \in Own : Fresh(t)) /\ \A q \in Requests : Launching(q) => q = r
  BY Zenon, <1>1 DEF RunInv, Launching
<1>13. up BY <1>12 DEF DownInv
<1>14. DownInv' BY <1>1, <1>13, UpStays
<1>15. RunInv'
  <2>1. \A q \in Requests : ~Launching(q)' BY <1>11, <1>12 DEF Launching
  <2>2. \A q \in Requests, t \in Own : Taken(q, t)' => Taken(q, t) BY <1>11 DEF Taken
  <2> QED BY Zenon, <1>8, <1>12, <2>1, <2>2 DEF RunInv
<1>16. SlotInv'
  <2> SUFFICES ASSUME NEW t \in Own PROVE SlotOK(t)' BY DEF SlotInv
  <2>1. Fresh(t) /\ NothingNew(t) BY Zenon, <1>9, <1>10, <1>12
  <2>2. \A q \in Requests : request'[q] # <<"drop", t>> BY Zenon, <2>1 DEF Fresh, NothingNew, Purging
  <2> QED BY Zenon, <1>1, <1>3, <1>8, <2>1, <2>2 DEF SlotOK, Fresh, NothingNew
<1>17. LiveInv'
  <2> SUFFICES ASSUME NEW t \in Slots PROVE LiveOK(t)' BY DEF LiveInv
  <2>1. CASE t \in Own BY Zenon, <1>8, <1>12, <2>1 DEF LiveOK, Fresh
  <2>2. CASE t \notin Own BY Zenon, <1>1, <1>8, <1>10, <2>2, LiveKept DEF LiveInv
  <2> QED BY <2>1, <2>2
<1>18. LockInv' BY <1>8, LockStays
<1>19. \A t \in Own : Unpersisted(t) => Unpersisted(t)'
  <2>1. \A t \in Own : spawner[t] = "none" BY Zenon, <1>12 DEF Fresh
  <2>2. \A t \in Own : request[r] # <<"clear", t>> BY <1>1
  <2>3. \A t \in Own : supervisor'[t] = supervisor[t] BY <1>1
  <2> QED BY Zenon, <1>1, <1>8, <2>1, <2>2, <2>3, UnpersistedKept
<1>20. PersistInv' BY <1>8, <1>19, PersistedKept
<1> QED BY <1>4, <1>5, <1>7, <1>14, <1>15, <1>16, <1>17, <1>18, <1>20 DEF TypeOK

\* An exited worker is to be purged: its process is gone.
LEMMA BeginPurgePreserves ==
  ASSUME IInv, NEW r \in Requests, NEW s \in Slots, BeginPurge(r, s) PROVE IInv'
<1> USE DEF IInv
<1>1. /\ UNCHANGED <<up, world, registry, spawner, supervisor, killer, persisting, forgotten>>
      /\ up /\ request[r] = Idle /\ row[s] = "exited"
      /\ request' = [request EXCEPT ![r] = <<"remove", s>>]
  BY DEF BeginPurge, Goes
<1>2. WorldTypeOK' /\ RegistryTypeOK' /\ SlotTypeOK' /\ PersistTypeOK' BY Zenon, <1>1, TypesStay
<1>3. <<"remove", s>> \in RequestStates BY DEF RequestStates
<1>4. RequestTypeOK' BY Zenon, <1>1, <1>3, RequestTypes
<1>5. UNCHANGED <<proc, sentinel, manifest, row, run, quarantine, phase, rendered>>
  BY <1>1 DEF world, registry, persisting
<1>6. \A t \in Own : t \in Slots BY DEF Slots
<1>7. \A t \in Slots : t # s => NothingNew(t)
  <2>1. Idle \in Plain BY DEF Plain
  <2>2. \A t \in Slots : t # s => <<"remove", s>> \notin {<<"remove", t>>, <<"drop", t>>} OBVIOUS
  <2> QED BY Zenon, <1>1, <2>1, <2>2, PlainFacts, RequestMoves
<1>8. \A q \in Requests : request'[q] = <<"drop", s>> => request[q] = <<"drop", s>>
  BY <1>1 DEF TypeOK, RequestTypeOK
<1>9. DownInv' BY <1>1, UpStays
<1>10. RunInv'
  <2>1. \A t \in Own : Fresh(t) => Fresh(t)' BY Zenon, <1>1, <1>5, <1>6, <1>7 DEF Fresh, NothingNew
  <2>2. <<"remove", s>> # <<"launch", NoSlot>> /\ \A t \in Own :
          <<"remove", s>> \notin {<<"adopt", t>>, <<"track", t>>, <<"kill", t>>, <<"ignore", t>>}
    OBVIOUS
  <2> QED BY Zenon, <1>1, <1>5, <2>1, <2>2, RunRequest
<1>11. SlotInv'
  <2>1. ASSUME SlotOK(s), s \in Own PROVE SlotOK(s)' BY Zenon, <1>1, <1>5, <1>8, <2>1 DEF SlotOK
  <2> QED BY Zenon, <1>1, <1>5, <1>6, <1>7, <2>1, SlotKept DEF SlotInv
<1>12. LiveInv'
  <2>1. LiveOK(s) => LiveOK(s)' BY Zenon, <1>1, <1>5 DEF LiveOK
  <2> QED BY Zenon, <1>1, <1>5, <1>7, <2>1, LiveKept DEF LiveInv
<1>13. LockInv' BY <1>5, LockStays
<1>14. \A t \in Own : Unpersisted(t) => Unpersisted(t)'
  <2>1. \A t \in Own : request[r] # <<"clear", t>> BY <1>1 DEF Idle
  <2> QED BY Zenon, <1>1, <1>5, <2>1, UnpersistedKept
<1>15. PersistInv' BY Zenon, <1>5, <1>14, PersistedKept
<1> QED BY Zenon, <1>2, <1>4, <1>9, <1>10, <1>11, <1>12, <1>13, <1>15 DEF TypeOK

\* Its files go first ...
LEMMA RemoveFilesPreserves ==
  ASSUME IInv, NEW r \in Requests, NEW s \in Slots, RemoveFiles(r, s) PROVE IInv'
<1> USE DEF IInv
<1>1. /\ UNCHANGED <<up, proc, manifest, registry, spawner, supervisor, killer, persisting, forgotten>>
      /\ request[r] = <<"remove", s>> /\ sentinel' = sentinel \ {s}
      /\ request' = [request EXCEPT ![r] = <<"drop", s>>]
  BY DEF RemoveFiles, At, Goes
<1>2. RegistryTypeOK' /\ SlotTypeOK' /\ PersistTypeOK' BY Zenon, <1>1, TypesStay
<1>3. WorldTypeOK' BY Zenon, <1>1 DEF TypeOK, WorldTypeOK
<1>4. <<"drop", s>> \in RequestStates BY DEF RequestStates
<1>5. RequestTypeOK' BY Zenon, <1>1, <1>4, RequestTypes
<1>6. UNCHANGED <<row, run, quarantine, phase, rendered>> BY Zenon, <1>1 DEF registry, persisting
<1>7. \A t \in Own : t \in Slots BY DEF Slots
<1>8. \A t \in Slots : t # s => NothingNew(t)
  <2>1. \A t \in Slots : t # s => <<"drop", s>> \notin {<<"remove", t>>, <<"drop", t>>} OBVIOUS
  <2>2. \A t \in Slots : request[r] \notin {"adopt", "kill", "ignore"} \X {t} BY <1>1
  <2> QED BY Zenon, <1>1, <2>1, <2>2, RequestMoves
<1>9. Purging(r, s) BY <1>1 DEF Purging
<1>10. up BY <1>1, BusyIsUp DEF Idle
<1>11. DownInv' BY <1>1, <1>10, UpStays
<1>12. RunInv'
  <2>1. \A t \in Own : Fresh(t) => Fresh(t)' BY Zenon, <1>1, <1>6, <1>7, <1>8, <1>9 DEF Fresh, NothingNew
  <2>2. <<"drop", s>> # <<"launch", NoSlot>> /\ \A t \in Own :
          <<"drop", s>> \notin {<<"adopt", t>>, <<"track", t>>, <<"kill", t>>, <<"ignore", t>>}
    OBVIOUS
  <2> QED BY Zenon, <1>1, <1>6, <2>1, <2>2, RunRequest
<1>13. SlotInv'
  <2>1. ASSUME SlotOK(s), s \in Own PROVE SlotOK(s)' BY Zenon, <1>1, <1>6, <1>9, <2>1 DEF SlotOK
  <2> QED BY Zenon, <1>1, <1>6, <1>7, <1>8, <2>1, SlotKept DEF SlotInv
<1>14. LiveInv'
  <2>1. LiveOK(s) => LiveOK(s)' BY Zenon, <1>1, <1>9 DEF LiveOK
  <2>2. \A t \in Slots : t # s => (t \in sentinel => t \in sentinel') BY <1>1
  <2> QED BY Zenon, <1>1, <1>6, <1>8, <2>1, <2>2, LiveKept DEF LiveInv
<1>15. LockInv' BY <1>6, LockStays
<1>16. \A t \in Own : Unpersisted(t) => Unpersisted(t)'
  <2>1. \A t \in Own : request[r] # <<"clear", t>> BY <1>1
  <2> QED BY Zenon, <1>1, <1>6, <2>1, UnpersistedKept
<1>17. PersistInv' BY Zenon, <1>1, <1>6, <1>16, PersistedKept
<1> QED BY <1>2, <1>3, <1>5, <1>11, <1>12, <1>13, <1>14, <1>15, <1>17 DEF TypeOK

\* ... then its row ...
LEMMA DropRowPreserves ==
  ASSUME IInv, NEW r \in Requests, NEW s \in Slots, DropRow(r, s) PROVE IInv'
<1> USE DEF IInv
<1>1. /\ UNCHANGED <<up, world, tracked, run, workerIDs, quarantine, stopped, closed, spawner,
                     supervisor, killer, persisting, forgotten>>
      /\ request[r] = <<"drop", s>> /\ row' = [row EXCEPT ![s] = "none"]
      /\ request' = [request EXCEPT ![r] = <<"clear", s>>]
  BY Zenon DEF DropRow, At, Goes
<1>2. WorldTypeOK' /\ SlotTypeOK' /\ PersistTypeOK' BY Zenon, <1>1, TypesStay
<1>3. RegistryTypeOK' BY Zenon, <1>1 DEF TypeOK, RegistryTypeOK
<1>4. <<"clear", s>> \in RequestStates BY DEF RequestStates
<1>5. RequestTypeOK' BY Zenon, <1>1, <1>4, RequestTypes
<1>6. UNCHANGED <<proc, sentinel, manifest, phase, rendered>> BY Zenon, <1>1 DEF world, persisting
<1>7. \A t \in Own : t \in Slots BY DEF Slots
<1>8. \A t \in Slots : NothingNew(t)
  <2>1. \A t \in Slots : <<"clear", s>> \notin {<<"remove", t>>, <<"drop", t>>} OBVIOUS
  <2>2. \A t \in Slots : request[r] \notin {"adopt", "kill", "ignore"} \X {t} BY <1>1
  <2> QED BY Zenon, <1>1, <2>1, <2>2, RequestMoves
<1>9. Purging(r, s) BY Zenon, <1>1 DEF Purging
<1>10. row'[s] = "none" /\ \A t \in Slots : t # s => row'[t] = row[t] BY Zenon, <1>1 DEF TypeOK, RegistryTypeOK
<1>11. up BY <1>1, BusyIsUp DEF Idle
<1>12. DownInv' BY Zenon, <1>1, <1>11, UpStays
<1>13. RunInv'
  <2>1. \A t \in Own : Fresh(t) => Fresh(t)' BY Zenon, <1>1, <1>6, <1>7, <1>8, <1>10 DEF Fresh, NothingNew
  <2>2. <<"clear", s>> # <<"launch", NoSlot>> /\ \A t \in Own :
          <<"clear", s>> \notin {<<"adopt", t>>, <<"track", t>>, <<"kill", t>>, <<"ignore", t>>}
    OBVIOUS
  <2> QED BY Zenon, <1>1, <2>1, <2>2, RunRequest
<1>14. SlotInv'
  <2>1. ASSUME SlotOK(s), s \in Own PROVE SlotOK(s)'
    BY Zenon, <1>1, <1>6, <1>8, <1>9, <1>10, <2>1 DEF SlotOK, NothingNew
  <2> QED BY Zenon, <1>1, <1>6, <1>7, <1>8, <1>10, <2>1, SlotKept DEF SlotInv
<1>15. LiveInv'
  <2>1. LiveOK(s) => LiveOK(s)' BY Zenon, <1>6, <1>9 DEF LiveOK
  <2> QED BY Zenon, <1>1, <1>6, <1>8, <1>10, <2>1, LiveKept DEF LiveInv
<1>16. LockInv' BY <1>6, LockStays
<1>17. \A t \in Own : Unpersisted(t)' \/ (row'[t] = row[t] /\ ~Unpersisted(t))
  <2>1. \A t \in Own : request[r] # <<"clear", t>> BY <1>1
  <2>2. \A t \in Own : Unpersisted(t) => Unpersisted(t)' BY Zenon, <1>1, <1>6, <2>1, UnpersistedKept
  <2>3. request'[r] = <<"clear", s>> BY Zenon, <1>1 DEF TypeOK, RequestTypeOK
  <2>4. Unpersisted(s)' BY Zenon, <2>3 DEF Unpersisted
  <2> QED BY Zenon, <1>7, <1>10, <2>2, <2>4
<1>18. PersistInv' BY Zenon, <1>1, <1>6, <1>17, PersistedKept
<1> QED BY <1>2, <1>3, <1>5, <1>12, <1>13, <1>14, <1>15, <1>16, <1>18 DEF TypeOK

\* ... and then its id, and the run is persisted.
LEMMA ClearSlotPreserves ==
  ASSUME IInv, NEW r \in Requests, NEW s \in Slots, ClearSlot(r, s) PROVE IInv'
<1> USE DEF IInv
<1>1. /\ UNCHANGED <<up, world, row, tracked, run, quarantine, stopped, closed, spawner,
                     supervisor, killer, snapshot, rendered, forgotten>>
      /\ request[r] = <<"clear", s>> /\ workerIDs' = workerIDs \ {s}
      /\ request' = [request EXCEPT ![r] = Idle]
  BY Zenon DEF ClearSlot, At, Returns
<1>2. WorldTypeOK' /\ SlotTypeOK' BY Zenon, <1>1, TypesStay
<1>3. RegistryTypeOK' BY Zenon, <1>1 DEF TypeOK, RegistryTypeOK
<1>4. Idle \in Plain BY DEF Plain
<1>5. RequestTypeOK' BY Zenon, <1>1, <1>4, PlainTypes
<1>6. UNCHANGED <<proc, sentinel, manifest>> BY Zenon, <1>1 DEF world
<1>7. \A t \in Own : t \in Slots BY DEF Slots
<1>8. \A t \in Slots : NothingNew(t)
  <2>1. \A t \in Slots : request[r] \notin {"adopt", "kill", "ignore"} \X {t} BY <1>1
  <2> QED BY Zenon, <1>1, <1>4, <2>1, PlainFacts, RequestMoves
<1>9. up BY <1>1, BusyIsUp DEF Idle
<1>10. DownInv' BY Zenon, <1>1, <1>9, UpStays
<1>11. RunInv'
  <2>1. \A t \in Own : Fresh(t) => Fresh(t)' BY Zenon, <1>1, <1>6, <1>7, <1>8 DEF Fresh, NothingNew
  <2> QED BY Zenon, <1>1, <1>4, <1>7, <2>1, PlainFacts, RunRequest
<1>12. SlotInv' BY Zenon, <1>1, <1>6, <1>7, <1>8, SlotKept DEF SlotInv
<1>13. LiveInv' BY Zenon, <1>1, <1>6, <1>8, LiveKept DEF LiveInv
<1>14. PersistTypeOK' /\ LockInv' /\ PersistInv'
  <2>1. CASE s \in Own
    <3>1. r \in Writers /\ Persist(r) BY Zenon, <2>1 DEF Writers, ClearSlot
    <3> QED BY Zenon, <1>1, <3>1, Persists
  <2>2. CASE s \notin Own
    <3>1. UNCHANGED <<phase, persisting>> BY Zenon, <1>1, <2>2 DEF ClearSlot, persisting
    <3>2. \A t \in Own : request[r] # <<"clear", t>> BY <1>1, <2>2
    <3>3. \A t \in Own : Unpersisted(t) => Unpersisted(t)' BY Zenon, <1>1, <3>1, <3>2, UnpersistedKept
    <3>4. PersistInv' BY Zenon, <1>1, <1>6, <3>1, <3>3, PersistedKept
    <3> QED BY Zenon, <3>1, <3>4, TypesStay, LockStays
  <2> QED BY <2>1, <2>2
<1> QED BY Zenon, <1>2, <1>3, <1>5, <1>10, <1>11, <1>12, <1>13, <1>14 DEF TypeOK

----------------------------------------------------------------------------
(* The quarantine *)

\* Where a request about a slot from the quarantine may be.
Handling(s) == {Idle} \cup ({"track", "adopt", "kill", "ignore"} \X {s})

\* A request that tracks an adopted worker has decided about it.
LEMMA HandlingFacts ==
  \A s : /\ Idle \in Handling(s) /\ \A x \in {"track", "adopt", "kill", "ignore"} : <<x, s>> \in Handling(s)
         /\ <<"track", s>> \notin {"adopt", "kill", "ignore"} \X {s}
  BY DEF Handling

\* What a request about a foreign slot does not do.
LEMMA ForeignMoves ==
  ASSUME NEW s \in Slots \ Own, NEW x \in Handling(s)
  PROVE  /\ x \in RequestStates /\ x # <<"launch", NoSlot>>
         /\ \A t \in Own : x \notin {<<"adopt", t>>, <<"track", t>>, <<"kill", t>>, <<"ignore", t>>}
         /\ \A t \in Slots : x \notin {<<"remove", t>>, <<"drop", t>>, <<"clear", t>>}
         /\ \A t \in Slots : t # s => x \notin {"adopt", "kill", "ignore"} \X {t}
<1>1. x \in RequestStates BY DEF Handling, RequestStates
<1>2. x # <<"launch", NoSlot>> BY DEF Handling, Idle
<1>3. \A t \in Own : x \notin {<<"adopt", t>>, <<"track", t>>, <<"kill", t>>, <<"ignore", t>>} BY DEF Handling, Idle
<1>4. \A t \in Slots : x \notin {<<"remove", t>>, <<"drop", t>>, <<"clear", t>>} BY DEF Handling, Idle
<1>5. \A t \in Slots : t # s => x \notin {"adopt", "kill", "ignore"} \X {t} BY DEF Handling, Idle
<1> QED BY Zenon, <1>1, <1>2, <1>3, <1>4, <1>5

\* A request about a foreign slot leaves the run alone.
LEMMA ForeignKeepsRun ==
  ASSUME IInv, NEW r \in Requests, NEW s \in Slots \ Own, NEW x \in Handling(s),
         request' = [request EXCEPT ![r] = x],
         request[r] \in Handling(s),
         UNCHANGED <<run, phase, rendered, manifest, spawner>>,
         \A t \in Own : /\ row'[t] = row[t] /\ supervisor'[t] = supervisor[t]
                        /\ proc'[t] = "alive" => proc[t] = "alive"
                        /\ t \in sentinel' => t \in sentinel
  PROVE  /\ RequestTypeOK' /\ RunInv' /\ SlotInv' /\ LockInv' /\ PersistInv'
         /\ \A t \in Slots : t # s => NothingNew(t)
<1> USE DEF IInv
<1>1. x \in RequestStates BY Zenon, ForeignMoves
<1>2. RequestTypeOK' BY Zenon, <1>1, RequestTypes
<1>3. x # <<"launch", NoSlot>> BY Zenon, ForeignMoves
<1>4. \A t \in Own : x \notin {<<"adopt", t>>, <<"track", t>>, <<"kill", t>>, <<"ignore", t>>} BY Zenon, ForeignMoves
<1>5. \A t \in Slots : x \notin {<<"remove", t>>, <<"drop", t>>} BY Zenon, ForeignMoves
<1>6. \A t \in Slots : t # s => request[r] \notin {"adopt", "kill", "ignore"} \X {t} BY Zenon, ForeignMoves
<1>7. \A t \in Slots : request[r] # <<"clear", t>> BY Zenon, ForeignMoves
<1>8. \A t \in Slots : t # s => NothingNew(t) BY Zenon, <1>5, <1>6, RequestMoves
<1>9. \A t \in Own : t \in Slots /\ t # s BY Zenon DEF Slots
<1>10. \A t \in Own : Fresh(t) => Fresh(t)' BY Zenon, <1>8, <1>9 DEF Fresh, NothingNew
<1>11. RunInv' BY Zenon, <1>3, <1>4, <1>10, RunRequest
<1>12. SlotInv' BY Zenon, <1>8, <1>9, SlotKept DEF SlotInv
<1>13. LockInv' BY Zenon, LockStays
<1>14. \A t \in Own : Unpersisted(t) => Unpersisted(t)' BY Zenon, <1>7, <1>9, UnpersistedKept
<1>15. PersistInv' BY Zenon, <1>14, PersistedKept
<1> QED BY Zenon, <1>2, <1>8, <1>11, <1>12, <1>13, <1>15

\* A slot that a request has taken from the quarantine is a foreign one.
LEMMA TakenIsForeign == ASSUME RunInv, NEW r \in Requests, NEW s \in Slots, Taken(r, s) PROVE s \notin Own
  BY Zenon DEF RunInv

\* QuarantineAct takes a slot from the quarantine: the request has it.
LEMMA QuarantineActPreserves ==
  ASSUME IInv, NEW r \in Requests, NEW s \in Slots, NEW action \in {"adopt", "kill", "ignore"},
         QuarantineAct(r, s, action)
  PROVE  IInv'
<1> USE DEF IInv
<1>1. /\ UNCHANGED <<up, world, row, tracked, run, workerIDs, stopped, closed, spawner, supervisor,
                     killer, persisting, forgotten>>
      /\ up /\ request[r] = Idle /\ s \in quarantine /\ quarantine' = quarantine \ {s}
      /\ request' = [request EXCEPT ![r] = <<action, s>>]
  BY Zenon DEF QuarantineAct, Goes
<1>2. s \in Slots \ Own BY Zenon, <1>1, SlotsAssumption DEF TypeOK, RegistryTypeOK
<1>3. WorldTypeOK' /\ SlotTypeOK' /\ PersistTypeOK' BY Zenon, <1>1, TypesStay
<1>4. RegistryTypeOK' BY Zenon, <1>1 DEF TypeOK, RegistryTypeOK
<1>5. UNCHANGED <<proc, sentinel, manifest, phase, rendered>> BY Zenon, <1>1 DEF world, persisting
<1>6. <<action, s>> \in Handling(s) /\ request[r] \in Handling(s) BY Zenon, <1>1, HandlingFacts
<1>7. /\ RequestTypeOK' /\ RunInv' /\ SlotInv' /\ LockInv' /\ PersistInv'
      /\ \A t \in Slots : t # s => NothingNew(t)
  BY Zenon, <1>1, <1>2, <1>5, <1>6, ForeignKeepsRun
<1>8. DownInv' BY <1>1, UpStays
<1>9. LiveOK(s)'
  <2>1. request'[r] = <<action, s>> /\ \A q \in Requests : q # r => request'[q] = request[q]
    BY Zenon, <1>1 DEF TypeOK, RequestTypeOK
  <2>2. Acting(s)' BY <2>1 DEF Acting
  <2>3. Known(s)' BY Zenon, <2>2 DEF Known
  <2>4. \A q \in Requests : Purging(q, s)' => Purging(q, s) BY <2>1 DEF Purging
  <2>5. LiveOK(s) /\ ~Untraced(s) BY <1>2 DEF LiveInv, Untraced
  <2> QED BY Zenon, <1>1, <1>5, <2>3, <2>4, <2>5 DEF LiveOK
<1>10. \A t \in Slots : t # s => (t \in quarantine => t \in quarantine') BY Zenon, <1>1
<1>11. LiveInv' BY Zenon, <1>1, <1>5, <1>7, <1>9, <1>10, LiveKept DEF LiveInv
<1> QED BY <1>3, <1>4, <1>7, <1>8, <1>11 DEF TypeOK

\* An adoption that finds the process alive enters a row, and so does one that
\* comes too late.
LEMMA QuarantineAdoptPreserves ==
  ASSUME IInv, NEW r \in Requests, NEW s \in Slots, QuarantineAdopt(r, s) PROVE IInv'
<1> USE DEF IInv
<1>1. /\ UNCHANGED <<up, world, tracked, run, workerIDs, quarantine, stopped, closed, spawner,
                     supervisor, killer, persisting, forgotten>>
      /\ request[r] = <<"adopt", s>>
  BY Zenon DEF QuarantineAdopt, At
<1>2. PICK x \in {Idle, <<"track", s>>} : request' = [request EXCEPT ![r] = x]
  BY Zenon DEF QuarantineAdopt, Goes, Returns
<1>3. PICK y \in {"running", "exited"} : row' = [row EXCEPT ![s] = y] /\ (y = "exited" => proc[s] # "alive")
  BY Zenon DEF QuarantineAdopt
<1>4. Taken(r, s) BY Zenon, <1>1 DEF Taken
<1>5. s \in Slots \ Own BY <1>4, TakenIsForeign
<1>6. WorldTypeOK' /\ SlotTypeOK' /\ PersistTypeOK' BY Zenon, <1>1, TypesStay
<1>7. RegistryTypeOK' BY Zenon, <1>1, <1>3 DEF TypeOK, RegistryTypeOK, States
<1>8. UNCHANGED <<proc, sentinel, manifest, phase, rendered>> BY Zenon, <1>1 DEF world, persisting
<1>9. row'[s] = y /\ \A t \in Slots : t # s => row'[t] = row[t] BY Zenon, <1>3 DEF TypeOK, RegistryTypeOK
<1>10. \A t \in Own : t \in Slots /\ t # s BY <1>5 DEF Slots
<1>11. x \in Handling(s) /\ request[r] \in Handling(s) BY Zenon, <1>1, HandlingFacts
<1>12. \A t \in Own : row'[t] = row[t] BY Zenon, <1>9, <1>10
<1>13. /\ RequestTypeOK' /\ RunInv' /\ SlotInv' /\ LockInv' /\ PersistInv'
       /\ \A t \in Slots : t # s => NothingNew(t)
  BY Zenon, <1>1, <1>2, <1>5, <1>8, <1>11, <1>12, ForeignKeepsRun
<1>14. up BY <1>1, BusyIsUp DEF Idle
<1>15. DownInv' BY Zenon, <1>1, <1>14, UpStays
<1>16. LiveOK(s)'
  <2>1. CASE y = "exited" BY Zenon, <1>3, <1>8, <2>1 DEF LiveOK
  <2>2. CASE y = "running"
    <3>1. Known(s)' BY Zenon, <1>9, <2>2 DEF Known
    <3>2. \A q \in Requests : Purging(q, s)' => Purging(q, s)
      BY <1>2 DEF Purging, TypeOK, RequestTypeOK, Idle
    <3>3. LiveOK(s) /\ ~Untraced(s) BY <1>5 DEF LiveInv, Untraced
    <3> QED BY Zenon, <1>1, <1>8, <1>9, <2>2, <3>1, <3>2, <3>3 DEF LiveOK
  <2> QED BY <2>1, <2>2
<1>17. LiveInv' BY Zenon, <1>1, <1>8, <1>9, <1>13, <1>16, LiveKept DEF LiveInv
<1> QED BY Zenon, <1>6, <1>7, <1>13, <1>15, <1>17 DEF TypeOK

\* The fate of the slot is decided: it is adopted, killed, or given up.
LEMMA DecidedPreserves ==
  ASSUME IInv, NEW r \in Requests, NEW s \in Slots, NEW x \in {"track", "kill", "ignore"},
         request[r] = <<x, s>>,
         TrackAdopted(r, s) \/ KillForeign(r, s) \/ QuarantineIgnore(r, s) \/ ContextDone(r, s)
  PROVE  IInv'
<1> USE DEF IInv
<1>1. /\ UNCHANGED <<up, manifest, row, run, workerIDs, quarantine, stopped, closed, spawner, killer, persisting>>
      /\ request' = [request EXCEPT ![r] = Idle]
  BY Zenon DEF TrackAdopted, KillForeign, QuarantineIgnore, ContextDone, Returns, world, registry
<1>2. Taken(r, s) BY Zenon DEF Taken
<1>3. s \in Slots \ Own BY Zenon, <1>2, TakenIsForeign
<1>4. /\ UNCHANGED proc \/ proc' = [proc EXCEPT ![s] = "dead"]
      /\ sentinel' \subseteq sentinel /\ sentinel \subseteq sentinel' \cup {s}
      /\ forgotten \subseteq forgotten' /\ forgotten' \subseteq forgotten \cup {s}
  BY Zenon DEF TrackAdopted, KillForeign, QuarantineIgnore, ContextDone, At, world
<1>5. /\ tracked \subseteq tracked' /\ tracked' \subseteq tracked \cup {s}
      /\ UNCHANGED supervisor \/ supervisor' = [supervisor EXCEPT ![s] = "wait"]
  BY Zenon DEF TrackAdopted, KillForeign, QuarantineIgnore, ContextDone, SupervisorGoes, registry
<1>6. PersistTypeOK' BY Zenon, <1>1, TypesStay
<1>7. WorldTypeOK' BY Zenon, <1>1, <1>4 DEF TypeOK, WorldTypeOK
<1>8. RegistryTypeOK' BY Zenon, <1>1, <1>5 DEF TypeOK, RegistryTypeOK
<1>9. SlotTypeOK' BY Zenon, <1>1, <1>5 DEF TypeOK, SlotTypeOK
<1>10. UNCHANGED <<phase, rendered>> BY Zenon, <1>1 DEF persisting
<1>11. \A t \in Slots : proc'[t] = "alive" => proc[t] = "alive" BY Zenon, <1>4 DEF TypeOK, WorldTypeOK
<1>12. \A t \in Slots : t # s => supervisor'[t] = supervisor[t] BY Zenon, <1>5 DEF TypeOK, SlotTypeOK
<1>13. \A t \in Own : t \in Slots /\ t # s BY Zenon, <1>3 DEF Slots
<1>14. Idle \in Handling(s) /\ request[r] \in Handling(s) BY Zenon, HandlingFacts
<1>15. \A t \in Own : /\ row'[t] = row[t] /\ supervisor'[t] = supervisor[t]
                      /\ proc'[t] = "alive" => proc[t] = "alive"
                      /\ t \in sentinel' => t \in sentinel
  BY Zenon, <1>1, <1>4, <1>11, <1>12, <1>13
<1>16. /\ RequestTypeOK' /\ RunInv' /\ SlotInv' /\ LockInv' /\ PersistInv'
       /\ \A t \in Slots : t # s => NothingNew(t)
  BY Zenon, <1>1, <1>3, <1>10, <1>14, <1>15, ForeignKeepsRun
<1>17. up BY BusyIsUp DEF Idle
<1>18. DownInv' BY Zenon, <1>1, <1>17, UpStays
<1>19. request'[r] = Idle /\ \A q \in Requests : q # r => request'[q] = request[q]
  BY Zenon, <1>1 DEF TypeOK, RequestTypeOK
<1>20. \A q \in Requests : Purging(q, s)' => Purging(q, s)
  <2>1. Idle \notin {<<"remove", s>>, <<"drop", s>>} BY Zenon, <1>3, <1>14, ForeignMoves
  <2> QED BY Zenon, <1>19, <2>1 DEF Purging
<1>21. LiveOK(s) /\ ~Untraced(s) BY Zenon, <1>3 DEF LiveInv, Untraced
<1>22. LiveOK(s)'
  <2>1. CASE s \in forgotten' BY Zenon, <1>1, <1>11, <1>20, <1>21, <2>1 DEF LiveOK
  <2>2. CASE proc'[s] # "alive" BY Zenon, <2>2 DEF LiveOK
  <2>3. CASE TrackAdopted(r, s)
    <3>1. UNCHANGED <<sentinel, forgotten>> /\ request[r] = <<"track", s>>
      BY Zenon, <2>3 DEF TrackAdopted, At, world
    <3>2. request[r] \notin {"adopt", "kill", "ignore"} \X {s} BY Zenon, <3>1, HandlingFacts
    <3>3. Acting(s) => Acting(s)'
      <4>1. SUFFICES ASSUME NEW q \in Requests, request[q] \in {"adopt", "kill", "ignore"} \X {s}
                     PROVE  request'[q] \in {"adopt", "kill", "ignore"} \X {s}
        BY Zenon DEF Acting
      <4>2. q # r BY Zenon, <3>2, <4>1
      <4> QED BY Zenon, <1>19, <4>1, <4>2
    <3>4. Known(s) => Known(s)' BY Zenon, <1>1, <3>3 DEF Known
    <3> QED BY Zenon, <1>1, <1>11, <1>20, <1>21, <3>1, <3>4 DEF LiveOK
  <2>4. CASE KillForeign(r, s)
    <3>1. proc' = [proc EXCEPT ![s] = "dead"] BY Zenon, <2>4 DEF KillForeign
    <3> QED BY Zenon, <2>2, <3>1 DEF TypeOK, WorldTypeOK
  <2>5. CASE QuarantineIgnore(r, s) BY Zenon, <2>1, <2>5 DEF QuarantineIgnore
  <2>6. CASE ContextDone(r, s)
    <3>1. request[r] # <<"await", s>> OBVIOUS
    <3> QED BY Zenon, <2>1, <2>6, <3>1 DEF ContextDone, At
  <2> QED BY Zenon, <2>3, <2>4, <2>5, <2>6
<1>23. \A t \in Slots : t # s => (t \in sentinel => t \in sentinel') /\ (t \in forgotten => t \in forgotten')
  BY Zenon, <1>4
<1>24. LiveInv' BY Zenon, <1>1, <1>11, <1>16, <1>22, <1>23, LiveKept DEF LiveInv
<1> QED BY Zenon, <1>6, <1>7, <1>8, <1>9, <1>16, <1>18, <1>24 DEF TypeOK

\* A context that ends: Stop returns, and a kill is given up.
LEMMA ContextDonePreserves ==
  ASSUME IInv, NEW r \in Requests, NEW s \in Slots, ContextDone(r, s) PROVE IInv'
<1> USE DEF IInv
<1>1. CASE request[r] = <<"kill", s>> BY Zenon, <1>1, DecidedPreserves
<1>2. CASE request[r] = <<"await", s>>
  <2>1. UNCHANGED <<up, world, registry, spawner, supervisor, killer, persisting, forgotten>>
    <3>1. request[r] # <<"kill", s>> BY <1>2
    <3> QED BY Zenon, <3>1 DEF ContextDone, At
  <2>2. Idle \in Plain /\ request[r] \in Plain BY <1>2 DEF Plain
  <2>3. request' = [request EXCEPT ![r] = Idle] BY Zenon DEF ContextDone, Returns
  <2>4. WorldTypeOK' /\ RegistryTypeOK' /\ SlotTypeOK' /\ PersistTypeOK' BY Zenon, <2>1, TypesStay
  <2>5. RequestTypeOK' BY Zenon, <2>2, <2>3, PlainTypes
  <2>6. UNCHANGED <<run, row, quarantine, proc, sentinel, manifest, phase, rendered>>
    BY Zenon, <2>1 DEF world, registry, persisting
  <2>7. up BY <1>2, BusyIsUp DEF Idle
  <2>8. DownInv' /\ RunInv' /\ SlotInv' /\ LiveInv' /\ LockInv' /\ PersistInv'
    BY Zenon, <2>1, <2>2, <2>3, <2>6, <2>7, PlainPreserves
  <2> QED BY Zenon, <2>4, <2>5, <2>8 DEF TypeOK
<1> QED BY Zenon, <1>1, <1>2 DEF ContextDone, At

----------------------------------------------------------------------------
(* The farm ends and starts *)

\* A farm that ends keeps the sentinels; what its spawns have not come to write
\* is given up.
LEMMA FarmEndsPreserves == IInv /\ FarmEnds => IInv'
<1> SUFFICES ASSUME IInv, FarmEnds PROVE IInv' OBVIOUS
<1> USE DEF IInv
<1>1. /\ up' = FALSE /\ row' = Nowhere /\ quarantine' = {} /\ UNCHANGED world
      /\ run' = (IF run = "known" THEN "past" ELSE run)
      /\ spawner' = [t \in Own |-> "none"] /\ supervisor' = Nowhere
      /\ request' = [r \in Requests |-> Idle] /\ phase' = [w \in Writers |-> "none"]
      /\ forgotten' = forgotten \cup {t \in Slots : Untraced(t)}
  BY Zenon DEF FarmEnds
<1>2. WorldTypeOK' BY Zenon, <1>1 DEF TypeOK, WorldTypeOK, world
<1>3. RegistryTypeOK'
  <2>1. tracked' = {} /\ workerIDs' = {} /\ stopped' = {} /\ closed' = {} BY Zenon DEF FarmEnds
  <2>2. run' \in {"none", "known", "past"} BY Zenon, <1>1 DEF TypeOK, RegistryTypeOK
  <2> QED BY Zenon, <1>1, <2>1, <2>2 DEF RegistryTypeOK, Nowhere
<1>4. SlotTypeOK' BY Zenon, <1>1 DEF SlotTypeOK, Nowhere, FarmEnds
<1>5. RequestTypeOK' BY Zenon, <1>1 DEF RequestTypeOK, RequestStates
<1>6. PersistTypeOK'
  <2>1. snapshot' = [w \in Writers |-> {}] /\ rendered' = [w \in Writers |-> Rows({})] BY Zenon DEF FarmEnds
  <2>2. Rows({}) \in [Own -> {"none"} \cup States] BY DEF Rows
  <2> QED BY Zenon, <1>1, <2>1, <2>2 DEF PersistTypeOK
<1>7. run' # "known" /\ (run' = "none" => run = "none") BY <1>1
<1>8. \A r \in Requests : request'[r] = Idle BY <1>1
<1>9. DownInv' BY Zenon, <1>1, <1>7, <1>8 DEF DownInv
<1>10. \A t \in Slots, r \in Requests : ~Purging(r, t)' BY <1>8 DEF Purging, Idle
<1>11. \A t \in Own : t \in Slots BY DEF Slots
<1>12. RunInv'
  <2>1. \A r \in Requests : ~Launching(r)' BY <1>8 DEF Launching, Idle
  <2>2. \A r \in Requests, t \in Own : ~Taken(r, t)' BY <1>8 DEF Taken, Idle
  <2>3. \A t \in Own : Fresh(t) => Fresh(t)' BY Zenon, <1>1, <1>10, <1>11 DEF Fresh, Nowhere, world
  <2> QED BY Zenon, <1>1, <1>7, <2>1, <2>2, <2>3 DEF RunInv
<1>13. SlotInv' BY <1>7 DEF SlotInv
<1>14. LiveInv'
  <2> SUFFICES ASSUME NEW t \in Slots PROVE LiveOK(t)' BY DEF LiveInv
  <2>1. LiveOK(t) BY DEF LiveInv
  <2>2. row'[t] = "none" /\ proc'[t] = proc[t] /\ sentinel' = sentinel BY <1>1 DEF Nowhere, world
  <2>3. t \notin forgotten' => t \notin forgotten /\ ~Untraced(t) BY <1>1
  <2> QED BY Zenon, <1>1, <1>10, <2>1, <2>2, <2>3 DEF LiveOK
<1>15. LockInv' BY Zenon, <1>1 DEF LockInv
<1>16. PersistInv' BY <1>7 DEF PersistInv
<1> QED BY Zenon, <1>2, <1>3, <1>4, <1>5, <1>6, <1>9, <1>12, <1>13, <1>14, <1>15, <1>16 DEF TypeOK

\* A farm that starts finds every live worker that was not given up by its
\* sentinel.
LEMMA FarmStartsPreserves == IInv /\ FarmStarts => IInv'
<1> SUFFICES ASSUME IInv, FarmStarts PROVE IInv' OBVIOUS
<1> USE DEF IInv
<1>1. /\ ~up /\ up' = TRUE
      /\ UNCHANGED <<world, run, workerIDs, stopped, closed, spawner, killer, request, persisting>>
      /\ supervisor' = [t \in Slots |-> IF Mine(t) THEN "wait" ELSE "none"]
      /\ tracked' = {t \in Slots : Mine(t)} /\ quarantine' = {t \in Slots : Theirs(t)}
      /\ forgotten' = forgotten \ sentinel
  BY DEF FarmStarts
<1>2. row' = [t \in Slots |-> CASE Mine(t) -> "running" [] Stale(t) -> "exited" [] OTHER -> "none"]
  BY DEF FarmStarts
<1>3. \A t \in Slots : ~(Mine(t) /\ Stale(t)) BY DEF Mine, Stale
<1>4. \A t \in Slots : /\ Mine(t) => row'[t] = "running"
                       /\ Stale(t) => row'[t] = "exited"
                       /\ ~Mine(t) /\ ~Stale(t) => row'[t] = "none"
  BY <1>2, <1>3
<1>5. row' \in [Slots -> {"none"} \cup States] BY <1>2, <1>4 DEF States
<1>6. WorldTypeOK' BY Zenon, <1>1 DEF TypeOK, WorldTypeOK, world
<1>7. quarantine' \subseteq Foreign BY Zenon, <1>1 DEF Theirs
<1>8. RegistryTypeOK' BY Zenon, <1>1, <1>5, <1>7 DEF TypeOK, RegistryTypeOK
<1>9. SlotTypeOK' BY Zenon, <1>1 DEF TypeOK, SlotTypeOK
<1>10. RequestTypeOK' /\ PersistTypeOK' BY Zenon, <1>1, TypesStay
<1>11. run # "known" /\ (\A r \in Requests : request[r] = Idle) BY Zenon, <1>1 DEF DownInv
<1>12. \A t \in Own : spawner[t] = "none" BY <1>11 DEF RunInv
<1>13. DownInv' BY Zenon, <1>1 DEF DownInv
<1>14. \A t \in Own : t \in Slots BY DEF Slots
<1>15. UNCHANGED <<proc, sentinel, phase>> BY Zenon, <1>1 DEF world, persisting
<1>16. \A t \in Own : Fresh(t) => Fresh(t)'
  <2> SUFFICES ASSUME NEW t \in Own, Fresh(t) PROVE Fresh(t)' OBVIOUS
  <2>1. ~Mine(t) /\ ~Stale(t) BY Zenon DEF Mine, Stale, Fresh
  <2>2. row'[t] = "none" /\ supervisor'[t] = "none" BY Zenon, <1>1, <1>4, <1>14, <2>1
  <2> QED BY Zenon, <1>1, <1>15, <2>2 DEF Fresh, Purging
<1>17. RunInv' BY Zenon, <1>1, <1>16, RunKept
<1>18. SlotInv' BY Zenon, <1>1, <1>11 DEF SlotInv
<1>19. LiveInv'
  <2> SUFFICES ASSUME NEW t \in Slots, proc[t] = "alive" PROVE LiveOK(t)' BY Zenon, <1>15 DEF LiveInv, LiveOK
  <2>1. LiveOK(t) /\ ~Untraced(t) BY Zenon, <1>12 DEF LiveInv, Untraced
  <2>2. t \notin forgotten' => t \in sentinel BY Zenon, <1>1, <2>1 DEF LiveOK
  <2>3. ~Stale(t) BY DEF Stale
  <2>4. row'[t] # "exited" BY Zenon, <1>4, <2>3
  <2>5. t \notin forgotten' => Known(t)'
    <3>1. t \in sentinel => Mine(t) \/ Theirs(t) BY DEF Mine, Theirs, Slots
    <3> QED BY Zenon, <1>1, <1>4, <2>2, <3>1 DEF Known
  <2>6. \A r \in Requests : ~Purging(r, t)' BY Zenon, <1>1, <2>1 DEF LiveOK, Purging
  <2> QED BY Zenon, <1>15, <2>2, <2>4, <2>5, <2>6 DEF LiveOK
<1>20. LockInv' BY <1>15, LockStays
<1>21. PersistInv' BY Zenon, <1>1, <1>11 DEF PersistInv
<1> QED BY Zenon, <1>6, <1>8, <1>9, <1>10, <1>13, <1>17, <1>18, <1>19, <1>20, <1>21 DEF TypeOK

----------------------------------------------------------------------------
(* The theorems *)

\* Before the first start there is nothing but foreign sentinels.
LEMMA InitIInv == Init => IInv
<1> SUFFICES ASSUME Init PROVE IInv OBVIOUS
<1>1. Rows({}) \in [Own -> {"none"} \cup States] BY DEF Rows
<1>2. sentinel \subseteq Foreign /\ Own \cap Foreign = {} BY Zenon, SlotsAssumption DEF Init
<1>3. WorldTypeOK BY Zenon, <1>2 DEF Init, WorldTypeOK, Slots
<1>4. RegistryTypeOK BY Zenon DEF Init, RegistryTypeOK, Nowhere
<1>5. SlotTypeOK BY Zenon DEF Init, SlotTypeOK, Nowhere
<1>6. RequestTypeOK BY Zenon DEF Init, RequestTypeOK, RequestStates
<1>7. PersistTypeOK BY Zenon, <1>1 DEF Init, PersistTypeOK
<1>8. \A r \in Requests : request[r] = Idle BY Zenon DEF Init
<1>9. DownInv BY Zenon, <1>8 DEF Init, DownInv
<1>10. \A t \in Slots, r \in Requests : ~Purging(r, t) BY <1>8 DEF Purging, Idle
<1>11. RunInv
  <2>1. \A r \in Requests : ~Launching(r) BY <1>8 DEF Launching, Idle
  <2>2. \A r \in Requests, t \in Own : ~Taken(r, t) BY <1>8 DEF Taken, Idle
  <2>3. ASSUME NEW t \in Own PROVE Fresh(t)
    <3>1. t \in Slots /\ t \notin sentinel BY <1>2 DEF Slots
    <3> QED BY Zenon, <1>10, <3>1 DEF Init, Nowhere, Fresh
  <2> QED BY Zenon, <2>1, <2>2, <2>3 DEF Init, RunInv
<1>12. SlotInv /\ PersistInv BY Zenon DEF Init, SlotInv, PersistInv
<1>13. LiveInv
  <2>1. ASSUME NEW t \in Slots PROVE row[t] = "none" /\ (proc[t] = "alive" => t \in sentinel) /\ ~up
    BY Zenon DEF Init, Nowhere
  <2> QED BY Zenon, <1>10, <2>1 DEF LiveInv, LiveOK
<1>14. LockInv BY Zenon DEF Init, LockInv
<1> QED BY <1>3, <1>4, <1>5, <1>6, <1>7, <1>9, <1>11, <1>12, <1>13, <1>14 DEF IInv, TypeOK

\* Every step that a request takes once it has begun.
LEMMA RequestPreserves == ASSUME IInv, NEW r \in Requests, RequestStep(r) PROVE IInv'
<1>1. CASE Launch(r) BY <1>1, LaunchPreserves
<1>2. CASE Join(r) BY Zenon, <1>2, WaitingPreserves
<1>3. ASSUME NEW s \in Slots,
             \/ LookUp(r, s) \/ MarkStopping(r, s) \/ StopOnce(r, s) \/ StopDone(r, s)
             \/ RemoveFiles(r, s) \/ DropRow(r, s) \/ ClearSlot(r, s)
             \/ QuarantineAdopt(r, s) \/ TrackAdopted(r, s) \/ KillForeign(r, s)
             \/ QuarantineIgnore(r, s)
      PROVE  IInv'
  <2>1. CASE TrackAdopted(r, s) BY Zenon, <2>1, DecidedPreserves DEF TrackAdopted, At
  <2>2. CASE KillForeign(r, s) BY Zenon, <2>2, DecidedPreserves DEF KillForeign, At
  <2>3. CASE QuarantineIgnore(r, s) BY Zenon, <2>3, DecidedPreserves DEF QuarantineIgnore, At
  <2> QED BY Zenon, <1>3, <2>1, <2>2, <2>3, WaitingPreserves, MarkStoppingPreserves, RemoveFilesPreserves,
             DropRowPreserves, ClearSlotPreserves, QuarantineAdoptPreserves
<1> QED BY Zenon, <1>1, <1>2, <1>3 DEF RequestStep

\* Every step preserves the invariant.
LEMMA NextIInv == IInv /\ [Next]_vars => IInv'
<1> SUFFICES ASSUME IInv, [Next]_vars PROVE IInv' OBVIOUS
<1>1. CASE UNCHANGED vars
  <2>1. UNCHANGED <<up, world, registry, spawner, supervisor, killer, request, persisting, forgotten>>
    BY <1>1 DEF vars
  <2>2. TypeOK' BY Zenon, <2>1, TypesStay DEF IInv, TypeOK
  <2>3. UNCHANGED <<run, row, quarantine, proc, sentinel, manifest, phase, rendered>>
    BY Zenon, <2>1 DEF world, registry, persisting
  <2>4. DownInv' /\ RunInv' /\ SlotInv' BY Zenon, <2>1, <2>3, DownStays, RunStays, SlotsStay DEF IInv
  <2>5. LiveInv' /\ LockInv' /\ PersistInv' BY Zenon, <2>1, <2>3, LiveStays, LockStays, PersistedStays DEF IInv
  <2> QED BY Zenon, <2>2, <2>4, <2>5 DEF IInv
<1>2. ASSUME NEW r \in Requests, BeginRequest(r) PROVE IInv'
  BY Zenon, <1>2, SpawnPreserves, WaitingPreserves, BeginPurgePreserves, QuarantineActPreserves DEF BeginRequest
<1>3. ASSUME NEW s \in Slots, SupervisorStep(s) PROVE IInv'
  BY Zenon, <1>3, MarkExitedPreserves, SupervisorEndPreserves DEF SupervisorStep
<1>4. CASE Next
  BY Zenon, <1>2, <1>3, <1>4, SpawnerPreserves, EndPreserves, PersistPreserves, RequestPreserves,
     ContextDonePreserves, FarmEndsPreserves, FarmStartsPreserves DEF Next
<1> QED BY <1>1, <1>4

\* The inductive invariant of the farm holds in every state that it reaches,
\* whatever requests are served and however often it is started and ended.
THEOREM FarmInvariance == Spec => []IInv
  BY InitIInv, NextIInv, PTL DEF Spec

\* Every variable of the farm keeps its type: property TypeOK.
THEOREM FarmTypeCorrect == Spec => []TypeOK
<1>1. IInv => TypeOK BY DEF IInv
<1> QED BY <1>1, FarmInvariance, PTL

\* No live worker is lost, by purges, adoptions, kills and restarts of the farm
\* in any order: property LiveWorkerKnown.
THEOREM WorkersStayKnown == Spec => []LiveWorkerKnown
<1>1. ASSUME IInv, NEW s \in Slots, proc[s] = "alive", s \notin forgotten
      PROVE  (up => Known(s)) /\ (~up => s \in sentinel)
  <2>1. LiveOK(s) BY <1>1 DEF IInv, LiveInv
  <2>2. ~up => ~Untraced(s) BY Zenon, <1>1 DEF IInv, DownInv, RunInv, Untraced
  <2> QED BY Zenon, <1>1, <2>1, <2>2 DEF LiveOK
<1>2. IInv => LiveWorkerKnown BY Zenon, <1>1 DEF LiveWorkerKnown, Known
<1> QED BY <1>2, FarmInvariance, PTL

----------------------------------------------------------------------------
(* Sentinels, in the farm that spawned the worker and in later ones *)

\* While a farm runs, a sentinel of its own slots is there only with the row.
SentinelOK(s) ==
  /\ row[s] = "none" => s \notin sentinel
  /\ \A r \in Requests : request[r] = <<"drop", s>> => s \notin sentinel

SentinelInv == up => \A s \in Own : SentinelOK(s)

\* A step that removes no row, writes no sentinel and lets no purge come to its
\* row keeps it.
Quietly ==
  /\ up' = up /\ sentinel' \subseteq sentinel
  /\ \A s \in Own : row'[s] = "none" => row[s] = "none"
  /\ \A r \in Requests, s \in Own : request'[r] = <<"drop", s>> => request[r] = <<"drop", s>>

LEMMA QuietKeepsSentinels == ASSUME SentinelInv, Quietly PROVE SentinelInv'
  BY Zenon DEF SentinelInv, SentinelOK, Quietly

\* Only FarmEnds, FarmStarts, WriteSentinel, RemoveFiles and DropRow do more.
LEMMA SpawnerIsQuiet ==
  ASSUME IInv, NEW s \in Own, SpawnerStep(s), ~WriteSentinel(s)
  PROVE  Quietly
<1>1. row \in [Slots -> {"none"} \cup States] BY Zenon DEF IInv, TypeOK, RegistryTypeOK
<1>2. UNCHANGED <<up, sentinel, request>>
  BY Zenon DEF SpawnerStep, StartProcess, StartFails, FailureRecorded, AddRow, Track, Supervise, world
<1>3. row' \in {row, [row EXCEPT ![s] = "exited"], [row EXCEPT ![s] = "running"]}
  BY Zenon DEF SpawnerStep, StartProcess, StartFails, FailureRecorded, AddRow, Track, Supervise, registry
<1>4. \A t \in Own : row'[t] = "none" => row[t] = "none" BY <1>1, <1>3 DEF Slots
<1> QED BY Zenon, <1>2, <1>4 DEF Quietly

LEMMA SlotStepIsQuiet ==
  ASSUME IInv, NEW s \in Slots, SupervisorStep(s) \/ KillerStep(s) \/ WorkerExits(s)
  PROVE  Quietly
<1>1. row \in [Slots -> {"none"} \cup States] BY Zenon DEF IInv, TypeOK, RegistryTypeOK
<1>2. UNCHANGED <<up, sentinel, request>>
  BY Zenon DEF SupervisorStep, MarkExited, Untrack, CloseStopCh, KillerStep, GraceSufficed, GraceExpires,
               WorkerExits, world
<1>3. row' \in {row, [row EXCEPT ![s] = "exited"]}
  BY Zenon DEF SupervisorStep, MarkExited, Untrack, CloseStopCh, KillerStep, GraceSufficed, GraceExpires,
               WorkerExits, registry, SetRow
<1>4. \A t \in Own : row'[t] = "none" => row[t] = "none" BY <1>1, <1>3 DEF Slots
<1> QED BY Zenon, <1>2, <1>4 DEF Quietly

LEMMA PersistIsQuiet == ASSUME NEW w \in Writers, PersistStep(w) PROVE Quietly
<1>1. UNCHANGED <<up, sentinel, request, row>>
  BY Zenon DEF PersistStep, SnapshotIds, Render, WriteManifest, world, registry
<1> QED BY Zenon, <1>1 DEF Quietly

\* The requests, but for the two steps of a purge that take the sentinel and
\* the row away.
LEMMA RequestIsQuiet ==
  ASSUME IInv, NEW r \in Requests,
         \/ BeginRequest(r) \/ Launch(r) \/ Join(r)
         \/ \E s \in Slots :
              \/ LookUp(r, s) \/ MarkStopping(r, s) \/ StopOnce(r, s) \/ StopDone(r, s) \/ ClearSlot(r, s)
              \/ QuarantineAdopt(r, s) \/ TrackAdopted(r, s) \/ KillForeign(r, s)
              \/ QuarantineIgnore(r, s) \/ ContextDone(r, s)
  PROVE  Quietly
<1>1. row \in [Slots -> {"none"} \cup States] /\ request \in [Requests -> RequestStates]
  BY Zenon DEF IInv, TypeOK, RegistryTypeOK, RequestTypeOK
<1>2. up' = up
  BY Zenon DEF BeginRequest, Spawn, BeginStop, BeginPurge, QuarantineAct, Launch, Join, LookUp, MarkStopping,
               StopOnce, StopDone, ClearSlot, QuarantineAdopt, TrackAdopted, KillForeign, QuarantineIgnore,
               ContextDone
<1>3. sentinel' \subseteq sentinel
  BY Zenon DEF BeginRequest, Spawn, BeginStop, BeginPurge, QuarantineAct, Launch, Join, LookUp, MarkStopping,
               StopOnce, StopDone, ClearSlot, QuarantineAdopt, TrackAdopted, KillForeign, QuarantineIgnore,
               ContextDone, world
<1>4. \E s \in Slots \cup {NoSlot} : row' = row \/ \E state \in States : row' = [row EXCEPT ![s] = state]
  BY Zenon DEF BeginRequest, Spawn, BeginStop, BeginPurge, QuarantineAct, Launch, Join, LookUp, MarkStopping,
               StopOnce, StopDone, ClearSlot, QuarantineAdopt, TrackAdopted, KillForeign, QuarantineIgnore,
               ContextDone, registry, SetRow, States
<1>5. \E s \in Slots \cup {NoSlot}, what \in {"idle", "launch", "join", "stop", "mark", "once", "await",
                                             "remove", "clear", "adopt", "track", "kill", "ignore"} :
        request' = [request EXCEPT ![r] = <<what, s>>]
  BY Zenon DEF BeginRequest, Spawn, BeginStop, BeginPurge, QuarantineAct, Launch, Join, LookUp, MarkStopping,
               StopOnce, StopDone, ClearSlot, QuarantineAdopt, TrackAdopted, KillForeign, QuarantineIgnore,
               ContextDone, Goes, Returns, Idle
<1>6. \A t \in Own : row'[t] = "none" => row[t] = "none" BY <1>1, <1>4 DEF Slots, States
<1>7. \A q \in Requests, t \in Own : request'[q] = <<"drop", t>> => request[q] = <<"drop", t>>
  BY <1>1, <1>5
<1> QED BY Zenon, <1>2, <1>3, <1>6, <1>7 DEF Quietly

\* A sentinel is written beside its row, a purge takes the sentinel before the
\* row, and a farm that starts has a row for each of its own sentinels.
LEMMA NextSentinelInv == IInv /\ SentinelInv /\ [Next]_vars => SentinelInv'
<1> SUFFICES ASSUME IInv, SentinelInv, [Next]_vars PROVE SentinelInv' OBVIOUS
<1>1. CASE UNCHANGED vars
  <2>1. UNCHANGED <<up, sentinel, row, request>> BY <1>1 DEF vars, world, registry
  <2> QED BY Zenon, <2>1 DEF SentinelInv, SentinelOK
<1>2. ASSUME NEW s \in Own, WriteSentinel(s) PROVE SentinelInv'
  <2>1. sentinel' \in {sentinel, sentinel \cup {s}} /\ UNCHANGED <<up, row, request>>
    BY Zenon, <1>2 DEF WriteSentinel, registry
  <2>2. spawner[s] = "tracked" BY Zenon, <1>2 DEF WriteSentinel
  <2>3. run = "known" BY Zenon, <2>2 DEF IInv, RunInv
  <2>4. SlotOK(s) BY Zenon, <2>3 DEF IInv, SlotInv
  <2>5. row[s] # "none" /\ \A r \in Requests : ~Purging(r, s) BY <2>2, <2>4 DEF SlotOK
  <2> QED BY Zenon, <2>1, <2>5 DEF SentinelInv, SentinelOK, Purging
<1>3. ASSUME NEW r \in Requests, NEW s \in Slots, RemoveFiles(r, s) PROVE SentinelInv'
  <2>1. sentinel' = sentinel \ {s} /\ UNCHANGED <<up, row>> BY Zenon, <1>3 DEF RemoveFiles, registry
  <2>2. request \in [Requests -> RequestStates] BY Zenon DEF IInv, TypeOK, RequestTypeOK
  <2>3. request' = [request EXCEPT ![r] = <<"drop", s>>] BY Zenon, <1>3 DEF RemoveFiles, Goes
  <2>4. ASSUME NEW q \in Requests, NEW t \in Own, request'[q] = <<"drop", t>>
        PROVE  request[q] = <<"drop", t>> \/ t = s
    BY <2>2, <2>3, <2>4
  <2> QED BY Zenon, <2>1, <2>4 DEF SentinelInv, SentinelOK
<1>4. ASSUME NEW r \in Requests, NEW s \in Slots, DropRow(r, s) PROVE SentinelInv'
  <2>1. row' = [row EXCEPT ![s] = "none"] /\ UNCHANGED <<up, sentinel>> BY Zenon, <1>4 DEF DropRow, world
  <2>2. /\ request \in [Requests -> RequestStates] /\ request[r] = <<"drop", s>>
        /\ request' = [request EXCEPT ![r] = <<"clear", s>>]
    BY Zenon, <1>4 DEF IInv, TypeOK, RequestTypeOK, DropRow, At, Goes
  <2>3. \A q \in Requests, t \in Own : request'[q] = <<"drop", t>> => request[q] = <<"drop", t>>
    BY <2>2
  <2>4. row \in [Slots -> {"none"} \cup States] BY Zenon DEF IInv, TypeOK, RegistryTypeOK
  <2>5. \A t \in Own : row'[t] = "none" => row[t] = "none" \/ t = s BY <2>1, <2>4 DEF Slots
  <2> QED BY Zenon, <2>1, <2>2, <2>3, <2>5 DEF SentinelInv, SentinelOK
<1>5. CASE FarmEnds BY Zenon, <1>5 DEF FarmEnds, SentinelInv
<1>6. CASE FarmStarts
  <2>1. UNCHANGED <<sentinel, request>> BY Zenon, <1>6 DEF FarmStarts, world
  <2>2. \A r \in Requests : request[r] = Idle BY Zenon, <1>6 DEF FarmStarts, IInv, DownInv
  <2>3. ASSUME NEW s \in Own, s \in sentinel PROVE row'[s] # "none"
    <3>1. Mine(s) \/ Stale(s) BY Zenon, <2>3 DEF Mine, Stale
    <3>2. row'[s] = CASE Mine(s) -> "running" [] Stale(s) -> "exited" [] OTHER -> "none"
      BY <1>6 DEF FarmStarts, Slots
    <3>3. Mine(s) => ~Stale(s) BY Zenon DEF Mine, Stale
    <3> QED BY <3>1, <3>2, <3>3
  <2>4. \A s \in Slots : Idle # <<"drop", s>> BY DEF Idle
  <2> QED BY Zenon, <2>1, <2>2, <2>3, <2>4 DEF SentinelInv, SentinelOK, Slots
<1>7. CASE Next
  <2>1. ASSUME NEW s \in Own, SpawnerStep(s) PROVE SentinelInv'
    BY Zenon, <1>2, <2>1, SpawnerIsQuiet, QuietKeepsSentinels
  <2>2. ASSUME NEW s \in Slots, SupervisorStep(s) \/ KillerStep(s) \/ WorkerExits(s) PROVE SentinelInv'
    BY Zenon, <2>2, SlotStepIsQuiet, QuietKeepsSentinels
  <2>3. ASSUME NEW w \in Writers, PersistStep(w) PROVE SentinelInv'
    BY Zenon, <2>3, PersistIsQuiet, QuietKeepsSentinels
  <2>4. ASSUME NEW r \in Requests, BeginRequest(r) \/ RequestStep(r) \/ \E s \in Slots : ContextDone(r, s)
        PROVE  SentinelInv'
    BY Zenon, <1>3, <1>4, <2>4, RequestIsQuiet, QuietKeepsSentinels DEF RequestStep
  <2> QED BY Zenon, <1>5, <1>6, <1>7, <2>1, <2>2, <2>3, <2>4 DEF Next
<1> QED BY <1>1, <1>7

\* Once nothing is under way, the manifest of a run says what the registry of
\* the farm that spawned it says, and in every farm a purged worker has left no
\* sentinel: property NoStaleTrace.
THEOREM TracesAreCurrent == Spec => []NoStaleTrace
<1>1. ASSUME IInv, NEW s \in Own, Settled(s), run = "known" PROVE manifest[s] \in {"none", row[s]}
  <2>1. \A w \in Writers : phase[w] = "none" BY Zenon, <1>1 DEF Settled
  <2>2. \A r \in Requests : request[r] # <<"clear", s>> BY <1>1 DEF Settled
  <2>3. spawner[s] \notin {"failed", "added", "tracked"} /\ supervisor[s] # "untrack"
    BY <1>1 DEF Settled
  <2>4. ~Unpersisted(s)
    <3>1. \A w \in Writers : phase[w] \notin {"snapshot", "lock"} BY <2>1
    <3> QED BY Zenon, <2>2, <2>3, <3>1 DEF Unpersisted
  <2>5. PersistOK(s) BY Zenon, <1>1 DEF IInv, PersistInv
  <2>6. \A w \in Writers : phase[w] # "write" BY <2>1
  <2> QED BY Zenon, <2>4, <2>5, <2>6 DEF PersistOK
<1>2. IInv /\ SentinelInv => NoStaleTrace
  BY Zenon, <1>1 DEF NoStaleTrace, SentinelInv, SentinelOK, Settled
<1>3. Init => SentinelInv BY Zenon DEF Init, SentinelInv
<1> QED BY <1>2, <1>3, NextSentinelInv, FarmInvariance, PTL DEF Spec
=============================================================================
