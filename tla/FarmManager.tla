------------------------------ MODULE FarmManager ------------------------------
(***************************************************************************)
(* The local worker manager of the worker farm                             *)
(* (src/worker-farm/internal/local/manager.go) with the registry, the      *)
(* adoption scan at start-up and the HTTP requests that drive it.          *)
(*                                                                         *)
(* One run of the farm: its slots Own are spawned once, and the slots      *)
(* Foreign belong to a run of another installation whose sentinels lie in  *)
(* the same cache directory.  A slot stands for the worker spawned in it:  *)
(* its process, its registry row, its sentinel file and its manifest       *)
(* entry.  Concurrent are: one goroutine per spawned slot (spawnOne), one  *)
(* supervisor per tracked slot, one gracefulKill per stopped slot, and the *)
(* HTTP requests.  The farm may stop at any point; its workers outlive it. *)
(*                                                                         *)
(* Assumed: pids are not reused (pidfile.go:25), and the manifest writes   *)
(* and file removals succeed.  A sentinel write may fail.                  *)
(***************************************************************************)
EXTENDS Naturals, FiniteSets

CONSTANTS Own,        \* slots of the run this installation spawns
          Foreign,    \* slots left by another installation
          Requests,   \* HTTP requests served at the same time
          MaxWorkers, \* bound: workers, spawned and foreign, in one behaviour
          NoSlot      \* a request that is about no slot

ASSUME SlotsAssumption ==
  /\ Own \cap Foreign = {} /\ NoSlot \notin Own \cup Foreign
  /\ MaxWorkers \in Nat

Slots == Own \cup Foreign
States == {"running", "stopping", "exited"}

\* The goroutines that call persistRun: spawnOne and supervise of a slot, and
\* the requests.
Writers == ({"spawn", "supervise"} \X Own) \cup Requests

VARIABLES
  up,          \* the farm's process runs
  proc,        \* the worker process of a slot: "none", "alive" or "dead"
  sentinel,    \* slots with a worker-NN.adopt file
  manifest,    \* state a slot has in manifest.json, "none" without an entry
  row,         \* registry state of a slot's worker, "none" without a row
  tracked,     \* Manager.running
  run,         \* "none", "known" (in Manager.runs) or "past" (of an earlier process)
  workerIDs,   \* slots whose id is set in runState.workerIDs
  quarantine,  \* Manager.quarantine
  stopped,     \* slots whose stopOnce has fired
  closed,      \* slots whose stopCh is closed
  spawner,     \* where spawnOne is
  supervisor,  \* where supervise / superviseAdopted is
  killer,      \* where gracefulKill is
  request,     \* <<what the request does next, slot>>
  phase,       \* where a writer is in persistRun
  snapshot,    \* the ids that a writer took in persistRun
  rendered,    \* the manifest that a writer is about to write
  forgotten    \* history: slots whose process the farm may no longer know

world == <<proc, sentinel, manifest>>
registry == <<row, tracked, run, workerIDs, quarantine, stopped, closed>>
persisting == <<phase, snapshot, rendered>>
vars == <<up, world, registry, spawner, supervisor, killer, request, persisting,
          forgotten>>

Idle == <<"idle", NoSlot>>
Nowhere == [s \in Slots |-> "none"]

WorldTypeOK ==
  /\ proc \in [Slots -> {"none", "alive", "dead"}]
  /\ sentinel \subseteq Slots /\ forgotten \subseteq Slots
  /\ manifest \in [Own -> {"none"} \cup States]

RegistryTypeOK ==
  /\ up \in BOOLEAN
  /\ row \in [Slots -> {"none"} \cup States]
  /\ tracked \subseteq Slots
  /\ run \in {"none", "known", "past"}
  /\ workerIDs \subseteq Own
  /\ quarantine \subseteq Foreign
  /\ stopped \subseteq Slots /\ closed \subseteq Slots

\* Where the goroutines of a slot are.
SlotTypeOK ==
  /\ spawner \in [Own -> {"none", "open", "started", "added", "tracked",
                          "written", "failed", "done"}]
  /\ supervisor \in [Slots -> {"none", "wait", "untrack", "close"}]
  /\ killer \in [Slots -> {"none", "grace"}]

\* What a request may do next.
RequestStates ==
  {Idle, <<"launch", NoSlot>>, <<"join", NoSlot>>} \cup
  ({"stop", "mark", "once", "await", "remove", "drop", "clear", "adopt", "track",
    "kill", "ignore"} \X Slots)

RequestTypeOK == request \in [Requests -> RequestStates]

PersistTypeOK ==
  /\ phase \in [Writers -> {"none", "snapshot", "lock", "write"}]
  /\ snapshot \in [Writers -> SUBSET Own]
  /\ rendered \in [Writers -> [Own -> {"none"} \cup States]]

TypeOK == WorldTypeOK /\ RegistryTypeOK /\ SlotTypeOK /\ RequestTypeOK /\ PersistTypeOK

-----------------------------------------------------------------------------
(* persistRun: the ids under m.mu, then the rows under writeMu, then the file. *)

Persist(w) ==
  phase' = IF run = "known" THEN [phase EXCEPT ![w] = "snapshot"] ELSE phase

Free(w) == phase[w] = "none"

SnapshotIds(w) ==
  /\ phase[w] = "snapshot"
  /\ phase' = [phase EXCEPT ![w] = "lock"]
  /\ snapshot' = [snapshot EXCEPT ![w] = workerIDs]
  /\ UNCHANGED <<up, world, registry, spawner, supervisor, killer, request,
                 rendered, forgotten>>

\* The manifest entries of the slots whose ids were in the snapshot; an id
\* without a row has none.
Rows(ids) == [s \in Own |-> IF s \in ids THEN row[s] ELSE "none"]

\* Mutant: no writeMu.
RenderUnlocked(w) ==
  /\ phase[w] = "lock"
  /\ phase' = [phase EXCEPT ![w] = "write"]
  /\ rendered' = [rendered EXCEPT ![w] = Rows(snapshot[w])]
  /\ snapshot' = [snapshot EXCEPT ![w] = {}]
  /\ UNCHANGED <<up, world, registry, spawner, supervisor, killer, request,
                 forgotten>>

\* Takes writeMu and reads the rows of the ids in the snapshot.
Render(w) ==
  /\ phase[w] = "lock"
  /\ \A v \in Writers : phase[v] # "write"
  /\ phase' = [phase EXCEPT ![w] = "write"]
  /\ rendered' = [rendered EXCEPT ![w] = Rows(snapshot[w])]
  /\ snapshot' = [snapshot EXCEPT ![w] = {}]
  /\ UNCHANGED <<up, world, registry, spawner, supervisor, killer, request,
                 forgotten>>

\* Renames the temporary file over manifest.json and releases writeMu.
WriteManifest(w) ==
  /\ phase[w] = "write"
  /\ phase' = [phase EXCEPT ![w] = "none"]
  /\ manifest' = rendered[w]
  /\ rendered' = [rendered EXCEPT ![w] = Rows({})]
  /\ UNCHANGED <<up, proc, sentinel, registry, spawner, supervisor, killer,
                 request, snapshot, forgotten>>

-----------------------------------------------------------------------------
(* Spawn and spawnOne *)

Goes(r, what, s) == request' = [request EXCEPT ![r] = <<what, s>>]
At(r, what, s) == request[r] = <<what, s>> /\ Free(r)
Returns(r) == request' = [request EXCEPT ![r] = Idle]

\* Registers the run and writes its first manifest.
Spawn(r) ==
  /\ up /\ request[r] = Idle /\ run = "none"
  /\ run' = "known"
  /\ phase' = [phase EXCEPT ![r] = "snapshot"]
  /\ Goes(r, "launch", NoSlot)
  /\ UNCHANGED <<up, world, row, tracked, workerIDs, quarantine, stopped, closed,
                 spawner, supervisor, killer, snapshot, rendered, forgotten>>

\* Starts one goroutine for each of the `count` slots of the request.
Launch(r) ==
  /\ At(r, "launch", NoSlot)
  /\ \E batch \in SUBSET Own \ {{}} :
       /\ Cardinality(batch) + Cardinality({s \in Foreign : proc[s] # "none"})
            <= MaxWorkers
       /\ spawner' = [s \in Own |-> IF s \in batch THEN "open" ELSE "none"]
  /\ Goes(r, "join", NoSlot)
  /\ UNCHANGED <<up, world, registry, supervisor, killer, persisting, forgotten>>

\* wg.Wait: every spawn has started or failed.
Join(r) ==
  /\ At(r, "join", NoSlot)
  /\ \A s \in Own : spawner[s] \in {"none", "done"}
  /\ Returns(r)
  /\ UNCHANGED <<up, world, registry, spawner, supervisor, killer, persisting,
                 forgotten>>

SpawnerGoes(s, where) == spawner' = [spawner EXCEPT ![s] = where]

\* backend.Start succeeds.
StartProcess(s) ==
  /\ spawner[s] = "open"
  /\ proc' = [proc EXCEPT ![s] = "alive"]
  /\ SpawnerGoes(s, "started")
  /\ UNCHANGED <<up, sentinel, manifest, registry, supervisor, killer, request,
                 persisting, forgotten>>

\* The log cannot be opened, or Start fails: recordFailure adds an exited row.
StartFails(s) ==
  /\ spawner[s] = "open"
  /\ row' = [row EXCEPT ![s] = "exited"]
  /\ SpawnerGoes(s, "failed")
  /\ UNCHANGED <<up, world, tracked, run, workerIDs, quarantine, stopped, closed,
                 supervisor, killer, request, persisting, forgotten>>

\* recordFailure enters the id into the run and persists it.
FailureRecorded(s) ==
  /\ spawner[s] = "failed"
  /\ workerIDs' = workerIDs \cup {s}
  /\ Persist(<<"spawn", s>>)
  /\ SpawnerGoes(s, "done")
  /\ UNCHANGED <<up, world, row, tracked, run, quarantine, stopped, closed,
                 supervisor, killer, request, snapshot, rendered, forgotten>>

AddRow(s) ==
  /\ spawner[s] = "started"
  /\ row' = [row EXCEPT ![s] = "running"]
  /\ SpawnerGoes(s, "added")
  /\ UNCHANGED <<up, world, tracked, run, workerIDs, quarantine, stopped, closed,
                 supervisor, killer, request, persisting, forgotten>>

Track(s) ==
  /\ spawner[s] = "added"
  /\ tracked' = tracked \cup {s}
  /\ workerIDs' = workerIDs \cup {s}
  /\ SpawnerGoes(s, "tracked")
  /\ UNCHANGED <<up, world, row, run, quarantine, stopped, closed, supervisor,
                 killer, request, persisting, forgotten>>

\* Writes the sentinel; a failure is only logged, and then nothing on disk
\* leads a later farm to the process.
WriteSentinel(s) ==
  /\ spawner[s] = "tracked"
  /\ \/ sentinel' = sentinel \cup {s} /\ UNCHANGED forgotten
     \/ forgotten' = forgotten \cup {s} /\ UNCHANGED sentinel
  /\ Persist(<<"spawn", s>>)
  /\ SpawnerGoes(s, "written")
  /\ UNCHANGED <<up, proc, manifest, registry, supervisor, killer, request,
                 snapshot, rendered>>

\* `go m.supervise(id, entry)` once persistRun has returned.
Supervise(s) ==
  /\ spawner[s] = "written" /\ Free(<<"spawn", s>>)
  /\ supervisor' = [supervisor EXCEPT ![s] = "wait"]
  /\ SpawnerGoes(s, "done")
  /\ UNCHANGED <<up, world, registry, killer, request, persisting, forgotten>>

-----------------------------------------------------------------------------
(* supervise and superviseAdopted: Wait, the row, Manager.running, stopCh *)

SupervisorGoes(s, where) == supervisor' = [supervisor EXCEPT ![s] = where]

\* reg.Update: nothing happens when the row is gone.
SetRow(s, state) ==
  row' = IF row[s] = "none" THEN row ELSE [row EXCEPT ![s] = state]

MarkExited(s) ==
  /\ supervisor[s] = "wait" /\ proc[s] = "dead"
  /\ SetRow(s, "exited")
  /\ SupervisorGoes(s, "untrack")
  /\ UNCHANGED <<up, world, tracked, run, workerIDs, quarantine, stopped, closed,
                 spawner, killer, request, persisting, forgotten>>

\* An adopted worker's run is not in Manager.runs: nothing is persisted for it.
Untrack(s) ==
  /\ supervisor[s] = "untrack"
  /\ tracked' = tracked \ {s}
  /\ IF s \in Own THEN Persist(<<"supervise", s>>) ELSE UNCHANGED phase
  /\ SupervisorGoes(s, "close")
  /\ UNCHANGED <<up, world, row, run, workerIDs, quarantine, stopped, closed,
                 spawner, killer, request, snapshot, rendered, forgotten>>

CloseStopCh(s) ==
  /\ supervisor[s] = "close"
  /\ s \in Own => Free(<<"supervise", s>>)
  /\ closed' = closed \cup {s}
  /\ SupervisorGoes(s, "none")
  /\ UNCHANGED <<up, world, row, tracked, run, workerIDs, quarantine, stopped,
                 spawner, killer, request, persisting, forgotten>>

-----------------------------------------------------------------------------
(* Stop and gracefulKill.  StopAll is one Stop per tracked slot. *)

\* handleWorkerByID answers 404 for an id without a row.
BeginStop(r, s) ==
  /\ up /\ request[r] = Idle /\ row[s] # "none"
  /\ Goes(r, "stop", s)
  /\ UNCHANGED <<up, world, registry, spawner, supervisor, killer, persisting,
                 forgotten>>

\* The entry is looked up; an untracked worker has nothing to stop.
LookUp(r, s) ==
  /\ At(r, "stop", s)
  /\ IF s \in tracked THEN Goes(r, "mark", s) ELSE Returns(r)
  /\ UNCHANGED <<up, world, registry, spawner, supervisor, killer, persisting,
                 forgotten>>

\* The row becomes stopping whatever it was at the lookup, and is persisted.
MarkStopping(r, s) ==
  /\ At(r, "mark", s)
  /\ SetRow(s, "stopping")
  /\ IF row[s] = "none" \/ s \in Foreign THEN UNCHANGED phase ELSE Persist(r)
  /\ Goes(r, "once", s)
  /\ UNCHANGED <<up, world, tracked, run, workerIDs, quarantine, stopped, closed,
                 spawner, supervisor, killer, snapshot, rendered, forgotten>>

StopOnce(r, s) ==
  /\ At(r, "once", s)
  /\ stopped' = stopped \cup {s}
  /\ killer' = IF s \in stopped THEN killer ELSE [killer EXCEPT ![s] = "grace"]
  /\ Goes(r, "await", s)
  /\ UNCHANGED <<up, world, row, tracked, run, workerIDs, quarantine, closed,
                 spawner, supervisor, persisting, forgotten>>

StopDone(r, s) ==
  /\ At(r, "await", s)
  /\ s \in closed
  /\ Returns(r)
  /\ UNCHANGED <<up, world, registry, spawner, supervisor, killer, persisting,
                 forgotten>>

\* gracefulKill: the supervisor closes stopCh within the grace period.
GraceSufficed(s) ==
  /\ killer[s] = "grace" /\ s \in closed
  /\ killer' = [killer EXCEPT ![s] = "none"]
  /\ UNCHANGED <<up, world, registry, spawner, supervisor, request, persisting,
                 forgotten>>

\* Mutant: no Kill after the grace period.
GraceGivesUp(s) ==
  /\ killer[s] = "grace"
  /\ killer' = [killer EXCEPT ![s] = "none"]
  /\ UNCHANGED <<up, world, registry, spawner, supervisor, request, persisting,
                 forgotten>>

\* The grace period ends first: Kill.
GraceExpires(s) ==
  /\ killer[s] = "grace"
  /\ proc' = [proc EXCEPT ![s] = "dead"]
  /\ killer' = [killer EXCEPT ![s] = "none"]
  /\ UNCHANGED <<up, sentinel, manifest, registry, spawner, supervisor, request,
                 persisting, forgotten>>

-----------------------------------------------------------------------------
(* Purge; purge-all is one Purge per exited row. *)

\* Mutant: Purge does not look at the state of the row.
BeginPurgeAny(r, s) ==
  /\ up /\ request[r] = Idle /\ row[s] # "none"
  /\ Goes(r, "remove", s)
  /\ UNCHANGED <<up, world, registry, spawner, supervisor, killer, persisting,
                 forgotten>>

\* A row that is not exited is refused: "stop it first".
BeginPurge(r, s) ==
  /\ up /\ request[r] = Idle /\ row[s] = "exited"
  /\ Goes(r, "remove", s)
  /\ UNCHANGED <<up, world, registry, spawner, supervisor, killer, persisting,
                 forgotten>>

RemoveFiles(r, s) ==
  /\ At(r, "remove", s)
  /\ sentinel' = sentinel \ {s}
  /\ Goes(r, "drop", s)
  /\ UNCHANGED <<up, proc, manifest, registry, spawner, supervisor, killer,
                 persisting, forgotten>>

DropRow(r, s) ==
  /\ At(r, "drop", s)
  /\ row' = [row EXCEPT ![s] = "none"]
  /\ Goes(r, "clear", s)
  /\ UNCHANGED <<up, world, tracked, run, workerIDs, quarantine, stopped, closed,
                 spawner, supervisor, killer, persisting, forgotten>>

ClearSlot(r, s) ==
  /\ At(r, "clear", s)
  /\ workerIDs' = workerIDs \ {s}
  /\ IF s \in Own THEN Persist(r) ELSE UNCHANGED phase
  /\ Returns(r)
  /\ UNCHANGED <<up, world, row, tracked, run, quarantine, stopped, closed,
                 spawner, supervisor, killer, snapshot, rendered, forgotten>>

-----------------------------------------------------------------------------
(* QuarantineAct and killForeign *)

QuarantineAct(r, s, action) ==
  /\ up /\ request[r] = Idle /\ s \in quarantine
  /\ quarantine' = quarantine \ {s}
  /\ Goes(r, action, s)
  /\ UNCHANGED <<up, world, row, tracked, run, workerIDs, stopped, closed,
                 spawner, supervisor, killer, persisting, forgotten>>

\* The liveness is checked again; a process that is gone becomes an exited row.
QuarantineAdopt(r, s) ==
  /\ At(r, "adopt", s)
  /\ \/ /\ proc[s] = "alive"
        /\ row' = [row EXCEPT ![s] = "running"]
        /\ Goes(r, "track", s)
     \/ /\ proc[s] # "alive"
        /\ row' = [row EXCEPT ![s] = "exited"]
        /\ Returns(r)
  /\ UNCHANGED <<up, world, tracked, run, workerIDs, quarantine, stopped, closed,
                 spawner, supervisor, killer, persisting, forgotten>>

\* Adopt enters the process into Manager.running and supervises it.
TrackAdopted(r, s) ==
  /\ At(r, "track", s)
  /\ tracked' = tracked \cup {s}
  /\ SupervisorGoes(s, "wait")
  /\ Returns(r)
  /\ UNCHANGED <<up, world, row, run, workerIDs, quarantine, stopped, closed,
                 spawner, killer, persisting, forgotten>>

\* killForeign ends with the process gone, by itself or by Kill at the
\* deadline, and with its sentinel removed.
KillForeign(r, s) ==
  /\ At(r, "kill", s)
  /\ proc' = [proc EXCEPT ![s] = "dead"]
  /\ sentinel' = sentinel \ {s}
  /\ Returns(r)
  /\ UNCHANGED <<up, manifest, registry, spawner, supervisor, killer, persisting,
                 forgotten>>

QuarantineIgnore(r, s) ==
  /\ At(r, "ignore", s)
  /\ sentinel' = sentinel \ {s}
  /\ forgotten' = forgotten \cup {s}
  /\ Returns(r)
  /\ UNCHANGED <<up, proc, manifest, registry, spawner, supervisor, killer,
                 persisting>>

\* The request's context ends while it waits: Stop and killForeign give up.
ContextDone(r, s) ==
  /\ \/ At(r, "await", s) /\ UNCHANGED forgotten
     \/ At(r, "kill", s) /\ forgotten' = forgotten \cup {s}
  /\ Returns(r)
  /\ UNCHANGED <<up, world, registry, spawner, supervisor, killer, persisting>>

-----------------------------------------------------------------------------
(* The processes and the farm itself *)

WorkerExits(s) ==
  /\ proc[s] = "alive"
  /\ proc' = [proc EXCEPT ![s] = "dead"]
  /\ UNCHANGED <<up, sentinel, manifest, registry, spawner, supervisor, killer,
                 request, persisting, forgotten>>

\* The spawns between Start and the sentinel, and so the processes that a
\* farm which ends here leaves behind without a trace.
Untraced(s) == s \in Own /\ spawner[s] \in {"started", "added", "tracked"}

\* The farm's process ends, with or without a shutdown: its memory is gone, the
\* workers and the files stay.
FarmEnds ==
  /\ up /\ up' = FALSE
  /\ row' = Nowhere /\ tracked' = {} /\ workerIDs' = {} /\ quarantine' = {}
  /\ run' = IF run = "known" THEN "past" ELSE run
  /\ stopped' = {} /\ closed' = {}
  /\ spawner' = [s \in Own |-> "none"]
  /\ supervisor' = Nowhere /\ killer' = Nowhere
  /\ request' = [r \in Requests |-> Idle]
  /\ phase' = [w \in Writers |-> "none"] /\ snapshot' = [w \in Writers |-> {}]
  /\ rendered' = [w \in Writers |-> Rows({})]
  /\ forgotten' = forgotten \cup {s \in Slots : Untraced(s)}
  /\ UNCHANGED world

\* The adoption scan classifies a sentinel: stale when its process is gone,
\* mine when its controller id is in the identity history, else theirs.
Stale(s) == s \in sentinel /\ proc[s] # "alive"
Mine(s) == s \in sentinel /\ proc[s] = "alive" /\ s \in Own

Theirs(s) == s \in sentinel /\ proc[s] = "alive" /\ s \in Foreign

\* The farm starts: it adopts what is mine, records what is stale and
\* quarantines what is theirs.
FarmStarts ==
  /\ ~up /\ up' = TRUE
  /\ row' = [s \in Slots |-> CASE Mine(s) -> "running"
                               [] Stale(s) -> "exited"
                               [] OTHER -> "none"]
  /\ tracked' = {s \in Slots : Mine(s)}
  /\ supervisor' = [s \in Slots |-> IF Mine(s) THEN "wait" ELSE "none"]
  /\ quarantine' = {s \in Slots : Theirs(s)}
  /\ forgotten' = forgotten \ sentinel
  /\ UNCHANGED <<world, run, workerIDs, stopped, closed, spawner, killer, request,
                 persisting>>

-----------------------------------------------------------------------------

Init ==
  /\ up = FALSE
  /\ sentinel \in SUBSET Foreign
  /\ proc = [s \in Slots |-> IF s \in sentinel THEN "alive" ELSE "none"]
  /\ manifest = [s \in Own |-> "none"]
  /\ row = Nowhere /\ tracked = {} /\ run = "none" /\ workerIDs = {}
  /\ quarantine = {} /\ stopped = {} /\ closed = {}
  /\ spawner = [s \in Own |-> "none"]
  /\ supervisor = Nowhere /\ killer = Nowhere
  /\ request = [r \in Requests |-> Idle]
  /\ phase = [w \in Writers |-> "none"] /\ snapshot = [w \in Writers |-> {}]
  /\ rendered = [w \in Writers |-> Rows({})]
  /\ forgotten = {}

SpawnerStep(s) ==
  \/ StartProcess(s) \/ StartFails(s) \/ FailureRecorded(s) \/ AddRow(s)
  \/ Track(s) \/ WriteSentinel(s) \/ Supervise(s)

SupervisorStep(s) == MarkExited(s) \/ Untrack(s) \/ CloseStopCh(s)

KillerStep(s) == GraceSufficed(s) \/ GraceExpires(s)

PersistStep(w) == SnapshotIds(w) \/ Render(w) \/ WriteManifest(w)

\* What a request does once it has begun.
RequestStep(r) ==
  \/ Launch(r) \/ Join(r)
  \/ \E s \in Slots :
       \/ LookUp(r, s) \/ MarkStopping(r, s) \/ StopOnce(r, s) \/ StopDone(r, s)
       \/ RemoveFiles(r, s) \/ DropRow(r, s) \/ ClearSlot(r, s)
       \/ QuarantineAdopt(r, s) \/ TrackAdopted(r, s) \/ KillForeign(r, s)
       \/ QuarantineIgnore(r, s)

BeginRequest(r) ==
  \/ Spawn(r)
  \/ \E s \in Slots :
       \/ BeginStop(r, s) \/ BeginPurge(r, s)
       \/ \E action \in {"adopt", "kill", "ignore"} : QuarantineAct(r, s, action)

Next ==
  \/ \E s \in Own : SpawnerStep(s)
  \/ \E s \in Slots : SupervisorStep(s) \/ KillerStep(s) \/ WorkerExits(s)
  \/ \E w \in Writers : PersistStep(w)
  \/ \E r \in Requests :
       BeginRequest(r) \/ RequestStep(r) \/ \E s \in Slots : ContextDone(r, s)
  \/ FarmEnds \/ FarmStarts

\* The scheduler runs every goroutine that can run.  Nothing is assumed of the
\* workers, of new requests, of request contexts, or of the farm being started
\* or ended.
Fairness ==
  /\ \A s \in Own : WF_vars(SpawnerStep(s))
  /\ \A s \in Slots : WF_vars(SupervisorStep(s)) /\ WF_vars(KillerStep(s))
  /\ \A w \in Writers : WF_vars(PersistStep(w))
  /\ \A r \in Requests : WF_vars(RequestStep(r))

Spec == Init /\ [][Next]_vars
FairSpec == Spec /\ Fairness

-----------------------------------------------------------------------------
(* Properties *)

\* A request has taken a slot out of the quarantine and is deciding its fate.
Acting(s) == \E r \in Requests : request[r] \in {"adopt", "kill", "ignore"} \X {s}

\* No live worker is lost: while the farm runs, a live worker process has a row
\* that says so, or waits in the quarantine or in the hands of a request, or is
\* just being added; while the farm is down, its sentinel leads the next
\* adoption scan to it (main.go:288, "the next controller launch picks them
\* up").  Excepted are the processes the code gives up: a farm that ended
\* between Start and the sentinel write, a sentinel that could not be written,
\* and an ignored quarantine entry or one whose kill was abandoned.
LiveWorkerKnown ==
  \A s \in Slots : proc[s] = "alive" /\ s \notin forgotten =>
    IF up
    THEN \/ row[s] \in {"running", "stopping"}
         \/ s \in quarantine \/ Acting(s)
         \/ s \in Own /\ spawner[s] = "started"
    ELSE s \in sentinel

\* Nothing that concerns the slot's disk state is under way.
Settled(s) ==
  /\ up /\ spawner[s] \in {"none", "done"} /\ supervisor[s] # "untrack"
  /\ \A w \in Writers : phase[w] = "none"
  /\ \A r \in Requests : request[r] \notin {"remove", "drop", "clear"} \X {s}

\* What a worker leaves on disk is current once nothing is under way.  Whatever
\* the order in which the goroutines of a run took their snapshots and got
\* writeMu, its manifest.json never keeps a state the registry no longer has, as
\* long as the farm that spawned the run goes on (persistRun knows no other
\* run).  In every farm, the one that spawned the worker or a later one that
\* adopted it or found it stale, a purged worker leaves no sentinel from which
\* the next farm would bring it back (Purge).
NoStaleTrace ==
  \A s \in Own : Settled(s) =>
    /\ run = "known" => manifest[s] \in {"none", row[s]}
    /\ row[s] = "none" => s \notin sentinel

\* A stop takes effect: once stopOnce has fired, the worker process ends and
\* the Stop calls waiting for it return, unless the farm itself ends.
StopTakesEffect ==
  \A s \in Slots :
    s \in stopped ~>
      \/ ~up
      \/ proc[s] = "dead" /\ \A r \in Requests : request[r] # <<"await", s>>
=============================================================================
