---------------------------- MODULE ReplicaPool ----------------------------
(***************************************************************************)
(* The replica pool of one spec: registry rows, the Docker containers      *)
(* behind them, and the tasks that create, adopt and destroy replicas:     *)
(*   - spawners: a visit in pick_or_spawn, the splash or the reactive      *)
(*     recovery in ensure_replica_available, the scaler or an operator in  *)
(*     spawn_replica (SpawnIntent::AddCapacity)                            *)
(*   - liveness passes: reconcile_backend_liveness run by the scaler tick  *)
(*     and by the Docker events watcher, possibly at the same time         *)
(*   - stoppers: stop_one (scale-down, lifetime reap, operator, delete)    *)
(*   - the world: containers exit, restart and vanish on their own.        *)
(* A task is split at its awaits. Sessions are counted only up to `Seats`: *)
(* SessionSeats has the exact accounting.                                  *)
(***************************************************************************)
EXTENDS Naturals, FiniteSets

CONSTANTS
    Replicas,     \* replica ids; one container each
    Spawners, Passes, Stoppers,     \* concurrent tasks
    Seats, MaxReplicas,
    FaultBudget,  \* bound on external container events and failed stops
    NoReplica, Free

ASSUME ConstantsAssumption ==
    /\ IsFiniteSet(Replicas)
    /\ Seats \in Nat \ {0} /\ MaxReplicas \in Nat \ {0} /\ FaultBudget \in Nat
    /\ NoReplica \notin Replicas
    /\ Free \notin Spawners \cup Passes
    /\ Spawners \cap Passes = {}

VARIABLES
    state, active,    \* registry rows
    ctr,              \* container: "none" "created" "running" "exited" "gone"
    rowOld,           \* rows stopped for EXTERNAL_RESTART_GRACE_SECS
    ctrOld,           \* containers exited for EXTERNAL_RESTART_GRACE_SECS
    mutex,            \* the spec's entry of spawn_locks: its holder
    spc, kind, tgt,   \* spawners
    ppc, snap, plan, adopt, gc, cur, sameId,  \* passes
    stopping,         \* stoppers: the container is stopped, cleanup pending
    faults,           \* external events and failed stops so far
    freed             \* history: rows that got a seat back since the last
                      \* EnsureAvailable check

rowVars   == <<state, active>>
ctrVars   == <<ctr, rowOld, ctrOld>>
spawnVars == <<spc, kind, tgt>>
passVars  == <<ppc, snap, plan, adopt, gc, cur, sameId>>
vars == <<rowVars, ctrVars, mutex, spawnVars, passVars, stopping, faults, freed>>

RowStates == {"absent", "starting", "ready", "draining", "stopped"}
CtrStates == {"none", "created", "running", "exited", "gone"}
Plans     == {"keep", "readopt", "prune", "mark", "expire"}
Kinds     == {"visit", "ensure", "add"}

TypeOK ==
    /\ state \in [Replicas -> RowStates]
    /\ active \in [Replicas -> 0..Seats]
    /\ ctr \in [Replicas -> CtrStates]
    /\ rowOld \subseteq Replicas /\ ctrOld \subseteq Replicas
    /\ mutex \in Spawners \cup Passes \cup {Free}
    /\ spc \in [Spawners -> {"idle", "check", "cap", "create", "start", "probe", "add"}]
    /\ kind \in [Spawners -> Kinds]
    /\ tgt \in [Spawners -> Replicas \cup {NoReplica}]
    /\ ppc \in [Passes -> {"idle", "query", "act", "probe", "upsert", "gc"}]
    /\ snap \in [Passes -> [Replicas -> RowStates \cup {"overdue"}]]
    /\ plan \in [Passes -> [Replicas -> Plans]]
    /\ adopt \in [Passes -> SUBSET Replicas]
    /\ gc \in [Passes -> SUBSET Replicas]
    /\ cur \in [Passes -> Replicas \cup {NoReplica}]
    /\ sameId \in [Passes -> BOOLEAN]
    /\ stopping \in [Stoppers -> Replicas \cup {NoReplica}]
    /\ faults \in 0..FaultBudget
    /\ freed \subseteq Replicas

Rows == {r \in Replicas : state[r] # "absent"}
Live == Cardinality(Rows)
is_accepting(r) == state[r] = "ready" /\ active[r] < Seats
StartingSeat(r) == state[r] = "starting" /\ active[r] < Seats

NoSnap == [r \in Replicas |-> "absent"]
NoPlan == [r \in Replicas |-> "keep"]

(* Boot: every listed container became a row in the state Docker gave it;  *)
(* containers of a crashed spawn may be lying around unregistered.         *)
BootRow(r) ==
    \/ state[r] = "absent" /\ ctr[r] \in {"none", "created"}
    \/ state[r] = "ready" /\ ctr[r] = "running"
    \/ state[r] = "stopped" /\ ctr[r] = "exited"
    \/ state[r] \in {"starting", "draining"} /\ ctr[r] = "created"

Init ==
    /\ state \in [Replicas -> RowStates]
    /\ ctr \in [Replicas -> CtrStates \ {"gone"}]
    /\ \A r \in Replicas : BootRow(r)
    /\ active = [r \in Replicas |-> 0]
    /\ rowOld = {} /\ ctrOld = {}
    /\ mutex = Free
    /\ spc = [t \in Spawners |-> "idle"]
    /\ kind = [t \in Spawners |-> "add"]
    /\ tgt = [t \in Spawners |-> NoReplica]
    /\ ppc = [p \in Passes |-> "idle"]
    /\ snap = [p \in Passes |-> NoSnap]
    /\ plan = [p \in Passes |-> NoPlan]
    /\ adopt = [p \in Passes |-> {}]
    /\ gc = [p \in Passes |-> {}]
    /\ cur = [p \in Passes |-> NoReplica]
    /\ sameId = [p \in Passes |-> FALSE]
    /\ stopping = [x \in Stoppers |-> NoReplica]
    /\ faults = 0 /\ freed = {}

-----------------------------------------------------------------------------
(* Seats, seen from here: visitors take one and leave.                     *)

(* pick_or_spawn, fast path.                                               *)
PickAccepting(r) ==
    /\ is_accepting(r)
    /\ active' = [active EXCEPT ![r] = @ + 1]
    /\ UNCHANGED <<state, ctrVars, mutex, spawnVars, passVars, stopping,
                   faults, freed>>

Leave(r) ==
    /\ r \in Rows /\ active[r] > 0
    /\ active' = [active EXCEPT ![r] = @ - 1]
    /\ freed' = freed \cup {r}
    /\ UNCHANGED <<state, ctrVars, mutex, spawnVars, passVars, stopping, faults>>

-----------------------------------------------------------------------------
(* Spawners.                                                               *)

(* pick_or_spawn, under the mutex: nothing accepting, nothing coming up    *)
(* with room, and either room under the cap or no Ready row to overload.   *)
VisitSpawn(t) ==
    /\ spc[t] = "idle" /\ mutex = Free
    /\ \A r \in Replicas : ~is_accepting(r) /\ ~StartingSeat(r)
    /\ ~(Live >= MaxReplicas /\ \E r \in Replicas : state[r] = "ready")
    /\ mutex' = t
    /\ spc' = [spc EXCEPT ![t] = "create"]
    /\ kind' = [kind EXCEPT ![t] = "visit"]
    /\ UNCHANGED <<rowVars, ctrVars, tgt, passVars, stopping, faults, freed>>

(* The other ends of pick_or_spawn's double-check: take a seat of a row    *)
(* that is still starting; at the cap, overload a full Ready row (a full   *)
(* row stays full here).                                                   *)
PickStarting(r) ==
    /\ mutex = Free
    /\ \A x \in Replicas : ~is_accepting(x)
    /\ StartingSeat(r)
    /\ active' = [active EXCEPT ![r] = @ + 1]
    /\ UNCHANGED <<state, ctrVars, mutex, spawnVars, passVars, stopping,
                   faults, freed>>

(* spawn_one takes the mutex; EnsureAvailable re-checks first.             *)
SpawnOneLock(t, k) ==
    /\ spc[t] = "idle" /\ mutex = Free
    /\ k \in {"ensure", "add"}
    /\ mutex' = t
    /\ kind' = [kind EXCEPT ![t] = k]
    /\ spc' = [spc EXCEPT ![t] = IF k = "ensure" THEN "check" ELSE "cap"]
    /\ UNCHANGED <<rowVars, ctrVars, tgt, passVars, stopping, faults, freed>>

(* The spawner's task ends: the guard of the mutex is dropped.             *)
SpawnerDone(t) ==
    /\ mutex' = Free
    /\ spc' = [spc EXCEPT ![t] = "idle"]
    /\ kind' = [kind EXCEPT ![t] = "add"]
    /\ tgt' = [tgt EXCEPT ![t] = NoReplica]

EnsureCheck(t) ==
    /\ spc[t] = "check"
    /\ freed' = {}
    /\ IF \E r \in Replicas : state[r] = "starting" \/ is_accepting(r)
       THEN SpawnerDone(t)
       ELSE /\ spc' = [spc EXCEPT ![t] = "cap"]
            /\ UNCHANGED <<mutex, kind, tgt>>
    /\ UNCHANGED <<rowVars, ctrVars, passVars, stopping, faults>>

(* Mutant: off by one at max-replicas.                                     *)
CapCheckLoose(t) ==
    /\ spc[t] = "cap"
    /\ IF Live > MaxReplicas
       THEN SpawnerDone(t)
       ELSE /\ spc' = [spc EXCEPT ![t] = "create"]
            /\ UNCHANGED <<mutex, kind, tgt>>
    /\ UNCHANGED <<rowVars, ctrVars, passVars, stopping, faults, freed>>

CapCheck(t) ==
    /\ spc[t] = "cap"
    /\ IF Live >= MaxReplicas
       THEN SpawnerDone(t)
       ELSE /\ spc' = [spc EXCEPT ![t] = "create"]
            /\ UNCHANGED <<mutex, kind, tgt>>
    /\ UNCHANGED <<rowVars, ctrVars, passVars, stopping, faults, freed>>

(* spawn_request: create, start, wait for readiness.                       *)
CreateContainer(t, r) ==
    /\ spc[t] = "create" /\ ctr[r] = "none"
    /\ ctr' = [ctr EXCEPT ![r] = "created"]
    /\ tgt' = [tgt EXCEPT ![t] = r]
    /\ spc' = [spc EXCEPT ![t] = "start"]
    /\ UNCHANGED <<rowVars, rowOld, ctrOld, mutex, kind, passVars, stopping,
                   faults, freed>>

StartContainer(t) ==
    /\ spc[t] = "start" /\ ctr[tgt[t]] = "created"
    /\ ctr' = [ctr EXCEPT ![tgt[t]] = "running"]
    /\ spc' = [spc EXCEPT ![t] = "probe"]
    /\ UNCHANGED <<rowVars, rowOld, ctrOld, mutex, kind, tgt, passVars,
                   stopping, faults, freed>>

SpawnReady(t) ==
    /\ spc[t] = "probe" /\ ctr[tgt[t]] = "running"
    /\ spc' = [spc EXCEPT ![t] = "add"]
    /\ UNCHANGED <<rowVars, ctrVars, mutex, kind, tgt, passVars, stopping,
                   faults, freed>>

(* The container answered (it may have died since): add the row, with a    *)
(* seat for the visit.                                                     *)
SpawnAdd(t) ==
    /\ spc[t] = "add"
    /\ state' = [state EXCEPT ![tgt[t]] = "ready"]
    /\ active' = [active EXCEPT ![tgt[t]] = IF kind[t] = "visit" THEN 1 ELSE 0]
    /\ SpawnerDone(t)
    /\ UNCHANGED <<ctrVars, passVars, stopping, faults, freed>>

(* Stopping or removing a container: it is gone, or the daemon failed.     *)
BackendStop(r) ==
    \/ /\ ctr' = [ctr EXCEPT ![r] = IF @ = "none" THEN @ ELSE "gone"]
       /\ UNCHANGED faults
    \/ /\ faults < FaultBudget /\ faults' = faults + 1
       /\ UNCHANGED ctr

(* Pull or create failed, or the image is broken: nothing was created, or  *)
(* spawn_request removes what it created, best effort.                     *)
SpawnFail(t) ==
    /\ spc[t] \in {"create", "start", "probe"}
    /\ IF tgt[t] = NoReplica THEN UNCHANGED <<ctr, faults>> ELSE BackendStop(tgt[t])
    /\ SpawnerDone(t)
    /\ UNCHANGED <<rowVars, rowOld, ctrOld, passVars, stopping, freed>>

(* The visitor disconnects mid-spawn: the handler's future is dropped and  *)
(* its container stays, labelled and unregistered.                         *)
VisitCancelled(t) ==
    /\ spc[t] \in {"create", "start", "probe", "add"} /\ kind[t] = "visit"
    /\ faults < FaultBudget /\ faults' = faults + 1
    /\ SpawnerDone(t)
    /\ UNCHANGED <<rowVars, ctrVars, passVars, stopping, freed>>

-----------------------------------------------------------------------------
(* Stopping a replica.                                                     *)

RemoveRow(r) ==
    /\ state' = [state EXCEPT ![r] = "absent"]
    /\ active' = [active EXCEPT ![r] = 0]
    /\ rowOld' = rowOld \ {r}

(* stop_one on a replica of some registry snapshot: stop, then clean up    *)
(* whatever the stop returned.                                             *)
StopOne(x, r) ==
    /\ stopping[x] = NoReplica /\ r \in Rows
    /\ BackendStop(r)
    /\ stopping' = [stopping EXCEPT ![x] = r]
    /\ UNCHANGED <<rowVars, rowOld, ctrOld, mutex, spawnVars, passVars, freed>>

StopOneCleanup(x) ==
    /\ stopping[x] # NoReplica
    /\ RemoveRow(stopping[x])
    /\ stopping' = [stopping EXCEPT ![x] = NoReplica]
    /\ UNCHANGED <<ctr, ctrOld, mutex, spawnVars, passVars, faults, freed>>

(* reap_if_confirmed_dead: a forward failed and the backend says Missing.  *)
ReapConfirmedDead(r) ==
    /\ r \in Rows /\ ctr[r] = "gone"
    /\ RemoveRow(r)
    /\ UNCHANGED <<ctr, ctrOld, mutex, spawnVars, passVars, stopping, faults,
                   freed>>

-----------------------------------------------------------------------------
(* Liveness passes.                                                        *)

(* The registry snapshot; "overdue" is Stopped past the restart grace.     *)
PassSnapshot(p) ==
    /\ ppc[p] = "idle"
    /\ snap' = [snap EXCEPT ![p] =
                   [r \in Replicas |-> IF r \in rowOld THEN "overdue" ELSE state[r]]]
    /\ ppc' = [ppc EXCEPT ![p] = "query"]
    /\ UNCHANGED <<rowVars, ctrVars, mutex, spawnVars, plan, adopt, gc, cur,
                   sameId, stopping, faults, freed>>

(* Mutant: a stopped row is left to Docker for good.                       *)
VerdictNoExpiry(seen, c) ==
    IF seen = "absent" THEN "keep"
    ELSE CASE c = "running" -> IF seen \in {"stopped", "overdue"} THEN "readopt" ELSE "keep"
           [] c = "gone"    -> "prune"
           [] c \in {"created", "exited"} ->
                 IF seen \in {"stopped", "overdue"} THEN "keep" ELSE "mark"
           [] OTHER -> "keep"

Verdict(seen, c) ==
    IF seen = "absent" THEN "keep"
    ELSE CASE c = "running" -> IF seen \in {"stopped", "overdue"} THEN "readopt" ELSE "keep"
           [] c = "gone"    -> "prune"
           [] c \in {"created", "exited"} ->
                 IF seen = "overdue" THEN "expire"
                 ELSE IF seen = "stopped" THEN "keep" ELSE "mark"
           [] OTHER -> "keep"

(* replica_liveness answered: what the pass will do is fixed here. Running *)
(* containers not consumed by "readopt" are tried in the second loop, also *)
(* those of rows the snapshot had.                                         *)
PassReport(p) ==
    /\ ppc[p] = "query"
    /\ LET v == [r \in Replicas |-> Verdict(snap[p][r], ctr[r])] IN
         /\ plan' = [plan EXCEPT ![p] = v]
         /\ adopt' = [adopt EXCEPT ![p] =
                {r \in Replicas : ctr[r] = "running" /\ v[r] # "readopt"}]
         /\ gc' = [gc EXCEPT ![p] =
                {r \in Replicas : ctr[r] = "exited" /\ r \in ctrOld
                                    /\ snap[p][r] = "absent"}]
    /\ ppc' = [ppc EXCEPT ![p] = "act"]
    /\ snap' = [snap EXCEPT ![p] = NoSnap]
    /\ UNCHANGED <<rowVars, ctrVars, mutex, spawnVars, cur, sameId, stopping,
                   faults, freed>>

(* A total backend error: the pass is skipped.                             *)
PassSkipped(p) ==
    /\ ppc[p] = "query"
    /\ faults < FaultBudget /\ faults' = faults + 1
    /\ ppc' = [ppc EXCEPT ![p] = "idle"]
    /\ snap' = [snap EXCEPT ![p] = NoSnap]
    /\ UNCHANGED <<rowVars, ctrVars, mutex, spawnVars, plan, adopt, gc, cur,
                   sameId, stopping, freed>>

Planned(p, r, what) == ppc[p] = "act" /\ plan[p][r] = what
PlanDone(p, r) == plan' = [plan EXCEPT ![p][r] = "keep"]

PassPrune(p, r) ==
    /\ Planned(p, r, "prune")
    /\ RemoveRow(r) /\ PlanDone(p, r)
    /\ UNCHANGED <<ctr, ctrOld, mutex, spawnVars, ppc, snap, adopt, gc, cur,
                   sameId, stopping, faults, freed>>

(* mark_restarting: Stopped, count zero, grace clock restarted; a no-op on *)
(* a row that is gone.                                                     *)
PassMark(p, r) ==
    /\ Planned(p, r, "mark") /\ PlanDone(p, r)
    /\ IF r \in Rows
       THEN /\ state' = [state EXCEPT ![r] = "stopped"]
            /\ active' = [active EXCEPT ![r] = 0]
            /\ rowOld' = rowOld \ {r}
       ELSE UNCHANGED <<rowVars, rowOld>>
    /\ UNCHANGED <<ctr, ctrOld, mutex, spawnVars, ppc, snap, adopt, gc, cur,
                   sameId, stopping, faults, freed>>

(* Stopped past the grace: stop (remove) the container, prune the row.     *)
PassExpire(p, r) ==
    /\ Planned(p, r, "expire") /\ PlanDone(p, r)
    /\ BackendStop(r) /\ RemoveRow(r)
    /\ UNCHANGED <<ctrOld, mutex, spawnVars, ppc, snap, adopt, gc, cur, sameId,
                   stopping, freed>>

(* readopt_running_replica: the second loop starts once the first is over. *)
FirstLoopDone(p) == \A r \in Replicas : plan[p][r] = "keep"

ToReadopt(p, r) ==
    /\ ppc[p] = "act"
    /\ plan[p][r] = "readopt" \/ (FirstLoopDone(p) /\ r \in adopt[p])

Readopted(p, r) ==
    /\ plan' = [plan EXCEPT ![p][r] = IF @ = "readopt" THEN "keep" ELSE @]
    /\ adopt' = [adopt EXCEPT ![p] = @ \ {r}]

(* Under the mutex: already Ready, nothing to do.                          *)
ReadoptReady(p, r) ==
    /\ ToReadopt(p, r) /\ mutex = Free
    /\ state[r] = "ready"
    /\ Readopted(p, r)
    /\ UNCHANGED <<rowVars, ctrVars, mutex, spawnVars, ppc, snap, gc, cur,
                   sameId, stopping, faults, freed>>

(* Mutant: the cap is compared before the mutex is taken.                  *)
ReadoptExcessUnlocked(p, r) ==
    /\ ToReadopt(p, r)
    /\ r \notin Rows /\ Live >= MaxReplicas
    /\ BackendStop(r)
    /\ Readopted(p, r)
    /\ UNCHANGED <<rowVars, rowOld, ctrOld, mutex, spawnVars, ppc, snap, gc,
                   cur, sameId, stopping, freed>>

(* Under the mutex: an orphan beyond max-replicas is stopped.              *)
ReadoptExcess(p, r) ==
    /\ ToReadopt(p, r) /\ mutex = Free
    /\ r \notin Rows /\ Live >= MaxReplicas
    /\ BackendStop(r)
    /\ Readopted(p, r)
    /\ UNCHANGED <<rowVars, rowOld, ctrOld, mutex, spawnVars, ppc, snap, gc,
                   cur, sameId, stopping, freed>>

(* Otherwise hold the mutex and wait until the container answers.          *)
ReadoptProbe(p, r) ==
    /\ ToReadopt(p, r) /\ mutex = Free
    /\ state[r] # "ready" /\ (r \in Rows \/ Live < MaxReplicas)
    /\ mutex' = p
    /\ cur' = [cur EXCEPT ![p] = r]
    /\ sameId' = [sameId EXCEPT ![p] = (r \in Rows)]
    /\ ppc' = [ppc EXCEPT ![p] = "probe"]
    /\ Readopted(p, r)
    /\ UNCHANGED <<rowVars, ctrVars, spawnVars, snap, gc, stopping, faults,
                   freed>>

ProbeDone(p) ==
    /\ mutex' = Free
    /\ ppc' = [ppc EXCEPT ![p] = "act"]
    /\ cur' = [cur EXCEPT ![p] = NoReplica]
    /\ sameId' = [sameId EXCEPT ![p] = FALSE]

ReadoptReached(p) ==
    /\ ppc[p] = "probe" /\ ctr[cur[p]] = "running"
    /\ ppc' = [ppc EXCEPT ![p] = "upsert"]
    /\ UNCHANGED <<rowVars, ctrVars, mutex, spawnVars, snap, plan, adopt, gc,
                   cur, sameId, stopping, faults, freed>>

(* It answered (it may have died since): the row is upserted.              *)
ReadoptUpsert(p) ==
    /\ ppc[p] = "upsert"
    /\ state' = [state EXCEPT ![cur[p]] = "ready"]
    /\ active' = [active EXCEPT ![cur[p]] = 0]
    /\ rowOld' = rowOld \ {cur[p]}
    /\ ProbeDone(p)
    /\ UNCHANGED <<ctr, ctrOld, spawnVars, snap, plan, adopt, gc, stopping,
                   faults, freed>>

(* It never answered: stop it, prune the row if it had one.                *)
ReadoptFail(p) ==
    /\ ppc[p] = "probe"
    /\ BackendStop(cur[p])
    /\ IF sameId[p] THEN RemoveRow(cur[p]) ELSE UNCHANGED <<rowVars, rowOld>>
    /\ ProbeDone(p)
    /\ UNCHANGED <<ctrOld, spawnVars, snap, plan, adopt, gc, stopping, freed>>

(* Third loop: exited containers that no row, past or present, owns.       *)
PassCollect(p) ==
    /\ ppc[p] = "act" /\ FirstLoopDone(p) /\ adopt[p] = {}
    /\ gc' = [gc EXCEPT ![p] = @ \ Rows]
    /\ ppc' = [ppc EXCEPT ![p] = "gc"]
    /\ UNCHANGED <<rowVars, ctrVars, mutex, spawnVars, snap, plan, adopt, cur,
                   sameId, stopping, faults, freed>>

PassRemove(p, r) ==
    /\ ppc[p] = "gc" /\ r \in gc[p]
    /\ BackendStop(r)
    /\ gc' = [gc EXCEPT ![p] = @ \ {r}]
    /\ UNCHANGED <<rowVars, rowOld, ctrOld, mutex, spawnVars, ppc, snap, plan,
                   adopt, cur, sameId, stopping, freed>>

PassEnd(p) ==
    /\ ppc[p] = "gc" /\ gc[p] = {}
    /\ ppc' = [ppc EXCEPT ![p] = "idle"]
    /\ UNCHANGED <<rowVars, ctrVars, mutex, spawnVars, snap, plan, adopt, gc,
                   cur, sameId, stopping, faults, freed>>

-----------------------------------------------------------------------------
(* The world.                                                              *)

External(r) ==
    /\ faults < FaultBudget /\ faults' = faults + 1
    /\ \/ ctr[r] = "running" /\ ctr' = [ctr EXCEPT ![r] = "exited"]
       \/ /\ ctr[r] \in {"exited", "created"} /\ \A t \in Spawners : tgt[t] # r
          /\ ctr' = [ctr EXCEPT ![r] = "running"]
       \/ ctr[r] \in {"created", "running", "exited"}
            /\ ctr' = [ctr EXCEPT ![r] = "gone"]
    /\ ctrOld' = ctrOld \ {r}
    /\ UNCHANGED <<rowVars, rowOld, mutex, spawnVars, passVars, stopping, freed>>

RowAges(r) ==
    /\ state[r] = "stopped" /\ r \notin rowOld
    /\ rowOld' = rowOld \cup {r}
    /\ UNCHANGED <<rowVars, ctr, ctrOld, mutex, spawnVars, passVars, stopping,
                   faults, freed>>

(* wait_for_ready sees an exit at once, so no container of a running spawn *)
(* or probe stays exited for the whole grace.                              *)
ContainerAges(r) ==
    /\ ctr[r] = "exited" /\ r \notin ctrOld
    /\ \A t \in Spawners : tgt[t] # r
    /\ ctrOld' = ctrOld \cup {r}
    /\ UNCHANGED <<rowVars, ctr, rowOld, mutex, spawnVars, passVars, stopping,
                   faults, freed>>

-----------------------------------------------------------------------------
SpawnerStep(t) ==
    \/ VisitSpawn(t) \/ (\E k \in Kinds : SpawnOneLock(t, k))
    \/ EnsureCheck(t) \/ CapCheck(t)
    \/ (\E r \in Replicas : CreateContainer(t, r))
    \/ StartContainer(t) \/ SpawnReady(t) \/ SpawnAdd(t) \/ SpawnFail(t) \/ VisitCancelled(t)

(* A spawner that holds the mutex goes on until it releases it.            *)
SpawnerRuns(t) == mutex = t /\ SpawnerStep(t)

PassStep(p) ==
    \/ PassSnapshot(p) \/ PassReport(p) \/ PassSkipped(p)
    \/ (\E r \in Replicas :
          PassPrune(p, r) \/ PassMark(p, r) \/ PassExpire(p, r)
            \/ ReadoptReady(p, r) \/ ReadoptExcess(p, r) \/ ReadoptProbe(p, r)
            \/ PassRemove(p, r))
    \/ ReadoptReached(p) \/ ReadoptUpsert(p) \/ ReadoptFail(p) \/ PassCollect(p) \/ PassEnd(p)

StopperStep(x) == (\E r \in Replicas : StopOne(x, r)) \/ StopOneCleanup(x)

Next ==
    \/ \E r \in Replicas :
          \/ PickAccepting(r) \/ PickStarting(r) \/ Leave(r)
          \/ ReapConfirmedDead(r)
          \/ External(r) \/ RowAges(r) \/ ContainerAges(r)
    \/ \E t \in Spawners : SpawnerStep(t)
    \/ \E p \in Passes : PassStep(p)
    \/ \E x \in Stoppers : StopperStep(x)

Spec == Init /\ [][Next]_vars

(* Passes are periodic and tokio's Mutex is FIFO: a pass that keeps        *)
(* finding the mutex free in between gets it. A spawn ends: every backend  *)
(* call it awaits has a time budget. Time passes.                          *)
FairSpec ==
    /\ Spec
    /\ \A t \in Spawners : WF_vars(SpawnerRuns(t))
    /\ \A p \in Passes : SF_vars(PassStep(p))
    /\ \A x \in Stoppers : WF_vars(StopOneCleanup(x))
    /\ \A r \in Replicas : WF_vars(RowAges(r)) /\ WF_vars(ContainerAges(r))

-----------------------------------------------------------------------------
(* Properties.                                                             *)

(* Only a visit that found nothing usable takes the row count above        *)
(* max-replicas. spawn_one's cap is read under the mutex and acted on a    *)
(* whole spawn later, yet still holds then; a re-adoption only brings back *)
(* a row that was there when it took the mutex.                            *)
OnlyVisitsExceedMax ==
    [][ Cardinality(Rows') > Live /\ Cardinality(Rows') > MaxReplicas
        => \/ \E t \in Spawners : spc[t] = "add" /\ kind[t] = "visit" /\ mutex' # t
           \/ \E p \in Passes : ppc[p] = "upsert" /\ sameId[p]]_vars

(* A burst of cold starts is coalesced (#942): when EnsureAvailable adds   *)
(* its replica, a row that could already take the visitor got its free     *)
(* seat only after the check.                                              *)
EnsureAddsOnlyWhenNeeded ==
    [][\A t \in Spawners :
          spc[t] = "add" /\ kind[t] = "ensure" /\ spc'[t] = "idle"
          => \A r \in Replicas : is_accepting(r) => r \in freed]_vars

(* A spawn adds a row only when it is needed and there is room, although   *)
(* both were decided a whole spawn before.                                 *)
SpawnsBounded == OnlyVisitsExceedMax /\ EnsureAddsOnlyWhenNeeded

(* A re-adoption never resets the seat count of a Ready row, although its  *)
(* already-Ready check and its upsert are a readiness wait apart and       *)
(* spawns, other passes and visitors run in between (#1017: the same       *)
(* container is in the report of every pass).                              *)
ReadoptSparesReadyRows ==
    [][\A p \in Passes : ppc[p] = "upsert" /\ ppc'[p] # "upsert"
          => state[cur[p]] # "ready"]_vars

(* A container is labelled and running long before its row exists; no      *)
(* liveness pass adopts or removes it while its spawn is in flight.        *)
PassesSpareSpawns ==
    [][\A t \in Spawners : tgt[t] # NoReplica /\ mutex = t /\ mutex' = t
          => \A p \in Passes : PassStep(p) =>
                UNCHANGED <<ctr[tgt[t]], state[tgt[t]]>>]_vars

(* Whatever a pass does from its snapshot, spawns in flight and Ready rows *)
(* are spared by it.                                                       *)
PassesSpareOthers == []TypeOK /\ ReadoptSparesReadyRows /\ PassesSpareSpawns

(* A container that is gone for good loses its row for good: no late       *)
(* upsert leaves routing pointing at it.                                   *)
GoneLeavesPool ==
    \A r \in Replicas : ctr[r] = "gone" ~> [](r \notin Rows)

(* A row held out of routing is re-adopted or pruned.                      *)
StoppedRowResolved ==
    \A r \in Replicas : state[r] = "stopped" ~> state[r] # "stopped"

(* A started container without a row (a dropped visit, a failed stop) is   *)
(* adopted or removed.                                                     *)
OrphanResolved ==
    \A r \in Replicas : ctr[r] \in {"running", "exited"} /\ r \notin Rows
        ~> (r \in Rows \/ ctr[r] = "gone")

(* Every row and every container ends up where it belongs, although two    *)
(* passes, a spawn and a stop are at work at once, and no Ready row pays   *)
(* for it.                                                                 *)
PoolSettles ==
    /\ ReadoptSparesReadyRows
    /\ GoneLeavesPool /\ StoppedRowResolved /\ OrphanResolved

(* scaler.rs, reconcile_liveness_once: a tick and an event-triggered pass  *)
(* may run concurrently because "every action re-checks state under lock". *)
(* A pass that saw a row stopped past its grace leaves it alone once       *)
(* another pass has re-adopted it.                                         *)
PassRechecksState ==
    [][\A p \in Passes, r \in Replicas :
          plan[p][r] = "expire" /\ plan'[p][r] # "expire" /\ state[r] = "ready"
          => state'[r] = "ready"]_vars
=============================================================================
