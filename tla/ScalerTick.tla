----------------------------- MODULE ScalerTick -----------------------------
(***************************************************************************)
(* The auto-scaler's tick for one spec: tick_with_interval, its counters   *)
(* (idle_ticks, saturation_ticks, cooldown) and what can change between    *)
(* its awaits: visitors come and go, a visit spawns a replica, rows are    *)
(* lost to the liveness pass or an operator, the spec leaves the catalog   *)
(* and comes back, leadership moves.  ReplicaPool has the containers       *)
(* behind the rows; here a stop removes the row whatever the backend says  *)
(* (stop_one cleans up on both outcomes) and a row is a running replica.   *)
(* Time passes between ticks: a replica's age counts them.                 *)
(***************************************************************************)
EXTENDS Integers, FiniteSets, FiniteSetsExt, Functions

CONSTANTS
    Replicas,
    Seats,        \* seats of a replica; concurrent requests of an API's one
    Configs,      \* the settings of the spec that a behaviour may start from
    Mutexes,      \* identities of the spec's spawn mutex, never reused while held
    Visit, Tick,  \* the two tasks that spawn
    NoMutex,
    Young, IdleGrace, SatGrace, Cooldown,   \* in ticks
    Drain,        \* drain-timeout beyond max-lifetime, in ticks
    AgeCap,       \* past this age nothing distinguishes two replicas
    MaxFaults     \* bound on lost rows, failed calls, catalog edits, elections

NoCap == -1       \* an unset lifetime

(* The knobs of a Spec: an API counts requests in flight; thresholds in    *)
(* percent, 0 when unset; lifetimes in ticks.                              *)
Settings == [api : BOOLEAN, min : Nat, max : Nat, up : 0..100, down : 0..100,
             hard : Nat \cup {NoCap}, soft : Nat \cup {NoCap}]

ASSUME TickAssumption ==
    /\ IsFiniteSet(Replicas) /\ Seats \in Nat \ {0}
    /\ Configs \subseteq Settings
    /\ {Young, IdleGrace, SatGrace, Cooldown, Drain, MaxFaults, AgeCap} \subseteq Nat
    /\ Young <= AgeCap /\ \A c \in Configs : c.hard + Drain <= AgeCap /\ c.soft <= AgeCap
    /\ NoMutex \notin Mutexes /\ Visit # Tick
    /\ \A x, y \in Mutexes \cup {NoMutex} : \E z \in Mutexes : z # x /\ z # y

Tasks == {Visit, Tick}

VARIABLES
    cfg,          \* the spec's settings
    rows, load, age,         \* registry rows, their visitors, their ages
    idle, sat, cool,         \* idle_ticks, saturation_ticks, cooldown
    listed,                  \* the spec is in the effective catalog
    entry, held,             \* spawn_locks' mutex for the spec; what a task holds
    leader,
    tpc, known,              \* the tick and the catalog it read
    cooling, todo, toSpawn,  \* its loop variables
    stopped,                 \* stopped_any
    vpc,                     \* a visit that spawns
    faults,
    \* history
    late, lost,              \* rows seated, rows lost since the tick's snapshot
    orphaned,                \* a mutex was dropped from spawn_locks while held
    sinceDrop                \* turns of the spec since its last scale-down

poolVars == <<rows, load, age>>
countVars == <<idle, sat, cool>>
tickVars == <<tpc, known, cooling, todo, toSpawn, stopped>>
ghostVars == <<late, lost, orphaned, sinceDrop>>
vars == <<cfg, poolVars, countVars, listed, entry, held, leader, tickVars, vpc,
          faults, ghostVars>>

Far == Cooldown + SatGrace
Init ==
    /\ cfg \in Configs
    /\ rows = {} /\ load = [r \in Replicas |-> 0] /\ age = [r \in Replicas |-> 0]
    /\ idle = [r \in Replicas |-> 0] /\ sat = 0 /\ cool = 0
    /\ listed = TRUE
    /\ entry = NoMutex /\ held = [t \in Tasks |-> NoMutex]
    /\ leader = TRUE
    /\ tpc = "wait" /\ known = FALSE /\ cooling = FALSE
    /\ todo = {} /\ toSpawn = 0 /\ stopped = FALSE
    /\ vpc = "idle" /\ faults = 0
    /\ late = {} /\ lost = {} /\ orphaned = FALSE /\ sinceDrop = Far

-----------------------------------------------------------------------------
(* What the tick computes.                                                 *)

(* The registry counts sessions, and an API's visitors have none.          *)
SessionsActive(r) == IF cfg.api THEN 0 ELSE load[r]

(* Mutant: the requests of an API are not laid over its empty counters.    *)
Overlaid_Sessions(r) == SessionsActive(r)
(* overlay_request_capacity.                                               *)
Overlaid(r) == load[r]

pool_utilization == 100 * SumFunction([r \in rows |-> Overlaid(r)])
(* Mutant: a full replica does not count as saturated.                     *)
all_saturated_Over == rows # {} /\ \A r \in rows : Overlaid(r) > Seats
all_saturated == rows # {} /\ \A r \in rows : Overlaid(r) >= Seats
scale_up_triggered ==
    IF cfg.up = 0 THEN all_saturated
    ELSE rows # {} /\ pool_utilization > cfg.up * Seats * Cardinality(rows)
underutilized ==
    cfg.down = 0 \/ rows = {} \/ pool_utilization < cfg.down * Seats * Cardinality(rows)

(* update_idle_ticks: counters of rows that left are dropped.              *)
update_idle_ticks ==
    [r \in Replicas |->
        IF r \in rows /\ SessionsActive(r) = 0 /\ age[r] >= Young
        THEN Min({idle[r] + 1, IdleGrace}) ELSE 0]

lifetime_reap_candidates ==
    {r \in rows :
        \/ /\ cfg.hard # NoCap
           /\ age[r] >= (IF Overlaid(r) = 0 THEN cfg.hard ELSE cfg.hard + Drain)
        \/ /\ cfg.soft # NoCap
           /\ age[r] >= cfg.soft /\ Overlaid(r) = 0}

allowed_to_drop == Cardinality(rows) - cfg.min
DropCandidates == {r \in rows : Overlaid(r) = 0 /\ idle[r] >= IdleGrace}
(* `take`: as many of them as may be dropped; which ones depends on the    *)
(* order of registration.                                                  *)
Drops == kSubset(Min({allowed_to_drop, Cardinality(DropCandidates)}), DropCandidates)

-----------------------------------------------------------------------------
(* Registry writes.                                                        *)

RemoveRow(r) ==
    /\ rows' = rows \ {r}
    /\ load' = [load EXCEPT ![r] = 0]
    /\ age' = [age EXCEPT ![r] = 0]

(* backend.spawn_request answered: a new row.                              *)
AddRow(r) ==
    /\ r \notin rows
    /\ rows' = rows \cup {r}
    /\ UNCHANGED <<load, age>>

(* The spec's mutex is looked up, or made, and taken when nobody has it.   *)
LockSpec(t) ==
    LET mine == IF entry # NoMutex THEN entry
                ELSE CHOOSE x \in Mutexes : \A u \in Tasks : held[u] # x
    IN  /\ \A u \in Tasks : held[u] # mine
        /\ entry' = mine
        /\ held' = [held EXCEPT ![t] = mine]

Unlock(t) == held' = [held EXCEPT ![t] = NoMutex]

(* Loop variables of the spec's turn go away with it.                      *)
EndTurn ==
    /\ tpc' = "wait" /\ known' = FALSE /\ cooling' = FALSE
    /\ todo' = {} /\ toSpawn' = 0 /\ stopped' = FALSE
    /\ late' = {} /\ lost' = {}

-----------------------------------------------------------------------------
(* The tick.                                                               *)

(* The ticker fires; a process that does not lead stands by, its counters  *)
(* kept.  The catalog and the registry are read, idle counters updated.    *)
Fire ==
    /\ tpc = "wait"
    /\ age' = [r \in Replicas |-> IF r \in rows THEN Min({age[r] + 1, AgeCap}) ELSE 0]
    /\ IF leader
       THEN /\ known' = listed
            /\ idle' = IF listed THEN update_idle_ticks ELSE [r \in Replicas |-> 0]
            /\ tpc' = "live"
       ELSE UNCHANGED <<known, idle, tpc>>
    /\ UNCHANGED <<cfg, rows, load, sat, cool, listed, entry, held, leader, cooling,
                   todo, toSpawn, stopped, vpc, faults, ghostVars>>

(* After the liveness pass the state of specs that left the catalog is     *)
(* dropped: their counters and their mutex.                                *)
CollectGarbage ==
    /\ tpc = "live"
    /\ IF known
       THEN tpc' = "turn" /\ UNCHANGED <<sat, cool, entry, orphaned, sinceDrop>>
       ELSE /\ sat' = 0 /\ cool' = 0
            /\ entry' = NoMutex
            /\ orphaned' = (orphaned \/ (entry # NoMutex /\ entry \in Range(held)))
            /\ sinceDrop' = Far
            /\ tpc' = "wait"
    /\ UNCHANGED <<cfg, poolVars, idle, listed, held, leader, known, cooling, todo,
                   toSpawn, stopped, vpc, faults, late, lost>>

CoolingNow == cool > 0

(* The cooldown is read and counted down, the rows are read, replicas past *)
(* their lifetime are picked.                                              *)
Turn ==
    /\ tpc = "turn"
    /\ cooling' = CoolingNow
    /\ cool' = Max({cool - 1, 0})
    /\ sinceDrop' = Min({sinceDrop + 1, Far})
    /\ todo' = lifetime_reap_candidates
    /\ tpc' = IF todo' = {} THEN "decide" ELSE "reap"
    /\ late' = {} /\ lost' = {}
    /\ UNCHANGED <<cfg, poolVars, idle, sat, listed, entry, held, leader, known,
                   toSpawn, stopped, vpc, faults, orphaned>>

(* stop_one of a replica past its lifetime; the rows are read again after  *)
(* the last one.                                                           *)
Reap(r) ==
    /\ tpc = "reap" /\ r \in todo
    /\ IF r \in rows THEN RemoveRow(r) ELSE UNCHANGED poolVars
    /\ idle' = [idle EXCEPT ![r] = 0]
    /\ todo' = todo \ {r}
    /\ tpc' = IF todo' = {} THEN "decide" ELSE "reap"
    /\ UNCHANGED <<cfg, sat, cool, listed, entry, held, leader, known, cooling,
                   toSpawn, stopped, vpc, faults, ghostVars>>

(* The snapshot that decides: below min-replicas, saturated below          *)
(* max-replicas, or calm (and perhaps too large).                          *)
ToMin ==
    /\ Cardinality(rows) < cfg.min
    /\ toSpawn' = cfg.min - Cardinality(rows)
    /\ sat' = 0 /\ tpc' = "lock"
    /\ late' = {} /\ lost' = {}
    /\ UNCHANGED <<known, cooling, todo, stopped>>

Saturated ==
    /\ Cardinality(rows) \in cfg.min..(cfg.max - 1) /\ scale_up_triggered
    /\ IF ~cooling /\ sat + 1 >= SatGrace
       THEN /\ toSpawn' = 1 /\ sat' = 0 /\ tpc' = "lock"
            /\ late' = {} /\ lost' = {}
            /\ UNCHANGED <<known, cooling, todo, stopped>>
       ELSE sat' = (IF cooling THEN 0 ELSE sat + 1) /\ EndTurn

Calm ==
    /\ Cardinality(rows) >= cfg.min
    /\ ~(Cardinality(rows) < cfg.max /\ scale_up_triggered)
    /\ sat' = 0
    /\ IF Cardinality(rows) > cfg.min /\ underutilized /\ DropCandidates # {}
       THEN /\ todo' \in Drops
            /\ tpc' = "drop"
            /\ late' = {} /\ lost' = {}
            /\ UNCHANGED <<known, cooling, toSpawn, stopped>>
       ELSE EndTurn

Decide ==
    /\ tpc = "decide"
    /\ ToMin \/ Saturated \/ Calm
    /\ UNCHANGED <<cfg, poolVars, idle, cool, listed, entry, held, leader, vpc,
                   faults, orphaned, sinceDrop>>

(* stop_one of a replica that was idle in the snapshot.  A stop that fails *)
(* removes the row all the same but starts no cooldown.                    *)
Drop(r) ==
    /\ tpc = "drop" /\ r \in todo
    /\ IF r \in rows THEN RemoveRow(r) ELSE UNCHANGED poolVars
    /\ idle' = [idle EXCEPT ![r] = 0]
    /\ \E ok \in BOOLEAN :
          /\ ok \/ faults < MaxFaults
          /\ faults' = IF ok THEN faults ELSE faults + 1
          /\ LET any == stopped \/ ok
             IN  IF todo = {r}
                 THEN /\ cool' = IF any THEN Cooldown ELSE cool
                      /\ sinceDrop' = IF any THEN 0 ELSE sinceDrop
                      /\ EndTurn
                 ELSE /\ todo' = todo \ {r} /\ stopped' = any
                      /\ UNCHANGED <<cool, sinceDrop, late, lost, tpc, known,
                                     cooling, toSpawn>>
    /\ UNCHANGED <<cfg, sat, listed, entry, held, leader, vpc, orphaned>>

(* spawn_one takes the mutex; at max-replicas it is done at once.          *)
SpawnLock ==
    /\ tpc = "lock"
    /\ LockSpec(Tick)
    /\ tpc' = "spawn"
    /\ UNCHANGED <<cfg, poolVars, countVars, listed, leader, known, cooling, todo,
                   toSpawn, stopped, vpc, faults, ghostVars>>

(* Mutant: off by one at max-replicas.                                     *)
AtMax_Loose == Cardinality(rows) > cfg.max
AtMax == Cardinality(rows) >= cfg.max

SpawnCap ==
    /\ tpc = "spawn"
    /\ IF AtMax
       THEN /\ Unlock(Tick)
            /\ IF toSpawn = 1 THEN EndTurn
               ELSE /\ tpc' = "lock" /\ toSpawn' = toSpawn - 1
                    /\ UNCHANGED <<known, cooling, todo, stopped, late, lost>>
       ELSE /\ tpc' = "spawning"
            /\ UNCHANGED <<held, known, cooling, todo, toSpawn, stopped, late, lost>>
    /\ UNCHANGED <<cfg, poolVars, countVars, listed, entry, leader, vpc, faults,
                   orphaned, sinceDrop>>

SpawnDone(r) ==
    /\ tpc = "spawning"
    /\ AddRow(r)
    /\ idle' = [idle EXCEPT ![r] = 0]
    /\ Unlock(Tick)
    /\ IF toSpawn = 1 THEN EndTurn
       ELSE /\ tpc' = "lock" /\ toSpawn' = toSpawn - 1
            /\ UNCHANGED <<known, cooling, todo, stopped, late, lost>>
    /\ UNCHANGED <<cfg, sat, cool, listed, entry, leader, vpc, faults, orphaned,
                   sinceDrop>>

(* A failed spawn ends the spec's turn.                                    *)
SpawnFails ==
    /\ tpc = "spawning" /\ faults < MaxFaults
    /\ faults' = faults + 1
    /\ Unlock(Tick)
    /\ EndTurn
    /\ UNCHANGED <<cfg, poolVars, countVars, listed, entry, leader, vpc, orphaned,
                   sinceDrop>>

-----------------------------------------------------------------------------
(* Everybody else.                                                         *)

(* A visitor takes a free seat; an API request a free slot.                *)
Seat(r) ==
    /\ r \in rows /\ load[r] < Seats
    /\ load' = [load EXCEPT ![r] = @ + 1]
    /\ late' = IF tpc \in {"reap", "drop"} THEN late \cup {r} ELSE late
    /\ UNCHANGED <<cfg, rows, age, countVars, listed, entry, held, leader, tickVars,
                   vpc, faults, lost, orphaned, sinceDrop>>

Leave(r) ==
    /\ load[r] > 0
    /\ load' = [load EXCEPT ![r] = @ - 1]
    /\ UNCHANGED <<cfg, rows, age, countVars, listed, entry, held, leader, tickVars,
                   vpc, faults, ghostVars>>

(* pick_or_spawn: nothing accepts, the pool is below max: spawn under the  *)
(* spec's mutex.                                                           *)
VisitLock ==
    /\ vpc = "idle" /\ listed
    /\ LockSpec(Visit)
    /\ \A r \in rows : load[r] >= Seats
    /\ Cardinality(rows) < cfg.max
    /\ vpc' = "spawning"
    /\ UNCHANGED <<cfg, poolVars, countVars, listed, leader, tickVars, faults,
                   ghostVars>>

VisitSpawned(r) ==
    /\ vpc = "spawning"
    /\ AddRow(r)
    /\ idle' = [idle EXCEPT ![r] = 0]
    /\ Unlock(Visit)
    /\ vpc' = "idle"
    /\ UNCHANGED <<cfg, sat, cool, listed, entry, leader, tickVars, faults, ghostVars>>

(* A row is pruned by a liveness pass or stopped by an operator.           *)
RowLost(r) ==
    /\ r \in rows /\ faults < MaxFaults
    /\ faults' = faults + 1
    /\ RemoveRow(r)
    /\ lost' = IF tpc = "drop" THEN lost \cup {r} ELSE lost
    /\ UNCHANGED <<cfg, countVars, listed, entry, held, leader, tickVars, vpc, late,
                   orphaned, sinceDrop>>

(* The spec is deleted or disabled, or comes back.                         *)
EditCatalog ==
    /\ faults < MaxFaults \/ ~listed
    /\ listed' = ~listed
    /\ faults' = IF listed THEN faults + 1 ELSE faults
    /\ UNCHANGED <<cfg, poolVars, countVars, entry, held, leader, tickVars, vpc,
                   ghostVars>>

Election ==
    /\ faults < MaxFaults \/ ~leader
    /\ faults' = IF leader THEN faults + 1 ELSE faults
    /\ leader' = ~leader
    /\ UNCHANGED <<cfg, poolVars, countVars, listed, entry, held, tickVars, vpc,
                   ghostVars>>

TickStep ==
    \/ Fire \/ CollectGarbage \/ Turn \/ Decide \/ SpawnLock \/ SpawnCap
    \/ \E r \in Replicas : Reap(r) \/ Drop(r) \/ SpawnDone(r)
    \/ SpawnFails
Others ==
    \/ \E r \in Replicas : Seat(r) \/ Leave(r) \/ RowLost(r)
    \/ VisitLock
    \/ EditCatalog \/ Election
Next == TickStep \/ Others \/ \E r \in Replicas : VisitSpawned(r)

(* The tick and a visit's spawn keep running: the ticker is an interval,   *)
(* every await of theirs has a timeout.                                    *)
Fairness ==
    /\ WF_vars(TickStep)
    /\ WF_vars(\E r \in Replicas : VisitSpawned(r))
Spec == Init /\ [][Next]_vars
FairSpec == Spec /\ Fairness

-----------------------------------------------------------------------------
(* Properties.                                                             *)

TypeOK ==
    /\ cfg \in Configs /\ rows \subseteq Replicas
    /\ load \in [Replicas -> 0..Seats] /\ age \in [Replicas -> 0..AgeCap]
    /\ idle \in [Replicas -> 0..IdleGrace] /\ sat \in 0..SatGrace /\ cool \in 0..Cooldown
    /\ entry \in Mutexes \cup {NoMutex} /\ held \in [Tasks -> Mutexes \cup {NoMutex}]
    /\ todo \subseteq Replicas /\ toSpawn \in Nat /\ faults \in 0..MaxFaults

(* The scaler stops a replica with somebody on it only if it is past       *)
(* max-lifetime plus the drain time, or if the visitor arrived after the   *)
(* tick read the rows: scale-down and the soft lifetime spare what the     *)
(* snapshot saw busy, an API's replicas with requests in flight included.  *)
BusySpared ==
    [][\A r \in rows :
          (Reap(r) \/ Drop(r)) /\ load[r] > 0
          => r \in late \/ (cfg.hard # NoCap /\ age[r] >= cfg.hard + Drain)]_vars

(* Scale-down, stop after stop, never takes the pool below min-replicas    *)
(* on its own: only rows that others removed meanwhile make it end lower.  *)
ScaleDownKeepsMin ==
    [][(\E r \in rows : Drop(r)) => Cardinality(rows') + Cardinality(lost) >= cfg.min]_vars

(* No flapping: a saturation spawn comes at least Cooldown + SatGrace      *)
(* turns of the spec after its last successful scale-down.                 *)
NoFlapping ==
    [][Decide /\ Saturated /\ tpc' = "lock" => sinceDrop >= Far]_vars

(* Scaling down is sound: it spares the busy, the minimum and the pool's   *)
(* rest.                                                                   *)
ScaleDownSound == []TypeOK /\ BusySpared /\ ScaleDownKeepsMin /\ NoFlapping

(* The pool exceeds max-replicas only after a tick dropped, for a spec out *)
(* of the catalog, a mutex that a spawn was holding.                       *)
CapUnlessOrphaned == Cardinality(rows) <= cfg.max \/ orphaned

(* While this process leads and the spec is in the catalog, the pool does  *)
(* not stay below min-replicas, nor full below max-replicas, nor above     *)
(* min-replicas without visitors, however rows were lost and spawns failed *)
(* before.                                                                 *)
BelowMin == Cardinality(rows) < cfg.min
StaysFull ==
    cfg.up = 0 /\ Cardinality(rows) \in 1..(cfg.max - 1) /\ \A r \in rows : load[r] >= Seats
IdleExcess == Cardinality(rows) > cfg.min /\ \A r \in rows : load[r] = 0
PoolConverges ==
    <>[](leader /\ listed) => []<>~BelowMin /\ []<>~StaysFull /\ []<>~IdleExcess
=============================================================================
