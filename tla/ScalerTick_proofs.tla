-------------------------- MODULE ScalerTick_proofs --------------------------
(***************************************************************************)
(* The scaler's tick, proved for any number of replicas, any settings and  *)
(* any grace periods: what it decides from a snapshot stays right although *)
(* visitors, visits that spawn, lost rows, catalog edits and elections     *)
(* come between the decision and each of its stops and spawns.             *)
(*                                                                         *)
(* The argument, part by part of the invariant: whoever spawns holds the   *)
(* spec's mutex, and room found under it stays; what the tick picked for a *)
(* stop was idle or overdue, unless somebody sat down since; the rows that *)
(* it did not pick, with those others took, are enough for the minimum;    *)
(* and the turns since the last scale-down cover the cooldown spent so far *)
(* and the saturated turns counted so far.                                 *)
(***************************************************************************)
EXTENDS ScalerTick, FiniteSetTheorems, TLAPS

PcOK ==
    /\ tpc \in {"wait", "live", "turn", "reap", "decide", "drop", "lock", "spawn", "spawning"}
    /\ vpc \in {"idle", "spawning"}
    /\ known \in BOOLEAN /\ cooling \in BOOLEAN /\ stopped \in BOOLEAN
    /\ listed \in BOOLEAN /\ leader \in BOOLEAN /\ orphaned \in BOOLEAN
    /\ sinceDrop \in 0..Far
    /\ late \subseteq Replicas /\ lost \subseteq Replicas
    /\ tpc \in {"lock", "spawn", "spawning"} => toSpawn # 0

(* A mutex is held from the lock to the end of the spawn; unless one was   *)
(* orphaned, it is the one in spawn_locks, and only one task has it.       *)
Held ==
    /\ held[Tick] # NoMutex <=> tpc \in {"spawn", "spawning"}
    /\ held[Visit] # NoMutex <=> vpc = "spawning"
    /\ ~orphaned =>
          /\ \A t \in Tasks : held[t] # NoMutex => held[t] = entry
          /\ ~(held[Tick] # NoMutex /\ held[Visit] # NoMutex)

(* Under max-replicas, and room for the row that is being spawned.         *)
RoomLeft ==
    orphaned \/ /\ Cardinality(rows) <= cfg.max
                /\ tpc = "spawning" \/ vpc = "spawning" => Cardinality(rows) < cfg.max

Overdue(r) == cfg.hard # NoCap /\ age[r] >= cfg.hard + Drain

(* Nobody sits on what the tick is about to stop, except as BusySpared     *)
(* says; a row that is gone has no visitors.                               *)
PickedIdle ==
    /\ \A r \in Replicas \ rows : load[r] = 0
    /\ tpc = "reap" => \A r \in todo : load[r] > 0 => r \in late \/ Overdue(r)
    /\ tpc = "drop" => \A r \in todo : load[r] > 0 => r \in late

(* What the scale-down leaves, or others took, is enough for min-replicas. *)
MinLeft ==
    tpc = "drop" => Cardinality((rows \ todo) \cup lost) >= cfg.min

(* Turns since the last scale-down, against the cooldown that is left and  *)
(* the saturated turns counted; while a turn decides, it counts itself.    *)
Quiet(n) == sinceDrop >= Far \/ sinceDrop + cool >= Cooldown + n
CooldownCounts ==
    /\ cool > 0 => sat = 0
    /\ Quiet(sat)
    /\ tpc \in {"reap", "decide"} /\ ~cooling => cool = 0 /\ Quiet(sat + 1)
    /\ tpc = "drop" => sat = 0

TickInv == TypeOK /\ PcOK /\ Held /\ RoomLeft /\ PickedIdle /\ MinLeft /\ CooldownCounts
-----------------------------------------------------------------------------
LEMMA Numbers ==
    /\ Young \in Nat /\ IdleGrace \in Nat /\ SatGrace \in Nat /\ Cooldown \in Nat
    /\ Drain \in Nat /\ MaxFaults \in Nat /\ AgeCap \in Nat
    /\ Seats \in Nat /\ Seats > 0 /\ Far \in Nat
<1>1. {Young, IdleGrace, SatGrace, Cooldown, Drain, MaxFaults, AgeCap} \subseteq Nat
        /\ Seats \in Nat \ {0}
  BY TickAssumption
<1> QED
  BY <1>1 DEF Far

LEMMA TwoTasks == NoMutex \notin Mutexes /\ Visit # Tick /\ Visit \in Tasks /\ Tick \in Tasks
  BY TickAssumption DEF Tasks

LEMMA MinTwo ==
    ASSUME NEW a \in Int, NEW b \in Int
    PROVE  Min({a, b}) = IF a <= b THEN a ELSE b
<1> DEFINE m == IF a <= b THEN a ELSE b
<1>1. m \in {a, b} /\ \A y \in {a, b} : m <= y
  OBVIOUS
<1>2. \A x \in {a, b} : (\A y \in {a, b} : x <= y) => x = m
  OBVIOUS
<1> QED
  BY <1>1, <1>2 DEF Min

LEMMA MaxTwo ==
    ASSUME NEW a \in Int, NEW b \in Int
    PROVE  Max({a, b}) = IF a >= b THEN a ELSE b
<1> DEFINE m == IF a >= b THEN a ELSE b
<1>1. m \in {a, b} /\ \A y \in {a, b} : m >= y
  OBVIOUS
<1>2. \A x \in {a, b} : (\A y \in {a, b} : x >= y) => x = m
  OBVIOUS
<1> QED
  BY <1>1, <1>2 DEF Max

(* The settings of a spec are what Settings says.                          *)
LEMMA ConfigTypes ==
    ASSUME cfg \in Configs
    PROVE  /\ cfg.min \in Nat /\ cfg.max \in Nat
           /\ cfg.hard \in Int /\ cfg.soft \in Int
<1>1. cfg \in Settings
  BY TickAssumption
<1>2. NoCap \in Int
  BY DEF NoCap
<1> QED
  BY <1>1, <1>2 DEF Settings

LEMMA SubsetsCounted ==
    ASSUME NEW S \in SUBSET Replicas, NEW T \in SUBSET S
    PROVE  /\ IsFiniteSet(S) /\ IsFiniteSet(T)
           /\ Cardinality(S) \in Nat /\ Cardinality(T) \in Nat
           /\ Cardinality(T) <= Cardinality(S)
<1>1. IsFiniteSet(S)
  BY TickAssumption, FS_Subset
<1>2. IsFiniteSet(T)
  BY <1>1, FS_Subset
<1> QED
  BY <1>1, <1>2, FS_Subset, FS_CardinalityType

LEMMA OneMore ==
    ASSUME NEW S \in SUBSET Replicas, NEW r \in Replicas, r \notin S
    PROVE  Cardinality(S \cup {r}) = Cardinality(S) + 1
<1>1. IsFiniteSet(S)
  BY SubsetsCounted
<1> QED
  BY <1>1, FS_AddElement

(* Who takes the mutex finds it free, the one of spawn_locks or a new one. *)
LEMMA LockTaken ==
    ASSUME TypeOK, NEW t \in Tasks, LockSpec(t)
    PROVE  \E m \in Mutexes : /\ entry' = m /\ held' = [held EXCEPT ![t] = m]
                              /\ entry \in {m, NoMutex}
                              /\ \A u \in Tasks : held[u] # m
<1> DEFINE fresh == CHOOSE x \in Mutexes : \A u \in Tasks : held[u] # x
<1>1. \E x \in Mutexes : \A u \in Tasks : held[u] # x
  <2>1. held[Visit] \in Mutexes \cup {NoMutex} /\ held[Tick] \in Mutexes \cup {NoMutex}
    BY DEF TypeOK, Tasks
  <2> QED
    BY <2>1, TickAssumption DEF Tasks
<1>2. fresh \in Mutexes
  BY <1>1
<1> DEFINE mine == IF entry # NoMutex THEN entry ELSE fresh
<1>3. mine \in Mutexes /\ entry \in {mine, NoMutex}
  BY <1>2 DEF TypeOK
<1>4. /\ \A u \in Tasks : held[u] # mine
      /\ entry' = mine /\ held' = [held EXCEPT ![t] = mine]
  BY Zenon DEF LockSpec
<1> QED
  BY <1>3, <1>4

(* A step that adds no row and begins no spawn keeps the cap.              *)
LEMMA RoomStays ==
    ASSUME TypeOK, RoomLeft, UNCHANGED cfg, rows' \subseteq rows, orphaned => orphaned',
           tpc' = "spawning" \/ vpc' = "spawning" => tpc = "spawning" \/ vpc = "spawning"
    PROVE  RoomLeft'
<1>1. Cardinality(rows') <= Cardinality(rows) /\ Cardinality(rows') \in Nat
        /\ Cardinality(rows) \in Nat
  BY SubsetsCounted DEF TypeOK
<1>2. cfg.max \in Nat
  BY ConfigTypes DEF TypeOK
<1> QED
  BY <1>1, <1>2 DEF RoomLeft

(* A step that takes no row the scale-down leaves keeps the minimum.       *)
LEMMA MinStays ==
    ASSUME TypeOK, MinLeft, UNCHANGED cfg,
           rows' \subseteq Replicas, lost \subseteq Replicas, lost' \subseteq Replicas,
           tpc' = "drop" =>
              tpc = "drop" /\ (rows \ todo) \cup lost \subseteq (rows' \ todo') \cup lost'
    PROVE  MinLeft'
<1> SUFFICES ASSUME tpc' = "drop" PROVE Cardinality((rows' \ todo') \cup lost') >= cfg'.min
  BY DEF MinLeft
<1>1. /\ Cardinality((rows \ todo) \cup lost) <= Cardinality((rows' \ todo') \cup lost')
      /\ Cardinality((rows \ todo) \cup lost) \in Nat
      /\ Cardinality((rows' \ todo') \cup lost') \in Nat
  BY SubsetsCounted
<1> QED
  BY <1>1, ConfigTypes DEF MinLeft, TypeOK

LEMMA FireInv ==
    ASSUME TickInv, Fire
    PROVE  TickInv'
<1> USE Numbers, TwoTasks
      DEF TickInv, TypeOK, poolVars, countVars, tickVars, ghostVars, Fire
<1>1. TypeOK'
  <2>1. age' \in [Replicas -> 0..AgeCap]
    <3>1. \A r \in Replicas : Min({age[r] + 1, AgeCap}) \in 0..AgeCap
      BY MinTwo
    <3> QED
      BY <3>1
  <2>2. update_idle_ticks \in [Replicas -> 0..IdleGrace]
    <3>1. \A r \in Replicas : Min({idle[r] + 1, IdleGrace}) \in 0..IdleGrace
      BY MinTwo
    <3> QED
      BY <3>1 DEF update_idle_ticks
  <2>3. idle' \in [Replicas -> 0..IdleGrace]
    BY <2>2
  <2> QED
    BY <2>1, <2>3
<1>2. PcOK'
  BY DEF PcOK
<1>3. Held'
  BY DEF Held, PcOK, Tasks
<1>4. RoomLeft'
  BY <1>1, RoomStays DEF PcOK
<1>5. PickedIdle'
  BY DEF PickedIdle, Overdue, PcOK
<1>6. MinLeft'
  BY <1>1, <1>2, MinStays DEF PcOK
<1>7. CooldownCounts'
  BY DEF CooldownCounts, Quiet, PcOK, Far
<1> QED
  BY <1>1, <1>2, <1>3, <1>4, <1>5, <1>6, <1>7

LEMMA CollectGarbageInv ==
    ASSUME TickInv, CollectGarbage
    PROVE  TickInv'
<1> USE Numbers, TwoTasks
      DEF TickInv, TypeOK, poolVars, countVars, tickVars, ghostVars, CollectGarbage
<1>1. TypeOK'
  BY DEF PcOK
<1>2. PcOK'
  <2>1. orphaned' \in BOOLEAN
    BY Zenon DEF PcOK
  <2>2. sinceDrop' \in 0..Far /\ tpc' \in {"turn", "wait"}
    BY DEF PcOK
  <2> QED
    BY <2>1, <2>2 DEF PcOK
<1>3. Held'
  <2>1. held[Tick] = NoMutex /\ held' = held /\ tpc' \in {"turn", "wait"} /\ vpc' = vpc
    BY DEF Held
  <2>2. CASE known
    BY <2>1, <2>2 DEF Held
  <2>3. CASE ~known
    <3>1. entry # NoMutex /\ held[Visit] = entry => orphaned'
      BY <2>3 DEF Range
    <3>2. orphaned => orphaned'
      BY <2>3
    <3> QED
      BY <2>1, <3>1, <3>2 DEF Held, Tasks
  <2> QED
    BY <2>2, <2>3
<1>4. RoomLeft'
  BY <1>1, RoomStays DEF PcOK
<1>5. PickedIdle'
  BY DEF PickedIdle, Overdue, PcOK
<1>6. MinLeft'
  BY <1>1, <1>2, MinStays DEF PcOK
<1>7. CooldownCounts'
  BY DEF CooldownCounts, Quiet, PcOK, Far
<1> QED
  BY <1>1, <1>2, <1>3, <1>4, <1>5, <1>6, <1>7

LEMMA TurnInv ==
    ASSUME TickInv, Turn
    PROVE  TickInv'
<1> USE Numbers, TwoTasks
      DEF TickInv, TypeOK, poolVars, countVars, tickVars, ghostVars, Turn, CoolingNow
<1>a. cool' = (IF cool > 0 THEN cool - 1 ELSE 0) /\ cool' \in 0..Cooldown
  BY MaxTwo
<1>b. sinceDrop' = (IF sinceDrop + 1 <= Far THEN sinceDrop + 1 ELSE Far) /\ sinceDrop' \in 0..Far
  BY MinTwo DEF PcOK
<1>c. todo' \subseteq Replicas
  BY DEF lifetime_reap_candidates
<1> HIDE DEF Turn
<1>d. tpc = "turn" /\ tpc' \in {"decide", "reap"} /\ cooling' = (cool > 0)
      /\ late' = {} /\ lost' = {}
      /\ UNCHANGED <<cfg, poolVars, idle, sat, listed, entry, held, leader, known,
                      toSpawn, stopped, vpc, faults, orphaned>>
  BY DEF Turn
<1>1. TypeOK'
  BY <1>a, <1>c, <1>d
<1>2. PcOK'
  BY <1>b, <1>d DEF PcOK
<1>3. Held'
  BY <1>d DEF Held, PcOK, Tasks
<1>4. RoomLeft'
  BY <1>1, <1>d, RoomStays DEF PcOK
<1>5. PickedIdle'
  <2>1. \A r \in todo' : load[r] > 0 => Overdue(r)
    BY ConfigTypes DEF Turn, lifetime_reap_candidates, Overlaid, Overdue
  <2> QED
    BY <1>d, <2>1 DEF PickedIdle, Overdue
<1>6. MinLeft'
  BY <1>d DEF MinLeft
<1>7. CooldownCounts'
  <2>1. /\ cool' > 0 => sat' = 0
        /\ Quiet(sat)'
    BY <1>a, <1>b, <1>d DEF CooldownCounts, Quiet, PcOK, Far
  <2>2. ~cooling' => cool' = 0 /\ Quiet(sat + 1)'
    <3> SUFFICES ASSUME ~cooling' PROVE cool' = 0 /\ Quiet(sat + 1)'
      OBVIOUS
    <3>1. ~(cool > 0)
      BY <1>d, Zenon
    <3>2. cool = 0 /\ cool' = 0 /\ sat' = sat
      BY <1>a, <1>d, <3>1
    <3>3. sinceDrop >= Far \/ sinceDrop >= Cooldown + sat
      BY <3>2 DEF CooldownCounts, Quiet, PcOK
    <3>4. sinceDrop' >= Far \/ sinceDrop' >= Cooldown + sat + 1
      BY <1>b, <3>3 DEF PcOK
    <3> QED
      BY <1>b, <3>2, <3>4 DEF Quiet
  <2> QED
    BY <1>d, <2>1, <2>2 DEF CooldownCounts
<1> QED
  BY <1>1, <1>2, <1>3, <1>4, <1>5, <1>6, <1>7

LEMMA ReapInv ==
    ASSUME TickInv, NEW r \in Replicas, Reap(r)
    PROVE  TickInv'
<1> USE Numbers, TwoTasks
      DEF TickInv, TypeOK, poolVars, countVars, tickVars, ghostVars, Reap, RemoveRow
<1>1. TypeOK'
  BY DEF PcOK
<1>2. PcOK'
  BY DEF PcOK
<1>3. Held'
  BY DEF Held, PcOK, Tasks
<1>4. RoomLeft'
  BY <1>1, RoomStays DEF PcOK
<1>5. PickedIdle'
  BY DEF PickedIdle, Overdue, PcOK
<1>6. MinLeft'
  BY <1>1, <1>2, MinStays DEF PcOK
<1>7. CooldownCounts'
  BY DEF CooldownCounts, Quiet, PcOK, Far
<1> QED
  BY <1>1, <1>2, <1>3, <1>4, <1>5, <1>6, <1>7

LEMMA DecideInv ==
    ASSUME TickInv, Decide
    PROVE  TickInv'
<1> USE Numbers, TwoTasks DEF TickInv, TypeOK, poolVars
<1>0. tpc = "decide" /\ UNCHANGED <<cfg, poolVars, idle, cool, listed, entry, held, leader,
                                    vpc, faults, orphaned, sinceDrop>>
  BY DEF Decide
<1>a. Cardinality(rows) \in Nat /\ cfg.min \in Nat
  BY ConfigTypes, SubsetsCounted
<1>b. (rows \ todo) \cup lost \subseteq Replicas
  BY DEF PcOK
(* It goes on to spawn.                                                    *)
<1>1. ASSUME tpc' = "lock", toSpawn' \in Nat, toSpawn' # 0, sat' = 0, late' = {}, lost' = {},
             UNCHANGED <<known, cooling, todo, stopped>>
      PROVE  TickInv'
  <2>1. TypeOK' /\ PcOK'
    BY <1>0, <1>1 DEF PcOK
  <2>2. Held' /\ PickedIdle' /\ MinLeft'
    BY <1>0, <1>1 DEF Held, PickedIdle, MinLeft
  <2>3. RoomLeft'
    BY <1>0, <1>1, RoomStays
  <2>4. CooldownCounts'
    BY <1>0, <1>1 DEF CooldownCounts, Quiet, PcOK, Far
  <2> QED
    BY <2>1, <2>2, <2>3, <2>4
(* It is done with the spec.                                               *)
<1>2. ASSUME EndTurn, sat' \in 0..SatGrace, cool > 0 => sat' = 0, Quiet(sat')
      PROVE  TickInv'
  <2> USE DEF EndTurn
  <2>1. TypeOK' /\ PcOK'
    BY <1>0, <1>2 DEF PcOK
  <2>2. Held' /\ PickedIdle' /\ MinLeft'
    BY <1>0, <1>2 DEF Held, PickedIdle, MinLeft
  <2>3. RoomLeft'
    BY <1>0, <1>2, RoomStays
  <2>4. CooldownCounts'
    BY <1>0, <1>2 DEF CooldownCounts, Quiet
  <2> QED
    BY <2>1, <2>2, <2>3, <2>4
(* It goes on to stop replicas.                                            *)
<1>3. ASSUME tpc' = "drop", sat' = 0, todo' \in SUBSET rows, \A r \in todo' : load[r] = 0,
             Cardinality(rows \ todo') >= cfg.min, late' = {}, lost' = {},
             UNCHANGED <<known, cooling, toSpawn, stopped>>
      PROVE  TickInv'
  <2>1. TypeOK' /\ PcOK'
    BY <1>0, <1>3 DEF PcOK
  <2>2. Held' /\ PickedIdle'
    BY <1>0, <1>3 DEF Held, PickedIdle
  <2>3. MinLeft'
    <3>1. (rows' \ todo') \cup lost' = rows \ todo'
      BY <1>0, <1>3
    <3> QED
      BY <1>0, <1>3, <3>1 DEF MinLeft
  <2>4. RoomLeft'
    BY <1>0, <1>3, RoomStays
  <2>5. CooldownCounts'
    BY <1>0, <1>3 DEF CooldownCounts, Quiet, PcOK, Far
  <2> QED
    BY <2>1, <2>2, <2>3, <2>4, <2>5
<1>4. CASE ToMin
  BY <1>1, <1>4, <1>a DEF ToMin
<1>5. CASE Saturated
  <2>1. CASE ~cooling /\ sat + 1 >= SatGrace
    BY <1>1, <1>5, <2>1 DEF Saturated
  <2>2. CASE ~(~cooling /\ sat + 1 >= SatGrace)
    <3>1. EndTurn /\ sat' = IF cooling THEN 0 ELSE sat + 1
      BY <1>5, <2>2 DEF Saturated
    <3>2. sat' \in 0..SatGrace /\ (cool > 0 => sat' = 0) /\ Quiet(sat')
      BY <1>0, <2>2, <3>1 DEF CooldownCounts, Quiet, PcOK
    <3> QED
      BY <1>2, <3>1, <3>2
  <2> QED
    BY <2>1, <2>2
<1>6. CASE Calm
  <2>1. sat' = 0 /\ Quiet(0)
    BY <1>6 DEF Calm, CooldownCounts, Quiet, PcOK
  <2>2. CASE Cardinality(rows) > cfg.min /\ underutilized /\ DropCandidates # {}
    <3>1. /\ todo' \in Drops /\ tpc' = "drop" /\ late' = {} /\ lost' = {}
          /\ UNCHANGED <<known, cooling, toSpawn, stopped>>
      BY <1>6, <2>2, Zenon DEF Calm
    <3>2. DropCandidates \in SUBSET rows /\ \A r \in DropCandidates : load[r] = 0
      BY DEF DropCandidates, Overlaid
    <3>3. Cardinality(DropCandidates) \in Nat
      BY <3>2, SubsetsCounted
    <3>4. /\ todo' \in SUBSET DropCandidates
          /\ Cardinality(todo') = Min({allowed_to_drop, Cardinality(DropCandidates)})
      BY <3>1 DEF Drops, kSubset
    <3>5. Cardinality(todo') <= Cardinality(rows) - cfg.min
      BY <1>a, <3>3, <3>4, MinTwo DEF allowed_to_drop
    <3>6. Cardinality(rows \ todo') = Cardinality(rows) - Cardinality(todo')
      <4>1. IsFiniteSet(rows) /\ todo' \subseteq rows
        BY <3>2, <3>4, SubsetsCounted
      <4>2. rows \cap todo' = todo'
        BY <4>1
      <4> QED
        BY <4>1, <4>2, FS_Difference
    <3>7. Cardinality(todo') \in Nat
      BY <3>2, <3>4, SubsetsCounted
    <3>8. Cardinality(rows \ todo') >= cfg.min
      BY <1>a, <3>5, <3>6, <3>7
    <3> QED
      BY <1>3, <2>1, <3>1, <3>2, <3>4, <3>8
  <2>3. CASE ~(Cardinality(rows) > cfg.min /\ underutilized /\ DropCandidates # {})
    <3>1. EndTurn
      BY <1>6, <2>3, Zenon DEF Calm
    <3> QED
      BY <1>2, <2>1, <3>1
  <2> QED
    BY <2>2, <2>3
<1> QED
  BY <1>4, <1>5, <1>6 DEF Decide

LEMMA DropInv ==
    ASSUME TickInv, NEW r \in Replicas, Drop(r)
    PROVE  TickInv'
<1> USE Numbers, TwoTasks
      DEF TickInv, TypeOK, poolVars, countVars, tickVars, ghostVars, Drop, RemoveRow,
      EndTurn
<1>1. TypeOK'
  BY DEF PcOK
<1>2. PcOK'
  <2>1. stopped' \in BOOLEAN
    BY Zenon DEF PcOK
  <2>2. sinceDrop' \in 0..Far
    BY DEF PcOK
  <2> QED
    BY <2>1, <2>2 DEF PcOK
<1>3. Held'
  BY DEF Held, PcOK, Tasks
<1>4. RoomLeft'
  BY <1>1, RoomStays DEF PcOK
<1>5. PickedIdle'
  BY DEF PickedIdle, Overdue, PcOK
<1>6. MinLeft'
  BY <1>1, <1>2, MinStays DEF PcOK
<1>7. CooldownCounts'
  BY DEF CooldownCounts, Quiet, PcOK, Far
<1> QED
  BY <1>1, <1>2, <1>3, <1>4, <1>5, <1>6, <1>7

LEMMA SpawnLockInv ==
    ASSUME TickInv, SpawnLock
    PROVE  TickInv'
<1> USE Numbers, TwoTasks
      DEF TickInv, TypeOK, poolVars, countVars, tickVars, ghostVars, SpawnLock
<1>a. PICK m \in Mutexes : /\ entry' = m /\ held' = [held EXCEPT ![Tick] = m]
                          /\ entry \in {m, NoMutex}
                          /\ \A u \in Tasks : held[u] # m
  BY LockTaken
<1>1. TypeOK'
  BY <1>a
<1>2. PcOK'
  BY DEF PcOK
<1>3. Held'
  BY <1>a DEF Held, Tasks
<1>4. RoomLeft'
  BY <1>1, RoomStays DEF PcOK
<1>5. PickedIdle'
  BY DEF PickedIdle, Overdue, PcOK
<1>6. MinLeft'
  BY <1>1, <1>2, MinStays DEF PcOK
<1>7. CooldownCounts'
  BY DEF CooldownCounts, Quiet, PcOK, Far
<1> QED
  BY <1>1, <1>2, <1>3, <1>4, <1>5, <1>6, <1>7

LEMMA SpawnCapInv ==
    ASSUME TickInv, SpawnCap
    PROVE  TickInv'
<1> USE Numbers, TwoTasks
      DEF TickInv, TypeOK, poolVars, countVars, tickVars, ghostVars, SpawnCap, Unlock,
      EndTurn, AtMax
<1>1. TypeOK'
  BY DEF PcOK
<1>2. PcOK'
  <2>1. toSpawn # 0
    BY DEF PcOK
  <2>2. CASE AtMax /\ toSpawn = 1
    BY <2>2 DEF PcOK
  <2>3. CASE AtMax /\ toSpawn # 1
    <3>1. tpc' = "lock" /\ toSpawn' # 0
      BY <2>1, <2>3
    <3> QED
      BY <2>3, <3>1 DEF PcOK
  <2>4. CASE ~AtMax
    BY <2>1, <2>4 DEF PcOK
  <2> QED
    BY <2>2, <2>3, <2>4
<1>3. Held'
  BY DEF Held, PcOK, Tasks
<1>4. RoomLeft'
  <2>1. CASE AtMax
    BY <2>1, RoomStays
  <2>2. CASE ~AtMax
    BY <2>2, ConfigTypes, SubsetsCounted DEF RoomLeft
  <2> QED
    BY <2>1, <2>2
<1>5. PickedIdle'
  BY DEF PickedIdle, Overdue, PcOK
<1>6. MinLeft'
  BY <1>1, <1>2, MinStays DEF PcOK
<1>7. CooldownCounts'
  BY DEF CooldownCounts, Quiet, PcOK, Far
<1> QED
  BY <1>1, <1>2, <1>3, <1>4, <1>5, <1>6, <1>7

LEMMA SpawnDoneInv ==
    ASSUME TickInv, NEW r \in Replicas, SpawnDone(r)
    PROVE  TickInv'
<1> USE Numbers, TwoTasks
      DEF TickInv, TypeOK, poolVars, countVars, tickVars, ghostVars, SpawnDone,
      AddRow, Unlock, EndTurn
<1>1. TypeOK'
  BY DEF PcOK
<1>2. PcOK'
  <2>1. toSpawn # 0
    BY DEF PcOK
  <2>2. CASE toSpawn = 1
    BY <2>2 DEF PcOK
  <2>3. CASE toSpawn # 1
    <3>1. tpc' = "lock" /\ toSpawn' # 0
      BY <2>1, <2>3
    <3> QED
      BY <2>3, <3>1 DEF PcOK
  <2> QED
    BY <2>2, <2>3
<1>3. Held'
  BY DEF Held, PcOK, Tasks
<1>4. RoomLeft'
  <2>1. Cardinality(rows') = Cardinality(rows) + 1 /\ Cardinality(rows) \in Nat
    BY OneMore, SubsetsCounted
  <2>2. cfg.max \in Nat
    BY ConfigTypes
  <2>3. ~orphaned => Cardinality(rows) < cfg.max /\ ~(tpc' = "spawning" \/ vpc' = "spawning")
    BY DEF RoomLeft, Held
  <2>4. UNCHANGED <<cfg, orphaned>>
    OBVIOUS
  <2> QED
    BY <2>1, <2>2, <2>3, <2>4 DEF RoomLeft
<1>5. PickedIdle'
  BY DEF PickedIdle, Overdue, PcOK
<1>6. MinLeft'
  BY <1>1, <1>2, MinStays DEF PcOK
<1>7. CooldownCounts'
  BY DEF CooldownCounts, Quiet, PcOK, Far
<1> QED
  BY <1>1, <1>2, <1>3, <1>4, <1>5, <1>6, <1>7

LEMMA SpawnFailsInv ==
    ASSUME TickInv, SpawnFails
    PROVE  TickInv'
<1> USE Numbers, TwoTasks
      DEF TickInv, TypeOK, poolVars, countVars, tickVars, ghostVars, SpawnFails,
      Unlock, EndTurn
<1>1. TypeOK'
  BY DEF PcOK
<1>2. PcOK'
  BY DEF PcOK
<1>3. Held'
  BY DEF Held, PcOK, Tasks
<1>4. RoomLeft'
  BY <1>1, RoomStays DEF PcOK
<1>5. PickedIdle'
  BY DEF PickedIdle, Overdue, PcOK
<1>6. MinLeft'
  BY <1>1, <1>2, MinStays DEF PcOK
<1>7. CooldownCounts'
  BY DEF CooldownCounts, Quiet, PcOK, Far
<1> QED
  BY <1>1, <1>2, <1>3, <1>4, <1>5, <1>6, <1>7

LEMMA SeatInv ==
    ASSUME TickInv, NEW r \in Replicas, Seat(r)
    PROVE  TickInv'
<1> USE Numbers, TwoTasks
      DEF TickInv, TypeOK, poolVars, countVars, tickVars, ghostVars, Seat
<1>1. TypeOK'
  BY DEF PcOK
<1>2. PcOK'
  BY DEF PcOK
<1>3. Held'
  BY DEF Held, PcOK, Tasks
<1>4. RoomLeft'
  BY <1>1, RoomStays DEF PcOK
<1>5. PickedIdle'
  BY DEF PickedIdle, Overdue, PcOK
<1>6. MinLeft'
  BY <1>1, <1>2, MinStays DEF PcOK
<1>7. CooldownCounts'
  BY DEF CooldownCounts, Quiet, PcOK, Far
<1> QED
  BY <1>1, <1>2, <1>3, <1>4, <1>5, <1>6, <1>7

LEMMA LeaveInv ==
    ASSUME TickInv, NEW r \in Replicas, Leave(r)
    PROVE  TickInv'
<1> USE Numbers, TwoTasks
      DEF TickInv, TypeOK, poolVars, countVars, tickVars, ghostVars, Leave
<1>1. TypeOK'
  BY DEF PcOK
<1>2. PcOK'
  BY DEF PcOK
<1>3. Held'
  BY DEF Held, PcOK, Tasks
<1>4. RoomLeft'
  BY <1>1, RoomStays DEF PcOK
<1>5. PickedIdle'
  BY DEF PickedIdle, Overdue, PcOK
<1>6. MinLeft'
  BY <1>1, <1>2, MinStays DEF PcOK
<1>7. CooldownCounts'
  BY DEF CooldownCounts, Quiet, PcOK, Far
<1> QED
  BY <1>1, <1>2, <1>3, <1>4, <1>5, <1>6, <1>7

LEMMA VisitLockInv ==
    ASSUME TickInv, VisitLock
    PROVE  TickInv'
<1> USE Numbers, TwoTasks
      DEF TickInv, TypeOK, poolVars, countVars, tickVars, ghostVars, VisitLock
<1>a. PICK m \in Mutexes : /\ entry' = m /\ held' = [held EXCEPT ![Visit] = m]
                          /\ entry \in {m, NoMutex}
                          /\ \A u \in Tasks : held[u] # m
  BY LockTaken
<1>1. TypeOK'
  BY <1>a
<1>2. PcOK'
  BY DEF PcOK
<1>3. Held'
  BY <1>a DEF Held, Tasks
<1>4. RoomLeft'
  BY ConfigTypes, SubsetsCounted DEF RoomLeft
<1>5. PickedIdle'
  BY DEF PickedIdle, Overdue, PcOK
<1>6. MinLeft'
  BY <1>1, <1>2, MinStays DEF PcOK
<1>7. CooldownCounts'
  BY DEF CooldownCounts, Quiet, PcOK, Far
<1> QED
  BY <1>1, <1>2, <1>3, <1>4, <1>5, <1>6, <1>7

LEMMA VisitSpawnedInv ==
    ASSUME TickInv, NEW r \in Replicas, VisitSpawned(r)
    PROVE  TickInv'
<1> USE Numbers, TwoTasks
      DEF TickInv, TypeOK, poolVars, countVars, tickVars, ghostVars, VisitSpawned,
      AddRow, Unlock
<1>1. TypeOK'
  BY DEF PcOK
<1>2. PcOK'
  BY DEF PcOK
<1>3. Held'
  BY DEF Held, PcOK, Tasks
<1>4. RoomLeft'
  <2>1. Cardinality(rows') = Cardinality(rows) + 1 /\ Cardinality(rows) \in Nat
    BY OneMore, SubsetsCounted
  <2>2. cfg.max \in Nat
    BY ConfigTypes
  <2>3. ~orphaned => Cardinality(rows) < cfg.max /\ ~(tpc' = "spawning" \/ vpc' = "spawning")
    BY DEF RoomLeft, Held
  <2>4. UNCHANGED <<cfg, orphaned>>
    OBVIOUS
  <2> QED
    BY <2>1, <2>2, <2>3, <2>4 DEF RoomLeft
<1>5. PickedIdle'
  BY DEF PickedIdle, Overdue, PcOK
<1>6. MinLeft'
  BY <1>1, <1>2, MinStays DEF PcOK
<1>7. CooldownCounts'
  BY DEF CooldownCounts, Quiet, PcOK, Far
<1> QED
  BY <1>1, <1>2, <1>3, <1>4, <1>5, <1>6, <1>7

LEMMA RowLostInv ==
    ASSUME TickInv, NEW r \in Replicas, RowLost(r)
    PROVE  TickInv'
<1> USE Numbers, TwoTasks
      DEF TickInv, TypeOK, poolVars, countVars, tickVars, ghostVars, RowLost,
      RemoveRow
<1>1. TypeOK'
  BY DEF PcOK
<1>2. PcOK'
  BY DEF PcOK
<1>3. Held'
  BY DEF Held, PcOK, Tasks
<1>4. RoomLeft'
  BY <1>1, RoomStays DEF PcOK
<1>5. PickedIdle'
  BY DEF PickedIdle, Overdue, PcOK
<1>6. MinLeft'
  BY <1>1, <1>2, MinStays DEF PcOK
<1>7. CooldownCounts'
  BY DEF CooldownCounts, Quiet, PcOK, Far
<1> QED
  BY <1>1, <1>2, <1>3, <1>4, <1>5, <1>6, <1>7

LEMMA EditCatalogInv ==
    ASSUME TickInv, EditCatalog
    PROVE  TickInv'
<1> USE Numbers, TwoTasks
      DEF TickInv, TypeOK, poolVars, countVars, tickVars, ghostVars, EditCatalog
<1>1. TypeOK'
  BY DEF PcOK
<1>2. PcOK'
  BY DEF PcOK
<1>3. Held'
  BY DEF Held, PcOK, Tasks
<1>4. RoomLeft'
  BY <1>1, RoomStays DEF PcOK
<1>5. PickedIdle'
  BY DEF PickedIdle, Overdue, PcOK
<1>6. MinLeft'
  BY <1>1, <1>2, MinStays DEF PcOK
<1>7. CooldownCounts'
  BY DEF CooldownCounts, Quiet, PcOK, Far
<1> QED
  BY <1>1, <1>2, <1>3, <1>4, <1>5, <1>6, <1>7

LEMMA ElectionInv ==
    ASSUME TickInv, Election
    PROVE  TickInv'
<1> USE Numbers, TwoTasks
      DEF TickInv, TypeOK, poolVars, countVars, tickVars, ghostVars, Election
<1>1. TypeOK'
  BY DEF PcOK
<1>2. PcOK'
  BY DEF PcOK
<1>3. Held'
  BY DEF Held, PcOK, Tasks
<1>4. RoomLeft'
  BY <1>1, RoomStays DEF PcOK
<1>5. PickedIdle'
  BY DEF PickedIdle, Overdue, PcOK
<1>6. MinLeft'
  BY <1>1, <1>2, MinStays DEF PcOK
<1>7. CooldownCounts'
  BY DEF CooldownCounts, Quiet, PcOK, Far
<1> QED
  BY <1>1, <1>2, <1>3, <1>4, <1>5, <1>6, <1>7

LEMMA InitInv == Init => TickInv
<1> SUFFICES ASSUME Init PROVE TickInv
  OBVIOUS
<1> USE Numbers, TwoTasks DEF Init
<1>1. TypeOK /\ PcOK
  <2>1. TypeOK
    BY DEF TypeOK
  <2>2. PcOK
    <3>1. sinceDrop \in 0..Far
      OBVIOUS
    <3> QED
      BY <3>1, Zenon DEF PcOK
  <2> QED
    BY <2>1, <2>2
<1>2. Cardinality(rows) = 0
  BY FS_EmptySet
<1>3. RoomLeft
  BY <1>2, ConfigTypes DEF RoomLeft
<1>4. Held /\ PickedIdle /\ MinLeft /\ CooldownCounts
  BY DEF Held, PickedIdle, MinLeft, CooldownCounts, Quiet, Far, Tasks
<1> QED
  BY <1>1, <1>3, <1>4 DEF TickInv

LEMMA StutterInv == TickInv /\ UNCHANGED vars => TickInv'
  BY DEF TickInv, vars, poolVars, countVars, tickVars, ghostVars, TypeOK, PcOK, Held, RoomLeft,
         PickedIdle, Overdue, MinLeft, CooldownCounts, Quiet

LEMMA NextInv ==
    ASSUME TickInv, [Next]_vars
    PROVE  TickInv'
  BY FireInv, CollectGarbageInv, TurnInv, ReapInv, DecideInv, DropInv, SpawnLockInv,
     SpawnCapInv, SpawnDoneInv, SpawnFailsInv, SeatInv, LeaveInv, VisitLockInv,
     VisitSpawnedInv, RowLostInv, EditCatalogInv, ElectionInv, StutterInv, Zenon
  DEF Next, TickStep, Others

(* The inductive invariant of the tick and of everything that runs beside  *)
(* it (tick_with_interval, spawn_one, stop_one, pick_or_spawn).            *)
THEOREM TickInvariance == Spec => []TickInv
  BY InitInv, NextInv, PTL DEF Spec

(* max-replicas holds against the tick and a visit that spawn at the same  *)
(* time, as long as no tick dropped a spec's mutex from spawn_locks while  *)
(* a spawn held it.                                                        *)
THEOREM CapHolds == Spec => []CapUnlessOrphaned
<1>1. TickInv => CapUnlessOrphaned
  BY DEF TickInv, RoomLeft, CapUnlessOrphaned
<1> QED
  BY <1>1, TickInvariance, PTL

-----------------------------------------------------------------------------
LEMMA StopsSpareBusy ==
    ASSUME TickInv, NEW r \in rows, Reap(r) \/ Drop(r), load[r] > 0
    PROVE  r \in late \/ (cfg.hard # NoCap /\ age[r] >= cfg.hard + Drain)
  BY DEF TickInv, PickedIdle, Overdue, Reap, Drop

LEMMA DropLeavesMin ==
    ASSUME TickInv, NEW r \in rows, Drop(r)
    PROVE  Cardinality(rows') + Cardinality(lost) >= cfg.min
<1> USE DEF TickInv, TypeOK
<1>1. tpc = "drop" /\ r \in todo /\ rows' = rows \ {r}
  BY DEF Drop, RemoveRow
<1>2. rows' \in SUBSET Replicas /\ lost \in SUBSET Replicas
  BY <1>1 DEF PcOK
<1>3. /\ IsFiniteSet(rows') /\ IsFiniteSet(lost)
      /\ Cardinality(rows') \in Nat /\ Cardinality(lost) \in Nat
      /\ Cardinality(rows' \cap lost) \in Nat
  BY <1>2, SubsetsCounted
<1>4. Cardinality(rows' \cup lost) = Cardinality(rows') + Cardinality(lost)
                                       - Cardinality(rows' \cap lost)
  BY <1>3, FS_Union
<1>5. (rows \ todo) \cup lost \in SUBSET (rows' \cup lost)
  BY <1>1
<1>6. /\ Cardinality((rows \ todo) \cup lost) <= Cardinality(rows' \cup lost)
      /\ Cardinality((rows \ todo) \cup lost) \in Nat
      /\ Cardinality(rows' \cup lost) \in Nat
  BY <1>2, <1>5, SubsetsCounted
<1>7. Cardinality((rows \ todo) \cup lost) >= cfg.min /\ cfg.min \in Nat
  BY <1>1, ConfigTypes DEF MinLeft
<1> QED
  BY <1>3, <1>4, <1>6, <1>7

LEMMA SpawnAfterQuiet ==
    ASSUME TickInv, Decide, Saturated, tpc' = "lock"
    PROVE  sinceDrop >= Far
<1> USE Numbers DEF TickInv, TypeOK
<1>1. tpc = "decide" /\ ~cooling /\ sat + 1 >= SatGrace
  BY DEF Decide, Saturated, EndTurn
<1> QED
  BY <1>1 DEF CooldownCounts, Quiet, PcOK, Far

(* Scaling down is sound at every step, however long after the snapshot    *)
(* its stops come: a busy replica is stopped only past max-lifetime plus   *)
(* the drain time or when its visitor came after the snapshot, the tick    *)
(* never takes the pool below min-replicas by itself, and no saturation    *)
(* spawn follows a scale-down sooner than the cooldown and the saturation  *)
(* grace allow.                                                            *)
THEOREM TickScaleDownSound == Spec => ScaleDownSound
<1>1. ASSUME TickInv, [Next]_vars
      PROVE  [\A r \in rows :
                (Reap(r) \/ Drop(r)) /\ load[r] > 0
                => r \in late \/ (cfg.hard # NoCap /\ age[r] >= cfg.hard + Drain)]_vars
  BY <1>1, StopsSpareBusy, Zenon
<1>2. ASSUME TickInv, [Next]_vars
      PROVE  [(\E r \in rows : Drop(r)) => Cardinality(rows') + Cardinality(lost) >= cfg.min]_vars
  BY <1>2, DropLeavesMin, Zenon
<1>3. ASSUME TickInv, [Next]_vars
      PROVE  [Decide /\ Saturated /\ tpc' = "lock" => sinceDrop >= Far]_vars
  BY <1>3, SpawnAfterQuiet, Zenon
<1>4. TickInv => TypeOK
  BY DEF TickInv
<1>5. Spec => []TypeOK
  BY <1>4, TickInvariance, PTL
<1>6. Spec => BusySpared
  BY <1>1, TickInvariance, PTL DEF BusySpared, Spec
<1>7. Spec => ScaleDownKeepsMin
  BY <1>2, TickInvariance, PTL DEF ScaleDownKeepsMin, Spec
<1>8. Spec => NoFlapping
  BY <1>3, TickInvariance, PTL DEF NoFlapping, Spec
<1> QED
  BY <1>5, <1>6, <1>7, <1>8 DEF ScaleDownSound
=============================================================================
