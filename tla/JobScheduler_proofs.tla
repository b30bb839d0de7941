------------------------- MODULE JobScheduler_proofs -------------------------
(***************************************************************************)
(* The election, for any number of processes and any number of faults, and *)
(* at-most-once fires of the job scheduler on top of it, for any number of *)
(* schedules, any clock skew and any listing however old.                  *)
(***************************************************************************)
EXTENDS JobScheduler, TLAPS

(* A flag over a live session tells the truth about the server.            *)
Truthful == \A n \in Nodes : holds[n] /\ session[n] = "live" => owner = n

(* A dead connection never keeps its flag.                                 *)
NoFlagWithoutConnection == \A n \in Nodes : session[n] = "none" => ~holds[n]

(* The inductive invariant of the election.                                *)
LockInv == LockTypeOK /\ Truthful /\ NoFlagWithoutConnection

(* Every step keeps the three facts.                                       *)
LEMMA NextLockInv == LockInv /\ LockNext => LockInv'
<1> SUFFICES ASSUME LockInv, LockNext PROVE LockInv'
  OBVIOUS
<1> USE LeaderAssumption DEF LockInv, LockTypeOK, Truthful, NoFlagWithoutConnection
<1>1. ASSUME NEW n \in Nodes, NEW l \in Loops, SaysYes(n, l) PROVE LockInv'
  <2>1. CASE StillLeader(n)
    BY <1>1, <2>1 DEF SaysYes, StillLeader
  <2>2. CASE Acquire(n)
    BY <1>1, <2>2 DEF SaysYes, Acquire
  <2> QED
    BY <1>1, <2>1, <2>2 DEF SaysYes
<1>2. ASSUME NEW n \in Nodes, NEW l \in Loops, SaysNo(n, l) PROVE LockInv'
  <2>1. CASE LockTaken(n)
    BY <1>2, <2>1 DEF SaysNo, LockTaken
  <2>2. CASE ConnectFails(n)
    BY <1>2, <2>2 DEF SaysNo, ConnectFails, Fault
  <2>3. CASE QueryFails(n)
    BY <1>2, <2>3 DEF SaysNo, QueryFails, Fault
  <2>4. CASE PingFails(n)
    BY <1>2, <2>4 DEF SaysNo, PingFails, Fault, Abandon
  <2> QED
    BY <1>2, <2>1, <2>2, <2>3, <2>4 DEF SaysNo
<1>3. ASSUME NEW n \in Nodes, NEW l \in Loops, TickEnds(n, l) PROVE LockInv'
  BY <1>3 DEF TickEnds
<1>4. ASSUME NEW n \in Nodes, Sever(n) PROVE LockInv'
  BY <1>4 DEF Sever, Fault
<1>5. ASSUME NEW n \in Nodes, LockCrash(n) PROVE LockInv'
  BY <1>5 DEF LockCrash, Fault, Abandon
<1>6. ASSUME Release PROVE LockInv'
  BY <1>6 DEF Release
<1> QED
  BY <1>1, <1>2, <1>3, <1>4, <1>5, <1>6 DEF LockNext

(* The flag over a live session is truthful in every reachable state.      *)
LEMMA LockInvariance == LockSpec => []LockInv
<1>1. LockInit => LockInv
  BY LeaderAssumption
  DEF LockInit, LockInv, LockTypeOK, Truthful, NoFlagWithoutConnection
<1>2. LockInv /\ UNCHANGED lockVars => LockInv'
  BY DEF LockInv, LockTypeOK, Truthful, NoFlagWithoutConnection, lockVars
<1>3. LockInv /\ [LockNext]_lockVars => LockInv'
  BY <1>2, NextLockInv
<1> QED
  BY <1>1, <1>3, PTL DEF LockSpec

(* is_leader lets a loop scale, sweep or fire schedules only while its     *)
(* process owns the lock, for any number of processes, loops and faults.   *)
THEOREM YesOnlyToTheOwner == LockSpec => YesOnlyToOwner
<1> DEFINE Truth == \A n \in Nodes, l \in Loops :
                        <<n, l>> \in acting' \ acting => owner' = n
<1>1. ASSUME LockInv, LockNext PROVE Truth
  <2> SUFFICES ASSUME NEW n \in Nodes, NEW l \in Loops,
                      <<n, l>> \in acting' \ acting
               PROVE  owner' = n
    OBVIOUS
  <2>1. \E m \in Nodes, k \in Loops : SaysYes(m, k)
    BY <1>1 DEF LockNext, SaysNo, TickEnds, Sever, LockCrash, Release
  <2>2. PICK m \in Nodes, k \in Loops : SaysYes(m, k)
    BY <2>1
  <2>3. m = n
    BY <2>2 DEF SaysYes
  <2> QED
    BY <1>1, <2>2, <2>3 DEF SaysYes, StillLeader, Acquire, LockInv, Truthful
<1>2. LockInv /\ [LockNext]_lockVars => [Truth]_lockVars
  BY <1>1
<1> QED
  BY <1>2, LockInvariance, PTL DEF LockSpec, YesOnlyToOwner

(* Two processes with live sessions never both hold the lock.              *)
THEOREM OneLiveLeader == LockSpec => []OneLeader
<1>1. LockInv => OneLeader
  BY DEF LockInv, Truthful, OneLeader, Leading
<1> QED
  BY <1>1, LockInvariance, PTL

-----------------------------------------------------------------------------
(* What the claim argument needs of the state's types.                     *)
SchedTypes ==
    /\ row \in [Schedules -> Rows]
    /\ todo \in [Nodes -> SUBSET Schedules]
    /\ seen \in [Nodes -> [Schedules -> Times]]
    /\ at \in [Nodes -> Times]
    /\ phase \in [Nodes -> {"idle", "list", "now", "each", "launch", "tell"}]
    /\ fires \in SUBSET Fires
    /\ clock \in 1..Horizon

(* A listed schedule exists, so its creation date no longer moves.         *)
ListedExist == \A n \in Nodes : \A s \in todo[n] : row[s].state # "unborn"

(* What a pass has still to claim was due at its own clock: the window is  *)
(* not empty.                                                              *)
WindowsOpen ==
    \A n \in Nodes : phase[n] \in {"each", "launch", "tell"} =>
        \A s \in todo[n] : Anchor(s, seen[n][s]) < at[n]

(* The marker covers every claim ever written.                             *)
MarkerCovers ==
    \A f \in fires : /\ row[f.sched].state # "unborn"
                     /\ row[f.sched].last # 0
                     /\ f.at <= row[f.sched].last

FireInv == SchedTypes /\ ListedExist /\ WindowsOpen /\ MarkerCovers /\ NoDoubleFire

-----------------------------------------------------------------------------
(* A claim that the compare-and-set lets through starts where the last one *)
(* ended.                                                                  *)
LEMMA MarkedInv ==
  ASSUME FireInv, NEW n \in Nodes, NEW s \in Schedules, s \in todo[n],
         phase[n] = "each", Claimable(n, s), Marked(n, s)
  PROVE  /\ row' \in [Schedules -> Rows]
         /\ fires' \in SUBSET Fires
         /\ \A x \in Schedules : /\ row'[x].state = row[x].state
                                 /\ row'[x].created = row[x].created
         /\ MarkerCovers'
         /\ NoDoubleFire'
<1> DEFINE f0 == [sched |-> s, node |-> n, from |-> Anchor(s, seen[n][s]), at |-> at[n]]
<1>1. row[s].last = seen[n][s] /\ row[s].state = "live"
  BY DEF Claimable
<1>2. row \in [Schedules -> Rows] /\ at[n] \in Times /\ row[s] \in Rows
  BY DEF FireInv, SchedTypes
<1>3. Anchor(s, seen[n][s]) < at[n]
  BY DEF FireInv, WindowsOpen
<1>4. Anchor(s, seen[n][s]) \in Times
  BY <1>1, <1>2 DEF Anchor, Rows
<1>5. Times \subseteq Nat
  BY ScheduleAssumption DEF Times
<1>6. /\ at[n] \in Nat /\ Anchor(s, seen[n][s]) \in Nat
      /\ Anchor(s, seen[n][s]) < at[n] /\ at[n] # 0
  <2>1. at[n] \in Nat /\ Anchor(s, seen[n][s]) \in Nat
    BY <1>2, <1>4, <1>5
  <2> QED
    BY <1>3, <2>1
<1>7. row' = [row EXCEPT ![s].last = at[n]] /\ fires' = fires \cup {f0}
  BY DEF Marked
<1>8. row' \in [Schedules -> Rows]
  BY <1>2, <1>7 DEF Rows
<1>9. \A x \in Schedules : /\ row'[x].state = row[x].state
                           /\ row'[x].created = row[x].created
  BY <1>2, <1>7 DEF Rows
<1>10. row'[s].last = at[n] /\ \A x \in Schedules : x # s => row'[x] = row[x]
  BY <1>2, <1>7 DEF Rows
<1>11. fires \in SUBSET Fires /\ fires' \in SUBSET Fires
  BY <1>2, <1>4, <1>7 DEF FireInv, SchedTypes, Fires
<1>12. ASSUME NEW f \in fires, f.sched = s
       PROVE  f.at <= Anchor(s, seen[n][s])
  <2>1. row[s].last # 0 /\ f.at <= row[s].last
    BY <1>12 DEF FireInv, MarkerCovers
  <2> QED
    BY <1>1, <2>1 DEF Anchor
<1>13. MarkerCovers'
  <2> SUFFICES ASSUME NEW f \in fires'
               PROVE  /\ row'[f.sched].state # "unborn"
                      /\ row'[f.sched].last # 0
                      /\ f.at <= row'[f.sched].last
    BY DEF MarkerCovers
  <2>1. f \in Fires /\ f.sched \in Schedules /\ f.at \in Nat
    BY <1>5, <1>11 DEF Fires
  <2>2. CASE f = f0
    BY <1>1, <1>6, <1>9, <1>10, <2>2
  <2>3. CASE f \in fires /\ f.sched = s
    <3>1. f.at <= Anchor(s, seen[n][s])
      BY <1>12, <2>3
    <3> HIDE DEF f0
    <3> QED
      BY <1>1, <1>6, <1>9, <1>10, <2>1, <2>3, <3>1
  <2>4. CASE f \in fires /\ f.sched # s
    BY <1>10, <2>1, <2>4 DEF FireInv, MarkerCovers
  <2> QED
    BY <1>7, <2>2, <2>3, <2>4
<1>14. NoDoubleFire'
  <2> SUFFICES ASSUME NEW f \in fires', NEW g \in fires', f.sched = g.sched, f # g
               PROVE  f.at <= g.from \/ g.at <= f.from
    BY DEF NoDoubleFire
  <2>1. CASE f \in fires /\ g \in fires
    BY <2>1 DEF FireInv, NoDoubleFire
  <2>2. CASE f = f0 /\ g \in fires
    BY <1>12, <2>2
  <2>3. CASE f \in fires /\ g = f0
    BY <1>12, <2>3
  <2> QED
    BY <1>7, <2>1, <2>2, <2>3
<1> QED
  BY <1>8, <1>9, <1>11, <1>13, <1>14

(* A step that leaves markers, claims and the clock of every pass alone,   *)
(* and adds nothing to what a pass has to do.                              *)
LEMMA QuietInv ==
  ASSUME FireInv, SchedTypes',
         \A x \in Schedules : row[x].state # "unborn" =>
             /\ row'[x].state # "unborn"
             /\ row'[x].created = row[x].created /\ row'[x].last = row[x].last,
         fires' = fires,
         \A n \in Nodes : todo'[n] = {} \/
             /\ todo'[n] \subseteq todo[n] /\ at'[n] = at[n]
             /\ \A s \in todo'[n] : seen'[n][s] = seen[n][s]
             /\ phase'[n] \in {"each", "launch", "tell"} => phase[n] \in {"each", "launch", "tell"}
  PROVE  FireInv'
<1>1. ListedExist'
  BY DEF FireInv, SchedTypes, ListedExist
<1>2. WindowsOpen'
  <2> SUFFICES ASSUME NEW n \in Nodes, phase'[n] \in {"each", "launch", "tell"}, NEW s \in todo'[n]
               PROVE  Anchor(s, seen[n][s])' < at'[n]
    BY DEF WindowsOpen
  <2>1. s \in todo[n] /\ s \in Schedules /\ row[s].state # "unborn"
    BY DEF FireInv, SchedTypes, ListedExist
  <2>2. Anchor(s, seen[n][s])' = Anchor(s, seen[n][s])
    BY <2>1 DEF Anchor
  <2> QED
    BY <2>1, <2>2 DEF FireInv, WindowsOpen
<1>3. MarkerCovers'
  BY DEF FireInv, SchedTypes, MarkerCovers, Fires
<1>4. NoDoubleFire'
  BY DEF FireInv, NoDoubleFire
<1> QED
  BY <1>1, <1>2, <1>3, <1>4 DEF FireInv

-----------------------------------------------------------------------------
(* The passes.                                                             *)

(* Ending a pass clears its own locals and no other's.                     *)
LEMMA SleepTypes ==
  ASSUME SchedTypes, NEW n \in Nodes, Sleep(n)
  PROVE  /\ todo' \in [Nodes -> SUBSET Schedules]
         /\ seen' \in [Nodes -> [Schedules -> Times]]
         /\ at' \in [Nodes -> Times]
         /\ phase' \in [Nodes -> {"idle", "list", "now", "each", "launch", "tell"}]
         /\ todo'[n] = {}
         /\ \A m \in Nodes : m # n => /\ todo'[m] = todo[m] /\ seen'[m] = seen[m]
                                      /\ at'[m] = at[m] /\ phase'[m] = phase[m]
BY ScheduleAssumption DEF SchedTypes, Sleep, Goto, Times

(* Every step of a pass keeps the claim argument.                          *)
LEMMA TickStepInv ==
  ASSUME FireInv, NEW n \in Nodes, TickStep(n)
  PROVE  FireInv'
<1> SchedTypes
  BY DEF FireInv
<1>1. CASE Tick(n)
  <2>1. SchedTypes'
    BY <1>1 DEF SchedTypes, Tick, Goto, tables, outcomes
  <2> QED
    BY <1>1, <2>1, QuietInv DEF SchedTypes, Tick, Goto, tables, outcomes
<1>2. CASE TickSkipped(n)
  <2>1. SchedTypes'
    BY <1>2 DEF SchedTypes, TickSkipped, jobVars, tables, ticking, outcomes
  <2> QED
    BY <1>2, <2>1, QuietInv DEF TickSkipped, jobVars, tables, ticking, outcomes
<1>3. CASE list_all(n)
  <2>4. /\ seen' = [seen EXCEPT ![n] = [s \in Schedules |-> IF s \in todo'[n] THEN row[s].last ELSE 0]]
        /\ todo' = [todo EXCEPT ![n] = {s \in Schedules : row[s].state = "live" /\ row[s].enabled}]
        /\ phase' = [phase EXCEPT ![n] = "list"] \/ phase' = [phase EXCEPT ![n] = "now"]
        /\ UNCHANGED <<row, at, fires, clock>>
    BY <1>3 DEF list_all, Goto, tables, outcomes
  <2>5. 0 \in Times /\ \A s \in Schedules : row[s].last \in Times
    BY ScheduleAssumption DEF Times, SchedTypes, Rows
  <2>1. SchedTypes'
    BY <2>4, <2>5 DEF SchedTypes
  <2>2. ListedExist'
    BY <1>3 DEF FireInv, SchedTypes, ListedExist, list_all, tables
  <2>3. WindowsOpen'
    BY <1>3 DEF FireInv, SchedTypes, WindowsOpen, list_all, Goto, tables, Anchor
  <2>6. MarkerCovers' /\ NoDoubleFire'
    BY <1>3 DEF FireInv, MarkerCovers, NoDoubleFire, list_all, tables, outcomes
  <2> QED
    BY <2>1, <2>2, <2>3, <2>6 DEF FireInv
<1>4. CASE ListFails(n)
  <2>1. SchedTypes'
    BY <1>4, SleepTypes DEF SchedTypes, ListFails, tables
  <2> QED
    BY <1>4, <2>1, SleepTypes, QuietInv DEF ListFails, tables
<1>5. CASE ReadClock(n)
  <2>1. PICK now \in Now :
          /\ at' = [at EXCEPT ![n] = now]
          /\ todo' = [todo EXCEPT ![n] = {s \in @ : is_due(s, seen[n][s], now)}]
    BY <1>5 DEF ReadClock
  <2>2. now \in Times
    BY ScheduleAssumption DEF SchedTypes, Now, Times
  <2>3. UNCHANGED <<row, fires, clock>> /\ phase' = [phase EXCEPT ![n] = "each"]
    BY <1>5 DEF ReadClock, Goto, tables, outcomes
  <2>8. /\ seen' \in [Nodes -> [Schedules -> Times]]
        /\ \A m \in Nodes : \A s \in todo'[m] : seen'[m][s] = seen[m][s]
    <3>1. seen' = [seen EXCEPT ![n] = [s \in Schedules |-> IF s \in todo'[n] THEN seen[n][s] ELSE 0]]
      BY <1>5 DEF ReadClock, SchedTypes
    <3>2. 0 \in Times /\ \A m \in Nodes : todo'[m] \subseteq Schedules
      BY <2>1, ScheduleAssumption DEF Times, SchedTypes
    <3> QED
      BY <3>1, <3>2 DEF SchedTypes
  <2>4. SchedTypes'
    BY <2>1, <2>2, <2>3, <2>8 DEF SchedTypes
  <2>5. ListedExist'
    BY <2>1, <2>3 DEF FireInv, SchedTypes, ListedExist
  <2>6. WindowsOpen'
    <3> SUFFICES ASSUME NEW m \in Nodes, phase'[m] \in {"each", "launch", "tell"}, NEW s \in todo'[m]
                 PROVE  Anchor(s, seen[m][s]) < at'[m]
      BY <2>3, <2>8 DEF WindowsOpen, Anchor
    <3>1. CASE m = n
      <4>1. s \in Schedules /\ is_due(s, seen[n][s], now) /\ at'[n] = now
        BY <2>1, <3>1 DEF SchedTypes
      <4>2. Anchor(s, seen[n][s]) \in Nat /\ now \in Nat
        BY <2>2, <4>1, ScheduleAssumption DEF SchedTypes, Anchor, Rows, Times
      <4>3. PICK k \in Anchor(s, seen[n][s]) + 1..now : TRUE
        BY <4>1 DEF is_due, OccursIn
      <4> QED
        BY <3>1, <4>1, <4>2, <4>3
    <3>2. CASE m # n
      BY <2>1, <2>3, <3>2 DEF FireInv, SchedTypes, WindowsOpen
    <3> QED
      BY <3>1, <3>2
  <2>7. MarkerCovers' /\ NoDoubleFire'
    BY <2>3 DEF FireInv, MarkerCovers, NoDoubleFire
  <2> QED
    BY <2>4, <2>5, <2>6, <2>7 DEF FireInv
<1>6. ASSUME NEW s \in Schedules, mark_fired(n, s) \/ ClaimFails(n, s)
      PROVE  FireInv'
  <2>1. /\ phase[n] = "each" /\ s \in todo[n]
        /\ todo' = [todo EXCEPT ![n] = @ \ {s}]
        /\ seen' = [seen EXCEPT ![n][s] = 0] /\ UNCHANGED <<at, clock>>
        /\ phase' \in {phase, [phase EXCEPT ![n] = "launch"]}
        /\ (Claimable(n, s) /\ Marked(n, s)) \/ UNCHANGED <<row, fires>>
    BY <1>6 DEF mark_fired, ClaimFails, Goto, lockVars
  <2>4. /\ seen' \in [Nodes -> [Schedules -> Times]]
        /\ \A m \in Nodes : \A x \in todo'[m] : x \in todo[m] /\ seen'[m][x] = seen[m][x]
    BY <2>1, ScheduleAssumption DEF SchedTypes, Times
  <2>2. CASE UNCHANGED <<row, fires>>
    <3>1. SchedTypes'
      BY <2>1, <2>2, <2>4 DEF SchedTypes
    <3> QED
      BY <2>1, <2>2, <2>4, <3>1, QuietInv DEF SchedTypes
  <2>3. CASE Claimable(n, s) /\ Marked(n, s)
    <3>1. /\ row' \in [Schedules -> Rows] /\ fires' \in SUBSET Fires
          /\ \A x \in Schedules : /\ row'[x].state = row[x].state
                                  /\ row'[x].created = row[x].created
          /\ MarkerCovers' /\ NoDoubleFire'
      BY <2>1, <2>3, MarkedInv
    <3>2. SchedTypes'
      BY <2>1, <2>4, <3>1 DEF SchedTypes
    <3>3. ListedExist'
      BY <2>1, <3>1 DEF FireInv, SchedTypes, ListedExist
    <3>4. WindowsOpen'
      BY <2>1, <2>4, <3>1 DEF FireInv, SchedTypes, WindowsOpen, Anchor
    <3> QED
      BY <3>1, <3>2, <3>3, <3>4 DEF FireInv
  <2> QED
    BY <2>1, <2>2, <2>3
<1>7. CASE SpecMissing(n) \/ BadRequest(n) \/ TickTells(n) \/ Launch(n)
  <2>1. /\ UNCHANGED <<row, todo, seen, at, fires, clock>>
        /\ phase' \in {[phase EXCEPT ![n] = "each"], [phase EXCEPT ![n] = "tell"]}
        /\ phase[n] \in {"launch", "tell"}
    BY <1>7 DEF SpecMissing, BadRequest, TickTells, Launch, Started, Goto, tables
  <2>2. SchedTypes'
    BY <2>1 DEF SchedTypes
  <2> QED
    BY <2>1, <2>2, QuietInv DEF SchedTypes
<1>8. CASE TickDone(n)
  <2>1. SchedTypes'
    BY <1>8, SleepTypes DEF SchedTypes, TickDone, tables, outcomes
  <2> QED
    BY <1>8, <2>1, SleepTypes, QuietInv DEF TickDone, tables, outcomes
<1> QED
  BY <1>1, <1>2, <1>3, <1>4, <1>5, <1>6, <1>7, <1>8 DEF TickStep

(* The rest of the system neither claims nor lists.                        *)
LEMMA OthersInv ==
  ASSUME FireInv, JobStep \/ Admin \/ LockMoves \/ Advance \/ \E n \in Nodes : Crash(n)
  PROVE  FireInv'
<1> SchedTypes
  BY DEF FireInv
<1>1. CASE JobStep
  <2>1. UNCHANGED <<row, todo, seen, at, phase, fires, clock>>
    BY <1>1 DEF JobStep, JobEnds, JobTells, tables, ticking
  <2>2. SchedTypes'
    BY <2>1 DEF SchedTypes
  <2> QED
    BY <2>1, <2>2, QuietInv
<1>2. CASE LockMoves
  <2>1. UNCHANGED <<row, todo, seen, at, phase, fires, clock>>
    BY <1>2 DEF LockMoves, jobVars, tables, ticking, outcomes
  <2>2. SchedTypes'
    BY <2>1 DEF SchedTypes
  <2> QED
    BY <2>1, <2>2, QuietInv
<1>3. CASE Advance
  <2>1. UNCHANGED <<row, todo, seen, at, phase, fires>>
    BY <1>3 DEF Advance, tables, ticking, outcomes
  <2>2. clock' \in 1..Horizon
    BY <1>3, ScheduleAssumption DEF Advance, SchedTypes
  <2>3. SchedTypes'
    BY <2>1, <2>2 DEF SchedTypes
  <2> QED
    BY <2>1, <2>3, QuietInv
<1>4. ASSUME NEW n \in Nodes, Crash(n) PROVE FireInv'
  <2>1. UNCHANGED <<row, fires, clock>> /\ Sleep(n)
    BY <1>4 DEF Crash, tables
  <2>2. SchedTypes'
    BY <2>1, SleepTypes DEF SchedTypes
  <2> QED
    BY <2>1, <2>2, SleepTypes, QuietInv
<1>5. ASSUME NEW s \in Schedules,
             \/ Create(s) \/ delete(s) \/ DropSpec(s)
             \/ \E enabled \in BOOLEAN : set_enabled(s, enabled)
      PROVE  FireInv'
  <2>1. UNCHANGED <<todo, seen, at, phase, fires, clock>>
    BY <1>5 DEF Create, delete, DropSpec, set_enabled, ticking, outcomes
  <2>2. /\ row' \in [Schedules -> Rows]
        /\ \A x \in Schedules : row[x].state # "unborn" =>
             /\ row'[x].state # "unborn"
             /\ row'[x].created = row[x].created /\ row'[x].last = row[x].last
    <3>1. CASE Create(s)
      <4>1. Now \subseteq Times /\ 0 \in Times
        BY ScheduleAssumption DEF Now, Times, SchedTypes
      <4> QED
        BY <3>1, <4>1 DEF Create, SchedTypes, Rows
    <3>2. CASE delete(s)
      BY <3>2 DEF delete, SchedTypes, Rows
    <3>3. CASE DropSpec(s)
      BY <3>3 DEF DropSpec, SchedTypes
    <3>4. ASSUME NEW enabled \in BOOLEAN, set_enabled(s, enabled)
          PROVE  row' \in [Schedules -> Rows] /\ \A x \in Schedules :
                     /\ row'[x].state = row[x].state
                     /\ row'[x].created = row[x].created /\ row'[x].last = row[x].last
      BY <3>4 DEF set_enabled, SchedTypes, Rows
    <3> QED
      BY <1>5, <3>1, <3>2, <3>3, <3>4
  <2>3. SchedTypes'
    BY <2>1, <2>2 DEF SchedTypes
  <2> QED
    BY <2>1, <2>2, <2>3, QuietInv
<1> QED
  BY <1>1, <1>2, <1>3, <1>4, <1>5 DEF Admin

-----------------------------------------------------------------------------
(* The claim argument holds in every reachable state.                      *)
LEMMA FireInvariance == Spec => []FireInv
<1>1. Init => FireInv
  BY ScheduleAssumption
  DEF Init, FireInv, SchedTypes, Rows, Times, Fires, ListedExist, WindowsOpen,
      MarkerCovers, NoDoubleFire
<1>2. FireInv /\ UNCHANGED vars => FireInv'
  BY DEF FireInv, SchedTypes, ListedExist, WindowsOpen, MarkerCovers, NoDoubleFire,
         Anchor, vars, jobVars, tables, ticking, outcomes
<1>3. FireInv /\ [Next]_vars => FireInv'
  BY <1>2, TickStepInv, OthersInv DEF Next
<1> QED
  BY <1>1, <1>3, PTL DEF Spec

(* An occurrence never fires twice: whatever processes believe they lead,  *)
(* however old their listings and however far apart their clocks.          *)
THEOREM FiresAtMostOnce == Spec => []NoDoubleFire
<1>1. FireInv => NoDoubleFire
  BY DEF FireInv
<1> QED
  BY <1>1, FireInvariance, PTL

(* A step of the scheduler is one of the election, or a stutter of it.     *)
LEMMA StepsOfLock == [Next]_vars => [LockNext]_lockVars
<1>2. Next => LockNext \/ UNCHANGED lockVars
  <2>1. ASSUME NEW n \in Nodes, TickStep(n) PROVE LockNext \/ UNCHANGED lockVars
    <3>1. CASE Tick(n) \/ TickSkipped(n) \/ ListFails(n) \/ TickDone(n)
      <4>1. SaysYes(n, jobsLoop) \/ SaysNo(n, jobsLoop) \/ TickEnds(n, jobsLoop)
        BY <3>1 DEF Tick, TickSkipped, ListFails, TickDone
      <4> QED
        BY <4>1, LoopAssumption DEF LockNext
    <3>2. CASE ~(Tick(n) \/ TickSkipped(n) \/ ListFails(n) \/ TickDone(n))
      BY <2>1, <3>2
      DEF TickStep, list_all, ReadClock, mark_fired, ClaimFails, SpecMissing, BadRequest, TickTells,
          Launch
    <3> QED
      BY <3>1, <3>2
  <2>2. ASSUME NEW n \in Nodes, Crash(n) PROVE LockNext
    BY <2>2 DEF Crash, LockNext
  <2>3. JobStep \/ Admin \/ Advance => UNCHANGED lockVars
    BY DEF JobStep, JobEnds, JobTells, Admin, Create, delete, DropSpec, set_enabled, Advance
  <2>4. LockMoves => LockNext
    BY DEF LockMoves, LockNext
  <2> QED
    BY <2>1, <2>2, <2>3, <2>4 DEF Next
<1> QED
  BY <1>2 DEF vars

(* Through the lock's variables the scheduler is one of the loops that     *)
(* LeaderLock describes: its theorems hold here.                           *)
THEOREM SchedulerUsesLeaderLock == Spec => UsesLeaderLock
<1>1. Init => LockInit
  BY DEF Init
<1> QED
  BY <1>1, StepsOfLock, PTL DEF Spec, UsesLeaderLock, LockSpec

(* What the election promises holds of the scheduler's loops: a pass over  *)
(* the schedules begins only at the owner of the lock, and two live        *)
(* processes never both lead.                                              *)
THEOREM SchedulerIsLed == Spec => YesOnlyToOwner /\ []OneLeader
<1> QED
  BY SchedulerUsesLeaderLock, YesOnlyToTheOwner, OneLiveLeader, PTL DEF UsesLeaderLock

-----------------------------------------------------------------------------
(* Alerts: a failed run's row is written one step before its alert.        *)


AlertInv == LockInv /\ TypeOK /\ FailureAlerts

LEMMA SleepKeepsTypes ==
  ASSUME TypeOK, NEW n \in Nodes, Sleep(n)
  PROVE  /\ phase' = [phase EXCEPT ![n] = "idle"] /\ won' = [won EXCEPT ![n] = {}]
         /\ at' \in [Nodes -> Times] /\ \A m \in Nodes : m # n => at'[m] = at[m]
         /\ phase' \in [Nodes -> {"idle", "list", "now", "each", "launch", "tell"}]
         /\ todo' \in [Nodes -> SUBSET Schedules] /\ seen' \in [Nodes -> [Schedules -> Times]]
         /\ won' \in [Nodes -> SUBSET Schedules]
BY ScheduleAssumption DEF TypeOK, Sleep, Goto, Times

(* A claimed row is still one, and a claim is one.                         *)
LEMMA MarkedTypes ==
  ASSUME TypeOK, NEW n \in Nodes, NEW s \in Schedules, Marked(n, s)
  PROVE  row' \in [Schedules -> Rows] /\ fires' \in SUBSET Fires
<1>1. row[s] \in Rows /\ at[n] \in Times /\ seen[n][s] \in Times
  BY DEF TypeOK
<1>2. Anchor(s, seen[n][s]) \in Times
  BY <1>1 DEF Anchor, Rows
<1>3. row \in [Schedules -> Rows] /\ fires \in SUBSET Fires
  BY DEF TypeOK
<1>4. [row[s] EXCEPT !.last = at[n]] \in Rows
  BY <1>1 DEF Rows
<1>5. row' = [row EXCEPT ![s] = [row[s] EXCEPT !.last = at[n]]]
  BY <1>3 DEF Marked, Rows
<1>6. [sched |-> s, node |-> n, from |-> Anchor(s, seen[n][s]), at |-> at[n]] \in Fires
  BY <1>1, <1>2 DEF Fires
<1> QED
  BY <1>3, <1>4, <1>5, <1>6 DEF Marked

LEMMA RecordedTypes ==
  ASSUME TypeOK, NEW s \in Schedules, NEW t \in Times, NEW status \in Statuses, NEW failed \in 0..1,
         record_run(s, t, status, failed)
  PROVE  /\ runs' \in SUBSET Runs /\ errors' \in 0..MaxErrors
         /\ \A r \in runs' \ runs : r.sched = s /\ r.at = t
BY ScheduleAssumption DEF TypeOK, record_run, Runs

(* What a step of a pass leaves of the types, and of the alerts to come.   *)
LEMMA PassKeeps ==
  ASSUME LockTypeOK', TypeOK, FailureAlerts, NEW n \in Nodes, TickStep(n)
  PROVE  TypeOK' /\ FailureAlerts'
<1>0. /\ 0 \in Times /\ Horizon \in Nat /\ MaxErrors \in Nat
  BY ScheduleAssumption DEF Times
<1>a. /\ todo \in [Nodes -> SUBSET Schedules] /\ seen \in [Nodes -> [Schedules -> Times]]
      /\ won \in [Nodes -> SUBSET Schedules]
      /\ phase \in [Nodes -> {"idle", "list", "now", "each", "launch", "tell"}]
  BY DEF TypeOK
<1>b. \A m \in Nodes : /\ (phase[m] = "idle") <=> (<<m, jobsLoop>> \notin acting)
                       /\ (phase[m] \in {"launch", "tell"}) <=> (won[m] # {})
  BY DEF TypeOK
<1>z. /\ todo \in [Nodes -> SUBSET Schedules] /\ seen \in [Nodes -> [Schedules -> Times]]
      /\ won \in [Nodes -> SUBSET Schedules]
      /\ phase \in [Nodes -> {"idle", "list", "now", "each", "launch", "tell"}]
      /\ \A m \in Nodes : /\ (phase[m] = "idle") <=> (<<m, jobsLoop>> \notin acting)
                          /\ (phase[m] \in {"launch", "tell"}) <=> (won[m] # {})
  BY <1>a, <1>b
<1>1. CASE Tick(n)
  <2>1. phase[n] = "idle" /\ acting' = acting \cup {<<n, jobsLoop>>}
    BY <1>1, <1>z, LoopAssumption DEF Tick, SaysYes
  <2>2. /\ phase' = [phase EXCEPT ![n] = "list"]
        /\ UNCHANGED <<clock, row, catalog, todo, seen, at, won, jobs, telling, fires, runs,
                       alerts, untold, errors>>
    BY <1>1 DEF Tick, Goto, tables, outcomes
  <2>3. \A m \in Nodes : /\ (phase'[m] = "idle") <=> (<<m, jobsLoop>> \notin acting')
                         /\ (phase'[m] \in {"launch", "tell"}) <=> (won[m] # {})
    <3> SUFFICES ASSUME NEW m \in Nodes
                 PROVE  /\ (phase'[m] = "idle") <=> (<<m, jobsLoop>> \notin acting')
                        /\ (phase'[m] \in {"launch", "tell"}) <=> (won[m] # {})
      OBVIOUS
    <3>1. CASE m = n
      BY <1>z, <2>1, <2>2, <3>1
    <3>2. CASE m # n
      <4>1. <<m, jobsLoop>> # <<n, jobsLoop>> /\ phase'[m] = phase[m]
        BY <1>z, <2>2, <3>2
      <4> QED
        BY <1>z, <2>1, <2>2, <4>1
    <3> QED
      BY <3>1, <3>2
  <2>4. TypeOK'
    BY <2>2, <2>3 DEF TypeOK
  <2>5. \A m \in Nodes : Unsent(m)' = Unsent(m)
    BY <2>1, <2>2 DEF TypeOK, Unsent
  <2> QED
    BY <2>2, <2>4, <2>5 DEF FailureAlerts
<1>2. CASE TickSkipped(n)
  <2>1. acting' = acting
    BY <1>2 DEF TickSkipped, SaysNo
  <2> QED
    BY <1>2, <2>1 DEF TypeOK, FailureAlerts, Unsent, TickSkipped, jobVars, tables, ticking, outcomes
<1>3. CASE list_all(n)
  <2>1. /\ seen' = [seen EXCEPT ![n] = [s \in Schedules |-> IF s \in todo'[n] THEN row[s].last ELSE 0]]
        /\ todo' = [todo EXCEPT ![n] = {s \in Schedules : row[s].state = "live" /\ row[s].enabled}]
        /\ phase[n] = "list" /\ phase' = [phase EXCEPT ![n] = "now"]
        /\ UNCHANGED <<row, catalog, at, won, jobs, telling, fires, runs, alerts, untold, errors, clock, acting>>
    BY <1>3 DEF list_all, Goto, tables, outcomes, lockVars
  <2>2. \A s \in Schedules : row[s].last \in Times
    BY DEF TypeOK, Rows
  <2>3. seen' \in [Nodes -> [Schedules -> Times]]
    BY <1>0, <2>1, <2>2 DEF TypeOK
  <2>4. TypeOK'
    BY <2>1, <2>3 DEF TypeOK
  <2>5. \A m \in Nodes : Unsent(m)' = Unsent(m)
    BY <2>1 DEF TypeOK, Unsent
  <2> QED
    BY <2>1, <2>4, <2>5 DEF FailureAlerts
<1>4. CASE ListFails(n) \/ TickDone(n)
  <2>1. /\ phase[n] \in {"list", "each"} /\ Sleep(n) /\ errors' \in 0..MaxErrors
        /\ acting' = acting \ {<<n, jobsLoop>>}
        /\ UNCHANGED <<row, catalog, jobs, telling, fires, runs, alerts, untold, clock>>
    BY <1>0, <1>4 DEF ListFails, TickDone, TickEnds, Failure, tables, outcomes, TypeOK
  <2>2. TypeOK'
    BY <2>1, SleepKeepsTypes DEF TypeOK
  <2>4. \A m \in Nodes : /\ (phase'[m] = "tell") <=> (phase[m] = "tell")
                         /\ phase'[m] = "tell" => at'[m] = at[m] /\ won'[m] = won[m]
    <3>1. won' = [won EXCEPT ![n] = {}] /\ phase' = [phase EXCEPT ![n] = "idle"]
          /\ \A m \in Nodes : m # n => at'[m] = at[m]
      BY <2>1, SleepKeepsTypes
    <3> QED
      BY <1>z, <2>1, <3>1
  <2>5. telling' = telling
    BY <2>1
  <2>3. \A m \in Nodes : Unsent(m)' = Unsent(m)
    BY <2>4, <2>5 DEF Unsent
  <2> QED
    BY <2>1, <2>2, <2>3 DEF FailureAlerts
<1>5. CASE ReadClock(n)
  <2>1. PICK now \in Now :
          /\ at' = [at EXCEPT ![n] = now]
          /\ todo' = [todo EXCEPT ![n] = {s \in @ : is_due(s, seen[n][s], now)}]
    BY <1>5 DEF ReadClock
  <2>2. now \in Times
    BY ScheduleAssumption DEF TypeOK, Now, Times
  <2>3. /\ seen' = [seen EXCEPT ![n] = [s \in Schedules |-> IF s \in todo'[n] THEN seen[n][s] ELSE 0]]
        /\ phase[n] = "now" /\ phase' = [phase EXCEPT ![n] = "each"]
        /\ UNCHANGED <<row, catalog, won, jobs, telling, fires, runs, alerts, untold, errors, clock, acting>>
    BY <1>5 DEF ReadClock, Goto, tables, outcomes, lockVars, TypeOK
  <2>4. seen' \in [Nodes -> [Schedules -> Times]]
    BY <1>0, <2>3 DEF TypeOK
  <2>5. TypeOK'
    BY <2>1, <2>2, <2>3, <2>4 DEF TypeOK
  <2>6. \A m \in Nodes : Unsent(m)' = Unsent(m)
    BY <2>1, <2>3 DEF TypeOK, Unsent
  <2> QED
    BY <2>3, <2>5, <2>6 DEF FailureAlerts
<1>6. ASSUME NEW s \in Schedules, mark_fired(n, s) \/ ClaimFails(n, s)
      PROVE  TypeOK' /\ FailureAlerts'
  <2>1. /\ phase[n] = "each"
        /\ todo' = [todo EXCEPT ![n] = @ \ {s}] /\ seen' = [seen EXCEPT ![n][s] = 0]
        /\ \/ phase' = phase /\ won' = won
           \/ phase' = [phase EXCEPT ![n] = "launch"] /\ won' = [won EXCEPT ![n] = {s}]
        /\ Marked(n, s) \/ UNCHANGED <<row, fires>>
        /\ errors' \in 0..MaxErrors
        /\ UNCHANGED <<catalog, at, jobs, telling, runs, alerts, untold, clock, acting>>
    BY <1>0, <1>6 DEF mark_fired, ClaimFails, Goto, lockVars, Failure, TypeOK
  <2>2. row' \in [Schedules -> Rows] /\ fires' \in SUBSET Fires
    BY <2>1, MarkedTypes DEF TypeOK
  <2>5. /\ todo' \in [Nodes -> SUBSET Schedules] /\ seen' \in [Nodes -> [Schedules -> Times]]
        /\ won' \in [Nodes -> SUBSET Schedules]
        /\ phase' \in [Nodes -> {"idle", "list", "now", "each", "launch", "tell"}]
    <3>1. todo' \in [Nodes -> SUBSET Schedules]
      BY <1>a, <2>1
    <3>2. [seen[n] EXCEPT ![s] = 0] \in [Schedules -> Times]
      BY <1>0, <1>a
    <3>3. seen' \in [Nodes -> [Schedules -> Times]]
      BY <1>a, <2>1, <3>2
    <3>4. {s} \in SUBSET Schedules /\ "launch" \in {"idle", "list", "now", "each", "launch", "tell"}
      OBVIOUS
    <3>5. won' \in [Nodes -> SUBSET Schedules]
          /\ phase' \in [Nodes -> {"idle", "list", "now", "each", "launch", "tell"}]
      BY <1>a, <2>1, <3>4
    <3> QED
      BY <3>1, <3>3, <3>5
  <2>6. \A m \in Nodes : /\ (phase'[m] = "idle") <=> (<<m, jobsLoop>> \notin acting)
                         /\ (phase'[m] \in {"launch", "tell"}) <=> (won'[m] # {})
    <3> SUFFICES ASSUME NEW m \in Nodes
                 PROVE  /\ (phase'[m] = "idle") <=> (<<m, jobsLoop>> \notin acting)
                        /\ (phase'[m] \in {"launch", "tell"}) <=> (won'[m] # {})
      OBVIOUS
    <3>1. CASE phase' = phase /\ won' = won
      BY <1>z, <3>1
    <3>2. CASE phase' = [phase EXCEPT ![n] = "launch"] /\ won' = [won EXCEPT ![n] = {s}]
      BY <1>z, <2>1, <3>2
    <3> QED
      BY <2>1, <3>1, <3>2
  <2>3. TypeOK'
    BY <2>1, <2>2, <2>5, <2>6 DEF TypeOK
  <2>4. \A m \in Nodes : Unsent(m)' = Unsent(m)
    BY <2>1 DEF TypeOK, Unsent
  <2> QED
    BY <2>1, <2>3, <2>4 DEF FailureAlerts
<1>7. CASE SpecMissing(n)
  <2>1. PICK s \in won[n], failed \in 0..1 :
          record_run(s, at[n], "failed", failed) /\ untold' = untold \cup {<<s, at[n]>>}
    BY <1>7 DEF SpecMissing
  <2>2. s \in Schedules /\ at[n] \in Times
    BY DEF TypeOK
  <2>3. /\ runs' \in SUBSET Runs /\ errors' \in 0..MaxErrors
        /\ \A r \in runs' \ runs : r.sched = s /\ r.at = at[n]
    BY <2>1, <2>2, RecordedTypes DEF Statuses
  <2>4. /\ phase[n] = "launch" /\ phase' = [phase EXCEPT ![n] = "each"] /\ won' = [won EXCEPT ![n] = {}]
        /\ UNCHANGED <<row, catalog, todo, seen, at, jobs, telling, fires, alerts, clock, acting>>
    BY <1>7 DEF SpecMissing, Started, Goto, tables, lockVars
  <2>5. TypeOK'
    BY <2>1, <2>2, <2>3, <2>4 DEF TypeOK
  <2>6. \A m \in Nodes : Unsent(m)' = Unsent(m)
    BY <2>4 DEF TypeOK, Unsent
  <2> QED
    BY <2>1, <2>3, <2>4, <2>5, <2>6 DEF FailureAlerts
<1>8. CASE BadRequest(n)
  <2>1. PICK s \in won[n] : record_run(s, at[n], "failed", 0)
    BY <1>8 DEF BadRequest
  <2>2. s \in Schedules /\ at[n] \in Times
    BY DEF TypeOK
  <2>3. /\ runs' \in SUBSET Runs /\ errors' \in 0..MaxErrors
        /\ \A r \in runs' \ runs : r.sched = s /\ r.at = at[n]
    BY <2>1, <2>2, RecordedTypes DEF Statuses
  <2>4. /\ phase[n] = "launch" /\ phase' = [phase EXCEPT ![n] = "tell"]
        /\ UNCHANGED <<row, catalog, todo, seen, at, won, jobs, telling, fires, alerts, untold, clock, acting>>
    BY <1>8 DEF BadRequest, Goto, tables, lockVars
  <2>5. TypeOK'
    BY <2>2, <2>3, <2>4 DEF TypeOK
  <2>6. <<s, at[n]>> \in Unsent(n)' /\ \A m \in Nodes : Unsent(m) \subseteq Unsent(m)'
    BY <2>4 DEF TypeOK, Unsent
  <2> QED
    BY <2>3, <2>4, <2>5, <2>6 DEF FailureAlerts
<1>9. CASE TickTells(n)
  <2>1. /\ alerts' = alerts \cup {<<s, at[n]>> : s \in won[n]}
        /\ phase[n] = "tell" /\ phase' = [phase EXCEPT ![n] = "each"] /\ won' = [won EXCEPT ![n] = {}]
        /\ UNCHANGED <<row, catalog, todo, seen, at, jobs, telling, fires, runs, untold, errors, clock, acting>>
    BY <1>9 DEF TickTells, Started, Goto, tables, lockVars
  <2>2. TypeOK'
    BY <2>1 DEF TypeOK
  <2>3. \A m \in Nodes : Unsent(m) \subseteq Unsent(m)' \cup alerts'
    BY <2>1 DEF TypeOK, Unsent
  <2> QED
    BY <2>1, <2>2, <2>3 DEF FailureAlerts
<1>10. CASE Launch(n)
  <2>1. PICK s \in won[n] : jobs' = jobs \cup {[sched |-> s, node |-> n, at |-> at[n]]}
    BY <1>10 DEF Launch
  <2>2. /\ phase[n] = "launch" /\ phase' = [phase EXCEPT ![n] = "each"] /\ won' = [won EXCEPT ![n] = {}]
        /\ UNCHANGED <<row, catalog, todo, seen, at, telling, fires, runs, alerts, untold, errors, clock, acting>>
    BY <1>10 DEF Launch, Started, Goto, tables, lockVars
  <2>3. TypeOK'
    BY <2>1, <2>2 DEF TypeOK, Jobs
  <2>4. \A m \in Nodes : Unsent(m)' = Unsent(m)
    BY <2>2 DEF TypeOK, Unsent
  <2> QED
    BY <2>2, <2>3, <2>4 DEF FailureAlerts
<1> QED
  BY <1>1, <1>2, <1>3, <1>4, <1>5, <1>6, <1>7, <1>8, <1>9, <1>10 DEF TickStep

LEMMA CrashKeeps ==
  ASSUME LockTypeOK', TypeOK, FailureAlerts, NEW n \in Nodes, Crash(n)
  PROVE  TypeOK' /\ FailureAlerts'
<1>1. /\ Sleep(n) /\ acting' = acting \ ({n} \X Loops)
      /\ jobs' = {j \in jobs : j.node # n} /\ telling' = {j \in telling : j.node # n}
      /\ untold' = untold \cup Unsent(n)
      /\ UNCHANGED <<row, catalog, fires, runs, alerts, errors, clock>>
  BY DEF Crash, LockCrash, tables
<1>2. Unsent(n) \subseteq Schedules \X Times
  BY DEF TypeOK, Unsent, Jobs
<1>3. TypeOK'
  BY <1>1, <1>2, SleepKeepsTypes, LoopAssumption DEF TypeOK
<1>4. ASSUME NEW m \in Nodes, m # n PROVE Unsent(m)' = Unsent(m)
  BY <1>1, <1>4, SleepKeepsTypes DEF TypeOK, Unsent
<1> QED
  BY <1>1, <1>3, <1>4 DEF FailureAlerts

LEMMA OthersKeep ==
  ASSUME LockTypeOK', TypeOK, FailureAlerts, JobStep \/ Admin \/ LockMoves \/ Advance
  PROVE  TypeOK' /\ FailureAlerts'
<1>0. /\ Horizon \in Nat /\ Now \subseteq Times /\ 0 \in Times
  BY ScheduleAssumption DEF Times, Now, TypeOK
<1>1. ASSUME NEW j \in jobs, NEW status \in Statuses, JobEnds(j, status) PROVE TypeOK' /\ FailureAlerts'
  <2>1. j.sched \in Schedules /\ j.at \in Times /\ j.node \in Nodes /\ j \in Jobs
    BY DEF TypeOK, Jobs
  <2>2. /\ jobs' = jobs \ {j} /\ record_run(j.sched, j.at, status, 0)
        /\ telling' = IF status = "ok" THEN telling ELSE telling \cup {j}
        /\ UNCHANGED <<row, catalog, phase, todo, seen, at, won, fires, alerts, untold, clock, acting>>
    BY <1>1 DEF JobEnds, tables, ticking, lockVars
  <2>3. /\ runs' \in SUBSET Runs /\ errors' \in 0..MaxErrors
        /\ \A r \in runs' \ runs : r.sched = j.sched /\ r.at = j.at
    BY <2>1, <2>2, RecordedTypes
  <2>4. \A r \in runs' \ runs : r.status = status
    BY <2>2 DEF record_run
  <2>5. TypeOK'
    BY <2>1, <2>2, <2>3 DEF TypeOK
  <2>6. \A m \in Nodes : Unsent(m) \subseteq Unsent(m)'
    BY <2>2 DEF Unsent
  <2>7. status # "ok" => <<j.sched, j.at>> \in Unsent(j.node)'
    BY <2>2 DEF Unsent
  <2> QED
    BY <2>1, <2>2, <2>3, <2>4, <2>5, <2>6, <2>7 DEF FailureAlerts
<1>2. ASSUME NEW j \in telling, JobTells(j) PROVE TypeOK' /\ FailureAlerts'
  <2>1. j.sched \in Schedules /\ j.at \in Times
    BY DEF TypeOK, Jobs
  <2>2. /\ telling' = telling \ {j} /\ alerts' = alerts \cup {<<j.sched, j.at>>}
        /\ UNCHANGED <<row, catalog, phase, todo, seen, at, won, jobs, fires, runs, untold, errors, clock, acting>>
    BY <1>2 DEF JobTells, tables, ticking, lockVars
  <2>3. TypeOK'
    BY <2>1, <2>2 DEF TypeOK
  <2>4. \A m \in Nodes : Unsent(m) \subseteq Unsent(m)' \cup alerts'
    BY <2>2 DEF Unsent
  <2> QED
    BY <2>2, <2>3, <2>4 DEF FailureAlerts
<1>3. ASSUME NEW s \in Schedules,
             \/ Create(s) \/ delete(s) \/ DropSpec(s)
             \/ \E enabled \in BOOLEAN : set_enabled(s, enabled)
      PROVE  TypeOK' /\ FailureAlerts'
  <2>1. /\ UNCHANGED <<phase, todo, seen, at, won, jobs, telling, fires, alerts, untold, errors, clock, acting>>
        /\ runs' \subseteq runs /\ catalog' \subseteq catalog
    BY <1>3 DEF Create, delete, DropSpec, set_enabled, ticking, outcomes, lockVars
  <2>2. row' \in [Schedules -> Rows]
    <3>1. CASE Create(s)
      BY <1>0, <3>1 DEF Create, TypeOK, Rows
    <3>2. CASE delete(s)
      BY <3>2 DEF delete, TypeOK, Rows
    <3>3. CASE DropSpec(s)
      BY <3>3 DEF DropSpec, TypeOK
    <3>4. ASSUME NEW enabled \in BOOLEAN, set_enabled(s, enabled) PROVE row' \in [Schedules -> Rows]
      BY <3>4 DEF set_enabled, TypeOK, Rows
    <3> QED
      BY <1>3, <3>1, <3>2, <3>3, <3>4
  <2>3. TypeOK'
    BY <2>1, <2>2 DEF TypeOK
  <2>4. \A m \in Nodes : Unsent(m)' = Unsent(m)
    BY <2>1 DEF Unsent
  <2> QED
    BY <2>1, <2>3, <2>4 DEF FailureAlerts
<1>4. CASE LockMoves
  <2>1. acting' = acting /\ UNCHANGED jobVars
    BY <1>4 DEF LockMoves, Sever, Release
  <2> QED
    BY <2>1 DEF TypeOK, FailureAlerts, Unsent, jobVars, tables, ticking, outcomes
<1>5. CASE Advance
  <2>1. clock' \in 1..Horizon /\ UNCHANGED <<lockVars, tables, ticking, outcomes>>
    BY <1>0, <1>5 DEF Advance, TypeOK
  <2> QED
    BY <2>1 DEF TypeOK, FailureAlerts, Unsent, lockVars, tables, ticking, outcomes
<1> QED
  BY <1>1, <1>2, <1>3, <1>4, <1>5 DEF JobStep, Admin

(* The types hold, and a failure on record was alerted or its alert is on  *)
(* its way, unless its reporter died before sending it or had none to send.*)
THEOREM FailuresAlerted == Spec => [](TypeOK /\ FailureAlerts)
<1>1. Init => AlertInv
  <2>1. LockInit => LockInv
    BY LeaderAssumption
    DEF LockInit, LockInv, LockTypeOK, Truthful, NoFlagWithoutConnection
  <2>2. ASSUME Init PROVE TypeOK
    <3>1. 0 \in Times /\ 1 \in 1..Horizon /\ 0 \in 0..MaxErrors
      BY ScheduleAssumption DEF Times
    <3>2. row \in [Schedules -> Rows] /\ seen \in [Nodes -> [Schedules -> Times]]
      BY <2>2, <3>1 DEF Init, Rows
    <3>3. \A n \in Nodes : phase[n] = "idle" /\ <<n, jobsLoop>> \notin acting /\ won[n] = {}
      BY <2>2 DEF Init, LockInit
    <3> QED
      BY <2>1, <2>2, <3>1, <3>2, <3>3 DEF Init, TypeOK, LockInv
  <2> QED
    BY <2>1, <2>2 DEF AlertInv, Init, FailureAlerts
<1>2. ASSUME AlertInv, [Next]_vars PROVE AlertInv'
  <2>1. LockInv'
    <3>1. LockInv /\ UNCHANGED lockVars => LockInv'
      BY DEF LockInv, LockTypeOK, Truthful, NoFlagWithoutConnection, lockVars
    <3> QED
      BY <1>2, <3>1, StepsOfLock, NextLockInv DEF AlertInv
  <2>2. LockTypeOK'
    BY <2>1 DEF LockInv
  <2>3. CASE UNCHANGED vars
    BY <1>2, <2>1, <2>2, <2>3 DEF AlertInv, TypeOK, FailureAlerts, Unsent, vars, lockVars, jobVars, tables,
       ticking, outcomes
  <2> QED
    BY <1>2, <2>1, <2>2, <2>3, PassKeeps, CrashKeeps, OthersKeep DEF AlertInv, Next
<1>3. AlertInv => TypeOK /\ FailureAlerts
  BY DEF AlertInv
<1> QED
  BY <1>1, <1>2, <1>3, PTL DEF Spec
=============================================================================
