---------------------------- MODULE JobScheduler ----------------------------
(***************************************************************************)
(* Scheduled jobs: one loop per process, gated by the leader election of   *)
(* LeaderLock, that lists the schedules, claims each due one with a        *)
(* compare-and-set on its fire marker and runs it on a detached task. The  *)
(* check of leadership is over before the list, the list before the claim  *)
(* and the claim before the run: other processes, the admin and crashes    *)
(* come in between.                                                        *)
(***************************************************************************)
EXTENDS LeaderLock

CONSTANTS
    Schedules,   \* ids the table hands out, each once
    Horizon,     \* bound on the clock
    Skew,        \* how far the clocks of two processes may lie apart
    Period,      \* an occurrence of every cron each Period instants
    InFile,      \* schedules whose spec the YAML file has
    MaxErrors    \* bound on failed statements

ASSUME ScheduleAssumption ==
    /\ IsFiniteSet(Schedules) /\ InFile \subseteq Schedules
    /\ Horizon \in Nat \ {0} /\ Skew \in Nat /\ Period \in Nat \ {0}
    /\ MaxErrors \in Nat

jobsLoop == "jobs"

ASSUME LoopAssumption == jobsLoop \in Loops

VARIABLES
    clock,
    row,       \* schedules: [state, enabled, created, last], last = 0 is NULL
    catalog,   \* schedules whose spec the effective catalog still has
    phase,     \* where tick() of a process stands
    todo,      \* the listed schedules it has still to look at
    seen,      \* their last_run_at as listed
    at,        \* its `now`
    won,       \* the schedule it has claimed and not yet started
    jobs,      \* detached tasks inside run_job
    telling,   \* ... between the row of a failed run and its alert
    fires,     \* every claim that was written, with the window it covers
    runs,      \* schedule_runs
    alerts,    \* job-failed alerts handed to the sink
    untold,    \* history: failures whose reporter has no alert to send, or
               \* whose process died before it
    errors     \* statements that failed

tables    == <<row, catalog>>
ticking   == <<phase, todo, seen, at, won>>
outcomes  == <<jobs, telling, fires, runs, alerts, untold, errors>>
jobVars   == <<clock, tables, ticking, outcomes>>
vars      == <<lockVars, jobVars>>

Times     == 0..Horizon + Skew
Statuses  == {"ok", "failed"}      \* Failed and Error are alerted alike
Rows      == [state : {"unborn", "live", "deleted"}, enabled : BOOLEAN,
              created : Times, last : Times]
Jobs      == [sched : Schedules, node : Nodes, at : Times]
Fires     == [sched : Schedules, node : Nodes, from : Times, at : Times]
Runs      == [sched : Schedules, at : Times, status : Statuses]

TypeOK ==
    /\ LockTypeOK
    /\ clock \in 1..Horizon
    /\ row \in [Schedules -> Rows]
    /\ catalog \in SUBSET Schedules
    /\ phase \in [Nodes -> {"idle", "list", "now", "each", "launch", "tell"}]
    /\ todo \in [Nodes -> SUBSET Schedules]
    /\ seen \in [Nodes -> [Schedules -> Times]]
    /\ at \in [Nodes -> Times]
    /\ won \in [Nodes -> SUBSET Schedules]
    /\ jobs \in SUBSET Jobs /\ telling \in SUBSET Jobs /\ fires \in SUBSET Fires
    /\ runs \in SUBSET Runs /\ {alerts, untold} \subseteq SUBSET (Schedules \X Times)
    /\ errors \in 0..MaxErrors
    /\ \A n \in Nodes : /\ (phase[n] = "idle") <=> (<<n, jobsLoop>> \notin acting)
                        /\ (phase[n] \in {"launch", "tell"}) <=> (won[n] # {})

Init ==
    /\ LockInit
    /\ clock = 1
    /\ row = [s \in Schedules |->
                [state |-> "unborn", enabled |-> FALSE, created |-> 0, last |-> 0]]
    /\ catalog = Schedules
    /\ phase = [n \in Nodes |-> "idle"]
    /\ todo = [n \in Nodes |-> {}]
    /\ seen = [n \in Nodes |-> [s \in Schedules |-> 0]]
    /\ at = [n \in Nodes |-> 0]
    /\ won = [n \in Nodes |-> {}]
    /\ jobs = {} /\ telling = {} /\ fires = {} /\ runs = {}
    /\ alerts = {} /\ untold = {} /\ errors = 0

(* Utc::now() of some process.                                             *)
Now == clock..clock + Skew

-----------------------------------------------------------------------------
(* Due schedules.                                                          *)

(* next_occurrence(after) <= now, cron being every multiple of Period.     *)
OccursIn(after, now) == \E k \in after + 1..now : k % Period = 0

Anchor(s, marker) == IF marker = 0 THEN row[s].created ELSE marker

is_due(s, marker, now) == OccursIn(Anchor(s, marker), now)

-----------------------------------------------------------------------------
(* tick(), split at its awaits.                                            *)

Failure == errors < MaxErrors /\ errors' = errors + 1

Goto(n, there) == phase' = [phase EXCEPT ![n] = there]

(* The pass is over: its locals go.                                        *)
Sleep(n) ==
    /\ Goto(n, "idle")
    /\ todo' = [todo EXCEPT ![n] = {}]
    /\ seen' = [seen EXCEPT ![n] = [s \in Schedules |-> 0]]
    /\ at' = [at EXCEPT ![n] = 0]
    /\ won' = [won EXCEPT ![n] = {}]

Tick(n) ==
    /\ SaysYes(n, jobsLoop)
    /\ Goto(n, "list")
    /\ UNCHANGED <<clock, tables, todo, seen, at, won, outcomes>>

TickSkipped(n) ==
    /\ SaysNo(n, jobsLoop)
    /\ UNCHANGED jobVars

list_all(n) ==
    /\ phase[n] = "list"
    /\ todo' = [todo EXCEPT ![n] = {s \in Schedules : row[s].state = "live" /\ row[s].enabled}]
    /\ seen' = [seen EXCEPT ![n] = [s \in Schedules |-> IF s \in todo'[n] THEN row[s].last ELSE 0]]
    /\ Goto(n, "now")
    /\ UNCHANGED <<lockVars, clock, tables, at, won, outcomes>>

(* Mutant: a process that cannot list stands down but keeps its session.   *)
ListFailsStandsDown(n) ==
    /\ phase[n] = "list" /\ Failure
    /\ acting' = acting \ {<<n, jobsLoop>>}
    /\ holds' = [holds EXCEPT ![n] = FALSE]
    /\ Sleep(n)
    /\ UNCHANGED <<session, owner, faults, clock, tables, jobs, telling, fires, runs, alerts, untold>>

ListFails(n) ==
    /\ phase[n] = "list" /\ Failure
    /\ TickEnds(n, jobsLoop)
    /\ Sleep(n)
    /\ UNCHANGED <<clock, tables, jobs, telling, fires, runs, alerts, untold>>

(* One `now` for the whole pass; what is not due is passed over.           *)
ReadClock(n) ==
    /\ phase[n] = "now"
    /\ \E now \in Now :
        /\ at' = [at EXCEPT ![n] = now]
        /\ todo' = [todo EXCEPT ![n] = {s \in @ : is_due(s, seen[n][s], now)}]
    /\ seen' = [seen EXCEPT ![n] = [s \in Schedules |-> IF s \in todo'[n] THEN @[s] ELSE 0]]
    /\ Goto(n, "each")
    /\ UNCHANGED <<lockVars, clock, tables, won, outcomes>>

(* Mutant: the marker is written whatever it was.                          *)
ClaimedBlindly(n, s) == row[s].state = "live"

(* Mutant: `last_run_at = ?`, which no NULL satisfies.                     *)
ClaimableUnlessNull(n, s) ==
    row[s].state = "live" /\ row[s].last = seen[n][s] /\ row[s].last # 0

(* WHERE id = ? AND last_run_at IS ?                                       *)
Claimable(n, s) == row[s].state = "live" /\ row[s].last = seen[n][s]

Marked(n, s) ==
    /\ row' = [row EXCEPT ![s].last = at[n]]
    /\ fires' = fires \cup
        {[sched |-> s, node |-> n, from |-> Anchor(s, seen[n][s]), at |-> at[n]]}

(* The claim: rows_affected = 1, or somebody else has it.                  *)
mark_fired(n, s) ==
    /\ phase[n] = "each" /\ s \in todo[n]
    /\ todo' = [todo EXCEPT ![n] = @ \ {s}]
    /\ seen' = [seen EXCEPT ![n][s] = 0]
    /\ \/ /\ Claimable(n, s) /\ Marked(n, s)
          /\ won' = [won EXCEPT ![n] = {s}]
          /\ Goto(n, "launch")
       \/ /\ ~Claimable(n, s)
          /\ UNCHANGED <<row, fires, won, phase>>
    /\ UNCHANGED <<lockVars, clock, catalog, at, jobs, telling, runs, alerts, untold, errors>>

(* The statement fails, before or after the server applied it.             *)
ClaimFails(n, s) ==
    /\ phase[n] = "each" /\ s \in todo[n] /\ Failure
    /\ todo' = [todo EXCEPT ![n] = @ \ {s}]
    /\ seen' = [seen EXCEPT ![n][s] = 0]
    /\ (Claimable(n, s) /\ Marked(n, s)) \/ UNCHANGED <<row, fires>>
    /\ UNCHANGED <<lockVars, clock, catalog, phase, at, won, jobs, telling, runs, alerts, untold>>

(* record_run, after some statements that failed already. The row of a     *)
(* deleted schedule has nothing to refer to; a statement that fails is     *)
(* logged and given up (if it was applied all the same, it did not fail).  *)
record_run(s, t, status, failed) ==
    \/ /\ errors + failed <= MaxErrors /\ errors' = errors + failed
       /\ runs' = IF row[s].state = "live"
                  THEN runs \cup {[sched |-> s, at |-> t, status |-> status]} ELSE runs
    \/ /\ errors + failed < MaxErrors /\ errors' = errors + failed + 1
       /\ UNCHANGED runs

Started(n) ==
    /\ won' = [won EXCEPT ![n] = {}]
    /\ Goto(n, "each")

(* effective_specs_cached has not got the spec, which left the catalog or, *)
(* the database having failed, is not in the file: a row, no alert.        *)
SpecMissing(n) ==
    /\ phase[n] = "launch"
    /\ \E s \in won[n] :
        /\ \/ s \notin catalog /\ record_run(s, at[n], "failed", 0)
           \/ s \notin InFile /\ record_run(s, at[n], "failed", 1)
        /\ untold' = untold \cup {<<s, at[n]>>}
    /\ Started(n)
    /\ UNCHANGED <<lockVars, clock, tables, todo, seen, at, jobs, telling, fires, alerts>>

(* job_request fails: no image, a secret or a variable that is not there.  *)
(* The row is written, then the alert.                                     *)
BadRequest(n) ==
    /\ phase[n] = "launch"
    /\ \E s \in won[n] \cap catalog : record_run(s, at[n], "failed", 0)
    /\ Goto(n, "tell")
    /\ UNCHANGED <<lockVars, clock, tables, todo, seen, at, won, jobs, telling, fires, alerts, untold>>

TickTells(n) ==
    /\ phase[n] = "tell"
    /\ alerts' = alerts \cup {<<s, at[n]>> : s \in won[n]}
    /\ Started(n)
    /\ UNCHANGED <<lockVars, clock, tables, todo, seen, at, jobs, telling, fires, runs, untold, errors>>

Launch(n) ==
    /\ phase[n] = "launch"
    /\ \E s \in won[n] \cap catalog :
        jobs' = jobs \cup {[sched |-> s, node |-> n, at |-> at[n]]}
    /\ Started(n)
    /\ UNCHANGED <<lockVars, clock, tables, todo, seen, at, telling, fires, runs, alerts, untold, errors>>

TickDone(n) ==
    /\ phase[n] = "each" /\ todo[n] = {}
    /\ TickEnds(n, jobsLoop)
    /\ Sleep(n)
    /\ UNCHANGED <<clock, tables, outcomes>>

(* run_job returns: exit code 0, or another or an error (its own timeout   *)
(* too). The row is written; what is not ok has its alert to come.         *)
JobEnds(j, status) ==
    /\ j \in jobs /\ jobs' = jobs \ {j}
    /\ record_run(j.sched, j.at, status, 0)
    /\ telling' = IF status = "ok" THEN telling ELSE telling \cup {j}
    /\ UNCHANGED <<lockVars, clock, tables, ticking, fires, alerts, untold>>

JobTells(j) ==
    /\ j \in telling /\ telling' = telling \ {j}
    /\ alerts' = alerts \cup {<<j.sched, j.at>>}
    /\ UNCHANGED <<lockVars, clock, tables, ticking, jobs, fires, runs, untold, errors>>

-----------------------------------------------------------------------------
(* The admin pages, the catalog, crashes and time.                         *)

Create(s) ==
    /\ row[s].state = "unborn" /\ s \in catalog
    /\ \E now \in Now :
        row' = [row EXCEPT ![s] = [state |-> "live", enabled |-> TRUE,
                                   created |-> now, last |-> 0]]
    /\ UNCHANGED <<lockVars, clock, catalog, ticking, outcomes>>

(* toggle: the opposite of a value read earlier, so either value.          *)
set_enabled(s, enabled) ==
    /\ row[s].state = "live"
    /\ row' = [row EXCEPT ![s].enabled = enabled]
    /\ UNCHANGED <<lockVars, clock, catalog, ticking, outcomes>>

(* The runs go with their schedule.                                        *)
delete(s) ==
    /\ row[s].state = "live"
    /\ row' = [row EXCEPT ![s].state = "deleted"]
    /\ runs' = {r \in runs : r.sched # s}
    /\ UNCHANGED <<lockVars, clock, catalog, ticking, jobs, telling, fires, alerts, untold, errors>>

(* What the file has stays in the effective catalog.                       *)
DropSpec(s) ==
    /\ s \in catalog \ InFile /\ catalog' = catalog \ {s}
    /\ UNCHANGED <<lockVars, clock, row, ticking, outcomes>>

(* The alerts that a process had still to send.                            *)
Unsent(n) ==
    {<<s, at[n]>> : s \in IF phase[n] = "tell" THEN won[n] ELSE {}}
    \cup {<<j.sched, j.at>> : j \in {k \in telling : k.node = n}}

Crash(n) ==
    /\ LockCrash(n)
    /\ Sleep(n)
    /\ jobs' = {j \in jobs : j.node # n} /\ telling' = {j \in telling : j.node # n}
    /\ untold' = untold \cup Unsent(n)
    /\ UNCHANGED <<clock, tables, fires, runs, alerts, errors>>

(* The lock's own environment.                                             *)
LockMoves ==
    /\ (\E n \in Nodes : Sever(n)) \/ Release
    /\ UNCHANGED jobVars

Advance ==
    /\ clock < Horizon /\ clock' = clock + 1
    /\ UNCHANGED <<lockVars, tables, ticking, outcomes>>

TickStep(n) ==
    \/ Tick(n) \/ TickSkipped(n) \/ list_all(n) \/ ListFails(n) \/ ReadClock(n)
    \/ \E s \in Schedules : mark_fired(n, s) \/ ClaimFails(n, s)
    \/ SpecMissing(n) \/ BadRequest(n) \/ TickTells(n) \/ Launch(n) \/ TickDone(n)

Admin ==
    \E s \in Schedules : \/ Create(s) \/ delete(s) \/ DropSpec(s)
                         \/ \E enabled \in BOOLEAN : set_enabled(s, enabled)

JobStep == \/ \E j \in jobs, status \in Statuses : JobEnds(j, status)
           \/ \E j \in telling : JobTells(j)

Next ==
    \/ \E n \in Nodes : TickStep(n) \/ Crash(n)
    \/ JobStep \/ Admin \/ LockMoves \/ Advance

Spec == Init /\ [][Next]_vars

(* The loop of every process keeps running, run_job is bounded by its own  *)
(* timeout, the server gives up dead sessions and time passes. Neither     *)
(* the admin nor a failure is owed.                                        *)
FairSpec ==
    /\ Spec
    /\ \A n \in Nodes : WF_vars(TickStep(n) /\ UNCHANGED <<faults, errors>>)
    /\ WF_vars(JobStep /\ UNCHANGED errors) /\ WF_vars(Release /\ UNCHANGED jobVars) /\ WF_vars(Advance)

-----------------------------------------------------------------------------
(* Properties.                                                             *)

(* No occurrence is claimed twice: the windows that the claims of one      *)
(* schedule cover are disjoint, although every process that ever led may   *)
(* hold an old listing and their clocks disagree.                          *)
NoDoubleFire ==
    \A f, g \in fires : f.sched = g.sched /\ f # g => f.at <= g.from \/ g.at <= f.from

(* The scheduler leaves leadership to the election: seen through the lock's *)
(* variables, it only asks, is told and ends its ticks.                    *)
UsesLeaderLock == LockSpec

(* A schedule that is due is claimed, or stops being claimable, whatever   *)
(* processes die on the way.                                               *)
Due(s) ==
    /\ row[s].state = "live" /\ row[s].enabled
    /\ is_due(s, row[s].last, clock)
DueIsClaimed == \A s \in Schedules : Due(s) ~> ~Due(s)

(* A claimed fire is never silent unless something failed: it ends in a    *)
(* row of schedule_runs, or its schedule was deleted.                      *)
Reported(f) ==
    \/ row[f.sched].state = "deleted"
    \/ \E r \in runs : r.sched = f.sched /\ r.at = f.at
FireIsReported ==
    (\E f \in fires : ~Reported(f)) ~> faults + errors > 0 \/ \A f \in fires : Reported(f)

(* A recorded failure was alerted or its process is about to, except where *)
(* that process died between the two or found no spec: that branch records *)
(* the run by itself, although jobs.rs:11 promises an alert for every      *)
(* outcome that is not ok.                                                 *)
FailureAlerts ==
    \A r \in runs : r.status # "ok"
        => <<r.sched, r.at>> \in alerts \cup untold \cup UNION {Unsent(n) : n \in Nodes}

(* The scheduler makes progress: due schedules are claimed, claimed fires  *)
(* reported and failures alerted.                                          *)
JobsProgress == [](TypeOK /\ FailureAlerts) /\ DueIsClaimed /\ FireIsReported
=============================================================================
