# Ruscker in TLA+

Ruscker serves containerised web applications. It starts replicas of a *spec* in
Docker, routes visitors to them with sticky cookies, scales the pool, runs
scheduled jobs, and has an admin panel for the catalog, the accounts and the
landing page. This directory holds TLA+ models of the parts of it that keep state,
the TLC configurations that check them, and TLAPS proofs about them.
`PROJECT.json` maps every definition to the lines it stands for and lists the
hazards, each at its line, that the properties are about.

    tlc -workers 2 -config MCEdge.cfg MCEdge
    tlapm ReplicaPool_proofs.tla

## 1. The system

Everything lives in one tokio process; high availability adds further processes
that share a Postgres database and nothing else. Paths are relative to
`src/crates/`.

| Component | State | Operations | Talks to |
|---|---|---|---|
| Seats, sticky sessions (`ruscker-admin/src/sessions.rs`, `routes/proxy.rs`, `ruscker-core/src/{lib,replica}.rs`) | `sessions_active` of each row, the session map, cookies | resolve, pick or spawn, touch or register, sweep, end, drop | registry, pool, logout |
| Replica pool (`scaler.rs`, `routes/proxy.rs`, `ruscker-docker/src/lib.rs`) | registry rows, a spawn mutex per spec, containers | a visit's spawn, `spawn_one`, `stop_one`, reap, liveness pass | Docker, sessions |
| Scaler tick (`scaler.rs`) | idle, saturation and cooldown counters, `spawn_locks` | reap by age, scale up, scale down | pool, election |
| Multi-host backend (`ruscker-docker/src/multihost.rs`) | placement map | choose host, list, stop, liveness | Docker hosts |
| Shared session store (`sessions_pg.rs`) | table of sessions; two numbers per node | as in memory, counts read back | registry, drain |
| Shared admin sessions (`admin_sessions_pg.rs`) | table; answer cache per node | create, validate, remove, revoke | login, logout |
| Access counter (`access_counter.rs`) | pending deltas, table | bump, flush, merge back, final flush | requests, shutdown |
| Leader election (`leader.rs`) | connection, `holds`, the advisory lock | `is_leader` | scaler, jobs |
| Scheduled jobs (`jobs.rs`, `db/schedules.rs`) | schedules, runs, detached tasks | tick, claim, run, report; admin edits | election, catalog, alerts |
| Proxy request (`routes/proxy.rs`) | spec cache, `INFLIGHT` gauge, audit cooldown | lookup, gates, cold start, forward, retry, reap | nearly all of the above |
| Limiters (`ratelimit.rs`, `auth.rs`) | windows of stamps | check, record, sweep | login, API requests |
| Alert and activity queues (`alerts.rs`, `activity.rs`) | bounded channels, cooldowns | emit, post with retries; record, batch insert | scaler, jobs, login |
| WebSocket pump (`ruscker-proxy/src/ws.rs`) | two directions, a watchdog | relay, first to end, grace, abort | browser, app |
| Accounts (`routes/admin*.rs`, `db/users.rs`, `lib.rs`) | users, sessions, gate, identity cache | every handler that writes them | proxy, panel |
| Second factor (`mfa.rs`, `db/mfa*.rs`) | factor, recovery codes, grants | enroll, confirm, challenge, revoke, reset | login, proxy |
| Catalog (`catalog.rs`, `db/specs.rs`, `routes/admin/*`) | rows, history, cached list | edit, create, toggle, delete, import, rewrite | proxy, pages |
| Spec form, schema (`spec_form.rs`, `ruscker-config/src/{schema,validate}.rs`) | the open page | fill, type, validate, save, duplicate | catalog |
| Image pulls, disk page (`spec_form.rs`, `disk.rs`) | slots, channels; readings of hosts | pull, follow; remove, prune | Docker |
| Landing page, blocks, media, showcase (`db/{landing,landing_blocks,images,showcase}.rs`) | rows, image digests, seed marker | edit, move, import; upload, rename, delete; seed | pages |
| Shutdown, boot adoption (`lib.rs`) | phase of the process | drain, flush, adopt | all |

What is hard: every handler is a chain of awaits, and what it read before one may
be stale after it (a visit's pick, a sweep's victims, a pass's snapshot, a tick's
listing, the factor a code is verified against, the row a form shows). Handlers
are dropped in the middle when a client disconnects, and then neither revoke,
invalidate nor give back what they still had to. Containers exit, restart and
vanish; hosts stop answering. Connections to Postgres go half-open, a statement
may have been applied although it was reported as failed, and a former leader may
still be inside its tick. When the database fails, whoever reads the catalog is told
the file's specs instead.

## 2. Modules

A component's module has its state, one action per operation or per step between
two awaits, and its properties. An `MC` module instantiates several components for
one run: it has a variable `subject`, a behaviour is about one component, and the
others stay in an initial state. Where theorems are about several of its components
the composition is a module with CONSTANTS of its own (`Content`, `Edge`, `Identity`,
`Nodes`), and the `MC` module only gives them values. Components composed so share no
state; where they do interact, one module extends the other (`JobScheduler` extends
`LeaderLock`, `SpecForm` extends `SpecConfig`) or the other side is an environment
action.

| Module | Models | In runs of | Proofs |
|---|---|---|---|
| `SessionSeats` | seats and sticky sessions of one spec on one node | `MCNodes`, `MCLoops` | `Nodes_proofs` |
| `ReplicaPool` | rows, containers, spawn mutex, liveness passes | `MCReplicaPool` | `ReplicaPool_proofs` |
| `ScalerTick` | the tick of a spec | `MCScalerTick` | `ScalerTick_proofs` |
| `Fleet` | several Docker hosts and the placement map | `MCFleet`, `MCNodes`, `MCLoops` | `Nodes_proofs` |
| `SharedSessions` | sessions in a shared table | `MCNodes`, `MCLoops` | `Nodes_proofs` |
| `Nodes` | those two and `SessionSeats` together | `MCNodes` | `Nodes_proofs` |
| `SharedLogins`, `SignIn` | admin sessions in a shared table; their contract | `MCIdentity` | `Identity_proofs` |
| `AccessCounter` | the buffer, its flushers, the end of the process | `MCLoops`, itself | itself |
| `LeaderLock` | the election | `MCLoops` | `JobScheduler_proofs` |
| `JobScheduler` | the job loop on top of it | itself | `JobScheduler_proofs` |
| `ProxyRequest` | a request from lookup to the end of its body | `MCEdge` | `Edge_proofs` |
| `BypassAudit` | audit of break-glass requests | `MCEdge` | `Edge_proofs` |
| `Limiters` | API, login and confirmation limiters | `MCEdge` | `Edge_proofs` |
| `AlertQueue`, `ActivityQueue` | the two bounded queues | `MCEdge` | `Edge_proofs` |
| `DiskCleanup` | the disk page | `MCEdge` | `Edge_proofs` |
| `Edge` | those five and `ProxyRequest` together | `MCEdge` | `Edge_proofs` |
| `WsPump`, `PullJobs` | WebSocket relay; image pulls | `MCLoops` | |
| `Accounts`, `SecondFactor` | who somebody is | `MCIdentity` | `Identity_proofs` |
| `Identity` | those three together | `MCIdentity` | `Identity_proofs` |
| `Catalog` | the specs, their history, the cached list | `MCContent` | `Content_proofs` |
| `SpecForm`, `SpecConfig` | the form of a spec, what its values mean | `MCContent` | `Content_proofs` |
| `LandingBlocks`, `LandingPage`, `MediaLibrary`, `Showcase` | what operators publish | `MCContent` | `Content_proofs` |
| `Content` | those seven together | `MCContent` | `Content_proofs` |

**SessionSeats.** A request goes through `pc`: `idle` (resolve), `spawn` (its own
cold start), `touch`, `inc`, `forward`. The steps are cut where the code releases
a lock or awaits: between the pick, which may reserve a seat, and
`touch_or_register`; between the insertion in the map and the increment; between
the sweep's collection, its wait for the registry lock and each eviction; between
the removal by a logout and its decrement; between the removal of a row and
`drop_replica`. `lock` is the sweeper's write lock; shorter critical sections are
single steps. `Init` is what a restart finds, so a cookie may be older than the
process. `drifted` is history: a row enters it when the code loses track of its
count (an increment or decrement lost with a cancelled handler, an entry removed
before its own increment, a re-adoption while seats were held, a late
`drop_replica`) and leaves it when a re-adoption resets the count correctly.

**ReplicaPool.** One spec, one host. A spawner is a visit (`pick_or_spawn`),
`EnsureAvailable` (splash, reactive recovery) or `AddCapacity` (scaler, operator);
it takes the spec's mutex, checks, creates, starts, probes and adds the row, and
may fail or, for a visit, be dropped at every await. A pass takes a snapshot, asks
Docker, acts row by row on what it planned from the two, re-adopts under the mutex
and collects orphans; several run at once. Containers are external. `Verdict` is
the match over row state and observation that plans a pass.

**ScalerTick.** `tick_with_interval`: liveness, then one turn for the spec (reap by
age, decide, drop, spawn). Between its awaits visitors come and go, a visit spawns,
rows are lost, the spec leaves the catalog and comes back, leadership moves. An
API's load is the overlay of its requests in flight. `orphaned` is history: a mutex
was dropped from `spawn_locks` while held; `late` are rows on which somebody sat
down after they were picked; `sinceDrop` counts turns.

**Fleet.** Hosts answer each of a listing's queries on their own or not at all;
spawns choose by cap, spread or bin-pack, weight and anti-affinity. The placement
map is written by spawns, listings and stops that overlap.

**SharedSessions.** Requests and sweeps of several nodes, statement by statement.
Each node's `active` (for routing) and `len` (for its drain) are copies of the
table taken by one statement and stored after it; `excused` and `missed` record
what came in between.

**SharedLogins, SignIn.** Create, validate, remove and revoke of several nodes, each
with a cache of answers. `SignIn` is the contract: a session is honoured while it
is live, for less than `Grace` after it ended, and never past its expiry. The
refinement maps `row`, `made` and `goneFor` to its phases: a session has ended when
its row is gone. A logout or a revocation whose DELETE fails
(`admin_sessions_pg.rs:331`) therefore ends nothing, here as in the code, and the
session is honoured on every node until it expires.

**AccessCounter.** A flush takes the buffer and writes one bucket per step; an
error puts the rest back, and may come after the commit (`repeated`). Both flushers
are modelled: the drain task and the final flush of a shutdown.

**LeaderLock.** Each outcome of `is_leader` is an action. The state mutex is held
over the call, so a call is one step. The server (`owner`) is external.

**JobScheduler.** `tick` is cut after the leadership check, the list, the reading of
the clock, each claim, each start, each record of a run and the alert that follows it,
in the tick (`TickTells`) as in a job's own task (`JobTells`); `untold` is history, the
failures that have no alert because their process ended or the code sends none. Clocks
may lie `Skew` apart. A tick that reads the catalog while the database fails knows the
file's specs only (`InFile`), and records a spec of the database as missing. A cron
expression is an occurrence every `Period` instants; a run's status is chosen freely.

**ProxyRequest.** A request goes through the lookup (cached for `Ttl`, taking up to
`LoadTime`), the gates in the code's order, the cold start page, the choice of a
replica, the upstream exchange with its one retry, and its body. `inflight` is the
API gauge, its guards are the waiting requests and the streaming bodies; the
scaler's collection forgets replicas. A reap forgets the gauge of its replica inside
its awaits (`Reaped`), and drops its own guard only when the handler returns
(`Returns`), which may take down what another request has counted since; the client may
leave before either. `last[v]` records when a version was last in force. Headers are not
modelled: what the proxy strips of a request's cookies and adds to identify its user is
left to the code's tests (`strip_ruscker_cookies`, `proxy.rs:2336`, leaves a Cookie
header that is not readable as text alone). **BypassAudit** has the cooldown of the
audit entries beside it; a handler dropped during the insert keeps its claim (`Cut`).

**Limiters.** One module, three kinds: stamps are read before the lock, so they
arrive out of order by up to `Skew`. **AlertQueue** has the cooldown, the channel,
the cached URL and the post with its attempts; **ActivityQueue** the batches, whose
events may have the key of an earlier one (`key`), as an access has when a swept session
is registered again. **DiskCleanup** takes its readings one after the other while spawns,
pulls and edits go on; the catalog it is told may be the file's part of it (`misled`).
Docker never gives a container the id of another one; the
model has few ids, so it uses one again only when no request has it on its list
(`Free`).

**WsPump.** Two directions, a watchdog, the first to end, a grace, an abort; peers
are external. **PullJobs**: slots, a task per pull, a bounded channel, at most one
follower, a sweep of tokens; when Docker's stream yields, and when the follower reads, is
the environment's choice (`Yields`, `Receive`).

**Accounts.** Every handler reads (session, own groups, target, number of admins),
writes in one transaction later, and only then revokes sessions and invalidates the
identity cache. It may end at each of these awaits, because its client has gone or its
commit is reported as failed (`Abandon`): the sessions it had still to revoke are
`excused` then, the cache entries it had still to invalidate `lost`. **SecondFactor.** Handlers read the factor, verify, and write later;
a secret is a number drawn once, a code the pair of a secret and a step.

**Catalog.** The specs table with versions and history, the YAML behind it, the list
cached under a signature, and all of its writers. The signature's `SUM(version)` is the
number of pairs of a spec and a version up to its own. `reborn` is history: specs
deleted while a transaction that had read their row was still to commit.
**SpecForm** fills a page from a
spec, changes inputs and turns it back. Groups, users, variables and arguments are texts
on the page, so an entry with a comma or a line break in it comes back as two
(`list_to_vec`), and a blank one not at all. `Meaning` is what proxy, scaler, backend and
access checks go by, the overrides of a kind included. **SpecConfig** has the effective
values and `check_spec` over integer types scaled down with their order and wrap-around
kept.

**LandingBlocks** has both databases' isolation: an overtaken transaction fails on
SQLite and goes through on Postgres. Blocks that share a position and an age are listed
in either order (`Listings`); `loose` names the slots where positions may repeat.
**LandingPage** is one row edited as a whole.
**MediaLibrary** rewrites the rows that name a renamed file and remembers digests. A
reference is found by a substring, so a longer name that starts with the file's is
rewritten too (`Longer`); the digests are those of one process, the moves those of
others as well, by an import or another node (`raced`).
**Showcase** seeds item by item and writes its marker last.

## 3. Runs

| Run | Question | Result | Distinct states |
|---|---|---|---|
| `pool_safety` | What does the spawn mutex guarantee against spawners, a pass and Docker? | `SpawnsBounded`, `PassesSpareOthers` hold | 1,669,832 |
| `pool_liveness` | Does the pool settle? | `PoolSettles` holds | 121,936 |
| `nodes` | Are seats and rows accounted for on one node, two nodes, two hosts? | `SeatLedger`, `AdmissionRespectsSeats`, `SeatsCounted`, `DrainSeesOwn`, `NoFalseMissing` hold | 1,807,863 |
| `jobs` | Are fires unique, claimed, reported? | `NoDoubleFire`, `UsesLeaderLock`, `JobsProgress` hold | 482,300 |
| `scaler` | Is the tick right although all moves between its awaits? | `CapUnlessOrphaned`, `ScaleDownSound`, `PoolConverges` hold | 826,270 |
| `identity` | Who is honoured, with which role, and for how long? | `RolesGuarded`, `SessionsExplained`, `NoRevokedGroupServed`, `NoStaleTrust`, `ProofsCountOnce`, `ImplementsSignIn` hold | 1,294,405 |
| `content` | Is what operators edit neither lost nor served stale? | `CatalogConsistent`, `EditsNotLost`, `SpecsSurviveForm`, `SeededOnce`, `LandingFaithful`, `RefsFollow`, `DigestsExplained` hold | 1,156,940 |
| `edge` | What does a request pass and leave behind? | `RequestsJudged`, `InflightSound`, `WindowRespected`, `SilenceAccounted`, `CleanupJustified` hold | 2,500,610 |
| `loops` | Do the tasks that run by themselves get there? | `Conservation`, `BufferDrains`, `YesOnlyToOwner`, `LeadershipReturns`, `RelaysEnd`, `CountsConverge`, `SeatsReleased`, `PlacementHeals` hold | 121,497 |
| `fleet_stop`, `pool_recheck`, `access_final` | Three comments | violated, see 6 | |

Several properties hold "except in the races they name": the code does lose a
reservation, keep a session a moment too long or serve a digest once too often, and
the property says exactly when, with history variables, so that anything else is a
violation.

**Bounds.**

- Seats: one seat per replica makes "full" and "over-full" happen with two visitors;
  two replicas let a visitor be moved. `CountBound` is one above the seats.
- Pool: three ids with `MaxReplicas` = 2 let two spawners go beyond the maximum.
  `FaultBudget` = 2 allows an exit followed by a restart or a disappearance. Two
  passes over one container are enough for `PoolSettles`, which is per replica.
- Scaler: graces and cooldown of two turns, so that "not yet" and "just" differ;
  three kinds of settings, each with `min <= max`, since a pool converges only then;
  three mutex identities, one more than can be held.
- Nodes and hosts: two of each, one fault; two visits.
- Jobs: `Horizon` = 2 with `Period` = 1 gives two occurrences, `Skew` = 1 lets a
  clock cross one; one fault gives a split brain or a crash, one error a failing
  statement. Lock: five faults let both processes fail twice.
- Identity: two accounts, three sessions, two handlers in flight at a time; a cache
  lifetime shorter than a session's, and a clock that reaches the latter; one failed
  statement.
- Content: two handlers over one or two rows, one of which is at its second version at
  boot, three requests in all; three blocks in two slots; two names, one that is a prefix
  of a third, and two images; for the form one spec of every kind, numbers on both sides
  of every type's limit and a list with an entry that a comma splits.
- Edge: two requests, two versions of the spec and a file version behind them, a
  clock that passes the cache's lifetime; windows of three with a limit of two; five
  events, so that a batch is tried again and a key comes back; a file that names
  nothing of what the catalog does.
- Loops: each queue or slot has capacity one, each peer two frames.

Handlers, sessions and replicas that are interchangeable are symmetric in the runs
without liveness; the liveness runs use no symmetry.

**Deadlock** is checked in `jobs` and `scaler`. The others switch it off: ids,
requests and faults are bounded and run out, and a process may end.

**Fairness.** It is assumed of tasks that run on a timer or that the runtime keeps
scheduling, never of a visitor, an operator or a failure.

- The sweeper of `SessionSeats`, the passes of `Fleet` and the drain task of
  `AccessCounter`: weak, they are timers.
- `ReplicaPool`: a spawner that holds the mutex goes on (each backend call has a time
  budget), passes are strongly fair (periodic, and queued first-in-first-out by
  tokio's mutex), time passes.
- `ScalerTick`: the tick and a visit's spawn go on.
- `SharedSessions`: requests under way and sweeps go on; the leader's delete is
  strongly fair, since the leader sweeps again and again.
- `LeaderLock`, `JobScheduler`: loops keep ticking and the server ends dead sessions;
  only outcomes without a fault are fair.
- `WsPump`: its tasks and timers. `PullJobs`: start, forward and sweep; neither Docker's
  stream nor the follower's browser, which nothing times out. `RelaysEnd` therefore says
  that a pull gives its slot back unless Docker falls silent or a follower stays and
  reads nothing, for ever.

Every property of a passing run has a mutant of a mapped definition that breaks it
(operators commented `Mutant`, or named after the definition with a suffix).

## 4. Proofs

The constants are arbitrary within the named assumptions: any finite sets of
replicas, sessions, tasks and processes, any bounds, graces, lifetimes and clock
skew. Each invariant below was checked by TLC on a small instance before it was
proved. Every proof has one lemma or step per action and, below it, one per part of
the invariant that the action can disturb.

- **SessionSeats** (`Invariance`, `TypeCorrect`, `SeatsAccounted`, `SeatsRespected`,
  in `Nodes_proofs`). The ledger is not inductive alone: whether a step changes
  `Taken(r)` depends on who points where. `IInv` adds `Links` (ids are bound to
  minted replicas only, a map entry points at the replica its id was minted against,
  a reservation not registered yet is known to nobody else, a replica still being
  spawned is nobody's) and that the increments on their way match entries one to one.
- **ReplicaPool** (`PoolInvariance`, `PoolSpawnsBounded`, `PoolPassesSpareOthers`).
  Whatever makes a row Ready or adds one holds the mutex, so nothing that a holder
  found under it is undone by another: the row it probes is not Ready, nothing
  accepts but what was freed since, there is room. A container in flight is invisible
  to passes: it has no row, and it was created under an id that no earlier reading
  has. `PoolInv` states these as `MutexHeld`, `SpawnsUnseen`, `ProbesSpare`,
  `NeedLasts`, `RoomLasts`. Assumed: finitely many replicas, at least one seat and
  one replica, spawners and passes distinct.
- **ScalerTick** (`TickInvariance`, `CapHolds`, `TickScaleDownSound`). `TickInv` has
  the mutex (`Held`; unless orphaned, the one of `spawn_locks`, held by one task), the
  room under it, what was picked for a stop (`PickedIdle`), what a scale-down leaves
  (`MinLeft`: the rows not picked, with those others took, are at least the minimum),
  and `CooldownCounts`: turns since the last scale-down, plus the cooldown left, cover
  the cooldown and the saturated turns counted. Settings are arbitrary, `min-replicas`
  above `max-replicas` included (the code only warns of it); the model's `AgeCap` is
  assumed not to lie below any lifetime.
- **ProxyRequest** (`ProxyInvariance`, `RequestsAreJudged`, `InflightIsSound`). A
  lookup, and what it leaves in the cache, was in force at most `LoadTime` before it
  is stored, and the cache serves it for less than `Ttl`; what is past the gates
  satisfied them. The gauge is compared with the guards alive by cardinality: a guard
  moves from the waiting requests to the streaming bodies without being counted
  again, and what clears the gauge under a guard is recorded in `excused`: a collection
  from an older reading, a forgotten replica that was busy, and a request that reaps a
  replica while others are on it or take a guard before its own is dropped.
- **Limiters** (`LimitInvariance`, `WindowsHold`, in `Edge_proofs`). Stamps reach the
  lock out of order, so what is pruned is not a prefix in time. `HistoryFits` relates
  the deque to everything let through since the last success: it is a suffix, no stamp
  in it is older than a later one by more than `Skew`, and what was forgotten had left
  the window (for the API limiter, whose sweep judges a client by its last stamp, the
  window less `Skew`). `WindowFits` then bounds what any interval holds, and for the
  login limiter `LoginFits` counts the failures of the window together with the
  passwords being checked. Assumed (`LimitersAssumption`): a client and a task, and
  finitely many tasks.
- **BypassAudit** (`SilenceIsVouchedFor`): `AuditInv` has that a claim on the window
  belongs to a request that is writing, has written, or was cut off as it wrote, at its
  instant.
- **AlertQueue** (`AlertInvariance`, `AlertsAreSpaced`). `Cooldowns` says that `recent`
  remembers the latest event that was not suppressed for as long as its cooldown runs,
  the ones a full channel swallowed included. `Delivery` says that an event is in one
  place, and that what was posted of it and the attempts left add up to at most
  `Attempts`. Assumed (`QueuesAssumption`): at least one attempt, and the test button's
  alert has no key of the others.
- **ActivityQueue** (`ActivityInvariance`, `ActivityIsKept`). Events rise from table
  through batch to queue, and a batch is in the table as a whole or not at all: so a
  batch whose commit was reported as failed inserts nothing when it is tried again. Keys
  come back, so "in the table" is said of an event's key, and what a batch does not
  insert is a repeat of a key stored before it.
- **DiskCleanup** (`DiskInvariance`, `CleanupIsJustified`). `DiskInv` relates each list
  a request carries to what was so when it was read (`truth`): the references cover
  what was in use, the specs are the catalog's, and what is left to remove passed the
  check against them; when the catalog told is not the true one, the specs are the
  file's and nothing more is claimed of them (`misled`). The proof found an error of the model, since corrected: a
  container id used again while it was on a list of stopped containers let a running
  one be pruned, which took one step more of the environment than the run allows.
  Assumed (`DiskAssumption`): `None` is no image.
- **Edge** (`EdgeParts`, `EdgeHolds`): every step is a step of one part and a stutter
  of the others, so these theorems and those on `ProxyRequest` hold of the whole.
- **SharedLogins** (`LoginInvariance`, `StoreImplementsSignIn`, in
  `Identity_proofs`). A positive entry rests on a read of the row: the time the row
  has been gone and the time the entry still has add up to at most one cache lifetime
  (`EntriesVouch`, with `ReadsRecent` for the read that has not filled the cache
  yet). With it, initial states map to initial states of `SignIn` and every step to a
  step or a stutter.
- **SecondFactor** (`FactorInvariance`, `TrustIsFresh`, `CodesCountOnce`, in
  `Identity_proofs`). A handler acts on a row it read before others wrote, so the
  properties rest on what such a reading still says: `FactorInv` has that secrets and
  sets of codes belong to one account and are drawn once, that a row read is of no
  later epoch, and that as long as the secret is the same the epoch tells whether
  a revocation came in between; a step or a code that was accepted lies behind the
  mark its account keeps, so that it is not accepted again. Assumed
  (`FactorAssumption`): a factor there at boot has a secret of its own, was confirmed
  with it, and has its codes unused.
- **Accounts** (`PanelInvariance`, `RevokedGroupsGone`, `SessionsAccountedFor`,
  `RolesStayGuarded`, in `Identity_proofs`). The cache's guarantee is not inductive
  alone: an entry not stored yet must be of the generation read before its row
  (`CacheFits` says it of both), and a stale one is allowed only while some handler is
  on its way to the invalidation. `SessionsFit` says the same of sessions, of the
  gate's answers and of answers about to be stored: they fit the account, or somebody
  is about to revoke the session, or it is excused. A handler that ends early moves what
  it was about to do to `excused` and `lost`, so both invariants keep their form. `JobDecided` is what a handler
  decided at its reads and still holds at its write: a scoped editor's request names
  no admin role and keeps the groups outside its scope as they were read.
  `RolesStayGuarded` then needs no more than that each statement on the table is about
  one account and takes an admin away only after counting two (`AdminSafe`). Assumed
  (`PanelAssumption`): at boot everybody signed in is an account as it was then, and
  forms ask for roles and groups that exist.
- **Identity** (`IdentityParts`, `IdentityHolds`): every step of the composition is a
  step of one part and a stutter of the others, so the three sets of theorems hold of
  it together.
- **Catalog** (`CatalogInvariance`, `CatalogHolds`, `SavesAreFair`, in
  `Content_proofs`). A handler acts on what it read two or three awaits earlier.
  `SeenRight`, `FormRight` and `WriteRight` say what such a reading still tells: a row
  read by a transaction that nothing disturbed is the row it overwrites, an edit token
  stands for the content the form was filled with, an editor's list of groups keeps the
  foreign ones of the row. `Stamps` has that timestamps on their way differ from each
  other and from the rows'. For the cache, `Listed` names the table `f` that the list
  was filled from: as long as none of the four ways of `why` has happened, every row is
  as it was in `f` or was rewritten later than anything in `f`, and versions only grow;
  so an equal signature means an equal table. The proof found an error of the model's
  property, since corrected: on Postgres a spec deleted and created again between the
  read and the write of a transaction goes on from its old version and its history has
  a gap, which takes four requests, one more than the run has (see 6). Assumed
  (`CatalogAssumption`): finitely many specs, at least one, and a table to start from
  whose history is whole and whose timestamps are not in the future.
- **MediaLibrary** (`MediaInvariance`, `MediaHolds`, in `Content_proofs`). `Following`
  has what a rename or a delete holds of each row it may rewrite: the name as it read
  it, unless the row is marked as written since. `Digests` has whose file a digest is,
  one about to be stored included, or which move this process has not seen. Assumed
  (`MediaAssumption`): there is a name and an image, `Void` is neither, and a longer name
  has one of the names as its prefix.
- **SpecForm** (`FormInvariance`, `FormHolds`, in `Content_proofs`). `FormInv` has that
  the spec and its copies, once a form has saved them, can run, that the fields of a page
  hold what an input of their kind can (`PageRight`), and that a page nobody has touched
  is what opening it made of the spec. That such a spec can run, and that a save means what the
  page meant, is shown value by value through the parsers and clamps of `into_spec`.
  Assumed (`FormAssumption`): the file's specs have the types that Rust gives them, one
  of them that was saved by an earlier form can run, and a text is at most one number.
- **Showcase** (`SeedInvariance`, `SeedHolds`): whatever a seeder has passed is in
  `ever`, one that came after the marker does not seed.
- **LandingPage** (`LookInvariance`, `LookHolds`): a fresh form is what the row makes of
  it, and filling a form and reading it back keeps what is shown (`PageAssumption`:
  `Void` is none of the texts, sizes and themes).
- **LandingBlocks** (`BlocksInvariance`, `BlocksHold`). `ReadBlocks` has what a
  transaction read and still holds until another commits: its block is where it was,
  its neighbour is the nearest one on its side, a new position is beyond the others. An
  order of a slot with distinct positions is its only listing: two that differ would do
  so at a first place, and the block there comes both before and after. Assumed
  (`BlockAssumption`): blocks are numbered and `Void` is no block's row.
- **Content** (`ContentParts`, `ContentHolds`): as for `Edge`; all seven properties hold
  of the whole.
- **AccessCounter** (`AccessesConserved`, in the module itself): inductive with `TypeOK`.
- **LeaderLock** (`YesOnlyToTheOwner`, `OneLiveLeader`, in `JobScheduler_proofs`,
  whose module extends the election's). `LockInv` adds `Truthful` (a process with
  `holds` and a live session is the server's owner) and `NoFlagWithoutConnection`.
- **JobScheduler** (`FiresAtMostOnce`, `FailuresAlerted`, `SchedulerUsesLeaderLock`,
  `SchedulerIsLed`).
  `FireInv`: what a tick has still to claim was due at its own clock, the marker lies
  at or after every window claimed, what is listed exists; the compare-and-set then
  opens each window at the marker, whoever leads. `FailuresAlerted` follows each failure
  from its record to its alert: the tick or task that recorded it has still to tell it,
  or it was told, or it is in `untold`. Every step of the scheduler is a
  step of the election or leaves it alone, so `SchedulerIsLed` follows from the two
  theorems on `LeaderLock`.
- **SharedSessions** (`SharedInvariance`, `SharedSeatsCounted`, `DrainsSeeOwn`, in
  `Nodes_proofs`). A counter is overwritten with a number read some steps before, so
  neither property is inductive: a task about to store it has to know that the number
  still covers the table. `SharedInv` says what each such number covers. `CountHolds`:
  a count no reservation has raced with covers the node's rows, and nothing else of
  the node is outstanding. `StoreHolds`: the number a drain is about to see covers the
  rows the node owns but for those gained since (`gains`) and the touches that have
  not returned. `DrainHolds` and `SeatsHold` are the two balances themselves, as
  inequalities between cardinalities; `TaskLinks` says whose work a task does. Assumed
  (`SharedAssumption`): finitely many nodes, sessions and requests, nodes and requests
  distinct.
- **Fleet** (`FleetInvariance`, `NeverFalselyMissing`, in `Nodes_proofs`). A container
  is started once, on one host, and one that is gone stays gone (`Moves`, `Ages`).
  What a listing knows had been started when it began, since its row was there
  (`RowsCreated`; `SpawnsApart` keeps the ids of spawns in flight unused). So a host
  that answers without a container that was started on it says that it is gone, and
  it still is when the listing ends (`ListingFits`). A host that failed has no answer,
  although one of its two queries may have succeeded. Assumed (`FleetAssumption`): `N`
  is a natural number.
- **Nodes** (`NodesParts`, `NodesHold`): as for `Identity`, every step is a step of
  one part and a stutter of the others, and all five properties hold of the whole.

Only model-checked: every liveness property, since fairness and `ENABLED` are beyond
the prover (`PoolSettles`, the two progress parts of `JobsProgress`, `PoolConverges` and
the temporal ones of `loops`), and the safety parts of `RelaysEnd` (order of frames).

## 5. What is not modelled

Metrics, logs, dashboard and audit pages (readings that are displayed and never
acted upon); credentials and cryptography; templates, localisation and markdown;
parsing of the configuration file; headers, cookies and bodies of proxied requests as
texts, with their rewriting; the command line.
Of the parts that are modelled: the encodings of Docker requests, image decoding,
password hashing, the merging of metrics and event streams, `/readyz` and the HTTP
server's own draining; texts that name an image and are never rewritten when it is
renamed (`og_image`, the HTML of blocks, custom CSS). A limiter, a factor or a pool inside `ProxyRequest` just
answers; their modules say what they answer.

## 6. Where code and comments differ

With a run that shows it:

- `multihost.rs:507`: on a placement miss `stop` should "try every host"; it ends at
  the first host, which answers Ok without having the container (`fleet_stop`).
- `scaler.rs:293`: "every action re-checks state under lock"; the expiry of a stopped
  row does not, and prunes a row a concurrent pass has made Ready (`pool_recheck`).
- `lib.rs:690`: at the final flush "their bumps are in the buffer"; the drain task's
  batch in flight is not (`access_final`).

Met while modelling, reproduced by the models' actions and allowed for in the
properties:

- `sessions.rs:226`: a sweep "evicts entries older than `timeout`"; its victims are
  collected before it waits for the registry lock, and one touched in between goes too.
- `routes/proxy.rs:1749`: "never exceeding `max`"; with `max` rows and none usable the
  visit falls through to a spawn.
- `jobs.rs:11`: "a non-`Ok` outcome emits a `job-failed` alert"; a fire whose spec has
  left the catalog is recorded as an error without one (line 181).
- `scaler.rs:12`: idle replicas are "observed idle for" some ticks; the idle counter
  reads registry sessions, always 0 for an API.
- `routes/admin/spec_form.rs:910`: unparseable numbers are flagged; values that parse
  in the check and not in the narrower type of the field are still dropped.
- `ruscker-config/src/validate.rs:224`: `link` is not among the known types, although
  the form writes it.
- `ruscker-config/src/schema.rs:1407`: `as i64` wraps a lifetime above the signed range
  before the saturating multiplication.
- `catalog.rs:66`: "the cache is never stale"; the signature does not move with every
  write, and a list may be stored under a signature taken at another moment.
- `migrations/0001_initial.sql:37`: a version is a "monotonic counter" and
  `spec_versions` has the JSON "for each value of `version`"; on Postgres a spec deleted
  and created again between the read and the write of a transaction goes on from the
  version it had, and the history lacks those in between.
- `routes/assets.rs:128`, `:412`: a digest is "never stale"; a request that read the
  bytes before an invalidation stores its digest after it.
- `multihost.rs:835`: a skipped host contributes no images; removal then judges an image
  by the hosts that answered.
- `routes/admin/disk.rs:747`, `ruscker-docker/src/lib.rs:1078`: what is removed was
  checked against readings that may be out of date.
- `routes/admin/disk.rs:498`, `:511`: what a spec names is "never offered for removal";
  on a database error `effective_specs_cached` (`catalog.rs:53`) answers with the file's
  specs, and what only the database's specs name is removed.
- `routes/proxy.rs:1073`: "an audit gap is not" safe, so a failed insert gives its claim
  back; a handler dropped during the insert does not.
- `routes/proxy.rs:689`: the session's id is the key that tells accesses apart in the
  activity log; a swept cookie registers again under its id, and that access is dropped
  as a repeat (`db/user_activity.rs:128`).
- `jobs.rs:181`: a spec of the database that a tick cannot read is recorded as having
  left the catalog.
- `routes/admin/images.rs:434`: `references_image` is a substring test; a longer name
  that starts with the file's is rewritten to a name nobody has.
- `routes/assets.rs:128`: a hash "never outlives the bytes it was taken from"; on another
  node, or after an import from the command line, it does.
- `db/landing_blocks.rs:5`: blocks are "not part of the YAML import/export round-trip";
  `db/export.rs` writes them.

## 7. Plan

1. Done: the modules and runs above; proofs of the safety properties of the runs, but
   for the order of frames in `RelaysEnd`.
2. Next: headers and cookies on their way through the proxy, and the rewriting of
   response bodies (`routes/rewrite.rs`), whose tables of paths the model does not have.
