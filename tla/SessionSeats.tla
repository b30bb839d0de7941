---------------------------- MODULE SessionSeats ----------------------------
(***************************************************************************)
(* Seat accounting of one seat-based spec on a single Ruscker node: the    *)
(* registry counter Replica::sessions_active, the in-memory session map,   *)
(* and everyone who touches them concurrently:                             *)
(*   - proxied requests (resolve_replica, pick_or_spawn, touch_or_register)*)
(*   - the idle sweeper (InMemorySessionStore::sweep)                      *)
(*   - stop-on-logout handlers (end_session)                               *)
(*   - reapers: stop_one, prune_dead_replica, mark_restart_detected        *)
(*   - the scaler adding a replica, the reconciler re-adopting one.        *)
(* Handlers are split where the code releases a lock or awaits; a lock     *)
(* held over one step is implicit, the sweeper's is the variable `lock`.   *)
(***************************************************************************)
EXTENDS Naturals, FiniteSets

CONSTANTS
    Replicas,   \* replica ids the backend may mint
    Sids,       \* session ids (one per sticky cookie)
    Requests,   \* concurrent proxied request tasks
    Logouts,    \* concurrent logout handlers
    Reapers,    \* concurrent tasks taking a replica out of the pool
    Seats,      \* seats-per-container
    MaxReplicas,\* max-replicas
    CountBound, \* bound on a row's counter (u32 in the code)
    NoReplica, NoSid

ASSUME ConstantsAssumption ==
    /\ IsFiniteSet(Sids) /\ IsFiniteSet(Requests) /\ IsFiniteSet(Logouts)
    /\ IsFiniteSet(Replicas)
    /\ Seats \in Nat \ {0} /\ MaxReplicas \in Nat \ {0}
    /\ CountBound \in Nat \ {0}
    /\ NoReplica \notin Replicas /\ NoSid \notin Sids

VARIABLES
    state,      \* registry row state per replica, "absent" when no row
    active,     \* Replica::sessions_active
    minted,     \* replica ids ever issued (uuids: never reused by a spawn)
    alive,      \* replicas whose container still exists in the backend
    tracked,    \* session map: the replica an entry points at
    stale,      \* entries whose last_seen is older than the timeout
    bound,      \* the replica a session id was minted against
    cookie,     \* session ids a browser holds a sticky cookie for
    pc, sid, reserved, target,  \* per request
    victims, lock,              \* sweeper: collected ids, registry write lock
    ending,     \* logout handler: session removed, decrement pending
    dropping,   \* reaper: registry updated, drop_replica pending
    drifted     \* history: replicas whose counter lost track (see below)

regVars  == <<state, active, minted, alive>>
sessVars == <<tracked, stale, bound, cookie>>
reqVars  == <<pc, sid, reserved, target>>
bgVars   == <<victims, lock, ending, dropping>>
vars     == <<regVars, sessVars, reqVars, bgVars, drifted>>

RowStates == {"absent", "starting", "ready", "draining", "stopped"}
ReqSteps  == {"idle", "spawn", "touch", "inc", "forward"}

RegistryTypeOK ==
    /\ state \in [Replicas -> RowStates]
    /\ active \in [Replicas -> Nat]
    /\ minted \subseteq Replicas
    /\ alive \subseteq minted
    /\ drifted \subseteq Replicas

SessionTypeOK ==
    /\ tracked \in [Sids -> Replicas \cup {NoReplica}]
    /\ stale \subseteq Sids
    /\ bound \in [Sids -> Replicas \cup {NoReplica}]
    /\ cookie \subseteq Sids

RequestTypeOK ==
    /\ pc \in [Requests -> ReqSteps]
    /\ sid \in [Requests -> Sids \cup {NoSid}]
    /\ reserved \in [Requests -> BOOLEAN]
    /\ target \in [Requests -> Replicas \cup {NoReplica}]

TaskTypeOK ==
    /\ victims \subseteq Sids
    /\ lock \in BOOLEAN
    /\ ending \in [Logouts -> Sids \cup {NoSid}]
    /\ dropping \in [Reapers -> Replicas \cup {NoReplica}]

(* Counters are naturals: no decrement of the code takes one below zero.   *)
TypeOK == RegistryTypeOK /\ SessionTypeOK /\ RequestTypeOK /\ TaskTypeOK

-----------------------------------------------------------------------------
(* The registry, as ReplicaRegistry and Replica define it.                 *)

Rows == {r \in Replicas : state[r] # "absent"}

available_seats(r) == IF active[r] >= Seats THEN 0 ELSE Seats - active[r]

(* Mutant: a full replica still accepts.                                   *)
AcceptingWhenFull(r) == state[r] = "ready" /\ active[r] <= Seats

is_accepting(r) == state[r] = "ready" /\ available_seats(r) > 0

inc_sessions(r) ==
    /\ active[r] < CountBound
    /\ active' = IF r \in Rows THEN [active EXCEPT ![r] = @ + 1] ELSE active

(* Mutant: the decrement skips draining rows.                              *)
DecReadyOnly(r) ==
    active' = IF state[r] = "ready" /\ active[r] > 0
              THEN [active EXCEPT ![r] = @ - 1] ELSE active

dec_sessions(r) ==
    active' = IF r \in Rows /\ active[r] > 0
              THEN [active EXCEPT ![r] = @ - 1] ELSE active

(* Who holds a seat of r: registered sessions whose increment is done,     *)
(* reservations not registered yet, ended sessions not decremented yet.    *)
IncPending(s)    == \E q \in Requests : pc[q] = "inc" /\ sid[q] = s
SessionHolds(r)  == {s \in Sids : tracked[s] = r /\ ~IncPending(s)}
ReservedHolds(r) == {q \in Requests :
                        pc[q] = "touch" /\ reserved[q] /\ bound[sid[q]] = r}
EndingHolds(r)   == {l \in Logouts : ending[l] # NoSid /\ bound[ending[l]] = r}
Taken(r) == Cardinality(SessionHolds(r)) + Cardinality(ReservedHolds(r))
              + Cardinality(EndingHolds(r))

(* The increments on their way to r match entries of the map one to one.   *)
IncMatched(r) ==
    \A q \in Requests : pc[q] = "inc" /\ bound[sid[q]] = r =>
        /\ tracked[sid[q]] = r
        /\ \A p \in Requests : pc[p] = "inc" /\ sid[p] = sid[q] => p = q

Serving(r) == state[r] \notin {"absent", "stopped"}
-----------------------------------------------------------------------------
(* Boot: AdminServer::run re-lists the containers of a former process;     *)
(* browsers still hold the cookies that process signed, the session map    *)
(* starts empty.                                                           *)
Init ==
    /\ state \in [Replicas -> RowStates]
    /\ active = [r \in Replicas |-> 0]
    /\ minted = {r \in Replicas : state[r] # "absent"}
    /\ alive = minted
    /\ tracked = [s \in Sids |-> NoReplica]
    /\ stale = {}
    /\ bound \in [Sids -> minted \cup {NoReplica}]
    /\ cookie = {s \in Sids : bound[s] # NoReplica}
    /\ pc = [q \in Requests |-> "idle"]
    /\ sid = [q \in Requests |-> NoSid]
    /\ reserved = [q \in Requests |-> FALSE]
    /\ target = [q \in Requests |-> NoReplica]
    /\ victims = {} /\ lock = FALSE
    /\ ending = [l \in Logouts |-> NoSid]
    /\ dropping = [p \in Reapers |-> NoReplica]
    /\ drifted = {}

-----------------------------------------------------------------------------
(* Requests.                                                               *)

(* resolve_replica, sticky branch: the cookie's replica is Ready/Draining; *)
(* no seat is reserved.                                                    *)
StickyVisit(q, s) ==
    /\ pc[q] = "idle" /\ ~lock
    /\ s \in cookie
    /\ state[bound[s]] \in {"ready", "draining"}
    /\ pc' = [pc EXCEPT ![q] = "touch"]
    /\ sid' = [sid EXCEPT ![q] = s]
    /\ reserved' = [reserved EXCEPT ![q] = FALSE]
    /\ UNCHANGED <<regVars, sessVars, target, bgVars, drifted>>

(* The tail shared by every branch of pick_or_spawn that takes an existing *)
(* row: reserve the seat under the same lock, mint a session id.           *)
Reserve(q, s, r) ==
    /\ inc_sessions(r)
    /\ bound' = [bound EXCEPT ![s] = r]
    /\ pc' = [pc EXCEPT ![q] = "touch"]
    /\ sid' = [sid EXCEPT ![q] = s]
    /\ reserved' = [reserved EXCEPT ![q] = TRUE]
    /\ UNCHANGED <<state, minted, alive, tracked, stale, cookie, target,
                   bgVars, drifted>>

FreshRequest(q, s) == pc[q] = "idle" /\ ~lock /\ bound[s] = NoReplica

(* Fast path and first double-check: a Ready replica with a free seat.     *)
PickAccepting(q, s, r) ==
    /\ FreshRequest(q, s)
    /\ is_accepting(r)
    /\ Reserve(q, s, r)

NoAccepting    == \A r \in Replicas : ~is_accepting(r)
StartingSeat(r) == state[r] = "starting" /\ available_seats(r) > 0
AnyReady       == \E r \in Replicas : state[r] = "ready"
AtMax          == Cardinality(Rows) >= MaxReplicas
(* The per-spec spawn mutex is held exactly while a spawn is in flight.    *)
MutexFree      == \A q \in Requests : pc[q] # "spawn"

PickStarting(q, s, r) ==
    /\ FreshRequest(q, s) /\ MutexFree /\ NoAccepting
    /\ StartingSeat(r)
    /\ Reserve(q, s, r)

(* At the cap: soft over-subscription of any Ready replica.                *)
PickOverload(q, s, r) ==
    /\ FreshRequest(q, s) /\ MutexFree /\ NoAccepting
    /\ \A x \in Replicas : ~StartingSeat(x)
    /\ AtMax /\ state[r] = "ready"
    /\ Reserve(q, s, r)

(* Under the cap, or nothing usable: ask the backend for a container.      *)
StartSpawn(q, r) ==
    /\ pc[q] = "idle" /\ ~lock /\ MutexFree /\ NoAccepting
    /\ \A x \in Replicas : ~StartingSeat(x)
    /\ ~(AtMax /\ AnyReady)
    /\ r \notin minted
    /\ minted' = minted \cup {r}
    /\ alive' = alive \cup {r}
    /\ pc' = [pc EXCEPT ![q] = "spawn"]
    /\ target' = [target EXCEPT ![q] = r]
    /\ UNCHANGED <<state, active, sessVars, sid, reserved, bgVars, drifted>>

(* spawn_request returned Ok: add the row and take its first seat.         *)
SpawnAdd(q, s) ==
    /\ pc[q] = "spawn" /\ ~lock
    /\ bound[s] = NoReplica
    /\ LET r == target[q] IN
         /\ state' = [state EXCEPT ![r] = "ready"]
         /\ active' = [active EXCEPT ![r] = 1]
         /\ bound' = [bound EXCEPT ![s] = r]
    /\ pc' = [pc EXCEPT ![q] = "touch"]
    /\ sid' = [sid EXCEPT ![q] = s]
    /\ reserved' = [reserved EXCEPT ![q] = TRUE]
    /\ target' = [target EXCEPT ![q] = NoReplica]
    /\ UNCHANGED <<minted, alive, tracked, stale, cookie, bgVars, drifted>>

(* spawn_request failed (it removed its container), or the client went     *)
(* away and the dropped future left the container behind.                  *)
SpawnLost(q) ==
    /\ pc[q] = "spawn"
    /\ alive' \in {alive, alive \ {target[q]}}
    /\ pc' = [pc EXCEPT ![q] = "idle"]
    /\ target' = [target EXCEPT ![q] = NoReplica]
    /\ UNCHANGED <<state, active, minted, sessVars, sid, reserved, bgVars,
                   drifted>>

(* touch_or_register on a known session: refresh last_seen only.           *)
Touch(q) ==
    /\ pc[q] = "touch" /\ tracked[sid[q]] # NoReplica
    /\ stale' = stale \ {sid[q]}
    /\ pc' = [pc EXCEPT ![q] = "forward"]
    /\ UNCHANGED <<regVars, tracked, bound, cookie, sid, reserved, target,
                   bgVars, drifted>>

(* touch_or_register on an unknown session: insert the entry; the          *)
(* increment, when the seat was not reserved, waits for the registry lock. *)
Register(q) ==
    /\ pc[q] = "touch" /\ tracked[sid[q]] = NoReplica
    /\ tracked' = [tracked EXCEPT ![sid[q]] = bound[sid[q]]]
    /\ stale' = stale \ {sid[q]}
    /\ pc' = [pc EXCEPT ![q] = IF reserved[q] THEN "forward" ELSE "inc"]
    /\ UNCHANGED <<regVars, bound, cookie, sid, reserved, target, bgVars,
                   drifted>>

IncSessions(q) ==
    /\ pc[q] = "inc" /\ ~lock
    /\ inc_sessions(bound[sid[q]])
    /\ pc' = [pc EXCEPT ![q] = "forward"]
    /\ UNCHANGED <<state, minted, alive, sessVars, sid, reserved, target,
                   bgVars, drifted>>

(* The handler's task is over and its locals are gone.                     *)
Done(q) ==
    /\ pc' = [pc EXCEPT ![q] = "idle"]
    /\ sid' = [sid EXCEPT ![q] = NoSid]
    /\ reserved' = [reserved EXCEPT ![q] = FALSE]

(* The client disconnects while the handler waits for the registry lock.   *)
CancelInc(q) ==
    /\ pc[q] = "inc"
    /\ Done(q)
    /\ drifted' = drifted \cup {bound[sid[q]]}
    /\ UNCHANGED <<regVars, sessVars, target, bgVars>>

(* The forward ends: the response carries the cookie, or it never arrives. *)
Respond(q) ==
    /\ pc[q] = "forward"
    /\ cookie' \in {cookie, cookie \cup {sid[q]}}
    /\ Done(q)
    /\ UNCHANGED <<regVars, tracked, stale, bound, target, bgVars, drifted>>

-----------------------------------------------------------------------------
(* The idle sweeper.                                                       *)

Expire(s) ==
    /\ tracked[s] # NoReplica /\ s \notin stale
    /\ stale' = stale \cup {s}
    /\ UNCHANGED <<regVars, tracked, bound, cookie, reqVars, bgVars, drifted>>

(* Mutant: the sweep gives up when a request is in the session map.        *)
SweepCollectTry ==
    /\ victims = {} /\ ~lock
    /\ stale # {} /\ \A q \in Requests : pc[q] # "touch"
    /\ victims' = stale
    /\ UNCHANGED <<regVars, sessVars, reqVars, lock, ending, dropping, drifted>>

SweepCollect ==
    /\ victims = {} /\ ~lock
    /\ stale # {}
    /\ victims' = stale
    /\ UNCHANGED <<regVars, sessVars, reqVars, lock, ending, dropping, drifted>>

SweepLock ==
    /\ victims # {} /\ ~lock
    /\ lock' = TRUE
    /\ UNCHANGED <<regVars, sessVars, reqVars, victims, ending, dropping,
                   drifted>>

(* Removing the entry s from the map loses the count of its replica when   *)
(* the entry's own increment has not happened yet.                         *)
Unregister(s) ==
    /\ tracked' = [tracked EXCEPT ![s] = NoReplica]
    /\ stale' = stale \ {s}
    /\ drifted' = IF IncPending(s) THEN drifted \cup {tracked[s]} ELSE drifted

(* One victim: remove the entry, decrement only when this pass removed it; *)
(* the lock is released after the last one.                                *)
SweepEvict(s) ==
    /\ lock /\ s \in victims
    /\ victims' = victims \ {s}
    /\ lock' = (victims' # {})
    /\ IF tracked[s] # NoReplica
       THEN Unregister(s) /\ dec_sessions(bound[s])
       ELSE UNCHANGED <<tracked, stale, drifted, active>>
    /\ UNCHANGED <<state, minted, alive, bound, cookie, reqVars, ending,
                   dropping>>

-----------------------------------------------------------------------------
(* stop-on-logout.                                                         *)

EndSession(l, s) ==
    /\ ending[l] = NoSid /\ tracked[s] # NoReplica
    /\ Unregister(s)
    /\ ending' = [ending EXCEPT ![l] = s]
    /\ UNCHANGED <<regVars, bound, cookie, reqVars, victims, lock, dropping>>

EndSessionDec(l) ==
    /\ ending[l] # NoSid /\ ~lock
    /\ dec_sessions(bound[ending[l]])
    /\ ending' = [ending EXCEPT ![l] = NoSid]
    /\ UNCHANGED <<state, minted, alive, sessVars, reqVars, victims, lock,
                   dropping, drifted>>

(* The logout handler is dropped while it waits for the registry lock.     *)
CancelLogout(l) ==
    /\ ending[l] # NoSid
    /\ ending' = [ending EXCEPT ![l] = NoSid]
    /\ drifted' = drifted \cup {bound[ending[l]]}
    /\ UNCHANGED <<regVars, sessVars, reqVars, victims, lock, dropping>>

-----------------------------------------------------------------------------
(* Replicas leaving and entering the pool.                                 *)

(* cleanup_replica_state, first step; the backend stop before it succeeded *)
(* or failed.                                                              *)
CleanupReplica(p, r) ==
    /\ dropping[p] = NoReplica /\ ~lock
    /\ r \in minted /\ \A q \in Requests : target[q] # r
    /\ state' = [state EXCEPT ![r] = "absent"]
    /\ active' = [active EXCEPT ![r] = 0]
    /\ alive' \in {alive, alive \ {r}}
    /\ dropping' = [dropping EXCEPT ![p] = r]
    /\ UNCHANGED <<minted, sessVars, reqVars, victims, lock, ending, drifted>>

(* mark_restart_detected, first step.                                      *)
MarkRestarting(p, r) ==
    /\ dropping[p] = NoReplica /\ ~lock
    /\ state[r] # "absent"
    /\ state' = [state EXCEPT ![r] = "stopped"]
    /\ active' = [active EXCEPT ![r] = 0]
    /\ dropping' = [dropping EXCEPT ![p] = r]
    /\ UNCHANGED <<minted, alive, sessVars, reqVars, victims, lock, ending,
                   drifted>>

(* drop_replica: forget every entry of the replica, leave the counter.     *)
DropReplica(p) ==
    /\ dropping[p] # NoReplica
    /\ LET r    == dropping[p]
           gone == {s \in Sids : tracked[s] = r}
       IN  /\ tracked' = [s \in Sids |-> IF s \in gone THEN NoReplica
                                                       ELSE tracked[s]]
           /\ stale' = stale \ gone
           /\ drifted' = IF Serving(r) /\ gone # {} THEN drifted \cup {r}
                                                    ELSE drifted
    /\ dropping' = [dropping EXCEPT ![p] = NoReplica]
    /\ UNCHANGED <<regVars, bound, cookie, reqVars, victims, lock, ending>>

(* readopt_running_replica: the row comes back with a zero count.          *)
Readopt(r) ==
    /\ MutexFree /\ ~lock
    /\ r \in alive /\ state[r] # "ready"
    /\ state[r] # "absent" \/ ~AtMax
    /\ state' = [state EXCEPT ![r] = "ready"]
    /\ active' = [active EXCEPT ![r] = 0]
    /\ drifted' = IF Taken(r) = 0 /\ IncMatched(r) THEN drifted \ {r}
                                                   ELSE drifted \cup {r}
    /\ UNCHANGED <<minted, alive, sessVars, reqVars, bgVars>>

(* spawn_one by the scaler, the splash or an operator: a row, no session.  *)
SpawnOne(r) ==
    /\ MutexFree /\ ~lock
    /\ r \notin minted /\ ~AtMax
    /\ state' = [state EXCEPT ![r] = "ready"]
    /\ active' = [active EXCEPT ![r] = 0]
    /\ minted' = minted \cup {r}
    /\ alive' = alive \cup {r}
    /\ UNCHANGED <<sessVars, reqVars, bgVars, drifted>>

-----------------------------------------------------------------------------
RequestStep(q) ==
    \/ \E s \in Sids : StickyVisit(q, s) \/ SpawnAdd(q, s)
    \/ \E s \in Sids, r \in Replicas :
          PickAccepting(q, s, r) \/ PickStarting(q, s, r) \/ PickOverload(q, s, r)
    \/ \E r \in Replicas : StartSpawn(q, r)
    \/ SpawnLost(q) \/ Touch(q) \/ Register(q) \/ IncSessions(q)
    \/ CancelInc(q) \/ Respond(q)

SweeperStep == SweepCollect \/ SweepLock \/ \E s \in Sids : SweepEvict(s)

LogoutStep(l) == (\E s \in Sids : EndSession(l, s)) \/ EndSessionDec(l) \/ CancelLogout(l)

ReaperStep(p) == (\E r \in Replicas : CleanupReplica(p, r) \/ MarkRestarting(p, r))
                    \/ DropReplica(p)

Next ==
    \/ \E q \in Requests : RequestStep(q)
    \/ SweeperStep
    \/ \E s \in Sids : Expire(s)
    \/ \E l \in Logouts : LogoutStep(l)
    \/ \E p \in Reapers : ReaperStep(p)
    \/ \E r \in Replicas : Readopt(r) \/ SpawnOne(r)

Spec == Init /\ [][Next]_vars

(* The sweeper is a periodic task; nothing else is promised to run.        *)
FairSpec == Spec /\ WF_vars(SweeperStep)

-----------------------------------------------------------------------------
(* Properties.                                                             *)

(* The counter of a serving row is exactly the number of seats somebody    *)
(* holds: registered sessions, reservations between pick_or_spawn and      *)
(* touch_or_register, ended sessions whose decrement is still to come. The *)
(* exceptions are the rows in `drifted`, and they are all there are: an    *)
(* increment or a decrement lost with a cancelled handler, an entry        *)
(* removed before its own increment, a re-adoption while seats were held,  *)
(* and a drop_replica that comes after the re-adoption.                    *)
SeatLedger ==
    \A r \in Replicas : Serving(r) /\ r \notin drifted => active[r] = Taken(r)

(* More people than seats end up on a replica whose count is right only by *)
(* two doors of the code: the overload branch of pick_or_spawn at          *)
(* max-replicas, and a returning sticky visitor, who is never refused.     *)
AdmissionStep ==
    \A r \in Replicas :
        /\ Serving(r) /\ r \notin drifted /\ r \notin drifted'
        /\ Taken(r)' > Taken(r) /\ Taken(r)' > Seats
        => \/ AtMax
           \/ \E q \in Requests : pc[q] = "inc" /\ pc'[q] = "forward"

AdmissionRespectsSeats == [][AdmissionStep]_vars

(* An idle session gives its seat back unless its visitor returns first    *)
(* (the sweeper runs every SWEEPER_INTERVAL).                              *)
IdleSessionReleased ==
    \A s \in Sids : s \in stale ~> (s \notin stale)
=============================================================================
