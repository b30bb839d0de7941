---------------------------- MODULE ProxyRequest ----------------------------
(***************************************************************************)
(* One request through the proxy, from the spec lookup to the end of the   *)
(* response body, split at its awaits: the spec cache, the gates in their  *)
(* order (external link, preflight, rate limit, body size, access, second  *)
(* factor), the cold start page, the replica, the upstream exchange with   *)
(* its retry, the reaping of a dead replica, and the gauge of API requests *)
(* in flight. Seats, limiter windows, identities and factors have modules  *)
(* of their own; here a limiter or a factor just answers. Which headers    *)
(* go upstream is not modelled.                                            *)
(***************************************************************************)
EXTENDS Naturals, FiniteSets

CONSTANTS
    Tasks, Replicas,
    Specs,         \* the versions of the spec that edits can store
    Requests,      \* the requests that arrive
    Yaml,          \* the version in the YAML file, or NoSpec
    Ttl,           \* SPEC_CACHE_TTL, in ticks
    LoadTime,      \* ticks a catalog lookup may take
    MaxReplicas,
    MaxTime, MaxChanges    \* bounds

NoSpec == [kind |-> "none"]
NoReplica == "no replica"

ASSUME ProxyAssumption ==
    /\ IsFiniteSet(Tasks) /\ Ttl \in Nat \ {0} /\ LoadTime \in Nat
    /\ NoReplica \notin Replicas

VARIABLES
    now,
    db,         \* the version in the database, or NoSpec
    cache,      \* spec_cache: version, stamp, whether a failed lookup left it
    task,
    pool,       \* replicas: "none", "ready", "draining", "restarting", or
                \* "dead": still registered as ready, its container gone
    inflight,   \* INFLIGHT: counts, for some of the replicas
    bodies,     \* replicas of the API responses still streaming, by task id
    leaving,    \* replicas the scaler has taken out of routing, and whose gauges
                \* it has yet to forget
    gc,         \* the replicas the scaler saw alive before it collects
    changes,    \* edits and events of the pool so far
    last,       \* ghost: when each version was last in force
    excused     \* ghost: replicas forgotten while requests were in flight

vars == <<now, db, cache, task, pool, inflight, bodies, leaving, gc, changes,
          last, excused>>
catalogVars == <<db, cache, last>>
gaugeVars == <<inflight, excused>>
poolVars == <<pool, gaugeVars, bodies, leaving, gc>>

NoGc == {"no gc"}
Idle == [pc |-> "idle"]
Registered == {r \in Replicas : pool[r] # "none"}
LooksReady(r) == pool[r] \in {"ready", "dead"}

\* What is in force: the database's version, or the file's when it has none.
InForce == IF db # NoSpec THEN db ELSE Yaml

Init ==
    /\ now = 1 /\ db \in Specs /\ cache = NoSpec
    /\ task = [t \in Tasks |-> Idle]
    /\ pool = [r \in Replicas |-> "none"]
    /\ inflight = [r \in {} |-> 0]
    /\ bodies = [t \in Tasks |-> NoReplica]
    /\ leaving = {} /\ gc = NoGc /\ changes = 0
    /\ last = [v \in Specs \cup {NoSpec, Yaml} |-> IF v = InForce THEN 1 ELSE 0]
    /\ excused = {}

Go(t, rec) == task' = [task EXCEPT ![t] = rec]
At(t, pc) == task[t].pc = pc
Done(t) == Go(t, [pc |-> "done"])

----------------------------------------------------------------------------
(***************************************************************************)
(* The clock and the admin's edits. A lookup under way takes at most       *)
(* LoadTime ticks; nothing else is timed or looks at the spec, so both may *)
(* rest when no request is before its gates.                               *)
(***************************************************************************)
BeforeGates == \E t \in Tasks : task[t].pc \in {"idle", "spec", "fill"}
Tick ==
    /\ now < MaxTime /\ BeforeGates
    /\ \A t \in Tasks : At(t, "fill") => now - task[t].since < LoadTime
    /\ now' = now + 1
    /\ last' = [last EXCEPT ![InForce] = now']
    /\ UNCHANGED <<db, cache, task, poolVars, changes>>
Edit(v) ==
    /\ changes < MaxChanges /\ changes' = changes + 1 /\ BeforeGates
    /\ v # db /\ db' = v
    /\ last' = [last EXCEPT ![IF v # NoSpec THEN v ELSE Yaml] = now]
    /\ UNCHANGED <<now, cache, task, poolVars>>

----------------------------------------------------------------------------
(***************************************************************************)
(* find_spec and load_spec.                                                *)
(***************************************************************************)
NewRequest(q) == [pc |-> "spec", q |-> q, spec |-> NoSpec, since |-> 0, lag |-> 0,
                  fallback |-> FALSE, r |-> NoReplica, proof |-> FALSE]
\* A task takes one request, its only one.
Arrive(t, q) ==
    /\ task[t] = Idle
    /\ Go(t, NewRequest(q))
    /\ UNCHANGED <<now, catalogVars, poolVars, changes>>
CacheFresh_Always == cache # NoSpec
CacheFresh == cache # NoSpec /\ now - cache.at < Ttl
With(t, v, fallback) ==
    IF v = NoSpec THEN Done(t)
    ELSE Go(t, [task[t] EXCEPT !.pc = "gates", !.spec = v, !.since = 0,
                               !.lag = now - last[v], !.fallback = fallback])
CacheHit(t) ==
    /\ At(t, "spec") /\ CacheFresh
    /\ With(t, cache.v, cache.fallback)
    /\ UNCHANGED <<now, catalogVars, poolVars, changes>>
\* A failed lookup falls back to the file, and that answer is cached too.
Load(t, fails) ==
    /\ At(t, "spec") /\ ~CacheFresh
    /\ Go(t, [task[t] EXCEPT !.pc = "fill", !.since = now, !.fallback = fails,
                             !.spec = IF fails THEN Yaml ELSE InForce])
    /\ UNCHANGED <<now, catalogVars, poolVars, changes>>
Fill(t) ==
    LET v == task[t].spec IN
    /\ At(t, "fill")
    /\ cache' = IF v = NoSpec THEN NoSpec
                ELSE [v |-> v, at |-> now, fallback |-> task[t].fallback]
    /\ With(t, v, task[t].fallback)
    /\ UNCHANGED <<now, db, last, poolVars, changes>>

----------------------------------------------------------------------------
(***************************************************************************)
(* The gates, in their order. They touch nothing shared (identities, the   *)
(* limiter and factors are elsewhere), so one step passes them all. A      *)
(* caller is anonymous, a member of the spec's groups, another user, an    *)
(* admin, or the break-glass token, which passes the factor with an audit  *)
(* entry only.                                                             *)
(***************************************************************************)
OnApi(q) == q.route = "api"
Preflight(s, q) == OnApi(q) /\ s.cors /\ q.method = "options"
Throttled(s, q, deny) == OnApi(q) /\ s.limited /\ deny
access_allows(s, who) == s.open \/ who \in {"member", "admin", "token"}
MfaRequired(s, q) == s.mfa
Page(q) == q.route = "app" /\ ~q.ws     \* can be sent elsewhere
Verdict(s, q, deny, proven) ==
    CASE s.kind = "external" -> "redirect"
      [] s.kind # "external" /\ Preflight(s, q) -> "204"
      [] s.kind # "external" /\ ~Preflight(s, q) ->
           CASE Throttled(s, q, deny) -> "429"
             [] ~Throttled(s, q, deny) /\ q.big -> "413"
             [] ~Throttled(s, q, deny) /\ ~q.big ->
                  IF ~access_allows(s, q.who)
                  THEN IF Page(q) /\ q.who = "anon" THEN "login" ELSE "denied"
                  ELSE IF MfaRequired(s, q) /\ q.who # "token" /\ ~proven
                  THEN IF Page(q) THEN "challenge" ELSE "denied"
                  ELSE "pass"
Gates(t, deny, proven) ==
    LET answer == Verdict(task[t].spec, task[t].q, deny, proven) IN
    /\ At(t, "gates")
    /\ proven => task[t].q.who \in {"member", "user", "admin"} /\ task[t].spec.mfa
    /\ IF answer # "pass" THEN Done(t)
       ELSE Go(t, [task[t] EXCEPT !.pc = "cold", !.proof = proven,
                                  !.lag = 0, !.fallback = FALSE])
    /\ UNCHANGED <<now, catalogVars, poolVars, changes>>

----------------------------------------------------------------------------
(***************************************************************************)
(* The cold start page and its probe; the replica.                         *)
(***************************************************************************)
StickyLive(t) == /\ task[t].q.cookie \in Replicas
                 /\ pool[task[t].q.cookie] \in {"ready", "draining", "dead"}
HasReady == \E r \in Replicas : LooksReady(r)
AtCapacity == Cardinality(Registered) >= MaxReplicas
Cold(t) == /\ task[t].q.route = "app" /\ ~task[t].q.ws /\ task[t].q.method = "get"
           /\ task[t].q.html /\ ~HasReady /\ ~StickyLive(t)
Splash(t) ==
    /\ At(t, "cold") /\ Cold(t)
    /\ IF AtCapacity THEN Done(t) ELSE Go(t, [task[t] EXCEPT !.pc = "spawning"])
    /\ UNCHANGED <<now, catalogVars, poolVars, changes>>
\* ensure_replica_available, in the background: it finds a replica meanwhile
\* ready, spawns one, or fails.
Spawning(t) ==
    /\ At(t, "spawning") /\ Done(t)
    /\ \/ UNCHANGED pool
       \/ /\ ~HasReady /\ ~AtCapacity
          /\ \E r \in Replicas : pool[r] = "none" /\ pool' = [pool EXCEPT ![r] = "ready"]
    /\ UNCHANGED <<now, catalogVars, gaugeVars, bodies, leaving, gc, changes>>
Warm(t) ==
    /\ At(t, "cold") /\ ~Cold(t)
    /\ Go(t, [task[t] EXCEPT !.pc = "resolve"])
    /\ UNCHANGED <<now, catalogVars, poolVars, changes>>
Resolved(t, r) == [task[t] EXCEPT !.pc = "send", !.r = r]
Resolve(t, r) ==
    /\ At(t, "resolve")
    /\ IF StickyLive(t) THEN r = task[t].q.cookie ELSE LooksReady(r)
    /\ Go(t, Resolved(t, r))
    /\ UNCHANGED <<now, catalogVars, poolVars, changes>>
SpawnNow(t) ==
    /\ At(t, "resolve") /\ ~StickyLive(t) /\ ~HasReady /\ ~AtCapacity
    /\ \E r \in Replicas : /\ pool[r] = "none"
                           /\ pool' = [pool EXCEPT ![r] = "ready"]
                           /\ Go(t, Resolved(t, r))
    /\ UNCHANGED <<now, catalogVars, gaugeVars, bodies, leaving, gc, changes>>
NoBackend(t) ==
    /\ At(t, "resolve") /\ ~StickyLive(t) /\ ~HasReady
    /\ Done(t)
    /\ UNCHANGED <<now, catalogVars, poolVars, changes>>

----------------------------------------------------------------------------
(***************************************************************************)
(* The upstream exchange, under a guard of the gauge on the API route.     *)
(***************************************************************************)
CountOf(r) == IF r \in DOMAIN inflight THEN inflight[r] ELSE 0
Sent(t, r) == task[t].pc \in {"reply", "reap"} /\ OnApi(task[t].q) /\ task[t].r = r
Guards(r) == Cardinality({t \in Tasks : Sent(t, r)}) + Cardinality({t \in Tasks : bodies[t] = r})
Without(R) == [r \in DOMAIN inflight \ R |-> inflight[r]]
\* InflightGuard::new
Counted(r) == [x \in DOMAIN inflight \cup {r} |-> CountOf(x) + IF x = r THEN 1 ELSE 0]
\* InflightGuard::drop: only an entry that exists is decremented.
Uncounted_NoOp(r) == inflight
Uncounted(r) == IF CountOf(r) = 0 THEN inflight ELSE [inflight EXCEPT ![r] = @ - 1]

Send(t) ==
    /\ At(t, "send") /\ ~task[t].q.ws
    /\ inflight' = IF OnApi(task[t].q) THEN Counted(task[t].r) ELSE inflight
    /\ Go(t, [task[t] EXCEPT !.pc = "reply"])
    /\ UNCHANGED <<now, catalogVars, pool, bodies, leaving, gc, excused, changes>>
\* The upgrade answers and hands the connection to the pump.
Upgrade(t) ==
    /\ At(t, "send") /\ task[t].q.ws /\ pool[task[t].r] \in {"ready", "draining"}
    /\ Done(t)
    /\ UNCHANGED <<now, catalogVars, poolVars, changes>>
\* The answer's body keeps the guard until its stream ends.
Reply(t) ==
    /\ At(t, "reply") /\ pool[task[t].r] \in {"ready", "draining"}
    /\ bodies' = [bodies EXCEPT ![t] = IF OnApi(task[t].q) THEN task[t].r ELSE NoReplica]
    /\ Done(t)
    /\ UNCHANGED <<now, catalogVars, pool, gaugeVars, leaving, gc, changes>>
BodyEnds(t) ==
    /\ bodies[t] # NoReplica
    /\ inflight' = Uncounted(bodies[t])
    /\ bodies' = [bodies EXCEPT ![t] = NoReplica]
    /\ UNCHANGED <<now, catalogVars, task, pool, leaving, gc, excused, changes>>

\* inflight_forget; the requests whose guards live on lose their count.
Forgets(r, guards) ==
    /\ inflight' = Without({r})
    /\ excused' = IF guards > 0 THEN excused \cup {r} ELSE excused
(***************************************************************************)
(* A send or a handshake that failed (for a GET or HEAD, twice). When the  *)
(* backend confirms that the container is gone, cleanup_replica_state      *)
(* takes the replica out of the registry, drops its sessions, and forgets  *)
(* its gauge; a replacement is spawned in the background, and the guard of *)
(* this request is dropped as the handler returns. A guard taken meanwhile *)
(* by a request that had found the replica before is the one it counts     *)
(* down. A client that leaves while its replica is reaped ends the reaping *)
(* where it stands.                                                        *)
(***************************************************************************)
Failing(t) == At(t, "reply") \/ (At(t, "send") /\ task[t].q.ws)
Reaping(t) == task[t].pc \in {"reap", "reap upgrade"}
SendFails(t) ==
    /\ Failing(t) \/ Reaping(t)
    /\ Done(t)
    /\ inflight' = IF Sent(t, task[t].r) THEN Uncounted(task[t].r) ELSE inflight
    /\ UNCHANGED <<now, catalogVars, pool, bodies, leaving, gc, excused, changes>>
Reap(t) ==
    /\ Failing(t) /\ pool[task[t].r] \in {"dead", "none"}
    /\ pool' = [pool EXCEPT ![task[t].r] = "none"]
    /\ Go(t, [task[t] EXCEPT !.pc = IF At(t, "reply") THEN "reap" ELSE "reap upgrade"])
    /\ UNCHANGED <<now, catalogVars, gaugeVars, bodies, leaving, gc, changes>>
Mine(t) == IF Sent(t, task[t].r) THEN 1 ELSE 0
Reaped(t) ==
    /\ Reaping(t)
    /\ Forgets(task[t].r, Guards(task[t].r) - Mine(t))
    /\ Go(t, IF Mine(t) = 1 THEN [task[t] EXCEPT !.pc = "return"]
             ELSE [task[t] EXCEPT !.pc = "spawning", !.r = NoReplica])
    /\ UNCHANGED <<now, catalogVars, pool, bodies, leaving, gc, changes>>
Returns(t) ==
    LET r == task[t].r IN
    /\ At(t, "return") /\ inflight' = Uncounted(r)
    /\ excused' = IF CountOf(r) > 0 THEN excused \cup {r} ELSE excused
    /\ Go(t, [task[t] EXCEPT !.pc = "spawning", !.r = NoReplica])
    /\ UNCHANGED <<now, catalogVars, pool, bodies, leaving, gc, changes>>

----------------------------------------------------------------------------
(***************************************************************************)
(* The world around: containers die or restart, the scaler stops or drains *)
(* replicas, re-adopts a container it had given up on or saw restart, and  *)
(* collects the gauges of replicas that left the registry it has just read.*)
(***************************************************************************)
World == /\ changes < MaxChanges /\ changes' = changes + 1
         /\ UNCHANGED <<now, catalogVars, task, bodies>>
Dies(r) == /\ pool[r] \in {"ready", "draining"} /\ pool' = [pool EXCEPT ![r] = "dead"]
           /\ World /\ UNCHANGED <<gaugeVars, leaving, gc>>
Drain(r) == /\ pool[r] = "ready" /\ pool' = [pool EXCEPT ![r] = "draining"]
            /\ World /\ UNCHANGED <<gaugeVars, leaving, gc>>
\* A stop, or mark_restart_detected: out of routing, and once the sessions
\* are dropped, the gauge is forgotten.
Leaves(r, as) == /\ pool' = [pool EXCEPT ![r] = as] /\ leaving' = leaving \cup {r}
                 /\ World /\ UNCHANGED <<gaugeVars, gc>>
Stop(r) == pool[r] # "none" /\ Leaves(r, "none")
Restarts(r) == pool[r] \in {"ready", "draining"} /\ Leaves(r, "restarting")
Left(r) == /\ r \in leaving /\ leaving' = leaving \ {r} /\ Forgets(r, Guards(r))
           /\ UNCHANGED <<now, catalogVars, task, pool, bodies, gc, changes>>
Adopt(r) == /\ pool[r] \in {"none", "restarting"} /\ pool' = [pool EXCEPT ![r] = "ready"]
            /\ Cardinality(Registered \ {r}) < MaxReplicas
            /\ World /\ UNCHANGED <<gaugeVars, leaving, gc>>
GcRead == /\ gc = NoGc /\ gc' = Registered
          /\ World /\ UNCHANGED <<pool, gaugeVars, leaving>>
GcRetain ==
    /\ gc # NoGc /\ gc' = NoGc
    /\ inflight' = Without(Replicas \ gc)
    /\ excused' = excused \cup {r \in Replicas \ gc : Guards(r) > 0}
    /\ UNCHANGED <<now, catalogVars, task, pool, bodies, leaving, changes>>

Step(t) ==
    \/ CacheHit(t) \/ (\E f \in BOOLEAN : Load(t, f)) \/ Fill(t)
    \/ (\E deny, proven \in BOOLEAN : Gates(t, deny, proven))
    \/ Splash(t) \/ Spawning(t) \/ Warm(t) \/ (\E r \in Replicas : Resolve(t, r))
    \/ SpawnNow(t) \/ NoBackend(t)
    \/ Send(t) \/ Upgrade(t) \/ Reply(t) \/ SendFails(t) \/ BodyEnds(t)
    \/ Reap(t) \/ Reaped(t) \/ Returns(t)
Next ==
    \/ Tick \/ (\E v \in Specs \cup {NoSpec} : Edit(v))
    \/ \E t \in Tasks : (\E q \in Requests : Arrive(t, q)) \/ Step(t)
    \/ \E r \in Replicas : Dies(r) \/ Drain(r) \/ Restarts(r) \/ Stop(r) \/ Left(r) \/ Adopt(r)
    \/ GcRead \/ GcRetain
Spec == Init /\ [][Next]_vars

----------------------------------------------------------------------------
(***************************************************************************)
(* Properties.                                                             *)
(***************************************************************************)
\* An edit of a spec (its access list, its second factor) governs every
\* request within the cache's TTL plus the longest lookup, whatever fills
\* race with it; only a lookup that failed serves an older, file-based spec.
EditsTakeEffect ==
    \A t \in Tasks : At(t, "gates") /\ ~task[t].fallback => task[t].lag < Ttl + LoadTime

\* A request that spawned or reached a container had every right to under
\* the spec it was judged by: its group, and a proof or the token where the
\* spec asks for a second factor; on every route, upgraded or not.
GatesHold ==
    \A t \in Tasks : task[t].pc \notin {"idle", "spec", "fill", "gates", "done"} =>
        LET s == task[t].spec  who == task[t].q.who IN
        /\ s.open \/ who \in {"member", "admin", "token"}
        /\ s.mfa => who = "token" \/ task[t].proof

\* Edits govern, and what reaches a container had the right to.
RequestsJudged == EditsTakeEffect /\ GatesHold

\* The gauge the scaler trusts never shows a request that is over, whatever
\* fails; and shows every request under way, unless the replica was
\* forgotten, or collected from an older reading, while it was busy, or the
\* request that reaped it dropped its guard, already forgotten, after another
\* had taken one.
InflightSound ==
    \A r \in Replicas :
        /\ CountOf(r) <= Guards(r)
        /\ r \notin excused => CountOf(r) = Guards(r)
=============================================================================
