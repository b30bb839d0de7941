---------------------------- MODULE Edge_proofs -----------------------------
(***************************************************************************)
(* What a request passes and leaves behind, proved for any number of       *)
(* requests, replicas, clients, tasks, alerts, events, hosts and images,   *)
(* any versions of a spec, and any windows, cooldowns, cache lifetimes,    *)
(* queue depths and batches: what a request is judged by is recent, what   *)
(* reaches a container passed every gate, and the gauge of an API's        *)
(* requests, read by the scaler, is right; no limiter lets more through    *)
(* than its limit and what was in flight; alerts are spaced; a viewed      *)
(* event is queued, stored under its key or counted lost; a bypass is      *)
(* audited or vouched for by one that is, unless its request was dropped;  *)
(* the disk page removes only what its readings allowed. Each part is      *)
(* proved of its own module, then of the whole.                            *)
(***************************************************************************)
EXTENDS Edge, FiniteSetTheorems, SequenceTheorems, TLAPS

-----------------------------------------------------------------------------
(* The requests. A lookup under way, and the answer that it leaves in the  *)
(* cache, was in force at most LoadTime before it is stored, and the cache *)
(* serves it for less than Ttl. The gauge counts the guards alive: those   *)
(* of the requests that wait for an answer and those of the bodies that    *)
(* still stream; a guard moves from the first to the second without being  *)
(* counted again, and whatever clears the gauge under a guard is recorded. *)

Versions == Specs \cup {NoSpec, Yaml}
Finished == [pc |-> "done"]
Aiming == {"send", "reply", "reap", "reap upgrade", "return"}
Past == {"cold", "spawning", "resolve"} \cup Aiming
Work == [pc : {"spec", "fill", "gates"} \cup Past,
         q : Requests, spec : Versions, since : Nat, lag : Nat, fallback : BOOLEAN,
         r : Replicas \cup {NoReplica}, proof : BOOLEAN]
Entry == [v : Versions, at : Nat, fallback : BOOLEAN]

TypeOK ==
    /\ now \in Nat /\ db \in Specs \cup {NoSpec} /\ last \in [Versions -> Nat]
    /\ cache \in Entry \cup {NoSpec}
    /\ task \in [Tasks -> {Idle, Finished} \cup Work]
    /\ bodies \in [Tasks -> Replicas \cup {NoReplica}]
    /\ DOMAIN inflight \subseteq Replicas /\ inflight \in [DOMAIN inflight -> Nat]

(* The version in force is in force now, none was later.                   *)
ClockOK == last[InForce] = now /\ \A v \in Versions : last[v] <= now

(* What the cache holds was in force at most LoadTime before it was stored.*)
CacheOK ==
    cache # NoSpec => /\ cache \in Entry /\ cache.at <= now
                      /\ ~cache.fallback => cache.at <= last[cache.v] + LoadTime

(* A lookup has taken at most LoadTime and found what was in force when it *)
(* began (at n, with inForce as it is then); who is at the gates has a spec*)
(* as recent as EditsTakeEffect says.                                      *)
LookupOK(x, n, inForce) ==
    /\ x.pc = "fill" => /\ x.since <= n /\ n <= x.since + LoadTime
                        /\ ~x.fallback => x.since <= inForce[x.spec]
    /\ x.pc = "gates" /\ ~x.fallback => x.lag < Ttl + LoadTime

(* Past the gates, what GatesHold says.                                    *)
PassedOK(x) ==
    x.pc \in Past =>
        /\ x.spec.open \/ x.q.who \in {"member", "admin", "token"}
        /\ x.spec.mfa => x.q.who = "token" \/ x.proof

(* A request has a replica from when it is sent until it has reaped it.    *)
CarriedOK(x) == x.pc \in Aiming => x.r \in Replicas

TasksOK ==
    \A t \in Tasks :
        /\ LookupOK(task[t], now, last) /\ PassedOK(task[t]) /\ CarriedOK(task[t])
        \* a body streams only when its request is over
        /\ bodies[t] # NoReplica => task[t] = Finished

(* The inductive invariant.                                                *)
ProxyInv == TypeOK /\ ClockOK /\ CacheOK /\ TasksOK /\ InflightSound
-----------------------------------------------------------------------------
(* Facts about one task, and about the gauge.                              *)

LEMMA Numbers == Ttl \in Nat /\ Ttl > 0 /\ LoadTime \in Nat /\ NoReplica \notin Replicas
  BY ProxyAssumption

LEMMA AtWork ==
    ASSUME TypeOK, NEW t \in Tasks, task[t].pc \notin {"idle", "done"}
    PROVE  task[t] \in Work
  BY DEF TypeOK, Idle, Finished

LEMMA FinishedOK == LookupOK(Finished, now, last) /\ PassedOK(Finished) /\ CarriedOK(Finished)
                      /\ Finished.pc = "done"
  BY DEF Finished, LookupOK, PassedOK, CarriedOK, Aiming, Past

(* The guards alive of a replica: of requests that wait, of bodies.        *)
Waiting(r) == {t \in Tasks : Sent(t, r)}
Streaming(r) == {t \in Tasks : bodies[t] = r}

LEMMA GuardsType ==
    ASSUME NEW r
    PROVE  /\ Guards(r) = Cardinality(Waiting(r)) + Cardinality(Streaming(r))
           /\ IsFiniteSet(Waiting(r)) /\ IsFiniteSet(Streaming(r))
           /\ Cardinality(Waiting(r)) \in Nat /\ Cardinality(Streaming(r)) \in Nat
           /\ Guards(r) \in Nat
<1>1. IsFiniteSet(Waiting(r)) /\ IsFiniteSet(Streaming(r))
  BY ProxyAssumption, FS_Subset DEF Waiting, Streaming
<1>2. Guards(r) = Cardinality(Waiting(r)) + Cardinality(Streaming(r))
  BY DEF Guards, Waiting, Streaming, Sent
<1> QED
  BY <1>1, <1>2, FS_CardinalityType

LEMMA GuardsNext ==
    ASSUME NEW r
    PROVE  Guards(r)' = Cardinality(Waiting(r)') + Cardinality(Streaming(r)')
  BY DEF Guards, Waiting, Streaming, Sent

LEMMA CountType ==
    ASSUME TypeOK, NEW r
    PROVE  CountOf(r) \in Nat
  BY DEF TypeOK, CountOf

(* Taking one task out, putting one in.                                    *)
LEMMA OneLess ==
    ASSUME NEW S, IsFiniteSet(S), NEW t \in S
    PROVE  Cardinality(S \ {t}) = Cardinality(S) - 1
  BY FS_RemoveElement

LEMMA OneMore ==
    ASSUME NEW S, IsFiniteSet(S), NEW t, t \notin S
    PROVE  Cardinality(S \cup {t}) = Cardinality(S) + 1
  BY FS_AddElement

LEMMA GaugeStays ==
    ASSUME InflightSound, UNCHANGED <<inflight, excused>>,
           \A r \in Replicas : Waiting(r)' = Waiting(r) /\ Streaming(r)' = Streaming(r)
    PROVE  InflightSound'
<1>1. \A r \in Replicas : Guards(r)' = Guards(r)
  BY DEF Guards, Waiting, Streaming, Sent
<1>2. \A r \in Replicas : CountOf(r)' = CountOf(r)
  BY DEF CountOf
<1> QED
  BY <1>1, <1>2 DEF InflightSound

(* A step of one task with nothing for the gauge: what it must show.       *)
LEMMA QuietStep ==
    ASSUME ProxyInv, NEW t \in Tasks, NEW rec \in {Finished} \cup Work, Go(t, rec),
           task[t].pc \notin {"reply", "reap", "done"}, rec.pc \notin {"reply", "reap"},
           LookupOK(rec, now, last), PassedOK(rec), CarriedOK(rec),
           UNCHANGED <<now, db, last, bodies, inflight, excused>>,
           cache' \in Entry \cup {NoSpec}, CacheOK'
    PROVE  ProxyInv'
<1> USE DEF ProxyInv, Go
<1>1. TypeOK'
  BY DEF TypeOK
<1>2. ClockOK'
  BY DEF ClockOK, InForce
<1>3. TasksOK'
  <2>1. bodies[t] = NoReplica
    BY DEF TasksOK, Finished
  <2>2. ASSUME NEW u \in Tasks
        PROVE  /\ LookupOK(task'[u], now, last) /\ PassedOK(task'[u]) /\ CarriedOK(task'[u])
               /\ bodies[u] # NoReplica => task'[u] = Finished
    <3>1. CASE u = t
      BY <2>1, <3>1 DEF TypeOK
    <3>2. CASE u # t
      BY <3>2 DEF TypeOK, TasksOK
    <3> QED
      BY <3>1, <3>2
  <2> QED
    BY <2>2 DEF TasksOK, LookupOK, PassedOK, CarriedOK, Aiming, Past
<1>4. InflightSound'
  <2>1. ASSUME NEW r \in Replicas PROVE Waiting(r)' = Waiting(r) /\ Streaming(r)' = Streaming(r)
    BY DEF Waiting, Streaming, Sent, Go, TypeOK
  <2> QED
    BY <2>1, GaugeStays
<1> QED
  BY <1>1, <1>2, <1>3, <1>4

(* The same for a task that is done with its request.                      *)
LEMMA QuietEnd ==
    ASSUME ProxyInv, NEW t \in Tasks, Done(t), task[t].pc \notin {"reply", "reap", "done"},
           UNCHANGED <<now, db, last, cache, bodies, inflight, excused>>
    PROVE  ProxyInv'
<1>1. Go(t, Finished) /\ Finished \in {Finished} \cup Work
  BY DEF Done, Finished
<1>2. cache' \in Entry \cup {NoSpec} /\ CacheOK'
  BY DEF ProxyInv, TypeOK, CacheOK
<1> QED
  BY <1>1, <1>2, FinishedOK, QuietStep

LEMMA CacheStays ==
    ASSUME ProxyInv, UNCHANGED <<now, last, cache>>
    PROVE  cache' \in Entry \cup {NoSpec} /\ CacheOK'
  BY DEF ProxyInv, TypeOK, CacheOK

-----------------------------------------------------------------------------
(* The clock, edits, lookups.                                              *)

LEMMA TickInv ==
    ASSUME ProxyInv, Tick
    PROVE  ProxyInv'
<1> USE Numbers DEF ProxyInv, Tick, poolVars, gaugeVars
<1>1. InForce \in Versions
  BY DEF InForce, Versions, TypeOK
<1>2. TypeOK'
  BY <1>1 DEF TypeOK
<1>3. \A v \in Versions : last'[v] >= last[v] /\ last'[v] <= now'
  BY <1>1 DEF ClockOK, TypeOK
<1>4. ClockOK'
  BY <1>1, <1>3 DEF ClockOK, InForce, TypeOK
<1>5. CacheOK'
  BY <1>3 DEF CacheOK, TypeOK, Entry
<1>6. TasksOK'
  <2>1. ASSUME NEW t \in Tasks PROVE LookupOK(task[t], now', last')
    <3>1. CASE task[t].pc = "fill"
      <4>1. task[t] \in Work /\ task[t].spec \in Versions /\ task[t].since \in Nat
        BY <3>1, AtWork DEF Work, Past, Aiming
      <4>2. now - task[t].since < LoadTime
        BY <3>1 DEF At
      <4> QED
        BY <1>3, <3>1, <4>1, <4>2 DEF LookupOK, TasksOK, TypeOK
    <3>2. CASE task[t].pc # "fill"
      BY <3>2 DEF LookupOK, TasksOK
    <3> QED
      BY <3>1, <3>2
  <2> QED
    BY <2>1 DEF TasksOK, PassedOK, CarriedOK, Aiming, Past
<1>7. InflightSound'
  BY DEF InflightSound, CountOf, Guards, Sent, At
<1> QED
  BY <1>2, <1>4, <1>5, <1>6, <1>7

LEMMA EditInv ==
    ASSUME ProxyInv, NEW v \in Specs \cup {NoSpec}, Edit(v)
    PROVE  ProxyInv'
<1> USE Numbers DEF ProxyInv, Edit, poolVars, gaugeVars
<1>1. InForce' \in Versions /\ InForce' = IF v # NoSpec THEN v ELSE Yaml
  BY DEF InForce, Versions
<1>2. TypeOK'
  BY <1>1 DEF TypeOK
<1>3. \A x \in Versions : last'[x] >= last[x] /\ last'[x] <= now'
  BY <1>1 DEF ClockOK, TypeOK
<1>4. ClockOK'
  BY <1>1, <1>3 DEF ClockOK, TypeOK
<1>5. CacheOK'
  BY <1>3 DEF CacheOK, TypeOK, Entry
<1>6. TasksOK'
  <2>1. ASSUME NEW t \in Tasks PROVE LookupOK(task[t], now', last')
    <3>1. CASE task[t].pc = "fill"
      <4>1. task[t] \in Work /\ task[t].spec \in Versions /\ task[t].since \in Nat
        BY <3>1, AtWork DEF Work, Past, Aiming
      <4> QED
        BY <1>3, <3>1, <4>1 DEF LookupOK, TasksOK, TypeOK
    <3>2. CASE task[t].pc # "fill"
      BY <3>2 DEF LookupOK, TasksOK
    <3> QED
      BY <3>1, <3>2
  <2> QED
    BY <2>1 DEF TasksOK, PassedOK, CarriedOK, Aiming, Past
<1>7. InflightSound'
  BY DEF InflightSound, CountOf, Guards, Sent, At
<1> QED
  BY <1>2, <1>4, <1>5, <1>6, <1>7

LEMMA ArriveInv ==
    ASSUME ProxyInv, NEW t \in Tasks, NEW q \in Requests, Arrive(t, q)
    PROVE  ProxyInv'
<1> USE DEF Arrive, catalogVars, poolVars, gaugeVars
<1>1. NewRequest(q) \in Work
  BY DEF NewRequest, Work, Versions
<1>2. LookupOK(NewRequest(q), now, last) /\ PassedOK(NewRequest(q)) /\ CarriedOK(NewRequest(q))
        /\ NewRequest(q).pc \notin {"reply", "reap"}
  BY DEF NewRequest, LookupOK, PassedOK, CarriedOK, Aiming, Past
<1>3. task[t].pc \notin {"reply", "reap", "done"}
  BY DEF Idle
<1> QED
  BY <1>1, <1>2, <1>3, QuietStep, CacheStays

(* A spec found, not too old: the request comes to its gates or ends.      *)
LEMMA WithInv ==
    ASSUME ProxyInv, NEW t \in Tasks, task[t] \in Work, task[t].pc \in {"spec", "fill"},
           NEW v \in Versions, NEW f \in BOOLEAN, With(t, v, f),
           f \/ now - last[v] < Ttl + LoadTime,
           UNCHANGED <<now, db, last, bodies, inflight, excused>>,
           cache' \in Entry \cup {NoSpec}, CacheOK'
    PROVE  ProxyInv'
<1>1. CASE v = NoSpec
  <2>1. Go(t, Finished)
    BY <1>1 DEF With, Done, Finished
  <2> QED
    BY <2>1, FinishedOK, QuietStep
<1>2. CASE v # NoSpec
  <2> DEFINE rec == [task[t] EXCEPT !.pc = "gates", !.spec = v, !.since = 0,
                                    !.lag = now - last[v], !.fallback = f]
  <2>1. Go(t, rec)
    BY <1>2 DEF With
  <2>2. now - last[v] \in Nat
    BY DEF ProxyInv, ClockOK, TypeOK
  <2>3. rec \in Work
    BY <2>2 DEF Work, Past, Aiming
  <2>5. rec.pc = "gates" /\ rec.fallback = f /\ rec.lag = now - last[v]
    BY DEF Work, Past, Aiming
  <2>6. LookupOK(rec, now, last) /\ PassedOK(rec) /\ CarriedOK(rec)
    BY <2>5 DEF LookupOK, PassedOK, CarriedOK, Aiming, Past
  <2> HIDE DEF rec
  <2> QED
    BY <2>1, <2>3, <2>5, <2>6, QuietStep
<1> QED
  BY <1>1, <1>2

LEMMA CacheHitInv ==
    ASSUME ProxyInv, NEW t \in Tasks, CacheHit(t)
    PROVE  ProxyInv'
<1> USE Numbers DEF CacheHit, catalogVars, poolVars, gaugeVars
<1>1. task[t] \in Work /\ task[t].pc = "spec"
  BY AtWork DEF At, ProxyInv
<1>2. cache \in Entry /\ now - cache.at < Ttl
  BY DEF CacheFresh, ProxyInv, TypeOK
<1>3. cache.v \in Versions /\ cache.fallback \in BOOLEAN /\ cache.at \in Nat
  BY <1>2 DEF Entry
<1>4. cache.fallback \/ now - last[cache.v] < Ttl + LoadTime
  BY <1>2, <1>3 DEF ProxyInv, CacheOK, CacheFresh, TypeOK
<1> QED
  BY <1>1, <1>3, <1>4, WithInv, CacheStays

LEMMA LoadInv ==
    ASSUME ProxyInv, NEW t \in Tasks, NEW f \in BOOLEAN, Load(t, f)
    PROVE  ProxyInv'
<1> USE Numbers DEF Load, catalogVars, poolVars, gaugeVars
<1> DEFINE v == IF f THEN Yaml ELSE InForce
           rec == [task[t] EXCEPT !.pc = "fill", !.since = now, !.fallback = f, !.spec = v]
<1>1. task[t] \in Work /\ task[t].pc = "spec"
  BY AtWork DEF At, ProxyInv
<1>2. v \in Versions /\ now \in Nat
  BY DEF InForce, Versions, ProxyInv, TypeOK
<1>3. rec \in Work /\ rec.pc = "fill" /\ rec.since = now /\ rec.spec = v /\ rec.fallback = f
  BY <1>1, <1>2 DEF Work, Past, Aiming
<1>5. ~f => last[v] = now
  BY DEF ProxyInv, ClockOK
<1>6. Go(t, rec)
  OBVIOUS
<1> HIDE DEF rec, v
<1>7. LookupOK(rec, now, last) /\ PassedOK(rec) /\ CarriedOK(rec)
  BY <1>2, <1>3, <1>5 DEF LookupOK, PassedOK, CarriedOK, Aiming, Past
<1> QED
  BY <1>1, <1>3, <1>6, <1>7, QuietStep, CacheStays

LEMMA FillInv ==
    ASSUME ProxyInv, NEW t \in Tasks, Fill(t)
    PROVE  ProxyInv'
<1> USE Numbers DEF Fill, poolVars, gaugeVars
<1> DEFINE x == task[t]
<1>1. x \in Work /\ x.pc = "fill"
  BY AtWork DEF At, ProxyInv
<1>2. x.spec \in Versions /\ x.fallback \in BOOLEAN /\ x.since \in Nat
  BY <1>1 DEF Work, Past, Aiming
<1>3. now \in Nat /\ last[x.spec] \in Nat
  BY <1>2 DEF ProxyInv, TypeOK
<1>4. x.fallback \/ now <= last[x.spec] + LoadTime
  BY <1>1, <1>2, <1>3 DEF ProxyInv, TasksOK, LookupOK
<1>5. UNCHANGED <<now, db, last, bodies, inflight, excused>> /\ With(t, x.spec, x.fallback)
  OBVIOUS
<1>6. cache' \in Entry \cup {NoSpec} /\ CacheOK'
  <2>1. CASE x.spec = NoSpec
    BY <2>1 DEF CacheOK
  <2>2. CASE x.spec # NoSpec
    <3>1. cache' = [v |-> x.spec, at |-> now, fallback |-> x.fallback]
      BY <2>2
    <3>2. cache' \in Entry /\ cache'.at = now /\ cache'.v = x.spec /\ cache'.fallback = x.fallback
      BY <1>2, <1>3, <3>1 DEF Entry
    <3> QED
      BY <1>3, <1>4, <1>5, <3>2 DEF CacheOK
  <2> QED
    BY <2>1, <2>2
<1>7. x.fallback \/ now - last[x.spec] < Ttl + LoadTime
  BY <1>3, <1>4
<1> QED
  BY <1>1, <1>2, <1>5, <1>6, <1>7, WithInv

-----------------------------------------------------------------------------
(* The gates, and the way to a replica.                                    *)

LEMMA PassMeans ==
    ASSUME NEW s, NEW q, NEW deny, NEW proven, Verdict(s, q, deny, proven) = "pass"
    PROVE  /\ s.open \/ q.who \in {"member", "admin", "token"}
           /\ s.mfa => q.who = "token" \/ proven
  BY DEF Verdict, access_allows, MfaRequired

LEMMA GatesInv ==
    ASSUME ProxyInv, NEW t \in Tasks, NEW deny \in BOOLEAN, NEW proven \in BOOLEAN,
           Gates(t, deny, proven)
    PROVE  ProxyInv'
<1> USE DEF Gates, catalogVars, poolVars, gaugeVars
<1> DEFINE rec == [task[t] EXCEPT !.pc = "cold", !.proof = proven, !.lag = 0, !.fallback = FALSE]
<1>1. task[t] \in Work /\ task[t].pc = "gates"
  BY AtWork DEF At, ProxyInv
<1>2. CASE Verdict(task[t].spec, task[t].q, deny, proven) = "pass"
  <2>1. Go(t, rec)
    BY <1>2
  <2>3. /\ rec \in Work /\ rec.pc = "cold" /\ rec.proof = proven
        /\ rec.spec = task[t].spec /\ rec.q = task[t].q
    BY <1>1 DEF Work, Past, Aiming
  <2> HIDE DEF rec
  <2>4. LookupOK(rec, now, last) /\ PassedOK(rec) /\ CarriedOK(rec)
    BY <1>2, <2>3, PassMeans DEF LookupOK, PassedOK, CarriedOK, Aiming, Past
  <2> QED
    BY <1>1, <2>1, <2>3, <2>4, QuietStep, CacheStays
<1>3. CASE Verdict(task[t].spec, task[t].q, deny, proven) # "pass"
  BY <1>1, <1>3, QuietEnd
<1> QED
  BY <1>2, <1>3

(* A request past its gates goes on, unchanged but for where it is.        *)
LEMMA OnwardInv ==
    ASSUME ProxyInv, NEW t \in Tasks, NEW pc \in {"spawning", "resolve"},
           task[t].pc \in {"cold", "send"}, Go(t, [task[t] EXCEPT !.pc = pc]),
           UNCHANGED <<now, catalogVars, bodies, inflight, excused>>
    PROVE  ProxyInv'
<1> USE DEF catalogVars
<1> DEFINE rec == [task[t] EXCEPT !.pc = pc]
<1>1. task[t] \in Work
  BY AtWork DEF ProxyInv
<1>2. rec \in Work /\ rec.pc = pc /\ rec.spec = task[t].spec /\ rec.q = task[t].q
        /\ rec.proof = task[t].proof
  BY <1>1 DEF Work, Past, Aiming
<1> HIDE DEF rec
<1>3. PassedOK(task[t])
  BY DEF ProxyInv, TasksOK
<1>4. LookupOK(rec, now, last) /\ PassedOK(rec) /\ CarriedOK(rec)
  BY <1>2, <1>3 DEF LookupOK, PassedOK, CarriedOK, Aiming, Past
<1>5. Go(t, rec)
  BY DEF rec
<1> QED
  BY <1>2, <1>4, <1>5, QuietStep, CacheStays

LEMMA SplashInv ==
    ASSUME ProxyInv, NEW t \in Tasks, Splash(t)
    PROVE  ProxyInv'
  BY OnwardInv, QuietEnd DEF Splash, At, catalogVars, poolVars, gaugeVars

LEMMA SpawningInv ==
    ASSUME ProxyInv, NEW t \in Tasks, Spawning(t)
    PROVE  ProxyInv'
  BY QuietEnd DEF Spawning, At, catalogVars, gaugeVars

LEMMA WarmInv ==
    ASSUME ProxyInv, NEW t \in Tasks, Warm(t)
    PROVE  ProxyInv'
  BY OnwardInv DEF Warm, At, catalogVars, poolVars, gaugeVars

(* A replica is found: the request is about to be sent to it.              *)
LEMMA ResolvedInv ==
    ASSUME ProxyInv, NEW t \in Tasks, NEW r \in Replicas, At(t, "resolve"),
           Go(t, Resolved(t, r)),
           UNCHANGED <<now, catalogVars, bodies, inflight, excused>>
    PROVE  ProxyInv'
<1> USE DEF catalogVars
<1> DEFINE rec == Resolved(t, r)
<1>1. task[t] \in Work /\ task[t].pc = "resolve"
  BY AtWork DEF ProxyInv, At
<1>3. rec \in Work /\ rec.pc = "send" /\ rec.spec = task[t].spec /\ rec.q = task[t].q
        /\ rec.proof = task[t].proof /\ rec.r = r
  BY <1>1 DEF Work, Past, Aiming, Resolved
<1> HIDE DEF rec
<1>4. PassedOK(task[t])
  BY DEF ProxyInv, TasksOK
<1>5. LookupOK(rec, now, last) /\ PassedOK(rec) /\ CarriedOK(rec)
  BY <1>1, <1>3, <1>4 DEF LookupOK, PassedOK, CarriedOK, Aiming, Past
<1>6. Go(t, rec)
  BY DEF rec
<1> QED
  BY <1>1, <1>3, <1>5, <1>6, QuietStep, CacheStays

LEMMA ResolveInv ==
    ASSUME ProxyInv, NEW t \in Tasks, NEW r \in Replicas, Resolve(t, r)
    PROVE  ProxyInv'
  BY ResolvedInv DEF Resolve, poolVars, gaugeVars

LEMMA SpawnNowInv ==
    ASSUME ProxyInv, NEW t \in Tasks, SpawnNow(t)
    PROVE  ProxyInv'
  BY ResolvedInv DEF SpawnNow, gaugeVars

LEMMA NoBackendInv ==
    ASSUME ProxyInv, NEW t \in Tasks, NoBackend(t)
    PROVE  ProxyInv'
  BY QuietEnd DEF NoBackend, At, catalogVars, poolVars, gaugeVars

LEMMA UpgradeInv ==
    ASSUME ProxyInv, NEW t \in Tasks, Upgrade(t)
    PROVE  ProxyInv'
  BY QuietEnd DEF Upgrade, At, catalogVars, poolVars, gaugeVars

-----------------------------------------------------------------------------
(* The exchange and its gauge.                                             *)

LEMMA WithoutCounts ==
    ASSUME TypeOK, NEW gone, inflight' = Without(gone)
    PROVE  /\ DOMAIN inflight' \subseteq Replicas /\ inflight' \in [DOMAIN inflight' -> Nat]
           /\ \A x \in Replicas : CountOf(x)' = IF x \in gone THEN 0 ELSE CountOf(x)
  BY DEF TypeOK, Without, CountOf

LEMMA CountedCounts ==
    ASSUME TypeOK, NEW r \in Replicas, inflight' = Counted(r)
    PROVE  /\ DOMAIN inflight' \subseteq Replicas /\ inflight' \in [DOMAIN inflight' -> Nat]
           /\ \A x \in Replicas : CountOf(x)' = IF x = r THEN CountOf(x) + 1 ELSE CountOf(x)
  BY DEF TypeOK, Counted, CountOf

LEMMA UncountedCounts ==
    ASSUME TypeOK, NEW r \in Replicas, inflight' = Uncounted(r)
    PROVE  /\ DOMAIN inflight' \subseteq Replicas /\ inflight' \in [DOMAIN inflight' -> Nat]
           /\ \A x \in Replicas :
                CountOf(x)' = IF x = r /\ CountOf(x) > 0 THEN CountOf(x) - 1 ELSE CountOf(x)
<1>1. CASE CountOf(r) = 0
  BY <1>1 DEF TypeOK, Uncounted, CountOf
<1>2. CASE CountOf(r) # 0
  <2>1. r \in DOMAIN inflight /\ inflight' = [inflight EXCEPT ![r] = @ - 1]
          /\ inflight[r] \in Nat /\ inflight[r] # 0
    BY <1>2 DEF TypeOK, Uncounted, CountOf
  <2> QED
    BY <2>1 DEF TypeOK, CountOf
<1> QED
  BY <1>1, <1>2

(* The part of the invariant that is about tasks, after a step of t that   *)
(* leaves the catalog alone.                                               *)
LEMMA TaskStep ==
    ASSUME ProxyInv, NEW t \in Tasks, NEW rec \in {Finished} \cup Work, Go(t, rec),
           PassedOK(rec), CarriedOK(rec), LookupOK(rec, now, last),
           bodies' \in [Tasks -> Replicas \cup {NoReplica}],
           \A u \in Tasks \ {t} : bodies'[u] = bodies[u],
           bodies'[t] # NoReplica => rec = Finished,
           DOMAIN inflight' \subseteq Replicas, inflight' \in [DOMAIN inflight' -> Nat],
           UNCHANGED <<now, catalogVars>>
    PROVE  TypeOK' /\ ClockOK' /\ CacheOK' /\ TasksOK'
<1> USE DEF ProxyInv, Go, catalogVars
<1>1. TypeOK'
  BY DEF TypeOK
<1>2. ClockOK' /\ CacheOK'
  BY DEF ClockOK, CacheOK, InForce
<1>3. ASSUME NEW u \in Tasks
      PROVE  /\ LookupOK(task'[u], now, last) /\ PassedOK(task'[u]) /\ CarriedOK(task'[u])
             /\ bodies'[u] # NoReplica => task'[u] = Finished
  <2>1. CASE u = t
    BY <2>1 DEF TypeOK
  <2>2. CASE u # t
    BY <2>2 DEF TypeOK, TasksOK
  <2> QED
    BY <2>1, <2>2
<1>4. TasksOK'
  BY <1>3 DEF TasksOK
<1> QED
  BY <1>1, <1>2, <1>4

(* A request that has a replica.                                           *)
LEMMA AimingTask ==
    ASSUME ProxyInv, NEW t \in Tasks, task[t].pc \in Aiming
    PROVE  /\ task[t] \in Work /\ task[t].r \in Replicas /\ bodies[t] = NoReplica
           /\ PassedOK(task[t])
<1>1. task[t] \in Work
  BY AtWork DEF ProxyInv, Aiming
<1>2. PassedOK(task[t]) /\ CarriedOK(task[t]) /\ (bodies[t] # NoReplica => task[t] = Finished)
  BY DEF ProxyInv, TasksOK
<1>3. task[t] # Finished
  BY FinishedOK DEF Aiming
<1>4. task[t].r \in Replicas
  BY <1>2 DEF CarriedOK
<1> QED
  BY <1>1, <1>2, <1>3, <1>4

LEMMA SendInv ==
    ASSUME ProxyInv, NEW t \in Tasks, Send(t)
    PROVE  ProxyInv'
<1> USE DEF Send
<1> DEFINE x == task[t]  rec == [x EXCEPT !.pc = "reply"]
<1>1. x \in Work /\ x.pc = "send"
  BY AtWork DEF ProxyInv, At
<1>2. /\ rec \in Work /\ rec.pc = "reply" /\ rec.spec = x.spec /\ rec.q = x.q
      /\ rec.proof = x.proof /\ rec.r = x.r
  BY <1>1 DEF Work, Past, Aiming
<1>3. x.r \in Replicas /\ bodies[t] = NoReplica /\ PassedOK(x)
  BY <1>1, AimingTask DEF Aiming
<1>4. x.r \in Replicas /\ bodies[t] = NoReplica
  BY <1>3
<1>5. Go(t, rec)
  OBVIOUS
<1>6. PassedOK(rec) /\ CarriedOK(rec) /\ LookupOK(rec, now, last)
  BY <1>1, <1>2, <1>3 DEF PassedOK, CarriedOK, LookupOK, Aiming, Past
<1>7. /\ DOMAIN inflight' \subseteq Replicas /\ inflight' \in [DOMAIN inflight' -> Nat]
      /\ \A y \in Replicas : CountOf(y)' = IF OnApi(x.q) /\ y = x.r THEN CountOf(y) + 1
                                          ELSE CountOf(y)
  <2>1. CASE OnApi(x.q)
    BY <1>4, <2>1, CountedCounts DEF ProxyInv
  <2>2. CASE ~OnApi(x.q)
    <3>1. inflight' = inflight
      BY <2>2
    <3> QED
      BY <2>2, <3>1 DEF ProxyInv, TypeOK, CountOf
  <2> QED
    BY <2>1, <2>2
<1>8. UNCHANGED <<now, catalogVars, bodies, excused>>
  OBVIOUS
<1> HIDE DEF rec, Send
<1>9. TypeOK' /\ ClockOK' /\ CacheOK' /\ TasksOK'
  BY <1>2, <1>4, <1>5, <1>6, <1>7, <1>8, TaskStep DEF ProxyInv, TypeOK
<1>10. InflightSound'
  <2> SUFFICES ASSUME NEW y \in Replicas
               PROVE  CountOf(y)' <= Guards(y)' /\ (y \notin excused' => CountOf(y)' = Guards(y)')
    BY DEF InflightSound
  <2>1. /\ CountOf(y) <= Guards(y) /\ (y \notin excused => CountOf(y) = Guards(y))
        /\ CountOf(y) \in Nat
    BY CountType DEF ProxyInv, InflightSound
  <2>2. Streaming(y)' = Streaming(y)
    BY <1>8 DEF Streaming
  <2>3. CASE OnApi(x.q) /\ y = x.r
    <3>1. Waiting(y)' = Waiting(y) \cup {t} /\ t \notin Waiting(y)
      BY <1>1, <1>2, <1>5, <2>3 DEF Waiting, Sent, At, Go, ProxyInv, TypeOK
    <3>2. Cardinality(Waiting(y)') = Cardinality(Waiting(y)) + 1
      BY <3>1, GuardsType, OneMore
    <3>3. Guards(y)' = Guards(y) + 1
      BY <2>2, <3>2, GuardsType, GuardsNext
    <3> QED
      BY <1>7, <1>8, <2>1, <2>3, <3>3, GuardsType
  <2>4. CASE ~(OnApi(x.q) /\ y = x.r)
    <3>1. Waiting(y)' = Waiting(y)
      BY <1>1, <1>2, <1>5, <2>4 DEF Waiting, Sent, At, Go, ProxyInv, TypeOK
    <3>2. Guards(y)' = Guards(y)
      BY <2>2, <3>1 DEF Guards, Waiting, Streaming, Sent
    <3> QED
      BY <1>7, <1>8, <2>1, <2>4, <3>2
  <2> QED
    BY <2>3, <2>4
<1> QED
  BY <1>9, <1>10 DEF ProxyInv

(* The guard goes with the body: it is moved, not counted again.           *)
LEMMA ReplyInv ==
    ASSUME ProxyInv, NEW t \in Tasks, Reply(t)
    PROVE  ProxyInv'
<1> USE DEF Reply
<1> DEFINE x == task[t]
<1>1. x \in Work /\ x.pc = "reply"
  BY AtWork DEF ProxyInv, At
<1>2. x.r \in Replicas /\ bodies[t] = NoReplica
  BY <1>1, AimingTask DEF Aiming
<1>3. /\ Go(t, Finished)
      /\ bodies' = [bodies EXCEPT ![t] = IF OnApi(x.q) THEN x.r ELSE NoReplica]
  BY DEF Done, Finished
<1>4. UNCHANGED <<now, catalogVars, inflight, excused>>
  BY DEF gaugeVars
<1> HIDE DEF Reply
<1>5. TypeOK' /\ ClockOK' /\ CacheOK' /\ TasksOK'
  BY <1>2, <1>3, <1>4, FinishedOK, TaskStep DEF ProxyInv, TypeOK
<1>6. InflightSound'
  <2>1. ASSUME NEW y \in Replicas PROVE Guards(y)' = Guards(y)
    <3>1. CASE OnApi(x.q) /\ y = x.r
      <4>1. Waiting(y)' = Waiting(y) \ {t} /\ t \in Waiting(y)
        BY <1>1, <1>3, <3>1 DEF Waiting, Sent, At, Go, ProxyInv, TypeOK, Finished
      <4>2. Streaming(y)' = Streaming(y) \cup {t} /\ t \notin Streaming(y)
        BY <1>2, <1>3, <3>1, Numbers DEF Streaming, ProxyInv, TypeOK
      <4>3. Cardinality(Waiting(y)') = Cardinality(Waiting(y)) - 1
        BY <4>1, GuardsType, OneLess
      <4>4. Cardinality(Streaming(y)') = Cardinality(Streaming(y)) + 1
        BY <4>2, GuardsType, OneMore
      <4> QED
        BY <4>3, <4>4, GuardsType, GuardsNext
    <3>2. CASE ~(OnApi(x.q) /\ y = x.r)
      <4>1. Waiting(y)' = Waiting(y)
        BY <1>1, <1>3, <3>2 DEF Waiting, Sent, At, Go, ProxyInv, TypeOK, Finished
      <4>2. Streaming(y)' = Streaming(y)
        BY <1>2, <1>3, <3>2, Numbers DEF Streaming, ProxyInv, TypeOK
      <4> QED
        BY <4>1, <4>2 DEF Guards, Waiting, Streaming, Sent
    <3> QED
      BY <3>1, <3>2
  <2>2. \A y \in Replicas : CountOf(y)' = CountOf(y)
    BY <1>4 DEF CountOf
  <2> QED
    BY <1>4, <2>1, <2>2 DEF InflightSound, ProxyInv
<1> QED
  BY <1>5, <1>6 DEF ProxyInv

(* A guard dropped: one guard less, and one less on the gauge unless the   *)
(* gauge was cleared.                                                      *)
LEMMA GuardDropped ==
    ASSUME TypeOK, InflightSound, NEW r \in Replicas, inflight' = Uncounted(r),
           UNCHANGED excused, Guards(r) > 0, Guards(r)' = Guards(r) - 1,
           \A y \in Replicas \ {r} : Guards(y)' = Guards(y)
    PROVE  InflightSound'
<1> SUFFICES ASSUME NEW y \in Replicas
             PROVE  CountOf(y)' <= Guards(y)' /\ (y \notin excused' => CountOf(y)' = Guards(y)')
  BY DEF InflightSound
<1>1. /\ CountOf(y) <= Guards(y) /\ (y \notin excused => CountOf(y) = Guards(y))
      /\ CountOf(y) \in Nat /\ Guards(y) \in Nat
  BY CountType, GuardsType DEF InflightSound
<1>2. CountOf(y)' = IF y = r /\ CountOf(y) > 0 THEN CountOf(y) - 1 ELSE CountOf(y)
  BY UncountedCounts
<1>3. CASE y = r
  BY <1>1, <1>2, <1>3
<1>4. CASE y # r
  BY <1>1, <1>2, <1>4
<1> QED
  BY <1>3, <1>4

LEMMA BodyEndsInv ==
    ASSUME ProxyInv, NEW t \in Tasks, BodyEnds(t)
    PROVE  ProxyInv'
<1> USE DEF BodyEnds, catalogVars
<1>1. PICK r \in Replicas : r = bodies[t]
  BY DEF ProxyInv, TypeOK
<1>2. TypeOK'
  BY <1>1, UncountedCounts DEF ProxyInv, TypeOK
<1>3. ClockOK' /\ CacheOK'
  BY DEF ProxyInv, ClockOK, CacheOK, InForce
<1>4. TasksOK'
  BY DEF ProxyInv, TasksOK, TypeOK
<1>5. \A y : Waiting(y)' = Waiting(y)
  BY DEF Waiting, Sent, At
<1>6. Guards(r)' = Guards(r) - 1 /\ Guards(r) > 0
  <2>1. Streaming(r)' = Streaming(r) \ {t} /\ t \in Streaming(r)
    BY <1>1, Numbers DEF Streaming, ProxyInv, TypeOK
  <2>2. Cardinality(Streaming(r)') = Cardinality(Streaming(r)) - 1
    BY <2>1, GuardsType, OneLess
  <2>3. Cardinality(Streaming(r)') \in Nat
    BY <2>1, GuardsType, FS_Subset, FS_CardinalityType
  <2> QED
    BY <1>5, <2>2, <2>3, GuardsType, GuardsNext
<1>7. ASSUME NEW y \in Replicas \ {r} PROVE Guards(y)' = Guards(y)
  <2>1. Streaming(y)' = Streaming(y)
    BY <1>1, <1>7, Numbers DEF Streaming, ProxyInv, TypeOK
  <2> QED
    BY <1>5, <2>1 DEF Guards, Waiting, Streaming, Sent
<1>8. InflightSound'
  BY <1>1, <1>6, <1>7, GuardDropped DEF ProxyInv
<1> QED
  BY <1>2, <1>3, <1>4, <1>8 DEF ProxyInv

(* A step of a request that waits no more: what becomes of the guards.     *)
LEMMA GuardOfTask ==
    ASSUME ProxyInv, NEW t \in Tasks, NEW rec \in {Finished} \cup Work, Go(t, rec),
           rec.pc \notin {"reply", "reap"}, UNCHANGED bodies, NEW y \in Replicas
    PROVE  /\ Guards(y) \in Nat /\ Guards(y)' \in Nat
           /\ Guards(y)' = Guards(y) - IF Sent(t, y) THEN 1 ELSE 0
<1>1. Streaming(y)' = Streaming(y)
  BY DEF Streaming
<1>2. CASE Sent(t, y)
  <2>1. Waiting(y)' = Waiting(y) \ {t} /\ t \in Waiting(y)
    BY <1>2 DEF Waiting, Sent, Go, ProxyInv, TypeOK
  <2>2. Cardinality(Waiting(y)') = Cardinality(Waiting(y)) - 1
    BY <2>1, GuardsType, OneLess
  <2>3. Cardinality(Waiting(y)') \in Nat
    BY <2>1, GuardsType, FS_Subset, FS_CardinalityType
  <2> QED
    BY <1>1, <1>2, <2>2, <2>3, GuardsType, GuardsNext
<1>3. CASE ~Sent(t, y)
  <2>1. Waiting(y)' = Waiting(y)
    BY <1>3 DEF Waiting, Sent, Go, ProxyInv, TypeOK
  <2> QED
    BY <1>1, <1>3, <2>1, GuardsType, GuardsNext
<1> QED
  BY <1>2, <1>3

(* The part of the invariant that is about tasks, when such a request goes *)
(* on.                                                                     *)
LEMMA AimingStep ==
    ASSUME ProxyInv, NEW t \in Tasks, task[t].pc \in Aiming,
           NEW pc \in {"reap", "reap upgrade", "return", "spawning"},
           NEW r \in {task[t].r, NoReplica}, pc # "spawning" => r = task[t].r,
           Go(t, [task[t] EXCEPT !.pc = pc, !.r = r]), UNCHANGED <<now, catalogVars, bodies>>,
           DOMAIN inflight' \subseteq Replicas, inflight' \in [DOMAIN inflight' -> Nat]
    PROVE  /\ TypeOK' /\ ClockOK' /\ CacheOK' /\ TasksOK'
           /\ [task[t] EXCEPT !.pc = pc, !.r = r] \in Work
<1> DEFINE x == task[t]  rec == [x EXCEPT !.pc = pc, !.r = r]
<1>1. x \in Work /\ x.r \in Replicas /\ bodies[t] = NoReplica /\ PassedOK(x)
  BY AimingTask
<1>2. rec \in Work /\ rec.pc = pc /\ rec.spec = x.spec /\ rec.q = x.q /\ rec.proof = x.proof
      /\ rec.r = r
  BY <1>1 DEF Work, Past, Aiming
<1>3. Go(t, rec)
  OBVIOUS
<1> HIDE DEF rec
<1>4. PassedOK(rec) /\ CarriedOK(rec) /\ LookupOK(rec, now, last)
  BY <1>1, <1>2 DEF PassedOK, CarriedOK, LookupOK, Aiming, Past
<1>5. bodies' \in [Tasks -> Replicas \cup {NoReplica}]
  BY DEF ProxyInv, TypeOK
<1>6. TypeOK' /\ ClockOK' /\ CacheOK' /\ TasksOK'
  BY <1>1, <1>2, <1>3, <1>4, <1>5, TaskStep
<1> QED
  BY <1>2, <1>6 DEF rec

(* A failed exchange: its guard is dropped.                                *)
LEMMA SendFailsInv ==
    ASSUME ProxyInv, NEW t \in Tasks, SendFails(t)
    PROVE  ProxyInv'
<1>0. task[t].pc \in {"send", "reply", "reap", "reap upgrade"}
  BY DEF SendFails, Failing, Reaping, At
<1>2. task[t] \in Work /\ task[t].r \in Replicas /\ bodies[t] = NoReplica
  BY <1>0, AimingTask DEF Aiming
<1>7. PICK r \in Replicas : r = task[t].r
  BY <1>2
<1>1. /\ Go(t, Finished) /\ Finished.pc = "done"
      /\ UNCHANGED <<now, catalogVars, bodies, excused>>
      /\ inflight' = IF Sent(t, r) THEN Uncounted(r) ELSE inflight
  BY <1>7 DEF SendFails, Done, Finished
<1>3. \A y \in Replicas : Sent(t, y) => y = r
  BY <1>7 DEF Sent
<1>4. \A y \in Replicas : /\ Guards(y) \in Nat /\ Guards(y)' \in Nat
                          /\ Guards(y)' = Guards(y) - IF Sent(t, y) THEN 1 ELSE 0
  BY <1>1, GuardOfTask
<1>5. CASE Sent(t, r)
  <2>1. inflight' = Uncounted(r) /\ Guards(r)' = Guards(r) - 1 /\ Guards(r) > 0
    <3>1. Guards(r) \in Nat /\ Guards(r)' \in Nat /\ Guards(r)' = Guards(r) - 1
      BY <1>2, <1>4, <1>5
    <3> QED
      BY <1>1, <1>5, <3>1
  <2>5. ASSUME NEW y \in Replicas \ {r} PROVE Guards(y)' = Guards(y)
    <3>1. ~Sent(t, y)
      BY <1>3, <2>5
    <3>2. Guards(y) \in Nat /\ Guards(y)' = Guards(y) - 0
      BY <1>4, <2>5, <3>1
    <3> QED
      BY <3>2
  <2>2. InflightSound'
    BY <1>1, <1>2, <2>1, <2>5, GuardDropped DEF ProxyInv
  <2>3. DOMAIN inflight' \subseteq Replicas /\ inflight' \in [DOMAIN inflight' -> Nat]
    BY <1>2, <2>1, UncountedCounts DEF ProxyInv
  <2>4. TypeOK' /\ ClockOK' /\ CacheOK' /\ TasksOK'
    BY <1>1, <1>2, <2>3, FinishedOK, TaskStep DEF ProxyInv, TypeOK
  <2> QED
    BY <2>2, <2>4 DEF ProxyInv
<1>6. CASE ~Sent(t, r)
  <2>1. inflight' = inflight /\ \A y \in Replicas : Guards(y)' = Guards(y)
    BY <1>1, <1>3, <1>4, <1>6
  <2>2. \A y \in Replicas : CountOf(y)' = CountOf(y)
    BY <2>1 DEF CountOf
  <2>3. InflightSound'
    BY <1>1, <2>1, <2>2 DEF ProxyInv, InflightSound
  <2>4. DOMAIN inflight' \subseteq Replicas /\ inflight' \in [DOMAIN inflight' -> Nat]
    BY <2>1 DEF ProxyInv, TypeOK
  <2>5. TypeOK' /\ ClockOK' /\ CacheOK' /\ TasksOK'
    BY <1>1, <1>2, <2>4, FinishedOK, TaskStep DEF ProxyInv, TypeOK
  <2> QED
    BY <2>3, <2>5 DEF ProxyInv
<1> QED
  BY <1>5, <1>6

(* The dead replica goes; the guard of the request that reaps it stays.    *)
LEMMA ReapInv ==
    ASSUME ProxyInv, NEW t \in Tasks, Reap(t)
    PROVE  ProxyInv'
<1> DEFINE pc == IF At(t, "reply") THEN "reap" ELSE "reap upgrade"
           rec == [task[t] EXCEPT !.pc = pc, !.r = task[t].r]
<1>1. task[t].pc \in {"send", "reply"} /\ UNCHANGED <<now, catalogVars, bodies, inflight, excused>>
  BY DEF Reap, Failing, At, gaugeVars
<1>2. task[t] \in Work
  BY <1>1, AimingTask DEF Aiming
<1>3. rec = [task[t] EXCEPT !.pc = pc]
  BY <1>2 DEF Work
<1>4. Go(t, rec)
  BY <1>3 DEF Reap
<1>5. DOMAIN inflight' \subseteq Replicas /\ inflight' \in [DOMAIN inflight' -> Nat]
  BY <1>1 DEF ProxyInv, TypeOK
<1>6. rec \in Work /\ rec.pc = pc /\ rec.q = task[t].q /\ rec.r = task[t].r
  BY <1>2 DEF Work, Past, Aiming
<1>7. TypeOK' /\ ClockOK' /\ CacheOK' /\ TasksOK'
  BY <1>1, <1>4, <1>5, AimingStep DEF Aiming
<1> HIDE DEF rec
<1>8. \A y \in Replicas : Waiting(y)' = Waiting(y) /\ Streaming(y)' = Streaming(y)
  <2> TAKE y \in Replicas
  <2>1. \A u \in Tasks : Sent(u, y)' <=> Sent(u, y)
    <3> TAKE u \in Tasks
    <3>1. CASE u = t
      <4>1. task'[t] = rec
        BY <1>4 DEF Go, ProxyInv, TypeOK
      <4>2. At(t, "reply") <=> task[t].pc = "reply"
        BY DEF At
      <4> QED
        BY <1>1, <1>6, <3>1, <4>1, <4>2 DEF Sent
    <3>2. CASE u # t
      BY <1>4, <3>2 DEF Sent, Go, ProxyInv, TypeOK
    <3> QED
      BY <3>1, <3>2
  <2> QED
    BY <1>1, <2>1 DEF Waiting, Streaming
<1>9. InflightSound'
  BY <1>1, <1>8, GaugeStays DEF ProxyInv
<1> QED
  BY <1>7, <1>9 DEF ProxyInv

(* The gauge of the dead replica is forgotten; the request's own guard     *)
(* lives on, uncounted and no longer one of those alive.                   *)
LEMMA ReapedInv ==
    ASSUME ProxyInv, NEW t \in Tasks, Reaped(t)
    PROVE  ProxyInv'
<1>0. task[t].pc \in {"reap", "reap upgrade"} /\ UNCHANGED <<now, catalogVars, bodies>>
  BY DEF Reaped, Reaping
<1>2. task[t] \in Work /\ task[t].r \in Replicas
  BY <1>0, AimingTask DEF Aiming
<1>11. PICK r \in Replicas : r = task[t].r
  BY <1>2
<1> DEFINE pc == IF Mine(t) = 1 THEN "return" ELSE "spawning"
           s == IF Mine(t) = 1 THEN r ELSE NoReplica
           rec == [task[t] EXCEPT !.pc = pc, !.r = s]
<1>1. /\ inflight' = Without({r})
      /\ excused' = IF Guards(r) - Mine(t) > 0 THEN excused \cup {r} ELSE excused
  BY <1>11 DEF Reaped, Reaping, Forgets
<1>3. Go(t, rec)
  <2>1. CASE Mine(t) = 1
    <3>1. rec = [task[t] EXCEPT !.pc = "return"]
      BY <1>2, <1>11, <2>1 DEF Work
    <3> QED
      BY <2>1, <3>1 DEF Reaped, Reaping
  <2>2. CASE Mine(t) # 1
    BY <2>2 DEF Reaped, Reaping
  <2> QED
    BY <2>1, <2>2
<1>4. /\ DOMAIN inflight' \subseteq Replicas /\ inflight' \in [DOMAIN inflight' -> Nat]
      /\ \A y \in Replicas : CountOf(y)' = IF y \in {r} THEN 0 ELSE CountOf(y)
  BY <1>1, WithoutCounts DEF ProxyInv
<1>5. TypeOK' /\ ClockOK' /\ CacheOK' /\ TasksOK' /\ rec \in Work
  BY <1>0, <1>3, <1>4, <1>11, AimingStep DEF Aiming
<1>6. rec.pc \notin {"reply", "reap"}
  BY <1>2 DEF Work
<1>7. Mine(t) = IF Sent(t, r) THEN 1 ELSE 0
  BY <1>11 DEF Mine
<1> HIDE DEF rec, pc, s
<1>8. \A y \in Replicas : /\ Guards(y) \in Nat /\ Guards(y)' \in Nat
                          /\ Guards(y)' = Guards(y) - IF Sent(t, y) THEN 1 ELSE 0
  BY <1>0, <1>3, <1>5, <1>6, GuardOfTask
<1>9. \A y \in Replicas : Sent(t, y) => y = r
  BY <1>11 DEF Sent
<1>10. InflightSound'
  <2> SUFFICES ASSUME NEW y \in Replicas
               PROVE  CountOf(y)' <= Guards(y)' /\ (y \notin excused' => CountOf(y)' = Guards(y)')
    BY DEF InflightSound
  <2>1. CASE y = r
    <3>1. Guards(r) \in Nat /\ Guards(r)' \in Nat /\ Guards(r)' = Guards(r) - Mine(t)
      BY <1>2, <1>7, <1>8
    <3>2. CountOf(r)' = 0
      BY <1>2, <1>4
    <3>3. r \notin excused' => ~(Guards(r) - Mine(t) > 0)
      BY <1>1
    <3> QED
      BY <2>1, <3>1, <3>2, <3>3
  <2>2. CASE y # r
    <3>1. Guards(y)' = Guards(y)
      BY <1>8, <1>9, <2>2
    <3> QED
      BY <1>0, <1>1, <1>4, <2>2, <3>1 DEF ProxyInv, InflightSound
  <2> QED
    BY <2>1, <2>2
<1> QED
  BY <1>5, <1>10 DEF ProxyInv

(* The uncounted guard is dropped: whoever it counts down is recorded.     *)
LEMMA ReturnsInv ==
    ASSUME ProxyInv, NEW t \in Tasks, Returns(t)
    PROVE  ProxyInv'
<1> DEFINE rec == [task[t] EXCEPT !.pc = "spawning", !.r = NoReplica]
<1>0. task[t].pc = "return" /\ UNCHANGED <<now, catalogVars, bodies>> /\ Go(t, rec)
  BY DEF Returns, At
<1>2. task[t] \in Work /\ task[t].r \in Replicas
  BY <1>0, AimingTask DEF Aiming
<1>9. PICK r \in Replicas : r = task[t].r
  BY <1>2
<1>1. /\ inflight' = Uncounted(r)
      /\ excused' = IF CountOf(r) > 0 THEN excused \cup {r} ELSE excused
  BY <1>9 DEF Returns
<1>3. /\ DOMAIN inflight' \subseteq Replicas /\ inflight' \in [DOMAIN inflight' -> Nat]
      /\ \A y \in Replicas :
           CountOf(y)' = IF y = r /\ CountOf(y) > 0 THEN CountOf(y) - 1 ELSE CountOf(y)
  BY <1>1, <1>2, UncountedCounts DEF ProxyInv
<1>4. TypeOK' /\ ClockOK' /\ CacheOK' /\ TasksOK' /\ rec \in Work
  BY <1>0, <1>3, AimingStep DEF Aiming
<1>5. rec.pc \notin {"reply", "reap"}
  BY <1>2 DEF Work
<1>6. \A y : ~Sent(t, y)
  BY <1>0 DEF Sent
<1> HIDE DEF rec
<1>7. \A y \in Replicas : Guards(y) \in Nat /\ Guards(y)' = Guards(y)
  BY <1>0, <1>4, <1>5, <1>6, GuardOfTask
<1>8. InflightSound'
  <2> SUFFICES ASSUME NEW y \in Replicas
               PROVE  CountOf(y)' <= Guards(y)' /\ (y \notin excused' => CountOf(y)' = Guards(y)')
    BY DEF InflightSound
  <2>1. /\ CountOf(y) <= Guards(y) /\ (y \notin excused => CountOf(y) = Guards(y))
        /\ CountOf(y) \in Nat /\ Guards(y) \in Nat
    BY <1>7, CountType DEF ProxyInv, InflightSound
  <2>2. CASE y = r /\ CountOf(y) > 0
    BY <1>1, <1>3, <1>7, <2>1, <2>2
  <2>3. CASE ~(y = r /\ CountOf(y) > 0)
    BY <1>1, <1>3, <1>7, <2>1, <2>3
  <2> QED
    BY <2>2, <2>3
<1> QED
  BY <1>4, <1>8 DEF ProxyInv

-----------------------------------------------------------------------------
(* The world around.                                                       *)

LEMMA WorldStep ==
    ASSUME ProxyInv, UNCHANGED <<now, catalogVars, task, bodies>>,
           DOMAIN inflight' \subseteq Replicas, inflight' \in [DOMAIN inflight' -> Nat],
           InflightSound'
    PROVE  ProxyInv'
<1> USE DEF catalogVars
<1>1. TypeOK'
  BY DEF ProxyInv, TypeOK
<1>2. ClockOK' /\ CacheOK' /\ TasksOK'
  BY DEF ProxyInv, ClockOK, CacheOK, InForce, TasksOK
<1> QED
  BY <1>1, <1>2 DEF ProxyInv

LEMMA QuietWorld ==
    ASSUME ProxyInv, UNCHANGED <<now, catalogVars, task, bodies, inflight, excused>>
    PROVE  ProxyInv'
<1>1. InflightSound'
  BY DEF ProxyInv, InflightSound, CountOf, Guards, Sent, At
<1> QED
  BY <1>1, WorldStep DEF ProxyInv, TypeOK

(* The gauges of those gone are forgotten, and who was busy is recorded.   *)
LEMMA ForgetStep ==
    ASSUME ProxyInv, UNCHANGED <<now, catalogVars, task, bodies>>,
           NEW gone, inflight' = Without(gone),
           excused \subseteq excused', \A y \in Replicas \cap gone : Guards(y) > 0 => y \in excused'
    PROVE  ProxyInv'
<1>1. /\ DOMAIN inflight' \subseteq Replicas /\ inflight' \in [DOMAIN inflight' -> Nat]
      /\ \A y \in Replicas : CountOf(y)' = IF y \in gone THEN 0 ELSE CountOf(y)
  BY WithoutCounts DEF ProxyInv
<1>2. InflightSound'
  <2> SUFFICES ASSUME NEW y \in Replicas
               PROVE  CountOf(y)' <= Guards(y)' /\ (y \notin excused' => CountOf(y)' = Guards(y)')
    BY DEF InflightSound
  <2>1. Guards(y)' = Guards(y) /\ Guards(y) \in Nat
    BY GuardsType DEF Guards, Sent, At
  <2>2. CountOf(y) <= Guards(y) /\ (y \notin excused => CountOf(y) = Guards(y))
    BY DEF ProxyInv, InflightSound
  <2> QED
    BY <1>1, <2>1, <2>2
<1> QED
  BY <1>1, <1>2, WorldStep

LEMMA LeftInv ==
    ASSUME ProxyInv, NEW r \in Replicas, Left(r)
    PROVE  ProxyInv'
<1>1. /\ UNCHANGED <<now, catalogVars, task, bodies>> /\ inflight' = Without({r})
      /\ excused' = IF Guards(r) > 0 THEN excused \cup {r} ELSE excused
  BY DEF Left, Forgets
<1>2. excused \subseteq excused' /\ \A y \in Replicas \cap {r} : Guards(y) > 0 => y \in excused'
  BY <1>1
<1> QED
  BY <1>1, <1>2, ForgetStep

LEMMA GcRetainInv ==
    ASSUME ProxyInv, GcRetain
    PROVE  ProxyInv'
<1>1. /\ excused \subseteq excused'
      /\ \A y \in Replicas \cap (Replicas \ gc) : Guards(y) > 0 => y \in excused'
  BY DEF GcRetain
<1>2. UNCHANGED <<now, catalogVars, task, bodies>> /\ inflight' = Without(Replicas \ gc)
  BY DEF GcRetain
<1> QED
  BY <1>1, <1>2, ForgetStep

LEMMA InitInv == Init => ProxyInv
<1> SUFFICES ASSUME Init PROVE ProxyInv
  OBVIOUS
<1> USE Numbers DEF Init
<1>1. InForce \in Versions
  BY DEF InForce, Versions
<1>2. TypeOK
  BY <1>1 DEF TypeOK, Versions
<1>3. ClockOK /\ CacheOK
  BY <1>1 DEF ClockOK, CacheOK, Versions
<1>4. TasksOK
  BY DEF TasksOK, LookupOK, PassedOK, CarriedOK, Aiming, Past, Idle
<1>5. InflightSound
  <2>1. ASSUME NEW r \in Replicas PROVE Waiting(r) = {} /\ Streaming(r) = {} /\ CountOf(r) = 0
    BY DEF Waiting, Streaming, Sent, At, Idle, CountOf
  <2>2. \A r \in Replicas : Guards(r) = 0
    BY <2>1, GuardsType, FS_EmptySet
  <2> QED
    BY <2>1, <2>2 DEF InflightSound
<1> QED
  BY <1>2, <1>3, <1>4, <1>5 DEF ProxyInv

LEMMA NextInv ==
    ASSUME ProxyInv, [Next]_vars
    PROVE  ProxyInv'
<1>1. ASSUME NEW t \in Tasks, Step(t) PROVE ProxyInv'
  BY <1>1, CacheHitInv, LoadInv, FillInv, GatesInv, SplashInv, SpawningInv, WarmInv,
     ResolveInv, SpawnNowInv, NoBackendInv, SendInv, UpgradeInv, ReplyInv, SendFailsInv,
     ReapInv, ReapedInv, ReturnsInv, BodyEndsInv, Zenon DEF Step
<1>2. ASSUME NEW r \in Replicas, Dies(r) \/ Drain(r) \/ Stop(r) \/ Restarts(r) \/ Adopt(r)
      PROVE  ProxyInv'
  BY <1>2, QuietWorld DEF Dies, Drain, Stop, Restarts, Leaves, Adopt, World, gaugeVars
<1>3. ASSUME GcRead PROVE ProxyInv'
  BY <1>3, QuietWorld DEF GcRead, World, gaugeVars
<1>4. CASE UNCHANGED vars
  BY <1>4, QuietWorld DEF vars, catalogVars
<1> QED
  BY <1>1, <1>2, <1>3, <1>4, TickInv, EditInv, ArriveInv, LeftInv, GcRetainInv, Zenon DEF Next

(* In every reachable state of the proxy (requests at every stage, spec    *)
(* cache, gauge, bodies still streaming) the inductive invariant holds.    *)
THEOREM ProxyInvariance == Spec => []ProxyInv
  BY InitInv, NextInv, PTL DEF Spec

(* A request at its gates is judged by a spec that was in force less than  *)
(* SPEC_CACHE_TTL and one lookup ago, whatever edits and fills race, and   *)
(* no request spawned or reached a container that its spec did not let in. *)
THEOREM RequestsAreJudged == Spec => []RequestsJudged
<1>1. ProxyInv => RequestsJudged
  <2> SUFFICES ASSUME ProxyInv PROVE RequestsJudged
    OBVIOUS
  <2>1. EditsTakeEffect
    BY DEF ProxyInv, TasksOK, LookupOK, EditsTakeEffect, At
  <2>2. GatesHold
    <3> SUFFICES ASSUME NEW t \in Tasks,
                        task[t].pc \notin {"idle", "spec", "fill", "gates", "done"}
                 PROVE  /\ task[t].spec.open \/ task[t].q.who \in {"member", "admin", "token"}
                        /\ task[t].spec.mfa => task[t].q.who = "token" \/ task[t].proof
      BY DEF GatesHold
    <3>1. PassedOK(task[t])
      BY DEF ProxyInv, TasksOK
    <3>2. task[t] \in Work
      BY AtWork DEF ProxyInv
    <3>3. task[t].pc \in Past
      BY <3>2 DEF Work
    <3> QED
      BY <3>1, <3>3 DEF PassedOK
  <2> QED
    BY <2>1, <2>2 DEF RequestsJudged
<1> QED
  BY <1>1, ProxyInvariance, PTL

(* The gauge of an API's requests never shows one that is over, and shows  *)
(* every one under way unless its replica was forgotten while it was busy, *)
(* or the request that reaped it counted another's guard down.             *)
THEOREM InflightIsSound == Spec => []InflightSound
<1>1. ProxyInv => InflightSound
  BY DEF ProxyInv
<1> QED
  BY <1>1, ProxyInvariance, PTL

LEMMA SubsetCardinality ==
    ASSUME NEW T0, IsFiniteSet(T0), NEW T \in SUBSET T0
    PROVE  IsFiniteSet(T) /\ Cardinality(T) \in Nat
BY FS_Subset, FS_CardinalityType

-----------------------------------------------------------------------------
(* The limiters.                                                           *)

(* Of the stamps p, those from x to y.                                     *)
Between(p, x, y) == {i \in 1..Len(p) : p[i] \in x..y}

(* q is what is left of p after its first n.                               *)
After(p, n, q) == /\ n \in 0..Len(p) /\ Len(q) = Len(p) - n
                  /\ \A i \in 1..Len(q) : q[i] = p[n + i]

LEMMA BetweenFinite ==
    ASSUME NEW p \in Seq(Nat), NEW x, NEW y
    PROVE  IsFiniteSet(Between(p, x, y)) /\ Cardinality(Between(p, x, y)) \in Nat
<1>1. Len(p) \in Nat
  OBVIOUS
<1>2. IsFiniteSet(1..Len(p))
  BY <1>1, FS_Interval
<1>3. Between(p, x, y) \in SUBSET (1..Len(p))
  BY DEF Between
<1> QED
  BY <1>2, <1>3, SubsetCardinality

(* Stamps that leave the count of an interval as it is, or add one to it.  *)
LEMMA BetweenAppend ==
    ASSUME NEW p \in Seq(Nat), NEW a \in Nat, NEW x, NEW y
    PROVE  Between(Append(p, a), x, y) =
             IF a \in x..y THEN Between(p, x, y) \cup {Len(p) + 1} ELSE Between(p, x, y)
<1> DEFINE q == Append(p, a)
<1>1. /\ Len(p) \in Nat /\ Len(q) = Len(p) + 1 /\ q[Len(p) + 1] = a
      /\ \A i \in 1..Len(p) : q[i] = p[i]
  BY AppendProperties, LenProperties
<1> HIDE DEF q
<1>2. \A i : i \in 1..Len(q) <=> (i \in 1..Len(p) \/ i = Len(p) + 1)
  BY <1>1
<1>3. Len(p) + 1 \notin 1..Len(p)
  BY <1>1
<1>4. \A i \in 1..Len(p) : i \in Between(q, x, y) <=> i \in Between(p, x, y)
  BY <1>1, <1>2 DEF Between
<1>5. Len(p) + 1 \in Between(q, x, y) <=> a \in x..y
  BY <1>1, <1>2 DEF Between
<1>6. \A i \in Between(q, x, y) : i \in 1..Len(p) \/ i = Len(p) + 1
  BY <1>2 DEF Between
<1>7. Between(p, x, y) \subseteq 1..Len(p)
  BY DEF Between
<1>8. Between(q, x, y) =
             IF a \in x..y THEN Between(p, x, y) \cup {Len(p) + 1} ELSE Between(p, x, y)
  <2>1. CASE a \in x..y
    <3>1. \A i : i \in Between(q, x, y) <=> i \in Between(p, x, y) \cup {Len(p) + 1}
      BY <1>4, <1>5, <1>6, <1>7, <2>1
    <3> QED
      BY <2>1, <3>1
  <2>2. CASE a \notin x..y
    <3>1. \A i : i \in Between(q, x, y) <=> i \in Between(p, x, y)
      BY <1>4, <1>5, <1>6, <1>7, <2>2
    <3> QED
      BY <2>2, <3>1
  <2> QED
    BY <2>1, <2>2
<1> QED
  BY <1>8 DEF q

(* An interval that holds nothing of the first n holds no more than is     *)
(* left after them.                                                        *)
LEMMA BetweenAfter ==
    ASSUME NEW p \in Seq(Nat), NEW q \in Seq(Nat), NEW n, After(p, n, q), NEW x, NEW y,
           \A i \in 1..n : p[i] \notin x..y
    PROVE  Cardinality(Between(p, x, y)) <= Len(q)
<1>1. Len(p) \in Nat /\ Len(q) \in Nat /\ n \in Nat /\ n <= Len(p) /\ Len(q) = Len(p) - n
  BY LenProperties DEF After
<1>2. Between(p, x, y) \in SUBSET ((n + 1)..Len(p))
  <2>1. ASSUME NEW i \in Between(p, x, y) PROVE i \in (n + 1)..Len(p)
    <3>1. i \in 1..Len(p) /\ p[i] \in x..y
      BY DEF Between
    <3>2. i \notin 1..n
      BY <3>1
    <3> QED
      BY <1>1, <3>1, <3>2
  <2> QED
    BY <2>1
<1>3. IsFiniteSet((n + 1)..Len(p)) /\ Cardinality((n + 1)..Len(p)) = Len(q)
  <2>1. n + 1 \in Int /\ Len(p) \in Int
    BY <1>1
  <2>2. /\ IsFiniteSet((n + 1)..Len(p))
        /\ Cardinality((n + 1)..Len(p)) = IF n + 1 > Len(p) THEN 0 ELSE Len(p) - (n + 1) + 1
    BY <2>1, FS_Interval
  <2> QED
    BY <1>1, <2>2
<1> QED
  BY <1>2, <1>3, FS_Subset

(* A set of natural numbers has a least one.                               *)
LEMMA LeastOf ==
    ASSUME NEW T \in SUBSET Nat, T # {}
    PROVE  \E x \in T : \A y \in T : x <= y
<1>1. PICK x \in T : \A y \in T : ~(<<y, x>> \in OpToRel(<, Nat))
  BY NatLessThanWellFounded, WFMin
<1>2. \A y \in T : ~(y < x)
  BY <1>1 DEF OpToRel
<1> QED
  BY <1>2

(* Pruning drops the front as long as it is older than the window.         *)
LEMMA PrunedAfter ==
    ASSUME NEW q \in Seq(Nat), NEW at \in Nat
    PROVE  /\ R!Pruned(q, at) \in Seq(Nat)
           /\ \E n : After(q, n, R!Pruned(q, at)) /\ \A i \in 1..n : q[i] + Window < at
<1> DEFINE live == {i \in 1..Len(q) : R!Age(at, q[i]) <= Window}
<1>0. Len(q) \in Nat /\ \A i \in 1..Len(q) : q[i] \in Nat
  BY LenProperties
<1>1. \A i \in 1..Len(q) : i \notin live => q[i] + Window < at
  BY <1>0, LimitersAssumption DEF R!Age
<1>2. CASE live = {}
  <2>1. R!Pruned(q, at) = <<>>
    BY <1>2 DEF R!Pruned
  <2>2. After(q, Len(q), <<>>)
    BY <1>0 DEF After
  <2>3. <<>> \in Seq(Nat)
    OBVIOUS
  <2>4. \A i \in 1..Len(q) : q[i] + Window < at
    BY <1>1, <1>2
  <2> QED
    BY <2>1, <2>2, <2>3, <2>4
<1>3. CASE live # {}
  <2> DEFINE m == CHOOSE i \in live : \A j \in live : i <= j
             s == SubSeq(q, m, Len(q))
  <2>1. live \subseteq Nat
    BY <1>0
  <2>2. \E i \in live : \A j \in live : i <= j
    BY <1>3, <2>1, LeastOf
  <2>3. m \in live /\ \A j \in live : m <= j
    BY <2>2
  <2>4. R!Pruned(q, at) = s
    BY <1>3 DEF R!Pruned
  <2>5. m \in 1..Len(q)
    BY <2>3
  <2> HIDE DEF m, live
  <2>6. \A i \in 1..(m - 1) : i \in 1..Len(q) /\ i \notin live
    BY <1>0, <2>3, <2>5
  <2>7. \A i \in m..Len(q) : q[i] \in Nat
    BY <1>0, <2>5
  <2>8. /\ s \in Seq(Nat) /\ Len(s) = Len(q) - m + 1
        /\ \A i \in 1..(Len(q) - m + 1) : s[i] = q[m + i - 1]
    BY <1>0, <2>5, <2>7, SubSeqProperties
  <2> HIDE DEF s
  <2>9. After(q, m - 1, s)
    <3>1. m - 1 \in 0..Len(q) /\ Len(s) = Len(q) - (m - 1)
      BY <1>0, <2>5, <2>8
    <3>2. \A i \in 1..Len(s) : s[i] = q[(m - 1) + i]
      BY <1>0, <2>5, <2>8
    <3> QED
      BY <3>1, <3>2 DEF After
  <2>10. \A i \in 1..(m - 1) : q[i] + Window < at
    BY <1>1, <2>6
  <2> QED
    BY <2>4, <2>8, <2>9, <2>10
<1> QED
  BY <1>2, <1>3

(* What a request in a limiter does; the limiters' types.                  *)
LimitWorks == [pc : {"stamped", "swept", "verify"}, client : Clients, at : Nat]
LimitTypes ==
    /\ kind \in R!Kinds /\ limitNow \in Nat \ {0}
    /\ hits \in [Clients -> Seq(Nat)] /\ passed \in [Clients -> Seq(Nat)]
    /\ limitTask \in [LimitTasks -> {R!Idle} \cup LimitWorks]

(* The stamp of a request is at most Skew ticks old.                       *)
StampFits(j, n) == j.pc \in {"stamped", "swept"} => j.at <= n /\ n - j.at <= Skew
StampsFit == \A t \in LimitTasks : StampFits(limitTask[t], limitNow)

(* Stamps p that were let through, of which q is remembered: none is from  *)
(* the future, a later one is older by the skew at most, and what is       *)
(* forgotten was out of the window.                                        *)
Forgetting(k) == IF k = "api" THEN Skew ELSE 0
Remembers(k, n, p, q) ==
    /\ \A i \in 1..Len(p) : p[i] <= n
    /\ \A i, j \in 1..Len(p) : i <= j => p[i] <= p[j] + Skew
    /\ \E m : After(p, m, q) /\ \A i \in 1..m : p[i] + Window < n + Forgetting(k)
HistoryFits == \A c \in Clients : Remembers(kind, limitNow, passed[c], hits[c])

(* Failures of the window and passwords being checked, together.           *)
Verifying == {t \in LimitTasks : limitTask[t].pc = "verify"}
Login == CHOOSE k \in Clients : TRUE
LoginFits ==
    kind = "login" /\ Verifying # {} =>
        Cardinality(Between(passed[Login], limitNow - Window, limitNow)) + Cardinality(Verifying)
          <= Limit + Cardinality(LimitTasks) - 1

Most == Limit + (IF kind = "login" THEN Cardinality(LimitTasks) - 1 ELSE 0)
WindowFits ==
    \A c \in Clients, x \in Nat :
        Cardinality(Between(passed[c], x, x + Window - R!Slack)) <= Most

LimitInv == LimitTypes /\ StampsFit /\ HistoryFits /\ LoginFits /\ WindowFits

(* The slack and the number of tasks are numbers.                          *)
LEMMA LimitNumbers ==
    /\ Cardinality(LimitTasks) \in Nat \ {0} /\ Most \in Nat /\ R!Slack \in Nat
    /\ kind = "api" => R!Slack = 2 * Skew
    /\ kind = "confirm" => R!Slack = Skew /\ Most = Limit
    /\ kind = "login" => R!Slack = 0 /\ Most = Limit + Cardinality(LimitTasks) - 1
<1>1. Cardinality(LimitTasks) \in Nat
  BY LimitersAssumption, FS_CardinalityType
<1>2. Cardinality(LimitTasks) # 0
  BY LimitersAssumption, FS_EmptySet
<1>3. CASE kind = "api"
  BY <1>1, <1>2, <1>3, LimitersAssumption DEF Most, R!Slack
<1>4. CASE kind = "confirm"
  BY <1>1, <1>2, <1>4, LimitersAssumption DEF Most, R!Slack
<1>5. CASE kind \notin {"api", "confirm"}
  BY <1>1, <1>2, <1>5, LimitersAssumption DEF Most, R!Slack
<1> QED
  BY <1>3, <1>4, <1>5

(* What the clock leaves behind stays behind.                              *)
LEMMA RemembersOn ==
    ASSUME NEW k, NEW n \in Nat, NEW m \in Nat, n <= m, NEW p \in Seq(Nat), NEW q,
           Remembers(k, n, p, q)
    PROVE  Remembers(k, m, p, q)
<1>1. Forgetting(k) \in Nat
  BY LimitersAssumption DEF Forgetting
<1>2. \A i \in 1..Len(p) : p[i] \in Nat /\ p[i] <= n
  BY DEF Remembers
<1>3. PICK a : After(p, a, q) /\ \A i \in 1..a : p[i] + Window < n + Forgetting(k)
  BY DEF Remembers
<1>4. a \in Nat /\ a <= Len(p) /\ Len(p) \in Nat
  BY <1>3 DEF After
<1>5. \A i \in 1..a : p[i] + Window < m + Forgetting(k)
  BY <1>1, <1>2, <1>3, <1>4, LimitersAssumption
<1>6. \A i \in 1..Len(p) : p[i] <= m
  BY <1>2
<1> QED
  BY <1>3, <1>5, <1>6 DEF Remembers

(* Pruning forgets only what is out of the window.                         *)
LEMMA RemembersPruned ==
    ASSUME NEW k, NEW n \in Nat, NEW at \in Nat, at <= n, NEW p \in Seq(Nat),
           NEW q \in Seq(Nat), Remembers(k, n, p, q)
    PROVE  Remembers(k, n, p, R!Pruned(q, at))
<1> DEFINE s == R!Pruned(q, at)
<1>0. Forgetting(k) \in Nat /\ Window \in Nat
  BY LimitersAssumption DEF Forgetting
<1>1. s \in Seq(Nat) /\ \E b : After(q, b, s) /\ \A i \in 1..b : q[i] + Window < at
  BY PrunedAfter
<1> HIDE DEF s
<1>2. PICK b : After(q, b, s) /\ \A i \in 1..b : q[i] + Window < at
  BY <1>1
<1>3. PICK a : After(p, a, q) /\ \A i \in 1..a : p[i] + Window < n + Forgetting(k)
  BY DEF Remembers
<1>4. /\ a \in Nat /\ b \in Nat /\ Len(p) \in Nat /\ Len(q) = Len(p) - a /\ Len(s) = Len(q) - b
      /\ a <= Len(p) /\ b <= Len(q) /\ Len(q) \in Nat /\ Len(s) \in Nat
  <2>1. Len(p) \in Nat /\ Len(q) \in Nat /\ Len(s) \in Nat
    BY <1>1, LenProperties
  <2>2. a \in 0..Len(p) /\ Len(q) = Len(p) - a
    BY <1>3 DEF After
  <2>3. b \in 0..Len(q) /\ Len(s) = Len(q) - b
    BY <1>2 DEF After
  <2> QED
    BY <2>1, <2>2, <2>3
<1>5. \A i \in 1..Len(s) : s[i] = q[b + i]
  BY <1>2 DEF After
<1>6. \A i \in 1..Len(q) : q[i] = p[a + i]
  BY <1>3 DEF After
<1>7. \A i \in 1..Len(s) : s[i] = p[(a + b) + i]
  <2> TAKE i \in 1..Len(s)
  <2>1. b + i \in 1..Len(q)
    BY <1>4
  <2>2. a + (b + i) = (a + b) + i
    BY <1>4
  <2> QED
    BY <1>5, <1>6, <2>1, <2>2
<1>8. After(p, a + b, s)
  <2>1. a + b \in 0..Len(p) /\ Len(s) = Len(p) - (a + b)
    BY <1>4
  <2> QED
    BY <1>7, <2>1 DEF After
<1>9. \A i \in 1..(a + b) : p[i] + Window < n + Forgetting(k)
  <2> TAKE i \in 1..(a + b)
  <2>1. CASE i <= a
    BY <1>3, <1>4, <2>1
  <2>2. CASE i > a
    <3>1. i - a \in 1..b /\ i - a \in 1..Len(q) /\ a + (i - a) = i
      BY <1>4, <2>2
    <3>2. q[i - a] = p[i] /\ q[i - a] + Window < at
      BY <1>2, <1>6, <3>1
    <3>3. p[i] \in Nat
      BY <1>4, <3>1
    <3> QED
      BY <1>0, <3>2, <3>3
  <2> QED
    BY <1>4, <2>1, <2>2
<1>10. Remembers(k, n, p, s)
  BY <1>8, <1>9 DEF Remembers
<1> QED
  BY <1>10 DEF s

(* A sweep forgets a client whose last stamp is out of the window.         *)
LEMMA RemembersDropped ==
    ASSUME NEW n \in Nat, NEW at \in Nat, at <= n, NEW p \in Seq(Nat), NEW q \in Seq(Nat),
           Remembers("api", n, p, q), R!Dropped(q, at)
    PROVE  Remembers("api", n, p, <<>>)
<1>0. Skew \in Nat /\ Window \in Nat /\ Forgetting("api") = Skew
  BY LimitersAssumption DEF Forgetting
<1>1. PICK a : After(p, a, q) /\ \A i \in 1..a : p[i] + Window < n + Skew
  BY <1>0 DEF Remembers
<1>2. /\ a \in Nat /\ Len(p) \in Nat /\ Len(q) = Len(p) - a /\ Len(q) \in Nat
      /\ \A i \in 1..Len(q) : q[i] = p[a + i]
  BY <1>1, LenProperties DEF After
<1>3. q # <<>> /\ q[Len(q)] + Window < at
  <2>1. q # <<>> /\ R!Age(at, q[Len(q)]) > Window
    BY DEF R!Dropped, R!Last
  <2>2. Len(q) \in 1..Len(q)
    BY <1>2, <2>1
  <2>3. q[Len(q)] \in Nat
    BY <2>2
  <2> QED
    BY <1>0, <2>1, <2>3 DEF R!Age
<1>4. Len(q) \in 1..Len(q) /\ a + Len(q) = Len(p) /\ Len(p) \in 1..Len(p)
  BY <1>2, <1>3
<1>5. p[Len(p)] + Window < at
  BY <1>2, <1>3, <1>4
<1>6. \A i \in 1..Len(p) : p[i] \in Nat /\ p[i] <= p[Len(p)] + Skew
  BY <1>4 DEF Remembers
<1>7. \A i \in 1..Len(p) : p[i] + Window < n + Skew
  BY <1>0, <1>4, <1>5, <1>6
<1>8. After(p, Len(p), <<>>)
  BY <1>2 DEF After
<1> QED
  BY <1>0, <1>7, <1>8 DEF Remembers

(* A stamp is let through and remembered.                                  *)
LEMMA RemembersAppend ==
    ASSUME NEW k, NEW n \in Nat, NEW a \in Nat, a <= n, n - a <= Skew, NEW p \in Seq(Nat),
           NEW q \in Seq(Nat), Remembers(k, n, p, q)
    PROVE  Remembers(k, n, Append(p, a), Append(q, a))
<1> DEFINE pa == Append(p, a)
           qa == Append(q, a)
<1>0. Skew \in Nat
  BY LimitersAssumption
<1>1. PICK m : After(p, m, q) /\ \A i \in 1..m : p[i] + Window < n + Forgetting(k)
  BY DEF Remembers
<1>2. /\ Len(pa) = Len(p) + 1 /\ pa[Len(p) + 1] = a /\ \A i \in 1..Len(p) : pa[i] = p[i]
      /\ Len(qa) = Len(q) + 1 /\ qa[Len(q) + 1] = a /\ \A i \in 1..Len(q) : qa[i] = q[i]
      /\ pa \in Seq(Nat) /\ qa \in Seq(Nat) /\ Len(p) \in Nat /\ Len(q) \in Nat
  BY AppendProperties, LenProperties
<1> HIDE DEF pa, qa
<1>3. m \in Nat /\ m <= Len(p) /\ Len(q) = Len(p) - m /\ \A i \in 1..Len(q) : q[i] = p[m + i]
  BY <1>1, <1>2 DEF After
<1>4. \A i \in 1..Len(pa) : i \in 1..Len(p) \/ i = Len(p) + 1
  BY <1>2
<1>5. \A i \in 1..Len(p) : p[i] \in Nat /\ p[i] <= n
  BY DEF Remembers
<1>6. \A i \in 1..Len(pa) : pa[i] \in Nat /\ pa[i] <= n
  BY <1>2, <1>4, <1>5
<1>7. ASSUME NEW i \in 1..Len(pa), NEW j \in 1..Len(pa), i <= j
      PROVE  pa[i] <= pa[j] + Skew
  <2>1. CASE j = Len(p) + 1
    BY <1>0, <1>2, <1>6, <2>1
  <2>2. CASE j \in 1..Len(p)
    <3>1. i \in 1..Len(p)
      BY <1>2, <1>7, <2>2
    <3> QED
      BY <1>2, <1>7, <2>2, <3>1 DEF Remembers
  <2> QED
    BY <1>4, <2>1, <2>2
<1>8. After(pa, m, qa)
  <2>1. ASSUME NEW i \in 1..Len(qa) PROVE qa[i] = pa[m + i]
    <3>1. CASE i \in 1..Len(q)
      <4>1. m + i \in 1..Len(p)
        BY <1>2, <1>3, <3>1
      <4> QED
        BY <1>2, <1>3, <3>1, <4>1
    <3>2. CASE i = Len(q) + 1
      <4>1. m + i = Len(p) + 1
        BY <1>2, <1>3, <3>2
      <4> QED
        BY <1>2, <3>2, <4>1
    <3> QED
      BY <1>2, <3>1, <3>2
  <2>2. m \in 0..Len(pa) /\ Len(qa) = Len(pa) - m
    BY <1>2, <1>3
  <2> QED
    BY <2>1, <2>2 DEF After
<1>9. \A i \in 1..m : pa[i] + Window < n + Forgetting(k)
  <2> TAKE i \in 1..m
  <2>1. i \in 1..Len(p)
    BY <1>2, <1>3
  <2> QED
    BY <1>1, <1>2, <2>1
<1>10. Remembers(k, n, pa, qa)
  BY <1>6, <1>7, <1>8, <1>9 DEF Remembers
<1> QED
  BY <1>10 DEF pa, qa

(* One more stamp, where at most Most - 1 that can share an interval with  *)
(* it are remembered.                                                      *)
LEMMA WindowAppend ==
    ASSUME NEW n \in Nat, NEW a \in Nat, a <= n, n - a <= Skew, NEW p \in Seq(Nat),
           NEW q \in Seq(Nat), NEW k, NEW w \in Int, NEW most \in Nat,
           Remembers(k, n, p, q), w + Skew + Forgetting(k) <= Window, Len(q) < most,
           NEW x \in Nat, Cardinality(Between(p, x, x + w)) <= most
    PROVE  Cardinality(Between(Append(p, a), x, x + w)) <= most
<1>0. Skew \in Nat /\ Window \in Nat /\ Forgetting(k) \in Nat
  BY LimitersAssumption DEF Forgetting
<1>1. PICK m : After(p, m, q) /\ \A i \in 1..m : p[i] + Window < n + Forgetting(k)
  BY DEF Remembers
<1>2. CASE a \in x..(x + w)
  <2>1. m \in Nat /\ m <= Len(p) /\ Len(p) \in Nat /\ Len(q) \in Nat
    BY <1>1, LenProperties DEF After
  <2>2. \A i \in 1..m : p[i] \notin x..(x + w)
    <3> TAKE i \in 1..m
    <3>1. p[i] \in Nat
      BY <2>1
    <3>2. p[i] + Window < n + Forgetting(k)
      BY <1>1
    <3>3. n <= x + w + Skew
      BY <1>0, <1>2
    <3>4. p[i] < x
      BY <1>0, <3>1, <3>2, <3>3
    <3> QED
      BY <3>1, <3>4
  <2>3. Cardinality(Between(p, x, x + w)) <= Len(q)
    BY <1>1, <2>2, BetweenAfter
  <2>4. /\ IsFiniteSet(Between(p, x, x + w)) /\ Cardinality(Between(p, x, x + w)) \in Nat
        /\ Len(p) + 1 \notin Between(p, x, x + w)
    <3>1. Len(p) + 1 \notin 1..Len(p)
      BY <2>1
    <3>2. Len(p) + 1 \notin Between(p, x, x + w)
      BY <3>1 DEF Between
    <3> QED
      BY <3>2, BetweenFinite
  <2>5. Between(Append(p, a), x, x + w) = Between(p, x, x + w) \cup {Len(p) + 1}
    BY <1>2, BetweenAppend
  <2>6. Cardinality(Between(Append(p, a), x, x + w)) = Cardinality(Between(p, x, x + w)) + 1
    BY <2>4, <2>5, FS_AddElement
  <2> QED
    BY <2>1, <2>3, <2>4, <2>6
<1>3. CASE a \notin x..(x + w)
  BY <1>3, BetweenAppend
<1> QED
  BY <1>2, <1>3

(* The failures of the window that are remembered.                         *)
LEMMA RecentRemembered ==
    ASSUME NEW k, k # "api", NEW n \in Nat, NEW p \in Seq(Nat), NEW q \in Seq(Nat),
           Remembers(k, n, p, q)
    PROVE  Cardinality(Between(p, n - Window, n)) <= Len(q)
<1>1. PICK m : After(p, m, q) /\ \A i \in 1..m : p[i] + Window < n
  BY DEF Remembers, Forgetting
<1>2. m \in Nat /\ m <= Len(p) /\ Len(p) \in Nat
  BY <1>1, LenProperties DEF After
<1>3. \A i \in 1..m : p[i] \notin (n - Window)..n
  <2> TAKE i \in 1..m
  <2>1. p[i] \in Nat /\ p[i] + Window < n
    BY <1>1, <1>2
  <2> QED
    BY <2>1, LimitersAssumption
<1> QED
  BY <1>1, <1>3, BetweenAfter

(* A step that lets nothing through and starts no verification.            *)
LEMMA LimitQuiet ==
    ASSUME LimitInv, kind' = kind, limitNow' = limitNow, passed' = passed,
           LimitTypes', StampsFit', HistoryFits', Verifying' \subseteq Verifying
    PROVE  LimitInv'
<1>1. WindowFits'
  BY DEF LimitInv, WindowFits, R!Slack, Most
<1>2. LoginFits'
  <2> SUFFICES ASSUME kind = "login", Verifying' # {}
               PROVE  Cardinality(Between(passed[Login], limitNow - Window, limitNow))
                        + Cardinality(Verifying') <= Limit + Cardinality(LimitTasks) - 1
    BY DEF LoginFits
  <2>1. Verifying # {} /\ Verifying \in SUBSET LimitTasks
    BY DEF Verifying
  <2>2. Cardinality(Verifying') <= Cardinality(Verifying) /\ Cardinality(Verifying) \in Nat
          /\ Cardinality(Verifying') \in Nat
    BY <2>1, LimitersAssumption, SubsetCardinality, FS_Subset
  <2>3. Cardinality(Between(passed[Login], limitNow - Window, limitNow))
          + Cardinality(Verifying) <= Limit + Cardinality(LimitTasks) - 1
    BY <2>1 DEF LimitInv, LoginFits
  <2>4. Login \in Clients
    BY LimitersAssumption DEF Login
  <2>5. Cardinality(Between(passed[Login], limitNow - Window, limitNow)) \in Nat
    BY <2>4, BetweenFinite DEF LimitInv, LimitTypes
  <2> QED
    BY <2>2, <2>3, <2>5, LimitNumbers, LimitersAssumption
<1> QED
  BY <1>1, <1>2 DEF LimitInv

(* A request goes to its next step.                                        *)
LEMMA LimitGo ==
    ASSUME LimitInv, NEW t \in LimitTasks, NEW j \in {R!Idle} \cup LimitWorks,
           StampFits(j, limitNow), R!Go(t, j), limitNow' = limitNow
    PROVE  /\ limitTask' \in [LimitTasks -> {R!Idle} \cup LimitWorks] /\ StampsFit'
           /\ limitTask'[t] = j /\ \A u \in LimitTasks \ {t} : limitTask'[u] = limitTask[u]
           /\ Verifying' = IF j.pc = "verify" THEN Verifying \cup {t} ELSE Verifying \ {t}
<1>1. limitTask \in [LimitTasks -> {R!Idle} \cup LimitWorks]
  BY DEF LimitInv, LimitTypes
<1>2. limitTask' = [limitTask EXCEPT ![t] = j]
  BY DEF R!Go
<1>3. /\ limitTask' \in [LimitTasks -> {R!Idle} \cup LimitWorks] /\ limitTask'[t] = j
      /\ \A u \in LimitTasks \ {t} : limitTask'[u] = limitTask[u]
  BY <1>1, <1>2
<1>4. StampsFit'
  BY <1>3 DEF LimitInv, StampsFit
<1>5. Verifying' = IF j.pc = "verify" THEN Verifying \cup {t} ELSE Verifying \ {t}
  BY <1>3 DEF Verifying
<1> QED
  BY <1>3, <1>4, <1>5

LEMMA IdleWork ==
    R!Idle \in {R!Idle} \cup LimitWorks /\ R!Idle.pc = "idle" /\ \A n : StampFits(R!Idle, n)
  BY DEF R!Idle, StampFits

LEMMA LimitTick == ASSUME LimitInv, R!Tick PROVE LimitInv'
<1>1. /\ limitNow' = limitNow + 1 /\ kind' = kind /\ hits' = hits
      /\ limitTask' = limitTask /\ passed' = passed
      /\ \A t \in LimitTasks : limitTask[t].pc \in {"stamped", "swept"} =>
            limitNow - limitTask[t].at < Skew
  BY DEF R!Tick
<1>2. LimitTypes'
  BY <1>1 DEF LimitInv, LimitTypes
<1>3. StampsFit'
  <2>1. ASSUME NEW t \in LimitTasks PROVE StampFits(limitTask[t], limitNow + 1)
    <3>1. StampFits(limitTask[t], limitNow)
      BY DEF LimitInv, StampsFit
    <3>2. limitTask[t] \in {R!Idle} \cup LimitWorks
      BY DEF LimitInv, LimitTypes
    <3>3. limitTask[t].pc \in {"stamped", "swept"} => limitTask[t].at \in Nat
      BY <3>2 DEF R!Idle, LimitWorks
    <3> QED
      BY <1>1, <3>1, <3>3, LimitersAssumption DEF StampFits, LimitInv, LimitTypes
  <2> QED
    BY <1>1, <2>1 DEF StampsFit
<1>4. HistoryFits'
  BY <1>1, RemembersOn DEF LimitInv, LimitTypes, HistoryFits
<1>5. WindowFits'
  BY <1>1 DEF LimitInv, WindowFits, R!Slack, Most
<1>6. Verifying' = Verifying
  BY <1>1 DEF Verifying
<1>7. LoginFits'
  <2> SUFFICES ASSUME kind = "login", Verifying # {}
               PROVE  Cardinality(Between(passed[Login], (limitNow + 1) - Window, limitNow + 1))
                        + Cardinality(Verifying) <= Limit + Cardinality(LimitTasks) - 1
    BY <1>1, <1>6 DEF LoginFits
  <2> DEFINE p == passed[Login]
  <2>1. Login \in Clients
    BY LimitersAssumption DEF Login
  <2>2. p \in Seq(Nat) /\ limitNow \in Nat /\ Window \in Nat
    BY <2>1, LimitersAssumption DEF LimitInv, LimitTypes
  <2>3. \A i \in 1..Len(p) : p[i] \in Nat /\ p[i] <= limitNow
    BY <2>1, <2>2 DEF LimitInv, HistoryFits, Remembers
  <2> HIDE DEF p
  <2>4. Between(p, (limitNow + 1) - Window, limitNow + 1)
          \in SUBSET Between(p, limitNow - Window, limitNow)
    BY <2>2, <2>3 DEF Between
  <2>5. Cardinality(Between(p, (limitNow + 1) - Window, limitNow + 1))
          <= Cardinality(Between(p, limitNow - Window, limitNow))
    BY <2>2, <2>4, BetweenFinite, FS_Subset
  <2>6. /\ Cardinality(Between(p, (limitNow + 1) - Window, limitNow + 1)) \in Nat
        /\ Cardinality(Between(p, limitNow - Window, limitNow)) \in Nat
    BY <2>2, BetweenFinite
  <2>7. Cardinality(Between(p, limitNow - Window, limitNow)) + Cardinality(Verifying)
          <= Limit + Cardinality(LimitTasks) - 1
    BY DEF LimitInv, LoginFits, p
  <2>8. Cardinality(Verifying) \in Nat
    <3>1. Verifying \in SUBSET LimitTasks
      BY DEF Verifying
    <3> QED
      BY <3>1, SubsetCardinality, LimitersAssumption
  <2>9. Cardinality(Between(p, (limitNow + 1) - Window, limitNow + 1)) + Cardinality(Verifying)
          <= Limit + Cardinality(LimitTasks) - 1
    BY <2>5, <2>6, <2>7, <2>8, LimitNumbers, LimitersAssumption
  <2> QED
    BY <2>9 DEF p
<1> QED
  BY <1>2, <1>3, <1>4, <1>5, <1>7 DEF LimitInv

LEMMA LimitStamp ==
    ASSUME LimitInv, NEW t \in LimitTasks, NEW c \in Clients, R!Stamp(t, c)
    PROVE  LimitInv'
<1> DEFINE j == [pc |-> "stamped", client |-> c, at |-> limitNow]
<1>1. /\ R!Go(t, j) /\ kind' = kind /\ limitNow' = limitNow /\ hits' = hits /\ passed' = passed
  BY DEF R!Stamp
<1>2. j \in LimitWorks /\ StampFits(j, limitNow) /\ j.pc = "stamped"
  BY LimitersAssumption DEF LimitWorks, StampFits, LimitInv, LimitTypes
<1> HIDE DEF j
<1>3. /\ limitTask' \in [LimitTasks -> {R!Idle} \cup LimitWorks] /\ StampsFit'
      /\ Verifying' = Verifying \ {t}
  BY <1>1, <1>2, LimitGo
<1>4. LimitTypes' /\ HistoryFits'
  BY <1>1, <1>3 DEF LimitInv, LimitTypes, HistoryFits
<1> QED
  BY <1>1, <1>3, <1>4, LimitQuiet

LEMMA LimitCountCheck ==
    ASSUME LimitInv, NEW t \in LimitTasks, R!CountCheck(t)
    PROVE  LimitInv'
<1> DEFINE j == [limitTask[t] EXCEPT !.pc = "swept"]
           at == limitTask[t].at
<1>1. /\ kind = "api" /\ limitTask[t].pc = "stamped" /\ R!Go(t, j)
      /\ kind' = kind /\ limitNow' = limitNow /\ passed' = passed
      /\ \/ hits' = hits
         \/ hits' = [c \in Clients |-> IF R!Dropped(hits[c], at) THEN <<>> ELSE hits[c]]
  BY DEF R!CountCheck
<1>2. limitTask[t] \in LimitWorks
  BY <1>1 DEF LimitInv, LimitTypes, R!Idle
<1>3. StampFits(limitTask[t], limitNow)
  BY DEF LimitInv, StampsFit
<1>4. at \in Nat /\ at <= limitNow /\ limitNow - at <= Skew /\ limitNow \in Nat
  BY <1>1, <1>2, <1>3 DEF LimitWorks, StampFits, LimitInv, LimitTypes
<1>5. j \in LimitWorks /\ j.pc = "swept" /\ j.at = at
  BY <1>2 DEF LimitWorks
<1> HIDE DEF j, at
<1>6. /\ limitTask' \in [LimitTasks -> {R!Idle} \cup LimitWorks] /\ StampsFit'
      /\ Verifying' = Verifying \ {t}
  BY <1>1, <1>4, <1>5, LimitGo DEF StampFits
<1>7. ASSUME NEW c \in Clients
      PROVE  hits'[c] \in Seq(Nat) /\ Remembers(kind, limitNow, passed[c], hits'[c])
  <2>1. /\ hits[c] \in Seq(Nat) /\ passed[c] \in Seq(Nat)
        /\ Remembers(kind, limitNow, passed[c], hits[c])
    BY DEF LimitInv, LimitTypes, HistoryFits
  <2>2. hits'[c] = hits[c] \/ (R!Dropped(hits[c], at) /\ hits'[c] = <<>>)
    BY <1>1
  <2>3. CASE R!Dropped(hits[c], at) /\ hits'[c] = <<>>
    <3>1. Remembers("api", limitNow, passed[c], <<>>)
      BY <1>1, <1>4, <2>1, <2>3, RemembersDropped
    <3> QED
      BY <1>1, <2>3, <3>1
  <2> QED
    BY <2>1, <2>2, <2>3
<1>8. hits' \in [Clients -> Seq(Nat)]
  <2>1. CASE hits' = hits
    BY <2>1 DEF LimitInv, LimitTypes
  <2>2. CASE hits' = [c \in Clients |-> IF R!Dropped(hits[c], at) THEN <<>> ELSE hits[c]]
    BY <1>7, <2>2
  <2> QED
    BY <1>1, <2>1, <2>2
<1>9. LimitTypes' /\ HistoryFits'
  BY <1>1, <1>6, <1>7, <1>8 DEF LimitInv, LimitTypes, HistoryFits
<1> QED
  BY <1>1, <1>6, <1>9, LimitQuiet

(* A client's stamps are pruned and nothing else happens to them.          *)
LEMMA LimitPruned ==
    ASSUME LimitInv, NEW c \in Clients, NEW at \in Nat, at <= limitNow, kind' = kind,
           limitNow' = limitNow, passed' = passed,
           hits' = [hits EXCEPT ![c] = R!Pruned(hits[c], at)]
    PROVE  HistoryFits' /\ hits' \in [Clients -> Seq(Nat)]
<1> DEFINE s == R!Pruned(hits[c], at)
<1>1. /\ hits \in [Clients -> Seq(Nat)] /\ passed[c] \in Seq(Nat) /\ limitNow \in Nat
      /\ \A d \in Clients : Remembers(kind, limitNow, passed[d], hits[d])
  BY DEF LimitInv, LimitTypes, HistoryFits
<1>2. s \in Seq(Nat) /\ Remembers(kind, limitNow, passed[c], s)
  BY <1>1, PrunedAfter, RemembersPruned
<1> HIDE DEF s
<1>3. hits' \in [Clients -> Seq(Nat)] /\ hits'[c] = s /\ \A d \in Clients \ {c} : hits'[d] = hits[d]
  BY <1>1, <1>2 DEF s
<1> QED
  BY <1>1, <1>2, <1>3 DEF HistoryFits

(* A stamp of the API or of a reservation is let through.                  *)
LEMMA LimitAdmit ==
    ASSUME LimitInv, NEW c \in Clients, NEW at \in Nat, at <= limitNow,
           limitNow - at <= Skew, kind \in {"api", "confirm"}, kind' = kind,
           limitNow' = limitNow, ~R!Full(R!Pruned(hits[c], at)),
           hits' = [hits EXCEPT ![c] = Append(R!Pruned(hits[c], at), at)],
           passed' = [passed EXCEPT ![c] = Append(passed[c], at)]
    PROVE  /\ HistoryFits' /\ WindowFits' /\ LoginFits'
           /\ hits' \in [Clients -> Seq(Nat)] /\ passed' \in [Clients -> Seq(Nat)]
<1> DEFINE s == R!Pruned(hits[c], at)
           sa == Append(s, at)
           p == passed[c]
           pa == Append(p, at)
<1>1. /\ hits \in [Clients -> Seq(Nat)] /\ passed \in [Clients -> Seq(Nat)] /\ limitNow \in Nat
      /\ \A d \in Clients : Remembers(kind, limitNow, passed[d], hits[d])
  BY DEF LimitInv, LimitTypes, HistoryFits
<1>2. s \in Seq(Nat) /\ Remembers(kind, limitNow, p, s) /\ p \in Seq(Nat)
  BY <1>1, PrunedAfter, RemembersPruned
<1>3. Len(s) < Limit
  BY <1>2, LimitersAssumption DEF R!Full
<1> HIDE DEF s, p
<1>4. sa \in Seq(Nat) /\ pa \in Seq(Nat) /\ Remembers(kind, limitNow, pa, sa)
  <2>1. sa \in Seq(Nat) /\ pa \in Seq(Nat)
    BY <1>2, AppendProperties
  <2>2. limitNow \in Nat /\ at \in Nat /\ at <= limitNow /\ limitNow - at <= Skew
    BY <1>1
  <2>3. ASSUME NEW k, Remembers(k, limitNow, p, s) PROVE Remembers(k, limitNow, pa, sa)
    BY <1>2, <2>2, <2>3, RemembersAppend
  <2> QED
    BY <1>2, <2>1, <2>3
<1>5. /\ hits' \in [Clients -> Seq(Nat)] /\ hits'[c] = sa
      /\ \A d \in Clients \ {c} : hits'[d] = hits[d]
  BY <1>1, <1>4 DEF s
<1>6. /\ passed' \in [Clients -> Seq(Nat)] /\ passed'[c] = pa
      /\ \A d \in Clients \ {c} : passed'[d] = passed[d]
  BY <1>1, <1>4 DEF p
<1>7. HistoryFits'
  BY <1>1, <1>4, <1>5, <1>6 DEF HistoryFits
<1>8. LoginFits'
  BY DEF LoginFits
<1>9. Most' = Most /\ R!Slack' = R!Slack
  BY DEF Most, R!Slack
<1>10. ASSUME NEW d \in Clients, NEW x \in Nat
       PROVE  Cardinality(Between(passed'[d], x, x + Window - R!Slack)) <= Most
  <2>1. Cardinality(Between(passed[d], x, x + Window - R!Slack)) <= Most
    BY DEF LimitInv, WindowFits
  <2>2. CASE d # c
    BY <1>6, <2>1, <2>2
  <2>3. CASE d = c
    <3> DEFINE w == Window - R!Slack
    <3>1. /\ R!Slack \in Nat /\ Most \in Nat /\ Limit <= Most /\ Window \in Nat /\ Skew \in Nat
          /\ R!Slack = Skew + Forgetting(kind)
      BY LimitNumbers, LimitersAssumption DEF Most, Forgetting
    <3>2. w \in Int /\ w + Skew + Forgetting(kind) <= Window /\ x + w = x + Window - R!Slack
      BY <3>1 DEF Forgetting
    <3>3. Len(s) < Most
      BY <1>2, <1>3, <3>1, LimitersAssumption, LenProperties
    <3>4. Cardinality(Between(p, x, x + w)) <= Most
      BY <2>1, <2>3, <3>2 DEF p
    <3> HIDE DEF w
    <3>5. Cardinality(Between(pa, x, x + w)) <= Most
      BY <1>1, <1>2, <3>1, <3>2, <3>3, <3>4, WindowAppend
    <3> QED
      BY <1>6, <2>3, <3>2, <3>5
  <2> QED
    BY <2>2, <2>3
<1>11. WindowFits'
  BY <1>9, <1>10 DEF WindowFits
<1> QED
  BY <1>5, <1>6, <1>7, <1>8, <1>11

LEMMA NoneBetween == \A x, y : Cardinality(Between(<<>>, x, y)) = 0
<1>1. ASSUME NEW x, NEW y PROVE Between(<<>>, x, y) = {}
  BY DEF Between
<1> QED
  BY <1>1, FS_EmptySet

LEMMA NothingRemembered == ASSUME NEW k, NEW n PROVE Remembers(k, n, <<>>, <<>>)
<1>1. After(<<>>, 0, <<>>)
  BY DEF After
<1> QED
  BY <1>1 DEF Remembers

LEMMA LimitCardinality == ASSUME NEW T PROVE R!Cardinality(T) = Cardinality(T)
BY Zenon DEF R!Cardinality, Cardinality

(* A request past its stamp: who asks, and when it did.                    *)
LEMMA LimitStamped ==
    ASSUME LimitInv, NEW t \in LimitTasks, limitTask[t].pc \in {"stamped", "swept"}
    PROVE  /\ limitTask[t] \in LimitWorks /\ limitTask[t].client \in Clients
           /\ limitTask[t].at \in Nat /\ limitTask[t].at <= limitNow
           /\ limitNow - limitTask[t].at <= Skew
<1>1. limitTask[t] \in LimitWorks
  BY DEF LimitInv, LimitTypes, R!Idle
<1>2. StampFits(limitTask[t], limitNow)
  BY DEF LimitInv, StampsFit
<1>3. limitTask[t].client \in Clients /\ limitTask[t].at \in Nat
  BY <1>1 DEF LimitWorks
<1> QED
  BY <1>1, <1>2, <1>3 DEF StampFits

LEMMA LimitDecide == ASSUME LimitInv, NEW t \in LimitTasks, R!Decide(t) PROVE LimitInv'
<1> DEFINE c == limitTask[t].client
           at == limitTask[t].at
<1>1. /\ kind = "api" /\ limitTask[t].pc = "swept" /\ R!Go(t, R!Idle)
      /\ kind' = kind /\ limitNow' = limitNow
      /\ \/ passed' = passed /\ hits' = [hits EXCEPT ![c] = R!Pruned(hits[c], at)]
         \/ /\ ~R!Full(R!Pruned(hits[c], at))
            /\ hits' = [hits EXCEPT ![c] = Append(R!Pruned(hits[c], at), at)]
            /\ passed' = [passed EXCEPT ![c] = Append(passed[c], at)]
  BY DEF R!Decide
<1>2. c \in Clients /\ at \in Nat /\ at <= limitNow /\ limitNow - at <= Skew
  BY <1>1, LimitStamped
<1> HIDE DEF c, at
<1>3. /\ limitTask' \in [LimitTasks -> {R!Idle} \cup LimitWorks] /\ StampsFit'
      /\ Verifying' = Verifying \ {t}
  BY <1>1, IdleWork, LimitGo
<1>4. CASE passed' = passed /\ hits' = [hits EXCEPT ![c] = R!Pruned(hits[c], at)]
  <2>1. HistoryFits' /\ hits' \in [Clients -> Seq(Nat)]
    BY <1>1, <1>2, <1>4, LimitPruned
  <2>2. LimitTypes'
    BY <1>1, <1>3, <1>4, <2>1 DEF LimitInv, LimitTypes
  <2> QED
    BY <1>1, <1>3, <1>4, <2>1, <2>2, LimitQuiet
<1>5. CASE /\ ~R!Full(R!Pruned(hits[c], at))
           /\ hits' = [hits EXCEPT ![c] = Append(R!Pruned(hits[c], at), at)]
           /\ passed' = [passed EXCEPT ![c] = Append(passed[c], at)]
  <2>1. /\ HistoryFits' /\ WindowFits' /\ LoginFits'
        /\ hits' \in [Clients -> Seq(Nat)] /\ passed' \in [Clients -> Seq(Nat)]
    BY <1>1, <1>2, <1>5, LimitAdmit
  <2>2. LimitTypes'
    BY <1>1, <1>3, <2>1 DEF LimitInv, LimitTypes
  <2> QED
    BY <1>3, <2>1, <2>2 DEF LimitInv
<1> QED
  BY <1>1, <1>4, <1>5

LEMMA LimitTryReserve == ASSUME LimitInv, NEW t \in LimitTasks, R!TryReserve(t) PROVE LimitInv'
<1> DEFINE c == limitTask[t].client
           at == limitTask[t].at
           j == [limitTask[t] EXCEPT !.pc = "verify", !.at = 0]
<1>1. /\ kind = "confirm" /\ limitTask[t].pc = "stamped"
      /\ kind' = kind /\ limitNow' = limitNow
      /\ \/ /\ R!Go(t, R!Idle)
            /\ passed' = passed /\ hits' = [hits EXCEPT ![c] = R!Pruned(hits[c], at)]
         \/ /\ ~R!Full(R!Pruned(hits[c], at)) /\ R!Go(t, j)
            /\ hits' = [hits EXCEPT ![c] = Append(R!Pruned(hits[c], at), at)]
            /\ passed' = [passed EXCEPT ![c] = Append(passed[c], at)]
  BY DEF R!TryReserve, R!Reserved
<1>2. /\ c \in Clients /\ at \in Nat /\ at <= limitNow /\ limitNow - at <= Skew
      /\ limitTask[t] \in LimitWorks
  BY <1>1, LimitStamped
<1>3. j \in LimitWorks /\ StampFits(j, limitNow)
  BY <1>2 DEF LimitWorks, StampFits
<1> HIDE DEF c, at, j
<1>4. CASE /\ R!Go(t, R!Idle)
           /\ passed' = passed /\ hits' = [hits EXCEPT ![c] = R!Pruned(hits[c], at)]
  <2>1. HistoryFits' /\ hits' \in [Clients -> Seq(Nat)]
    BY <1>1, <1>2, <1>4, LimitPruned
  <2>2. /\ limitTask' \in [LimitTasks -> {R!Idle} \cup LimitWorks] /\ StampsFit'
        /\ Verifying' = Verifying \ {t}
    BY <1>1, <1>4, IdleWork, LimitGo
  <2>3. LimitTypes'
    BY <1>1, <1>4, <2>1, <2>2 DEF LimitInv, LimitTypes
  <2> QED
    BY <1>1, <1>4, <2>1, <2>2, <2>3, LimitQuiet
<1>5. CASE /\ ~R!Full(R!Pruned(hits[c], at)) /\ R!Go(t, j)
           /\ hits' = [hits EXCEPT ![c] = Append(R!Pruned(hits[c], at), at)]
           /\ passed' = [passed EXCEPT ![c] = Append(passed[c], at)]
  <2>1. /\ HistoryFits' /\ WindowFits' /\ LoginFits'
        /\ hits' \in [Clients -> Seq(Nat)] /\ passed' \in [Clients -> Seq(Nat)]
    BY <1>1, <1>2, <1>5, LimitAdmit
  <2>2. limitTask' \in [LimitTasks -> {R!Idle} \cup LimitWorks] /\ StampsFit'
    BY <1>1, <1>3, <1>5, LimitGo
  <2>3. LimitTypes'
    BY <1>1, <2>1, <2>2 DEF LimitInv, LimitTypes
  <2> QED
    BY <2>1, <2>2, <2>3 DEF LimitInv
<1> QED
  BY <1>1, <1>4, <1>5

LEMMA LimitVerifyFails == ASSUME LimitInv, NEW t \in LimitTasks, R!VerifyFails(t) PROVE LimitInv'
<1>1. /\ R!Go(t, R!Idle) /\ kind' = kind /\ limitNow' = limitNow /\ hits' = hits
      /\ passed' = passed
  BY DEF R!VerifyFails
<1>2. /\ limitTask' \in [LimitTasks -> {R!Idle} \cup LimitWorks] /\ StampsFit'
      /\ Verifying' = Verifying \ {t}
  BY <1>1, IdleWork, LimitGo
<1>3. LimitTypes' /\ HistoryFits'
  BY <1>1, <1>2 DEF LimitInv, LimitTypes, HistoryFits
<1> QED
  BY <1>1, <1>2, <1>3, LimitQuiet

LEMMA LoginKey ==
    /\ Login \in Clients
    /\ kind = "login" => \A c : R!KeyOf(c) = Login
    /\ \A c \in Clients : R!KeyOf(c) \in Clients
  BY LimitersAssumption DEF Login, R!KeyOf

(* A login that may be verified: fewer failures than the limit are         *)
(* remembered, and every other task may be verifying too.                  *)
LEMMA LimitAllow == ASSUME LimitInv, NEW t \in LimitTasks, R!Allow(t) PROVE LimitInv'
<1> DEFINE c == R!KeyOf(limitTask[t].client)
           at == limitTask[t].at
           q == R!Pruned(hits[c], at)
           j == IF R!Full(q) THEN R!Idle ELSE [limitTask[t] EXCEPT !.pc = "verify", !.at = 0]
<1>1. /\ kind = "login" /\ limitTask[t].pc = "stamped" /\ R!Go(t, j)
      /\ kind' = kind /\ limitNow' = limitNow /\ passed' = passed
      /\ hits' = [hits EXCEPT ![c] = q]
  BY DEF R!Allow
<1>2. /\ limitTask[t] \in LimitWorks
      /\ c = Login /\ c \in Clients /\ at \in Nat /\ at <= limitNow
  BY <1>1, LimitStamped, LoginKey
<1>3. j \in {R!Idle} \cup LimitWorks /\ StampFits(j, limitNow)
  BY <1>2 DEF LimitWorks, StampFits, R!Idle
<1>4. j.pc = "verify" => ~R!Full(q)
  BY DEF R!Idle
<1>5. /\ hits[c] \in Seq(Nat) /\ passed[c] \in Seq(Nat) /\ limitNow \in Nat
      /\ Remembers(kind, limitNow, passed[c], hits[c])
  BY <1>2 DEF LimitInv, LimitTypes, HistoryFits
<1>6. q \in Seq(Nat) /\ Remembers(kind, limitNow, passed[c], q)
  BY <1>2, <1>5, PrunedAfter, RemembersPruned
<1>7. HistoryFits' /\ hits' \in [Clients -> Seq(Nat)]
  BY <1>1, <1>2, LimitPruned
<1> HIDE DEF c, at, q, j
<1>8. /\ limitTask' \in [LimitTasks -> {R!Idle} \cup LimitWorks] /\ StampsFit'
      /\ Verifying' = IF j.pc = "verify" THEN Verifying \cup {t} ELSE Verifying \ {t}
  BY <1>1, <1>3, LimitGo
<1>9. LimitTypes'
  BY <1>1, <1>7, <1>8 DEF LimitInv, LimitTypes
<1>10. CASE j.pc # "verify"
  BY <1>1, <1>7, <1>8, <1>9, <1>10, LimitQuiet
<1>11. CASE j.pc = "verify"
  <2>1. Len(q) < Limit /\ Len(q) \in Nat
    BY <1>4, <1>6, <1>11, LimitersAssumption, LenProperties DEF R!Full
  <2>2. Cardinality(Between(passed[c], limitNow - Window, limitNow)) <= Len(q)
    BY <1>1, <1>5, <1>6, RecentRemembered
  <2>3. Cardinality(Between(passed[c], limitNow - Window, limitNow)) \in Nat
    BY <1>5, BetweenFinite
  <2>4. Verifying' \in SUBSET LimitTasks
    BY <1>8 DEF Verifying
  <2>5. Cardinality(Verifying') <= Cardinality(LimitTasks) /\ Cardinality(Verifying') \in Nat
    BY <2>4, LimitersAssumption, FS_Subset, SubsetCardinality
  <2>6. Cardinality(Between(passed[c], limitNow - Window, limitNow)) + Cardinality(Verifying')
          <= Limit + Cardinality(LimitTasks) - 1
    BY <2>1, <2>2, <2>3, <2>5, LimitNumbers, LimitersAssumption
  <2>7. LoginFits'
    BY <1>1, <1>2, <2>6 DEF LoginFits
  <2>8. WindowFits'
    BY <1>1 DEF LimitInv, WindowFits, R!Slack, Most
  <2> QED
    BY <1>7, <1>8, <1>9, <2>7, <2>8 DEF LimitInv
<1> QED
  BY <1>10, <1>11

(* A verified password that was wrong takes the place of its verification  *)
(* in the count.                                                           *)
LEMMA LimitRecordFailure ==
    ASSUME LimitInv, NEW t \in LimitTasks, R!RecordFailure(t) PROVE LimitInv'
<1> DEFINE p == passed[Login]
           q == hits[Login]
           pa == Append(p, limitNow)
           qa == Append(q, limitNow)
           V == Verifying
           V2 == Verifying'
           b == Between(p, limitNow - Window, limitNow)
<1>1. /\ kind = "login" /\ limitTask[t].pc = "verify" /\ R!Go(t, R!Idle)
      /\ kind' = kind /\ limitNow' = limitNow
      /\ hits' = [hits EXCEPT ![Login] = qa] /\ passed' = [passed EXCEPT ![Login] = pa]
  BY LoginKey DEF R!RecordFailure
<1>2. /\ hits \in [Clients -> Seq(Nat)] /\ passed \in [Clients -> Seq(Nat)] /\ limitNow \in Nat
      /\ Login \in Clients /\ Window \in Nat
      /\ \A d \in Clients : Remembers(kind, limitNow, passed[d], hits[d])
  BY LoginKey, LimitersAssumption DEF LimitInv, LimitTypes, HistoryFits
<1>3. /\ limitTask' \in [LimitTasks -> {R!Idle} \cup LimitWorks] /\ StampsFit'
      /\ V2 = V \ {t}
  BY <1>1, IdleWork, LimitGo
<1>4. t \in V /\ V \in SUBSET LimitTasks
  BY <1>1 DEF Verifying
<1>5. Cardinality(b) + Cardinality(V) <= Limit + Cardinality(LimitTasks) - 1
  BY <1>1, <1>4 DEF LimitInv, LoginFits
<1>6. p \in Seq(Nat) /\ q \in Seq(Nat) /\ Remembers(kind, limitNow, p, q)
  BY <1>2
<1> HIDE DEF p, q, V, V2
<1>7. pa \in Seq(Nat) /\ qa \in Seq(Nat)
  BY <1>2, <1>6, AppendProperties
<1>8. Remembers(kind, limitNow, pa, qa)
  <2>1. limitNow - limitNow <= Skew /\ limitNow <= limitNow /\ limitNow \in Nat
    BY <1>2, LimitersAssumption
  <2>2. ASSUME NEW k, Remembers(k, limitNow, p, q) PROVE Remembers(k, limitNow, pa, qa)
    BY <1>6, <2>1, <2>2, RemembersAppend
  <2> QED
    BY <1>6, <2>2
<1>9. /\ hits' \in [Clients -> Seq(Nat)] /\ hits'[Login] = qa
      /\ \A d \in Clients \ {Login} : hits'[d] = hits[d]
  BY <1>1, <1>2, <1>7
<1>10. /\ passed' \in [Clients -> Seq(Nat)] /\ passed'[Login] = pa
       /\ \A d \in Clients \ {Login} : passed'[d] = passed[d]
  BY <1>1, <1>2, <1>7
<1>11. HistoryFits'
  BY <1>1, <1>2, <1>8, <1>9, <1>10 DEF HistoryFits
<1>12. LimitTypes'
  BY <1>1, <1>3, <1>9, <1>10 DEF LimitInv, LimitTypes
<1>13. /\ IsFiniteSet(V) /\ Cardinality(V) \in Nat /\ Cardinality(V2) = Cardinality(V) - 1
       /\ Cardinality(V) >= 1 /\ Cardinality(V2) \in Nat
  <2>1. IsFiniteSet(V) /\ Cardinality(V) \in Nat
    BY <1>4, LimitersAssumption, SubsetCardinality
  <2>2. IsFiniteSet(V2) /\ Cardinality(V2) = Cardinality(V) - 1
    BY <1>3, <1>4, <2>1, FS_RemoveElement
  <2>3. Cardinality(V2) \in Nat
    BY <2>2, FS_CardinalityType
  <2> QED
    BY <2>1, <2>2, <2>3
<1>14. Len(p) \in Nat /\ Len(p) + 1 \notin 1..Len(p)
  BY <1>6, LenProperties
<1>15. ASSUME NEW x, NEW y, Between(p, x, y) \subseteq b
       PROVE  /\ Cardinality(Between(pa, x, y)) <= Cardinality(b) + 1
              /\ Cardinality(Between(pa, x, y)) \in Nat
  <2>1. /\ IsFiniteSet(b) /\ Cardinality(b) \in Nat /\ IsFiniteSet(Between(p, x, y))
        /\ Cardinality(Between(p, x, y)) \in Nat
    BY <1>6, BetweenFinite
  <2> HIDE DEF b
  <2>2. Cardinality(Between(p, x, y)) <= Cardinality(b)
    BY <1>15, <2>1, FS_Subset
  <2>3. Len(p) + 1 \notin Between(p, x, y)
    BY <1>14 DEF Between
  <2>4. Cardinality(Between(p, x, y) \cup {Len(p) + 1}) = Cardinality(Between(p, x, y)) + 1
    BY <2>1, <2>3, FS_AddElement
  <2>5. \/ Between(pa, x, y) = Between(p, x, y) \cup {Len(p) + 1}
        \/ Between(pa, x, y) = Between(p, x, y)
    BY <1>2, <1>6, BetweenAppend
  <2> HIDE DEF pa
  <2>6. \/ Cardinality(Between(pa, x, y)) = Cardinality(Between(p, x, y)) + 1
        \/ Cardinality(Between(pa, x, y)) = Cardinality(Between(p, x, y))
    BY <2>4, <2>5
  <2> QED
    BY <2>1, <2>2, <2>6
<1>16. Cardinality(b) \in Nat
  BY <1>6, BetweenFinite
<1> HIDE DEF pa, qa
<1>17. LoginFits'
  <2>1. /\ Cardinality(Between(pa, limitNow - Window, limitNow)) <= Cardinality(b) + 1
        /\ Cardinality(Between(pa, limitNow - Window, limitNow)) \in Nat
    BY <1>15
  <2> HIDE DEF b
  <2>2. Cardinality(Between(pa, limitNow - Window, limitNow)) + Cardinality(V2)
          <= Limit + Cardinality(LimitTasks) - 1
    BY <1>5, <1>13, <1>16, <2>1, LimitNumbers, LimitersAssumption
  <2> QED
    BY <1>1, <1>10, <2>2 DEF LoginFits, V2
<1>18. Most' = Most /\ R!Slack' = R!Slack /\ R!Slack = 0
       /\ Most = Limit + Cardinality(LimitTasks) - 1
  BY <1>1, LimitNumbers DEF Most, R!Slack
<1>19. ASSUME NEW d \in Clients, NEW x \in Nat
       PROVE  Cardinality(Between(passed'[d], x, x + Window - R!Slack)) <= Most
  <2>1. Cardinality(Between(passed[d], x, x + Window - R!Slack)) <= Most
    BY DEF LimitInv, WindowFits
  <2>2. CASE d # Login
    BY <1>10, <2>1, <2>2
  <2>3. CASE d = Login
    <3>1. x + Window - R!Slack = x + Window
      BY <1>2, <1>18
    <3>2. CASE limitNow \in x..(x + Window)
      <4>1. \A i \in 1..Len(p) : p[i] \in Nat /\ p[i] <= limitNow
        BY <1>6, <1>14 DEF Remembers
      <4>2. Between(p, x, x + Window) \subseteq b
        <5>1. limitNow - Window <= x
          BY <1>2, <3>2
        <5>2. ASSUME NEW i \in Between(p, x, x + Window) PROVE i \in b
          <6>1. i \in 1..Len(p) /\ p[i] \in x..(x + Window)
            BY <5>2 DEF Between
          <6>2. p[i] \in (limitNow - Window)..limitNow
            BY <1>2, <4>1, <5>1, <6>1
          <6> QED
            BY <6>1, <6>2 DEF Between
        <5> QED
          BY <5>2
      <4>3. /\ Cardinality(Between(pa, x, x + Window)) <= Cardinality(b) + 1
            /\ Cardinality(Between(pa, x, x + Window)) \in Nat
        BY <1>15, <4>2
      <4> HIDE DEF b
      <4>4. Cardinality(Between(pa, x, x + Window)) <= Most
        BY <1>5, <1>13, <1>16, <1>18, <4>3, LimitNumbers, LimitersAssumption
      <4> QED
        BY <1>10, <2>3, <3>1, <4>4
    <3>3. CASE limitNow \notin x..(x + Window)
      <4>1. Between(pa, x, x + Window) = Between(p, x, x + Window)
        BY <1>2, <1>6, <3>3, BetweenAppend DEF pa
      <4> QED
        BY <1>10, <2>1, <2>3, <3>1, <4>1 DEF p
    <3> QED
      BY <3>2, <3>3
  <2> QED
    BY <2>2, <2>3
<1>20. WindowFits'
  BY <1>18, <1>19 DEF WindowFits
<1> QED
  BY <1>3, <1>11, <1>12, <1>17, <1>20 DEF LimitInv

(* A success forgets the history of its key.                               *)
LEMMA LimitRecordSuccess ==
    ASSUME LimitInv, NEW t \in LimitTasks, R!RecordSuccess(t) PROVE LimitInv'
<1> DEFINE c == R!KeyOf(limitTask[t].client)
           V == Verifying
           V2 == Verifying'
<1>1. /\ kind # "api" /\ limitTask[t].pc = "verify" /\ R!Go(t, R!Idle)
      /\ kind' = kind /\ limitNow' = limitNow
      /\ hits' = [hits EXCEPT ![c] = <<>>] /\ passed' = [passed EXCEPT ![c] = <<>>]
  BY DEF R!RecordSuccess
<1>2. limitTask[t] \in LimitWorks
  BY <1>1 DEF LimitInv, LimitTypes, R!Idle
<1>3. c \in Clients /\ (kind = "login" => c = Login)
  BY <1>2, LoginKey DEF LimitWorks
<1>4. /\ hits \in [Clients -> Seq(Nat)] /\ passed \in [Clients -> Seq(Nat)] /\ limitNow \in Nat
      /\ \A d \in Clients : Remembers(kind, limitNow, passed[d], hits[d])
  BY DEF LimitInv, LimitTypes, HistoryFits
<1>5. /\ limitTask' \in [LimitTasks -> {R!Idle} \cup LimitWorks] /\ StampsFit'
      /\ V2 = V \ {t}
  BY <1>1, IdleWork, LimitGo
<1>6. t \in V /\ V \in SUBSET LimitTasks
  BY <1>1 DEF Verifying
<1> HIDE DEF c, V, V2
<1>7. /\ hits' \in [Clients -> Seq(Nat)] /\ hits'[c] = <<>>
      /\ \A d \in Clients \ {c} : hits'[d] = hits[d]
  BY <1>1, <1>3, <1>4
<1>8. /\ passed' \in [Clients -> Seq(Nat)] /\ passed'[c] = <<>>
      /\ \A d \in Clients \ {c} : passed'[d] = passed[d]
  BY <1>1, <1>3, <1>4
<1>9. Remembers(kind, limitNow, <<>>, <<>>)
  BY NothingRemembered
<1>10. HistoryFits'
  BY <1>1, <1>4, <1>7, <1>8, <1>9 DEF HistoryFits
<1>11. LimitTypes'
  BY <1>1, <1>5, <1>7, <1>8 DEF LimitInv, LimitTypes
<1>12. \A x, y : Cardinality(Between(<<>>, x, y)) = 0
  BY NoneBetween
<1>13. LoginFits'
  <2> SUFFICES ASSUME kind = "login"
               PROVE  Cardinality(Between(passed'[Login], limitNow - Window, limitNow))
                        + Cardinality(V2) <= Limit + Cardinality(LimitTasks) - 1
    BY <1>1 DEF LoginFits, V2
  <2>1. Cardinality(Between(passed'[Login], limitNow - Window, limitNow)) = 0
    BY <1>3, <1>8, <1>12
  <2>2. V2 \in SUBSET (LimitTasks \ {t})
    BY <1>5, <1>6
  <2>3. /\ IsFiniteSet(LimitTasks \ {t})
        /\ Cardinality(LimitTasks \ {t}) = Cardinality(LimitTasks) - 1
    BY LimitersAssumption, FS_RemoveElement
  <2>4. Cardinality(V2) <= Cardinality(LimitTasks) - 1 /\ Cardinality(V2) \in Nat
    BY <2>2, <2>3, FS_Subset, SubsetCardinality
  <2> QED
    BY <2>1, <2>4, LimitNumbers, LimitersAssumption
<1>14. Most' = Most /\ R!Slack' = R!Slack
  BY <1>1 DEF Most, R!Slack
<1>15. ASSUME NEW d \in Clients, NEW x \in Nat
       PROVE  Cardinality(Between(passed'[d], x, x + Window - R!Slack)) <= Most
  <2>1. CASE d # c
    BY <1>8, <2>1 DEF LimitInv, WindowFits
  <2>2. CASE d = c
    BY <1>8, <1>12, <2>2, LimitNumbers
  <2> QED
    BY <2>1, <2>2
<1>16. WindowFits'
  BY <1>14, <1>15 DEF WindowFits
<1> QED
  BY <1>5, <1>10, <1>11, <1>13, <1>16 DEF LimitInv

LEMMA LimitInit == R!Init => LimitInv
<1> SUFFICES ASSUME R!Init PROVE LimitInv
  OBVIOUS
<1>1. /\ kind \in R!Kinds /\ limitNow = 1 /\ hits = [c \in Clients |-> <<>>]
      /\ limitTask = [t \in LimitTasks |-> R!Idle] /\ passed = [c \in Clients |-> <<>>]
  BY DEF R!Init
<1>2. <<>> \in Seq(Nat)
  OBVIOUS
<1>3. LimitTypes
  BY <1>1, <1>2 DEF LimitTypes
<1>4. StampsFit
  BY <1>1, IdleWork DEF StampsFit
<1>5. HistoryFits
  <2>1. ASSUME NEW k, NEW n \in Nat PROVE Remembers(k, n, <<>>, <<>>)
    BY NothingRemembered
  <2> QED
    BY <1>1, <2>1 DEF HistoryFits
<1>6. Verifying = {}
  BY <1>1, IdleWork DEF Verifying
<1>7. LoginFits
  BY <1>6 DEF LoginFits
<1>8. WindowFits
  BY <1>1, NoneBetween, LimitNumbers DEF WindowFits
<1> QED
  BY <1>3, <1>4, <1>5, <1>7, <1>8 DEF LimitInv

LEMMA LimitNext == LimitInv /\ [R!Next]_(R!vars) => LimitInv'
<1> SUFFICES ASSUME LimitInv, [R!Next]_(R!vars) PROVE LimitInv'
  OBVIOUS
<1>1. CASE UNCHANGED R!vars
  <2>1. /\ kind' = kind /\ limitNow' = limitNow /\ hits' = hits /\ limitTask' = limitTask
        /\ passed' = passed
    BY <1>1 DEF R!vars
  <2>2. LimitTypes' /\ StampsFit' /\ HistoryFits' /\ Verifying' = Verifying
    BY <2>1 DEF LimitInv, LimitTypes, StampsFit, HistoryFits, Verifying
  <2> QED
    BY <2>1, <2>2, LimitQuiet
<1>2. CASE R!Tick
  BY <1>2, LimitTick
<1>3. ASSUME NEW t \in LimitTasks, NEW c \in Clients, R!Stamp(t, c) PROVE LimitInv'
  BY <1>3, LimitStamp
<1>4. ASSUME NEW t \in LimitTasks, R!CountCheck(t) PROVE LimitInv'
  BY <1>4, LimitCountCheck
<1>5. ASSUME NEW t \in LimitTasks, R!Decide(t) PROVE LimitInv'
  BY <1>5, LimitDecide
<1>6. ASSUME NEW t \in LimitTasks, R!Allow(t) PROVE LimitInv'
  BY <1>6, LimitAllow
<1>7. ASSUME NEW t \in LimitTasks, R!RecordFailure(t) PROVE LimitInv'
  BY <1>7, LimitRecordFailure
<1>8. ASSUME NEW t \in LimitTasks, R!TryReserve(t) PROVE LimitInv'
  BY <1>8, LimitTryReserve
<1>9. ASSUME NEW t \in LimitTasks, R!VerifyFails(t) PROVE LimitInv'
  BY <1>9, LimitVerifyFails
<1>10. ASSUME NEW t \in LimitTasks, R!RecordSuccess(t) PROVE LimitInv'
  BY <1>10, LimitRecordSuccess
<1> QED
  BY <1>1, <1>2, <1>3, <1>4, <1>5, <1>6, <1>7, <1>8, <1>9, <1>10 DEF R!Next

(* The stamps of a limiter, what it remembers of them, and how many fall   *)
(* in a window fit together in every state (Limiters: check, allow,        *)
(* record_failure, try_reserve, record_success).                           *)
THEOREM LimitInvariance == R!Spec => []LimitInv
<1> QED
  BY LimitInit, LimitNext, PTL DEF R!Spec

(* In no interval of a window, less what the age of the stamps can cost,   *)
(* does a limiter let more through than its limit and, after a login's     *)
(* check, what was in flight (Limiters: check, allow, try_reserve).        *)
THEOREM WindowsHold == R!Spec => []WindowRespected
<1>1. LimitInv => WindowRespected
  <2>1. ASSUME LimitInv, NEW c \in Clients, NEW x \in 1..limitNow
        PROVE  Cardinality(Between(passed[c], x, x + Window - R!Slack)) <= Limit + R!Overshoot
    <3>1. x \in Nat
      BY <2>1 DEF LimitInv, LimitTypes
    <3>2. Cardinality(Between(passed[c], x, x + Window - R!Slack)) <= Most
      BY <2>1, <3>1 DEF LimitInv, WindowFits
    <3>3. Limit + R!Overshoot = Most
      BY LimitCardinality DEF Most, R!Overshoot
    <3> QED
      BY <3>2, <3>3
  <2>2. ASSUME NEW c, NEW x
        PROVE  Between(passed[c], x, x + Window - R!Slack) =
                 {i \in 1..Len(passed[c]) : passed[c][i] \in x..(x + (Window - R!Slack))}
    BY DEF Between
  <2> QED
    BY <2>1, <2>2, LimitCardinality DEF WindowRespected, R!WindowRespected
<1> QED
  BY <1>1, LimitInvariance, PTL

-----------------------------------------------------------------------------
(* The audit of bypasses.                                                  *)

(* A claim is somebody's: of a request that is writing, has written, or    *)
(* was cut off.                                                            *)
Holders == {"writing", "written", "cut"}
Stages == {"new", "skipped", "failed"} \cup Holders
AuditInv ==
    /\ auditNow \in Nat \ {0} /\ entry \in 0..auditNow
    /\ bypass \in [Bypasses -> [pc : Stages,
                                at : 0..auditNow]]
    /\ ended \in [Bypasses -> 0..auditNow]
    /\ entry # 0 => \E a \in Bypasses : /\ bypass[a].at = entry
                                        /\ bypass[a].pc \in Holders
    /\ G!SilenceVouchedFor

LEMMA AuditInit == G!Init => AuditInv
  BY DEF G!Init, AuditInv, Holders, Stages, G!SilenceVouchedFor, G!Never

LEMMA AuditTick == ASSUME AuditInv, G!Tick PROVE AuditInv'
<1>1. auditNow' = auditNow + 1 /\ entry' = entry /\ bypass' = bypass /\ ended' = ended
  BY DEF G!Tick
<1>2. 0..auditNow \subseteq 0..auditNow' /\ auditNow' \in Nat \ {0}
  BY <1>1 DEF AuditInv
<1>3. G!SilenceVouchedFor'
  BY <1>1 DEF AuditInv, Holders, Stages, G!SilenceVouchedFor
<1>4. ended' \in [Bypasses -> 0..auditNow']
  BY <1>1, <1>2 DEF AuditInv
<1>5. bypass' \in [Bypasses -> [pc : Stages,
                                at : 0..auditNow']]
  BY <1>1, <1>2 DEF AuditInv
<1> QED
  BY <1>1, <1>2, <1>3, <1>4, <1>5 DEF AuditInv

LEMMA AuditSkip == ASSUME AuditInv, NEW b \in Bypasses, G!Skip(b) PROVE AuditInv'
<1>1. /\ bypass[b].pc = "new" /\ entry # 0 /\ auditNow - entry < AuditCooldown
      /\ bypass' = [bypass EXCEPT ![b] = [pc |-> "skipped", at |-> auditNow]]
      /\ auditNow' = auditNow /\ entry' = entry /\ ended' = ended
  BY DEF G!Skip, G!Claimed, G!Become, G!Never
<1>2. /\ auditNow \in Nat \ {0} /\ entry \in 0..auditNow
      /\ bypass \in [Bypasses -> [pc : Stages,
                                  at : 0..auditNow]]
  BY DEF AuditInv
<1>3. PICK v \in Bypasses : bypass[v].at = entry /\ bypass[v].pc \in Holders
  BY <1>1 DEF AuditInv
<1>4. /\ v # b /\ bypass'[b].pc = "skipped" /\ bypass'[b].at = auditNow
      /\ \A a \in Bypasses \ {b} : bypass'[a] = bypass[a]
      /\ bypass' \in [Bypasses -> [pc : Stages,
                                   at : 0..auditNow]]
  BY <1>1, <1>2, <1>3 DEF Holders, Stages
<1>5. G!SilenceVouchedFor'
  <2> SUFFICES ASSUME NEW d \in Bypasses, bypass'[d].pc = "skipped"
               PROVE  \E a \in Bypasses :
                        /\ bypass'[a].at # 0 /\ bypass'[a].at <= bypass'[d].at
                        /\ bypass'[d].at - bypass'[a].at < AuditCooldown
                        /\ \/ bypass'[a].pc \in Holders
                           \/ bypass'[a].pc = "failed" /\ ended[a] >= bypass'[d].at
    BY <1>1 DEF G!SilenceVouchedFor, G!Never, Holders
  <2>1. CASE d = b
    BY <1>1, <1>2, <1>3, <1>4, <2>1
  <2>2. CASE d # b
    <3>1. PICK a \in Bypasses :
                        /\ bypass[a].at # 0 /\ bypass[a].at <= bypass[d].at
                        /\ bypass[d].at - bypass[a].at < AuditCooldown
                        /\ \/ bypass[a].pc \in Holders
                           \/ bypass[a].pc = "failed" /\ ended[a] >= bypass[d].at
      BY <1>4, <2>2 DEF AuditInv, Holders, Stages, G!SilenceVouchedFor, G!Never
    <3>2. a # b
      BY <1>1, <3>1 DEF Holders
    <3> QED
      BY <1>4, <2>2, <3>1, <3>2
  <2> QED
    BY <2>1, <2>2
<1> QED
  BY <1>1, <1>2, <1>3, <1>4, <1>5 DEF AuditInv

LEMMA AuditClaim == ASSUME AuditInv, NEW b \in Bypasses, G!Claim(b) PROVE AuditInv'
  BY QueuesAssumption DEF AuditInv, Holders, Stages, G!Claim, G!Claimed, G!Become, G!SilenceVouchedFor, G!Never

LEMMA AuditWritten == ASSUME AuditInv, NEW b \in Bypasses, G!Written(b) PROVE AuditInv'
  BY QueuesAssumption DEF AuditInv, Holders, Stages, G!Written, G!Claimed, G!SilenceVouchedFor, G!Never

LEMMA AuditCut == ASSUME AuditInv, NEW b \in Bypasses, G!Cut(b) PROVE AuditInv'
  BY QueuesAssumption DEF AuditInv, Holders, Stages, G!Cut, G!Claimed, G!SilenceVouchedFor, G!Never

LEMMA AuditWriteFails == ASSUME AuditInv, NEW b \in Bypasses, G!WriteFails(b) PROVE AuditInv'
  BY QueuesAssumption DEF AuditInv, Holders, Stages, G!WriteFails, G!Released, G!SilenceVouchedFor, G!Never

LEMMA AuditRetain == ASSUME AuditInv, G!Retain PROVE AuditInv'
  BY DEF AuditInv, Holders, Stages, G!Retain, G!SilenceVouchedFor, G!Never

LEMMA AuditNext == AuditInv /\ [G!Next]_(G!vars) => AuditInv'
<1> SUFFICES ASSUME AuditInv, [G!Next]_(G!vars) PROVE AuditInv'
  OBVIOUS
<1>1. CASE UNCHANGED G!vars
  BY <1>1 DEF AuditInv, Holders, Stages, G!vars, G!SilenceVouchedFor
<1> QED
  BY <1>1, AuditTick, AuditSkip, AuditClaim, AuditWritten, AuditCut, AuditWriteFails, AuditRetain
     DEF G!Next

(* Whatever request is silenced by a claim, another one of the same user   *)
(* and app is written or being written at that moment, or was cut off as   *)
(* it wrote (BypassAudit: audit_break_glass).                              *)
THEOREM SilenceIsVouchedFor == G!Spec => []G!SilenceVouchedFor
<1>1. AuditInv => G!SilenceVouchedFor
  BY DEF AuditInv
<1> QED
  BY <1>1, AuditInit, AuditNext, PTL DEF G!Spec

(* A sequence with one more at its end.                                    *)
LEMMA Appended ==
    ASSUME NEW X, NEW q \in Seq(X), NEW e \in X
    PROVE  /\ Append(q, e) \in Seq(X) /\ Len(Append(q, e)) = Len(q) + 1 /\ Len(q) \in Nat
           /\ Append(q, e)[Len(q) + 1] = e /\ \A i \in 1..Len(q) : Append(q, e)[i] = q[i]
           /\ \A i \in 1..Len(Append(q, e)) : i \in 1..Len(q) \/ i = Len(q) + 1
  BY AppendProperties, LenProperties

-----------------------------------------------------------------------------
(* The alerts.                                                             *)

AlertEvents == [key : Keys \cup {"test"}, at : Nat]
Outcomes == [key : Keys, at : Nat \ {0}, what : {"suppressed", "queued", "dropped"}]
AlertTypes ==
    /\ alertNow \in Nat \ {0} /\ recent \in [Keys -> 0..alertNow]
    /\ alertQueue \in Seq(AlertEvents) /\ notified \in SUBSET Outcomes
    /\ \A n \in notified : n.at <= alertNow
    /\ sender \in {[pc |-> "recv"]} \cup [pc : {"lookup"}, ev : AlertEvents]
                  \cup [pc : {"post"}, ev : AlertEvents, left : Nat \ {0}]
    /\ \A e \in DOMAIN posts : e \in AlertEvents /\ posts[e] \in Nat

(* The cooldown of a key starts with an event that was not suppressed, and *)
(* remembers the latest of those as long as it runs.                       *)
Cooldowns ==
    /\ \A a \in notified : a.what # "suppressed" /\ alertNow - a.at < AlertCooldown =>
          a.at <= recent[a.key]
    /\ \A k \in Keys : recent[k] # 0 =>
          \E b \in notified : b.key = k /\ b.at = recent[k] /\ b.what # "suppressed"
Spaced ==
    \A a \in notified :
         LET earlier == {b \in notified : /\ b.key = a.key /\ b.at < a.at
                                         /\ a.at - b.at < AlertCooldown} IN
         /\ a.what = "suppressed" => \E b \in earlier : b.what # "suppressed"
         /\ a.what # "suppressed" => \A b \in earlier : b.what = "suppressed"

(* An event that was queued is in one place: waiting, at the sender, or    *)
(* past it; one that waits has reached nobody.                             *)
Queued(e) == [key |-> e.key, at |-> e.at, what |-> "queued"] \in notified
Posted(e) == IF e \in DOMAIN posts THEN posts[e] ELSE 0
Sending(e) == sender.pc # "recv" /\ sender.ev = e
Delivery ==
    /\ \A i \in 1..Len(alertQueue) : alertQueue[i].key # "test" =>
          /\ Queued(alertQueue[i]) /\ alertQueue[i] \notin DOMAIN posts /\ ~Sending(alertQueue[i])
          /\ \A j \in 1..Len(alertQueue) : alertQueue[j] = alertQueue[i] => j = i
    /\ sender.pc # "recv" /\ sender.ev.key # "test" =>
          /\ Queued(sender.ev)
          /\ sender.pc = "lookup" => sender.ev \notin DOMAIN posts
          /\ sender.pc = "post" => Posted(sender.ev) + sender.left <= Attempts
    /\ \A e \in DOMAIN posts : e.key # "test" => posts[e] <= Attempts /\ Queued(e)

AlertInv == AlertTypes /\ Cooldowns /\ Spaced /\ Delivery

LEMMA AlertInit == E!Init => AlertInv
<1> SUFFICES ASSUME E!Init PROVE AlertInv
  OBVIOUS
<1>1. /\ alertNow = 1 /\ recent = [k \in Keys |-> 0] /\ alertQueue = <<>>
      /\ sender = [pc |-> "recv"] /\ DOMAIN posts = {} /\ notified = {}
  BY DEF E!Init, E!Never
<1>2. AlertTypes
  BY <1>1 DEF AlertTypes
<1>3. Cooldowns /\ Spaced
  BY <1>1 DEF Cooldowns, Spaced
<1>4. Delivery
  BY <1>1 DEF Delivery
<1> QED
  BY <1>2, <1>3, <1>4 DEF AlertInv

LEMMA AlertTick == ASSUME AlertInv, E!Tick PROVE AlertInv'
<1>1. /\ alertNow' = alertNow + 1 /\ recent' = recent /\ alertQueue' = alertQueue
      /\ sender' = sender /\ posts' = posts /\ notified' = notified
  BY DEF E!Tick
<1>2. alertNow \in Nat \ {0} /\ recent \in [Keys -> 0..alertNow] /\ notified \in SUBSET Outcomes
  BY DEF AlertInv, AlertTypes
<1>3. AlertTypes'
  <2>1. 0..alertNow \subseteq 0..alertNow' /\ alertNow' \in Nat \ {0}
    BY <1>1, <1>2
  <2>2. recent' \in [Keys -> 0..alertNow']
    BY <1>1, <1>2, <2>1
  <2>3. \A n \in notified : n.at <= alertNow + 1
    BY <1>2 DEF AlertInv, AlertTypes, Outcomes
  <2> QED
    BY <1>1, <2>1, <2>2, <2>3 DEF AlertInv, AlertTypes
<1>4. Cooldowns'
  <2>1. ASSUME NEW a \in notified, a.what # "suppressed", (alertNow + 1) - a.at < AlertCooldown
        PROVE  a.at <= recent[a.key]
    <3>1. a.at \in Nat
      BY <1>2 DEF Outcomes
    <3>2. alertNow - a.at < AlertCooldown
      BY <1>2, <2>1, <3>1, QueuesAssumption
    <3> QED
      BY <2>1, <3>2 DEF AlertInv, Cooldowns
  <2> QED
    BY <1>1, <2>1 DEF AlertInv, Cooldowns
<1>5. Spaced' /\ Delivery'
  BY <1>1 DEF AlertInv, Spaced, Delivery, Queued, Posted, Sending
<1> QED
  BY <1>3, <1>4, <1>5 DEF AlertInv

(* A new outcome of a key that has none yet at this moment.                *)
LEMMA AlertSpacedNew ==
    ASSUME AlertInv, NEW k \in Keys, NEW what \in {"suppressed", "queued", "dropped"},
           E!Fresh(k), E!Cooling(k) <=> what = "suppressed",
           notified' = notified \cup {[key |-> k, at |-> alertNow, what |-> what]}
    PROVE  notified' \in SUBSET Outcomes /\ (\A n \in notified' : n.at <= alertNow) /\ Spaced'
<1> DEFINE z == [key |-> k, at |-> alertNow, what |-> what]
<1>1. z \in Outcomes /\ z.key = k /\ z.at = alertNow /\ z.what = what
  BY DEF AlertInv, AlertTypes, Outcomes
<1>2. /\ notified \in SUBSET Outcomes /\ alertNow \in Nat \ {0} /\ recent \in [Keys -> 0..alertNow]
      /\ \A n \in notified : n.at <= alertNow /\ n.at \in Nat \ {0}
  BY DEF AlertInv, AlertTypes, Outcomes
<1>3. notified' = notified \cup {z}
  OBVIOUS
<1>4. \A n \in notified : n.key = k => n.at < alertNow
  BY <1>2 DEF E!Fresh
<1> HIDE DEF z
<1>5. ASSUME NEW a \in notified
      PROVE  {b \in notified' : b.key = a.key /\ b.at < a.at /\ a.at - b.at < AlertCooldown} =
             {b \in notified : b.key = a.key /\ b.at < a.at /\ a.at - b.at < AlertCooldown}
  <2>1. ~(z.at < a.at)
    BY <1>1, <1>2
  <2> QED
    BY <1>3, <2>1
<1>6. z \notin {b \in notified' : b.key = k /\ b.at < alertNow /\ alertNow - b.at < AlertCooldown}
  BY <1>1, <1>2
<1>7. CASE what = "suppressed"
  <2>1. recent[k] # 0 /\ alertNow - recent[k] < AlertCooldown
    BY <1>7 DEF E!Cooling, E!Never
  <2>2. PICK b \in notified : b.key = k /\ b.at = recent[k] /\ b.what # "suppressed"
    BY <2>1 DEF AlertInv, Cooldowns
  <2>3. b \in notified' /\ b.at < alertNow /\ alertNow - b.at < AlertCooldown
    BY <1>3, <1>4, <2>1, <2>2
  <2>4. \E y \in {y \in notified' : y.key = z.key /\ y.at < z.at /\ z.at - y.at < AlertCooldown} :
           y.what # "suppressed"
    BY <1>1, <2>2, <2>3
  <2>5. Spaced'
    BY <1>1, <1>3, <1>5, <1>7, <2>4 DEF AlertInv, Spaced
  <2> QED
    BY <1>1, <1>2, <1>3, <2>5
<1>8. CASE what # "suppressed"
  <2>1. ASSUME NEW b \in notified', b.key = k, b.at < alertNow, alertNow - b.at < AlertCooldown,
               b.what # "suppressed"
        PROVE  FALSE
    <3>1. b \in notified
      BY <1>1, <1>2, <1>3, <2>1
    <3>2. b.at <= recent[k] /\ b.at \in Nat \ {0}
      BY <1>2, <2>1, <3>1 DEF AlertInv, Cooldowns
    <3>3. recent[k] # 0 /\ recent[k] \in Nat /\ alertNow - recent[k] < AlertCooldown
      BY <1>2, <2>1, <3>2, QueuesAssumption
    <3> QED
      BY <1>8, <3>3 DEF E!Cooling, E!Never
  <2>2. \A y \in {y \in notified' : y.key = z.key /\ y.at < z.at /\ z.at - y.at < AlertCooldown} :
           y.what = "suppressed"
    BY <1>1, <2>1
  <2>3. Spaced'
    BY <1>1, <1>3, <1>5, <1>8, <2>2 DEF AlertInv, Spaced
  <2> QED
    BY <1>1, <1>2, <1>3, <2>3
<1> QED
  BY <1>7, <1>8

LEMMA AlertSuppressed == ASSUME AlertInv, NEW k \in Keys, E!Suppressed(k) PROVE AlertInv'
<1>1. /\ notified' = notified \cup {[key |-> k, at |-> alertNow, what |-> "suppressed"]}
      /\ E!Fresh(k) /\ E!Cooling(k)
      /\ alertNow' = alertNow /\ recent' = recent /\ alertQueue' = alertQueue
      /\ sender' = sender /\ posts' = posts
  BY DEF E!Suppressed, E!Outcome
<1>2. notified' \in SUBSET Outcomes /\ (\A n \in notified' : n.at <= alertNow) /\ Spaced'
  BY <1>1, AlertSpacedNew
<1>3. AlertTypes'
  BY <1>1, <1>2 DEF AlertInv, AlertTypes
<1>4. Cooldowns'
  BY <1>1 DEF AlertInv, Cooldowns
<1>5. Delivery'
  BY <1>1 DEF AlertInv, Delivery, Queued, Posted, Sending
<1> QED
  BY <1>2, <1>3, <1>4, <1>5 DEF AlertInv

LEMMA AlertNotify == ASSUME AlertInv, NEW k \in Keys, E!Notify(k) PROVE AlertInv'
<1> DEFINE e == [key |-> k, at |-> alertNow]
<1>1. PICK what \in {"queued", "dropped"} :
        /\ notified' = notified \cup {[key |-> k, at |-> alertNow, what |-> what]}
        /\ IF what = "queued" THEN alertQueue' = Append(alertQueue, e) ELSE alertQueue' = alertQueue
  BY DEF E!Notify, E!Outcome, E!Event
<1>2. /\ E!Fresh(k) /\ ~E!Cooling(k)
      /\ recent' = [i \in Keys |->
                      LET r == [recent EXCEPT ![k] = alertNow]
                      IN IF r[i] # 0 /\ alertNow - r[i] < AlertCooldown THEN r[i] ELSE 0]
      /\ alertNow' = alertNow /\ sender' = sender /\ posts' = posts
  BY DEF E!Notify, E!Armed, E!Retained, E!Never
<1>3. notified' \in SUBSET Outcomes /\ (\A n \in notified' : n.at <= alertNow) /\ Spaced'
  BY <1>1, <1>2, AlertSpacedNew
<1>4. /\ alertNow \in Nat \ {0} /\ recent \in [Keys -> 0..alertNow] /\ alertQueue \in Seq(AlertEvents)
      /\ notified \in SUBSET Outcomes
  BY DEF AlertInv, AlertTypes
<1>5. e \in AlertEvents /\ e.key = k /\ e.at = alertNow /\ k # "test"
  BY <1>4, QueuesAssumption DEF AlertEvents
<1>6. /\ recent' \in [Keys -> 0..alertNow]
      /\ recent'[k] = (IF 0 < AlertCooldown THEN alertNow ELSE 0)
      /\ \A i \in Keys \ {k} : recent'[i] =
           IF recent[i] # 0 /\ alertNow - recent[i] < AlertCooldown THEN recent[i] ELSE 0
  <2>1. ASSUME NEW i \in Keys \ {k}
        PROVE  /\ recent'[i] = IF recent[i] # 0 /\ alertNow - recent[i] < AlertCooldown
                                THEN recent[i] ELSE 0
               /\ recent'[i] \in 0..alertNow
    BY <1>2, <1>4
  <2>2. recent'[k] = (IF 0 < AlertCooldown THEN alertNow ELSE 0)
    BY <1>2, <1>4
  <2>3. recent'[k] \in 0..alertNow
    BY <1>4, <2>2
  <2>4. \A i \in Keys : recent'[i] \in 0..alertNow
    BY <2>1, <2>3
  <2>5. recent' \in [Keys -> 0..alertNow]
    BY <1>2, <2>4
  <2> QED
    BY <2>1, <2>2, <2>5
<1>7. AlertTypes'
  <2>1. Append(alertQueue, e) \in Seq(AlertEvents)
    BY <1>4, <1>5, Appended
  <2>2. alertQueue' \in Seq(AlertEvents)
    BY <1>1, <1>4, <2>1
  <2> QED
    BY <1>2, <1>3, <1>6, <2>2 DEF AlertInv, AlertTypes
<1> DEFINE z == [key |-> k, at |-> alertNow, what |-> what]
<1>8. z.key = k /\ z.at = alertNow /\ z.what # "suppressed" /\ notified' = notified \cup {z}
  BY <1>1
<1>9. \A n \in notified : n.key = k => n.at # alertNow
  BY <1>2 DEF E!Fresh
<1>10. what = "queued" => [key |-> e.key, at |-> e.at, what |-> "queued"] \in notified'
  BY <1>5, <1>8
<1>11. ~Queued(e)
  BY <1>5, <1>9 DEF Queued
<1>12. \A y : Queued(y) => Queued(y)'
  BY <1>1 DEF Queued
<1> HIDE DEF e, z
<1>13. Cooldowns'
  <2>1. ASSUME NEW a \in notified', a.what # "suppressed", alertNow - a.at < AlertCooldown
        PROVE  a.at <= recent'[a.key]
    <3>1. CASE a = z
      BY <1>4, <1>6, <1>8, <2>1, <3>1
    <3>2. CASE a \in notified
      <4>1. a.at <= recent[a.key] /\ a.at \in Nat \ {0} /\ a.at <= alertNow /\ a.key \in Keys
        BY <2>1, <3>2 DEF AlertInv, Cooldowns, AlertTypes, Outcomes
      <4>2. CASE a.key = k
        <5>1. 0 < AlertCooldown
          BY <1>4, <2>1, <4>1, QueuesAssumption
        <5> QED
          BY <1>6, <4>1, <4>2, <5>1
      <4>3. CASE a.key # k
        <5>1. recent[a.key] \in 0..alertNow
          BY <1>4, <4>1
        <5>2. recent[a.key] # 0 /\ alertNow - recent[a.key] < AlertCooldown
          BY <1>4, <2>1, <4>1, <5>1, QueuesAssumption
        <5> QED
          BY <1>6, <4>1, <4>3, <5>2
      <4> QED
        BY <4>2, <4>3
    <3> QED
      BY <1>8, <3>1, <3>2
  <2>2. ASSUME NEW i \in Keys, recent'[i] # 0
        PROVE  \E b \in notified' : b.key = i /\ b.at = recent'[i] /\ b.what # "suppressed"
    <3>1. CASE i = k
      BY <1>6, <1>8, <2>2, <3>1
    <3>2. CASE i # k
      <4>1. recent'[i] = recent[i] /\ recent[i] # 0
        BY <1>6, <2>2, <3>2
      <4> QED
        BY <1>8, <4>1 DEF AlertInv, Cooldowns
    <3> QED
      BY <3>1, <3>2
  <2> QED
    BY <1>2, <2>1, <2>2 DEF Cooldowns
<1>14. Delivery'
  <2>1. /\ sender.pc # "recv" /\ sender.ev.key # "test" => Queued(sender.ev)
        /\ \A y \in DOMAIN posts : y.key # "test" => Queued(y)
        /\ \A i \in 1..Len(alertQueue) : alertQueue[i].key # "test" => Queued(alertQueue[i])
    BY DEF AlertInv, Delivery
  <2>2. /\ e \notin DOMAIN posts /\ ~Sending(e)
        /\ \A i \in 1..Len(alertQueue) : alertQueue[i] # e
    BY <1>5, <1>11, <2>1 DEF Sending
  <2>3. /\ sender'.pc # "recv" /\ sender'.ev.key # "test" =>
             /\ Queued(sender.ev)'
             /\ sender.pc = "lookup" => sender.ev \notin DOMAIN posts
             /\ sender.pc = "post" => Posted(sender.ev) + sender.left <= Attempts
        /\ \A y \in DOMAIN posts : y.key # "test" => posts[y] <= Attempts /\ Queued(y)'
    BY <1>2, <1>12 DEF AlertInv, Delivery
  <2>4. \A y : Posted(y)' = Posted(y) /\ (Sending(y)' <=> Sending(y))
    BY <1>2 DEF Posted, Sending
  <2>5. ASSUME NEW i \in 1..Len(alertQueue'), alertQueue'[i].key # "test"
        PROVE  /\ Queued(alertQueue[i])' /\ alertQueue'[i] \notin DOMAIN posts
               /\ ~Sending(alertQueue'[i])
               /\ \A j \in 1..Len(alertQueue') : alertQueue'[j] = alertQueue'[i] => j = i
    <3>1. CASE alertQueue' = alertQueue
      <4>1. Queued(alertQueue[i])
        BY <2>1, <2>5, <3>1
      <4>2. Queued(alertQueue[i])'
        BY <3>1, <4>1, <1>1 DEF Queued
      <4> QED
        BY <2>5, <3>1, <4>2 DEF AlertInv, Delivery
    <3>2. CASE what = "queued" /\ alertQueue' = Append(alertQueue, e)
      <4>1. /\ Len(alertQueue) \in Nat /\ alertQueue'[Len(alertQueue) + 1] = e
            /\ \A j \in 1..Len(alertQueue) : alertQueue'[j] = alertQueue[j]
            /\ \A j \in 1..Len(alertQueue') : j \in 1..Len(alertQueue) \/ j = Len(alertQueue) + 1
        BY <1>4, <1>5, <3>2, Appended
      <4>2. CASE i = Len(alertQueue) + 1
        <5>1. alertQueue'[i] = e
          BY <4>1, <4>2
        <5>2. Queued(alertQueue[i])'
          BY <1>10, <3>2, <5>1 DEF Queued
        <5> QED
          BY <2>2, <4>1, <4>2, <5>1, <5>2
      <4>3. CASE i \in 1..Len(alertQueue)
        <5>1. alertQueue'[i] = alertQueue[i]
          BY <4>1, <4>3
        <5>2. /\ Queued(alertQueue[i]) /\ alertQueue[i] \notin DOMAIN posts /\ ~Sending(alertQueue[i])
              /\ \A j \in 1..Len(alertQueue) : alertQueue[j] = alertQueue[i] => j = i
          BY <2>5, <4>3, <5>1 DEF AlertInv, Delivery
        <5>3. Queued(alertQueue[i])'
          BY <1>1, <5>1, <5>2 DEF Queued
        <5> QED
          BY <2>2, <4>1, <4>3, <5>1, <5>2, <5>3
      <4> QED
        BY <4>1, <4>2, <4>3
    <3> QED
      BY <1>1, <3>1, <3>2
  <2> QED
    BY <1>2, <2>3, <2>4, <2>5 DEF Delivery, Sending, Posted
<1> QED
  BY <1>3, <1>7, <1>13, <1>14 DEF AlertInv

(* A step of the queue, the sender or the setting alone: cooldowns stay.   *)
LEMMA AlertAside ==
    ASSUME AlertInv, alertNow' = alertNow, recent' = recent, notified' = notified,
           AlertTypes', Delivery'
    PROVE  AlertInv'
  BY DEF AlertInv, Cooldowns, Spaced

LEMMA AlertNotifyTest == ASSUME AlertInv, E!NotifyTest PROVE AlertInv'
<1> DEFINE e == [key |-> "test", at |-> alertNow]
<1>1. /\ alertNow' = alertNow /\ recent' = recent /\ notified' = notified
      /\ sender' = sender /\ posts' = posts
      /\ alertQueue' = alertQueue \/ alertQueue' = Append(alertQueue, e)
  BY DEF E!NotifyTest, E!Event, E!Test
<1>2. alertQueue \in Seq(AlertEvents) /\ e \in AlertEvents /\ e.key = "test"
  BY DEF AlertInv, AlertTypes, AlertEvents
<1> HIDE DEF e
<1>3. CASE alertQueue' = alertQueue
  BY <1>1, <1>3, AlertAside DEF AlertInv, AlertTypes, Delivery, Queued, Posted, Sending
<1>4. CASE alertQueue' = Append(alertQueue, e)
  <2>1. /\ alertQueue' \in Seq(AlertEvents)
        /\ alertQueue'[Len(alertQueue) + 1] = e
        /\ \A j \in 1..Len(alertQueue) : alertQueue'[j] = alertQueue[j]
        /\ \A j \in 1..Len(alertQueue') : j \in 1..Len(alertQueue) \/ j = Len(alertQueue) + 1
    BY <1>2, <1>4, Appended
  <2>2. AlertTypes'
    BY <1>1, <2>1 DEF AlertInv, AlertTypes
  <2>3. ASSUME NEW i \in 1..Len(alertQueue'), alertQueue'[i].key # "test"
        PROVE  /\ Queued(alertQueue[i])' /\ alertQueue'[i] \notin DOMAIN posts
               /\ ~Sending(alertQueue'[i])
               /\ \A j \in 1..Len(alertQueue') : alertQueue'[j] = alertQueue'[i] => j = i
    <3>1. i \in 1..Len(alertQueue) /\ alertQueue'[i] = alertQueue[i] /\ alertQueue[i].key # "test"
      BY <1>2, <2>1, <2>3
    <3>2. /\ Queued(alertQueue[i]) /\ alertQueue[i] \notin DOMAIN posts /\ ~Sending(alertQueue[i])
          /\ \A j \in 1..Len(alertQueue) : alertQueue[j] = alertQueue[i] => j = i
      BY <3>1 DEF AlertInv, Delivery
    <3>3. Queued(alertQueue[i])'
      BY <1>1, <3>1, <3>2 DEF Queued
    <3> QED
      BY <1>2, <2>1, <2>3, <3>1, <3>2, <3>3
  <2>4. Delivery'
    BY <1>1, <2>3 DEF AlertInv, Delivery, Queued, Posted, Sending
  <2> QED
    BY <1>1, <2>2, <2>4, AlertAside
<1> QED
  BY <1>1, <1>3, <1>4

(* The sender takes the event at the head of the queue.                    *)
LEMMA AlertTake == ASSUME AlertInv, E!Take PROVE AlertInv'
<1> DEFINE h == Head(alertQueue)
           n == Len(alertQueue)
<1>1. /\ sender.pc = "recv" /\ alertQueue # <<>> /\ alertQueue' = Tail(alertQueue)
      /\ alertNow' = alertNow /\ recent' = recent /\ notified' = notified /\ posts' = posts
      /\ sender' \in {[pc |-> "recv"], [pc |-> "lookup", ev |-> h],
                      [pc |-> "post", ev |-> h, left |-> Attempts]}
  BY DEF E!Take, E!Deliver
<1>2. alertQueue \in Seq(AlertEvents)
  BY DEF AlertInv, AlertTypes
<1>3. /\ n \in Nat \ {0} /\ h = alertQueue[1] /\ h \in AlertEvents
      /\ alertQueue' \in Seq(AlertEvents) /\ Len(alertQueue') = n - 1
      /\ \A i \in 1..(n - 1) : alertQueue'[i] = alertQueue[i + 1]
  BY <1>1, <1>2, HeadTailProperties, LenProperties, EmptySeq, ElementOfSeq
<1> HIDE DEF h, n
<1>4. /\ h.key # "test" =>
           /\ Queued(h) /\ h \notin DOMAIN posts
           /\ \A j \in 1..n : alertQueue[j] = h => j = 1
  BY <1>3 DEF AlertInv, Delivery, n
<1>5. sender' \in {[pc |-> "recv"]} \cup [pc : {"lookup"}, ev : AlertEvents]
                  \cup [pc : {"post"}, ev : AlertEvents, left : Nat \ {0}]
  BY <1>1, <1>3, QueuesAssumption
<1>6. AlertTypes'
  BY <1>1, <1>3, <1>5 DEF AlertInv, AlertTypes
<1>7. /\ sender'.pc # "recv" => sender'.ev = h
      /\ sender'.pc = "post" => sender'.left = Attempts
  BY <1>1
<1>8. ASSUME NEW i \in 1..Len(alertQueue'), alertQueue'[i].key # "test"
      PROVE  /\ Queued(alertQueue[i])' /\ alertQueue'[i] \notin DOMAIN posts
             /\ ~(sender'.pc # "recv" /\ sender'.ev = alertQueue'[i])
             /\ \A j \in 1..Len(alertQueue') : alertQueue'[j] = alertQueue'[i] => j = i
  <2>1. i + 1 \in 1..n /\ alertQueue'[i] = alertQueue[i + 1] /\ i + 1 # 1
    BY <1>3
  <2>2. /\ Queued(alertQueue[i + 1]) /\ alertQueue[i + 1] \notin DOMAIN posts
        /\ \A j \in 1..n : alertQueue[j] = alertQueue[i + 1] => j = i + 1
    BY <1>8, <2>1 DEF AlertInv, Delivery, n
  <2>3. Queued(alertQueue[i])'
    BY <1>1, <2>1, <2>2 DEF Queued
  <2>4. alertQueue[i + 1] # h
    BY <1>3, <2>1, <2>2
  <2>5. ASSUME NEW j \in 1..Len(alertQueue'), alertQueue'[j] = alertQueue'[i] PROVE j = i
    <3>1. j + 1 \in 1..n /\ alertQueue'[j] = alertQueue[j + 1]
      BY <1>3
    <3>2. j + 1 = i + 1
      BY <2>1, <2>2, <2>5, <3>1
    <3> QED
      BY <1>3, <3>2
  <2> QED
    BY <1>7, <2>1, <2>2, <2>3, <2>4, <2>5
<1>9. /\ \A y \in DOMAIN posts : y.key # "test" => posts[y] <= Attempts /\ Queued(y)'
      /\ Queued(h) => Queued(sender.ev)' \/ sender'.pc = "recv"
  BY <1>1, <1>7 DEF AlertInv, Delivery, Queued
<1>10. Delivery'
  <2>1. ASSUME sender'.pc # "recv", sender'.ev.key # "test"
        PROVE  /\ Queued(sender.ev)'
               /\ sender'.pc = "lookup" => sender'.ev \notin DOMAIN posts
               /\ sender'.pc = "post" => Posted(sender.ev)' + sender'.left <= Attempts
    <3>1. sender'.ev = h /\ Queued(h) /\ h \notin DOMAIN posts
      BY <1>4, <1>7, <2>1
    <3>2. Posted(sender.ev)' = 0
      BY <1>1, <3>1 DEF Posted
    <3> QED
      BY <1>7, <1>9, <2>1, <3>1, <3>2, QueuesAssumption
  <2> QED
    BY <1>1, <1>8, <1>9, <2>1 DEF Delivery, Sending
<1> QED
  BY <1>1, <1>6, <1>10, AlertAside

(* A step of the sender that keeps or drops the event it has.              *)
LEMMA AlertSends ==
    ASSUME AlertInv, alertNow' = alertNow, recent' = recent, notified' = notified,
           alertQueue' = alertQueue, AlertTypes',
           sender.pc # "recv", sender'.pc # "recv" => sender'.ev = sender.ev,
           \A y \in DOMAIN posts' : y \in DOMAIN posts \/ y = sender.ev,
           \A y \in DOMAIN posts' : y # sender.ev => posts'[y] = posts[y],
           sender.ev.key # "test" =>
              /\ sender'.pc = "lookup" => sender.ev \notin DOMAIN posts'
              /\ sender'.pc = "post" => Posted(sender.ev)' + sender'.left <= Attempts
              /\ sender.ev \in DOMAIN posts' => posts'[sender.ev] <= Attempts
    PROVE  AlertInv'
<1> DEFINE e == sender.ev
<1>1. e.key # "test" => Queued(e)
  BY DEF AlertInv, Delivery
<1>2. \A y : Queued(y) => [key |-> y.key, at |-> y.at, what |-> "queued"] \in notified'
  BY DEF Queued
<1>3. ASSUME NEW i \in 1..Len(alertQueue'), alertQueue'[i].key # "test"
      PROVE  /\ Queued(alertQueue[i])' /\ alertQueue'[i] \notin DOMAIN posts'
             /\ ~(sender'.pc # "recv" /\ sender'.ev = alertQueue'[i])
             /\ \A j \in 1..Len(alertQueue') : alertQueue'[j] = alertQueue'[i] => j = i
  <2>1. /\ Queued(alertQueue[i]) /\ alertQueue[i] \notin DOMAIN posts /\ ~Sending(alertQueue[i])
        /\ \A j \in 1..Len(alertQueue) : alertQueue[j] = alertQueue[i] => j = i
    BY <1>3 DEF AlertInv, Delivery
  <2>2. alertQueue[i] # e
    BY <2>1 DEF Sending
  <2>3. Queued(alertQueue[i])'
    BY <1>2, <2>1 DEF Queued
  <2> QED
    BY <2>1, <2>2, <2>3
<1>4. ASSUME NEW y \in DOMAIN posts', y.key # "test"
      PROVE  posts'[y] <= Attempts /\ [key |-> y.key, at |-> y.at, what |-> "queued"] \in notified'
  <2>1. CASE y = e
    BY <1>1, <1>2, <1>4, <2>1
  <2>2. CASE y # e
    <3>1. y \in DOMAIN posts /\ posts'[y] = posts[y]
      BY <2>2
    <3>2. posts[y] <= Attempts /\ Queued(y)
      BY <1>4, <3>1 DEF AlertInv, Delivery
    <3> QED
      BY <1>2, <3>1, <3>2
  <2> QED
    BY <2>1, <2>2
<1>5. ASSUME sender'.pc # "recv", sender'.ev.key # "test"
      PROVE  /\ [key |-> sender'.ev.key, at |-> sender'.ev.at, what |-> "queued"] \in notified'
             /\ sender'.pc = "lookup" => sender'.ev \notin DOMAIN posts'
             /\ sender'.pc = "post" => Posted(sender.ev)' + sender'.left <= Attempts
  BY <1>1, <1>2, <1>5
<1>6. Delivery'
  BY <1>3, <1>4, <1>5 DEF Delivery, Sending, Queued
<1> QED
  BY <1>6, AlertAside

(* A sender that has an event.                                             *)
LEMMA SenderHas ==
    ASSUME AlertInv, sender.pc # "recv"
    PROVE  /\ sender.pc \in {"lookup", "post"} /\ sender.ev \in AlertEvents
           /\ sender.pc = "post" => /\ sender.left \in Nat \ {0}
                                    /\ sender = [pc |-> "post", ev |-> sender.ev, left |-> sender.left]
<1>1. \/ sender = [pc |-> "recv"] \/ sender \in [pc : {"lookup"}, ev : AlertEvents]
      \/ sender \in [pc : {"post"}, ev : AlertEvents, left : Nat \ {0}]
  BY DEF AlertInv, AlertTypes
<1> QED
  BY <1>1

LEMMA AlertLookup == ASSUME AlertInv, NEW u \in {setting, E!NoUrl}, E!Lookup(u) PROVE AlertInv'
<1> DEFINE e == sender.ev
<1>1. /\ sender.pc = "lookup"
      /\ alertNow' = alertNow /\ recent' = recent /\ notified' = notified /\ posts' = posts
      /\ alertQueue' = alertQueue
      /\ sender' \in {[pc |-> "recv"], [pc |-> "post", ev |-> e, left |-> Attempts]}
  BY DEF E!Lookup, E!Deliver
<1>2. e \in AlertEvents
  BY <1>1, SenderHas
<1>3. AlertTypes'
  <2>1. sender' \in {[pc |-> "recv"]} \cup [pc : {"lookup"}, ev : AlertEvents]
                  \cup [pc : {"post"}, ev : AlertEvents, left : Nat \ {0}]
    BY <1>1, <1>2, QueuesAssumption
  <2> QED
    BY <1>1, <2>1 DEF AlertInv, AlertTypes
<1>4. e.key # "test" => e \notin DOMAIN posts
  BY <1>1 DEF AlertInv, Delivery
<1>5. /\ sender'.pc # "recv" => sender'.ev = e /\ sender'.left = Attempts
      /\ sender'.pc # "lookup"
  BY <1>1
<1> HIDE DEF e
<1>6. e.key # "test" /\ sender'.pc = "post" => Posted(sender.ev)' = 0
  BY <1>1, <1>4, <1>5 DEF Posted
<1>7. e.key # "test" => (sender'.pc = "post" => Posted(sender.ev)' + sender'.left <= Attempts)
  BY <1>5, <1>6, QueuesAssumption
<1>8. /\ sender.ev.key # "test" =>
              /\ sender'.pc = "lookup" => sender.ev \notin DOMAIN posts'
              /\ sender'.pc = "post" => Posted(sender.ev)' + sender'.left <= Attempts
              /\ sender.ev \in DOMAIN posts' => posts'[sender.ev] <= Attempts
  BY <1>1, <1>4, <1>5, <1>7 DEF e
<1>9. sender'.pc # "recv" => sender'.ev = sender.ev
  BY <1>5 DEF e
<1> QED
  BY <1>1, <1>3, <1>8, <1>9, AlertSends

(* A post that reaches the endpoint counts one more.                       *)
LEMMA AlertArrives ==
    ASSUME AlertInv, sender.pc = "post", E!Arrived(sender.ev)
    PROVE  /\ \A y \in DOMAIN posts' : y \in DOMAIN posts \/ y = sender.ev
           /\ \A y \in DOMAIN posts' : y # sender.ev => posts'[y] = posts[y]
           /\ \A y \in DOMAIN posts' : y \in AlertEvents /\ posts'[y] \in Nat
           /\ sender.ev \in DOMAIN posts'
           /\ posts'[sender.ev] <= Posted(sender.ev) + 1 /\ Posted(sender.ev) \in Nat
<1> DEFINE e == sender.ev
<1>1. posts' = [x \in DOMAIN posts \cup {e} |->
                  E!Count(x) + (IF x = e /\ E!Count(x) <= Attempts THEN 1 ELSE 0)]
  BY DEF E!Arrived
<1>2. \A x : E!Count(x) = Posted(x)
  BY DEF E!Count, Posted
<1>3. e \in AlertEvents
  BY SenderHas
<1>4. \A x : Posted(x) \in Nat
  BY DEF AlertInv, AlertTypes, Posted
<1>5. \A y \in DOMAIN posts : y \in AlertEvents
  BY DEF AlertInv, AlertTypes
<1> HIDE DEF e
<1>6. DOMAIN posts' = DOMAIN posts \cup {e}
  BY <1>1
<1>7. \A x \in DOMAIN posts' :
        posts'[x] = Posted(x) + (IF x = e /\ Posted(x) <= Attempts THEN 1 ELSE 0)
  BY <1>1, <1>2
<1>8. \A y \in DOMAIN posts' : y # e => posts'[y] = posts[y]
  <2>1. ASSUME NEW y \in DOMAIN posts', y # e PROVE posts'[y] = posts[y]
    <3>1. y \in DOMAIN posts
      BY <1>6, <2>1
    <3>2. posts'[y] = Posted(y) + 0
      BY <1>7, <2>1
    <3>3. Posted(y) = posts[y]
      BY <3>1 DEF Posted
    <3> QED
      BY <1>4, <3>2, <3>3
  <2> QED
    BY <2>1
<1>9. \A y \in DOMAIN posts' : posts'[y] \in Nat
  BY <1>4, <1>7
<1>10. posts'[e] <= Posted(e) + 1
  BY <1>4, <1>6, <1>7
<1>12. \A y \in DOMAIN posts' : y \in AlertEvents
  BY <1>3, <1>5, <1>6
<1> QED
  BY <1>4, <1>6, <1>8, <1>9, <1>10, <1>12 DEF e

(* An attempt to post: it may arrive, and the sender is left with less     *)
(* attempts or with none.                                                  *)
LEMMA AlertPost ==
    ASSUME AlertInv, sender.pc = "post", alertNow' = alertNow, recent' = recent,
           notified' = notified, alertQueue' = alertQueue,
           E!Arrived(sender.ev) \/ posts' = posts,
           sender' = [pc |-> "recv"] \/
             (sender' = [sender EXCEPT !.left = sender.left - 1] /\ sender.left - 1 # 0)
    PROVE  AlertInv'
<1> DEFINE e == sender.ev
           m == sender.left
<1>1. /\ e \in AlertEvents /\ m \in Nat \ {0} /\ Attempts \in Nat
      /\ sender = [pc |-> "post", ev |-> e, left |-> m]
  BY SenderHas, QueuesAssumption
<1> HIDE DEF e, m
<1>2. \/ sender' = [pc |-> "recv"]
      \/ sender' = [pc |-> "post", ev |-> e, left |-> m - 1] /\ m - 1 \in Nat \ {0}
  <2>1. m - 1 # 0 => m - 1 \in Nat \ {0}
    BY <1>1
  <2> QED
    BY <1>1, <2>1
<1>3. /\ \A y \in DOMAIN posts' : y \in DOMAIN posts \/ y = sender.ev
      /\ \A y \in DOMAIN posts' : y # sender.ev => posts'[y] = posts[y]
      /\ \A y \in DOMAIN posts' : y \in AlertEvents /\ posts'[y] \in Nat
      /\ Posted(e) \in Nat /\ (e \in DOMAIN posts' => posts'[e] <= Posted(e) + 1)
  <2>1. CASE E!Arrived(sender.ev)
    BY <2>1, AlertArrives DEF e
  <2>2. CASE posts' = posts
    <3>1. Posted(e) \in Nat
      BY DEF AlertInv, AlertTypes, Posted
    <3>2. e \in DOMAIN posts => posts[e] = Posted(e)
      BY DEF Posted
    <3> QED
      BY <2>2, <3>1, <3>2 DEF AlertInv, AlertTypes
  <2> QED
    BY <2>1, <2>2
<1>4. AlertTypes'
  <2>1. sender' \in {[pc |-> "recv"]} \cup [pc : {"lookup"}, ev : AlertEvents]
                  \cup [pc : {"post"}, ev : AlertEvents, left : Nat \ {0}]
    BY <1>1, <1>2
  <2> QED
    BY <1>3, <2>1 DEF AlertInv, AlertTypes
<1>5. e.key # "test" => Posted(e) + m <= Attempts
  BY DEF AlertInv, Delivery, e, m
<1>6. e.key # "test" /\ e \in DOMAIN posts' =>
        posts'[e] <= Attempts /\ posts'[e] + (m - 1) <= Attempts
  BY <1>1, <1>3, <1>5
<1>7. sender'.pc \in {"recv", "post"} /\ (sender'.pc = "post" => sender'.ev = e /\ sender'.left = m - 1)
  BY <1>2
<1>8. e.key # "test" =>
        /\ sender'.pc = "post" => Posted(sender.ev)' + sender'.left <= Attempts
        /\ e \in DOMAIN posts' => posts'[e] <= Attempts
  <2>1. ASSUME e.key # "test", sender'.pc = "post"
        PROVE  Posted(sender.ev)' + sender'.left <= Attempts
    <3>1. Posted(sender.ev)' = IF e \in DOMAIN posts' THEN posts'[e] ELSE 0
      BY <1>7, <2>1 DEF Posted
    <3>2. m - 1 <= Attempts
      BY <1>1, <1>3, <1>5, <2>1
    <3> QED
      BY <1>1, <1>6, <1>7, <2>1, <3>1, <3>2
  <2> QED
    BY <1>6, <2>1
<1>9. sender.ev = e
  BY DEF e
<1> QED
  BY <1>3, <1>4, <1>7, <1>8, <1>9, AlertSends

LEMMA AlertNext == AlertInv /\ [E!Next]_(E!vars) => AlertInv'
<1> SUFFICES ASSUME AlertInv, [E!Next]_(E!vars) PROVE AlertInv'
  OBVIOUS
<1>1. CASE UNCHANGED E!vars
  BY <1>1 DEF AlertInv, AlertTypes, Cooldowns, Spaced, Delivery, Queued, Posted, Sending, E!vars
<1>2. CASE E!Tick
  BY <1>2, AlertTick
<1>3. CASE E!NotifyTest
  BY <1>3, AlertNotifyTest
<1>4. CASE E!Configure
  BY <1>4, AlertAside
     DEF AlertInv, AlertTypes, Delivery, Queued, Posted, Sending, E!Configure
<1>5. CASE E!Take
  BY <1>5, AlertTake
<1>6. ASSUME NEW u \in {setting, E!NoUrl}, E!Lookup(u) PROVE AlertInv'
  BY <1>6, AlertLookup
<1>7. CASE E!PostOk
  BY <1>7, AlertPost DEF E!PostOk
<1>8. ASSUME NEW r \in BOOLEAN, E!PostFails(r) PROVE AlertInv'
  BY <1>8, AlertPost DEF E!PostFails, E!LeftAfter
<1>9. ASSUME NEW k \in Keys, E!Suppressed(k) PROVE AlertInv'
  BY <1>9, AlertSuppressed
<1>10. ASSUME NEW k \in Keys, E!Notify(k) PROVE AlertInv'
  BY <1>10, AlertNotify
<1> QED
  BY <1>1, <1>2, <1>3, <1>4, <1>5, <1>6, <1>7, <1>8, <1>9, <1>10 DEF E!Next, E!Sender

(* What an alert's cooldown remembers, where its events are and how often  *)
(* they were posted fit together in every state (AlertQueue: notify,       *)
(* spawn, deliver).                                                        *)
THEOREM AlertInvariance == E!Spec => []AlertInv
<1> QED
  BY AlertInit, AlertNext, PTL DEF E!Spec

(* However delivery stalls or retries, an alert reaches the endpoint no    *)
(* more often than there are attempts, no two of a key are let through     *)
(* within a cooldown, and one is suppressed only within the cooldown of    *)
(* one that was not (AlertQueue: notify, deliver).                         *)
THEOREM AlertsAreSpaced == E!Spec => []E!AlertsSpaced
<1>1. AlertInv => E!AlertsSpaced
  <2> SUFFICES ASSUME AlertInv PROVE E!AlertsSpaced
    OBVIOUS
  <2>1. E!PostsBounded
    BY DEF AlertInv, Delivery, Queued, E!PostsBounded, E!Test
  <2> QED
    BY <2>1 DEF AlertInv, Spaced, E!AlertsSpaced
<1> QED
  BY <1>1, AlertInvariance, PTL

-----------------------------------------------------------------------------
(* The activity log.                                                       *)

(* What a sequence holds; one that rises; all of X before all of Y.        *)
Held(s) == {s[i] : i \in 1..Len(s)}
Rising(s) == \A i, j \in 1..Len(s) : i < j => s[i] < s[j]
Below(X, Y) == \A x \in X, y \in Y : x < y

(* No two events of X have one key; e has been stored, or has the key of an *)
(* earlier event that has.                                                 *)
Distinct(X) == \A x, y \in X : x # y => key[x] # key[y]
InTable(e, S) == e \in S \/ \E x \in S : x < e /\ key[x] = key[e]
Placed(X, S) == \A e \in X : InTable(e, S)

(* Events are in the order they happened, from the table through the batch *)
(* to the queue; what a batch has to store is in the table or all of it is *)
(* still to come; and an event that was dropped is nowhere else.           *)
ActivityInv ==
    /\ key \in Seq(Nat)
    /\ rows \in Seq(Nat) /\ activityQueue \in Seq(Nat) /\ buf \in Seq(Nat)
    /\ Rising(rows) /\ Rising(activityQueue) /\ Rising(buf)
    /\ Below(Held(rows), Held(activityQueue)) /\ Below(Held(buf), Held(activityQueue))
    /\ Placed(Held(buf), Held(rows)) \/ Below(Held(rows), Held(buf))
    /\ Distinct(Held(rows))
    /\ Held(rows) \cup Held(activityQueue) \cup Held(buf) \cup dropped \subseteq 1..Len(key)
    /\ \A e \in 1..Len(key) :
          InTable(e, Held(rows)) \/ e \in Held(activityQueue) \cup Held(buf) \cup dropped \cup lost
    /\ lost \subseteq 1..Len(key)
    /\ \A e \in dropped : e \notin Held(rows) \cup Held(activityQueue) \cup Held(buf)

LEMMA HeldIsRange == ASSUME NEW s \in Seq(Nat) PROVE Q!Range(s) = Held(s)
  BY LenProperties DEF Q!Range, Held

LEMMA HeldEmpty == Held(<<>>) = {} /\ Rising(<<>>) /\ <<>> \in Seq(Nat)
  BY DEF Held, Rising

LEMMA ActivityCardinality == ASSUME NEW T PROVE Q!Cardinality(T) = Cardinality(T)
BY Zenon DEF Q!Cardinality, Cardinality

LEMMA HeldNat == ASSUME NEW s \in Seq(Nat) PROVE Held(s) \subseteq Nat
  BY LenProperties DEF Held

(* A larger event at the end.                                              *)
LEMMA HeldAppend ==
    ASSUME NEW s \in Seq(Nat), NEW e \in Nat
    PROVE  /\ Append(s, e) \in Seq(Nat) /\ Held(Append(s, e)) = Held(s) \cup {e}
           /\ Rising(s) /\ Below(Held(s), {e}) => Rising(Append(s, e))
<1> DEFINE q == Append(s, e)
<1>1. /\ q \in Seq(Nat) /\ Len(q) = Len(s) + 1 /\ Len(s) \in Nat
      /\ q[Len(s) + 1] = e /\ \A i \in 1..Len(s) : q[i] = s[i]
      /\ \A i \in 1..Len(q) : i \in 1..Len(s) \/ i = Len(s) + 1
  BY Appended
<1> HIDE DEF q
<1>2. Held(q) = Held(s) \cup {e}
  <2>1. Held(q) \subseteq Held(s) \cup {e}
    BY <1>1 DEF Held
  <2>2. Held(s) \subseteq Held(q)
    BY <1>1 DEF Held
  <2>3. e \in Held(q)
    <3>1. Len(s) + 1 \in 1..Len(q)
      BY <1>1
    <3> QED
      BY <1>1, <3>1 DEF Held
  <2> QED
    BY <2>1, <2>2, <2>3
<1>3. ASSUME Rising(s), Below(Held(s), {e}) PROVE Rising(q)
  <2> SUFFICES ASSUME NEW i \in 1..Len(q), NEW j \in 1..Len(q), i < j PROVE q[i] < q[j]
    BY DEF Rising
  <2>1. i \in 1..Len(s)
    BY <1>1
  <2>2. CASE j \in 1..Len(s)
    BY <1>1, <1>3, <2>1, <2>2 DEF Rising
  <2>3. CASE j = Len(s) + 1
    <3>1. s[i] \in Held(s)
      BY <2>1 DEF Held
    <3> QED
      BY <1>1, <1>3, <2>1, <2>3, <3>1 DEF Below
  <2> QED
    BY <1>1, <2>2, <2>3
<1> QED
  BY <1>1, <1>2, <1>3 DEF q

(* One sequence after another.                                             *)
LEMMA HeldConcat ==
    ASSUME NEW s \in Seq(Nat), NEW u \in Seq(Nat)
    PROVE  /\ s \o u \in Seq(Nat) /\ Held(s \o u) = Held(s) \cup Held(u)
           /\ Rising(s) /\ Rising(u) /\ Below(Held(s), Held(u)) => Rising(s \o u)
<1> DEFINE q == s \o u
<1>0. Len(s) \in Nat /\ Len(u) \in Nat
  BY LenProperties
<1>1. /\ q \in Seq(Nat) /\ Len(q) = Len(s) + Len(u)
      /\ \A i \in 1..(Len(s) + Len(u)) : q[i] = IF i <= Len(s) THEN s[i] ELSE u[i - Len(s)]
  BY ConcatProperties
<1> HIDE DEF q
<1>2. \A i \in 1..Len(s) : i \in 1..Len(q) /\ q[i] = s[i]
  BY <1>0, <1>1
<1>3. \A i \in 1..Len(u) : Len(s) + i \in 1..Len(q) /\ q[Len(s) + i] = u[i]
  <2> TAKE i \in 1..Len(u)
  <2>1. /\ Len(s) + i \in 1..(Len(s) + Len(u)) /\ ~(Len(s) + i <= Len(s))
        /\ (Len(s) + i) - Len(s) = i
    BY <1>0
  <2> QED
    BY <1>1, <2>1
<1>4. \A i \in 1..Len(q) : \/ i \in 1..Len(s) /\ q[i] = s[i]
                           \/ i - Len(s) \in 1..Len(u) /\ q[i] = u[i - Len(s)]
  BY <1>0, <1>1
<1>5. Held(q) = Held(s) \cup Held(u)
  <2>1. Held(q) \subseteq Held(s) \cup Held(u)
    BY <1>4 DEF Held
  <2>2. Held(s) \subseteq Held(q)
    BY <1>2 DEF Held
  <2>3. Held(u) \subseteq Held(q)
    BY <1>3 DEF Held
  <2> QED
    BY <2>1, <2>2, <2>3
<1>6. ASSUME Rising(s), Rising(u), Below(Held(s), Held(u)) PROVE Rising(q)
  <2> SUFFICES ASSUME NEW i \in 1..Len(q), NEW j \in 1..Len(q), i < j PROVE q[i] < q[j]
    BY DEF Rising
  <2>1. CASE i \in 1..Len(s) /\ q[i] = s[i] /\ j \in 1..Len(s) /\ q[j] = s[j]
    BY <1>6, <2>1 DEF Rising
  <2>2. CASE /\ i \in 1..Len(s) /\ q[i] = s[i]
             /\ j - Len(s) \in 1..Len(u) /\ q[j] = u[j - Len(s)]
    BY <1>6, <2>2 DEF Below, Held
  <2>3. CASE /\ i - Len(s) \in 1..Len(u) /\ q[i] = u[i - Len(s)]
             /\ j - Len(s) \in 1..Len(u) /\ q[j] = u[j - Len(s)]
    <3>1. i - Len(s) < j - Len(s)
      BY <1>0, <2>3
    <3> QED
      BY <1>6, <2>3, <3>1 DEF Rising
  <2>4. ~(i - Len(s) \in 1..Len(u) /\ j \in 1..Len(s))
    BY <1>0
  <2> QED
    BY <1>4, <2>1, <2>2, <2>3, <2>4
<1> QED
  BY <1>1, <1>5, <1>6 DEF q

(* A sequence cut in two.                                                  *)
LEMMA HeldCut ==
    ASSUME NEW s \in Seq(Nat), Rising(s), NEW n \in 0..Len(s), NEW u, NEW v,
           u = SubSeq(s, 1, n), v = SubSeq(s, n + 1, Len(s))
    PROVE  /\ u \in Seq(Nat) /\ v \in Seq(Nat) /\ Held(s) = Held(u) \cup Held(v)
           /\ Rising(u) /\ Rising(v) /\ Below(Held(u), Held(v))
<1>0. Len(s) \in Nat /\ n \in Nat /\ n <= Len(s) /\ \A i \in 1..Len(s) : s[i] \in Nat
  BY LenProperties
<1>1. u \in Seq(Nat) /\ Len(u) = n /\ \A i \in 1..n : u[i] = s[i]
  <2>1. \A i \in 1..n : s[i] \in Nat
    BY <1>0
  <2>2. /\ u \in Seq(Nat) /\ Len(u) = IF 1 <= n THEN n - 1 + 1 ELSE 0
        /\ \A i \in 1..(n - 1 + 1) : u[i] = s[1 + i - 1]
    BY <1>0, <2>1, SubSeqProperties
  <2> QED
    BY <1>0, <2>2
<1>2. /\ v \in Seq(Nat) /\ Len(v) = Len(s) - n
      /\ \A i \in 1..(Len(s) - n) : v[i] = s[n + i] /\ n + i \in 1..Len(s)
  <2>1. \A i \in (n + 1)..Len(s) : s[i] \in Nat
    BY <1>0
  <2>2. /\ v \in Seq(Nat)
        /\ Len(v) = IF n + 1 <= Len(s) THEN Len(s) - (n + 1) + 1 ELSE 0
        /\ \A i \in 1..(Len(s) - (n + 1) + 1) : v[i] = s[(n + 1) + i - 1]
    BY <1>0, <2>1, SubSeqProperties
  <2> QED
    BY <1>0, <2>2
<1>3. Held(s) = Held(u) \cup Held(v)
  <2>1. Held(u) \subseteq Held(s)
    BY <1>0, <1>1 DEF Held
  <2>2. Held(v) \subseteq Held(s)
    BY <1>2 DEF Held
  <2>3. ASSUME NEW i \in 1..Len(s) PROVE s[i] \in Held(u) \cup Held(v)
    <3>1. CASE i <= n
      BY <1>1, <3>1 DEF Held
    <3>2. CASE i > n
      <4>1. i - n \in 1..Len(v) /\ n + (i - n) = i
        BY <1>0, <1>2, <3>2
      <4>2. v[i - n] = s[i]
        BY <1>2, <4>1
      <4> QED
        BY <4>1, <4>2 DEF Held
    <3> QED
      BY <1>0, <3>1, <3>2
  <2> QED
    BY <2>1, <2>2, <2>3 DEF Held
<1>4. Rising(u)
  BY <1>0, <1>1 DEF Rising
<1>5. Rising(v)
  <2>1. ASSUME NEW i \in 1..Len(v), NEW j \in 1..Len(v), i < j PROVE v[i] < v[j]
    <3>1. n + i < n + j
      BY <1>0, <2>1
    <3> QED
      BY <1>2, <3>1 DEF Rising
  <2> QED
    BY <2>1 DEF Rising
<1>6. Below(Held(u), Held(v))
  <2>1. ASSUME NEW i \in 1..Len(u), NEW j \in 1..Len(v) PROVE u[i] < v[j]
    <3>1. i \in 1..Len(s) /\ i < n + j
      BY <1>0, <1>1, <1>2
    <3> QED
      BY <1>1, <1>2, <3>1 DEF Rising
  <2> QED
    BY <2>1 DEF Below, Held
<1> QED
  BY <1>1, <1>2, <1>3, <1>4, <1>5, <1>6

(* The members of new, in order: Nth counts them off.                      *)
Nths(new) == [n \in 1..Cardinality(new) |->
                CHOOSE i \in new : Cardinality({j \in new : j <= i}) = n]
LEMMA CountedOff ==
    ASSUME NEW b \in Seq(Nat), NEW new \in SUBSET (1..Len(b)), NEW h, h = Nths(new)
    PROVE  /\ Cardinality(new) \in Nat /\ h \in [1..Cardinality(new) -> new]
           /\ \A m, n \in 1..Cardinality(new) : m < n => h[m] < h[n]
           /\ \A i \in new : \E n \in 1..Cardinality(new) : h[n] = i
<1> DEFINE N == Cardinality(new)
           To(i) == {j \in new : j <= i}
           Nth(n) == CHOOSE i \in new : Cardinality(To(i)) = n
           rank == [i \in new |-> Cardinality(To(i))]
<1>12. h = [n \in 1..N |-> Nth(n)]
  BY DEF Nths
<1> HIDE DEF Nth
<1>0. Len(b) \in Nat /\ new \subseteq Nat
  BY LenProperties
<1>1. IsFiniteSet(new) /\ N \in Nat
  <2>1. IsFiniteSet(1..Len(b))
    BY <1>0, FS_Interval
  <2> QED
    BY <2>1, FS_Subset, FS_CardinalityType
<1>2. \A i \in new : rank[i] \in 1..N
  <2> TAKE i \in new
  <2>1. IsFiniteSet(To(i)) /\ Cardinality(To(i)) <= N
    BY <1>1, FS_Subset
  <2>2. i \in To(i)
    BY <1>0
  <2>3. Cardinality(To(i)) \in Nat /\ Cardinality(To(i)) # 0
    BY <2>1, <2>2, FS_CardinalityType, FS_EmptySet
  <2>4. rank[i] = Cardinality(To(i))
    OBVIOUS
  <2> HIDE DEF To, rank
  <2> QED
    BY <1>1, <2>1, <2>3, <2>4
<1>3. \A i, k \in new : i < k => rank[i] < rank[k]
  <2> SUFFICES ASSUME NEW i \in new, NEW k \in new, i < k PROVE rank[i] < rank[k]
    OBVIOUS
  <2>6. i \in Nat /\ k \in Nat /\ ~(k <= i)
    BY <1>0
  <2>7. \A j \in new : j <= i => j <= k
    BY <1>0, <2>6
  <2>8. To(i) \subseteq To(k)
    BY <2>7
  <2>9. k \notin To(i) /\ k \in To(k)
    BY <2>6
  <2>1. To(i) \subseteq To(k) /\ k \notin To(i) /\ k \in To(k)
    BY <2>8, <2>9
  <2>2. IsFiniteSet(To(k)) /\ IsFiniteSet(To(i))
    BY <1>1, FS_Subset
  <2>3. rank[i] = Cardinality(To(i)) /\ rank[k] = Cardinality(To(k))
    OBVIOUS
  <2> HIDE DEF To, rank
  <2>4. Cardinality(To(i)) <= Cardinality(To(k)) /\ Cardinality(To(i)) # Cardinality(To(k))
    BY <2>1, <2>2, FS_Subset
  <2>5. Cardinality(To(i)) \in Nat /\ Cardinality(To(k)) \in Nat
    BY <2>2, FS_CardinalityType
  <2> QED
    BY <2>3, <2>4, <2>5
<1>4. \A i, k \in new : rank[i] = rank[k] => i = k
  <2> SUFFICES ASSUME NEW i \in new, NEW k \in new, rank[i] = rank[k] PROVE i = k
    OBVIOUS
  <2>1. rank[i] \in Nat
    BY <1>1, <1>2
  <2> HIDE DEF rank
  <2>2. ~(i < k) /\ ~(k < i)
    BY <1>3, <2>1
  <2> QED
    BY <1>0, <2>2
<1>5. rank \in Injection(new, 1..N)
  BY <1>2, <1>4 DEF Injection, IsInjective
<1>6. rank \in Surjection(new, 1..N)
  <2>1. IsFiniteSet(1..N) /\ Cardinality(1..N) = N
    BY <1>1, FS_Interval
  <2> HIDE DEF rank
  <2> QED
    BY <1>5, <2>1, FS_Injection
<1>7. \A n \in 1..N : h[n] \in new /\ rank[h[n]] = n
  <2> TAKE n \in 1..N
  <2>1. \E i \in new : rank[i] = n
    BY <1>6 DEF Surjection
  <2>2. \E i \in new : Cardinality(To(i)) = n
    BY <2>1
  <2>3. h[n] = Nth(n)
    BY <1>12
  <2>4. Nth(n) \in new /\ Cardinality(To(Nth(n))) = n
    BY <2>2 DEF Nth
  <2> QED
    BY <2>3, <2>4
<1> HIDE DEF rank, N, To
<1>9. \A m, n \in 1..N : m < n => h[m] < h[n]
  <2> SUFFICES ASSUME NEW m \in 1..N, NEW n \in 1..N, m < n PROVE h[m] < h[n]
    OBVIOUS
  <2>1. h[m] \in Nat /\ h[n] \in Nat /\ h[m] \in new /\ h[n] \in new
    BY <1>0, <1>7
  <2>4. m \in Nat /\ n \in Nat
    BY <1>1
  <2>3. rank[h[m]] = m /\ rank[h[n]] = n /\ m \in Nat /\ n \in Nat
    BY <1>7, <2>4
  <2>2. h[m] # h[n] /\ ~(h[n] < h[m])
    BY <1>3, <2>1, <2>3
  <2> QED
    BY <2>1, <2>2
<1>10. \A i \in new : \E n \in 1..N : h[n] = i
  <2> TAKE i \in new
  <2>1. rank[i] \in 1..N
    BY <1>2
  <2>2. h[rank[i]] \in new /\ rank[h[rank[i]]] = rank[i]
    BY <1>7, <2>1
  <2> QED
    BY <1>4, <2>1, <2>2
<1>11. h \in [1..N -> new]
  BY <1>7, <1>12
<1> QED
  BY <1>1, <1>9, <1>10, <1>11 DEF N

(* A batch that is in the table is not inserted again.                     *)
LEMMA InsertedAgain ==
    ASSUME rows \in Seq(Nat), NEW b \in Seq(Nat), Placed(Held(b), Held(rows))
    PROVE  Q!Inserted(b) = rows
<1> DEFINE new == {i \in 1..Len(b) :
                     /\ \A x \in Q!Range(rows) : ~Q!Same(b[i], x)
                     /\ \A j \in 1..(i - 1) : ~Q!Same(b[i], b[j])}
           Nth(n) == CHOOSE i \in new : Q!Cardinality({j \in new : j <= i}) = n
           f == [n \in 1..Q!Cardinality(new) |-> b[Nth(n)]]
<1>1. new = {}
  <2> SUFFICES ASSUME NEW i \in 1..Len(b)
               PROVE  \E x \in Q!Range(rows) : Q!Same(b[i], x)
    OBVIOUS
  <2>1. InTable(b[i], Held(rows))
    BY DEF Held, Placed
  <2>2. \E x \in Held(rows) : key[b[i]] = key[x]
    BY <2>1 DEF InTable
  <2> QED
    BY <2>2, HeldIsRange DEF Q!Same
<1>4. Q!Inserted(b) = rows \o f
  BY DEF Q!Inserted
<1> HIDE DEF new
<1>2. Q!Cardinality(new) = 0
  BY <1>1, ActivityCardinality, FS_EmptySet
<1>3. f = <<>>
  <2>1. 1..Q!Cardinality(new) = {}
    BY <1>2
  <2> HIDE DEF Nth
  <2> QED
    BY <2>1
<1> HIDE DEF f
<1> QED
  BY <1>3, <1>4, ConcatEmptySeq

(* Of a new batch, the first event of each key that the table lacks.       *)
LEMMA InsertedNew ==
    ASSUME rows \in Seq(Nat), NEW b \in Seq(Nat), Rising(b), Below(Held(rows), Held(b))
    PROVE  \E f \in Seq(Nat) :
             /\ Q!Inserted(b) = rows \o f /\ Rising(f) /\ Held(f) \subseteq Held(b)
             /\ Distinct(Held(f)) /\ \A x \in Held(rows), y \in Held(f) : key[x] # key[y]
             /\ Placed(Held(b), Held(rows) \cup Held(f))
<1> DEFINE new == {i \in 1..Len(b) :
                     /\ \A x \in Q!Range(rows) : ~Q!Same(b[i], x)
                     /\ \A j \in 1..(i - 1) : ~Q!Same(b[i], b[j])}
           N == Cardinality(new)
           h == Nths(new)
           f == [n \in 1..N |-> b[h[n]]]
<1>0. Len(b) \in Nat /\ \A i \in 1..Len(b) : b[i] \in Nat /\ b[i] \in Held(b)
  BY LenProperties DEF Held
<1>1. \A i \in 1..Len(b) :
        i \in new <=> /\ \A x \in Held(rows) : key[b[i]] # key[x]
                      /\ \A j \in 1..(i - 1) : key[b[i]] # key[b[j]]
  BY HeldIsRange DEF Q!Same
<1>2. Q!Inserted(b) = rows \o f
  <2> DEFINE Nth(n) == CHOOSE i \in new : Q!Cardinality({j \in new : j <= i}) = n
  <2>1. Q!Inserted(b) = rows \o [n \in 1..Q!Cardinality(new) |-> b[Nth(n)]]
    BY DEF Q!Inserted
  <2> HIDE DEF new
  <2>2. Q!Cardinality(new) = N
    BY ActivityCardinality
  <2>3. \A i : Q!Cardinality({j \in new : j <= i}) = Cardinality({j \in new : j <= i})
    BY ActivityCardinality
  <2>4. \A n \in 1..N : Nth(n) = h[n]
    <3> TAKE n \in 1..N
    <3>1. h[n] = CHOOSE i \in new : Cardinality({j \in new : j <= i}) = n
      BY DEF Nths
    <3>2. \A i : Q!Cardinality({j \in new : j <= i}) = n <=> Cardinality({j \in new : j <= i}) = n
      BY <2>3
    <3>3. Nth(n) = CHOOSE i \in new : Cardinality({j \in new : j <= i}) = n
      BY <3>2
    <3> HIDE DEF Nth, h, N
    <3> QED
      BY <3>1, <3>3
  <2> HIDE DEF Nth, h, N
  <2> QED
    BY <2>1, <2>2, <2>4
<1>3. new \in SUBSET (1..Len(b))
  OBVIOUS
<1> HIDE DEF new
<1>14. h = Nths(new)
  OBVIOUS
<1> HIDE DEF h
<1>4. /\ N \in Nat /\ h \in [1..N -> new]
      /\ \A m, n \in 1..N : m < n => h[m] < h[n]
      /\ \A i \in new : \E n \in 1..N : h[n] = i
  BY <1>3, <1>14, CountedOff
<1> HIDE DEF N
<1>5. \A n \in 1..N : h[n] \in 1..Len(b) /\ h[n] \in new /\ f[n] = b[h[n]] /\ f[n] \in Nat
  BY <1>0, <1>3, <1>4
<1>6. f \in Seq(Nat) /\ Len(f) = N
  <2>1. f \in [1..N -> Nat]
    BY <1>5
  <2> HIDE DEF f
  <2> QED
    BY <1>4, <2>1, LenProperties
<1> HIDE DEF f
<1>7. Rising(f)
  <2> SUFFICES ASSUME NEW m \in 1..N, NEW n \in 1..N, m < n PROVE f[m] < f[n]
    BY <1>6 DEF Rising
  <2>1. h[m] < h[n]
    BY <1>4
  <2> QED
    BY <1>5, <2>1 DEF Rising
<1>8. \A y \in Held(f) : \E i \in new : y = b[i]
  BY <1>5, <1>6 DEF Held
<1>9. \A i \in new : b[i] \in Held(f)
  <2> TAKE i \in new
  <2>1. PICK n \in 1..N : h[n] = i
    BY <1>4
  <2> QED
    BY <1>5, <1>6, <2>1 DEF Held
<1>10. Held(f) \subseteq Held(b)
  BY <1>0, <1>3, <1>8
<1>11. Distinct(Held(f))
  <2> SUFFICES ASSUME NEW x \in Held(f), NEW y \in Held(f), x # y PROVE key[x] # key[y]
    BY DEF Distinct
  <2>1. PICK i \in new : x = b[i]
    BY <1>8
  <2>2. PICK j \in new : y = b[j]
    BY <1>8
  <2>3. i \in 1..Len(b) /\ j \in 1..Len(b) /\ i # j
    BY <1>3, <2>1, <2>2
  <2>4. CASE i < j
    <3>1. i \in 1..(j - 1)
      BY <1>0, <2>3, <2>4
    <3> QED
      BY <1>1, <2>1, <2>2, <2>3, <3>1
  <2>5. CASE j < i
    <3>1. j \in 1..(i - 1)
      BY <1>0, <2>3, <2>5
    <3> QED
      BY <1>1, <2>1, <2>2, <2>3, <3>1
  <2> QED
    BY <1>0, <2>3, <2>4, <2>5
<1>12. \A x \in Held(rows), y \in Held(f) : key[x] # key[y]
  BY <1>1, <1>3, <1>8
<1>13. Placed(Held(b), Held(rows) \cup Held(f))
  <2> SUFFICES ASSUME NEW i \in 1..Len(b)
               PROVE  InTable(b[i], Held(rows) \cup Held(f))
    BY DEF Placed, Held
  <2>1. CASE \E x \in Held(rows) : key[x] = key[b[i]]
    <3>1. PICK x \in Held(rows) : key[x] = key[b[i]]
      BY <2>1
    <3>2. x < b[i]
      BY <1>0 DEF Below
    <3> QED
      BY <3>1, <3>2 DEF InTable
  <2>2. CASE ~\E x \in Held(rows) : key[x] = key[b[i]]
    <3> DEFINE T == {j \in 1..Len(b) : key[b[j]] = key[b[i]]}
    <3>1. T \in SUBSET Nat /\ i \in T
      BY <1>0
    <3>2. PICK j \in T : \A k \in T : j <= k
      BY <3>1, LeastOf
    <3>3. j \in 1..Len(b) /\ key[b[j]] = key[b[i]] /\ j <= i
      BY <3>1, <3>2
    <3>4. j \in new
      <4>1. \A k \in 1..(j - 1) : key[b[j]] # key[b[k]]
        <5> TAKE k \in 1..(j - 1)
        <5>1. k \in 1..Len(b) /\ ~(j <= k)
          BY <1>0, <3>3
        <5> QED
          BY <3>2, <3>3, <5>1
      <4>2. \A x \in Held(rows) : key[b[j]] # key[x]
        BY <2>2, <3>3
      <4> QED
        BY <1>1, <3>3, <4>1, <4>2
    <3>5. b[j] \in Held(f)
      BY <1>9, <3>4
    <3>6. CASE j = i
      BY <3>5, <3>6 DEF InTable
    <3>7. CASE j # i
      <4>1. j < i
        BY <1>0, <3>3, <3>7
      <4>2. b[j] < b[i]
        BY <3>3, <4>1 DEF Rising
      <4> QED
        BY <3>3, <3>5, <4>2 DEF InTable
    <3> QED
      BY <3>6, <3>7
  <2> QED
    BY <2>1, <2>2
<1> QED
  BY <1>2, <1>6, <1>7, <1>10, <1>11, <1>12, <1>13

LEMMA ActivityInit == Q!Init => ActivityInv
  BY HeldEmpty DEF Q!Init, ActivityInv, Below, Placed, Distinct

(* What is placed stays placed, whatever more is in the table.             *)
LEMMA PlacedMore ==
    ASSUME NEW X, NEW S, NEW T, Placed(X, S), S \subseteq T
    PROVE  Placed(X, T)
  BY DEF Placed, InTable

LEMMA ActivityRecord ==
    ASSUME ActivityInv, NEW k \in 1..MaxEvents, Q!Record(k)
    PROVE  ActivityInv'
<1> DEFINE e == Len(key) + 1
           R0 == Held(rows)
           Q0 == Held(activityQueue)
           B0 == Held(buf)
<1>1. /\ key' = Append(key, k) /\ rows' = rows /\ buf' = buf /\ lost' = lost
      /\ \/ activityQueue' = Append(activityQueue, e) /\ dropped' = dropped
         \/ activityQueue' = activityQueue /\ dropped' = dropped \cup {e}
  BY DEF Q!Record
<1>2. /\ key \in Seq(Nat) /\ activityQueue \in Seq(Nat) /\ Rising(activityQueue)
      /\ rows \in Seq(Nat) /\ buf \in Seq(Nat) /\ Rising(rows) /\ Rising(buf)
      /\ Below(R0, Q0) /\ Below(B0, Q0) /\ (Placed(B0, R0) \/ Below(R0, B0))
      /\ Distinct(R0) /\ R0 \cup Q0 \cup B0 \cup dropped \subseteq 1..Len(key)
      /\ \A x \in 1..Len(key) : InTable(x, R0) \/ x \in Q0 \cup B0 \cup dropped \cup lost
      /\ lost \subseteq 1..Len(key)
      /\ \A x \in dropped : x \notin R0 \cup Q0 \cup B0
  BY DEF ActivityInv
<1>3. /\ Len(key) \in Nat /\ key' \in Seq(Nat) /\ Len(key') = e
      /\ \A x \in 1..Len(key) : key'[x] = key[x]
  <2>1. k \in Nat
    OBVIOUS
  <2> QED
    BY <1>1, <1>2, <2>1, Appended
<1> HIDE DEF R0, Q0, B0
<1>4. /\ e \in Nat /\ e \notin 1..Len(key) /\ 1..Len(key') = (1..Len(key)) \cup {e}
      /\ \A x \in 1..Len(key) : x < e
  BY <1>3
<1> HIDE DEF e
<1>5. Below(R0, {e}) /\ Below(Q0, {e}) /\ Below(B0, {e}) /\ e \notin R0 \cup Q0 \cup B0 \cup dropped
  BY <1>2, <1>4 DEF Below
<1>6. \A x \in 1..Len(key) : InTable(x, R0)' <=> InTable(x, R0)
  <2>1. R0' = R0
    BY <1>1 DEF R0
  <2>2. \A x \in R0 : key'[x] = key[x]
    BY <1>2, <1>3
  <2> QED
    BY <1>3, <2>1, <2>2 DEF InTable
<1>7. Distinct(R0)' /\ (Placed(B0, R0)' \/ Below(R0, B0))
  <2>1. R0' = R0 /\ B0' = B0
    BY <1>1 DEF R0, B0
  <2>2. \A x \in R0 : key'[x] = key[x]
    BY <1>2, <1>3
  <2>3. Distinct(R0)'
    BY <1>2, <2>1, <2>2 DEF Distinct
  <2>4. Placed(B0, R0) => Placed(B0, R0)'
    BY <1>2, <1>6, <2>1 DEF Placed
  <2> QED
    BY <1>2, <2>3, <2>4
<1>8. CASE activityQueue' = Append(activityQueue, e) /\ dropped' = dropped
  <2>1. /\ activityQueue' \in Seq(Nat) /\ Held(activityQueue)' = Q0 \cup {e}
        /\ Rising(activityQueue)'
    BY <1>2, <1>4, <1>5, <1>8, HeldAppend DEF Q0
  <2>2. Below(R0, Q0 \cup {e}) /\ Below(B0, Q0 \cup {e})
    BY <1>2, <1>5 DEF Below
  <2>3. /\ R0 \cup (Q0 \cup {e}) \cup B0 \cup dropped \subseteq 1..Len(key')
        /\ \A x \in 1..Len(key') :
             InTable(x, R0)' \/ x \in (Q0 \cup {e}) \cup B0 \cup dropped \cup lost
        /\ lost \subseteq 1..Len(key')
    BY <1>2, <1>4, <1>6
  <2>4. \A x \in dropped : x \notin R0 \cup (Q0 \cup {e}) \cup B0
    BY <1>2, <1>5
  <2>5. Held(rows)' = R0 /\ Held(buf)' = B0 /\ R0' = R0 /\ B0' = B0
    BY <1>1 DEF R0, B0
  <2> QED
    BY <1>1, <1>2, <1>3, <1>7, <1>8, <2>1, <2>2, <2>3, <2>4, <2>5 DEF ActivityInv, R0, B0
<1>9. CASE activityQueue' = activityQueue /\ dropped' = dropped \cup {e}
  <2>1. Held(rows)' = R0 /\ Held(buf)' = B0 /\ Held(activityQueue)' = Q0
        /\ R0' = R0 /\ B0' = B0
    BY <1>1, <1>9 DEF R0, B0, Q0
  <2>2. /\ R0 \cup Q0 \cup B0 \cup (dropped \cup {e}) \subseteq 1..Len(key')
        /\ \A x \in 1..Len(key') :
             InTable(x, R0)' \/ x \in Q0 \cup B0 \cup (dropped \cup {e}) \cup lost
        /\ lost \subseteq 1..Len(key')
    BY <1>2, <1>4, <1>6
  <2>3. \A x \in dropped \cup {e} : x \notin R0 \cup Q0 \cup B0
    BY <1>2, <1>5
  <2> QED
    BY <1>1, <1>2, <1>3, <1>7, <1>9, <2>1, <2>2, <2>3 DEF ActivityInv, R0, B0
<1> QED
  BY <1>1, <1>8, <1>9

LEMMA ActivityReceive == ASSUME ActivityInv, Q!Receive PROVE ActivityInv'
<1> DEFINE n == IF Len(activityQueue) < BatchMax THEN Len(activityQueue) ELSE BatchMax
           R0 == Held(rows)
           Q0 == Held(activityQueue)
           u == SubSeq(activityQueue, 1, n)
           v == SubSeq(activityQueue, n + 1, Len(activityQueue))
<1>1. /\ buf = <<>> /\ buf' = u /\ activityQueue' = v
      /\ key' = key /\ rows' = rows /\ dropped' = dropped /\ lost' = lost
  BY DEF Q!Receive
<1>2. /\ key \in Seq(Nat) /\ activityQueue \in Seq(Nat) /\ Rising(activityQueue)
      /\ rows \in Seq(Nat) /\ Rising(rows) /\ Below(R0, Q0) /\ Distinct(R0)
      /\ R0 \cup Q0 \cup dropped \subseteq 1..Len(key) /\ lost \subseteq 1..Len(key)
      /\ \A x \in 1..Len(key) :
           InTable(x, R0) \/ x \in Q0 \cup Held(buf) \cup dropped \cup lost
      /\ \A x \in dropped : x \notin R0 \cup Q0
  BY DEF ActivityInv
<1>3. Held(buf) = {}
  BY <1>1, HeldEmpty
<1>4. n \in 0..Len(activityQueue)
  BY <1>2, QueuesAssumption, LenProperties
<1> HIDE DEF n
<1>5. /\ u \in Seq(Nat) /\ v \in Seq(Nat) /\ Q0 = Held(u) \cup Held(v)
      /\ Rising(u) /\ Rising(v) /\ Below(Held(u), Held(v))
  BY <1>2, <1>4, HeldCut
<1> HIDE DEF u, v, R0, Q0
<1>6. Below(R0, Held(u)) /\ Below(R0, Held(v))
  BY <1>2, <1>5 DEF Below
<1>7. /\ Held(rows)' = R0 /\ Held(buf)' = Held(u) /\ Held(activityQueue)' = Held(v)
  BY <1>1 DEF R0
<1>8. /\ R0 \cup Held(v) \cup Held(u) \cup dropped \subseteq 1..Len(key)
      /\ \A x \in 1..Len(key) :
           InTable(x, R0) \/ x \in Held(v) \cup Held(u) \cup dropped \cup lost
      /\ \A x \in dropped : x \notin R0 \cup Held(v) \cup Held(u)
  BY <1>2, <1>3, <1>5
<1>9. Distinct(Held(rows))'
  BY <1>1, <1>2, <1>7 DEF Distinct
<1>10. \A x : InTable(x, Held(rows))' <=> InTable(x, R0)
  BY <1>1, <1>7 DEF InTable
<1> QED
  BY <1>1, <1>2, <1>5, <1>6, <1>7, <1>8, <1>9, <1>10 DEF ActivityInv

(* The table with the batch in it.                                         *)
LEMMA BatchIsIn ==
    ASSUME ActivityInv
    PROVE  /\ Q!Inserted(buf) \in Seq(Nat) /\ Rising(Q!Inserted(buf))
           /\ Held(rows) \subseteq Held(Q!Inserted(buf))
           /\ Held(Q!Inserted(buf)) \subseteq Held(rows) \cup Held(buf)
           /\ Distinct(Held(Q!Inserted(buf))) /\ Placed(Held(buf), Held(Q!Inserted(buf)))
<1>1. /\ rows \in Seq(Nat) /\ buf \in Seq(Nat) /\ Rising(rows) /\ Rising(buf)
      /\ Placed(Held(buf), Held(rows)) \/ Below(Held(rows), Held(buf))
      /\ Distinct(Held(rows))
  BY DEF ActivityInv
<1>2. CASE Placed(Held(buf), Held(rows))
  BY <1>1, <1>2, InsertedAgain
<1>3. CASE Below(Held(rows), Held(buf))
  <2>1. PICK f \in Seq(Nat) :
          /\ Q!Inserted(buf) = rows \o f /\ Rising(f) /\ Held(f) \subseteq Held(buf)
          /\ Distinct(Held(f)) /\ \A x \in Held(rows), y \in Held(f) : key[x] # key[y]
          /\ Placed(Held(buf), Held(rows) \cup Held(f))
    BY <1>1, <1>3, InsertedNew
  <2>2. Below(Held(rows), Held(f))
    BY <1>3, <2>1 DEF Below
  <2>3. /\ rows \o f \in Seq(Nat) /\ Held(rows \o f) = Held(rows) \cup Held(f)
        /\ Rising(rows \o f)
    BY <1>1, <2>1, <2>2, HeldConcat
  <2>4. Distinct(Held(rows) \cup Held(f))
    BY <1>1, <2>1 DEF Distinct
  <2> QED
    BY <2>1, <2>3, <2>4
<1> QED
  BY <1>1, <1>2, <1>3

(* The batch is in the table or not, and is kept or, if it is there or     *)
(* counted as lost, forgotten.                                             *)
LEMMA ActivityInsert ==
    ASSUME ActivityInv, key' = key, activityQueue' = activityQueue,
           dropped' = dropped, rows' \in {rows, Q!Inserted(buf)},
           \/ buf' = buf /\ lost' = lost
           \/ buf' = <<>> /\ lost' = lost /\ rows' = Q!Inserted(buf)
           \/ buf' = <<>> /\ lost' = lost \cup Held(buf)
    PROVE  ActivityInv'
<1>1. PICK R0, Q0, B0, R1, B1 :
        /\ R0 = Held(rows) /\ Q0 = Held(activityQueue) /\ B0 = Held(buf)
        /\ R1 = Held(rows') /\ B1 = Held(buf')
  OBVIOUS
<1>2. /\ key \in Seq(Nat) /\ activityQueue \in Seq(Nat) /\ Rising(activityQueue)
      /\ rows \in Seq(Nat) /\ buf \in Seq(Nat) /\ Rising(rows) /\ Rising(buf)
      /\ Below(R0, Q0) /\ Below(B0, Q0) /\ (Placed(B0, R0) \/ Below(R0, B0))
      /\ Distinct(R0) /\ R0 \cup Q0 \cup B0 \cup dropped \subseteq 1..Len(key)
      /\ \A x \in 1..Len(key) : InTable(x, R0) \/ x \in Q0 \cup B0 \cup dropped \cup lost
      /\ lost \subseteq 1..Len(key)
      /\ \A x \in dropped : x \notin R0 \cup Q0 \cup B0
  BY <1>1 DEF ActivityInv
<1>3. /\ rows' \in Seq(Nat) /\ Rising(rows') /\ Distinct(R1)
      /\ R0 \subseteq R1 /\ R1 \subseteq R0 \cup B0
      /\ rows' = Q!Inserted(buf) => Placed(B0, R1)
      /\ Placed(B0, R1) \/ R1 = R0
  BY <1>1, <1>2, BatchIsIn
<1>4. buf' \in Seq(Nat) /\ Rising(buf') /\ (B1 = B0 \/ B1 = {})
  BY <1>1, <1>2, HeldEmpty
<1>5. \A x \in 1..Len(key) : InTable(x, R1) \/ x \in Q0 \cup B1 \cup dropped \cup lost'
  <2> SUFFICES ASSUME NEW x \in 1..Len(key), ~InTable(x, R1)
               PROVE  x \in Q0 \cup B1 \cup dropped \cup lost'
    OBVIOUS
  <2>1. ~InTable(x, R0)
    BY <1>3 DEF InTable
  <2>2. x \in Q0 \cup B0 \cup dropped \cup lost
    BY <1>2, <2>1
  <2>3. CASE buf' = buf /\ lost' = lost
    BY <1>1, <2>2, <2>3
  <2>4. CASE buf' = <<>> /\ lost' = lost /\ rows' = Q!Inserted(buf)
    BY <1>3, <2>2, <2>4 DEF Placed
  <2>5. CASE buf' = <<>> /\ lost' = lost \cup Held(buf)
    BY <1>1, <2>2, <2>5
  <2> QED
    BY <2>3, <2>4, <2>5
<1>6. /\ R1 \cup Q0 \cup B1 \cup dropped \subseteq 1..Len(key) /\ lost' \subseteq 1..Len(key)
      /\ \A x \in dropped : x \notin R1 \cup Q0 \cup B1
  BY <1>1, <1>2, <1>3, <1>4
<1>7. Below(R1, Q0) /\ Below(B1, Q0)
  BY <1>2, <1>3, <1>4 DEF Below
<1>8. Placed(B1, R1) \/ Below(R1, B1)
  <2>1. CASE B1 = {}
    BY <2>1 DEF Placed
  <2>2. CASE B1 = B0
    BY <1>2, <1>3, <2>2
  <2> QED
    BY <1>4, <2>1, <2>2
<1>9. /\ Held(activityQueue') = Q0 /\ Distinct(R1)' /\ (Placed(B1, R1)' \/ Below(R1, B1))
      /\ \A x \in 1..Len(key) : InTable(x, R1)' \/ x \in Q0 \cup B1 \cup dropped \cup lost'
  <2>1. \A x : InTable(x, R1)' <=> InTable(x, R1)
    BY DEF InTable
  <2>2. Distinct(R1)'
    BY <1>3 DEF Distinct
  <2>3. Placed(B1, R1)' <=> Placed(B1, R1)
    BY <2>1 DEF Placed
  <2> QED
    BY <1>1, <1>5, <1>8, <2>1, <2>2, <2>3
<1>10. Held(rows)' = R1 /\ Held(buf)' = B1 /\ Held(activityQueue)' = Q0
  BY <1>1
<1> QED
  BY <1>2, <1>3, <1>4, <1>6, <1>7, <1>9, <1>10 DEF ActivityInv

LEMMA ActivityNext == ActivityInv /\ [Q!Next]_(Q!vars) => ActivityInv'
<1> SUFFICES ASSUME ActivityInv, [Q!Next]_(Q!vars) PROVE ActivityInv'
  OBVIOUS
<1>1. CASE UNCHANGED Q!vars
  BY <1>1 DEF ActivityInv, Q!vars, Placed, InTable, Distinct
<1>2. ASSUME NEW k \in 1..MaxEvents, Q!Record(k) PROVE ActivityInv'
  BY <1>2, ActivityRecord
<1>3. CASE Q!Receive
  BY <1>3, ActivityReceive
<1>4. CASE Q!InsertOk
  BY <1>4, ActivityInsert DEF Q!InsertOk
<1>5. ASSUME NEW c \in BOOLEAN, Q!InsertFails(c) PROVE ActivityInv'
  <2>1. Q!Range(buf) = Held(buf)
    BY HeldIsRange DEF ActivityInv
  <2>2. /\ key' = key /\ activityQueue' = activityQueue /\ dropped' = dropped
        /\ rows' \in {rows, Q!Inserted(buf)}
        /\ \/ buf' = buf /\ lost' = lost
           \/ buf' = <<>> /\ lost' = lost \cup Q!Range(buf)
    BY <1>5 DEF Q!InsertFails
  <2> QED
    BY <2>1, <2>2, ActivityInsert
<1> QED
  BY <1>1, <1>2, <1>3, <1>4, <1>5 DEF Q!Next, Q!Drain

(* The events of the activity log keep their order on the way to the       *)
(* table, and what a batch that is tried again has to store is there       *)
(* already or all still to come (ActivityQueue: record, spawn,             *)
(* insert_batch).                                                          *)
THEOREM ActivityInvariance == Q!Spec => []ActivityInv
<1> QED
  BY ActivityInit, ActivityNext, PTL DEF Q!Spec

(* The table has one event of each key, in order, whatever is retried      *)
(* after a commit that was reported as failed, and none vanishes but a     *)
(* repeat of a stored one (ActivityQueue: record, spawn, insert_batch).    *)
THEOREM ActivityIsKept == Q!Spec => []Q!ActivityKept
<1>1. ActivityInv => Q!ActivityKept
  <2> SUFFICES ASSUME ActivityInv PROVE Q!ActivityKept
    OBVIOUS
  <2>1. /\ Q!Range(rows) = Held(rows) /\ Q!Range(buf) = Held(buf)
        /\ Q!Range(activityQueue) = Held(activityQueue)
    BY HeldIsRange DEF ActivityInv
  <2>2. Held(activityQueue) \subseteq Nat /\ Held(rows) \subseteq Nat
    BY HeldNat DEF ActivityInv
  <2>3. \A e \in Held(activityQueue) \cup dropped : e \notin Held(rows)
    BY <2>2 DEF ActivityInv, Below
  <2>4. ASSUME NEW i \in 1..Len(rows), NEW j \in 1..Len(rows), i < j
        PROVE  rows[i] < rows[j] /\ ~Q!Same(rows[i], rows[j])
    <3>1. rows[i] < rows[j]
      BY <2>4 DEF ActivityInv, Rising
    <3>3. rows[i] \in Held(rows) /\ rows[j] \in Held(rows)
      BY DEF Held
    <3>4. rows[i] \in Nat /\ rows[j] \in Nat
      BY <2>2, <3>3
    <3>2. rows[i] \in Held(rows) /\ rows[j] \in Held(rows) /\ rows[i] # rows[j]
      BY <3>1, <3>3, <3>4
    <3> QED
      BY <3>1, <3>2 DEF ActivityInv, Distinct, Q!Same
  <2>5. Q!Repeats \subseteq 1..Len(key)
        /\ \A e \in 1..Len(key) : InTable(e, Held(rows)) => e \in Held(rows) \cup Q!Repeats
    BY <2>1 DEF InTable, Q!Repeats, Q!Same
  <2>6. 1..Len(key) = Q!Repeats \cup Held(rows) \cup Held(activityQueue) \cup Held(buf)
                      \cup dropped \cup lost
    BY <2>5 DEF ActivityInv
  <2> QED
    BY <2>1, <2>3, <2>4, <2>6 DEF Q!ActivityKept
<1> QED
  BY <1>1, ActivityInvariance, PTL

-----------------------------------------------------------------------------
(* The disk page.                                                          *)

ContainersOn(H) == [host : H, image : Ids, ref : Tags \cup {None}, running : BOOLEAN,
                    ours : BOOLEAN, volume : Volumes \cup {None}]
Named == [tags : SUBSET Tags, volumes : SUBSET Volumes]
DiskWorld ==
    /\ hosts \in SUBSET Hosts /\ env \in Nat
    /\ tagged \in [Hosts -> [Tags -> Ids \cup {None}]] /\ present \in [Hosts -> SUBSET Ids]
    /\ cont \in [Containers -> {None} \cup ContainersOn(hosts)]
    /\ volume \in [Volumes -> {"none", "ours", "foreign"}]
    /\ catalog \in Named /\ former \in Named /\ prov \in SUBSET Tags

ImagePhases == {"list", "refs", "catalog", "prov", "check", "removing"}
ImageRequests(H) ==
    [kind : {"remove", "prune"}, target : Ids \cup {None}, pc : ImagePhases,
     tags : [Ids -> SUBSET Tags], listed : SUBSET Ids, used : SUBSET (Ids \cup Tags),
     specs : SUBSET Tags, prov : SUBSET Tags, left : SUBSET (Ids \X H)]
VolumeRequests == [kind : {"volume"}, target : Volumes, pc : {"volumes", "named", "drop"},
                   mounted : SUBSET (Volumes \cup {None})]
StoppedRequests == [kind : {"stopped"}, target : {None}, pc : {"prune"},
                    left : SUBSET Containers]
DiskRequests(H) == {K!Idle} \cup ImageRequests(H) \cup VolumeRequests \cup StoppedRequests
Truths == [used : SUBSET Ids, tags : [Ids -> SUBSET Tags], catalog : Named,
           misled : BOOLEAN, mounted : SUBSET (Volumes \cup {None}), stopped : SUBSET Containers]
DiskTypes == DiskWorld /\ req \in DiskRequests(hosts) /\ truth \in Truths

(* What a request has read, and what it may remove because of it.          *)
RefsRead(r) == r.pc \in {"check", "removing"} \/ (r.kind = "remove" /\ r.pc \in {"catalog", "prov"})
SpecsRead(r) == r.pc \in {"prov", "check", "removing"} \/ (r.kind = "prune" /\ r.pc = "refs")
ImagesRead(r, s, P) ==
    r.kind \in {"remove", "prune"} =>
        /\ r.pc # "list" => r.tags = s.tags
        /\ RefsRead(r) => s.used \subseteq r.used
        /\ SpecsRead(r) => s.misled \/ s.catalog.tags = r.specs
        /\ r.prov \subseteq P
        /\ r.pc = "removing" => \A x \in r.left :
              /\ x[1] \notin r.used
              /\ r.tags[x[1]] \cap r.specs = {} /\ r.tags[x[1]] \cap r.prov # {}
VolumesRead(r, s) ==
    r.kind = "volume" =>
        /\ r.mounted = s.mounted
        /\ r.pc \in {"named", "drop"} => r.target \notin r.mounted
        /\ r.pc = "drop" => s.misled \/ r.target \notin s.catalog.volumes
StoppedRead(r, s, C) ==
    r.kind = "stopped" =>
        /\ r.left \subseteq s.stopped
        /\ \A c \in r.left : C[c] # None => C[c].ours
DiskInv == /\ DiskTypes
           /\ ImagesRead(req, truth, prov) /\ VolumesRead(req, truth)
           /\ StoppedRead(req, truth, cont)

(* An idle request has read nothing.                                       *)
LEMMA DiskIdle ==
    /\ K!Idle \in DiskRequests(hosts) /\ K!Idle.kind = "idle" /\ K!Idle.pc = "idle"
    /\ \A s, P, C : /\ ImagesRead(K!Idle, s, P) /\ VolumesRead(K!Idle, s)
                    /\ StoppedRead(K!Idle, s, C)
  BY DEF K!Idle, DiskRequests, ImagesRead, VolumesRead, StoppedRead

LEMMA NothingTrue == K!NoTruth \in Truths
<1>1. [i \in Ids |-> {}] \in [Ids -> SUBSET Tags]
  OBVIOUS
<1>2. [tags |-> {}, volumes |-> {}] \in Named
  BY DEF Named
<1> QED
  BY <1>1, <1>2 DEF K!NoTruth, Truths

(* A request is of the kind its phase says.                                *)
LEMMA RequestKind ==
    ASSUME DiskInv
    PROVE  /\ req.pc \in ImagePhases => req \in ImageRequests(hosts)
           /\ req.pc \in {"volumes", "named", "drop"} => req \in VolumeRequests
           /\ req.pc = "prune" => req \in StoppedRequests
           /\ req.kind = "stopped" => req.pc = "prune"
<1>1. \/ req = K!Idle \/ req \in ImageRequests(hosts) \/ req \in VolumeRequests
      \/ req \in StoppedRequests
  BY DEF DiskInv, DiskTypes, DiskRequests
<1>2. CASE req = K!Idle
  BY <1>2 DEF K!Idle, ImagePhases
<1>3. CASE req \in ImageRequests(hosts)
  BY <1>3 DEF ImageRequests, ImagePhases
<1>4. CASE req \in VolumeRequests
  BY <1>4 DEF VolumeRequests, ImagePhases
<1>5. CASE req \in StoppedRequests
  BY <1>5 DEF StoppedRequests, ImagePhases
<1> QED
  BY <1>1, <1>2, <1>3, <1>4, <1>5

LEMMA DiskInit == K!Init => DiskInv
<1> SUFFICES ASSUME K!Init PROVE DiskInv
  OBVIOUS
<1>1. PICK i \in Ids : /\ present = [h \in Hosts |-> {i}]
                       /\ tagged = [h \in Hosts |-> [t \in Tags |-> i]]
  BY DEF K!Init
<1>2. /\ hosts \in SUBSET Hosts /\ env = 0 /\ cont = [c \in Containers |-> None]
      /\ volume = [v \in Volumes |-> "none"] /\ catalog = [tags |-> Tags, volumes |-> {}]
      /\ former = catalog
      /\ prov \in {{}, Tags} /\ req = K!Idle /\ truth = K!NoTruth
  BY DEF K!Init
<1>3. DiskWorld
  <2>1. tagged \in [Hosts -> [Tags -> Ids \cup {None}]] /\ present \in [Hosts -> SUBSET Ids]
    BY <1>1
  <2>2. catalog \in Named /\ former \in Named
    BY <1>2 DEF Named
  <2>3. volume \in [Volumes -> {"none", "ours", "foreign"}]
    BY <1>2
  <2>4. cont \in [Containers -> {None} \cup ContainersOn(hosts)]
    BY <1>2
  <2> QED
    BY <1>2, <2>1, <2>2, <2>3, <2>4 DEF DiskWorld
<1> QED
  BY <1>2, <1>3, DiskIdle, NothingTrue DEF DiskInv, DiskTypes

(* Something happens outside: the record of pulls grows, and a container   *)
(* on a list keeps its label.                                              *)
LEMMA DiskOutside ==
    ASSUME DiskInv, DiskWorld', hosts' = hosts, req' = req, truth' = truth,
           prov \subseteq prov',
           \A c \in Containers : \/ cont'[c] = None
                                 \/ (req.pc = "prune" => c \notin req.left)
                                 \/ (cont[c] # None /\ cont'[c].ours = cont[c].ours)
    PROVE  DiskInv'
<1>1. ImagesRead(req, truth, prov')
  BY DEF DiskInv, ImagesRead
<1>2. StoppedRead(req, truth, cont')
  <2> SUFFICES ASSUME req.kind = "stopped", NEW c \in req.left, cont'[c] # None
               PROVE  cont'[c].ours
    BY DEF DiskInv, StoppedRead
  <2>1. req \in StoppedRequests /\ req.pc = "prune"
    BY RequestKind
  <2>2. c \in Containers
    BY <2>1 DEF StoppedRequests
  <2>3. cont[c] # None /\ cont'[c].ours = cont[c].ours
    BY <2>1, <2>2
  <2> QED
    BY <2>3 DEF DiskInv, StoppedRead
<1>3. DiskTypes'
  BY DEF DiskInv, DiskTypes
<1> QED
  BY <1>1, <1>2, <1>3 DEF DiskInv

(* A request ends, or one takes its next step, while nothing happens.      *)
LEMMA DiskRequest ==
    ASSUME DiskInv, DiskWorld', hosts' = hosts, prov' = prov, truth' \in Truths,
           \/ req' = K!Idle
           \/ /\ req' \in DiskRequests(hosts)
              /\ ImagesRead(req', truth', prov) /\ VolumesRead(req', truth')
              /\ StoppedRead(req', truth', cont')
    PROVE  DiskInv'
<1>1. CASE req' = K!Idle
  <2>1. req' \in DiskRequests(hosts)
    BY <1>1, DiskIdle
  <2>2. /\ ImagesRead(req', truth', prov) /\ VolumesRead(req', truth')
        /\ StoppedRead(req', truth', cont')
    BY <1>1, DiskIdle
  <2> QED
    BY <2>1, <2>2 DEF DiskInv, DiskTypes
<1>2. CASE /\ req' \in DiskRequests(hosts)
           /\ ImagesRead(req', truth', prov) /\ VolumesRead(req', truth')
           /\ StoppedRead(req', truth', cont')
  BY <1>2 DEF DiskInv, DiskTypes
<1> QED
  BY <1>1, <1>2

(* The world of a step that leaves it alone.                               *)
LEMMA DiskStill ==
    ASSUME DiskInv, UNCHANGED <<hosts, K!world, env>>
    PROVE  /\ DiskWorld' /\ hosts' = hosts /\ prov' = prov /\ cont' = cont
           /\ present' = present /\ volume' = volume
  BY DEF DiskInv, DiskTypes, DiskWorld, K!world, K!catalogs

(* A step that removes no image and no volume, and no container while the  *)
(* stopped ones are pruned.                                                *)
LEMMA NothingRemoved ==
    ASSUME \A h \in Hosts : present[h] \subseteq present'[h],
           \A v \in Volumes : volume[v] # "none" => volume'[v] # "none",
           env' # env \/ cont' = cont \/ req.kind # "stopped"
    PROVE  K!CleanupStep
  BY DEF K!CleanupStep, K!Live

LEMMA DiskHappens ==
    ASSUME DiskInv, K!Happens
    PROVE  /\ env' \in Nat /\ env' # env /\ hosts' = hosts /\ req' = req /\ truth' = truth
           /\ hosts \in SUBSET Hosts
  BY DEF DiskInv, DiskTypes, DiskWorld, K!Happens

(* An image arrives.                                                       *)
LEMMA DiskFetched ==
    ASSUME DiskInv, NEW h \in Hosts, NEW t \in Tags, NEW i \in Ids, K!Fetched(h, t, i)
    PROVE  /\ tagged' \in [Hosts -> [Tags -> Ids \cup {None}]] /\ tagged'[h][t] = i
           /\ present' \in [Hosts -> SUBSET Ids]
           /\ \A g \in Hosts : present[g] \subseteq present'[g]
<1>1. /\ tagged' = [tagged EXCEPT ![h][t] = i]
      /\ present' = [present EXCEPT ![h] = present[h] \cup {i}]
      /\ tagged \in [Hosts -> [Tags -> Ids \cup {None}]] /\ present \in [Hosts -> SUBSET Ids]
  BY DEF K!Fetched, DiskInv, DiskTypes, DiskWorld
<1>2. tagged' \in [Hosts -> [Tags -> Ids \cup {None}]] /\ tagged'[h][t] = i
  BY <1>1
<1>3. present' \in [Hosts -> SUBSET Ids] /\ \A g \in Hosts : present[g] \subseteq present'[g]
  BY <1>1
<1> QED
  BY <1>2, <1>3

LEMMA DiskPullStarts ==
    ASSUME DiskInv, NEW t \in Tags, K!PullStarts(t) PROVE DiskInv' /\ K!CleanupStep
<1>1. /\ prov' = prov \cup {t} /\ tagged' = tagged /\ present' = present /\ cont' = cont
      /\ volume' = volume /\ UNCHANGED K!catalogs /\ K!Happens
  BY DEF K!PullStarts, K!Remembered
<1>2. DiskWorld'
  BY <1>1, DiskHappens DEF DiskInv, DiskTypes, DiskWorld, K!catalogs
<1> QED
  BY <1>1, <1>2, DiskHappens, DiskOutside, NothingRemoved

LEMMA DiskPullLands ==
    ASSUME DiskInv, NEW h \in Hosts, NEW t \in Tags, NEW i \in Ids, K!PullLands(h, t, i)
    PROVE  DiskInv' /\ K!CleanupStep
<1>1. /\ K!Fetched(h, t, i) /\ cont' = cont /\ volume' = volume /\ UNCHANGED K!catalogs
      /\ prov' = prov /\ K!Happens
  BY DEF K!PullLands
<1>2. DiskWorld'
  BY <1>1, DiskHappens, DiskFetched DEF DiskInv, DiskTypes, DiskWorld, K!catalogs
<1> QED
  BY <1>1, <1>2, DiskHappens, DiskFetched, DiskOutside, NothingRemoved

(* A new container: one that is on no list.                                *)
LEMMA DiskNewContainer ==
    ASSUME DiskInv, NEW c \in Containers, K!Free(c), NEW r \in ContainersOn(hosts),
           cont' = [cont EXCEPT ![c] = r], K!Happens, prov' = prov, DiskWorld',
           \A h \in Hosts : present[h] \subseteq present'[h],
           \A v \in Volumes : volume[v] # "none" => volume'[v] # "none"
    PROVE  DiskInv' /\ K!CleanupStep
<1>1. cont \in [Containers -> {None} \cup ContainersOn(hosts)]
  BY DEF DiskInv, DiskTypes, DiskWorld, K!catalogs
<1>2. \A d \in Containers \ {c} : cont'[d] = cont[d]
  BY <1>1
<1>3. req.pc = "prune" => c \notin req.left
  BY DEF K!Free
<1>4. ASSUME NEW d \in Containers
      PROVE  \/ cont'[d] = None \/ (req.pc = "prune" => d \notin req.left)
             \/ (cont[d] # None /\ cont'[d].ours = cont[d].ours)
  BY <1>2, <1>3
<1> QED
  BY <1>4, DiskHappens, DiskOutside, NothingRemoved

LEMMA DiskSpawn ==
    ASSUME DiskInv, NEW c \in Containers, NEW h \in Hosts, NEW t \in Tags,
           NEW v \in Volumes \cup {None}, K!Spawn(c, h, t, v)
    PROVE  DiskInv' /\ K!CleanupStep
<1> DEFINE r == [host |-> h, image |-> tagged'[h][t], ref |-> t,
                 running |-> TRUE, ours |-> TRUE, volume |-> v]
<1>1. /\ K!Happens /\ h \in hosts /\ K!Free(c) /\ cont' = [cont EXCEPT ![c] = r]
      /\ volume' = [u \in Volumes |-> IF u = v /\ volume[u] = "none" THEN "foreign"
                                      ELSE volume[u]]
      /\ UNCHANGED K!catalogs /\ prov' = prov
      /\ \/ tagged[h][t] # None /\ tagged' = tagged /\ present' = present
         \/ \E i \in Ids : K!Fetched(h, t, i)
  BY DEF K!Spawn
<1>2. /\ tagged \in [Hosts -> [Tags -> Ids \cup {None}]] /\ present \in [Hosts -> SUBSET Ids]
      /\ cont \in [Containers -> {None} \cup ContainersOn(hosts)]
      /\ volume \in [Volumes -> {"none", "ours", "foreign"}]
  BY DEF DiskInv, DiskTypes, DiskWorld, K!catalogs
<1>3. /\ tagged' \in [Hosts -> [Tags -> Ids \cup {None}]] /\ tagged'[h][t] \in Ids
      /\ present' \in [Hosts -> SUBSET Ids] /\ \A g \in Hosts : present[g] \subseteq present'[g]
  <2>1. CASE tagged[h][t] # None /\ tagged' = tagged /\ present' = present
    BY <1>2, <2>1
  <2>2. ASSUME NEW i \in Ids, K!Fetched(h, t, i)
        PROVE  /\ tagged' \in [Hosts -> [Tags -> Ids \cup {None}]] /\ tagged'[h][t] \in Ids
               /\ present' \in [Hosts -> SUBSET Ids]
               /\ \A g \in Hosts : present[g] \subseteq present'[g]
    BY <2>2, DiskFetched
  <2> QED
    BY <1>1, <2>1, <2>2
<1>4. r \in ContainersOn(hosts)
  BY <1>1, <1>3 DEF ContainersOn
<1> HIDE DEF r
<1>5. cont' \in [Containers -> {None} \cup ContainersOn(hosts)]
  BY <1>1, <1>2, <1>4
<1>6. volume' \in [Volumes -> {"none", "ours", "foreign"}]
  BY <1>1, <1>2
<1>7. \A u \in Volumes : volume[u] # "none" => volume'[u] # "none"
  BY <1>1
<1>8. DiskWorld'
  BY <1>1, <1>3, <1>5, <1>6, DiskHappens DEF DiskInv, DiskTypes, DiskWorld, K!catalogs
<1> QED
  BY <1>1, <1>3, <1>4, <1>7, <1>8, DiskNewContainer

LEMMA DiskNeighbour ==
    ASSUME DiskInv, NEW c \in Containers, NEW h \in Hosts, NEW i \in Ids, K!Neighbour(c, h, i)
    PROVE  DiskInv' /\ K!CleanupStep
<1> DEFINE r == [host |-> h, image |-> i, ref |-> None,
                 running |-> TRUE, ours |-> FALSE, volume |-> None]
<1>1. /\ K!Happens /\ h \in hosts /\ K!Free(c) /\ cont' = [cont EXCEPT ![c] = r]
      /\ volume' = volume /\ UNCHANGED K!catalogs /\ prov' = prov /\ tagged' = tagged
      /\ present' = present
  BY DEF K!Neighbour
<1>2. r \in ContainersOn(hosts)
  BY <1>1 DEF ContainersOn
<1> HIDE DEF r
<1>3. cont' \in [Containers -> {None} \cup ContainersOn(hosts)]
  BY <1>1, <1>2 DEF DiskInv, DiskTypes, DiskWorld, K!catalogs
<1>4. DiskWorld'
  BY <1>1, <1>3, DiskHappens DEF DiskInv, DiskTypes, DiskWorld, K!catalogs
<1> QED
  BY <1>1, <1>2, <1>4, DiskNewContainer

LEMMA DiskExits ==
    ASSUME DiskInv, NEW c \in Containers, K!Exits(c) PROVE DiskInv' /\ K!CleanupStep
<1> DEFINE r == [cont[c] EXCEPT !.running = ~cont[c].running]
<1>1. /\ K!Happens /\ cont[c] # None /\ tagged' = tagged /\ present' = present
      /\ volume' = volume /\ UNCHANGED K!catalogs /\ prov' = prov
      /\ cont' = [cont EXCEPT ![c] = None] \/ cont' = [cont EXCEPT ![c] = r]
  BY DEF K!Exits
<1>2. cont \in [Containers -> {None} \cup ContainersOn(hosts)]
  BY DEF DiskInv, DiskTypes, DiskWorld, K!catalogs
<1>3. cont[c] \in ContainersOn(hosts)
  BY <1>1, <1>2
<1>4. r \in ContainersOn(hosts) /\ r.ours = cont[c].ours
  BY <1>3 DEF ContainersOn
<1> HIDE DEF r
<1>5. cont' \in [Containers -> {None} \cup ContainersOn(hosts)]
  BY <1>1, <1>2, <1>4
<1>6. \A d \in Containers : \/ cont'[d] = None \/ cont'[d] = cont[d]
                            \/ (d = c /\ cont'[d] = r)
  BY <1>1, <1>2
<1>7. \A d \in Containers : \/ cont'[d] = None \/ (cont[d] # None /\ cont'[d].ours = cont[d].ours)
  BY <1>1, <1>4, <1>6
<1>8. DiskWorld'
  BY <1>1, <1>5, DiskHappens DEF DiskInv, DiskTypes, DiskWorld, K!catalogs
<1> QED
  BY <1>1, <1>7, <1>8, DiskHappens, DiskOutside, NothingRemoved

LEMMA DiskSpecsChange == ASSUME DiskInv, K!SpecsChange PROVE DiskInv' /\ K!CleanupStep
<1>1. /\ K!Happens /\ tagged' = tagged /\ present' = present
      /\ volume' = volume /\ cont' = cont /\ prov' = prov /\ former' = catalog
      /\ \/ \E t \in Tags : catalog' = [catalog EXCEPT !.tags =
                IF t \in catalog.tags THEN catalog.tags \ {t} ELSE catalog.tags \cup {t}]
         \/ \E v \in Volumes : catalog' = [catalog EXCEPT !.volumes =
                IF v \in catalog.volumes THEN catalog.volumes \ {v}
                ELSE catalog.volumes \cup {v}]
  BY DEF K!SpecsChange
<1>2. catalog \in Named
  BY DEF DiskInv, DiskTypes, DiskWorld, K!catalogs
<1>3. catalog' \in Named
  BY <1>1, <1>2 DEF Named
<1>4. DiskWorld'
  BY <1>1, <1>3, DiskHappens DEF DiskInv, DiskTypes, DiskWorld, K!catalogs
<1> QED
  BY <1>1, <1>4, DiskHappens, DiskOutside, NothingRemoved

LEMMA DiskReclaim ==
    ASSUME DiskInv, NEW h \in Hosts, K!Reclaim(h) PROVE DiskInv' /\ K!CleanupStep
<1> DEFINE P == {i \in present[h] : K!TagsAt(h, i) # {} \/ i \in K!UsedOn(h)}
<1>1. /\ req = K!Idle /\ present' = [present EXCEPT ![h] = P]
      /\ hosts' = hosts /\ tagged' = tagged /\ cont' = cont /\ volume' = volume
      /\ UNCHANGED K!catalogs /\ prov' = prov /\ req' = req /\ truth' = truth /\ env' = env
  BY DEF K!Reclaim
<1>2. present \in [Hosts -> SUBSET Ids]
  BY DEF DiskInv, DiskTypes, DiskWorld, K!catalogs
<1>3. P \subseteq present[h] /\ P \subseteq Ids /\ \A i \in present[h] \ P : i \notin K!UsedOn(h)
  BY <1>2
<1> HIDE DEF P
<1>4. /\ present' \in [Hosts -> SUBSET Ids] /\ present'[h] = P
      /\ \A g \in Hosts \ {h} : present'[g] = present[g]
  BY <1>1, <1>2, <1>3
<1>5. DiskWorld'
  BY <1>1, <1>4 DEF DiskInv, DiskTypes, DiskWorld, K!catalogs
<1>6. DiskInv'
  BY <1>1, <1>5, DiskRequest DEF DiskInv, DiskTypes
<1>7. req.pc # "removing" /\ req.kind # "stopped"
  BY <1>1, DiskIdle
<1>8. \A g \in Hosts : \A i \in present[g] \ present'[g] : i \notin K!UsedOn(g)
  BY <1>3, <1>4
<1> QED
  BY <1>1, <1>6, <1>7, <1>8 DEF K!CleanupStep

LEMMA DiskCreateVolume ==
    ASSUME DiskInv, NEW v \in Volumes, K!CreateVolume(v) PROVE DiskInv' /\ K!CleanupStep
<1>1. /\ req = K!Idle
      /\ volume' = [volume EXCEPT ![v] = IF volume[v] = "none" THEN "ours" ELSE volume[v]]
      /\ hosts' = hosts /\ tagged' = tagged /\ cont' = cont /\ present' = present
      /\ UNCHANGED K!catalogs /\ prov' = prov /\ req' = req /\ truth' = truth /\ env' = env
  BY DEF K!CreateVolume
<1>2. volume \in [Volumes -> {"none", "ours", "foreign"}]
  BY DEF DiskInv, DiskTypes, DiskWorld, K!catalogs
<1>3. /\ volume' \in [Volumes -> {"none", "ours", "foreign"}]
      /\ \A u \in Volumes : volume[u] # "none" => volume'[u] # "none"
  BY <1>1, <1>2
<1>4. DiskWorld'
  BY <1>1, <1>3 DEF DiskInv, DiskTypes, DiskWorld, K!catalogs
<1>5. DiskInv'
  BY <1>1, <1>4, DiskRequest DEF DiskInv, DiskTypes
<1> QED
  BY <1>1, <1>3, <1>5, NothingRemoved

LEMMA DiskRemoveContainer ==
    ASSUME DiskInv, NEW c \in Containers, K!RemoveContainer(c)
    PROVE  DiskInv' /\ K!CleanupStep
<1>1. /\ req = K!Idle /\ cont' = [cont EXCEPT ![c] = None]
      /\ hosts' = hosts /\ tagged' = tagged /\ volume' = volume /\ present' = present
      /\ UNCHANGED K!catalogs /\ prov' = prov /\ req' = req /\ truth' = truth /\ env' = env
  BY DEF K!RemoveContainer, K!Gone
<1>2. cont' \in [Containers -> {None} \cup ContainersOn(hosts)]
  BY <1>1 DEF DiskInv, DiskTypes, DiskWorld, K!catalogs
<1>3. DiskWorld'
  BY <1>1, <1>2 DEF DiskInv, DiskTypes, DiskWorld, K!catalogs
<1>4. DiskInv'
  BY <1>1, <1>3, DiskRequest DEF DiskInv, DiskTypes
<1>5. req.kind # "stopped"
  BY <1>1, DiskIdle
<1> QED
  BY <1>1, <1>4, <1>5, NothingRemoved

(* Whoever goes on keeps what was so; whoever ends forgets it.             *)
LEMMA WhoGoes ==
    ASSUME NEW r, NEW s, K!Goes(r, s)
    PROVE  (req' = K!Idle /\ truth' = K!NoTruth) \/ (req' = r /\ truth' = s)
  BY DEF K!Goes

(* What the catalog said is what it is, or the request was misled.         *)
LEMMA DiskListings == ASSUME DiskInv, NEW C \in K!Listings PROVE C \in Named
  BY FileAssumption DEF K!Listings, DiskInv, DiskTypes, DiskWorld, Named

LEMMA DiskTold ==
    ASSUME NEW C \in Named, catalog \in Named, truth \in Truths
    PROVE  /\ K!Told(C) \in Truths
           /\ K!Told(C).misled \/ K!Told(C).catalog = C
           /\ K!Told(C).used = truth.used /\ K!Told(C).tags = truth.tags
           /\ K!Told(C).mounted = truth.mounted /\ K!Told(C).stopped = truth.stopped
<1> DEFINE m == C # catalog
           c == IF C = catalog THEN catalog ELSE K!NoTruth.catalog
<1>1. K!Told(C) = [truth EXCEPT !.misled = m, !.catalog = c]
  BY DEF K!Told
<1>2. m \in BOOLEAN /\ c \in Named /\ (m \/ c = C)
  BY NothingTrue DEF Truths
<1> HIDE DEF m, c
<1> QED
  BY <1>1, <1>2 DEF Truths

(* A request of images goes on with its readings.                          *)
LEMMA DiskStartImages == ASSUME DiskInv, K!StartImages PROVE DiskInv' /\ K!CleanupStep
<1>1. PICK k \in {"remove", "prune"}, i \in Ids :
        req' = [kind |-> k, target |-> IF k = "remove" THEN i ELSE None, pc |-> "list",
                tags |-> [j \in Ids |-> {}], listed |-> {}, used |-> {}, specs |-> {},
                prov |-> {}, left |-> {}]
  BY DEF K!StartImages
<1>2. truth' = K!NoTruth /\ UNCHANGED <<hosts, K!world, env>>
  BY DEF K!StartImages
<1>3. [j \in Ids |-> {}] \in [Ids -> SUBSET Tags]
  OBVIOUS
<1>4. req' \in ImageRequests(hosts) /\ req'.pc = "list" /\ req'.prov = {} /\ req'.kind = k
  BY <1>1, <1>3 DEF ImageRequests, ImagePhases
<1>5. ImagesRead(req', truth', prov) /\ VolumesRead(req', truth') /\ StoppedRead(req', truth', cont')
  BY <1>4 DEF ImagesRead, RefsRead, SpecsRead, VolumesRead, StoppedRead
<1>6. req' \in DiskRequests(hosts)
  BY <1>4 DEF DiskRequests
<1> QED
  BY <1>2, <1>5, <1>6, DiskStill, DiskRequest, NothingRemoved, NothingTrue

(* The facts about a request of images, where its fields are read.         *)
LEMMA ImagesFacts ==
    ASSUME DiskInv, req.pc \in ImagePhases
    PROVE  /\ req \in ImageRequests(hosts) /\ ImagesRead(req, truth, prov) /\ truth \in Truths
           /\ req.kind \in {"remove", "prune"}
           /\ hosts \in SUBSET Hosts /\ prov \in SUBSET Tags /\ catalog \in Named
           /\ tagged \in [Hosts -> [Tags -> Ids \cup {None}]] /\ present \in [Hosts -> SUBSET Ids]
           /\ cont \in [Containers -> {None} \cup ContainersOn(hosts)]
<1>1. req \in ImageRequests(hosts)
  BY RequestKind
<1>2. req.kind \in {"remove", "prune"}
  BY <1>1 DEF ImageRequests
<1> QED
  BY <1>1, <1>2 DEF DiskInv, DiskTypes, DiskWorld, K!catalogs

(* A request of images that is still about images.                         *)
LEMMA ImagesGoOn ==
    ASSUME DiskInv, UNCHANGED <<hosts, K!world, env>>, truth' \in Truths,
           req' = K!Idle \/ (req' \in ImageRequests(hosts) /\ ImagesRead(req', truth', prov))
    PROVE  DiskInv' /\ K!CleanupStep
<1>1. req' \in ImageRequests(hosts) => req'.kind \in {"remove", "prune"}
  BY DEF ImageRequests
<1>2. req' \in ImageRequests(hosts) => VolumesRead(req', truth') /\ StoppedRead(req', truth', cont')
  BY <1>1 DEF VolumesRead, StoppedRead
<1>3. req' \in ImageRequests(hosts) => req' \in DiskRequests(hosts)
  BY DEF DiskRequests
<1> QED
  BY <1>2, <1>3, DiskStill, DiskRequest, NothingRemoved

LEMMA DiskListImages ==
    ASSUME DiskInv, NEW H \in SUBSET Hosts, K!ListImages(H) PROVE DiskInv' /\ K!CleanupStep
<1> DEFINE merged == [i \in Ids |-> UNION {K!TagsAt(h, i) : h \in H}]
           listed == UNION {present[h] : h \in H}
           pc == IF req.kind = "remove" THEN "refs" ELSE "catalog"
           r == [req EXCEPT !.pc = pc, !.tags = merged, !.listed = listed]
           s == [truth EXCEPT !.tags = merged]
<1>1. /\ req.pc = "list" /\ UNCHANGED <<hosts, K!world, env>>
      /\ \/ req' = K!Idle /\ truth' = K!NoTruth
         \/ req' = [K!Go(K!After("list")) EXCEPT !.tags = merged, !.listed = listed] /\ truth' = s
  BY DEF K!ListImages, K!Goes
<1>2. [K!Go(K!After("list")) EXCEPT !.tags = merged, !.listed = listed] = r
  BY DEF K!Go, K!After
<1>3. /\ req \in ImageRequests(hosts) /\ ImagesRead(req, truth, prov) /\ truth \in Truths
      /\ req.kind \in {"remove", "prune"} /\ present \in [Hosts -> SUBSET Ids]
  BY <1>1, ImagesFacts DEF ImagePhases
<1>4. merged \in [Ids -> SUBSET Tags] /\ listed \in SUBSET Ids
  BY <1>3 DEF K!TagsAt
<1> HIDE DEF merged, listed
<1>5. s \in Truths /\ s.tags = merged
  BY <1>3, <1>4 DEF Truths
<1>6. /\ r \in ImageRequests(hosts) /\ r.pc = pc /\ r.tags = merged /\ r.kind = req.kind
      /\ r.prov = req.prov
  BY <1>3, <1>4 DEF ImageRequests, ImagePhases
<1> HIDE DEF r, s
<1>7. ImagesRead(r, s, prov)
  BY <1>3, <1>5, <1>6 DEF ImagesRead, RefsRead, SpecsRead
<1> QED
  BY <1>1, <1>2, <1>5, <1>6, <1>7, NothingTrue, ImagesGoOn

LEMMA DiskReadRefs ==
    ASSUME DiskInv, NEW H \in SUBSET Hosts, K!ReadRefs(H) PROVE DiskInv' /\ K!CleanupStep
<1> DEFINE refs == K!RefsOf(hosts)
           images == {cont[c].image : c \in K!Live}
           pc == IF req.kind = "remove" THEN "catalog" ELSE "check"
           r == [req EXCEPT !.pc = pc, !.used = refs]
           s == [truth EXCEPT !.used = images]
<1>1. /\ req.pc = "refs" /\ UNCHANGED <<hosts, K!world, env>>
      /\ \/ req' = K!Idle /\ truth' = K!NoTruth
         \/ req' = [K!Go(K!After("refs")) EXCEPT !.used = refs] /\ truth' = s
  BY DEF K!ReadRefs, K!Answered, K!Goes
<1>2. [K!Go(K!After("refs")) EXCEPT !.used = refs] = r
  BY DEF K!Go, K!After
<1>3. /\ req \in ImageRequests(hosts) /\ ImagesRead(req, truth, prov) /\ truth \in Truths
      /\ req.kind \in {"remove", "prune"}
      /\ cont \in [Containers -> {None} \cup ContainersOn(hosts)]
  BY <1>1, ImagesFacts DEF ImagePhases
<1>4. \A c \in K!Live : /\ c \in Containers /\ cont[c].host \in hosts /\ cont[c].image \in Ids
                        /\ cont[c].ref \in Tags \cup {None}
  BY <1>3 DEF K!Live, ContainersOn
<1>5. images \in SUBSET Ids
  BY <1>4
<1>6. refs \in SUBSET (Ids \cup Tags)
  BY <1>4 DEF K!RefsOf
<1>7. images \subseteq refs
  <2>1. ASSUME NEW c \in K!Live PROVE cont[c].image \in refs
    <3>1. c \in {d \in K!Live : cont[d].host \in hosts} /\ cont[c].image # None
      BY <1>4, DiskAssumption
    <3>2. cont[c].image \in {cont[c].image, cont[c].ref}
      OBVIOUS
    <3> QED
      BY <3>1, <3>2 DEF K!RefsOf
  <2> QED
    BY <2>1
<1> HIDE DEF refs, images
<1>8. s \in Truths /\ s.used = images /\ s.tags = truth.tags /\ s.catalog = truth.catalog
      /\ s.misled = truth.misled
  BY <1>3, <1>5 DEF Truths
<1>9. /\ r \in ImageRequests(hosts) /\ r.pc = pc /\ r.used = refs /\ r.kind = req.kind
      /\ r.prov = req.prov /\ r.tags = req.tags /\ r.specs = req.specs
  BY <1>3, <1>6 DEF ImageRequests, ImagePhases
<1> HIDE DEF r, s
<1>10. ImagesRead(r, s, prov)
  BY <1>1, <1>3, <1>7, <1>8, <1>9 DEF ImagesRead, RefsRead, SpecsRead
<1> QED
  BY <1>1, <1>2, <1>8, <1>9, <1>10, NothingTrue, ImagesGoOn

LEMMA DiskReadCatalog ==
    ASSUME DiskInv, NEW C \in K!Listings, K!ReadCatalog(C)
    PROVE  DiskInv' /\ K!CleanupStep
<1> DEFINE tags == C.tags
           r == [req EXCEPT !.pc = "prov", !.specs = tags]
           s == K!Told(C)
<1>1. /\ req.pc = "catalog" /\ UNCHANGED <<hosts, K!world, env>>
      /\ \/ req' = K!Idle /\ truth' = K!NoTruth
         \/ req' = [K!Go(K!After("catalog")) EXCEPT !.specs = tags] /\ truth' = s
  BY WhoGoes DEF K!ReadCatalog
<1>2. [K!Go(K!After("catalog")) EXCEPT !.specs = tags] = r
  BY DEF K!Go, K!After
<1>3. /\ req \in ImageRequests(hosts) /\ ImagesRead(req, truth, prov) /\ truth \in Truths
      /\ req.kind \in {"remove", "prune"} /\ catalog \in Named
  BY <1>1, ImagesFacts DEF ImagePhases
<1>4. C \in Named /\ tags \in SUBSET Tags
  BY DiskListings DEF Named
<1>5. /\ s \in Truths /\ s.used = truth.used /\ s.tags = truth.tags
      /\ s.misled \/ s.catalog.tags = tags
  BY <1>3, <1>4, DiskTold
<1>6. /\ r \in ImageRequests(hosts) /\ r.pc = "prov" /\ r.used = req.used /\ r.kind = req.kind
      /\ r.prov = req.prov /\ r.tags = req.tags /\ r.specs = tags
  BY <1>3, <1>4 DEF ImageRequests, ImagePhases
<1> HIDE DEF r, s, tags
<1>7. ImagesRead(r, s, prov)
  BY <1>1, <1>3, <1>5, <1>6 DEF ImagesRead, RefsRead, SpecsRead
<1> QED
  BY <1>1, <1>2, <1>5, <1>6, <1>7, NothingTrue, ImagesGoOn

LEMMA DiskReadProvenance == ASSUME DiskInv, K!ReadProvenance PROVE DiskInv' /\ K!CleanupStep
<1>1. PICK P \in {prov, {}} : req' = [K!Go(K!After("prov")) EXCEPT !.prov = P]
  BY DEF K!ReadProvenance
<1> DEFINE pc == IF req.kind = "remove" THEN "check" ELSE "refs"
           r == [req EXCEPT !.pc = pc, !.prov = P]
<1>2. /\ req.pc = "prov" /\ truth' = truth /\ UNCHANGED <<hosts, K!world, env>>
  BY DEF K!ReadProvenance
<1>3. [K!Go(K!After("prov")) EXCEPT !.prov = P] = r
  BY DEF K!Go, K!After
<1>4. /\ req \in ImageRequests(hosts) /\ ImagesRead(req, truth, prov) /\ truth \in Truths
      /\ req.kind \in {"remove", "prune"} /\ prov \in SUBSET Tags
  BY <1>2, ImagesFacts DEF ImagePhases
<1>5. P \in SUBSET Tags /\ P \subseteq prov
  BY <1>4
<1>6. /\ r \in ImageRequests(hosts) /\ r.pc = pc /\ r.used = req.used /\ r.kind = req.kind
      /\ r.prov = P /\ r.tags = req.tags /\ r.specs = req.specs
  BY <1>4, <1>5 DEF ImageRequests, ImagePhases
<1> HIDE DEF r
<1>7. ImagesRead(r, truth, prov)
  BY <1>2, <1>4, <1>5, <1>6 DEF ImagesRead, RefsRead, SpecsRead
<1> QED
  BY <1>1, <1>2, <1>3, <1>4, <1>6, <1>7, ImagesGoOn

LEMMA DiskCheck == ASSUME DiskInv, K!Check PROVE DiskInv' /\ K!CleanupStep
<1> DEFINE ids == {i \in req.listed : K!image_removable(i) /\ req.target \in {None, i}}
           left == ids \X hosts
           r == [req EXCEPT !.pc = "removing", !.left = left]
<1>1. /\ req.pc = "check" /\ UNCHANGED <<hosts, K!world, env>>
      /\ \/ req' = K!Idle /\ truth' = K!NoTruth
         \/ req' = [K!Go("removing") EXCEPT !.left = left] /\ truth' = truth
  BY DEF K!Check, K!Goes
<1>2. [K!Go("removing") EXCEPT !.left = left] = r
  BY DEF K!Go
<1>3. /\ req \in ImageRequests(hosts) /\ ImagesRead(req, truth, prov) /\ truth \in Truths
      /\ req.kind \in {"remove", "prune"}
  BY <1>1, ImagesFacts DEF ImagePhases
<1>4. ids \subseteq Ids
  BY <1>3 DEF ImageRequests
<1>5. \A i \in ids : i \notin req.used /\ req.tags[i] \cap req.specs = {}
                     /\ req.tags[i] \cap req.prov # {}
  BY DEF K!image_removable, K!image_used_by_container, K!image_is_ruscker
<1> HIDE DEF ids
<1>6. left \in SUBSET (Ids \X hosts)
  BY <1>4
<1>7. \A x \in left : x[1] \in ids
  OBVIOUS
<1> HIDE DEF left
<1>8. /\ r \in ImageRequests(hosts) /\ r.pc = "removing" /\ r.used = req.used /\ r.kind = req.kind
      /\ r.prov = req.prov /\ r.tags = req.tags /\ r.specs = req.specs /\ r.left = left
  BY <1>3, <1>6 DEF ImageRequests, ImagePhases
<1> HIDE DEF r
<1>9. \A x \in r.left : /\ x[1] \notin r.used
                        /\ r.tags[x[1]] \cap r.specs = {} /\ r.tags[x[1]] \cap r.prov # {}
  BY <1>5, <1>7, <1>8
<1>10. ImagesRead(r, truth, prov)
  BY <1>1, <1>3, <1>8, <1>9 DEF ImagesRead, RefsRead, SpecsRead
<1> QED
  BY <1>1, <1>2, <1>3, <1>8, <1>10, NothingTrue, ImagesGoOn

LEMMA DiskRemoveImage ==
    ASSUME DiskInv, NEW i \in Ids, NEW h \in Hosts, K!RemoveImage(i, h)
    PROVE  DiskInv' /\ K!CleanupStep
<1> DEFINE left == req.left \ {<<i, h>>}
           r == [req EXCEPT !.left = left]
<1>1. /\ req.pc = "removing" /\ <<i, h>> \in req.left 
      /\ (req' = K!Idle /\ truth' = K!NoTruth) \/ (req' = r /\ truth' = truth)
      /\ hosts' = hosts /\ cont' = cont /\ volume' = volume /\ UNCHANGED K!catalogs
      /\ prov' = prov /\ env' = env
      /\ \/ /\ i \notin K!UsedOn(h)
            /\ present' = [present EXCEPT ![h] = present[h] \ {i}]
            /\ tagged' = [tagged EXCEPT ![h] = [t \in Tags |-> IF tagged[h][t] = i THEN None
                                                               ELSE tagged[h][t]]]
         \/ present' = present /\ tagged' = tagged
  BY DEF K!RemoveImage, K!Goes
<1>2. /\ req \in ImageRequests(hosts) /\ ImagesRead(req, truth, prov) /\ truth \in Truths
      /\ req.kind \in {"remove", "prune"} /\ prov \in SUBSET Tags
      /\ tagged \in [Hosts -> [Tags -> Ids \cup {None}]] /\ present \in [Hosts -> SUBSET Ids]
  BY <1>1, ImagesFacts DEF ImagePhases
<1>3. /\ r \in ImageRequests(hosts) /\ r.pc = "removing" /\ r.used = req.used /\ r.kind = req.kind
      /\ r.prov = req.prov /\ r.tags = req.tags /\ r.specs = req.specs /\ r.left \subseteq req.left
  BY <1>1, <1>2 DEF ImageRequests
<1> HIDE DEF r
<1>4. ImagesRead(r, truth, prov)
  BY <1>1, <1>2, <1>3 DEF ImagesRead, RefsRead, SpecsRead
<1>5. /\ tagged' \in [Hosts -> [Tags -> Ids \cup {None}]] /\ present' \in [Hosts -> SUBSET Ids]
      /\ \A g \in Hosts : \A j \in present[g] \ present'[g] : g = h /\ j = i /\ i \notin K!UsedOn(h)
  <2>1. CASE present' = present /\ tagged' = tagged
    BY <1>2, <2>1
  <2>2. CASE /\ i \notin K!UsedOn(h)
             /\ present' = [present EXCEPT ![h] = present[h] \ {i}]
             /\ tagged' = [tagged EXCEPT ![h] = [t \in Tags |-> IF tagged[h][t] = i THEN None
                                                                ELSE tagged[h][t]]]
    <3>1. tagged' \in [Hosts -> [Tags -> Ids \cup {None}]]
      BY <1>2, <2>2
    <3>2. /\ present' \in [Hosts -> SUBSET Ids] /\ present'[h] = present[h] \ {i}
          /\ \A g \in Hosts \ {h} : present'[g] = present[g]
      BY <1>2, <2>2
    <3> QED
      BY <2>2, <3>1, <3>2
  <2> QED
    BY <1>1, <2>1, <2>2
<1>6. DiskWorld'
  BY <1>1, <1>5 DEF DiskInv, DiskTypes, DiskWorld, K!catalogs
<1>7. DiskInv'
  <2>1. r \in DiskRequests(hosts) /\ VolumesRead(r, truth) /\ StoppedRead(r, truth, cont)
    BY <1>2, <1>3 DEF DiskRequests, VolumesRead, StoppedRead
  <2> QED
    BY <1>1, <1>2, <1>4, <1>6, <2>1, NothingTrue, DiskRequest
<1>8. /\ i \notin truth.used /\ (truth.misled \/ truth.tags[i] \cap truth.catalog.tags = {})
      /\ truth.tags[i] \cap prov # {}
  <2>1. /\ req.tags = truth.tags /\ truth.used \subseteq req.used
        /\ (truth.misled \/ truth.catalog.tags = req.specs) /\ req.prov \subseteq prov
    BY <1>1, <1>2 DEF ImagesRead, RefsRead, SpecsRead
  <2>2. <<i, h>>[1] = i
    OBVIOUS
  <2>3. i \notin req.used /\ req.tags[i] \cap req.specs = {} /\ req.tags[i] \cap req.prov # {}
    BY <1>1, <1>2, <2>2 DEF ImagesRead
  <2> QED
    BY <2>1, <2>3
<1>9. req.kind # "stopped"
  BY <1>2
<1> QED
  BY <1>1, <1>5, <1>7, <1>8, <1>9 DEF K!CleanupStep

(* A request of a volume or of containers that is still about the same.    *)
LEMMA VolumesGoOn ==
    ASSUME DiskInv, UNCHANGED <<hosts, K!world, env>>, truth' \in Truths,
           req' = K!Idle \/ (req' \in VolumeRequests /\ VolumesRead(req', truth'))
    PROVE  DiskInv' /\ K!CleanupStep
<1>1. req' \in VolumeRequests =>
        ImagesRead(req', truth', prov) /\ StoppedRead(req', truth', cont')
  BY DEF VolumeRequests, ImagesRead, StoppedRead
<1>2. req' \in VolumeRequests => req' \in DiskRequests(hosts)
  BY DEF DiskRequests
<1> QED
  BY <1>1, <1>2, DiskStill, DiskRequest, NothingRemoved

LEMMA DiskMounted == ASSUME DiskInv PROVE K!Mounted \in SUBSET (Volumes \cup {None})
  BY DEF DiskInv, DiskTypes, DiskWorld, ContainersOn, K!Mounted, K!Live

LEMMA DiskListMounts ==
    ASSUME DiskInv, NEW v \in Volumes, K!ListMounts(v) PROVE DiskInv' /\ K!CleanupStep
<1> DEFINE m == K!Mounted
           r == [kind |-> "volume", target |-> v, pc |-> "volumes", mounted |-> m]
           s == [K!NoTruth EXCEPT !.mounted = m]
<1>1. req' = r /\ truth' = s /\ UNCHANGED <<hosts, K!world, env>>
  BY DEF K!ListMounts
<1>2. m \in SUBSET (Volumes \cup {None})
  BY DiskMounted
<1> HIDE DEF m
<1>3. s \in Truths /\ s.mounted = m
  BY <1>2, NothingTrue DEF Truths
<1>4. r \in VolumeRequests /\ r.mounted = m /\ r.pc = "volumes"
  BY <1>2 DEF VolumeRequests
<1> HIDE DEF r, s
<1>5. VolumesRead(r, s)
  BY <1>3, <1>4 DEF VolumesRead
<1> QED
  BY <1>1, <1>3, <1>4, <1>5, VolumesGoOn

LEMMA VolumesFacts ==
    ASSUME DiskInv, req.pc \in {"volumes", "named", "drop"}
    PROVE  /\ req \in VolumeRequests /\ VolumesRead(req, truth) /\ truth \in Truths
           /\ req.kind = "volume" /\ req.target \in Volumes /\ catalog \in Named
<1>1. req \in VolumeRequests
  BY RequestKind
<1>2. req.kind = "volume" /\ req.target \in Volumes
  BY <1>1 DEF VolumeRequests
<1> QED
  BY <1>1, <1>2 DEF DiskInv, DiskTypes, DiskWorld, K!catalogs

LEMMA DiskListVolumes == ASSUME DiskInv, K!ListVolumes PROVE DiskInv' /\ K!CleanupStep
<1> DEFINE r == [req EXCEPT !.pc = "named"]
<1>1. /\ req.pc = "volumes" /\ UNCHANGED <<hosts, K!world, env>>
      /\ \/ req' = K!Idle /\ truth' = K!NoTruth
         \/ req' = r /\ req.target \notin req.mounted /\ truth' = truth
  BY DEF K!ListVolumes, K!Go, K!Goes
<1>2. req \in VolumeRequests /\ VolumesRead(req, truth) /\ truth \in Truths /\ req.kind = "volume"
  BY <1>1, VolumesFacts
<1>3. r \in VolumeRequests /\ r.pc = "named" /\ r.target = req.target /\ r.mounted = req.mounted
  BY <1>2 DEF VolumeRequests
<1> HIDE DEF r
<1>4. req.target \notin req.mounted => VolumesRead(r, truth)
  BY <1>2, <1>3 DEF VolumesRead
<1> QED
  BY <1>1, <1>2, <1>3, <1>4, NothingTrue, VolumesGoOn

LEMMA DiskNamedVolumes ==
    ASSUME DiskInv, NEW C \in K!Listings, K!NamedVolumes(C)
    PROVE  DiskInv' /\ K!CleanupStep
<1> DEFINE r == [req EXCEPT !.pc = "drop"]
           s == K!Told(C)
<1>1. /\ req.pc = "named" /\ UNCHANGED <<hosts, K!world, env>>
      /\ \/ req' = K!Idle /\ truth' = K!NoTruth
         \/ req' = r /\ req.target \notin C.volumes /\ truth' = s
  BY DEF K!NamedVolumes, K!named_volume_refs, K!Go, K!Goes
<1>2. /\ req \in VolumeRequests /\ VolumesRead(req, truth) /\ truth \in Truths
      /\ req.kind = "volume" /\ catalog \in Named
  BY <1>1, VolumesFacts
<1>3. r \in VolumeRequests /\ r.pc = "drop" /\ r.target = req.target /\ r.mounted = req.mounted
  BY <1>2 DEF VolumeRequests
<1>4. s \in Truths /\ s.mounted = truth.mounted /\ (s.misled \/ s.catalog = C)
  BY <1>2, DiskListings, DiskTold
<1> HIDE DEF r, s
<1>5. req.target \notin C.volumes => VolumesRead(r, s)
  BY <1>1, <1>2, <1>3, <1>4 DEF VolumesRead
<1> QED
  BY <1>1, <1>3, <1>4, <1>5, NothingTrue, VolumesGoOn

LEMMA DiskRemoveVolume == ASSUME DiskInv, K!RemoveVolume PROVE DiskInv' /\ K!CleanupStep
<1> DEFINE w == req.target
<1>1. /\ req.pc = "drop" /\ req' = K!Idle
      /\ volume' = [volume EXCEPT ![w] = IF w \in K!Mounted THEN volume[w] ELSE "none"]
      /\ hosts' = hosts /\ tagged' = tagged /\ cont' = cont /\ present' = present
      /\ UNCHANGED K!catalogs /\ prov' = prov /\ truth' = K!NoTruth /\ env' = env
  BY DEF K!RemoveVolume, K!Goes
<1>2. /\ VolumesRead(req, truth) /\ req.kind = "volume" /\ truth \in Truths
  BY <1>1, VolumesFacts
<1>3. w \notin truth.mounted /\ (truth.misled \/ w \notin truth.catalog.volumes)
  BY <1>1, <1>2 DEF VolumesRead
<1>4. volume \in [Volumes -> {"none", "ours", "foreign"}]
  BY DEF DiskInv, DiskTypes, DiskWorld, K!catalogs
<1> HIDE DEF w
<1>5. volume' \in [Volumes -> {"none", "ours", "foreign"}]
  BY <1>1, <1>4
<1>6. \A v \in Volumes : volume[v] # "none" /\ volume'[v] = "none" => v = w /\ w \notin K!Mounted
  BY <1>1, <1>4
<1>7. DiskWorld'
  BY <1>1, <1>5 DEF DiskInv, DiskTypes, DiskWorld, K!catalogs
<1>8. DiskInv'
  BY <1>1, <1>2, <1>7, NothingTrue, DiskRequest
<1> QED
  BY <1>1, <1>2, <1>3, <1>6, <1>8 DEF K!CleanupStep

LEMMA DiskListStopped ==
    ASSUME DiskInv, NEW h \in Hosts, K!ListStopped(h) PROVE DiskInv' /\ K!CleanupStep
<1> DEFINE l == {c \in K!Live : cont[c].host = h /\ cont[c].ours /\ ~cont[c].running}
           r == [kind |-> "stopped", target |-> None, pc |-> "prune", left |-> l]
           s == [K!NoTruth EXCEPT !.stopped = l]
<1>1. req' = r /\ truth' = s /\ UNCHANGED <<hosts, K!world, env>>
  BY DEF K!ListStopped
<1>2. l \in SUBSET Containers /\ \A c \in l : cont[c].ours
  BY DEF K!Live
<1> HIDE DEF l
<1>3. s \in Truths /\ s.stopped = l
  BY <1>2, NothingTrue DEF Truths
<1>4. r \in StoppedRequests /\ r.left = l /\ r.kind = "stopped"
  BY <1>2 DEF StoppedRequests
<1> HIDE DEF r, s
<1>5. cont' = cont
  BY <1>1, DiskStill
<1>6. /\ ImagesRead(r, s, prov) /\ VolumesRead(r, s) /\ StoppedRead(r, s, cont)
      /\ r \in DiskRequests(hosts)
  BY <1>2, <1>3, <1>4 DEF ImagesRead, VolumesRead, StoppedRead, DiskRequests
<1>7. DiskInv'
  BY <1>1, <1>3, <1>5, <1>6, DiskStill, DiskRequest
<1> QED
  BY <1>1, <1>7, DiskStill, NothingRemoved

LEMMA DiskPruneStopped ==
    ASSUME DiskInv, NEW c \in Containers, K!PruneStopped(c) PROVE DiskInv' /\ K!CleanupStep
<1> DEFINE r == [req EXCEPT !.left = req.left \ {c}]
<1>1. /\ req.pc = "prune" /\ c \in req.left
      /\ (req' = K!Idle /\ truth' = K!NoTruth) \/ (req' = r /\ truth' = truth)
      /\ cont' = [cont EXCEPT ![c] = None]
      /\ hosts' = hosts /\ tagged' = tagged /\ volume' = volume /\ present' = present
      /\ UNCHANGED K!catalogs /\ prov' = prov /\ env' = env
  BY DEF K!PruneStopped, K!Gone, K!Goes
<1>2. /\ req \in StoppedRequests /\ truth \in Truths /\ StoppedRead(req, truth, cont)
      /\ cont \in [Containers -> {None} \cup ContainersOn(hosts)]
  BY <1>1, RequestKind DEF DiskInv, DiskTypes, DiskWorld, K!catalogs
<1>3. req.kind = "stopped" /\ req.left \subseteq Containers
  BY <1>2 DEF StoppedRequests
<1>4. /\ r \in StoppedRequests /\ r.kind = "stopped" /\ r.left = req.left \ {c}
  BY <1>2, <1>3 DEF StoppedRequests
<1> HIDE DEF r
<1>5. /\ cont' \in [Containers -> {None} \cup ContainersOn(hosts)]
      /\ \A d \in Containers \ {c} : cont'[d] = cont[d]
  BY <1>1, <1>2
<1>6. /\ ImagesRead(r, truth, prov) /\ VolumesRead(r, truth) /\ StoppedRead(r, truth, cont')
      /\ r \in DiskRequests(hosts)
  BY <1>2, <1>3, <1>4, <1>5 DEF ImagesRead, VolumesRead, StoppedRead, DiskRequests
<1>7. DiskWorld'
  BY <1>1, <1>5 DEF DiskInv, DiskTypes, DiskWorld, K!catalogs
<1>8. DiskInv'
  BY <1>1, <1>2, <1>6, <1>7, NothingTrue, DiskRequest
<1>9. \A d \in K!Live : cont'[d] = None => d = c
  BY <1>5 DEF K!Live
<1>10. ASSUME NEW d \in K!Live, cont'[d] = None PROVE d \in truth.stopped /\ cont[d].ours
  <2>1. d = c /\ cont[c] # None
    BY <1>9, <1>10 DEF K!Live
  <2> QED
    BY <1>1, <1>2, <1>3, <2>1 DEF StoppedRead
<1> QED
  BY <1>1, <1>8, <1>10 DEF K!CleanupStep

LEMMA DiskNext == ASSUME DiskInv, K!Next PROVE DiskInv' /\ K!CleanupStep
<1>1. CASE \E t \in Tags : K!PullStarts(t)
  BY <1>1, DiskPullStarts
<1>2. CASE \E h \in Hosts, t \in Tags, i \in Ids : K!PullLands(h, t, i)
  BY <1>2, DiskPullLands
<1>3. CASE \E c \in Containers, h \in Hosts, t \in Tags, v \in Volumes \cup {None} :
             K!Spawn(c, h, t, v)
  BY <1>3, DiskSpawn
<1>4. CASE \E c \in Containers, h \in Hosts, i \in Ids : K!Neighbour(c, h, i)
  BY <1>4, DiskNeighbour
<1>5. CASE \E c \in Containers : K!Exits(c) \/ K!PruneStopped(c) \/ K!RemoveContainer(c)
  BY <1>5, DiskExits, DiskPruneStopped, DiskRemoveContainer
<1>6. CASE K!SpecsChange \/ K!StartImages \/ K!ReadProvenance \/ K!Check
  BY <1>6, DiskSpecsChange, DiskStartImages, DiskReadProvenance, DiskCheck
<1>12. CASE \E C \in K!Listings : K!ReadCatalog(C) \/ K!NamedVolumes(C)
  BY <1>12, DiskReadCatalog, DiskNamedVolumes
<1>7. CASE \E H \in SUBSET Hosts : K!ListImages(H) \/ K!ReadRefs(H)
  BY <1>7, DiskListImages, DiskReadRefs
<1>8. CASE \E i \in Ids, h \in Hosts : K!RemoveImage(i, h)
  BY <1>8, DiskRemoveImage
<1>9. CASE \E h \in Hosts : K!Reclaim(h) \/ K!ListStopped(h)
  BY <1>9, DiskReclaim, DiskListStopped
<1>10. CASE \E v \in Volumes : K!CreateVolume(v) \/ K!ListMounts(v)
  BY <1>10, DiskCreateVolume, DiskListMounts
<1>11. CASE K!ListVolumes \/ K!RemoveVolume
  BY <1>11, DiskListVolumes, DiskRemoveVolume
<1> QED
  BY <1>1, <1>2, <1>3, <1>4, <1>5, <1>6, <1>7, <1>8, <1>9, <1>10, <1>11, <1>12
  DEF K!Next

LEMMA DiskIdles == ASSUME DiskInv, UNCHANGED K!vars PROVE DiskInv'
  BY DEF DiskInv, DiskTypes, DiskWorld, K!vars, K!world, K!catalogs

(* A request holds what it read, and what it may remove was not needed     *)
(* then (DiskCleanup: remove_image, prune_images, remove_volume,           *)
(* prune_stopped).                                                         *)
THEOREM DiskInvariance == K!Spec => []DiskInv
<1>1. DiskInv /\ [K!Next]_(K!vars) => DiskInv'
  BY DiskNext, DiskIdles
<1> QED
  BY <1>1, DiskInit, PTL DEF K!Spec

(* No image, volume or container goes that was needed when the request     *)
(* looked, unless it was misled about what the specs name; nor one that is *)
(* in use on its own host (DiskCleanup: remove_image, prune_images,        *)
(* remove_volume, prune_stopped).                                          *)
THEOREM CleanupIsJustified == K!Spec => CleanupJustified
<1>1. DiskInv /\ [K!Next]_(K!vars) => [K!CleanupStep]_(K!vars)
  BY DiskNext
<1> QED
  BY <1>1, DiskInvariance, PTL DEF K!Spec, CleanupJustified, K!CleanupJustified

-----------------------------------------------------------------------------
(* The whole.                                                              *)

\* The parts share no state: what is proved of each by itself holds of the
\* system they make up.
THEOREM EdgeParts == EdgeSpec => Spec /\ R!Spec /\ E!Spec /\ Q!Spec /\ G!Spec /\ K!Spec
<1>1. EdgeInit => Init /\ R!Init /\ E!Init /\ Q!Init /\ G!Init /\ K!Init
  BY DEF EdgeInit
<1>2. [EdgeNext]_edgeVars => [Next]_vars
  BY DEF EdgeNext, edgeVars
<1>3. [EdgeNext]_edgeVars => [R!Next]_(R!vars)
  <2>1. [EdgeNext]_edgeVars => R!Next \/ UNCHANGED limitsVars
    BY DEF EdgeNext, edgeVars
  <2>2. UNCHANGED limitsVars => UNCHANGED R!vars
    BY DEF limitsVars, R!vars
  <2> QED
    BY <2>1, <2>2
<1>4. [EdgeNext]_edgeVars => [E!Next]_(E!vars)
  <2>1. [EdgeNext]_edgeVars => E!Next \/ UNCHANGED alertsVars
    BY DEF EdgeNext, edgeVars
  <2>2. UNCHANGED alertsVars => UNCHANGED E!vars
    BY DEF alertsVars, E!vars
  <2> QED
    BY <2>1, <2>2
<1>5. [EdgeNext]_edgeVars => [Q!Next]_(Q!vars)
  <2>1. [EdgeNext]_edgeVars => Q!Next \/ UNCHANGED activityVars
    BY DEF EdgeNext, edgeVars
  <2>2. UNCHANGED activityVars => UNCHANGED Q!vars
    BY DEF activityVars, Q!vars
  <2> QED
    BY <2>1, <2>2
<1>6. [EdgeNext]_edgeVars => [G!Next]_(G!vars)
  <2>1. [EdgeNext]_edgeVars => G!Next \/ UNCHANGED bypassesVars
    BY DEF EdgeNext, edgeVars
  <2>2. UNCHANGED bypassesVars => UNCHANGED G!vars
    BY DEF bypassesVars, G!vars
  <2> QED
    BY <2>1, <2>2
<1>7. [EdgeNext]_edgeVars => [K!Next]_(K!vars)
  <2>1. [EdgeNext]_edgeVars => K!Next \/ UNCHANGED diskVars
    BY DEF EdgeNext, edgeVars
  <2>2. UNCHANGED diskVars => UNCHANGED K!vars
    BY DEF diskVars, K!vars, K!world, K!catalogs
  <2> QED
    BY <2>1, <2>2
<1> QED
  BY <1>1, <1>2, <1>3, <1>4, <1>5, <1>6, <1>7, PTL
     DEF EdgeSpec, Spec, R!Spec, E!Spec, Q!Spec, G!Spec, K!Spec

\* What the parts promise, of the system they make up: requests are judged by
\* a recent spec, the gauge of the APIs is sound, no limiter lets too much
\* through, every silence is accounted for, and cleanup is justified.
THEOREM EdgeHolds ==
    EdgeSpec => /\ CleanupJustified
                /\ [](RequestsJudged /\ InflightSound)
                /\ [](WindowRespected /\ SilenceAccounted)
<1>1. E!AlertsSpaced /\ Q!ActivityKept /\ G!SilenceVouchedFor => SilenceAccounted
  BY DEF SilenceAccounted
<1> QED
  BY <1>1, EdgeParts, CleanupIsJustified, RequestsAreJudged, InflightIsSound, WindowsHold,
     AlertsAreSpaced, ActivityIsKept, SilenceIsVouchedFor, PTL
=============================================================================
