---------------------------- MODULE SharedLogins ----------------------------
(***************************************************************************)
(* PostgresAdminSessionStore: sign-in sessions in a shared table, with a   *)
(* cache of answers in every node.  Each operation is split at its         *)
(* statements: create, validate, remove and revoke_by_actor of several     *)
(* nodes interleave, and statements fail.  Every session belongs to one    *)
(* actor.  Time is discrete and the same for all nodes.                    *)
(***************************************************************************)
EXTENDS Naturals, FiniteSets

CONSTANTS
    Nodes, Sessions,
    Tasks,          \* concurrent operations
    CacheTtl,       \* cache_ttl
    Lifetime,       \* ttl: a session's life
    MaxTime, MaxFaults,
    None

ASSUME LoginsAssumption ==
    {CacheTtl, Lifetime, MaxTime, MaxFaults} \subseteq Nat /\ None \notin Sessions

VARIABLES
    now,
    row,        \* admin_sessions: session -> in the table
    expires,    \* session -> expires_at
    cache,      \* node -> session -> None or [info, until]
    op,         \* task -> the operation it runs
    faults,
    made,       \* history: sessions that were handed out
    goneFor,    \* history: time since a handed-out session left the table
    honoured    \* the last answer of validate

vars == <<now, row, expires, cache, op, faults, made, goneFor, honoured>>

Idle == [pc |-> "idle", node |-> None, sess |-> None, start |-> 0]
Is(t, pc) == op[t].pc = pc
Begin(t, pc, n, s) == [op EXCEPT ![t] = [pc |-> pc, node |-> n, sess |-> s, start |-> now]]
Goto(t, pc) == [op EXCEPT ![t].pc = pc]
Done(t) == [op EXCEPT ![t] = Idle]
Fault == faults < MaxFaults /\ faults' = faults + 1
Smaller(a, b) == IF a < b THEN a ELSE b

Init ==
    /\ now = 0
    /\ row = [s \in Sessions |-> FALSE]
    /\ expires = [s \in Sessions |-> Lifetime]
    /\ cache = [n \in Nodes |-> [s \in Sessions |-> None]]
    /\ op = [t \in Tasks |-> Idle]
    /\ faults = 0
    /\ made = {} /\ goneFor = [s \in Sessions |-> 0] /\ honoured = {}

Cached(n, s, info, until) == [cache EXCEPT ![n][s] = [info |-> info, until |-> until]]

(* A positive answer is not kept past the expiry of its row.               *)
clip_to_expiry(until, s) == Smaller(until, expires[s])

-----------------------------------------------------------------------------
(* create: the row is inserted; the cache is filled whether or not that    *)
(* worked, and the id handed out.                                          *)
Insert(t, n, s) ==
    /\ s \notin made /\ ~row[s] /\ \A u \in Tasks : op[u].sess # s
    /\ expires' = [expires EXCEPT ![s] = now + Lifetime]
    /\ \/ row' = [row EXCEPT ![s] = TRUE] /\ UNCHANGED faults
       \/ Fault /\ UNCHANGED row
    /\ op' = Begin(t, "created", n, s)
    /\ UNCHANGED <<now, cache, made, goneFor, honoured>>

Created(t) ==
    LET n == op[t].node  s == op[t].sess IN
    /\ Is(t, "created")
    /\ cache' = Cached(n, s, TRUE, clip_to_expiry(now + CacheTtl, s))
    /\ made' = made \cup {s}
    /\ op' = Done(t)
    /\ UNCHANGED <<now, row, expires, faults, goneFor, honoured>>

(* validate: a fresh entry of the cache answers.                           *)
Fresh(n, s) == cache[n][s] # None /\ cache[n][s].until > now

Validate(t, n, s) ==
    /\ s \in made
    /\ IF Fresh(n, s)
       THEN /\ honoured' = IF cache[n][s].info THEN {s} ELSE {}
            /\ UNCHANGED op
       ELSE op' = Begin(t, "select", n, s) /\ UNCHANGED honoured
    /\ UNCHANGED <<now, row, expires, cache, faults, made, goneFor>>

(* Otherwise the table does.  The answer counts from the read.             *)
Select(t) ==
    LET s == op[t].sess  live == row[s] /\ expires[s] > now IN
    /\ Is(t, "select")
    /\ honoured' = IF live THEN {s} ELSE {}
    /\ op' = Goto(t, IF live THEN "yes" ELSE IF row[s] THEN "expired" ELSE "no")
    /\ UNCHANGED <<now, row, expires, cache, faults, made, goneFor>>

(* An expired row is deleted, if that works.                               *)
DeleteExpired(t) ==
    /\ Is(t, "expired")
    /\ \/ row' = [row EXCEPT ![op[t].sess] = FALSE] /\ UNCHANGED faults
       \/ Fault /\ UNCHANGED row
    /\ op' = Goto(t, "no")
    /\ UNCHANGED <<now, expires, cache, made, goneFor, honoured>>

SelectFails(t) ==
    /\ Is(t, "select") /\ Fault
    /\ honoured' = {}
    /\ op' = Done(t)
    /\ UNCHANGED <<now, row, expires, cache, made, goneFor>>

(* Mutant: the answer's lifetime starts when it is cached.                 *)
Fill_Now(t) ==
    LET n == op[t].node  s == op[t].sess IN
    /\ op[t].pc \in {"yes", "no"}
    /\ cache' = IF Is(t, "yes") THEN Cached(n, s, TRUE, clip_to_expiry(now + CacheTtl, s))
                ELSE Cached(n, s, FALSE, now + CacheTtl)
    /\ op' = Done(t)
    /\ UNCHANGED <<now, row, expires, faults, made, goneFor, honoured>>

(* The answer is cached from the time validate began.                      *)
Fill(t) ==
    LET n == op[t].node  s == op[t].sess  until == op[t].start + CacheTtl IN
    /\ op[t].pc \in {"yes", "no"}
    /\ cache' = IF Is(t, "yes") THEN Cached(n, s, TRUE, clip_to_expiry(until, s))
                ELSE Cached(n, s, FALSE, until)
    /\ op' = Done(t)
    /\ UNCHANGED <<now, row, expires, faults, made, goneFor, honoured>>

(* Every SWEEP_EVERY validates: entries past their time are dropped.       *)
SweepCache(n) ==
    /\ \E s \in Sessions : cache[n][s] # None /\ ~Fresh(n, s)
    /\ cache' = [cache EXCEPT ![n] = [s \in Sessions |-> IF Fresh(n, s) THEN @[s] ELSE None]]
    /\ UNCHANGED <<now, row, expires, op, faults, made, goneFor, honoured>>

(* remove: the row is deleted, or not (a failure is only logged); this     *)
(* node's cache refuses the session for one lifetime of an entry either    *)
(* way.  After that a row that survived is honoured again, here as well.   *)
Delete(t, n, s) ==
    /\ s \in made
    /\ \/ row' = [row EXCEPT ![s] = FALSE] /\ UNCHANGED faults
       \/ Fault /\ UNCHANGED row
    /\ op' = Begin(t, "removed", n, s)
    /\ UNCHANGED <<now, expires, cache, made, goneFor, honoured>>

Removed(t) ==
    /\ Is(t, "removed")
    /\ cache' = Cached(op[t].node, op[t].sess, FALSE, now + CacheTtl)
    /\ op' = Done(t)
    /\ UNCHANGED <<now, row, expires, faults, made, goneFor, honoured>>

(* revoke_by_actor: all rows of the actor go, or none (a failure is only   *)
(* logged), then this node's positive entries.                             *)
DeleteByActor(t, n) ==
    /\ \/ row' = [s \in Sessions |-> FALSE] /\ UNCHANGED faults
       \/ Fault /\ UNCHANGED row
    /\ op' = Begin(t, "revoked", n, None)
    /\ UNCHANGED <<now, expires, cache, made, goneFor, honoured>>

Revoked(t) ==
    LET n == op[t].node IN
    /\ Is(t, "revoked")
    /\ cache' = [cache EXCEPT ![n] = [s \in Sessions |->
                    IF @[s] # None /\ @[s].info THEN None ELSE @[s]]]
    /\ op' = Done(t)
    /\ UNCHANGED <<now, row, expires, faults, made, goneFor, honoured>>

Tick ==
    /\ now < MaxTime
    /\ now' = now + 1
    /\ goneFor' = [s \in Sessions |-> IF s \in made /\ ~row[s]
                                      THEN Smaller(goneFor[s] + 1, CacheTtl) ELSE goneFor[s]]
    /\ UNCHANGED <<row, expires, cache, op, faults, made, honoured>>

Step(t) ==
    \/ Created(t) \/ Select(t) \/ SelectFails(t) \/ DeleteExpired(t) \/ Fill(t)
    \/ Removed(t) \/ Revoked(t)
Start(t, n) ==
    \/ DeleteByActor(t, n)
    \/ \E s \in Sessions : Insert(t, n, s) \/ Validate(t, n, s) \/ Delete(t, n, s)
IdleTasks == {t \in Tasks : Is(t, "idle")}
Next ==
    \/ Tick
    \/ \E n \in Nodes : SweepCache(n)
    \/ \E t \in Tasks : Step(t)
    \/ \E t \in IdleTasks, n \in Nodes : Start(t, n)
Spec == Init /\ [][Next]_vars

-----------------------------------------------------------------------------
(* The store implements SignIn: a session begins when it is handed out,    *)
(* is live while it has a row, and ends with it, not with the request to   *)
(* log out: one whose DELETE failed has ended nothing.                     *)
Phase(s) == IF s \notin made THEN "none" ELSE IF row[s] THEN "live" ELSE "ended"
Left(s) == IF expires[s] > now THEN expires[s] - now ELSE 0
Store == INSTANCE SignIn WITH
    Grace <- CacheTtl,
    phase <- [s \in Sessions |-> Phase(s)],
    ended <- goneFor,
    left <- [s \in Sessions |-> IF s \in made THEN Left(s) ELSE Lifetime],
    honoured <- honoured

(* A session whose row is gone (a logout or a revocation that reached the  *)
(* table, an expiry) is refused everywhere within one cache window, and    *)
(* none is honoured past its expiry, whatever nodes, caches and failing    *)
(* statements do.  A logout or a revocation whose DELETE fails is not      *)
(* covered: its session stays live in SignIn, as it does in the code.      *)
ImplementsSignIn == Store!Spec
=============================================================================
