------------------------------ MODULE Limiters ------------------------------
(***************************************************************************)
(* The three sliding-window limiters. "api" counts admitted requests per   *)
(* client and sweeps idle clients now and then; "login" counts failures of *)
(* all logins together, checked before the password is and recorded after; *)
(* "confirm" reserves an attempt per user before a code or a password is   *)
(* verified. Each reads the clock before it takes its lock, so by the time *)
(* a request is counted its stamp is up to Skew ticks old.                 *)
(***************************************************************************)
EXTENDS Naturals, FiniteSets, Sequences, SequencesExt

CONSTANTS
    Clients, Tasks,
    Limit,        \* RatePolicy.max, LoginRateLimiter.max, ConfirmRateLimiter.max
    Window,       \* their window, in ticks
    SweepEvery,   \* checks between two sweeps of the API limiter
    Skew,         \* ticks a task may spend between its clock and the lock
    MaxTime       \* bound on the clock

VARIABLES
    kind,     \* which limiter this is
    now,
    hits,     \* windows, failures, attempts: the stamps of each key
    since,    \* checks since the last sweep
    task,     \* [Tasks -> what a request is doing]
    passed    \* per key, the stamps let through (login: the failures)

vars == <<kind, now, hits, since, task, passed>>

Idle == [pc |-> "idle"]
Kinds == {"api", "login", "confirm"}
\* The login limiter is global; the others have an entry per client.
KeyOf(c) == IF kind = "login" THEN CHOOSE k \in Clients : TRUE ELSE c

Init ==
    /\ kind \in Kinds /\ now = 1
    /\ hits = [c \in Clients |-> <<>>] /\ since = 0
    /\ task = [t \in Tasks |-> Idle]
    /\ passed = [c \in Clients |-> <<>>]

Go(t, rec) == task' = [task EXCEPT ![t] = rec]
\* duration_since saturates: a stamp from the future has no age.
Age(at, stamp) == IF stamp > at THEN 0 ELSE at - stamp
\* while front is older than the window { pop_front }
Pruned(q, at) ==
    LET live == {i \in 1..Len(q) : Age(at, q[i]) <= Window}
    IN  IF live = {} THEN <<>>
        ELSE SubSeq(q, CHOOSE i \in live : \A j \in live : i <= j, Len(q))

Tick ==
    /\ now < MaxTime
    /\ \A t \in Tasks : task[t].pc \in {"stamped", "swept"} => now - task[t].at < Skew
    /\ now' = now + 1
    /\ UNCHANGED <<kind, hits, since, task, passed>>

Stamp(t, c) ==
    /\ task[t] = Idle
    /\ Go(t, [pc |-> "stamped", client |-> c, at |-> now])
    /\ UNCHANGED <<kind, now, hits, since, passed>>

----------------------------------------------------------------------------
(***************************************************************************)
(* ApiRateLimiter::check                                                   *)
(***************************************************************************)
Dropped(q, at) == q # <<>> /\ Age(at, Last(q)) > Window
CountCheck(t) ==
    /\ kind = "api" /\ task[t].pc = "stamped"
    /\ IF since + 1 >= SweepEvery
       THEN /\ since' = 0
            /\ hits' = [c \in Clients |-> IF Dropped(hits[c], task[t].at)
                                          THEN <<>> ELSE hits[c]]
       ELSE since' = since + 1 /\ UNCHANGED hits
    /\ Go(t, [task[t] EXCEPT !.pc = "swept"])
    /\ UNCHANGED <<kind, now, passed>>
Full_Over(q) == Len(q) > Limit
Full(q) == Len(q) >= Limit
Decide(t) ==
    LET c == task[t].client
        q == Pruned(hits[c], task[t].at) IN
    /\ kind = "api" /\ task[t].pc = "swept"
    /\ IF Full(q) THEN hits' = [hits EXCEPT ![c] = q] /\ UNCHANGED passed
       ELSE /\ hits' = [hits EXCEPT ![c] = Append(q, task[t].at)]
            /\ passed' = [passed EXCEPT ![c] = Append(@, task[t].at)]
    /\ Go(t, Idle)
    /\ UNCHANGED <<kind, now, since>>

(***************************************************************************)
(* LoginRateLimiter: allow, then the password check, then the outcome.     *)
(***************************************************************************)
Allow(t) ==
    LET k == KeyOf(task[t].client)
        q == Pruned(hits[k], task[t].at) IN
    /\ kind = "login" /\ task[t].pc = "stamped"
    /\ hits' = [hits EXCEPT ![k] = q]
    /\ Go(t, IF Full(q) THEN Idle ELSE [task[t] EXCEPT !.pc = "verify", !.at = 0])
    /\ UNCHANGED <<kind, now, since, passed>>
RecordFailure(t) ==
    LET k == KeyOf(task[t].client) IN
    /\ kind = "login" /\ task[t].pc = "verify"
    /\ hits' = [hits EXCEPT ![k] = Append(@, now)]
    /\ passed' = [passed EXCEPT ![k] = Append(@, now)]
    /\ Go(t, Idle)
    /\ UNCHANGED <<kind, now, since>>

(***************************************************************************)
(* ConfirmRateLimiter: try_reserve under one lock, then the verification.  *)
(***************************************************************************)
Reserved(q, at) == Append(q, at)
TryReserve(t) ==
    LET c == task[t].client
        q == Pruned(hits[c], task[t].at) IN
    /\ kind = "confirm" /\ task[t].pc = "stamped"
    /\ IF Full(q) THEN /\ hits' = [hits EXCEPT ![c] = q] /\ Go(t, Idle)
                       /\ UNCHANGED passed
       ELSE /\ hits' = [hits EXCEPT ![c] = Reserved(q, task[t].at)]
            /\ passed' = [passed EXCEPT ![c] = Append(@, task[t].at)]
            /\ Go(t, [task[t] EXCEPT !.pc = "verify", !.at = 0])
    /\ UNCHANGED <<kind, now, since>>
VerifyFails(t) ==
    /\ kind = "confirm" /\ task[t].pc = "verify" /\ Go(t, Idle)
    /\ UNCHANGED <<kind, now, hits, since, passed>>
\* record_success of both: the history of the key is forgotten.
RecordSuccess(t) ==
    LET k == KeyOf(task[t].client) IN
    /\ kind # "api" /\ task[t].pc = "verify"
    /\ hits' = [hits EXCEPT ![k] = <<>>] /\ passed' = [passed EXCEPT ![k] = <<>>]
    /\ Go(t, Idle)
    /\ UNCHANGED <<kind, now, since>>

Next ==
    \/ Tick
    \/ \E t \in Tasks :
        \/ \E c \in Clients : Stamp(t, c)
        \/ CountCheck(t) \/ Decide(t) \/ Allow(t) \/ RecordFailure(t)
        \/ TryReserve(t) \/ VerifyFails(t) \/ RecordSuccess(t)
Spec == Init /\ [][Next]_vars

----------------------------------------------------------------------------
\* How much of the window the stamps' age can cost: an idle entry is judged
\* by its last stamp, which need not be its newest.
Slack == CASE kind = "api" -> 2 * Skew [] kind = "confirm" -> Skew [] OTHER -> 0
\* What slips through besides the limit: logins in flight at the check.
Overshoot == IF kind = "login" THEN Cardinality(Tasks) - 1 ELSE 0

\* No interval of a window, less what the skew costs, lets more than the
\* limit through for a key since its last success, whatever the order in
\* which stamped requests reach the lock and whatever a sweep forgets; the
\* login limiter, which counts after the fact, adds the attempts in flight.
WindowRespected ==
    \A c \in Clients : \A x \in 1..now :
        Cardinality({i \in 1..Len(passed[c]) :
                       passed[c][i] \in x..(x + Window - Slack)}) <= Limit + Overshoot
=============================================================================
