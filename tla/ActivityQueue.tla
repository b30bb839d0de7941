---------------------------- MODULE ActivityQueue ----------------------------
(***************************************************************************)
(* The user-activity log: logins and first visits are queued without       *)
(* waiting, and one task writes them in batches, a transaction each. A     *)
(* visit's key is its session's id, and recurs: a cookie whose session was *)
(* swept opens it again. The database is external: an insert commits,      *)
(* fails, or commits and is reported as failed.                            *)
(***************************************************************************)
EXTENDS Naturals, Sequences, SequencesExt, FiniteSets

CONSTANTS
    QueueDepth, BatchMax, MaxAttempts,
    MaxEvents     \* bound on the events recorded

VARIABLES
    key,        \* the events so far: each one's key (the first event that had it)
    queue, buf, \* of numbers of events, as rows
    attempt,    \* failed inserts of buf
    rows,       \* user_activity, in id order
    dropped,    \* ActivitySink.dropped
    lost        \* events given up on after MaxAttempts

vars == <<key, queue, buf, attempt, rows, dropped, lost>>

Init == /\ key = <<>> /\ queue = <<>> /\ buf = <<>> /\ attempt = 0
        /\ rows = <<>> /\ dropped = {} /\ lost = {}

\* ActivitySink::record: try_send; the overflow is only counted.
Record(k) ==
    LET e == Len(key) + 1 IN
    /\ Len(key) < MaxEvents /\ key' = Append(key, k)
    /\ k = e \/ (k < e /\ key[k] = k)
    /\ IF Len(queue) < QueueDepth
       THEN queue' = Append(queue, e) /\ UNCHANGED dropped
       ELSE dropped' = dropped \cup {e} /\ UNCHANGED queue
    /\ UNCHANGED <<buf, attempt, rows, lost>>

\* recv_many takes what is there, at most BatchMax.
Receive ==
    LET n == IF Len(queue) < BatchMax THEN Len(queue) ELSE BatchMax IN
    /\ buf = <<>> /\ queue # <<>>
    /\ buf' = SubSeq(queue, 1, n) /\ queue' = SubSeq(queue, n + 1, Len(queue))
    /\ attempt' = 0
    /\ UNCHANGED <<key, rows, dropped, lost>>

\* insert_batch: ON CONFLICT (event_type, event_key) DO NOTHING.
Same(e, f) == key[e] = key[f]
Inserted(batch) ==
    LET new == {i \in 1..Len(batch) :
                  /\ \A f \in Range(rows) : ~Same(batch[i], f)
                  /\ \A j \in 1..(i - 1) : ~Same(batch[i], batch[j])}
        Nth(n) == CHOOSE i \in new : Cardinality({j \in new : j <= i}) = n
    IN  rows \o [n \in 1..Cardinality(new) |-> batch[Nth(n)]]
InsertOk ==
    /\ buf # <<>>
    /\ rows' = Inserted(buf) /\ buf' = <<>> /\ attempt' = 0
    /\ UNCHANGED <<key, queue, dropped, lost>>
GiveUp == attempt + 1 >= MaxAttempts
InsertFails(committed) ==
    /\ buf # <<>>
    /\ rows' = IF committed THEN Inserted(buf) ELSE rows
    /\ IF GiveUp
       THEN lost' = lost \cup Range(buf) /\ buf' = <<>> /\ attempt' = 0
       ELSE attempt' = attempt + 1 /\ UNCHANGED <<lost, buf>>
    /\ UNCHANGED <<key, queue, dropped>>

Drain == Receive \/ InsertOk \/ \E c \in BOOLEAN : InsertFails(c)
Next == (\E k \in 1..MaxEvents : Record(k)) \/ Drain
Spec == Init /\ [][Next]_vars

----------------------------------------------------------------------------
\* The table has one event of a key, and its events in the order they
\* happened, whatever is retried after a commit that was reported as failed;
\* and an event is stored, waiting, counted as dropped, or given up on. One
\* kind vanishes: a visit whose session's earlier visit is stored.
Repeats == {e \in 1..Len(key) : \E f \in Range(rows) : f < e /\ Same(e, f)}
ActivityKept ==
    /\ \A i, j \in 1..Len(rows) : i < j => rows[i] < rows[j] /\ ~Same(rows[i], rows[j])
    /\ 1..Len(key) = Repeats \cup Range(rows) \cup Range(queue) \cup Range(buf)
                     \cup dropped \cup lost
    /\ \A e \in Range(queue) \cup dropped : e \notin Range(rows)
=============================================================================
