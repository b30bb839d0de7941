--------------------------- MODULE AccessCounter ---------------------------
(***************************************************************************)
(* The in-memory access counter: requests bump (spec, day) buckets, the    *)
(* drain task and the final flush of a shutdown write them to the database *)
(* one UPSERT per bucket. A flush takes the whole buffer first, then       *)
(* awaits each write; requests and the other flusher run in between.       *)
(***************************************************************************)
EXTENDS Naturals, FiniteSets, TLAPS

CONSTANTS
    Keys,        \* (spec_id, day) buckets
    MaxKeys,     \* MAX_PENDING_KEYS
    MaxBumps,    \* bound on accesses per bucket
    MaxFailures  \* bound on failed writes

ASSUME ConstantsAssumption ==
    /\ IsFiniteSet(Keys)
    /\ MaxKeys \in Nat /\ MaxBumps \in Nat /\ MaxFailures \in Nat

VARIABLES
    pending,        \* the buffer; 0 is "no entry"
    batch,          \* per flusher: deltas taken and not yet written
    db,             \* table spec_access
    dropped,        \* increments refused by the backstop
    flush_failures,
    phase,          \* "serving", "final" flush due, "flushing" it, "over"
    bumps,          \* history: accesses per bucket
    repeated        \* history: deltas written, reported failed, kept

vars == <<pending, batch, db, dropped, flush_failures, phase, bumps, repeated>>

Flushers == {"drain", "final"}
Nothing  == [k \in Keys |-> 0]

TypeOK ==
    /\ pending \in [Keys -> Nat] /\ db \in [Keys -> Nat]
    /\ batch \in [Flushers -> [Keys -> Nat]]
    /\ dropped \in [Keys -> Nat]
    /\ bumps \in [Keys -> 0..MaxBumps]
    /\ repeated \in [Keys -> Nat]
    /\ flush_failures \in 0..MaxFailures
    /\ phase \in {"serving", "final", "flushing", "over"}

(* The buckets a map holds.                                                *)
Buckets(m) == {k \in Keys : m[k] > 0}

Init ==
    /\ pending = Nothing /\ batch = [f \in Flushers |-> Nothing]
    /\ db = Nothing /\ dropped = Nothing
    /\ flush_failures = 0 /\ phase = "serving"
    /\ bumps = Nothing /\ repeated = Nothing

bump(k) ==
    /\ phase = "serving"
    /\ bumps[k] < MaxBumps
    /\ bumps' = [bumps EXCEPT ![k] = @ + 1]
    /\ IF Cardinality(Buckets(pending)) >= MaxKeys /\ pending[k] = 0
       THEN dropped' = [dropped EXCEPT ![k] = @ + 1] /\ UNCHANGED pending
       ELSE pending' = [pending EXCEPT ![k] = @ + 1] /\ UNCHANGED dropped
    /\ UNCHANGED <<batch, db, flush_failures, phase, repeated>>

(* Mutant: the drain task gives up after a failed flush.                   *)
FlushTakeGivesUp(f) ==
    /\ \/ f = "drain" /\ phase # "over" /\ pending # Nothing /\ UNCHANGED phase
            /\ flush_failures = 0
       \/ f = "final" /\ phase = "final" /\ phase' = "flushing"
    /\ batch[f] = Nothing
    /\ batch' = [batch EXCEPT ![f] = pending]
    /\ pending' = Nothing
    /\ UNCHANGED <<db, dropped, flush_failures, bumps, repeated>>

(* flush, first step: the drain task takes a non-empty buffer whenever it  *)
(* wakes up; the final flush runs once, after the last request.            *)
FlushTake(f) ==
    /\ \/ f = "drain" /\ phase # "over" /\ pending # Nothing /\ UNCHANGED phase
       \/ f = "final" /\ phase = "final" /\ phase' = "flushing"
    /\ batch[f] = Nothing
    /\ batch' = [batch EXCEPT ![f] = pending]
    /\ pending' = Nothing
    /\ UNCHANGED <<db, dropped, flush_failures, bumps, repeated>>

(* Mutant: the upsert overwrites the bucket.                               *)
OverwriteDelta(k, delta) == db' = [db EXCEPT ![k] = delta]

record_delta(k, delta) == db' = [db EXCEPT ![k] = @ + delta]

FlushWrite(f, k) ==
    /\ phase # "over" /\ batch[f][k] > 0
    /\ record_delta(k, batch[f][k])
    /\ batch' = [batch EXCEPT ![f][k] = 0]
    /\ UNCHANGED <<pending, dropped, flush_failures, phase, bumps, repeated>>

merge_back(f) == pending' = [k \in Keys |-> pending[k] + batch[f][k]]

(* A write returns an error: the failed bucket and every bucket not        *)
(* attempted go back; the final flush does not try again. The error may    *)
(* come after the commit (a connection lost before the answer).            *)
FlushError(f, k) ==
    /\ phase # "over" /\ batch[f][k] > 0
    /\ flush_failures < MaxFailures /\ flush_failures' = flush_failures + 1
    /\ \/ UNCHANGED <<db, repeated>>
       \/ /\ record_delta(k, batch[f][k])
          /\ repeated' = [repeated EXCEPT ![k] = @ + batch[f][k]]
    /\ merge_back(f)
    /\ batch' = [batch EXCEPT ![f] = Nothing]
    /\ phase' = IF f = "final" THEN "over" ELSE phase
    /\ UNCHANGED <<dropped, bumps>>

(* axum::serve returned: no request is left.                               *)
Shutdown ==
    /\ phase = "serving" /\ phase' = "final"
    /\ UNCHANGED <<pending, batch, db, dropped, flush_failures, bumps, repeated>>

(* The final flush has written what it took: run returns, the process ends. *)
FinalDone ==
    /\ phase = "flushing" /\ batch["final"] = Nothing
    /\ phase' = "over"
    /\ UNCHANGED <<pending, batch, db, dropped, flush_failures, bumps, repeated>>

(* The final flush timed out, or the watchdog or a crash ended the process. *)
Die ==
    /\ phase # "over" /\ phase' = "over"
    /\ UNCHANGED <<pending, batch, db, dropped, flush_failures, bumps, repeated>>

FlushStep(f) == FlushTake(f) \/ \E k \in Keys : FlushWrite(f, k) \/ FlushError(f, k)

Next ==
    \/ \E k \in Keys : bump(k)
    \/ \E f \in Flushers : FlushStep(f)
    \/ Shutdown \/ FinalDone \/ Die

Spec == Init /\ [][Next]_vars

(* The drain task is supervised by nobody else: it sleeps and flushes.     *)
FairSpec == Spec /\ WF_vars(FlushStep("drain"))

-----------------------------------------------------------------------------
(* Properties.                                                             *)

(* Every access is in exactly one place: the table, the buffer, a batch in *)
(* flight or the dropped count; the only surplus is a delta whose commit   *)
(* was reported as an error ("nothing is silently lost while the process   *)
(* lives"), through concurrent flushes, failures in mid-batch and bumps    *)
(* that arrive meanwhile.                                                  *)
Conservation ==
    \A k \in Keys :
        bumps[k] + repeated[k] = db[k] + pending[k] + batch["drain"][k]
                                   + batch["final"][k] + dropped[k]

(* An access that is buffered reaches the table unless the process ends    *)
(* first, although every failure puts it back.                             *)
EventuallyPersisted ==
    \A k \in Keys : pending[k] > 0
        ~> (phase = "over" \/ (pending[k] = 0 /\ batch["drain"][k] = 0))

(* lib.rs, AdminServer::run: at the final flush "in-flight requests have   *)
(* finished, so their bumps are in the buffer" - once it is through, every *)
(* access that was not dropped is in the table.                            *)
FinalFlushComplete ==
    [][FinalDone => \A k \in Keys : db[k] + dropped[k] >= bumps[k]]_vars

-----------------------------------------------------------------------------
(* Conservation, proved for any set of buckets and any bounds.             *)

(* Conservation is inductive together with the types of the maps it adds.  *)
IInv == TypeOK /\ Conservation

(* A step preserves the types: no delta ever becomes negative.             *)
LEMMA NextTypeOK == TypeOK /\ Next => TypeOK'
<1> SUFFICES ASSUME TypeOK, Next PROVE TypeOK'
  OBVIOUS
<1> USE ConstantsAssumption DEF TypeOK, Flushers, Nothing
<1>1. ASSUME NEW k \in Keys, bump(k) PROVE TypeOK'
  BY <1>1 DEF bump
<1>2. ASSUME NEW f \in Flushers, FlushTake(f) PROVE TypeOK'
  BY <1>2 DEF FlushTake
<1>3. ASSUME NEW f \in Flushers, NEW k \in Keys, FlushWrite(f, k) PROVE TypeOK'
  BY <1>3 DEF FlushWrite, record_delta
<1>4. ASSUME NEW f \in Flushers, NEW k \in Keys, FlushError(f, k) PROVE TypeOK'
  BY <1>4 DEF FlushError, record_delta, merge_back
<1>5. ASSUME Shutdown \/ FinalDone \/ Die PROVE TypeOK'
  BY <1>5 DEF Shutdown, FinalDone, Die
<1> QED
  BY <1>1, <1>2, <1>3, <1>4, <1>5 DEF Next, FlushStep

(* A step moves each bucket's accesses from one place to another.          *)
LEMMA NextConservation == TypeOK /\ Conservation /\ Next => Conservation'
<1> SUFFICES ASSUME TypeOK, Conservation, Next, NEW x \in Keys
             PROVE  bumps'[x] + repeated'[x]
                      = db'[x] + pending'[x] + batch'["drain"][x]
                          + batch'["final"][x] + dropped'[x]
  BY DEF Conservation
<1> DEFINE Balance == bumps'[x] + repeated'[x]
                        = db'[x] + pending'[x] + batch'["drain"][x]
                            + batch'["final"][x] + dropped'[x]
<1> USE DEF TypeOK, Conservation, Flushers, Nothing
<1>1. ASSUME NEW k \in Keys, bump(k) PROVE Balance
  <2> USE <1>1 DEF bump
  <2>1. /\ bumps'[x] = bumps[x] + (IF x = k THEN 1 ELSE 0)
        /\ repeated' = repeated /\ db' = db /\ batch' = batch
    OBVIOUS
  <2>2. CASE dropped' = [dropped EXCEPT ![k] = @ + 1] /\ UNCHANGED pending
    BY <2>1, <2>2
  <2>3. CASE pending' = [pending EXCEPT ![k] = @ + 1] /\ UNCHANGED dropped
    BY <2>1, <2>3
  <2> QED
    BY <2>2, <2>3
<1>2. ASSUME NEW f \in Flushers, FlushTake(f) PROVE Balance
  <2> USE <1>2 DEF FlushTake
  <2>1. batch[f][x] = 0 /\ batch'[f][x] = pending[x] /\ pending'[x] = 0
    OBVIOUS
  <2>2. \A g \in Flushers \ {f} : batch'[g][x] = batch[g][x]
    OBVIOUS
  <2> QED
    BY <2>1, <2>2
<1>3. ASSUME NEW f \in Flushers, NEW k \in Keys, FlushWrite(f, k) PROVE Balance
  <2> USE <1>3 DEF FlushWrite, record_delta
  <2>1. CASE x # k
    <3>1. \A g \in Flushers : batch'[g][x] = batch[g][x]
      BY <2>1
    <3>2. db'[x] = db[x]
      BY <2>1
    <3> QED
      BY <3>1, <3>2
  <2>2. CASE x = k
    <3>1. batch'[f][x] = 0 /\ \A g \in Flushers \ {f} : batch'[g][x] = batch[g][x]
      BY <2>2
    <3>2. db'[x] = db[x] + batch[f][x]
      BY <2>2
    <3> QED
      BY <3>1, <3>2
  <2> QED
    BY <2>1, <2>2
<1>4. ASSUME NEW f \in Flushers, NEW k \in Keys, FlushError(f, k) PROVE Balance
  <2>1. batch'[f][x] = 0 /\ \A g \in Flushers \ {f} : batch'[g][x] = batch[g][x]
    BY <1>4 DEF FlushError
  <2>2. pending'[x] = pending[x] + batch[f][x]
    BY <1>4 DEF FlushError, merge_back
  <2>3. \/ db'[x] = db[x] /\ repeated'[x] = repeated[x]
        \/ db'[x] = db[x] + batch[f][x] /\ repeated'[x] = repeated[x] + batch[f][x]
    BY <1>4 DEF FlushError, record_delta
  <2>4. bumps'[x] = bumps[x] /\ dropped'[x] = dropped[x]
    BY <1>4 DEF FlushError
  <2>5. /\ batch[f][x] \in Nat /\ db[x] \in Nat /\ repeated[x] \in Nat
        /\ pending[x] \in Nat /\ bumps[x] \in Nat /\ dropped[x] \in Nat
        /\ batch["drain"][x] \in Nat /\ batch["final"][x] \in Nat
        /\ bumps[x] + repeated[x] = db[x] + pending[x] + batch["drain"][x]
                                       + batch["final"][x] + dropped[x]
    OBVIOUS
  <2> HIDE DEF TypeOK, Conservation, Nothing
  <2>6. CASE f = "drain"
    <3>1. batch'["drain"][x] = 0 /\ batch'["final"][x] = batch["final"][x]
      BY <2>1, <2>6
    <3> QED
      BY <2>2, <2>3, <2>4, <2>5, <2>6, <3>1
  <2>7. CASE f = "final"
    <3>1. batch'["final"][x] = 0 /\ batch'["drain"][x] = batch["drain"][x]
      BY <2>1, <2>7
    <3> QED
      BY <2>2, <2>3, <2>4, <2>5, <2>7, <3>1
  <2> QED
    BY <2>6, <2>7 DEF Flushers
<1>5. ASSUME Shutdown \/ FinalDone \/ Die PROVE Balance
  BY <1>5 DEF Shutdown, FinalDone, Die
<1> QED
  BY <1>1, <1>2, <1>3, <1>4, <1>5 DEF Next, FlushStep

(* "Nothing is silently lost while the process lives": every access is in  *)
(* the table, the buffer, a batch in flight or the dropped count, for any  *)
(* catalog, any number of failed writes and both flushers at work.         *)
THEOREM AccessesConserved == Spec => []Conservation
<1>1. Init => IInv
  BY ConstantsAssumption DEF Init, IInv, TypeOK, Conservation, Flushers, Nothing
<1>2. IInv /\ UNCHANGED vars => IInv'
  BY DEF IInv, TypeOK, Conservation, vars
<1>3. IInv /\ [Next]_vars => IInv'
  BY <1>2, NextTypeOK, NextConservation DEF IInv
<1>4. IInv => Conservation
  BY DEF IInv
<1> QED
  BY <1>1, <1>3, <1>4, PTL DEF Spec
=============================================================================
