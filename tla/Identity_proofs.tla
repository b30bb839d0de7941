--------------------------- MODULE Identity_proofs ---------------------------
(***************************************************************************)
(* Who somebody is, for any accounts, sessions, browsers, nodes, requests  *)
(* and boot states the assumptions allow. Three parts, each with its own   *)
(* inductive invariant:                                                    *)
(*                                                                         *)
(* - LoginInv, the shared store of sign-in sessions, which implements its  *)
(*   contract SignIn. A positive answer kept by a node rests on a read of  *)
(*   the row no older than the entry allows: the time the row has been     *)
(*   gone, added to the time the entry still has, is never more than one   *)
(*   cache lifetime, and the entry is clipped to the row's expiry.         *)
(* - FactorInv, the second factor. A secret and a set of codes belong to   *)
(*   one account; what a request has read of a factor is of no later epoch *)
(*   than the factor's, and every revocation moves the epoch or the secret.*)
(* - PanelInv, the accounts. A cached list of groups is of an old          *)
(*   generation, or fits the account, or a handler that will invalidate it *)
(*   is under way; a session fits its account, or one that will revoke it  *)
(*   is, or it is one of the races it is excused for.                      *)
(***************************************************************************)
EXTENDS Identity, TLAPS, FiniteSetTheorems

-----------------------------------------------------------------------------
(***************************************************************************)
(* The shared sign-in sessions.                                            *)
(***************************************************************************)
Entries == [info : BOOLEAN, until : Nat]
Steps   == {"idle", "created", "select", "yes", "no", "expired", "removed", "revoked"}
Ops     == [pc : Steps, node : Nodes \cup {None}, sess : Sessions \cup {None}, start : Nat]

(* What the variables hold.                                                *)
LoginTypes ==
    /\ now \in Nat /\ faults \in Nat
    /\ row \in [Sessions -> BOOLEAN]
    /\ expires \in [Sessions -> Nat]
    /\ cache \in [Nodes -> [Sessions -> Entries \cup {None}]]
    /\ op \in [Tasks -> Ops]
    /\ made \subseteq Sessions
    /\ goneFor \in [Sessions -> 0..CacheTtl]

(* An operation knows its node and its session; only one that creates a    *)
(* session has one that was not handed out, and has it alone.              *)
OpsKnow ==
    \A t \in Tasks :
        /\ op[t].pc # "idle" => op[t].node \in Nodes
        /\ op[t].start <= now
        /\ op[t].pc \in {"select", "yes", "no", "expired", "removed"} => op[t].sess \in made
        /\ op[t].pc = "created" => /\ op[t].sess \in Sessions \ made
                                   /\ \A u \in Tasks \ {t} : op[u].sess # op[t].sess

(* Rows expire within a lifetime, and leave the table once.                *)
RowsAge ==
    \A s \in Sessions :
        /\ expires[s] <= now + Lifetime
        /\ row[s] \/ s \notin made => goneFor[s] = 0

(* A read that found the row is older than the row's end.                  *)
ReadsRecent ==
    \A t \in Tasks : op[t].pc = "yes" => op[t].start + goneFor[op[t].sess] <= now

Vouches(e, s) == /\ s \in made
                 /\ e.until <= expires[s]
                 /\ e.until + goneFor[s] <= now + CacheTtl

(* A positive entry is clipped to the row's expiry and runs out at most a  *)
(* cache lifetime after the row's end.                                     *)
EntriesVouch ==
    \A n \in Nodes, s \in Sessions :
        cache[n][s] # None /\ cache[n][s].info => Vouches(cache[n][s], s)

(* The inductive invariant.                                                *)
LoginInv == LoginTypes /\ OpsKnow /\ RowsAge /\ ReadsRecent /\ EntriesVouch
-----------------------------------------------------------------------------
(* Every operation preserves the invariant, conjunct by conjunct.          *)
LEMMA InitInv == Init => LoginInv
  BY LoginsAssumption
  DEF Init, Idle, LoginInv, LoginTypes, Entries, Steps, Ops, OpsKnow, RowsAge, ReadsRecent,
      EntriesVouch

LEMMA InsertInv ==
    ASSUME LoginInv, NEW t \in Tasks, NEW n \in Nodes, NEW s \in Sessions,
           op[t].pc = "idle", Insert(t, n, s)
    PROVE  LoginInv'
<1> USE LoginsAssumption DEF LoginInv, LoginTypes, Insert, Begin, Fault
<1>1. LoginTypes'
  <2>1. op' \in [Tasks -> Ops]
    BY DEF Ops, Steps
  <2>2. row' \in [Sessions -> BOOLEAN]
    BY Zenon
  <2>3. expires' \in [Sessions -> Nat]
    OBVIOUS
  <2>4. faults' \in Nat
    OBVIOUS
  <2> QED
    BY <2>1, <2>2, <2>3, <2>4
<1>2. OpsKnow'
  BY DEF OpsKnow, Ops
<1>3. RowsAge'
  BY DEF RowsAge
<1>4. ReadsRecent'
  BY DEF ReadsRecent, OpsKnow, Ops
<1>5. EntriesVouch'
  BY DEF EntriesVouch, Vouches, Entries
<1> QED
  BY <1>1, <1>2, <1>3, <1>4, <1>5

LEMMA CreatedInv ==
    ASSUME LoginInv, NEW t \in Tasks,
           Created(t)
    PROVE  LoginInv'
<1> USE LoginsAssumption DEF LoginInv, LoginTypes, Created, Is, Cached, clip_to_expiry, Smaller, Done, Idle
<1>1. LoginTypes'
  BY DEF Entries, Ops, Steps, OpsKnow
<1>2. OpsKnow'
  BY DEF OpsKnow, Ops
<1>3. RowsAge'
  BY DEF RowsAge, OpsKnow
<1>4. ReadsRecent'
  BY DEF ReadsRecent, OpsKnow, Ops
<1>5. EntriesVouch'
  BY DEF EntriesVouch, OpsKnow, RowsAge, Ops, Vouches, Entries
<1> QED
  BY <1>1, <1>2, <1>3, <1>4, <1>5

LEMMA ValidateInv ==
    ASSUME LoginInv, NEW t \in Tasks, NEW n \in Nodes, NEW s \in Sessions,
           op[t].pc = "idle", Validate(t, n, s)
    PROVE  LoginInv'
<1> USE LoginsAssumption DEF LoginInv, LoginTypes, Validate, Begin
<1>1. LoginTypes'
  BY DEF Entries, Ops, Steps
<1>2. OpsKnow'
  <2>1. CASE UNCHANGED op
    BY <2>1 DEF OpsKnow
  <2>2. CASE op' = [op EXCEPT ![t] = [pc |-> "select", node |-> n, sess |-> s, start |-> now]]
    BY <2>2 DEF OpsKnow, Ops
  <2> QED
    BY <2>1, <2>2
<1>3. RowsAge'
  BY DEF RowsAge
<1>4. ReadsRecent'
  BY DEF ReadsRecent, Ops
<1>5. EntriesVouch'
  BY DEF EntriesVouch, Vouches, Entries
<1> QED
  BY <1>1, <1>2, <1>3, <1>4, <1>5

LEMMA SelectInv ==
    ASSUME LoginInv, NEW t \in Tasks,
           Select(t)
    PROVE  LoginInv'
<1> USE LoginsAssumption DEF LoginInv, LoginTypes, Select, Is, Goto
<1>1. LoginTypes'
  <2>1. op' \in [Tasks -> Ops]
    BY DEF Ops, Steps, OpsKnow
  <2> QED
    BY <2>1
<1>2. OpsKnow'
  BY DEF OpsKnow, Ops, Steps
<1>3. RowsAge'
  BY DEF RowsAge
<1>4. ReadsRecent'
  BY DEF ReadsRecent, OpsKnow, RowsAge, Ops
<1>5. EntriesVouch'
  BY DEF EntriesVouch, Vouches, Entries
<1> QED
  BY <1>1, <1>2, <1>3, <1>4, <1>5

LEMMA DeleteExpiredInv ==
    ASSUME LoginInv, NEW t \in Tasks,
           DeleteExpired(t)
    PROVE  LoginInv'
<1> USE LoginsAssumption DEF LoginInv, LoginTypes, DeleteExpired, Is, Goto, Fault
<1>1. LoginTypes'
  <2>1. op' \in [Tasks -> Ops]
    <3>1. op \in [Tasks -> Ops] /\ op' = [op EXCEPT ![t].pc = "no"]
      OBVIOUS
    <3> HIDE DEF LoginInv, LoginTypes, DeleteExpired
    <3> QED
      BY <3>1 DEF Ops, Steps
  <2>2. row' \in [Sessions -> BOOLEAN]
    BY DEF OpsKnow
  <2> QED
    BY <2>1, <2>2
<1>2. OpsKnow'
  BY DEF OpsKnow, Ops
<1>3. RowsAge'
  BY DEF RowsAge, OpsKnow
<1>4. ReadsRecent'
  BY DEF ReadsRecent, Ops
<1>5. EntriesVouch'
  BY DEF EntriesVouch, Vouches, Entries
<1> QED
  BY <1>1, <1>2, <1>3, <1>4, <1>5

LEMMA SelectFailsInv ==
    ASSUME LoginInv, NEW t \in Tasks,
           SelectFails(t)
    PROVE  LoginInv'
<1> USE LoginsAssumption DEF LoginInv, LoginTypes, SelectFails, Is, Done, Idle, Fault
<1>1. LoginTypes'
  BY DEF Entries, Ops, Steps
<1>2. OpsKnow'
  BY DEF OpsKnow, Ops
<1>3. RowsAge'
  BY DEF RowsAge
<1>4. ReadsRecent'
  BY DEF ReadsRecent, Ops
<1>5. EntriesVouch'
  BY DEF EntriesVouch, Vouches, Entries
<1> QED
  BY <1>1, <1>2, <1>3, <1>4, <1>5

LEMMA FillInv ==
    ASSUME LoginInv, NEW t \in Tasks,
           Fill(t)
    PROVE  LoginInv'
<1> USE LoginsAssumption DEF LoginInv, LoginTypes, Fill, Is, Cached, clip_to_expiry, Smaller, Done, Idle
<1>1. LoginTypes'
  BY DEF Entries, Ops, Steps, OpsKnow
<1>2. OpsKnow'
  BY DEF OpsKnow, Ops
<1>3. RowsAge'
  BY DEF RowsAge
<1>4. ReadsRecent'
  BY DEF ReadsRecent, Ops
<1>5. EntriesVouch'
  BY DEF EntriesVouch, OpsKnow, ReadsRecent, Ops, Vouches, Entries
<1> QED
  BY <1>1, <1>2, <1>3, <1>4, <1>5

LEMMA SweepCacheInv ==
    ASSUME LoginInv, NEW n \in Nodes,
           SweepCache(n)
    PROVE  LoginInv'
<1> USE LoginsAssumption DEF LoginInv, LoginTypes, SweepCache, Fresh
<1>1. LoginTypes'
  BY DEF Entries, Ops, Steps
<1>2. OpsKnow'
  BY DEF OpsKnow, Ops
<1>3. RowsAge'
  BY DEF RowsAge
<1>4. ReadsRecent'
  BY DEF ReadsRecent, Ops
<1>5. EntriesVouch'
  BY DEF EntriesVouch, Vouches, Entries
<1> QED
  BY <1>1, <1>2, <1>3, <1>4, <1>5

LEMMA DeleteInv ==
    ASSUME LoginInv, NEW t \in Tasks, NEW n \in Nodes, NEW s \in Sessions,
           op[t].pc = "idle", Delete(t, n, s)
    PROVE  LoginInv'
<1> USE LoginsAssumption DEF LoginInv, LoginTypes, Delete, Begin, Fault
<1>1. LoginTypes'
  <2>1. op' \in [Tasks -> Ops]
    BY DEF Ops, Steps
  <2>2. row' \in [Sessions -> BOOLEAN]
    BY Zenon
  <2> QED
    BY <2>1, <2>2
<1>2. OpsKnow'
  BY DEF OpsKnow, Ops
<1>3. RowsAge'
  BY DEF RowsAge
<1>4. ReadsRecent'
  BY DEF ReadsRecent, Ops
<1>5. EntriesVouch'
  BY DEF EntriesVouch, Vouches, Entries
<1> QED
  BY <1>1, <1>2, <1>3, <1>4, <1>5

LEMMA RemovedInv ==
    ASSUME LoginInv, NEW t \in Tasks,
           Removed(t)
    PROVE  LoginInv'
<1> USE LoginsAssumption DEF LoginInv, LoginTypes, Removed, Is, Cached, Done, Idle
<1>1. LoginTypes'
  BY DEF Entries, Ops, Steps, OpsKnow
<1>2. OpsKnow'
  BY DEF OpsKnow, Ops
<1>3. RowsAge'
  BY DEF RowsAge
<1>4. ReadsRecent'
  BY DEF ReadsRecent, Ops
<1>5. EntriesVouch'
  BY DEF EntriesVouch, OpsKnow, Ops, Vouches, Entries
<1> QED
  BY <1>1, <1>2, <1>3, <1>4, <1>5

LEMMA DeleteByActorInv ==
    ASSUME LoginInv, NEW t \in Tasks, NEW n \in Nodes,
           op[t].pc = "idle", DeleteByActor(t, n)
    PROVE  LoginInv'
<1> USE LoginsAssumption DEF LoginInv, LoginTypes, DeleteByActor, Begin, Fault
<1>1. LoginTypes'
  <2>1. op' \in [Tasks -> Ops]
    BY DEF Ops, Steps
  <2>2. row' \in [Sessions -> BOOLEAN]
    BY Zenon
  <2> QED
    BY <2>1, <2>2
<1>2. OpsKnow'
  BY DEF OpsKnow, Ops
<1>3. RowsAge'
  BY DEF RowsAge
<1>4. ReadsRecent'
  BY DEF ReadsRecent, Ops
<1>5. EntriesVouch'
  BY DEF EntriesVouch, Vouches, Entries
<1> QED
  BY <1>1, <1>2, <1>3, <1>4, <1>5

LEMMA RevokedInv ==
    ASSUME LoginInv, NEW t \in Tasks,
           Revoked(t)
    PROVE  LoginInv'
<1> USE LoginsAssumption DEF LoginInv, LoginTypes, Revoked, Is, Done, Idle
<1>1. LoginTypes'
  <2>1. op' \in [Tasks -> Ops]
    BY DEF Ops, Steps
  <2>2. cache' \in [Nodes -> [Sessions -> Entries \cup {None}]]
    OBVIOUS
  <2> QED
    BY <2>1, <2>2
<1>2. OpsKnow'
  BY DEF OpsKnow, Ops
<1>3. RowsAge'
  BY DEF RowsAge
<1>4. ReadsRecent'
  BY DEF ReadsRecent, Ops
<1>5. EntriesVouch'
  BY DEF EntriesVouch, OpsKnow, Ops, Vouches, Entries
<1> QED
  BY <1>1, <1>2, <1>3, <1>4, <1>5

LEMMA TickInv ==
    ASSUME LoginInv, Tick
    PROVE  LoginInv'
<1> USE LoginsAssumption DEF LoginInv, LoginTypes, Tick, Smaller
<1>1. LoginTypes'
  BY DEF Entries, Ops, Steps
<1>2. OpsKnow'
  BY DEF OpsKnow, Ops
<1>3. RowsAge'
  BY DEF RowsAge
<1>4. ReadsRecent'
  BY DEF ReadsRecent, OpsKnow, Ops
<1>5. EntriesVouch'
  BY DEF EntriesVouch, Vouches, Entries
<1> QED
  BY <1>1, <1>2, <1>3, <1>4, <1>5

(* The inductive invariant holds in every reachable state.                 *)
THEOREM LoginInvariance == Spec => []LoginInv
<1>1. LoginInv /\ UNCHANGED vars => LoginInv'
  BY DEF LoginInv, LoginTypes, OpsKnow, RowsAge, ReadsRecent, EntriesVouch, Vouches, vars
<1>2. LoginInv /\ Next => LoginInv'
  <2> SUFFICES ASSUME LoginInv, Next PROVE LoginInv'
    OBVIOUS
  <2>1. CASE Tick
    BY <2>1, TickInv
  <2>2. ASSUME NEW n \in Nodes, SweepCache(n) PROVE LoginInv'
    BY <2>2, SweepCacheInv
  <2>3. ASSUME NEW t \in Tasks, Step(t) PROVE LoginInv'
    BY <2>3, CreatedInv, SelectInv, SelectFailsInv, DeleteExpiredInv, FillInv, RemovedInv,
       RevokedInv DEF Step
  <2>4. ASSUME NEW t \in IdleTasks, NEW n \in Nodes, Start(t, n) PROVE LoginInv'
    BY <2>4, InsertInv, ValidateInv, DeleteInv, DeleteByActorInv DEF Start, IdleTasks, Is
  <2> QED
    BY <2>1, <2>2, <2>3, <2>4 DEF Next
<1> QED
  BY <1>1, <1>2, InitInv, PTL DEF Spec

-----------------------------------------------------------------------------
(* The refinement, operation by operation: what an observer of the store   *)
(* sees of it.                                                             *)

(* Rows that go are sessions that end, handed out or not.                  *)
LEMMA RowsGoEnds ==
    ASSUME LoginInv, UNCHANGED <<now, expires, made, goneFor, honoured>>,
           row' \in [Sessions -> BOOLEAN], \A s \in Sessions : row'[s] => row[s]
    PROVE  Store!End
<1> DEFINE gone == {s \in made : row[s] /\ ~row'[s]}
<1>1. gone \in SUBSET {s \in Sessions : [x \in Sessions |-> Phase(x)][s] = "live"}
  BY DEF LoginInv, LoginTypes, Phase
<1>2. [s \in Sessions |-> Phase(s)]'
        = [s \in Sessions |-> IF s \in gone THEN "ended" ELSE [x \in Sessions |-> Phase(x)][s]]
  BY DEF LoginInv, LoginTypes, Phase
<1>3. UNCHANGED <<goneFor, [s \in Sessions |-> IF s \in made THEN Left(s) ELSE Lifetime],
                  honoured>>
  BY DEF Left
<1> QED
  BY <1>1, <1>2, <1>3 DEF Store!End

(* An answer that says yes is about a live session, or about one whose row *)
(* is gone for less than a cache lifetime, before its expiry.              *)
LEMMA AnswerYes ==
    ASSUME LoginInv, NEW s \in made, honoured' = {s}, expires[s] > now,
           row[s] \/ goneFor[s] < CacheTtl,
           UNCHANGED <<now, row, expires, made, goneFor>>
    PROVE  Store!Honour(s)
  BY DEF LoginInv, LoginTypes, Store!Honour, Phase, Left

LEMMA AnswerNo ==
    ASSUME honoured' = {}, UNCHANGED <<now, row, expires, made, goneFor>>
    PROVE  Store!Refuse
  BY DEF Store!Refuse, Phase, Left

(* What no answer, no row and no clock is touched by is not seen.          *)
LEMMA Unseen ==
    ASSUME UNCHANGED <<now, row, expires, made, goneFor, honoured>>
    PROVE  UNCHANGED Store!vars
  BY DEF Store!vars, Phase, Left

LEMMA InsertUnseen ==
    ASSUME LoginInv, NEW t \in Tasks, NEW n \in Nodes, NEW s \in Sessions, Insert(t, n, s)
    PROVE  UNCHANGED Store!vars
<1>1. [x \in Sessions |-> Phase(x)]' = [x \in Sessions |-> Phase(x)]
  BY DEF LoginInv, LoginTypes, Insert, Phase
<1>2. [x \in Sessions |-> IF x \in made THEN Left(x) ELSE Lifetime]'
        = [x \in Sessions |-> IF x \in made THEN Left(x) ELSE Lifetime]
  BY DEF LoginInv, LoginTypes, Insert, Left
<1> QED
  BY <1>1, <1>2 DEF Store!vars, Insert

LEMMA CreatedCreates ==
    ASSUME LoginInv, NEW t \in Tasks, Created(t)
    PROVE  \E s \in Sessions : Store!Create(s)
<1>1. PICK s \in Sessions : s \notin made /\ made' = made \cup {s}
  BY DEF Created, Is, LoginInv, OpsKnow
<1>2. \E p \in {"live", "ended"} :
        [x \in Sessions |-> Phase(x)]' = [[x \in Sessions |-> Phase(x)] EXCEPT ![s] = p]
  BY <1>1 DEF Created, Phase
<1>3. \E l \in 0..Lifetime :
        [x \in Sessions |-> IF x \in made THEN Left(x) ELSE Lifetime]'
          = [[x \in Sessions |-> IF x \in made THEN Left(x) ELSE Lifetime] EXCEPT ![s] = l]
  <2>1. Left(s) \in 0..Lifetime
    BY <1>1, LoginsAssumption DEF LoginInv, LoginTypes, RowsAge, Left
  <2> WITNESS Left(s) \in 0..Lifetime
  <2> QED
    BY <1>1 DEF Created, Left
<1>4. [x \in Sessions |-> Phase(x)][s] = "none"
  BY <1>1 DEF Phase
<1>5. UNCHANGED <<goneFor, honoured>>
  BY DEF Created
<1>6. Store!Create(s)
  BY <1>2, <1>3, <1>4, <1>5 DEF Store!Create
<1> QED
  BY <1>6

(* A fresh entry answers: yes only within the grace that SignIn allows.    *)
LEMMA ValidateAnswers ==
    ASSUME LoginInv, NEW t \in Tasks, NEW n \in Nodes, NEW s \in Sessions, Validate(t, n, s)
    PROVE  Store!Next \/ UNCHANGED Store!vars
<1>1. CASE Fresh(n, s) /\ cache[n][s].info
  <2>1. s \in made /\ honoured' = {s}
    BY <1>1 DEF Validate
  <2>2. cache[n][s] \in Entries
    BY <1>1 DEF LoginInv, LoginTypes, Fresh
  <2>3. Vouches(cache[n][s], s)
    BY <1>1 DEF LoginInv, EntriesVouch, Fresh
  <2>4. expires[s] > now /\ goneFor[s] < CacheTtl
    BY <1>1, <2>2, <2>3, LoginsAssumption DEF LoginInv, LoginTypes, Entries, Vouches, Fresh
  <2>5. Store!Honour(s)
    BY <2>1, <2>4, AnswerYes DEF Validate
  <2> QED
    BY <2>5 DEF Store!Next
<1>2. CASE Fresh(n, s) /\ ~cache[n][s].info
  BY <1>2, AnswerNo DEF Validate, Store!Next
<1>3. CASE ~Fresh(n, s)
  BY <1>3, Unseen DEF Validate
<1> QED
  BY <1>1, <1>2, <1>3

LEMMA SelectAnswers ==
    ASSUME LoginInv, NEW t \in Tasks, Select(t)
    PROVE  Store!Next
<1> DEFINE s == op[t].sess
<1>1. s \in made /\ s \in Sessions
  BY DEF Select, Is, LoginInv, LoginTypes, OpsKnow
<1>2. CASE row[s] /\ expires[s] > now
  <2>1. Store!Honour(s)
    BY <1>1, <1>2, AnswerYes DEF Select
  <2> QED
    BY <1>1, <2>1 DEF Store!Next
<1>3. CASE ~(row[s] /\ expires[s] > now)
  BY <1>3, AnswerNo DEF Select, Store!Next
<1> QED
  BY <1>2, <1>3

LEMMA TickTicks ==
    ASSUME LoginInv, Tick
    PROVE  Store!Tick
<1> USE LoginsAssumption DEF LoginInv, LoginTypes, Tick, Phase
<1>1. goneFor' = [s \in Sessions |->
        IF [x \in Sessions |-> Phase(x)][s] = "ended" /\ goneFor[s] < CacheTtl
        THEN goneFor[s] + 1 ELSE goneFor[s]]
  <2>1. ASSUME NEW s \in Sessions
        PROVE  (IF s \in made /\ ~row[s] THEN Smaller(goneFor[s] + 1, CacheTtl) ELSE goneFor[s])
                 = IF Phase(s) = "ended" /\ goneFor[s] < CacheTtl
                   THEN goneFor[s] + 1 ELSE goneFor[s]
    <3>1. goneFor[s] \in 0..CacheTtl /\ CacheTtl \in Nat
      BY <2>1
    <3>2. Phase(s) = "ended" <=> s \in made /\ ~row[s]
      BY <2>1
    <3> HIDE DEF LoginInv, LoginTypes, Tick, Phase
    <3> QED
      BY <3>1, <3>2 DEF Smaller
  <2> QED
    BY <2>1
<1>2. [s \in Sessions |-> IF s \in made THEN Left(s) ELSE Lifetime]'
        = [s \in Sessions |->
             LET l == [x \in Sessions |-> IF x \in made THEN Left(x) ELSE Lifetime][s] IN
             IF [x \in Sessions |-> Phase(x)][s] # "none" /\ l > 0 THEN l - 1 ELSE l]
  BY DEF Left
<1>3. UNCHANGED <<[s \in Sessions |-> Phase(s)], honoured>>
  OBVIOUS
<1> QED
  BY <1>1, <1>2, <1>3 DEF Store!Tick

-----------------------------------------------------------------------------
(* The shared store with its per-node caches behaves as SignIn says: once   *)
(* its row is gone a session is refused everywhere within one cache         *)
(* lifetime, and none is honoured past expiry, whatever nodes, statements   *)
(* and failures interleave.  A logout whose DELETE failed ended nothing.    *)
THEOREM StoreImplementsSignIn == Spec => ImplementsSignIn
<1>1. Init => Store!Init
  BY DEF Init, Store!Init, Phase
<1>2. LoginInv /\ LoginInv' /\ [Next]_vars => [Store!Next]_(Store!vars)
  <2> SUFFICES ASSUME LoginInv, LoginInv', [Next]_vars
               PROVE  Store!Next \/ UNCHANGED Store!vars
    OBVIOUS
  <2>1. CASE Tick
    BY <2>1, TickTicks DEF Store!Next
  <2>2. ASSUME NEW n \in Nodes, SweepCache(n) PROVE UNCHANGED Store!vars
    BY <2>2, Unseen DEF SweepCache
  <2>3. ASSUME NEW t \in Tasks, Step(t) PROVE Store!Next \/ UNCHANGED Store!vars
    <3>1. CASE Created(t)
      BY <3>1, CreatedCreates DEF Store!Next
    <3>2. CASE Select(t)
      BY <3>2, SelectAnswers
    <3>3. CASE SelectFails(t)
      BY <3>3, AnswerNo DEF SelectFails, Store!Next
    <3>4. CASE DeleteExpired(t)
      <4>1. row' \in [Sessions -> BOOLEAN] /\ \A s \in Sessions : row'[s] => row[s]
        BY <3>4 DEF DeleteExpired, LoginInv, LoginTypes
      <4> QED
        BY <3>4, <4>1, RowsGoEnds DEF DeleteExpired, Store!Next
    <3>5. CASE Fill(t) \/ Removed(t) \/ Revoked(t)
      BY <3>5, Unseen DEF Fill, Removed, Revoked
    <3> QED
      BY <2>3, <3>1, <3>2, <3>3, <3>4, <3>5 DEF Step
  <2>4. ASSUME NEW t \in IdleTasks, NEW n \in Nodes, Start(t, n)
        PROVE  Store!Next \/ UNCHANGED Store!vars
    <3> t \in Tasks
      BY DEF IdleTasks
    <3>1. ASSUME NEW s \in Sessions, Insert(t, n, s) \/ Validate(t, n, s)
          PROVE  Store!Next \/ UNCHANGED Store!vars
      BY <3>1, InsertUnseen, ValidateAnswers
    <3>2. ASSUME DeleteByActor(t, n) \/ \E s \in Sessions : Delete(t, n, s)
          PROVE  Store!Next
      <4>1. row' \in [Sessions -> BOOLEAN] /\ \A s \in Sessions : row'[s] => row[s]
        BY <3>2 DEF DeleteByActor, Delete, LoginInv, LoginTypes
      <4>2. UNCHANGED <<now, expires, made, goneFor, honoured>>
        BY <3>2 DEF DeleteByActor, Delete
      <4> QED
        BY <4>1, <4>2, RowsGoEnds DEF Store!Next
    <3> QED
      BY <2>4, <3>1, <3>2 DEF Start
  <2>5. CASE UNCHANGED vars
    BY <2>5, Unseen DEF vars
  <2> QED
    BY <2>1, <2>2, <2>3, <2>4, <2>5 DEF Next
<1> QED
  BY <1>1, <1>2, LoginInvariance, PTL DEF Spec, ImplementsSignIn, Store!Spec

-----------------------------------------------------------------------------
(***************************************************************************)
(* The second factor.                                                      *)
(***************************************************************************)
Confirming == {"record", "confirm"}
FactorPcs  == {"idle", "begin", "record", "confirm", "reread", "issue", "match",
               "decide", "regenerate"}
Grants     == [id : Nat, factor : Nat, epoch : Nat, age : 0..2, era : Nat, proven : Nat,
               late : BOOLEAN]
Proofs     == {"none", "totp", "recovery"} \X Nat \X Nat
FactorJobs == [pc : FactorPcs, s : LoginSids, row : FactorRows, proof : Proofs,
               era : Nat, grant : Grants, from : LoginSids]

(* What the variables hold.                                                *)
FactorTypes ==
    /\ fac \in [FactorUsers -> FactorRows]
    /\ codes \in [FactorUsers -> [gen : Nat, used : SUBSET (1..CodesPerSet)]]
    /\ grant \in [LoginSids -> Grants]
    /\ device \in [Browsers -> 0..minted] /\ ceremony \in [Browsers -> 0..minted]
    /\ step \in 1..MaxStep /\ factorAsked \in 0..MaxFactorRequests
    /\ factorTask \in [Reqs -> FactorJobs]
    /\ minted \in Nat /\ era \in [FactorUsers -> Nat]
    /\ earned \subseteq (Proofs \X Nat \X BOOLEAN)

(* Secrets and sets of codes belong to one account, and a confirmed factor *)
(* was proven and has the codes.                                           *)
FactorRowsFit ==
    /\ \A u \in FactorUsers :
          /\ fac[u].secret <= minted /\ codes[u].gen <= minted
          /\ IF fac[u].st = "none" THEN fac[u] = F!NoFactor ELSE fac[u].secret # 0
          /\ IF fac[u].st = "confirmed"
             THEN /\ fac[u].proven = fac[u].secret
                  /\ codes[u].gen = fac[u].gen /\ codes[u].gen # 0
             ELSE codes[u] = F!NoCodes
    /\ \A u, v \in FactorUsers :
          u # v => /\ fac[u].secret = fac[v].secret => fac[u].secret = 0
                   /\ codes[u].gen = codes[v].gen => codes[u].gen = 0

(* A row of u that was read when it was confirmed, with the revocations    *)
(* counted then: as long as the secret is the same, the epoch tells        *)
(* whether a revocation came since. (f, e and m stand for fac, era and     *)
(* minted.)                                                                *)
ReadOf(secret, epoch, revoked, u, f, e, m) ==
    /\ secret # 0 /\ secret <= m
    /\ \A v \in FactorUsers \ {u} : f[v].secret # secret
    /\ secret = f[u].secret => /\ f[u].st = "confirmed" /\ epoch <= f[u].epoch
                               /\ epoch = f[u].epoch => revoked = e[u]

(* Its holder proved that secret.                                          *)
Backed(secret, g, u, f) == secret = f[u].secret => g.proven = secret \/ g.late

GrantHolds(g, u, f, e, m) ==
    /\ g.id <= m
    /\ g.id # 0 => ReadOf(g.factor, g.epoch, g.era, u, f, e, m) /\ Backed(g.factor, g, u, f)

ProofFits(t) ==
    /\ t.proof[1] = "totp" => t.proof[2] = t.row.secret /\ t.proof[3] \in 1..MaxStep + 1
    /\ t.proof[1] = "recovery" => t.proof[2] # 0 /\ t.proof[3] \in 1..CodesPerSet
    /\ t.proof[1] = "none" => t.proof = F!NoProof

(* What a request in flight rests on.                                      *)
JobHolds(t, f, e, m) ==
    LET u == Of[t.s] IN
    /\ t.pc = "decide" => GrantHolds(t.grant, Of[t.from], f, e, m)
    /\ t.pc \in {"match", "issue"} => /\ ReadOf(t.row.secret, t.row.epoch, t.era, u, f, e, m)
                                      /\ t.grant.id = 0 /\ t.grant.age = 0
    /\ t.pc = "issue" => Backed(t.row.secret, t.grant, u, f) /\ ProofFits(t)
    /\ t.pc \in Confirming => /\ t.proof[1] = "totp" /\ ProofFits(t)
                              /\ t.row.secret # 0 /\ t.row.secret <= m
    /\ t.pc = "confirm" => (f[u].secret = t.row.secret => t.proof[3] <= f[u].last)
    /\ t.pc = "reread" =>
          /\ t.era <= e[u]
          /\ t.era = e[u] => f[u].st = "confirmed" /\ f[u].secret = t.proof[2]

GrantsHold ==
    /\ \A s \in LoginSids : GrantHolds(grant[s], Of[s], fac, era, minted)
    /\ \A s, o \in LoginSids : grant[s].id = grant[o].id /\ s # o => grant[s].id = 0
JobsHold == \A r \in Reqs : JobHolds(factorTask[r], fac, era, minted)

(* Accepted codes are behind the factor's last step, or among the used.    *)
StepsBehind(x, f) == x[3] /\ x[1][1] = "totp" =>
    \A u \in FactorUsers : f[u].secret = x[1][2] =>
        f[u].st = "confirmed" /\ x[1][3] <= f[u].last
EarnedBehind ==
    /\ \A x \in earned : /\ x[1][1] \in {"totp", "recovery"}
                         /\ x[1][2] # 0 /\ x[1][2] <= minted
    /\ \A x, y \in earned : x[3] /\ y[3] /\ x[1] = y[1] => x = y
    /\ \A x \in earned : StepsBehind(x, fac)
    /\ \A u \in FactorUsers : codes[u].gen # 0 => \A i \in 1..CodesPerSet :
          i \in codes[u].used <=> \E x \in earned : x[1] = <<"recovery", codes[u].gen, i>>

(* The inductive invariant of the second factor.                           *)
FactorInv == FactorTypes /\ FactorRowsFit /\ GrantsHold /\ JobsHold /\ EarnedBehind

(* A step of the factors: a secret stays, with its epoch going up when     *)
(* there is a revocation, or gives way to one that nobody has seen.        *)
FactorMoves(f, e, m, f2, e2, m2) ==
    /\ m2 \in Nat /\ m <= m2
    /\ f2 \in [FactorUsers -> FactorRows] /\ e2 \in [FactorUsers -> Nat]
    /\ \A u \in FactorUsers :
          /\ e[u] <= e2[u]
          /\ \/ /\ f2[u].secret = f[u].secret
                /\ f[u].st = "confirmed" => f2[u].st = "confirmed"
                /\ f[u].epoch <= f2[u].epoch /\ f[u].last <= f2[u].last
                /\ f2[u].epoch = f[u].epoch /\ f[u].secret # 0 => e2[u] = e[u]
             \/ /\ f2[u].secret = 0 \/ f2[u].secret > m
                /\ f[u].st = "confirmed" => e2[u] > e[u]
-----------------------------------------------------------------------------
LEMMA ReadKept ==
    ASSUME NEW f \in [FactorUsers -> FactorRows], NEW e \in [FactorUsers -> Nat], NEW m \in Nat,
           NEW f2, NEW e2, NEW m2, FactorMoves(f, e, m, f2, e2, m2),
           NEW secret \in Nat, NEW epoch \in Nat, NEW revoked \in Nat, NEW u \in FactorUsers,
           ReadOf(secret, epoch, revoked, u, f, e, m)
    PROVE  ReadOf(secret, epoch, revoked, u, f2, e2, m2)
<1>1. \A v \in FactorUsers :
         /\ f[v].secret \in Nat /\ f[v].epoch \in Nat /\ e[v] \in Nat
         /\ f2[v].secret \in Nat /\ f2[v].epoch \in Nat /\ e2[v] \in Nat
  BY DEF FactorMoves, FactorRows
<1>2. m2 \in Nat /\ secret # 0 /\ secret <= m /\ secret <= m2
  BY DEF FactorMoves, ReadOf
<1>3. \A v \in FactorUsers : f2[v].secret = secret => f[v].secret = secret
  BY <1>1, <1>2 DEF FactorMoves
<1>4. secret = f2[u].secret => /\ f2[u].st = "confirmed" /\ epoch <= f2[u].epoch
                               /\ epoch = f2[u].epoch => revoked = e2[u]
  <2> SUFFICES ASSUME secret = f2[u].secret
               PROVE  /\ f2[u].st = "confirmed" /\ epoch <= f2[u].epoch
                      /\ epoch = f2[u].epoch => revoked = e2[u]
    OBVIOUS
  <2>1. f[u].secret = secret
    BY <1>3
  <2>2. /\ f[u].st = "confirmed" /\ epoch <= f[u].epoch
        /\ epoch = f[u].epoch => revoked = e[u]
    BY <2>1 DEF ReadOf
  <2>3. /\ f2[u].st = "confirmed" /\ f[u].epoch <= f2[u].epoch
        /\ f2[u].epoch = f[u].epoch => e2[u] = e[u]
    BY <1>1, <1>2, <2>1, <2>2 DEF FactorMoves
  <2>4. epoch = f2[u].epoch => f[u].epoch = f2[u].epoch /\ epoch = f[u].epoch
    BY <1>1, <2>2, <2>3
  <2> QED
    BY <1>1, <2>2, <2>3, <2>4
<1>5. \A v \in FactorUsers \ {u} : f2[v].secret # secret
  BY <1>3 DEF ReadOf
<1> QED
  BY <1>2, <1>4, <1>5 DEF ReadOf

LEMMA BackedKept ==
    ASSUME NEW f, NEW e, NEW m \in Nat, NEW f2, NEW e2, NEW m2,
           FactorMoves(f, e, m, f2, e2, m2),
           NEW secret \in Nat, secret # 0, secret <= m, NEW g, NEW u \in FactorUsers,
           Backed(secret, g, u, f)
    PROVE  Backed(secret, g, u, f2)
  BY DEF FactorMoves, Backed, FactorRows

LEMMA GrantKept ==
    ASSUME NEW f \in [FactorUsers -> FactorRows], NEW e \in [FactorUsers -> Nat], NEW m \in Nat,
           NEW f2, NEW e2, NEW m2, FactorMoves(f, e, m, f2, e2, m2),
           NEW g \in Grants, NEW u \in FactorUsers, GrantHolds(g, u, f, e, m)
    PROVE  GrantHolds(g, u, f2, e2, m2)
<1>1. g.factor \in Nat /\ g.epoch \in Nat /\ g.era \in Nat /\ g.id \in Nat
  BY DEF Grants
<1>2. m2 \in Nat /\ m <= m2
  BY DEF FactorMoves
<1>3. CASE g.id = 0
  BY <1>1, <1>2, <1>3 DEF GrantHolds
<1>4. CASE g.id # 0
  <2>1. ReadOf(g.factor, g.epoch, g.era, u, f, e, m) /\ Backed(g.factor, g, u, f)
    BY <1>4 DEF GrantHolds
  <2>2. ReadOf(g.factor, g.epoch, g.era, u, f2, e2, m2)
    BY <2>1, <1>1, ReadKept
  <2>3. g.factor # 0 /\ g.factor <= m
    BY <2>1 DEF ReadOf
  <2>4. Backed(g.factor, g, u, f2)
    BY <2>1, <2>3, <1>1, BackedKept
  <2> QED
    BY <2>2, <2>4, <1>1, <1>2 DEF GrantHolds
<1> QED
  BY <1>3, <1>4

LEMMA JobKept ==
    ASSUME NEW f \in [FactorUsers -> FactorRows], NEW e \in [FactorUsers -> Nat], NEW m \in Nat,
           NEW f2, NEW e2, NEW m2, FactorMoves(f, e, m, f2, e2, m2),
           NEW t \in FactorJobs, JobHolds(t, f, e, m)
    PROVE  JobHolds(t, f2, e2, m2)
<1> DEFINE u == Of[t.s]
<1>1. /\ u \in FactorUsers /\ Of[t.from] \in FactorUsers /\ t.grant \in Grants
      /\ t.row \in FactorRows /\ t.era \in Nat /\ t.proof[3] \in Nat
      /\ t.row.secret \in Nat /\ t.row.epoch \in Nat
  BY FactorAssumption DEF FactorJobs, FactorRows, Proofs
<1>2. t.pc = "decide" => GrantHolds(t.grant, Of[t.from], f2, e2, m2)
  BY <1>1, GrantKept DEF JobHolds
<1>3. t.pc \in {"match", "issue"} =>
         /\ ReadOf(t.row.secret, t.row.epoch, t.era, u, f2, e2, m2)
         /\ t.grant.id = 0 /\ t.grant.age = 0
  BY <1>1, ReadKept DEF JobHolds
<1>4. t.pc = "issue" => Backed(t.row.secret, t.grant, u, f2) /\ ProofFits(t)
  <2> SUFFICES ASSUME t.pc = "issue" PROVE Backed(t.row.secret, t.grant, u, f2) /\ ProofFits(t)
    OBVIOUS
  <2>1. /\ ReadOf(t.row.secret, t.row.epoch, t.era, u, f, e, m)
        /\ Backed(t.row.secret, t.grant, u, f) /\ ProofFits(t)
    BY DEF JobHolds
  <2>2. t.row.secret # 0 /\ t.row.secret <= m
    BY <2>1 DEF ReadOf
  <2> QED
    BY <1>1, <2>1, <2>2, BackedKept
<1>5. t.pc \in Confirming => /\ t.proof[1] = "totp" /\ ProofFits(t)
                             /\ t.row.secret # 0 /\ t.row.secret <= m2
  BY <1>1 DEF JobHolds, FactorMoves
<1>6. t.pc = "confirm" => (f2[u].secret = t.row.secret => t.proof[3] <= f2[u].last)
  BY <1>1 DEF JobHolds, FactorMoves, Confirming, FactorRows
<1>7. t.pc = "reread" =>
         /\ t.era <= e2[u]
         /\ t.era = e2[u] => f2[u].st = "confirmed" /\ f2[u].secret = t.proof[2]
  <2> SUFFICES ASSUME t.pc = "reread"
               PROVE  /\ t.era <= e2[u]
                      /\ t.era = e2[u] => f2[u].st = "confirmed" /\ f2[u].secret = t.proof[2]
    OBVIOUS
  <2>1. /\ t.era <= e[u]
        /\ t.era = e[u] => f[u].st = "confirmed" /\ f[u].secret = t.proof[2]
    BY DEF JobHolds
  <2> HIDE DEF u
  <2>2. e[u] \in Nat /\ e2[u] \in Nat /\ e[u] <= e2[u]
    BY <1>1 DEF FactorMoves
  <2>3. e2[u] = e[u] /\ f[u].st = "confirmed"
           => f2[u].st = "confirmed" /\ f2[u].secret = f[u].secret
    BY <1>1, <2>2 DEF FactorMoves
  <2> QED
    BY <1>1, <2>1, <2>2, <2>3
<1> QED
  BY <1>2, <1>3, <1>4, <1>5, <1>6, <1>7 DEF JobHolds

(* One request goes on, or none.                                           *)
LEMMA JobsKept ==
    ASSUME FactorInv, FactorMoves(fac, era, minted, fac', era', minted'),
           \/ factorTask' = factorTask
           \/ \E r \in Reqs, t \in FactorJobs : /\ JobHolds(t, fac', era', minted')
                                               /\ factorTask' = [factorTask EXCEPT ![r] = t]
    PROVE  factorTask' \in [Reqs -> FactorJobs] /\ JobsHold'
<1>1. /\ factorTask \in [Reqs -> FactorJobs] /\ fac \in [FactorUsers -> FactorRows]
      /\ era \in [FactorUsers -> Nat] /\ minted \in Nat
  BY DEF FactorInv, FactorTypes
<1>2. \A r \in Reqs : JobHolds(factorTask[r], fac', era', minted')
  BY <1>1, JobKept DEF FactorInv, JobsHold
<1>3. CASE factorTask' = factorTask
  BY <1>1, <1>2, <1>3 DEF JobsHold
<1>4. ASSUME NEW r \in Reqs, NEW t \in FactorJobs, JobHolds(t, fac', era', minted'),
             factorTask' = [factorTask EXCEPT ![r] = t]
      PROVE  factorTask' \in [Reqs -> FactorJobs] /\ JobsHold'
  <2>1. \A q \in Reqs : factorTask'[q] = IF q = r THEN t ELSE factorTask[q]
    BY <1>1, <1>4
  <2>2. \A q \in Reqs : JobHolds(factorTask'[q], fac', era', minted')
    BY <2>1, <1>2, <1>4
  <2> QED
    BY <1>1, <1>4, <2>2 DEF JobsHold
<1> QED
  BY <1>3, <1>4

(* Grants stay, grow older or go.                                          *)
LEMMA GrantsKept ==
    ASSUME FactorInv, FactorMoves(fac, era, minted, fac', era', minted'),
           grant' \in [LoginSids -> Grants],
           \A s \in LoginSids : \/ grant'[s].id = 0
                                \/ grant'[s] = [grant[s] EXCEPT !.age = grant'[s].age]
    PROVE  GrantsHold'
<1>1. /\ grant \in [LoginSids -> Grants] /\ fac \in [FactorUsers -> FactorRows]
      /\ era \in [FactorUsers -> Nat] /\ minted \in Nat
      /\ minted' \in Nat
  BY DEF FactorInv, FactorTypes, FactorMoves
<1>2. \A s \in LoginSids : GrantHolds(grant[s], Of[s], fac', era', minted')
  BY <1>1, GrantKept, FactorAssumption DEF FactorInv, GrantsHold
<1>3. \A s \in LoginSids :
        \/ grant'[s].id = 0
        \/ /\ grant'[s].id = grant[s].id /\ grant'[s].factor = grant[s].factor
           /\ grant'[s].epoch = grant[s].epoch /\ grant'[s].era = grant[s].era
           /\ grant'[s].proven = grant[s].proven /\ grant'[s].late = grant[s].late
  BY <1>1 DEF Grants
<1>4. \A s \in LoginSids : GrantHolds(grant'[s], Of[s], fac', era', minted')
  BY <1>1, <1>2, <1>3 DEF GrantHolds, Backed
<1>5. \A s, o \in LoginSids : grant'[s].id = grant'[o].id /\ s # o => grant'[s].id = 0
  BY <1>3 DEF FactorInv, GrantsHold
<1> QED
  BY <1>4, <1>5 DEF GrantsHold

(* What was earned stays behind.                                           *)
LEMMA StepsKept ==
    ASSUME FactorInv, FactorMoves(fac, era, minted, fac', era', minted')
    PROVE  /\ \A x \in earned : StepsBehind(x, fac')
           /\ \A x \in earned : x[1][2] # 0 /\ x[1][2] <= minted'
<1>1. \A x \in earned : x[1][2] \in Nat /\ x[1][3] \in Nat
  BY DEF FactorInv, FactorTypes, Proofs
<1>2. \A x \in earned : x[1][2] # 0 /\ x[1][2] <= minted /\ StepsBehind(x, fac)
  BY DEF FactorInv, EarnedBehind
<1>3. minted \in Nat /\ fac \in [FactorUsers -> FactorRows]
  BY DEF FactorInv, FactorTypes
<1> QED
  BY <1>1, <1>2, <1>3 DEF StepsBehind, FactorMoves, FactorRows

LEMMA EarnedKept ==
    ASSUME FactorInv, FactorMoves(fac, era, minted, fac', era', minted'),
           UNCHANGED <<codes, earned>>
    PROVE  EarnedBehind'
  BY StepsKept DEF FactorInv, EarnedBehind

(* A step that only moves a request.                                       *)
LEMMA StillMoves == ASSUME FactorInv, UNCHANGED <<fac, era, minted>>
                    PROVE  FactorMoves(fac, era, minted, fac', era', minted')
  BY DEF FactorInv, FactorTypes, FactorMoves, FactorRows

LEMMA OnlyJobs ==
    ASSUME FactorInv, UNCHANGED <<fac, codes, grant, device, ceremony, step, minted, era, earned>>,
           factorAsked' \in 0..MaxFactorRequests,
           \/ factorTask' = factorTask
           \/ \E r \in Reqs, t \in FactorJobs : /\ JobHolds(t, fac, era, minted)
                                               /\ factorTask' = [factorTask EXCEPT ![r] = t]
    PROVE  FactorInv'
<1>1. FactorMoves(fac, era, minted, fac', era', minted')
  BY StillMoves
<1>2. factorTask' \in [Reqs -> FactorJobs] /\ JobsHold'
  BY <1>1, JobsKept
<1>3. EarnedBehind'
  BY <1>1, EarnedKept
<1>4. FactorTypes' /\ FactorRowsFit' /\ GrantsHold'
  BY <1>2 DEF FactorInv, FactorTypes, FactorRowsFit, GrantsHold
<1> QED
  BY <1>2, <1>3, <1>4 DEF FactorInv

LEMMA IdleJob == F!Idle \in FactorJobs /\ F!Idle.pc = "idle" /\ F!NoGrant \in Grants
<1>1. F!NoGrant \in Grants
  BY DEF F!NoGrant, Grants
<1>2. F!NoFactor \in FactorRows /\ F!NoProof \in Proofs
  BY FactorAssumption DEF F!NoFactor, FactorRows, F!NoProof, Proofs
<1>3. (CHOOSE s \in LoginSids : TRUE) \in LoginSids
  BY FactorAssumption
<1> QED
  BY <1>1, <1>2, <1>3 DEF F!Idle, FactorJobs, FactorPcs

(* A request that rests on nothing it has read.                            *)
LEMMA FreeJob ==
    ASSUME NEW t, NEW f, NEW e, NEW m,
           t.pc \notin {"decide", "match", "issue", "record", "confirm", "reread"}
    PROVE  JobHolds(t, f, e, m)
  BY DEF JobHolds, Confirming

LEMMA FactorStart ==
    ASSUME FactorInv, NEW r \in Reqs, NEW s \in LoginSids, F!Start(r, s)
    PROVE  FactorInv'
<1> DEFINE t == [F!Idle EXCEPT !.pc = "begin", !.s = s]
<1>1. t \in FactorJobs /\ t.pc = "begin"
  BY IdleJob DEF FactorJobs, FactorPcs
<1>2. factorTask' = [factorTask EXCEPT ![r] = t]
  BY DEF F!Start, F!Ask
<1>3. factorAsked' \in 0..MaxFactorRequests
  BY FactorAssumption DEF F!Start, F!Ask, FactorInv, FactorTypes
<1>4. JobHolds(t, fac, era, minted)
  BY <1>1, FreeJob
<1>5. UNCHANGED <<fac, codes, grant, device, ceremony, step, minted, era, earned>>
  BY DEF F!Start
<1> HIDE DEF t
<1> QED
  BY <1>1, <1>2, <1>3, <1>4, <1>5, OnlyJobs

LEMMA FactorStatus ==
    ASSUME FactorInv, NEW r \in Reqs, NEW s \in LoginSids, F!Status(r, s)
    PROVE  FactorInv'
<1> DEFINE t == [F!Idle EXCEPT !.pc = "regenerate", !.s = s, !.row = fac[Of[s]]]
<1>1. t \in FactorJobs /\ t.pc = "regenerate"
  BY IdleJob, FactorAssumption DEF FactorJobs, FactorPcs, FactorInv, FactorTypes
<1>2. factorTask' = [factorTask EXCEPT ![r] = t]
  BY DEF F!Status, F!Ask
<1>3. factorAsked' \in 0..MaxFactorRequests
  BY FactorAssumption DEF F!Status, F!Ask, FactorInv, FactorTypes
<1>4. JobHolds(t, fac, era, minted)
  BY <1>1, FreeJob
<1>5. UNCHANGED <<fac, codes, grant, device, ceremony, step, minted, era, earned>>
  BY DEF F!Status
<1> HIDE DEF t
<1> QED
  BY <1>1, <1>2, <1>3, <1>4, <1>5, OnlyJobs

LEMMA FactorConfirmAsked ==
    ASSUME FactorInv, NEW r \in Reqs, NEW s \in LoginSids, F!Confirm(r, s)
    PROVE  FactorInv'
<1>1. PICK n \in 1..MaxStep + 1 :
        F!Ask(r, [F!Idle EXCEPT !.pc = "record", !.s = s, !.row = fac[Of[s]],
                  !.proof = F!Totp(fac[Of[s]].secret, n)])
  BY DEF F!Confirm
<1> DEFINE t == [F!Idle EXCEPT !.pc = "record", !.s = s, !.row = fac[Of[s]],
                 !.proof = F!Totp(fac[Of[s]].secret, n)]
<1>2. /\ fac[Of[s]] \in FactorRows /\ fac[Of[s]].secret \in Nat /\ n \in Nat
      /\ fac[Of[s]].secret # 0 /\ fac[Of[s]].secret <= minted
  BY FactorAssumption DEF F!Confirm, FactorInv, FactorTypes, FactorRowsFit, FactorRows
<1>3. t \in FactorJobs /\ t.pc = "record" /\ t.row = fac[Of[s]]
      /\ t.proof = <<"totp", fac[Of[s]].secret, n>>
  BY IdleJob, <1>2 DEF FactorJobs, FactorPcs, F!Totp, Proofs
<1>4. factorTask' = [factorTask EXCEPT ![r] = t]
  BY <1>1 DEF F!Ask
<1>5. factorAsked' \in 0..MaxFactorRequests
  BY <1>1, FactorAssumption DEF F!Ask, FactorInv, FactorTypes
<1>6. UNCHANGED <<fac, codes, grant, device, ceremony, step, minted, era, earned>>
  BY DEF F!Confirm
<1> HIDE DEF t
<1>7. ProofFits(t) /\ t.proof[1] = "totp"
  BY <1>2, <1>3 DEF ProofFits
<1>8. JobHolds(t, fac, era, minted)
  BY <1>2, <1>3, <1>7 DEF JobHolds, Confirming
<1> QED
  BY <1>3, <1>4, <1>5, <1>6, <1>8, OnlyJobs

LEMMA FactorEvaluate ==
    ASSUME FactorInv, NEW r \in Reqs, NEW s \in LoginSids, F!Evaluate(r, s)
    PROVE  FactorInv'
<1>1. PICK o \in LoginSids :
        F!Ask(r, [F!Idle EXCEPT !.pc = "decide", !.s = s, !.grant = grant[o], !.from = o])
  BY DEF F!Evaluate
<1> DEFINE t == [F!Idle EXCEPT !.pc = "decide", !.s = s, !.grant = grant[o], !.from = o]
<1>2. t \in FactorJobs /\ t.pc = "decide" /\ t.grant = grant[o] /\ t.from = o
  BY IdleJob DEF FactorJobs, FactorPcs, FactorInv, FactorTypes
<1>3. factorTask' = [factorTask EXCEPT ![r] = t]
  BY <1>1 DEF F!Ask
<1>4. factorAsked' \in 0..MaxFactorRequests
  BY <1>1, FactorAssumption DEF F!Ask, FactorInv, FactorTypes
<1>5. UNCHANGED <<fac, codes, grant, device, ceremony, step, minted, era, earned>>
  BY DEF F!Evaluate
<1> HIDE DEF t
<1>6. JobHolds(t, fac, era, minted)
  BY <1>2 DEF JobHolds, Confirming, FactorInv, GrantsHold
<1> QED
  BY <1>2, <1>3, <1>4, <1>5, <1>6, OnlyJobs

LEMMA ConfirmedRead ==
    ASSUME FactorInv, NEW u \in FactorUsers, F!Confirmed(u)
    PROVE  /\ ReadOf(fac[u].secret, fac[u].epoch, era[u], u, fac, era, minted)
           /\ fac[u] \in FactorRows /\ fac[u].secret \in Nat /\ fac[u].epoch \in Nat
           /\ fac[u].secret # 0 /\ fac[u].secret <= minted /\ era[u] \in Nat
<1>1. /\ fac[u] \in FactorRows /\ fac[u].secret \in Nat /\ fac[u].epoch \in Nat
      /\ era[u] \in Nat
  BY DEF FactorInv, FactorTypes, FactorRows
<1>2. fac[u].secret # 0 /\ fac[u].secret <= minted
  BY DEF FactorInv, FactorRowsFit, F!Confirmed
<1>3. \A v \in FactorUsers \ {u} : fac[v].secret # fac[u].secret
  BY <1>2 DEF FactorInv, FactorRowsFit
<1> QED
  BY <1>1, <1>2, <1>3 DEF ReadOf, F!Confirmed

LEMMA FactorChallenge ==
    ASSUME FactorInv, NEW r \in Reqs, NEW s \in LoginSids, F!ChallengeSubmit(r, s)
    PROVE  FactorInv'
<1> DEFINE u == Of[s]
           t0 == [F!Idle EXCEPT !.s = s, !.row = fac[u], !.era = era[u]]
<1>1. u \in FactorUsers /\ F!Confirmed(u)
  BY FactorAssumption DEF F!ChallengeSubmit
<1>2. /\ ReadOf(fac[u].secret, fac[u].epoch, era[u], u, fac, era, minted)
      /\ fac[u] \in FactorRows /\ fac[u].secret \in Nat /\ fac[u].epoch \in Nat
      /\ fac[u].secret # 0 /\ fac[u].secret <= minted /\ era[u] \in Nat
  BY <1>1, ConfirmedRead
<1>3. UNCHANGED <<fac, codes, grant, device, ceremony, step, minted, era, earned>>
  BY DEF F!ChallengeSubmit
<1>4. ASSUME NEW n \in 1..MaxStep + 1,
             F!Ask(r, [t0 EXCEPT !.pc = "issue", !.grant.proven = fac[u].secret,
                                 !.proof = F!Totp(fac[u].secret, n)])
      PROVE  FactorInv'
  <2> DEFINE t == [t0 EXCEPT !.pc = "issue", !.grant.proven = fac[u].secret,
                             !.proof = F!Totp(fac[u].secret, n)]
  <2>1. n \in Nat
    BY FactorAssumption
  <2>2. /\ t \in FactorJobs /\ t.pc = "issue" /\ t.row = fac[u] /\ t.era = era[u] /\ t.s = s
        /\ t.grant.id = 0 /\ t.grant.age = 0 /\ t.grant.proven = fac[u].secret
        /\ t.proof = <<"totp", fac[u].secret, n>>
    BY IdleJob, <1>2, <2>1
    DEF FactorJobs, FactorPcs, F!Totp, Proofs, Grants, F!Idle, F!NoGrant
  <2>3. factorTask' = [factorTask EXCEPT ![r] = t]
    BY <1>4 DEF F!Ask
  <2>4. factorAsked' \in 0..MaxFactorRequests
    BY <1>4, FactorAssumption DEF F!Ask, FactorInv, FactorTypes
  <2> HIDE DEF t
  <2>5. ProofFits(t) /\ Backed(t.row.secret, t.grant, Of[t.s], fac)
    BY <2>2, <1>2 DEF ProofFits, Backed
  <2>6. JobHolds(t, fac, era, minted)
    BY <2>2, <2>5, <1>2 DEF JobHolds, Confirming
  <2> QED
    BY <2>2, <2>3, <2>4, <2>6, <1>3, OnlyJobs
<1>5. ASSUME F!Ask(r, [t0 EXCEPT !.pc = "match"])
      PROVE  FactorInv'
  <2> DEFINE t == [t0 EXCEPT !.pc = "match"]
  <2>2. /\ t \in FactorJobs /\ t.pc = "match" /\ t.row = fac[u] /\ t.era = era[u] /\ t.s = s
        /\ t.grant.id = 0 /\ t.grant.age = 0
    BY IdleJob, <1>2 DEF FactorJobs, FactorPcs, Grants, F!Idle, F!NoGrant
  <2>3. factorTask' = [factorTask EXCEPT ![r] = t]
    BY <1>5 DEF F!Ask
  <2>4. factorAsked' \in 0..MaxFactorRequests
    BY <1>5, FactorAssumption DEF F!Ask, FactorInv, FactorTypes
  <2> HIDE DEF t
  <2>6. JobHolds(t, fac, era, minted)
    BY <2>2, <1>2 DEF JobHolds, Confirming
  <2> QED
    BY <2>2, <2>3, <2>4, <2>6, <1>3, OnlyJobs
<1> QED
  BY <1>4, <1>5 DEF F!ChallengeSubmit

LEMMA FactorEnds ==
    ASSUME FactorInv, NEW r \in Reqs, F!End(r),
           UNCHANGED <<fac, codes, grant, device, ceremony, step, minted, era, earned>>
    PROVE  FactorInv'
<1>1. factorTask' = [factorTask EXCEPT ![r] = F!Idle] /\ factorAsked' = factorAsked
  BY DEF F!End, F!Then
<1>2. JobHolds(F!Idle, fac, era, minted)
  BY IdleJob, FreeJob
<1>3. factorAsked' \in 0..MaxFactorRequests
  BY <1>1 DEF FactorInv, FactorTypes
<1> QED
  BY <1>1, <1>2, <1>3, IdleJob, OnlyJobs

(* A step that changes the rows of one account.                            *)
LEMMA MovesOne ==
    ASSUME FactorInv, NEW u \in FactorUsers,
           fac' \in [FactorUsers -> FactorRows], era' \in [FactorUsers -> Nat],
           minted' \in Nat, minted <= minted',
           \A v \in FactorUsers \ {u} : fac'[v] = fac[v] /\ era'[v] = era[v],
           era[u] <= era'[u],
           \/ /\ fac'[u].secret = fac[u].secret
              /\ fac[u].st = "confirmed" => fac'[u].st = "confirmed"
              /\ fac[u].epoch <= fac'[u].epoch /\ fac[u].last <= fac'[u].last
              /\ fac'[u].epoch = fac[u].epoch /\ fac[u].secret # 0 => era'[u] = era[u]
           \/ /\ fac'[u].secret = 0 \/ fac'[u].secret > minted
              /\ fac[u].st = "confirmed" => era'[u] > era[u]
    PROVE  FactorMoves(fac, era, minted, fac', era', minted')
<1>1. \A v \in FactorUsers : fac[v].epoch \in Nat /\ fac[v].last \in Nat /\ era[v] \in Nat
  BY FactorAssumption DEF FactorInv, FactorTypes, FactorRows
<1>2. ASSUME NEW v \in FactorUsers
      PROVE  /\ era[v] <= era'[v]
             /\ \/ /\ fac'[v].secret = fac[v].secret
                   /\ fac[v].st = "confirmed" => fac'[v].st = "confirmed"
                   /\ fac[v].epoch <= fac'[v].epoch /\ fac[v].last <= fac'[v].last
                   /\ fac'[v].epoch = fac[v].epoch /\ fac[v].secret # 0 => era'[v] = era[v]
                \/ /\ fac'[v].secret = 0 \/ fac'[v].secret > minted
                   /\ fac[v].st = "confirmed" => era'[v] > era[v]
  <2>1. CASE v = u
    BY <2>1
  <2>2. CASE v # u
    BY <1>1, <2>2
  <2> QED
    BY <2>1, <2>2
<1> QED
  BY <1>2 DEF FactorMoves

LEMMA RowsFitOne ==
    ASSUME FactorInv, NEW u \in FactorUsers,
           fac' \in [FactorUsers -> FactorRows], minted' \in Nat, minted <= minted',
           \A v \in FactorUsers \ {u} : fac'[v] = fac[v] /\ codes'[v] = codes[v],
           codes'[u].gen \in Nat,
           fac'[u].secret \in {0, fac[u].secret} \/ fac'[u].secret > minted,
           codes'[u].gen \in {0, codes[u].gen} \/ codes'[u].gen > minted,
           fac'[u].secret <= minted', codes'[u].gen <= minted',
           IF fac'[u].st = "none" THEN fac'[u] = F!NoFactor ELSE fac'[u].secret # 0,
           IF fac'[u].st = "confirmed"
           THEN /\ fac'[u].proven = fac'[u].secret
                /\ codes'[u].gen = fac'[u].gen /\ codes'[u].gen # 0
           ELSE codes'[u] = F!NoCodes
    PROVE  FactorRowsFit'
<1>0. minted \in Nat /\ \A v \in FactorUsers :
        /\ fac[v].secret \in Nat /\ codes[v].gen \in Nat /\ fac'[v].secret \in Nat
        /\ codes'[v].gen \in Nat
  BY DEF FactorInv, FactorTypes, FactorRows
<1>1. \A v \in FactorUsers :
          /\ fac[v].secret <= minted /\ codes[v].gen <= minted
          /\ IF fac[v].st = "none" THEN fac[v] = F!NoFactor ELSE fac[v].secret # 0
          /\ IF fac[v].st = "confirmed"
             THEN /\ fac[v].proven = fac[v].secret
                  /\ codes[v].gen = fac[v].gen /\ codes[v].gen # 0
             ELSE codes[v] = F!NoCodes
  BY DEF FactorInv, FactorRowsFit
<1>2. \A v, w \in FactorUsers :
          v # w => /\ fac[v].secret = fac[w].secret => fac[v].secret = 0
                   /\ codes[v].gen = codes[w].gen => codes[v].gen = 0
  BY DEF FactorInv, FactorRowsFit
<1>3. ASSUME NEW v \in FactorUsers
      PROVE  /\ fac'[v].secret <= minted' /\ codes'[v].gen <= minted'
             /\ IF fac'[v].st = "none" THEN fac'[v] = F!NoFactor ELSE fac'[v].secret # 0
             /\ IF fac'[v].st = "confirmed"
                THEN /\ fac'[v].proven = fac'[v].secret
                     /\ codes'[v].gen = fac'[v].gen /\ codes'[v].gen # 0
                ELSE codes'[v] = F!NoCodes
  <2>1. CASE v = u
    BY <2>1
  <2>2. CASE v # u
    BY <1>0, <1>1, <2>2
  <2> QED
    BY <2>1, <2>2
<1>4. ASSUME NEW v \in FactorUsers, NEW w \in FactorUsers, v # w
      PROVE  /\ fac'[v].secret = fac'[w].secret => fac'[v].secret = 0
             /\ codes'[v].gen = codes'[w].gen => codes'[v].gen = 0
  <2>1. CASE v = u
    BY <1>0, <1>1, <1>2, <1>4, <2>1
  <2>2. CASE w = u
    BY <1>0, <1>1, <1>2, <1>4, <2>2
  <2>3. CASE v # u /\ w # u
    BY <1>2, <1>4, <2>3
  <2> QED
    BY <2>1, <2>2, <2>3
<1> QED
  BY <1>3, <1>4 DEF FactorRowsFit

LEMMA TaskFacts ==
    ASSUME FactorInv, NEW r \in Reqs
    PROVE  /\ factorTask[r] \in FactorJobs /\ JobHolds(factorTask[r], fac, era, minted)
           /\ factorTask[r].s \in LoginSids /\ factorTask[r].row \in FactorRows
           /\ factorTask[r].row.secret \in Nat /\ factorTask[r].row.epoch \in Nat
           /\ factorTask[r].proof \in Proofs /\ factorTask[r].proof[2] \in Nat
           /\ factorTask[r].proof[3] \in Nat /\ factorTask[r].era \in Nat
           /\ factorTask[r].grant \in Grants
           /\ F!User(r) = Of[factorTask[r].s] /\ F!Browser(r) = BrowserOf[factorTask[r].s]
           /\ F!User(r) \in FactorUsers /\ F!Browser(r) \in Browsers
<1>1. factorTask[r] \in FactorJobs /\ JobHolds(factorTask[r], fac, era, minted)
  BY DEF FactorInv, FactorTypes, JobsHold
<1> QED
  BY <1>1, FactorAssumption DEF FactorJobs, FactorRows, Proofs, F!User, F!Browser

LEMMA FactorReread ==
    ASSUME FactorInv, NEW r \in Reqs, F!RereadFactor(r)
    PROVE  FactorInv'
<1> DEFINE u == F!User(r)
           b == factorTask[r]
           t == [b EXCEPT !.pc = "issue", !.row = fac[u], !.proof = F!NoProof, !.era = era[u],
                   !.grant = [F!NoGrant EXCEPT !.proven = b.proof[2], !.late = era[u] # b.era]]
<1>1. /\ u \in FactorUsers /\ F!Confirmed(u) /\ b.pc = "reread"
      /\ factorTask' = [factorTask EXCEPT ![r] = t] /\ factorAsked' = factorAsked
      /\ UNCHANGED <<fac, codes, grant, device, ceremony, step, minted, era, earned>>
  BY TaskFacts DEF F!RereadFactor, F!Then
<1>2. /\ ReadOf(fac[u].secret, fac[u].epoch, era[u], u, fac, era, minted)
      /\ fac[u] \in FactorRows /\ fac[u].secret \in Nat /\ era[u] \in Nat
  BY <1>1, ConfirmedRead
<1>3. b.era = era[u] => fac[u].secret = b.proof[2]
  BY <1>1, TaskFacts DEF JobHolds
<1>4. /\ t \in FactorJobs /\ t.pc = "issue" /\ t.row = fac[u] /\ t.era = era[u] /\ t.s = b.s
      /\ t.proof = F!NoProof /\ t.grant.id = 0 /\ t.grant.age = 0
      /\ t.grant.proven = b.proof[2] /\ t.grant.late = (era[u] # b.era)
  <2>1. [F!NoGrant EXCEPT !.proven = b.proof[2], !.late = era[u] # b.era] \in Grants
    <3>1. \A p \in Nat, l \in BOOLEAN : [F!NoGrant EXCEPT !.proven = p, !.late = l] \in Grants
      BY IdleJob DEF Grants
    <3>2. (era[u] # b.era) \in BOOLEAN
      OBVIOUS
    <3> QED
      BY <3>1, <3>2, TaskFacts, Zenon
  <2>2. F!NoProof \in Proofs
    BY DEF F!NoProof, Proofs
  <2> QED
    BY <1>2, <2>1, <2>2, TaskFacts DEF FactorJobs, FactorPcs, F!NoGrant
<1>5. ProofFits(t) /\ Backed(t.row.secret, t.grant, Of[t.s], fac)
  <2>1. ProofFits(t)
    BY <1>4 DEF ProofFits, F!NoProof
  <2>2. t.grant.proven = t.row.secret \/ t.grant.late
    BY <1>3, <1>4
  <2> QED
    BY <2>1, <2>2 DEF Backed
<1>6. factorAsked' \in 0..MaxFactorRequests
  BY <1>1 DEF FactorInv, FactorTypes
<1>7. u = Of[t.s]
  BY <1>4, TaskFacts
<1> HIDE DEF t, u
<1>8. JobHolds(t, fac, era, minted)
  BY <1>2, <1>4, <1>5, <1>7 DEF JobHolds, Confirming
<1> QED
  BY <1>1, <1>4, <1>6, <1>8, OnlyJobs

LEMMA FactorCandidate ==
    ASSUME FactorInv, NEW r \in Reqs, F!FindRecoveryCandidate(r)
    PROVE  FactorInv'
<1> DEFINE u == F!User(r)
           b == factorTask[r]
<1>1. PICK i \in F!Unused(u) :
        F!Then(r, [b EXCEPT !.pc = "issue", !.grant.proven = fac[u].secret,
                            !.proof = F!Recovery(codes[u].gen, i)])
  BY DEF F!FindRecoveryCandidate
<1> DEFINE t == [b EXCEPT !.pc = "issue", !.grant.proven = fac[u].secret,
                          !.proof = F!Recovery(codes[u].gen, i)]
<1>2. /\ u \in FactorUsers /\ b.pc = "match" /\ b \in FactorJobs
      /\ factorTask' = [factorTask EXCEPT ![r] = t] /\ factorAsked' = factorAsked
      /\ UNCHANGED <<fac, codes, grant, device, ceremony, step, minted, era, earned>>
  BY <1>1, TaskFacts DEF F!FindRecoveryCandidate, F!Then
<1>3. i \in 1..CodesPerSet /\ i \in Nat /\ codes[u].gen # 0 /\ codes[u].gen \in Nat
  BY <1>2, FactorAssumption DEF F!Unused, FactorInv, FactorTypes
<1>4. fac[u].secret \in Nat
  BY <1>2 DEF FactorInv, FactorTypes, FactorRows
<1>5. /\ t \in FactorJobs /\ t.pc = "issue" /\ t.row = b.row /\ t.era = b.era /\ t.s = b.s
      /\ t.proof = <<"recovery", codes[u].gen, i>>
      /\ t.grant.id = b.grant.id /\ t.grant.age = b.grant.age /\ t.grant.proven = fac[u].secret
  BY <1>2, <1>3, <1>4 DEF FactorJobs, FactorPcs, Grants, Proofs, F!Recovery
<1>6. ProofFits(t)
  BY <1>3, <1>5 DEF ProofFits
<1>7. u = Of[t.s]
  BY <1>5, TaskFacts
<1>8. factorAsked' \in 0..MaxFactorRequests
  BY <1>2 DEF FactorInv, FactorTypes
<1> HIDE DEF t, u
<1>9. Backed(t.row.secret, t.grant, Of[t.s], fac)
  BY <1>5, <1>7 DEF Backed
<1>10. /\ ReadOf(b.row.secret, b.row.epoch, b.era, Of[b.s], fac, era, minted)
       /\ b.grant.id = 0 /\ b.grant.age = 0
  BY <1>2, TaskFacts DEF JobHolds
<1>11. JobHolds(t, fac, era, minted)
  BY <1>5, <1>6, <1>9, <1>10 DEF JobHolds, Confirming
<1> QED
  BY <1>2, <1>5, <1>8, <1>11, OnlyJobs

LEMMA EndJob ==
    ASSUME FactorInv, FactorMoves(fac, era, minted, fac', era', minted'), NEW r \in Reqs, F!End(r)
    PROVE  factorTask' \in [Reqs -> FactorJobs] /\ JobsHold'
           /\ factorAsked' \in 0..MaxFactorRequests
<1>1. factorTask' = [factorTask EXCEPT ![r] = F!Idle] /\ factorAsked' = factorAsked
  BY DEF F!End, F!Then
<1>2. JobHolds(F!Idle, fac', era', minted')
  BY IdleJob, FreeJob
<1>3. factorAsked' \in 0..MaxFactorRequests
  BY <1>1 DEF FactorInv, FactorTypes
<1>4. factorTask' \in [Reqs -> FactorJobs] /\ JobsHold'
  BY <1>1, <1>2, IdleJob, JobsKept
<1> QED
  BY <1>3, <1>4

LEMMA GrantsStay ==
    ASSUME FactorInv, FactorMoves(fac, era, minted, fac', era', minted'), grant' = grant
    PROVE  GrantsHold'
<1>1. grant \in [LoginSids -> Grants]
  BY DEF FactorInv, FactorTypes
<1>2. \A s \in LoginSids : grant'[s] = [grant[s] EXCEPT !.age = grant'[s].age]
  BY <1>1 DEF Grants
<1> QED
  BY <1>1, <1>2, GrantsKept

LEMMA FactorBegin ==
    ASSUME FactorInv, NEW r \in Reqs, F!BeginEnrollment(r)
    PROVE  FactorInv'
<1> DEFINE u == F!User(r)
           drawn == [st |-> "pending", secret |-> minted + 1, gen |-> minted + 1,
                   last |-> 0, epoch |-> fac[u].epoch, proven |-> 0]
<1>1. /\ u \in FactorUsers /\ F!Browser(r) \in Browsers /\ ~F!Confirmed(u)
      /\ minted' = minted + 1 /\ F!End(r)
      /\ ceremony' = [ceremony EXCEPT ![F!Browser(r)] = minted']
      /\ UNCHANGED <<codes, grant, device, step, era, earned>>
  BY TaskFacts DEF F!BeginEnrollment
<1>2. fac' = [fac EXCEPT ![u] = drawn]
  BY <1>1 DEF F!BeginEnrollment
<1>3. minted \in Nat /\ minted' \in Nat /\ fac[u].epoch \in Nat /\ era[u] \in Nat
      /\ fac \in [FactorUsers -> FactorRows] /\ era' \in [FactorUsers -> Nat]
  BY <1>1 DEF FactorInv, FactorTypes, FactorRows
<1>4. drawn \in FactorRows
  BY <1>1, <1>3, FactorAssumption DEF FactorRows
<1>5. fac' \in [FactorUsers -> FactorRows] /\ fac'[u] = drawn
      /\ \A v \in FactorUsers \ {u} : fac'[v] = fac[v]
  BY <1>1, <1>2, <1>3, <1>4
<1>6. /\ drawn.st = "pending" /\ drawn.secret = minted + 1
  OBVIOUS
<1> HIDE DEF u, drawn
<1>7. FactorMoves(fac, era, minted, fac', era', minted')
  BY <1>1, <1>3, <1>5, <1>6, MovesOne DEF F!Confirmed
<1>8. codes[u] = F!NoCodes
  BY <1>1 DEF FactorInv, FactorRowsFit, F!Confirmed
<1>9. FactorRowsFit'
  BY <1>1, <1>3, <1>5, <1>6, <1>8, RowsFitOne DEF F!NoCodes
<1>10. factorTask' \in [Reqs -> FactorJobs] /\ JobsHold' /\ factorAsked' \in 0..MaxFactorRequests
  BY <1>1, <1>7, EndJob
<1>11. GrantsHold'
  BY <1>1, <1>7, GrantsStay
<1>12. EarnedBehind'
  BY <1>1, <1>7, EarnedKept
<1>13. FactorTypes'
  BY <1>1, <1>3, <1>5, <1>10 DEF FactorInv, FactorTypes
<1> QED
  BY <1>9, <1>10, <1>11, <1>12, <1>13 DEF FactorInv

LEMMA FactorRecord ==
    ASSUME FactorInv, NEW r \in Reqs, F!RecordUsedStep(r)
    PROVE  FactorInv'
<1> DEFINE u == F!User(r)
           b == factorTask[r]
           t == [b EXCEPT !.pc = "confirm"]
<1>1. /\ u \in FactorUsers /\ b.pc = "record" /\ fac[u].st # "none" /\ fac[u].last < b.proof[3]
      /\ fac' = [fac EXCEPT ![u].last = b.proof[3]]
      /\ factorTask' = [factorTask EXCEPT ![r] = t] /\ factorAsked' = factorAsked
      /\ UNCHANGED <<codes, grant, device, ceremony, step, minted, era, earned>>
  BY TaskFacts DEF F!RecordUsedStep, F!FreshStep, F!Then
<1>2. /\ b \in FactorJobs /\ b.s \in LoginSids /\ u = Of[b.s]
      /\ b.proof[1] = "totp" /\ ProofFits(b) /\ b.row.secret # 0 /\ b.row.secret <= minted
  BY <1>1, TaskFacts DEF JobHolds, Confirming
<1>3. b.proof[3] \in 1..MaxStep + 1 /\ b.proof[3] \in Nat
  BY <1>2, FactorAssumption DEF ProofFits
<1>4. /\ fac \in [FactorUsers -> FactorRows] /\ minted \in Nat /\ minted' = minted
      /\ era \in [FactorUsers -> Nat] /\ era' = era /\ fac[u] \in FactorRows
      /\ fac[u].secret \in Nat /\ fac[u].epoch \in Nat /\ fac[u].last \in Nat
      /\ codes[u].gen \in Nat
  BY <1>1, FactorAssumption DEF FactorInv, FactorTypes, FactorRows
<1>5. /\ fac' \in [FactorUsers -> FactorRows] /\ fac'[u].secret = fac[u].secret
      /\ fac'[u].st = fac[u].st /\ fac'[u].epoch = fac[u].epoch /\ fac'[u].last = b.proof[3]
      /\ fac'[u].proven = fac[u].proven /\ fac'[u].gen = fac[u].gen
      /\ \A v \in FactorUsers \ {u} : fac'[v] = fac[v]
  BY <1>1, <1>3, <1>4 DEF FactorRows
<1>6. /\ t \in FactorJobs /\ t.pc = "confirm" /\ t.proof = b.proof /\ t.row = b.row /\ t.s = b.s
  BY <1>2 DEF FactorJobs, FactorPcs
<1> HIDE DEF u, t
<1>7. FactorMoves(fac, era, minted, fac', era', minted')
  <2>1. era'[u] = era[u] /\ era[u] \in Nat
    BY <1>1, <1>4
  <2>2. /\ fac[u].last <= fac'[u].last /\ fac[u].epoch <= fac'[u].epoch
        /\ minted' \in Nat /\ minted <= minted' /\ era[u] <= era'[u]
        /\ era' \in [FactorUsers -> Nat] /\ \A v \in FactorUsers \ {u} : era'[v] = era[v]
    BY <1>1, <1>3, <1>4, <1>5, <2>1
  <2>3. u \in FactorUsers
    BY <1>1
  <2> QED
    BY <1>5, <2>1, <2>2, <2>3, MovesOne
<1>8. FactorRowsFit'
  <2>1. /\ codes' = codes /\ fac[u].secret <= minted /\ codes[u].gen <= minted
        /\ fac[u].secret # 0
        /\ IF fac[u].st = "confirmed"
             THEN /\ fac[u].proven = fac[u].secret
                  /\ codes[u].gen = fac[u].gen /\ codes[u].gen # 0
             ELSE codes[u] = F!NoCodes
    BY <1>1 DEF FactorInv, FactorRowsFit
  <2> QED
    BY <1>1, <1>4, <1>5, <2>1, RowsFitOne
<1>9. ProofFits(t)
  BY <1>2, <1>6 DEF ProofFits
<1>10. JobHolds(t, fac', era', minted')
  BY <1>2, <1>3, <1>4, <1>5, <1>6, <1>9 DEF JobHolds, Confirming
<1>11. factorTask' \in [Reqs -> FactorJobs] /\ JobsHold'
  BY <1>1, <1>6, <1>7, <1>10, JobsKept
<1>12. GrantsHold' /\ EarnedBehind'
  BY <1>1, <1>7, GrantsStay, EarnedKept
<1>13. FactorTypes'
  BY <1>1, <1>4, <1>5, <1>11 DEF FactorInv, FactorTypes
<1> QED
  BY <1>8, <1>11, <1>12, <1>13 DEF FactorInv

LEMMA FactorConfirmed ==
    ASSUME FactorInv, NEW r \in Reqs, F!ConfirmWithRecoveryCodes(r)
    PROVE  FactorInv'
<1> DEFINE u == F!User(r)
           b == factorTask[r]
           t == [b EXCEPT !.pc = "reread", !.era = era[u]]
           new == <<b.proof, minted', TRUE>>
<1>1. /\ u \in FactorUsers /\ F!Browser(r) \in Browsers /\ b.pc = "confirm"
      /\ fac[u].st = "pending" /\ fac[u].secret = b.row.secret /\ minted' = minted + 1
      /\ fac' = [fac EXCEPT ![u].st = "confirmed", ![u].gen = minted',
                            ![u].proven = b.proof[2]]
      /\ codes' = [codes EXCEPT ![u] = [gen |-> minted', used |-> {}]]
      /\ ceremony' = [ceremony EXCEPT ![F!Browser(r)] = 0]
      /\ earned' = earned \cup {new}
      /\ factorTask' = [factorTask EXCEPT ![r] = t] /\ factorAsked' = factorAsked
      /\ UNCHANGED <<grant, device, step, era>>
  BY TaskFacts DEF F!ConfirmWithRecoveryCodes, F!ConfirmCas, F!FreshCodes, F!Then
<1>2. /\ b \in FactorJobs /\ u = Of[b.s] /\ b.proof \in Proofs
      /\ b.proof[1] = "totp" /\ ProofFits(b) /\ b.row.secret # 0 /\ b.row.secret <= minted
      /\ b.proof[3] <= fac[u].last /\ b.proof[2] \in Nat /\ b.proof[3] \in Nat
  BY <1>1, TaskFacts DEF JobHolds, Confirming
<1>3. b.proof[2] = fac[u].secret /\ fac[u].secret # 0 /\ fac[u].secret <= minted
  BY <1>1, <1>2 DEF ProofFits
<1>4. /\ fac \in [FactorUsers -> FactorRows] /\ minted \in Nat /\ minted' \in Nat
      /\ era \in [FactorUsers -> Nat] /\ era' = era /\ fac[u] \in FactorRows
      /\ fac[u].secret \in Nat /\ fac[u].epoch \in Nat /\ fac[u].last \in Nat
      /\ era[u] \in Nat
      /\ codes \in [FactorUsers -> [gen : Nat, used : SUBSET (1..CodesPerSet)]]
      /\ earned \subseteq (Proofs \X Nat \X BOOLEAN)
  BY <1>1, FactorAssumption DEF FactorInv, FactorTypes, FactorRows
<1>5. /\ fac' \in [FactorUsers -> FactorRows] /\ fac'[u].secret = fac[u].secret
      /\ fac'[u].st = "confirmed" /\ fac'[u].epoch = fac[u].epoch /\ fac'[u].last = fac[u].last
      /\ fac'[u].proven = fac[u].secret /\ fac'[u].gen = minted'
      /\ \A v \in FactorUsers \ {u} : fac'[v] = fac[v]
  BY <1>1, <1>3, <1>4 DEF FactorRows
<1>6. /\ codes' \in [FactorUsers -> [gen : Nat, used : SUBSET (1..CodesPerSet)]]
      /\ codes'[u].gen = minted' /\ codes'[u].used = {}
      /\ \A v \in FactorUsers \ {u} : codes'[v] = codes[v]
  BY <1>1, <1>4
<1>7. /\ t \in FactorJobs /\ t.pc = "reread" /\ t.proof = b.proof /\ t.era = era[u] /\ t.s = b.s
  BY <1>2, <1>4 DEF FactorJobs, FactorPcs
<1>8. new[1] = b.proof /\ new[3] /\ new \in Proofs \X Nat \X BOOLEAN
  BY <1>2, <1>4
<1> HIDE DEF u, t, new
<1>9. FactorMoves(fac, era, minted, fac', era', minted')
  <2>1. /\ fac[u].last <= fac'[u].last /\ fac[u].epoch <= fac'[u].epoch
        /\ minted <= minted' /\ era[u] <= era'[u] /\ era'[u] = era[u]
        /\ era' \in [FactorUsers -> Nat] /\ \A v \in FactorUsers \ {u} : era'[v] = era[v]
    BY <1>1, <1>4, <1>5
  <2>2. u \in FactorUsers
    BY <1>1
  <2> QED
    BY <1>4, <1>5, <2>1, <2>2, MovesOne
<1>10. FactorRowsFit'
  <2>1. fac'[u].secret <= minted' /\ minted <= minted' /\ minted' > minted /\ minted' # 0
        /\ codes'[u].gen <= minted' /\ fac'[u].secret # 0
    <3>1. minted' = minted + 1
      BY <1>1
    <3> QED
      BY <1>3, <1>4, <1>5, <1>6, <3>1
  <2> QED
    BY <1>1, <1>4, <1>5, <1>6, <2>1, RowsFitOne
<1>11. JobHolds(t, fac', era', minted')
  <2>1. /\ t.pc = "reread" /\ Of[t.s] = u /\ t.era = era'[u] /\ era'[u] \in Nat
        /\ fac'[u].st = "confirmed" /\ fac'[u].secret = t.proof[2]
    BY <1>2, <1>3, <1>4, <1>5, <1>7
  <2> QED
    BY <2>1 DEF JobHolds, Confirming
<1>12. factorTask' \in [Reqs -> FactorJobs] /\ JobsHold'
  BY <1>1, <1>7, <1>9, <1>11, JobsKept
<1>13. GrantsHold'
  BY <1>1, <1>9, GrantsStay
<1>14. EarnedBehind'
  <2>1. \A x \in earned : /\ StepsBehind(x, fac') /\ x[1][2] # 0 /\ x[1][2] <= minted'
                          /\ x[1][1] \in {"totp", "recovery"} /\ x[1][2] <= minted
                          /\ x[1][2] \in Nat
    BY <1>4, <1>9, StepsKept DEF FactorInv, EarnedBehind, Proofs
  <2>2. StepsBehind(new, fac')
    <3>1. \A v \in FactorUsers : fac'[v].secret = fac[u].secret => v = u
      <4>1. u \in FactorUsers
        BY <1>1
      <4> QED
        BY <1>3, <1>5, <1>10, <4>1 DEF FactorRowsFit
    <3>2. b.proof[3] <= fac'[u].last /\ fac'[u].st = "confirmed"
      BY <1>2, <1>5
    <3> QED
      BY <1>3, <1>8, <3>1, <3>2 DEF StepsBehind
  <2>3. \A x \in earned : x[3] => x[1] # new[1]
    <3>1. /\ u \in FactorUsers /\ fac[u].st # "confirmed" /\ new[1][1] = "totp"
          /\ new[1][2] = fac[u].secret
      BY <1>1, <1>2, <1>3, <1>8
    <3>2. \A x \in earned : StepsBehind(x, fac)
      BY DEF FactorInv, EarnedBehind
    <3> QED
      BY <3>1, <3>2 DEF StepsBehind
  <2>4. /\ new[1][1] = "totp" /\ new[1][2] # 0 /\ new[1][2] <= minted'
    <3>1. b.proof[1] = "totp" /\ b.proof[2] # 0 /\ b.proof[2] <= minted /\ b.proof[2] \in Nat
      BY <1>2, <1>3
    <3>2. minted \in Nat /\ minted' = minted + 1
      BY <1>1, <1>4
    <3>3. b.proof[2] <= minted'
      BY <3>1, <3>2
    <3> QED
      BY <1>8, <3>1, <3>3
  <2>5. \A x, y \in earned' : x[3] /\ y[3] /\ x[1] = y[1] => x = y
    BY <1>1, <2>3 DEF FactorInv, EarnedBehind
  <2>6. ASSUME NEW v \in FactorUsers, codes'[v].gen # 0, NEW i \in 1..CodesPerSet
        PROVE  i \in codes'[v].used <=>
                 \E x \in earned' : x[1] = <<"recovery", codes'[v].gen, i>>
    <3>1. CASE v = u
      <4>1. \A x \in earned : x[1] # <<"recovery", codes'[v].gen, i>>
        <5>1. minted' > minted
          BY <1>1, <1>4
        <5> QED
          BY <1>4, <1>6, <2>1, <3>1, <5>1
      <4>2. new[1] # <<"recovery", codes'[v].gen, i>>
        BY <2>4
      <4> QED
        BY <1>1, <1>6, <3>1, <4>1, <4>2
    <3>2. CASE v # u
      <4>1. new[1] # <<"recovery", codes'[v].gen, i>>
        BY <2>4
      <4>2. codes'[v] = codes[v]
        BY <1>6, <3>2
      <4>3. i \in codes[v].used <=> \E x \in earned : x[1] = <<"recovery", codes[v].gen, i>>
        BY <2>6, <4>2 DEF FactorInv, EarnedBehind
      <4> QED
        BY <1>1, <4>1, <4>2, <4>3
    <3> QED
      BY <3>1, <3>2
  <2>7. \A x \in earned' : /\ x[1][1] \in {"totp", "recovery"}
                           /\ x[1][2] # 0 /\ x[1][2] <= minted' /\ StepsBehind(x, fac')
    BY <1>1, <2>1, <2>2, <2>4
  <2> QED
    BY <2>5, <2>6, <2>7 DEF EarnedBehind
<1>15. FactorTypes'
  <2>1. /\ device' \in [Browsers -> 0..minted'] /\ ceremony' \in [Browsers -> 0..minted']
    BY <1>1, <1>4 DEF FactorInv, FactorTypes
  <2>2. earned' \subseteq (Proofs \X Nat \X BOOLEAN)
    BY <1>1, <1>4, <1>8
  <2> QED
    BY <1>1, <1>4, <1>5, <1>6, <1>12, <2>1, <2>2 DEF FactorInv, FactorTypes
<1> QED
  BY <1>10, <1>12, <1>13, <1>14, <1>15 DEF FactorInv

LEMMA FactorRegenerate ==
    ASSUME FactorInv, NEW r \in Reqs, F!RegenerateRecovery(r)
    PROVE  FactorInv'
<1> DEFINE u == F!User(r)
<1>1. /\ u \in FactorUsers /\ fac[u].st = "confirmed" /\ minted' = minted + 1
      /\ fac' = [fac EXCEPT ![u].gen = minted']
      /\ codes' = [codes EXCEPT ![u] = [gen |-> minted', used |-> {}]]
      /\ F!End(r) /\ UNCHANGED <<grant, device, ceremony, step, era, earned>>
  BY TaskFacts DEF F!RegenerateRecovery, F!RegenerateCas, F!Confirmed, F!FreshCodes
<1>2. /\ fac \in [FactorUsers -> FactorRows] /\ minted \in Nat /\ minted' \in Nat
      /\ era \in [FactorUsers -> Nat] /\ era' = era /\ fac[u] \in FactorRows
      /\ fac[u].secret \in Nat /\ fac[u].epoch \in Nat /\ fac[u].last \in Nat
      /\ era[u] \in Nat
      /\ codes \in [FactorUsers -> [gen : Nat, used : SUBSET (1..CodesPerSet)]]
      /\ fac[u].secret # 0 /\ fac[u].proven = fac[u].secret /\ fac[u].secret <= minted
  BY <1>1, FactorAssumption DEF FactorInv, FactorTypes, FactorRows, FactorRowsFit
<1>3. /\ fac' \in [FactorUsers -> FactorRows] /\ fac'[u].secret = fac[u].secret
      /\ fac'[u].st = "confirmed" /\ fac'[u].epoch = fac[u].epoch /\ fac'[u].last = fac[u].last
      /\ fac'[u].proven = fac[u].secret /\ fac'[u].gen = minted'
      /\ \A v \in FactorUsers \ {u} : fac'[v] = fac[v]
  BY <1>1, <1>2 DEF FactorRows
<1>4. /\ codes' \in [FactorUsers -> [gen : Nat, used : SUBSET (1..CodesPerSet)]]
      /\ codes'[u].gen = minted' /\ codes'[u].used = {}
      /\ \A v \in FactorUsers \ {u} : codes'[v] = codes[v]
  BY <1>1, <1>2
<1> HIDE DEF u
<1>5. FactorMoves(fac, era, minted, fac', era', minted')
  <2>1. /\ fac[u].last <= fac'[u].last /\ fac[u].epoch <= fac'[u].epoch
        /\ minted <= minted' /\ era[u] <= era'[u] /\ era'[u] = era[u]
        /\ era' \in [FactorUsers -> Nat] /\ \A v \in FactorUsers \ {u} : era'[v] = era[v]
    BY <1>1, <1>2, <1>3
  <2>2. u \in FactorUsers
    BY <1>1
  <2> QED
    BY <1>2, <1>3, <2>1, <2>2, MovesOne
<1>6. FactorRowsFit'
  <2>1. fac'[u].secret <= minted' /\ minted <= minted' /\ minted' > minted /\ minted' # 0
        /\ codes'[u].gen <= minted' /\ fac'[u].secret # 0
    BY <1>1, <1>2, <1>3, <1>4
  <2> QED
    BY <1>1, <1>2, <1>3, <1>4, <2>1, RowsFitOne
<1>7. factorTask' \in [Reqs -> FactorJobs] /\ JobsHold' /\ factorAsked' \in 0..MaxFactorRequests
  BY <1>1, <1>5, EndJob
<1>8. GrantsHold'
  BY <1>1, <1>5, GrantsStay
<1>9. EarnedBehind'
  <2>1. \A x \in earned : /\ StepsBehind(x, fac') /\ x[1][2] # 0 /\ x[1][2] <= minted'
                          /\ x[1][1] \in {"totp", "recovery"} /\ x[1][2] <= minted
                          /\ x[1][2] \in Nat
    BY <1>5, StepsKept DEF FactorInv, FactorTypes, EarnedBehind, Proofs
  <2>2. ASSUME NEW v \in FactorUsers, codes'[v].gen # 0, NEW i \in 1..CodesPerSet
        PROVE  i \in codes'[v].used <=>
                 \E x \in earned : x[1] = <<"recovery", codes'[v].gen, i>>
    <3>1. CASE v = u
      <4>1. minted' > minted
        BY <1>1, <1>2
      <4> QED
        BY <1>2, <1>4, <2>1, <3>1, <4>1
    <3>2. CASE v # u
      <4>1. codes'[v] = codes[v]
        BY <1>4, <3>2
      <4> QED
        BY <2>2, <4>1 DEF FactorInv, EarnedBehind
    <3> QED
      BY <3>1, <3>2
  <2> QED
    BY <1>1, <2>1, <2>2 DEF FactorInv, EarnedBehind
<1>10. FactorTypes'
  <2>1. /\ device' \in [Browsers -> 0..minted'] /\ ceremony' \in [Browsers -> 0..minted']
    BY <1>1, <1>2 DEF FactorInv, FactorTypes
  <2> QED
    BY <1>1, <1>2, <1>3, <1>4, <1>7, <2>1 DEF FactorInv, FactorTypes
<1> QED
  BY <1>6, <1>7, <1>8, <1>9, <1>10 DEF FactorInv

LEMMA FactorIssue ==
    ASSUME FactorInv, NEW r \in Reqs, F!Issue(r)
    PROVE  FactorInv'
<1> DEFINE u == F!User(r)
           b == factorTask[r]
           p == b.proof
           g == [b.grant EXCEPT !.id = minted', !.era = b.era, !.factor = b.row.secret,
                                !.epoch = b.row.epoch]
           new == <<p, minted', b.row.secret = fac[u].secret>>
<1>1. /\ u \in FactorUsers /\ F!Browser(r) \in Browsers /\ b.pc = "issue"
      /\ fac[u].st # "none" /\ F!Spendable(u, p) /\ minted' = minted + 1
      /\ fac' = [fac EXCEPT ![u].last = IF p[1] = "totp" THEN p[3] ELSE @]
      /\ codes' = [codes EXCEPT ![u].used = IF p[1] = "recovery" THEN @ \cup {p[3]} ELSE @]
      /\ grant' = [s \in LoginSids |->
                      IF s = b.s THEN g
                      ELSE IF Of[s] = u /\ grant[s].age = 2 THEN F!NoGrant ELSE grant[s]]
      /\ device' = [device EXCEPT ![F!Browser(r)] = minted']
      /\ earned' = IF p = F!NoProof THEN earned ELSE earned \cup {new}
      /\ F!End(r) /\ UNCHANGED <<ceremony, step, era>>
  BY TaskFacts DEF F!Issue, F!EpochOk, F!IssueDeviceCookie
<1>2. /\ b \in FactorJobs /\ u = Of[b.s] /\ b.s \in LoginSids /\ p \in Proofs
      /\ b.grant \in Grants /\ b.era \in Nat /\ b.row.secret \in Nat /\ b.row.epoch \in Nat
      /\ p[1] \in {"none", "totp", "recovery"} /\ p[2] \in Nat /\ p[3] \in Nat
      /\ p = <<p[1], p[2], p[3]>>
  BY TaskFacts DEF Proofs
<1>3. /\ ReadOf(b.row.secret, b.row.epoch, b.era, u, fac, era, minted)
      /\ b.grant.id = 0 /\ b.grant.age = 0
      /\ Backed(b.row.secret, b.grant, u, fac) /\ ProofFits(b)
  BY <1>1, <1>2, TaskFacts DEF JobHolds
<1>4. /\ b.row.secret # 0 /\ b.row.secret <= minted
      /\ \A v \in FactorUsers \ {u} : fac[v].secret # b.row.secret
      /\ b.row.secret = fac[u].secret => fac[u].st = "confirmed"
  BY <1>3 DEF ReadOf
<1>5. /\ p[1] = "totp" => p[2] = b.row.secret /\ p[3] \in 1..MaxStep + 1
      /\ p[1] = "recovery" => p[2] # 0 /\ p[3] \in 1..CodesPerSet
      /\ p[1] = "none" <=> p = F!NoProof
  BY <1>3 DEF ProofFits, F!NoProof
<1>6. /\ fac \in [FactorUsers -> FactorRows] /\ minted \in Nat /\ minted' \in Nat
      /\ era \in [FactorUsers -> Nat] /\ era' = era /\ fac[u] \in FactorRows
      /\ fac[u].secret \in Nat /\ fac[u].epoch \in Nat /\ fac[u].last \in Nat
      /\ era[u] \in Nat /\ grant \in [LoginSids -> Grants]
      /\ codes \in [FactorUsers -> [gen : Nat, used : SUBSET (1..CodesPerSet)]]
      /\ codes[u].gen \in Nat /\ codes[u].used \subseteq 1..CodesPerSet
      /\ earned \subseteq (Proofs \X Nat \X BOOLEAN)
  BY <1>1, FactorAssumption DEF FactorInv, FactorTypes, FactorRows
<1>7. /\ p[1] = "totp" => fac[u].last < p[3]
      /\ p[1] = "recovery" => /\ codes[u].gen = p[2] /\ p[3] \in 1..CodesPerSet
                              /\ p[3] \notin codes[u].used
  BY <1>1, <1>5 DEF F!Spendable, F!FreshStep, F!Unspent, F!Unused
<1>8. /\ fac' \in [FactorUsers -> FactorRows] /\ fac'[u].secret = fac[u].secret
      /\ fac'[u].st = fac[u].st /\ fac'[u].epoch = fac[u].epoch
      /\ fac'[u].last = IF p[1] = "totp" THEN p[3] ELSE fac[u].last
      /\ fac'[u].proven = fac[u].proven /\ fac'[u].gen = fac[u].gen
      /\ \A v \in FactorUsers \ {u} : fac'[v] = fac[v]
  <2> DEFINE l == IF p[1] = "totp" THEN p[3] ELSE fac[u].last
             newRow == [fac[u] EXCEPT !.last = l]
  <2>1. fac' = [fac EXCEPT ![u] = newRow] /\ u \in FactorUsers
    BY <1>1
  <2>2. l \in 0..MaxStep + 1
    <3>1. fac[u].last \in 0..MaxStep + 1
      BY <1>6 DEF FactorRows
    <3>2. p[1] = "totp" => p[3] \in 0..MaxStep + 1
      BY <1>5, FactorAssumption
    <3> QED
      BY <3>1, <3>2
  <2>3. l = IF p[1] = "totp" THEN p[3] ELSE fac[u].last
    OBVIOUS
  <2> HIDE DEF l
  <2>4. /\ newRow \in FactorRows /\ newRow.secret = fac[u].secret /\ newRow.st = fac[u].st
        /\ newRow.epoch = fac[u].epoch /\ newRow.last = l
        /\ newRow.proven = fac[u].proven /\ newRow.gen = fac[u].gen
    BY <1>6, <2>2 DEF FactorRows
  <2> HIDE DEF newRow
  <2>5. fac' \in [FactorUsers -> FactorRows] /\ fac'[u] = newRow
        /\ \A v \in FactorUsers \ {u} : fac'[v] = fac[v]
    BY <1>6, <2>1, <2>4
  <2> QED
    BY <2>3, <2>4, <2>5
<1>9. /\ codes' \in [FactorUsers -> [gen : Nat, used : SUBSET (1..CodesPerSet)]]
      /\ codes'[u].gen = codes[u].gen
      /\ codes'[u].used = IF p[1] = "recovery" THEN codes[u].used \cup {p[3]} ELSE codes[u].used
      /\ \A v \in FactorUsers \ {u} : codes'[v] = codes[v]
      /\ p[1] # "recovery" => codes'[u] = codes[u]
  BY <1>1, <1>5, <1>6
<1>10. /\ g \in Grants /\ g.id = minted' /\ g.era = b.era /\ g.factor = b.row.secret
       /\ g.epoch = b.row.epoch /\ g.proven = b.grant.proven /\ g.late = b.grant.late
  BY <1>2, <1>6 DEF Grants
<1>11. new[1] = p /\ new[3] = (b.row.secret = fac[u].secret) /\ new \in Proofs \X Nat \X BOOLEAN
  BY <1>2, <1>6
<1> HIDE DEF u, g, new, p
<1>12. FactorMoves(fac, era, minted, fac', era', minted')
  <2>1. /\ fac[u].last <= fac'[u].last /\ fac[u].epoch <= fac'[u].epoch
        /\ minted <= minted' /\ era[u] <= era'[u] /\ era'[u] = era[u]
        /\ era' \in [FactorUsers -> Nat] /\ \A v \in FactorUsers \ {u} : era'[v] = era[v]
    <3>1. minted' = minted + 1 /\ u \in FactorUsers
      BY <1>1
    <3>2. fac[u].last <= fac'[u].last /\ fac[u].epoch <= fac'[u].epoch
      <4>1. /\ fac[u].last \in Nat /\ fac[u].epoch \in Nat /\ p[3] \in Nat
            /\ p[1] = "totp" => fac[u].last < p[3]
        BY <1>2, <1>6, <1>7
      <4>2. /\ fac'[u].epoch = fac[u].epoch
            /\ fac'[u].last = IF p[1] = "totp" THEN p[3] ELSE fac[u].last
        BY <1>8
      <4> QED
        BY <4>1, <4>2
    <3>3. minted <= minted' /\ era[u] <= era'[u]
      BY <1>6, <3>1
    <3> QED
      BY <1>6, <3>2, <3>3
  <2>2. u \in FactorUsers
    BY <1>1
  <2> QED
    BY <1>6, <1>8, <2>1, <2>2, MovesOne
<1>13. FactorRowsFit'
  <2>1. /\ fac[u].secret <= minted /\ codes[u].gen <= minted /\ fac[u].secret # 0
        /\ IF fac[u].st = "confirmed"
             THEN /\ fac[u].proven = fac[u].secret
                  /\ codes[u].gen = fac[u].gen /\ codes[u].gen # 0
             ELSE codes[u] = F!NoCodes
    BY <1>1 DEF FactorInv, FactorRowsFit
  <2>2. minted <= minted' /\ fac[u].secret <= minted' /\ codes[u].gen <= minted'
    BY <1>1, <1>6, <2>1
  <2>3. fac[u].st # "confirmed" => codes'[u] = codes[u]
    <3>1. p[1] = "recovery" => codes[u].gen # 0
      BY <1>5, <1>7
    <3> QED
      BY <1>9, <2>1, <3>1 DEF F!NoCodes
  <2> QED
    <3>1. /\ minted' \in Nat /\ fac' \in [FactorUsers -> FactorRows] /\ u \in FactorUsers
          /\ \A v \in FactorUsers \ {u} : fac'[v] = fac[v] /\ codes'[v] = codes[v]
      BY <1>1, <1>6, <1>8, <1>9
    <3>2. /\ fac'[u].secret = fac[u].secret /\ fac'[u].st = fac[u].st /\ fac[u].st # "none"
          /\ fac'[u].proven = fac[u].proven /\ fac'[u].gen = fac[u].gen
          /\ codes'[u].gen = codes[u].gen /\ codes[u].gen \in Nat
      BY <1>1, <1>6, <1>8, <1>9
    <3> QED
      BY <2>1, <2>2, <2>3, <3>1, <3>2, RowsFitOne
<1>14. factorTask' \in [Reqs -> FactorJobs] /\ JobsHold' /\ factorAsked' \in 0..MaxFactorRequests
  BY <1>1, <1>12, EndJob
<1>15. grant' \in [LoginSids -> Grants] /\ GrantsHold'
  <2>1. grant' \in [LoginSids -> Grants]
    BY <1>1, <1>6, <1>10, IdleJob
  <2>2. \A s \in LoginSids : /\ grant[s].id \in Nat /\ grant[s].id <= minted
                             /\ GrantHolds(grant[s], Of[s], fac', era', minted')
    <3> SUFFICES ASSUME NEW s \in LoginSids
                 PROVE  /\ grant[s].id \in Nat /\ grant[s].id <= minted
                        /\ GrantHolds(grant[s], Of[s], fac', era', minted')
      OBVIOUS
    <3>1. grant[s] \in Grants /\ Of[s] \in FactorUsers
      BY <1>6, FactorAssumption
    <3>2. GrantHolds(grant[s], Of[s], fac, era, minted)
      BY DEF FactorInv, GrantsHold
    <3>3. GrantHolds(grant[s], Of[s], fac', era', minted')
      BY <1>6, <1>12, <3>1, <3>2, GrantKept
    <3> QED
      BY <3>1, <3>2, <3>3 DEF Grants, GrantHolds
  <2>3. GrantHolds(g, u, fac', era', minted')
    <3>0. u \in FactorUsers
      BY <1>1
    <3>1. ReadOf(g.factor, g.epoch, g.era, u, fac', era', minted')
      <4>1. ReadOf(b.row.secret, b.row.epoch, b.era, u, fac', era', minted')
        BY <3>0, <1>2, <1>3, <1>6, <1>12, ReadKept
      <4> QED
        BY <4>1, <1>10
    <3>2. Backed(b.row.secret, b.grant, u, fac')
      BY <3>0, <1>2, <1>3, <1>4, <1>6, <1>12, BackedKept
    <3>3. Backed(g.factor, g, u, fac')
      BY <3>2, <1>10 DEF Backed
    <3> QED
      BY <1>6, <1>10, <3>1, <3>3 DEF GrantHolds
  <2>4. \A s \in LoginSids : /\ s = b.s => grant'[s] = g
                             /\ s # b.s => grant'[s] \in {F!NoGrant, grant[s]}
    BY <1>1
  <2>5. F!NoGrant.id = 0 /\ \A v : GrantHolds(F!NoGrant, v, fac', era', minted')
    BY <1>6 DEF F!NoGrant, GrantHolds
  <2>6. \A s \in LoginSids : GrantHolds(grant'[s], Of[s], fac', era', minted')
    BY <1>2, <2>2, <2>3, <2>4, <2>5
  <2>7. \A s, o \in LoginSids : grant'[s].id = grant'[o].id /\ s # o => grant'[s].id = 0
    <3>1. \A s \in LoginSids : s # b.s => grant'[s].id # minted'
      BY <1>1, <1>6, <2>2, <2>4, <2>5
    <3>2. \A s, o \in LoginSids : grant[s].id = grant[o].id /\ s # o => grant[s].id = 0
      BY DEF FactorInv, GrantsHold
    <3> QED
      BY <1>10, <2>4, <2>5, <3>1, <3>2
  <2> QED
    BY <2>1, <2>6, <2>7 DEF GrantsHold
<1>16. EarnedBehind'
  <2>1. \A x \in earned : /\ StepsBehind(x, fac') /\ x[1][2] # 0 /\ x[1][2] <= minted'
                          /\ x[1][1] \in {"totp", "recovery"} /\ x[1][2] <= minted
                          /\ x[1][2] \in Nat
    BY <1>6, <1>12, StepsKept DEF FactorInv, EarnedBehind, Proofs
  <2>2. \A v \in FactorUsers : codes[v].gen # 0 => \A i \in 1..CodesPerSet :
          i \in codes[v].used <=> \E x \in earned : x[1] = <<"recovery", codes[v].gen, i>>
    BY DEF FactorInv, EarnedBehind
  <2>3. CASE p[1] = "none"
    <3>1. earned' = earned /\ codes' = codes
      <4>1. earned' = earned
        BY <1>1, <1>5, <2>3
      <4>2. \A v \in FactorUsers : codes'[v] = codes[v]
        BY <1>9, <2>3
      <4> QED
        BY <1>6, <1>9, <4>1, <4>2
    <3> QED
      BY <1>12, <3>1, EarnedKept
  <2>4. CASE p[1] # "none"
    <3>1. earned' = earned \cup {new}
      BY <1>1, <1>5, <2>4
    <3>2. StepsBehind(new, fac')
      <4> SUFFICES ASSUME b.row.secret = fac[u].secret, p[1] = "totp",
                          NEW v \in FactorUsers, fac'[v].secret = p[2]
                   PROVE  fac'[v].st = "confirmed" /\ p[3] <= fac'[v].last
        BY <1>11 DEF StepsBehind
      <4>1. v = u
        BY <1>4, <1>5, <1>8
      <4>2. fac'[u].last = p[3]
        BY <1>8
      <4> QED
        <5>1. p[3] \in Nat /\ fac'[u].st = "confirmed"
          BY <1>2, <1>4, <1>8
        <5> QED
          BY <4>1, <4>2, <5>1
    <3>3. \A x \in earned : x[3] /\ new[3] => x[1] # new[1]
      <4>1. CASE p[1] = "totp"
        <5> SUFFICES ASSUME NEW x \in earned, x[3], b.row.secret = fac[u].secret, x[1] = p
                     PROVE  FALSE
          BY <1>11
        <5>1. p[3] <= fac[u].last
          BY <1>1, <1>5, <4>1 DEF FactorInv, EarnedBehind, StepsBehind
        <5> QED
          BY <1>2, <1>6, <1>7, <4>1, <5>1
      <4>2. CASE p[1] = "recovery"
        <5>1. p = <<"recovery", codes[u].gen, p[3]>> /\ codes[u].gen # 0
          BY <1>2, <1>5, <1>7, <4>2
        <5>2. ~ \E x \in earned : x[1] = <<"recovery", codes[u].gen, p[3]>>
          BY <1>1, <1>7, <2>2, <4>2, <5>1
        <5> QED
          BY <1>11, <5>1, <5>2
      <4> QED
        BY <1>2, <2>4, <4>1, <4>2
    <3>4. new[1][1] \in {"totp", "recovery"} /\ new[1][2] # 0 /\ new[1][2] <= minted'
      <4>1. p[1] \in {"totp", "recovery"} /\ p[2] # 0
        BY <1>2, <1>4, <1>5, <2>4
      <4>2. p[2] <= minted
        <5>1. codes[u].gen <= minted
          BY <1>1 DEF FactorInv, FactorRowsFit
        <5> QED
          BY <1>4, <1>5, <1>7, <4>1, <5>1
      <4> QED
        <5>1. minted \in Nat /\ minted' = minted + 1 /\ p[2] \in Nat
          BY <1>1, <1>2, <1>6
        <5>2. p[2] <= minted'
          BY <4>2, <5>1
        <5> QED
          BY <1>11, <4>1, <5>2
    <3>5. ASSUME NEW x \in earned', NEW y \in earned', x[3], y[3], x[1] = y[1]
          PROVE  x = y
      BY <3>1, <3>3, <3>5 DEF FactorInv, EarnedBehind
    <3>6. ASSUME NEW v \in FactorUsers, codes'[v].gen # 0, NEW i \in 1..CodesPerSet
          PROVE  i \in codes'[v].used <=>
                   \E x \in earned' : x[1] = <<"recovery", codes'[v].gen, i>>
      <4>1. codes'[v].gen = codes[v].gen
        BY <1>9
      <4>2. i \in codes[v].used <=> \E x \in earned : x[1] = <<"recovery", codes[v].gen, i>>
        BY <2>2, <3>6, <4>1
      <4>3. i \in codes'[v].used <=>
              i \in codes[v].used \/ (p[1] = "recovery" /\ v = u /\ i = p[3])
        BY <1>9
      <4>4. new[1] = <<"recovery", codes[v].gen, i>>
              <=> p[1] = "recovery" /\ v = u /\ i = p[3]
        <5>1. p[1] = "recovery" /\ codes[v].gen = p[2] => v = u
          BY <1>1, <1>7, <3>6, <4>1 DEF FactorInv, FactorRowsFit
        <5> QED
          BY <1>2, <1>7, <1>11, <5>1
      <4> QED
        BY <3>1, <4>1, <4>2, <4>3, <4>4
    <3>7. \A x \in earned' : /\ x[1][1] \in {"totp", "recovery"}
                             /\ x[1][2] # 0 /\ x[1][2] <= minted' /\ StepsBehind(x, fac')
      BY <2>1, <3>1, <3>2, <3>4
    <3> QED
      BY <3>5, <3>6, <3>7 DEF EarnedBehind
  <2> QED
    BY <2>3, <2>4
<1>17. FactorTypes'
  <2>1. /\ device' \in [Browsers -> 0..minted'] /\ ceremony' \in [Browsers -> 0..minted']
    BY <1>1, <1>6 DEF FactorInv, FactorTypes
  <2>2. earned' \subseteq (Proofs \X Nat \X BOOLEAN)
    BY <1>1, <1>6, <1>11
  <2>3. step' \in 1..MaxStep /\ era' \in [FactorUsers -> Nat]
    BY <1>1, <1>6 DEF FactorInv, FactorTypes
  <2> QED
    BY <1>6, <1>8, <1>9, <1>14, <1>15, <2>1, <2>2, <2>3 DEF FactorTypes
<1> QED
  BY <1>13, <1>14, <1>15, <1>16, <1>17 DEF FactorInv

LEMMA GrantsDeleted ==
    ASSUME FactorInv, FactorMoves(fac, era, minted, fac', era', minted'), NEW S \in SUBSET LoginSids,
           grant' = [s \in LoginSids |-> IF s \in S THEN F!NoGrant ELSE grant[s]]
    PROVE  grant' \in [LoginSids -> Grants] /\ GrantsHold'
<1>1. grant \in [LoginSids -> Grants]
  BY DEF FactorInv, FactorTypes
<1>2. grant' \in [LoginSids -> Grants]
  BY <1>1, IdleJob
<1>3. \A s \in LoginSids : \/ grant'[s].id = 0
                           \/ grant'[s] = [grant[s] EXCEPT !.age = grant'[s].age]
  <2> TAKE s \in LoginSids
  <2>1. CASE s \in S
    BY <2>1 DEF F!NoGrant
  <2>2. CASE s \notin S
    BY <1>1, <2>2 DEF Grants
  <2> QED
    BY <2>1, <2>2
<1> QED
  BY <1>2, <1>3, GrantsKept

LEMMA FactorRevoked ==
    ASSUME FactorInv, NEW u \in FactorUsers, F!Instant, F!DeleteAll(u),
           device' \in [Browsers -> 0..minted], UNCHANGED <<codes, ceremony, step, minted, earned>>
    PROVE  FactorInv'
<1>1. /\ grant' = [s \in LoginSids |-> IF Of[s] = u THEN F!NoGrant ELSE grant[s]]
      /\ fac' = [fac EXCEPT ![u].epoch = IF fac[u].st = "none" THEN @ ELSE @ + 1]
      /\ era' = [era EXCEPT ![u] = @ + 1]
      /\ factorTask' = factorTask /\ factorAsked' = factorAsked + 1
      /\ factorAsked < MaxFactorRequests
  BY DEF F!DeleteAll, F!Instant
<1>2. /\ fac \in [FactorUsers -> FactorRows] /\ minted \in Nat /\ minted' = minted
      /\ era \in [FactorUsers -> Nat] /\ fac[u] \in FactorRows
      /\ fac[u].secret \in Nat /\ fac[u].epoch \in Nat /\ fac[u].last \in Nat /\ era[u] \in Nat
      /\ codes' = codes /\ codes[u].gen \in Nat
  BY <1>1, FactorAssumption DEF FactorInv, FactorTypes, FactorRows
<1>3. /\ fac' \in [FactorUsers -> FactorRows] /\ fac'[u].secret = fac[u].secret
      /\ fac'[u].st = fac[u].st /\ fac'[u].last = fac[u].last
      /\ fac'[u].epoch = IF fac[u].st = "none" THEN fac[u].epoch ELSE fac[u].epoch + 1
      /\ fac'[u].proven = fac[u].proven /\ fac'[u].gen = fac[u].gen
      /\ \A v \in FactorUsers \ {u} : fac'[v] = fac[v]
  BY <1>1, <1>2 DEF FactorRows
<1>4. /\ era' \in [FactorUsers -> Nat] /\ era'[u] = era[u] + 1
      /\ \A v \in FactorUsers \ {u} : era'[v] = era[v]
  BY <1>1, <1>2
<1>5. /\ fac[u].secret <= minted /\ codes[u].gen <= minted
      /\ IF fac[u].st = "none" THEN fac[u] = F!NoFactor ELSE fac[u].secret # 0
      /\ IF fac[u].st = "confirmed"
         THEN /\ fac[u].proven = fac[u].secret
              /\ codes[u].gen = fac[u].gen /\ codes[u].gen # 0
         ELSE codes[u] = F!NoCodes
  BY DEF FactorInv, FactorRowsFit
<1>6. FactorMoves(fac, era, minted, fac', era', minted')
  <2>1. /\ fac[u].last <= fac'[u].last /\ fac[u].epoch <= fac'[u].epoch
        /\ minted <= minted' /\ era[u] <= era'[u] /\ minted' \in Nat
    BY <1>2, <1>3, <1>4
  <2>2. ~(fac'[u].epoch = fac[u].epoch /\ fac[u].secret # 0)
    BY <1>2, <1>3, <1>5 DEF F!NoFactor
  <2> QED
    BY <1>3, <1>4, <2>1, <2>2, MovesOne
<1>7. FactorRowsFit'
  <2>1. fac[u].st = "none" => fac'[u] = fac[u]
    BY <1>1, <1>2 DEF FactorRows
  <2>2. minted' \in Nat /\ minted <= minted'
    BY <1>2
  <2> QED
    BY <1>2, <1>3, <1>5, <2>1, <2>2, RowsFitOne
<1>8. factorTask' \in [Reqs -> FactorJobs] /\ JobsHold'
  BY <1>1, <1>6, JobsKept
<1>9. grant' \in [LoginSids -> Grants] /\ GrantsHold'
  <2> DEFINE S == {s \in LoginSids : Of[s] = u}
  <2>1. grant' = [s \in LoginSids |-> IF s \in S THEN F!NoGrant ELSE grant[s]]
    BY <1>1
  <2> QED
    BY <1>6, <2>1, GrantsDeleted
<1>10. EarnedBehind'
  BY <1>6, EarnedKept
<1>11. factorAsked' \in 0..MaxFactorRequests
  BY <1>1, FactorAssumption DEF FactorInv, FactorTypes
<1>12. FactorTypes'
  BY <1>2, <1>3, <1>4, <1>8, <1>9, <1>11 DEF FactorInv, FactorTypes
<1> QED
  BY <1>7, <1>8, <1>9, <1>10, <1>12 DEF FactorInv

LEMMA FactorReset ==
    ASSUME FactorInv, NEW u \in FactorUsers, F!ResetMfa(u)
    PROVE  FactorInv'
<1>1. /\ grant' = [s \in LoginSids |-> IF Of[s] = u THEN F!NoGrant ELSE grant[s]]
      /\ fac' = [fac EXCEPT ![u] = F!NoFactor]
      /\ codes' = [codes EXCEPT ![u] = F!NoCodes]
      /\ era' = [era EXCEPT ![u] = @ + 1]
      /\ factorTask' = factorTask /\ factorAsked' = factorAsked + 1
      /\ factorAsked < MaxFactorRequests
      /\ UNCHANGED <<device, ceremony, step, minted, earned>>
  BY DEF F!ResetMfa, F!ResetCodes, F!Instant
<1>2. /\ fac \in [FactorUsers -> FactorRows] /\ minted \in Nat /\ minted' = minted
      /\ era \in [FactorUsers -> Nat] /\ era[u] \in Nat
      /\ codes \in [FactorUsers -> [gen : Nat, used : SUBSET (1..CodesPerSet)]]
  BY <1>1 DEF FactorInv, FactorTypes
<1>3. F!NoFactor \in FactorRows /\ F!NoFactor.secret = 0 /\ F!NoFactor.st = "none"
  BY FactorAssumption DEF F!NoFactor, FactorRows
<1>4. F!NoCodes \in [gen : Nat, used : SUBSET (1..CodesPerSet)] /\ F!NoCodes.gen = 0
  BY DEF F!NoCodes
<1>5. /\ fac' \in [FactorUsers -> FactorRows] /\ fac'[u] = F!NoFactor
      /\ \A v \in FactorUsers \ {u} : fac'[v] = fac[v]
  BY <1>1, <1>2, <1>3
<1>6. /\ codes' \in [FactorUsers -> [gen : Nat, used : SUBSET (1..CodesPerSet)]]
      /\ codes'[u] = F!NoCodes /\ \A v \in FactorUsers \ {u} : codes'[v] = codes[v]
  BY <1>1, <1>2, <1>4
<1>7. /\ era' \in [FactorUsers -> Nat] /\ era'[u] = era[u] + 1
      /\ \A v \in FactorUsers \ {u} : era'[v] = era[v]
  BY <1>1, <1>2
<1>8. minted' \in Nat /\ minted <= minted' /\ era[u] <= era'[u] /\ era'[u] > era[u]
  BY <1>2, <1>7
<1>9. FactorMoves(fac, era, minted, fac', era', minted')
  BY <1>3, <1>5, <1>7, <1>8, MovesOne
<1>10. FactorRowsFit'
  <2>1. fac'[u].secret <= minted' /\ codes'[u].gen <= minted' /\ codes'[u].gen \in Nat
    BY <1>2, <1>3, <1>4, <1>5, <1>6
  <2> QED
    BY <1>3, <1>4, <1>5, <1>6, <1>8, <2>1, RowsFitOne
<1>11. factorTask' \in [Reqs -> FactorJobs] /\ JobsHold'
  BY <1>1, <1>9, JobsKept
<1>12. grant' \in [LoginSids -> Grants] /\ GrantsHold'
  <2> DEFINE S == {s \in LoginSids : Of[s] = u}
  <2>1. grant' = [s \in LoginSids |-> IF s \in S THEN F!NoGrant ELSE grant[s]]
    BY <1>1
  <2> QED
    BY <1>9, <2>1, GrantsDeleted
<1>13. EarnedBehind'
  <2>1. \A v \in FactorUsers : codes'[v].gen # 0 => codes'[v] = codes[v]
    BY <1>4, <1>6
  <2>2. \A v \in FactorUsers : codes'[v].gen # 0 => \A i \in 1..CodesPerSet :
          i \in codes'[v].used <=> \E x \in earned : x[1] = <<"recovery", codes'[v].gen, i>>
    BY <2>1 DEF FactorInv, EarnedBehind
  <2>3. earned' = earned
    BY <1>1
  <2> QED
    BY <1>9, <2>2, <2>3, StepsKept DEF FactorInv, EarnedBehind
<1>14. factorAsked' \in 0..MaxFactorRequests
  BY <1>1, FactorAssumption DEF FactorInv, FactorTypes
<1>15. FactorTypes'
  BY <1>1, <1>2, <1>5, <1>6, <1>7, <1>11, <1>12, <1>14 DEF FactorInv, FactorTypes
<1> QED
  BY <1>10, <1>11, <1>12, <1>13, <1>15 DEF FactorInv

(* Grants that go or grow older, and the clock.                            *)
LEMMA FactorRest ==
    ASSUME FactorInv, UNCHANGED <<fac, codes, ceremony, factorTask, minted, era, earned>>,
           grant' \in [LoginSids -> Grants], GrantsHold',
           device' \in [Browsers -> 0..minted], step' \in 1..MaxStep,
           factorAsked' \in 0..MaxFactorRequests
    PROVE  FactorInv'
<1>1. FactorMoves(fac, era, minted, fac', era', minted')
  BY StillMoves
<1>2. EarnedBehind'
  BY <1>1, EarnedKept
<1>3. factorTask' \in [Reqs -> FactorJobs] /\ JobsHold'
  BY <1>1, JobsKept
<1>4. FactorTypes' /\ FactorRowsFit'
  BY <1>3 DEF FactorInv, FactorTypes, FactorRowsFit
<1> QED
  BY <1>2, <1>3, <1>4 DEF FactorInv

LEMMA FactorForget ==
    ASSUME FactorInv, NEW s \in LoginSids, F!ForgetDevice(s)
    PROVE  FactorInv'
<1> DEFINE S == {o \in LoginSids : grant[o].id = device[BrowserOf[s]] /\ Of[o] = Of[s]}
<1>1. /\ grant' = [o \in LoginSids |-> IF o \in S THEN F!NoGrant ELSE grant[o]]
      /\ device' = [device EXCEPT ![BrowserOf[s]] = 0]
      /\ factorTask' = factorTask /\ factorAsked' = factorAsked + 1
      /\ factorAsked < MaxFactorRequests
      /\ UNCHANGED <<fac, codes, ceremony, step, minted, era, earned>>
  BY DEF F!ForgetDevice, F!Instant, F!IssueDeviceCookie
<1>2. device' \in [Browsers -> 0..minted] /\ step' \in 1..MaxStep
  <2>1. minted \in Nat /\ device \in [Browsers -> 0..minted] /\ step \in 1..MaxStep
    BY DEF FactorInv, FactorTypes
  <2>2. device' = [device EXCEPT ![BrowserOf[s]] = 0] /\ step' = step
    BY <1>1
  <2> QED
    BY <2>1, <2>2, FactorAssumption
<1>3. factorAsked' \in 0..MaxFactorRequests
  BY <1>1, FactorAssumption DEF FactorInv, FactorTypes
<1>4. grant' \in [LoginSids -> Grants] /\ GrantsHold'
  BY <1>1, StillMoves, GrantsDeleted
<1> QED
  BY <1>1, <1>2, <1>3, <1>4, FactorRest

LEMMA FactorAge ==
    ASSUME FactorInv, NEW s \in LoginSids, F!Age(s)
    PROVE  FactorInv'
<1>1. /\ grant[s].age < 2 /\ grant' = [grant EXCEPT ![s].age = @ + 1]
      /\ UNCHANGED <<fac, codes, device, ceremony, step, factorTask, minted, era, earned,
                     factorAsked>>
  BY DEF F!Age
<1>2. grant \in [LoginSids -> Grants] /\ grant[s] \in Grants /\ grant[s].age \in 0..2
  BY DEF FactorInv, FactorTypes, Grants
<1>3. grant[s].age + 1 \in 0..2
  BY <1>1, <1>2
<1>4. grant' \in [LoginSids -> Grants]
  BY <1>1, <1>2, <1>3 DEF Grants
<1>5. \A o \in LoginSids : grant'[o] = [grant[o] EXCEPT !.age = grant'[o].age]
  <2> TAKE o \in LoginSids
  <2>1. CASE o = s
    BY <1>1, <1>2, <2>1 DEF Grants
  <2>2. CASE o # s
    BY <1>1, <1>2, <2>2 DEF Grants
  <2> QED
    BY <2>1, <2>2
<1>6. GrantsHold'
  BY <1>1, <1>4, <1>5, StillMoves, GrantsKept
<1>7. /\ device' \in [Browsers -> 0..minted] /\ step' \in 1..MaxStep
      /\ factorAsked' \in 0..MaxFactorRequests
  BY <1>1 DEF FactorInv, FactorTypes
<1> QED
  BY <1>1, <1>4, <1>6, <1>7, FactorRest

LEMMA FactorClock == ASSUME FactorInv, F!NextStep PROVE FactorInv'
<1>1. /\ step < MaxStep /\ step' = step + 1
      /\ UNCHANGED <<fac, codes, grant, device, ceremony, factorTask, minted, era, earned,
                     factorAsked>>
  BY DEF F!NextStep
<1>2. step' \in 1..MaxStep
  BY <1>1, FactorAssumption DEF FactorInv, FactorTypes
<1>3. GrantsHold'
  BY <1>1, StillMoves, GrantsStay
<1>4. /\ device' \in [Browsers -> 0..minted] /\ factorAsked' \in 0..MaxFactorRequests
      /\ grant' \in [LoginSids -> Grants]
  BY <1>1 DEF FactorInv, FactorTypes
<1> QED
  BY <1>1, <1>2, <1>3, <1>4, FactorRest

LEMMA FactorInit == F!Init => FactorInv
<1> SUFFICES ASSUME F!Init PROVE FactorInv
  OBVIOUS
<1>1. PICK b \in FactorBoot : fac = b.fac /\ codes = b.codes /\ minted = b.minted
  BY DEF F!Init
<1>2. /\ grant = [s \in LoginSids |-> F!NoGrant] /\ earned = {} /\ step = 1 /\ factorAsked = 0
      /\ device = [c \in Browsers |-> 0] /\ ceremony = [c \in Browsers |-> 0]
      /\ factorTask = [r \in Reqs |-> F!Idle] /\ era = [u \in FactorUsers |-> 0]
  BY DEF F!Init
<1>3. /\ minted \in Nat /\ fac \in [FactorUsers -> FactorRows]
      /\ codes \in [FactorUsers -> [gen : 0..minted, used : {{}}]]
  BY <1>1, FactorAssumption
<1>4. codes \in [FactorUsers -> [gen : Nat, used : SUBSET (1..CodesPerSet)]]
      /\ \A u \in FactorUsers : codes[u].gen <= minted /\ codes[u].used = {}
  BY <1>3
<1>5. FactorTypes
  <2>1. step \in 1..MaxStep /\ factorAsked \in 0..MaxFactorRequests
    BY <1>2, FactorAssumption
  <2>2. device \in [Browsers -> 0..minted] /\ ceremony \in [Browsers -> 0..minted]
    BY <1>2, <1>3
  <2>3. grant \in [LoginSids -> Grants] /\ factorTask \in [Reqs -> FactorJobs]
    BY <1>2, IdleJob
  <2> QED
    BY <1>2, <1>3, <1>4, <2>1, <2>2, <2>3 DEF FactorTypes
<1>6. FactorRowsFit
  <2>1. \A u \in FactorUsers :
          /\ fac[u].secret <= minted
          /\ IF fac[u].st = "none" THEN fac[u] = F!NoFactor ELSE fac[u].secret # 0
          /\ IF fac[u].st = "confirmed"
             THEN /\ fac[u].proven = fac[u].secret
                  /\ codes[u].gen = fac[u].gen /\ fac[u].gen # 0
             ELSE codes[u] = F!NoCodes
    BY <1>1, FactorAssumption
  <2>2. \A u, v \in FactorUsers :
          u # v => /\ fac[u].secret = fac[v].secret => fac[u].secret = 0
                   /\ codes[u].gen = codes[v].gen => codes[u].gen = 0
    BY <1>1, FactorAssumption
  <2> QED
    BY <1>4, <2>1, <2>2 DEF FactorRowsFit
<1>7. GrantsHold
  BY <1>2, <1>3 DEF GrantsHold, GrantHolds, F!NoGrant
<1>8. JobsHold
  BY <1>2, IdleJob, FreeJob DEF JobsHold
<1>9. EarnedBehind
  BY <1>2, <1>4 DEF EarnedBehind
<1> QED
  BY <1>5, <1>6, <1>7, <1>8, <1>9 DEF FactorInv

LEMMA FactorNext == ASSUME FactorInv, [F!Next]_(F!vars) PROVE FactorInv'
<1>1. ASSUME NEW r \in Reqs, F!Arrive(r) PROVE FactorInv'
  BY <1>1, FactorStart, FactorConfirmAsked, FactorChallenge, FactorStatus, FactorEvaluate
  DEF F!Arrive
<1>2. ASSUME NEW r \in Reqs, F!Proceed(r) PROVE FactorInv'
  <2>1. CASE F!IssueRefused(r)
    BY <2>1, FactorEnds DEF F!IssueRefused, F!RolledBack
  <2>2. CASE F!Decide(r)
    BY <2>2, FactorEnds DEF F!Decide
  <2>3. CASE F!GiveUp(r)
    BY <2>3, FactorEnds DEF F!GiveUp
  <2> QED
    BY <1>2, <2>1, <2>2, <2>3, FactorBegin, FactorRecord, FactorConfirmed, FactorReread,
       FactorCandidate, FactorIssue, FactorRegenerate
    DEF F!Proceed
<1>3. ASSUME NEW s \in LoginSids, F!RevokeDevices(s) PROVE FactorInv'
  <2>1. minted \in Nat /\ device \in [Browsers -> 0..minted]
    BY DEF FactorInv, FactorTypes
  <2>2. /\ F!Instant /\ F!DeleteAll(Of[s]) /\ device' = [device EXCEPT ![BrowserOf[s]] = 0]
        /\ UNCHANGED <<codes, ceremony, step, minted, earned>>
    BY <1>3 DEF F!RevokeDevices, F!IssueDeviceCookie
  <2>3. device' \in [Browsers -> 0..minted] /\ Of[s] \in FactorUsers
    BY <2>1, <2>2, FactorAssumption
  <2> QED
    BY <2>2, <2>3, FactorRevoked
<1>4. ASSUME NEW u \in FactorUsers, F!SetPassword(u) PROVE FactorInv'
  <2>1. device' \in [Browsers -> 0..minted]
    BY <1>4 DEF F!SetPassword, FactorInv, FactorTypes
  <2> QED
    BY <1>4, <2>1, FactorRevoked DEF F!SetPassword
<1>5. CASE UNCHANGED F!vars
  BY <1>5 DEF F!vars, FactorInv, FactorTypes, FactorRowsFit, GrantsHold, JobsHold, EarnedBehind
<1>6. CASE F!Next
  BY <1>1, <1>2, <1>3, <1>4, <1>6, FactorForget, FactorAge, FactorReset, FactorClock DEF F!Next
<1> QED
  BY <1>5, <1>6

(* The second factor of every set of accounts, browsers and sessions keeps *)
(* its invariant.                                                          *)
THEOREM FactorInvariance == F!Spec => []FactorInv
  BY FactorInit, FactorNext, PTL DEF F!Spec

(* What the proxy decides on rests on a proof of the factor in force, and  *)
(* no revocation came since the row behind it was read: epoch and secret   *)
(* together tell.                                                          *)
THEOREM TrustIsFresh == F!Spec => []NoStaleTrust
<1>1. FactorInv => NoStaleTrust
  <2> SUFFICES ASSUME FactorInv, NEW r \in Reqs, factorTask[r].pc = "decide",
                      NEW d \in Days,
                      F!Satisfied(factorTask[r].grant, factorTask[r].from, fac[F!User(r)],
                                  factorTask[r].s, d)
               PROVE  /\ factorTask[r].grant.era = era[F!User(r)]
                      /\ \/ factorTask[r].grant.proven = fac[F!User(r)].secret
                         \/ factorTask[r].grant.late
    BY DEF NoStaleTrust, F!NoStaleTrust
  <2> DEFINE g == factorTask[r].grant
             u == F!User(r)
  <2>1. /\ GrantHolds(g, Of[factorTask[r].from], fac, era, minted)
        /\ u = Of[factorTask[r].s]
    BY TaskFacts DEF JobHolds
  <2>2. /\ Of[factorTask[r].from] = u /\ g.id # 0
        /\ g.factor = fac[u].secret /\ g.epoch = fac[u].epoch
    BY <2>1 DEF F!Satisfied
  <2>3. ReadOf(g.factor, g.epoch, g.era, u, fac, era, minted) /\ Backed(g.factor, g, u, fac)
    BY <2>1, <2>2 DEF GrantHolds
  <2> QED
    BY <2>2, <2>3 DEF ReadOf, Backed
<1> QED
  BY <1>1, FactorInvariance, PTL

(* A code counts once, codes are used up only by a grant, and a confirmed  *)
(* secret was proven.                                                      *)
THEOREM CodesCountOnce == F!Spec => []ProofsCountOnce
<1>1. FactorInv => F!CodesEarnOnce
  <2> SUFFICES ASSUME FactorInv, NEW u \in FactorUsers, codes[u].gen # 0
               PROVE  codes[u].used = {i \in 1..CodesPerSet :
                                         \E x \in earned : x[1] = F!Recovery(codes[u].gen, i)}
    BY DEF F!CodesEarnOnce, FactorInv, EarnedBehind
  <2>1. codes[u].used \subseteq 1..CodesPerSet
    BY DEF FactorInv, FactorTypes
  <2>2. \A i \in 1..CodesPerSet :
          i \in codes[u].used <=> \E x \in earned : x[1] = F!Recovery(codes[u].gen, i)
    BY DEF FactorInv, EarnedBehind, F!Recovery
  <2> QED
    BY <2>1, <2>2
<1>2. FactorInv => F!TypeOK
  <2> SUFFICES ASSUME FactorInv PROVE F!TypeOK
    OBVIOUS
  <2>1. \A u \in FactorUsers :
          /\ fac[u].st \in {"none", "pending", "confirmed"} /\ fac[u].last \in 0..MaxStep + 1
          /\ codes[u].used \subseteq 1..CodesPerSet /\ codes[u].gen \in Nat
          /\ fac[u].secret \in Nat
    BY DEF FactorInv, FactorTypes, FactorRows
  <2>2. \A u \in FactorUsers : /\ fac[u].secret <= minted /\ codes[u].gen <= minted
                               /\ fac[u].st = "none" => fac[u] = F!NoFactor
    BY DEF FactorInv, FactorRowsFit
  <2>3. /\ minted \in Nat /\ step \in 1..MaxStep /\ factorAsked \in 0..MaxFactorRequests
        /\ \A b \in Browsers : device[b] \in 0..minted /\ ceremony[b] \in 0..minted
    BY DEF FactorInv, FactorTypes
  <2>4. \A s, t \in LoginSids : grant[s].id = grant[t].id /\ s # t => grant[s].id = 0
    BY DEF FactorInv, GrantsHold
  <2>5. \A u \in FactorUsers : codes[u].gen \in 0..minted /\ fac[u].secret \in 0..minted
    BY <2>1, <2>2, <2>3
  <2> QED
    BY <2>1, <2>2, <2>3, <2>4, <2>5 DEF F!TypeOK
<1>3. FactorInv => F!ConfirmedIsProven
  BY <1>2 DEF F!ConfirmedIsProven, F!Confirmed, FactorInv, FactorRowsFit
<1>4. FactorInv => ProofsCountOnce
  BY <1>1, <1>3 DEF ProofsCountOnce
<1> QED
  BY <1>4, FactorInvariance, PTL

-----------------------------------------------------------------------------
(***************************************************************************)
(* The accounts.                                                           *)
(***************************************************************************)
PanelJobs == [pc : A!Pcs, scope : A!Scope, who : Users \cup {None}, seen : A!Row,
              role : A!Roles, groups : SUBSET Groups, todo : SUBSET (Users \X SUBSET Groups),
              sid : PanelSids \cup {None}, gen : Nat]
Anonymous == {"idle", "gate", "import", "rewrite", "invalidate"}
Revoking  == {"revoke", "revoke_invalidate", "renew"}
Clearing  == {"invalidate", "revoke_invalidate", "rewrite", "import", "rollback"}

(* What the variables hold.                                                *)
PanelTypes ==
    /\ users \in [Users -> A!Row] /\ sess \in [PanelSids -> A!Session]
    /\ gate \in [PanelSids -> {"none", "must", "free"}]
    /\ idgen \in Nat /\ idgen # 0 /\ accountAsked \in 0..MaxPanelRequests
    /\ idcache \in [Users -> [gen : Nat, groups : SUBSET Groups]]
    /\ accountTask \in [Reqs -> PanelJobs] /\ lost \subseteq Users

(* What a handler has decided, whatever happens meanwhile: whom it is      *)
(* about, and that what a scoped editor asked for is within its scope.     *)
JobDecided(t) ==
    /\ t.pc \notin Anonymous => t.who \in Users
    /\ t.pc \in {"setup", "resession", "gate"} => t.sid \in PanelSids
    /\ t.pc \in {"setup", "password", "delete"} => t.scope = A!NoScope
    /\ t.scope.role = "editor" /\ t.pc \in {"save_edit", "set_role", "create"} => t.role # "admin"
    /\ t.scope.role = "editor" /\ t.pc \in {"save_edit", "set_groups", "memberships", "create"}
          => t.groups \ t.scope.groups = t.seen.groups \ t.scope.groups

(* An entry of the identity cache, or one about to be stored: an old       *)
(* generation, or groups the account has, or an invalidation to come or    *)
(* lost. (R, S, T, G, L: users, sess, accountTask, idgen, lost.)           *)
ToBeCleared(T) == \E r \in Reqs : T[r].pc \in Clearing
EntryFits(gen, groups, u, R, T, G, L) ==
    gen <= G /\ (gen = G => groups \subseteq R[u].groups \/ ToBeCleared(T) \/ u \in L)
CacheFits ==
    /\ \A u \in Users : EntryFits(idcache[u].gen, idcache[u].groups, u, users, accountTask, idgen, lost)
    /\ \A r \in Reqs : accountTask[r].pc = "fill" =>
          EntryFits(accountTask[r].gen, accountTask[r].seen.groups, accountTask[r].who, users,
                    accountTask, idgen, lost)

(* A session matches its account or is accounted for, and so is what the   *)
(* gate holds, or is about to hold, of a session.                          *)
ToBeRevoked(T, u) == \E r \in Reqs : T[r].who = u /\ T[r].pc \in Revoking
Unexplained(S, T, s) == /\ S[s].st = "live" /\ S[s].actor # None /\ ~S[s].excused
                        /\ ~ToBeRevoked(T, S[s].actor)
SessionFits(S, R, T, s) ==
    Unexplained(S, T, s) => A!Matches(S[s].role, S[s].pw, R[S[s].actor])
GateFits(S, R, T, s, must) == Unexplained(S, T, s) => (must <=> R[S[s].actor].must)
SessionsFit ==
    /\ \A s \in PanelSids :
          /\ SessionFits(sess, users, accountTask, s)
          /\ sess[s].st = "unused" => gate[s] = "none"
          /\ gate[s] # "none" => GateFits(sess, users, accountTask, s, gate[s] = "must")
    /\ \A r \in Reqs : accountTask[r].pc = "gate" =>
          /\ sess[accountTask[r].sid].st # "unused"
          /\ GateFits(sess, users, accountTask, accountTask[r].sid, accountTask[r].seen.must)

(* The inductive invariant of the accounts.                                *)
PanelInv ==
    /\ PanelTypes
    /\ \A u \in Users : ~users[u].here => users[u].groups = {}
    /\ \A r \in Reqs : JobDecided(accountTask[r])
    /\ CacheFits /\ SessionsFit
-----------------------------------------------------------------------------
SameAccount(a, b) == a.here = b.here /\ a.role = b.role /\ a.pw = b.pw /\ a.must = b.must

LEMMA SessionsKept ==
    ASSUME PanelInv, PanelTypes',
           \A s \in PanelSids :
              \/ sess'[s] = sess[s]
              \/ sess'[s].st = "dead"
              \/ sess'[s].st = sess[s].st /\ sess'[s].excused
              \/ /\ sess[s].st = "unused" /\ sess'[s].st = "live"
                 /\ sess'[s].actor # None /\ ~sess'[s].excused
                       => A!Matches(sess'[s].role, sess'[s].pw, users'[sess'[s].actor]),
           \A u \in Users :
              \/ SameAccount(users[u], users'[u])
              \/ ~users[u].here
              \/ ToBeRevoked(accountTask', u)
              \/ \A s \in PanelSids :
                    sess'[s].st = "live" /\ sess'[s].actor = u => sess'[s].excused,
           \A u \in Users : ToBeRevoked(accountTask, u) =>
              \/ ToBeRevoked(accountTask', u)
              \/ \A s \in PanelSids : sess'[s].st = "live" /\ sess'[s].actor = u
                                         => sess[s].st = "unused" \/ sess'[s].excused,
           \A s \in PanelSids :
              \/ gate'[s] = gate[s]
              \/ \E q \in Reqs : /\ accountTask[q].pc = "gate" /\ accountTask[q].sid = s
                                 /\ gate'[s] # "none"
                                 /\ gate'[s] = "must" <=> accountTask[q].seen.must,
           \A q \in Reqs : accountTask'[q].pc = "gate" =>
              \/ accountTask'[q] = accountTask[q]
              \/ /\ sess'[accountTask'[q].sid].st # "unused"
                 /\ GateFits(sess', users', accountTask', accountTask'[q].sid,
                             accountTask'[q].seen.must)
    PROVE  SessionsFit'
<1>1. \A s \in PanelSids : /\ sess[s] \in A!Session /\ sess'[s] \in A!Session
                           /\ sess[s].actor \in Users \cup {None}
                           /\ sess'[s].actor \in Users \cup {None}
  BY DEF PanelInv, PanelTypes, A!Session
<1>2. \A s \in PanelSids :
        /\ SessionFits(sess, users, accountTask, s)
        /\ sess[s].st = "unused" => gate[s] = "none"
        /\ gate[s] # "none" => GateFits(sess, users, accountTask, s, gate[s] = "must")
  BY DEF PanelInv, SessionsFit
<1>3. \A r \in Reqs : accountTask[r].pc = "gate" =>
          /\ sess[accountTask[r].sid].st # "unused"
          /\ GateFits(sess, users, accountTask, accountTask[r].sid, accountTask[r].seen.must)
          /\ accountTask[r].sid \in PanelSids
  BY DEF PanelInv, SessionsFit, JobDecided
\* a session to vouch for is new, or was one before with the same account
<1>4. ASSUME NEW s \in PanelSids, Unexplained(sess', accountTask', s), sess[s].st # "unused"
      PROVE  /\ sess'[s] = sess[s] /\ Unexplained(sess, accountTask, s)
             /\ A!Matches(sess'[s].role, sess'[s].pw, users'[sess'[s].actor])
             /\ users'[sess'[s].actor].must = users[sess'[s].actor].must
  <2> DEFINE u == sess'[s].actor
  <2>1. /\ sess'[s].st = "live" /\ u # None /\ ~sess'[s].excused /\ ~ToBeRevoked(accountTask', u)
        /\ u \in Users
    BY <1>1, <1>4 DEF Unexplained
  <2>2. sess'[s] = sess[s]
    BY <1>4, <2>1
  <2>3. ~ToBeRevoked(accountTask, u)
    BY <1>4, <2>1
  <2>4. Unexplained(sess, accountTask, s)
    BY <2>1, <2>2, <2>3 DEF Unexplained
  <2>5. A!Matches(sess[s].role, sess[s].pw, users[u])
    BY <1>2, <2>2, <2>4 DEF SessionFits
  <2>6. SameAccount(users[u], users'[u])
    <3>1. users[u].here
      BY <2>5 DEF A!Matches
    <3> QED
      BY <2>1, <3>1
  <2>7. A!Matches(sess'[s].role, sess'[s].pw, users'[u])
    BY <2>2, <2>5, <2>6 DEF SameAccount, A!Matches
  <2> QED
    BY <2>2, <2>4, <2>6, <2>7 DEF SameAccount
<1>5. ASSUME NEW s \in PanelSids, Unexplained(sess', accountTask', s), sess[s].st = "unused"
      PROVE  A!Matches(sess'[s].role, sess'[s].pw, users'[sess'[s].actor])
  BY <1>5 DEF Unexplained
<1>6. \A s \in PanelSids : SessionFits(sess', users', accountTask', s)
  BY <1>4, <1>5 DEF SessionFits
<1>7. ASSUME NEW s \in PanelSids, NEW must, sess[s].st # "unused",
             GateFits(sess, users, accountTask, s, must)
      PROVE  GateFits(sess', users', accountTask', s, must)
  BY <1>4, <1>7 DEF GateFits
<1>8. ASSUME NEW s \in PanelSids
      PROVE  /\ sess'[s].st = "unused" => gate'[s] = "none"
             /\ gate'[s] # "none" => GateFits(sess', users', accountTask', s, gate'[s] = "must")
  <2>1. CASE gate'[s] = gate[s]
    <3>1. sess'[s].st = "unused" => sess[s].st = "unused"
      OBVIOUS
    <3>2. gate[s] # "none" => GateFits(sess', users', accountTask', s, gate[s] = "must")
      BY <1>2, <1>7
    <3> QED
      BY <1>2, <2>1, <3>1, <3>2
  <2>2. ASSUME NEW q \in Reqs, accountTask[q].pc = "gate", accountTask[q].sid = s,
               gate'[s] # "none", gate'[s] = "must" <=> accountTask[q].seen.must
        PROVE  /\ sess'[s].st # "unused"
               /\ GateFits(sess', users', accountTask', s, gate'[s] = "must")
    <3>1. sess[s].st # "unused" /\ GateFits(sess, users, accountTask, s, accountTask[q].seen.must)
      BY <1>3, <2>2
    <3>2. GateFits(sess', users', accountTask', s, accountTask[q].seen.must)
      BY <1>7, <3>1
    <3>3. GateFits(sess', users', accountTask', s, gate'[s] = "must")
      BY <2>2, <3>2 DEF GateFits
    <3> QED
      BY <3>1, <3>3
  <2> QED
    BY <2>1, <2>2
<1>9. ASSUME NEW q \in Reqs, accountTask'[q].pc = "gate"
      PROVE  /\ sess'[accountTask'[q].sid].st # "unused"
             /\ GateFits(sess', users', accountTask', accountTask'[q].sid,
                         accountTask'[q].seen.must)
  <2>1. CASE accountTask'[q] = accountTask[q]
    <3>1. /\ accountTask[q].pc = "gate" /\ accountTask[q].sid \in PanelSids
          /\ sess[accountTask[q].sid].st # "unused"
          /\ GateFits(sess, users, accountTask, accountTask[q].sid, accountTask[q].seen.must)
      BY <1>3, <1>9, <2>1
    <3>2. GateFits(sess', users', accountTask', accountTask[q].sid, accountTask[q].seen.must)
      BY <1>7, <3>1
    <3>3. sess'[accountTask[q].sid].st # "unused"
      BY <3>1
    <3> QED
      BY <2>1, <3>2, <3>3
  <2> QED
    BY <1>9, <2>1
<1> QED
  BY <1>6, <1>8, <1>9 DEF SessionsFit

LEMMA CacheKept ==
    ASSUME PanelInv, PanelTypes', idgen' = idgen, lost \subseteq lost',
           \/ ToBeCleared(accountTask')
           \/ /\ \A u \in Users : users[u].groups \subseteq users'[u].groups
              /\ ToBeCleared(accountTask) => ToBeCleared(accountTask'),
           \A u \in Users :
              \/ idcache'[u] = idcache[u]
              \/ \E q \in Reqs : /\ accountTask[q].pc = "fill" /\ accountTask[q].who = u
                                 /\ idcache'[u].gen = accountTask[q].gen
                                 /\ idcache'[u].groups = accountTask[q].seen.groups,
           \A q \in Reqs : accountTask'[q].pc = "fill" =>
              \/ accountTask'[q] = accountTask[q]
              \/ EntryFits(accountTask'[q].gen, accountTask'[q].seen.groups, accountTask'[q].who,
                           users', accountTask', idgen, lost')
    PROVE  CacheFits'
<1>1. \A u \in Users : EntryFits(idcache[u].gen, idcache[u].groups, u, users, accountTask, idgen, lost)
  BY DEF PanelInv, CacheFits
<1>2. \A r \in Reqs : accountTask[r].pc = "fill" =>
        /\ accountTask[r].who \in Users
        /\ EntryFits(accountTask[r].gen, accountTask[r].seen.groups, accountTask[r].who, users,
                     accountTask, idgen, lost)
  BY DEF PanelInv, CacheFits, JobDecided, Anonymous
<1>3. ASSUME NEW u \in Users, NEW gen, NEW groups,
             EntryFits(gen, groups, u, users, accountTask, idgen, lost)
      PROVE  EntryFits(gen, groups, u, users', accountTask', idgen, lost')
  BY <1>3 DEF EntryFits
<1>4. ASSUME NEW u \in Users
      PROVE  EntryFits(idcache'[u].gen, idcache'[u].groups, u, users', accountTask', idgen, lost')
  BY <1>1, <1>2, <1>3
<1>5. ASSUME NEW r \in Reqs, accountTask'[r].pc = "fill"
      PROVE  EntryFits(accountTask'[r].gen, accountTask'[r].seen.groups, accountTask'[r].who,
                       users', accountTask', idgen, lost')
  BY <1>2, <1>3, <1>5
<1> QED
  BY <1>4, <1>5 DEF CacheFits

(* One request goes on, and nothing that somebody waits for is lost.       *)
LEMMA JobsGoOn ==
    ASSUME PanelInv, NEW r \in Reqs, NEW t \in PanelJobs, JobDecided(t),
           accountTask' = [accountTask EXCEPT ![r] = t],
           accountTask[r].pc \in Clearing => t.pc \in Clearing
    PROVE  /\ accountTask' \in [Reqs -> PanelJobs] /\ accountTask'[r] = t
           /\ \A q \in Reqs \ {r} : accountTask'[q] = accountTask[q]
           /\ \A q \in Reqs : JobDecided(accountTask'[q])
           /\ ToBeCleared(accountTask) => ToBeCleared(accountTask')
           /\ t.pc \in Clearing => ToBeCleared(accountTask')
           /\ t.pc \in Revoking => ToBeRevoked(accountTask', t.who)
           /\ \A u : ToBeRevoked(accountTask, u) =>
                 ToBeRevoked(accountTask', u) \/ (accountTask[r].pc \in Revoking
                                                  /\ accountTask[r].who = u)
<1>1. accountTask \in [Reqs -> PanelJobs] /\ \A q \in Reqs : JobDecided(accountTask[q])
  BY DEF PanelInv, PanelTypes
<1>2. /\ accountTask' \in [Reqs -> PanelJobs] /\ accountTask'[r] = t
      /\ \A q \in Reqs \ {r} : accountTask'[q] = accountTask[q]
  BY <1>1
<1>3. \A q \in Reqs : JobDecided(accountTask'[q])
  BY <1>1, <1>2
<1> QED
  BY <1>2, <1>3 DEF ToBeCleared, ToBeRevoked

LEMMA MoveKept ==
    ASSUME PanelInv, NEW r \in Reqs, NEW t \in PanelJobs, JobDecided(t),
           accountTask' = [accountTask EXCEPT ![r] = t],
           accountTask[r].pc \notin Revoking,
           accountTask[r].pc \in Clearing => t.pc \in Clearing,
           UNCHANGED <<users, sess, gate, idgen, idcache, lost>>,
           accountAsked' \in 0..MaxPanelRequests,
           t.pc = "fill" => EntryFits(t.gen, t.seen.groups, t.who, users, accountTask, idgen, lost),
           t.pc = "gate" => /\ sess[t.sid].st # "unused"
                            /\ GateFits(sess, users, accountTask, t.sid, t.seen.must)
    PROVE  PanelInv'
<1>1. /\ accountTask' \in [Reqs -> PanelJobs] /\ accountTask'[r] = t
      /\ \A q \in Reqs \ {r} : accountTask'[q] = accountTask[q]
      /\ \A q \in Reqs : JobDecided(accountTask'[q])
      /\ ToBeCleared(accountTask) => ToBeCleared(accountTask')
      /\ \A u : ToBeRevoked(accountTask, u) => ToBeRevoked(accountTask', u)
  BY JobsGoOn
<1>2. PanelTypes' /\ \A u \in Users : ~users'[u].here => users'[u].groups = {}
  BY <1>1 DEF PanelInv, PanelTypes
<1>3. CacheFits'
  <2>1. t.pc = "fill" => EntryFits(t.gen, t.seen.groups, t.who, users', accountTask', idgen, lost')
    BY <1>1 DEF EntryFits
  <2>2. \A q \in Reqs : accountTask'[q].pc = "fill" =>
          \/ accountTask'[q] = accountTask[q]
          \/ EntryFits(accountTask'[q].gen, accountTask'[q].seen.groups, accountTask'[q].who,
                       users', accountTask', idgen, lost')
    BY <1>1, <2>1
  <2> QED
    BY <1>1, <1>2, <2>2, CacheKept
<1>4. SessionsFit'
  <2>1. t.pc = "gate" => GateFits(sess', users', accountTask', t.sid, t.seen.must)
    BY <1>1 DEF GateFits, Unexplained
  <2>2. \A q \in Reqs : accountTask'[q].pc = "gate" =>
          \/ accountTask'[q] = accountTask[q]
          \/ /\ sess'[accountTask'[q].sid].st # "unused"
             /\ GateFits(sess', users', accountTask', accountTask'[q].sid,
                         accountTask'[q].seen.must)
    BY <1>1, <2>1
  <2>3. \A u \in Users : SameAccount(users[u], users'[u])
    BY DEF SameAccount
  <2> QED
    BY <1>1, <1>2, <2>2, <2>3, SessionsKept
<1> QED
  BY <1>1, <1>2, <1>3, <1>4 DEF PanelInv

(* The sessions of an account are excused, and no other changes.           *)
LEMMA ExcusedFits ==
    ASSUME PanelInv, NEW u \in Users, sess' = A!Excuse(u)
    PROVE  /\ sess' \in [PanelSids -> A!Session]
           /\ \A s \in PanelSids :
                /\ sess'[s] = sess[s] \/ (sess'[s].st = sess[s].st /\ sess'[s].excused)
                /\ sess'[s].st = "live" /\ sess'[s].actor = u => sess'[s].excused
<1>1. sess \in [PanelSids -> A!Session]
  BY DEF PanelInv, PanelTypes
<1>2. \A s \in PanelSids :
        sess'[s] = IF sess[s].st = "live" /\ sess[s].actor = u
                   THEN [sess[s] EXCEPT !.excused = TRUE] ELSE sess[s]
  BY DEF A!Excuse, A!Live
<1>3. \A s \in PanelSids :
        /\ [sess[s] EXCEPT !.excused = TRUE] \in A!Session
        /\ [sess[s] EXCEPT !.excused = TRUE].st = sess[s].st
        /\ [sess[s] EXCEPT !.excused = TRUE].actor = sess[s].actor
        /\ [sess[s] EXCEPT !.excused = TRUE].excused = TRUE
  BY <1>1 DEF A!Session
<1>4. sess' \in [PanelSids -> A!Session]
  BY <1>1, <1>3 DEF A!Excuse, A!Live
<1>5. ASSUME NEW s \in PanelSids
      PROVE  /\ sess'[s] = sess[s] \/ (sess'[s].st = sess[s].st /\ sess'[s].excused)
             /\ sess'[s].st = "live" /\ sess'[s].actor = u => sess'[s].excused
  <2>1. CASE sess[s].st = "live" /\ sess[s].actor = u
    <3>1. sess'[s] = [sess[s] EXCEPT !.excused = TRUE]
      BY <1>2, <2>1
    <3>2. sess'[s].st = sess[s].st /\ sess'[s].excused = TRUE
      BY <1>3, <3>1, Zenon
    <3> QED
      BY <3>2, Zenon
  <2>2. CASE ~(sess[s].st = "live" /\ sess[s].actor = u)
    <3>1. sess'[s] = sess[s]
      BY <1>2, <2>2
    <3>2. ~(sess'[s].st = "live" /\ sess'[s].actor = u)
      BY <2>2, <3>1
    <3> QED
      BY <3>1, <3>2, Zenon
  <2> QED
    BY <2>1, <2>2
<1> QED
  BY <1>4, <1>5, Zenon

(* A statement on one account's row commits.                               *)
LEMMA CommitKept ==
    ASSUME PanelInv, NEW r \in Reqs, NEW u \in Users, NEW t \in PanelJobs, JobDecided(t),
           t.pc \notin {"fill", "gate"},
           accountTask' = [accountTask EXCEPT ![r] = t],
           accountTask[r].pc \notin Revoking,
           accountTask[r].pc \in Clearing => t.pc \in Clearing,
           users' \in [Users -> A!Row], \A v \in Users \ {u} : users'[v] = users[v],
           ~users'[u].here => users'[u].groups = {},
           t.pc \in Clearing \/ users[u].groups \subseteq users'[u].groups,
           \/ /\ sess' = sess
              /\ \/ SameAccount(users[u], users'[u]) \/ ~users[u].here
                 \/ t.pc \in Revoking /\ t.who = u
           \/ sess' = A!Excuse(u),
           UNCHANGED <<gate, idgen, idcache, lost>>, accountAsked' \in 0..MaxPanelRequests
    PROVE  PanelInv'
<1>1. /\ accountTask' \in [Reqs -> PanelJobs] /\ accountTask'[r] = t
      /\ \A q \in Reqs \ {r} : accountTask'[q] = accountTask[q]
      /\ \A q \in Reqs : JobDecided(accountTask'[q])
      /\ ToBeCleared(accountTask) => ToBeCleared(accountTask')
      /\ t.pc \in Clearing => ToBeCleared(accountTask')
      /\ t.pc \in Revoking => ToBeRevoked(accountTask', t.who)
      /\ \A v : ToBeRevoked(accountTask, v) => ToBeRevoked(accountTask', v)
  BY JobsGoOn
<1>2. sess \in [PanelSids -> A!Session]
  BY DEF PanelInv, PanelTypes
<1>3. /\ sess' \in [PanelSids -> A!Session]
      /\ \A s \in PanelSids : sess'[s] = sess[s] \/ (sess'[s].st = sess[s].st /\ sess'[s].excused)
      /\ sess' = A!Excuse(u) => \A s \in PanelSids :
            sess'[s].st = "live" /\ sess'[s].actor = u => sess'[s].excused
  <2>1. CASE sess' = sess /\ sess' # A!Excuse(u)
    <3>1. sess' \in [PanelSids -> A!Session] /\ \A s \in PanelSids : sess'[s] = sess[s]
      BY <1>2, <2>1
    <3>2. \A s \in PanelSids : sess'[s] = sess[s] \/ (sess'[s].st = sess[s].st /\ sess'[s].excused)
      BY <3>1, Zenon
    <3>3. ~(sess' = A!Excuse(u))
      BY <2>1
    <3> QED
      BY <3>1, <3>2, <3>3, Zenon
  <2>2. CASE sess' = A!Excuse(u)
    BY <2>2, ExcusedFits
  <2> QED
    BY <2>1, <2>2
<1>4. PanelTypes'
  BY <1>1, <1>3 DEF PanelInv, PanelTypes
<1>5. \A v \in Users : ~users'[v].here => users'[v].groups = {}
  BY DEF PanelInv
<1>6. CacheFits'
  <2>1. \/ ToBeCleared(accountTask')
        \/ /\ \A v \in Users : users[v].groups \subseteq users'[v].groups
           /\ ToBeCleared(accountTask) => ToBeCleared(accountTask')
    BY <1>1
  <2>2. \A q \in Reqs : accountTask'[q].pc = "fill" => accountTask'[q] = accountTask[q]
    BY <1>1
  <2> QED
    BY <1>4, <2>1, <2>2, CacheKept
<1>7. SessionsFit'
  <2>1. \A q \in Reqs : accountTask'[q].pc = "gate" => accountTask'[q] = accountTask[q]
    BY <1>1
  <2>2. \A v \in Users :
          \/ SameAccount(users[v], users'[v]) \/ ~users[v].here \/ ToBeRevoked(accountTask', v)
          \/ \A s \in PanelSids : sess'[s].st = "live" /\ sess'[s].actor = v => sess'[s].excused
    <3>1. \A v \in Users \ {u} : SameAccount(users[v], users'[v])
      BY DEF SameAccount
    <3> QED
      BY <1>1, <1>3, <3>1
  <2> QED
    BY <1>1, <1>3, <1>4, <2>1, <2>2, SessionsKept
<1> QED
  BY <1>1, <1>4, <1>5, <1>6, <1>7 DEF PanelInv

(* Sessions open and end.                                                  *)
LEMMA SessionStepKept ==
    ASSUME PanelInv, NEW r \in Reqs, NEW t \in PanelJobs, JobDecided(t),
           t.pc \notin {"fill", "gate"},
           accountTask' = [accountTask EXCEPT ![r] = t],
           accountTask[r].pc \in Clearing => t.pc \in Clearing,
           sess' \in [PanelSids -> A!Session],
           \A s \in PanelSids :
              \/ sess'[s] = sess[s] \/ sess'[s].st = "dead"
              \/ /\ sess[s].st = "unused" /\ sess'[s].st = "live"
                 /\ sess'[s].actor # None /\ ~sess'[s].excused
                       => A!Matches(sess'[s].role, sess'[s].pw, users[sess'[s].actor]),
           accountTask[r].pc \in Revoking =>
              \A s \in PanelSids : sess'[s].st = "live" /\ sess'[s].actor = accountTask[r].who
                                      => sess[s].st = "unused",
           UNCHANGED <<users, gate, idgen, idcache, lost>>, accountAsked' \in 0..MaxPanelRequests
    PROVE  PanelInv'
<1>1. /\ accountTask' \in [Reqs -> PanelJobs] /\ accountTask'[r] = t
      /\ \A q \in Reqs \ {r} : accountTask'[q] = accountTask[q]
      /\ \A q \in Reqs : JobDecided(accountTask'[q])
      /\ ToBeCleared(accountTask) => ToBeCleared(accountTask')
      /\ \A v : ToBeRevoked(accountTask, v) =>
            ToBeRevoked(accountTask', v) \/ (accountTask[r].pc \in Revoking
                                             /\ accountTask[r].who = v)
  BY JobsGoOn
<1>2. PanelTypes' /\ \A v \in Users : ~users'[v].here => users'[v].groups = {}
  BY <1>1 DEF PanelInv, PanelTypes
<1>3. CacheFits'
  <2>1. \A q \in Reqs : accountTask'[q].pc = "fill" => accountTask'[q] = accountTask[q]
    BY <1>1
  <2> QED
    BY <1>1, <1>2, <2>1, CacheKept
<1>4. SessionsFit'
  <2>1. \A q \in Reqs : accountTask'[q].pc = "gate" => accountTask'[q] = accountTask[q]
    BY <1>1
  <2>2. \A v \in Users : SameAccount(users[v], users'[v])
    BY DEF SameAccount
  <2>3. \A v \in Users : ToBeRevoked(accountTask, v) =>
              \/ ToBeRevoked(accountTask', v)
              \/ \A s \in PanelSids : sess'[s].st = "live" /\ sess'[s].actor = v
                                         => sess[s].st = "unused" \/ sess'[s].excused
    BY <1>1
  <2> QED
    BY <1>2, <2>1, <2>2, <2>3, SessionsKept
<1> QED
  BY <1>1, <1>2, <1>3, <1>4 DEF PanelInv

LEMMA PanelIdle ==
    /\ A!Idle \in PanelJobs /\ A!Idle.pc = "idle" /\ A!Idle.who = None
    /\ A!Idle.scope = A!NoScope /\ A!NoScope.role = "viewer" /\ A!Idle.seen = A!NoRow
    /\ A!NoRow \in A!Row /\ A!NoRow.groups = {} /\ A!NoScope \in A!Scope
    /\ ~A!NoRow.here
<1>1. A!NoRow \in A!Row /\ A!NoRow.groups = {} /\ ~A!NoRow.here
  BY DEF A!NoRow, A!Row, A!Roles
<1>2. A!NoScope \in A!Scope /\ A!NoScope.role = "viewer"
  BY DEF A!NoScope, A!Scope, A!Roles
<1> QED
  BY <1>1, <1>2 DEF A!Idle, PanelJobs, A!Pcs, A!Roles

(* A handler that is not a scoped editor's is held to nothing.             *)
LEMMA PlainJob ==
    ASSUME NEW t, t.scope = A!NoScope,
           t.pc \notin Anonymous => t.who \in Users,
           t.pc \in {"setup", "resession", "gate"} => t.sid \in PanelSids
    PROVE  JobDecided(t)
  BY PanelIdle DEF JobDecided

LEMMA PanelTask ==
    ASSUME PanelInv, NEW r \in Reqs
    PROVE  /\ accountTask[r] \in PanelJobs /\ JobDecided(accountTask[r])
           /\ accountTask[r].who \in Users \cup {None} /\ accountTask[r].seen \in A!Row
           /\ accountTask[r].role \in A!Roles /\ accountTask[r].groups \in SUBSET Groups
           /\ accountTask[r].todo \in SUBSET (Users \X SUBSET Groups)
           /\ accountTask[r].gen \in Nat /\ accountTask[r].scope \in A!Scope
           /\ accountTask[r].pc \notin Anonymous => accountTask[r].who \in Users
  BY DEF PanelInv, PanelTypes, PanelJobs, JobDecided

LEMMA PanelFacts ==
    ASSUME PanelInv
    PROVE  /\ \A u \in Users : /\ users[u] \in A!Row /\ users[u].role \in A!Roles
                               /\ users[u].groups \in SUBSET Groups /\ users[u].pw \in Nat
                               /\ users[u].must \in BOOLEAN /\ users[u].here \in BOOLEAN
           /\ \A s \in PanelSids : /\ sess[s] \in A!Session /\ sess[s].role \in A!Roles
                                   /\ sess[s].actor \in Users \cup {None} /\ sess[s].pw \in Nat
           /\ users \in [Users -> A!Row] /\ sess \in [PanelSids -> A!Session]
           /\ idgen \in Nat /\ accountAsked \in 0..MaxPanelRequests
  BY DEF PanelInv, PanelTypes, A!Row, A!Session

LEMMA BeginKept ==
    ASSUME PanelInv, NEW r \in Reqs, NEW t \in PanelJobs, JobDecided(t), A!Begin(r, t), A!Reading,
           t.pc = "fill" => EntryFits(t.gen, t.seen.groups, t.who, users, accountTask, idgen, lost),
           t.pc = "gate" => /\ sess[t.sid].st # "unused"
                            /\ GateFits(sess, users, accountTask, t.sid, t.seen.must)
    PROVE  PanelInv'
<1>1. /\ accountTask[r].pc = "idle" /\ accountTask' = [accountTask EXCEPT ![r] = t]
      /\ accountAsked < MaxPanelRequests /\ accountAsked' = accountAsked + 1
      /\ UNCHANGED <<users, sess, gate, idgen, idcache, lost>>
  BY DEF A!Begin, A!Free, A!At, A!Ask, A!Reading, A!identity
<1>2. accountAsked' \in 0..MaxPanelRequests
  BY <1>1, PanelAssumption, PanelFacts
<1>3. accountTask[r].pc \notin Revoking /\ accountTask[r].pc \notin Clearing
  BY <1>1 DEF Revoking, Clearing
<1> QED
  BY <1>1, <1>2, <1>3, MoveKept

(* What the statements do to a row.                                        *)
LEMMA InsertRow ==
    ASSUME PanelInv, NEW u \in Users, NEW role \in A!Roles, NEW must \in BOOLEAN,
           NEW gs \in SUBSET Groups, A!Insert(u, role, must, gs)
    PROVE  /\ users' \in [Users -> A!Row] /\ \A v \in Users \ {u} : users'[v] = users[v]
           /\ ~users[u].here /\ users[u].groups = {}
           /\ users'[u].here = TRUE /\ users'[u].groups = gs /\ users'[u].role = role
           /\ users'[u].pw \in Nat
<1> DEFINE ro == [here |-> TRUE, role |-> role, groups |-> gs, must |-> must,
                  pw |-> users[u].pw + 1]
<1>1. ~users[u].here /\ users' = [users EXCEPT ![u] = ro]
  BY DEF A!Insert
<1>2. users[u].pw + 1 \in Nat
  BY PanelFacts
<1>3. ro \in A!Row
  BY <1>2 DEF A!Row
<1>4. ro.here = TRUE /\ ro.groups = gs /\ ro.role = role /\ ro.pw \in Nat
  BY <1>2
<1> HIDE DEF ro
<1>5. users' \in [Users -> A!Row] /\ users'[u] = ro /\ \A v \in Users \ {u} : users'[v] = users[v]
  BY <1>1, <1>3, PanelFacts
<1> QED
  BY <1>1, <1>4, <1>5 DEF PanelInv

LEMMA PasswordRow ==
    ASSUME PanelInv, NEW u \in Users, NEW must \in BOOLEAN, A!SetPassword(u, must)
    PROVE  /\ users' \in [Users -> A!Row] /\ \A v \in Users \ {u} : users'[v] = users[v]
           /\ users[u].here /\ users'[u].here = users[u].here
           /\ users'[u].groups = users[u].groups
           /\ users'[u].role = users[u].role /\ users'[u].pw \in Nat
<1>1. users[u].here /\ users' = [users EXCEPT ![u].must = must, ![u].pw = @ + 1]
  BY DEF A!SetPassword
<1>2. users \in [Users -> A!Row] /\ users[u] \in A!Row /\ users[u].pw + 1 \in Nat
  BY PanelFacts
<1> QED
  BY <1>1, <1>2 DEF A!Row

LEMMA UpdateRow ==
    ASSUME PanelInv, NEW u \in Users, NEW role \in A!Roles, NEW gs \in SUBSET Groups,
           \/ A!UpdateAccount(u, role, gs)
           \/ A!SetRoleOf(u, role) /\ gs = users[u].groups
           \/ A!SetGroupsOf(u, gs) /\ role = users[u].role
    PROVE  /\ users' \in [Users -> A!Row] /\ \A v \in Users \ {u} : users'[v] = users[v]
           /\ users[u].here /\ users'[u].here = users[u].here
           /\ users'[u].groups = gs /\ users'[u].role = role
           /\ users'[u].pw = users[u].pw /\ users'[u].must = users[u].must
<1>1. users \in [Users -> A!Row] /\ users[u] \in A!Row
  BY PanelFacts
<1>2. CASE A!UpdateAccount(u, role, gs)
  <2>1. users[u].here /\ users' = [users EXCEPT ![u].role = role, ![u].groups = gs]
    BY <1>2 DEF A!UpdateAccount
  <2> QED
    BY <1>1, <2>1 DEF A!Row
<1>3. CASE A!SetRoleOf(u, role) /\ gs = users[u].groups
  <2>1. users[u].here /\ users' = [users EXCEPT ![u].role = role]
    BY <1>3 DEF A!SetRoleOf
  <2> QED
    BY <1>1, <1>3, <2>1 DEF A!Row
<1>4. CASE A!SetGroupsOf(u, gs) /\ role = users[u].role
  <2>1. users[u].here /\ users' = [users EXCEPT ![u].groups = gs]
    BY <1>4 DEF A!SetGroupsOf
  <2> QED
    BY <1>1, <1>4, <2>1 DEF A!Row
<1> QED
  BY <1>2, <1>3, <1>4

LEMMA DeleteRow ==
    ASSUME PanelInv, NEW u \in Users, A!DeleteAccount(u)
    PROVE  /\ users' \in [Users -> A!Row] /\ \A v \in Users \ {u} : users'[v] = users[v]
           /\ users'[u].groups = {} /\ ~users'[u].here
<1>1. users' = [users EXCEPT ![u] = [A!NoRow EXCEPT !.pw = users[u].pw]]
  BY DEF A!DeleteAccount
<1>2. /\ [A!NoRow EXCEPT !.pw = users[u].pw] \in A!Row
      /\ [A!NoRow EXCEPT !.pw = users[u].pw].groups = A!NoRow.groups
      /\ [A!NoRow EXCEPT !.pw = users[u].pw].here = A!NoRow.here
  BY PanelIdle, PanelFacts DEF A!Row
<1>3. users'[u] = [A!NoRow EXCEPT !.pw = users[u].pw] /\ users' \in [Users -> A!Row]
      /\ \A v \in Users \ {u} : users'[v] = users[v]
  BY <1>1, <1>2, PanelFacts
<1> QED
  BY <1>2, <1>3, PanelIdle

(* Where a handler goes after its statement.                               *)
LEMMA GotoJob ==
    ASSUME PanelInv, NEW r \in Reqs, NEW pc \in A!Pcs, A!Goto(r, pc),
           pc \notin {"setup", "resession", "gate", "fill"},
           pc \in Anonymous \/ accountTask[r].pc \notin Anonymous
    PROVE  \E t \in PanelJobs : /\ JobDecided(t) /\ t.pc = pc /\ t.who = accountTask[r].who
                                /\ accountTask' = [accountTask EXCEPT ![r] = t]
<1> DEFINE t == [A!Idle EXCEPT !.pc = pc, !.who = accountTask[r].who]
<1>1. /\ t \in PanelJobs /\ t.pc = pc /\ t.who = accountTask[r].who /\ t.scope = A!NoScope
  BY PanelIdle, PanelTask DEF PanelJobs
<1>2. JobDecided(t)
  BY <1>1, PanelTask, PlainJob
<1>3. accountTask' = [accountTask EXCEPT ![r] = t]
  BY DEF A!Goto
<1> QED
  BY <1>1, <1>2, <1>3

LEMMA IdleKept ==
    ASSUME PanelInv, NEW r \in Reqs, A!Finish(r), accountTask[r].pc \notin Revoking \cup Clearing,
           UNCHANGED <<users, sess, gate, idgen, idcache, lost, accountAsked>>
    PROVE  PanelInv'
<1>1. accountTask' = [accountTask EXCEPT ![r] = A!Idle]
  BY DEF A!Finish
<1>2. JobDecided(A!Idle)
  BY PanelIdle, PlainJob DEF Anonymous
<1> QED
  BY <1>1, <1>2, PanelIdle, PanelFacts, MoveKept

(* The sessions.                                                           *)
LEMMA Opened ==
    ASSUME PanelInv, NEW left \in [PanelSids -> A!Session], NEW role \in A!Roles,
           NEW u \in Users \cup {None}, NEW pw \in Nat, A!CreateSession(left, role, u, pw),
           \A s \in PanelSids : left[s] = sess[s] \/ (left[s].st = "dead" /\ sess[s].st = "live")
    PROVE  /\ sess' \in [PanelSids -> A!Session]
           /\ \A s \in PanelSids :
                \/ sess'[s] = left[s]
                \/ /\ sess[s].st = "unused" /\ sess'[s].st = "live"
                   /\ sess'[s].actor # None /\ ~sess'[s].excused
                         => A!Matches(sess'[s].role, sess'[s].pw, users[sess'[s].actor])
<1> DEFINE late == u # None /\ ~A!Matches(role, pw, users[u])
           new == [st |-> "live", actor |-> u, role |-> role, pw |-> pw, excused |-> late]
<1>1. PICK s0 \in PanelSids : left[s0].st = "unused" /\ sess' = [left EXCEPT ![s0] = new]
  BY DEF A!CreateSession
<1>2. late \in BOOLEAN
  OBVIOUS
<1>3. ~late => u = None \/ A!Matches(role, pw, users[u])
  OBVIOUS
<1>4. \A l \in BOOLEAN :
        [st |-> "live", actor |-> u, role |-> role, pw |-> pw, excused |-> l] \in A!Session
  BY DEF A!Session
<1> HIDE DEF late
<1>5. new \in A!Session
  BY <1>2, <1>4
<1>6. new.st = "live" /\ new.actor = u /\ new.role = role /\ new.pw = pw /\ new.excused = late
  OBVIOUS
<1> HIDE DEF new
<1>7. sess' \in [PanelSids -> A!Session] /\ sess'[s0] = new
      /\ \A s \in PanelSids \ {s0} : sess'[s] = left[s]
  BY <1>1, <1>5
<1>8. sess[s0].st = "unused"
  BY <1>1
<1>9. new.actor # None /\ ~new.excused => A!Matches(new.role, new.pw, users[new.actor])
  BY <1>2, <1>3, <1>6
<1> QED
  BY <1>7, <1>8, <1>9, <1>6

(* Ended, without its operator argument: the sessions of S end.            *)
EndedIn(S) == [s \in PanelSids |-> IF sess[s].st = "live" /\ s \in S
                                   THEN [sess[s] EXCEPT !.st = "dead"] ELSE sess[s]]

LEMMA EndedFits ==
    ASSUME PanelInv, NEW S
    PROVE  /\ EndedIn(S) \in [PanelSids -> A!Session]
           /\ \A s \in PanelSids : \/ EndedIn(S)[s] = sess[s] /\ (s \in S => sess[s].st # "live")
                                   \/ EndedIn(S)[s].st = "dead" /\ sess[s].st = "live"
<1>1. \A s \in PanelSids : /\ [sess[s] EXCEPT !.st = "dead"] \in A!Session
                           /\ [sess[s] EXCEPT !.st = "dead"].st = "dead"
  BY PanelFacts DEF A!Session
<1>2. EndedIn(S) \in [PanelSids -> A!Session]
  BY <1>1, PanelFacts DEF EndedIn
<1>3. \A s \in PanelSids : EndedIn(S)[s] = IF sess[s].st = "live" /\ s \in S
                                           THEN [sess[s] EXCEPT !.st = "dead"] ELSE sess[s]
  BY DEF EndedIn
<1> QED
  BY <1>1, <1>2, <1>3

LEMMA LoginKept == ASSUME PanelInv, NEW r \in Reqs, A!LoginSubmit(r) PROVE PanelInv'
<1>1. ASSUME NEW u \in Users,
             A!Begin(r, [A!Idle EXCEPT !.pc = "verified", !.who = u,
                           !.seen = [A!NoRow EXCEPT !.role = users[u].role, !.pw = users[u].pw]]),
             A!Reading
      PROVE  PanelInv'
  <2> DEFINE t == [A!Idle EXCEPT !.pc = "verified", !.who = u,
                     !.seen = [A!NoRow EXCEPT !.role = users[u].role, !.pw = users[u].pw]]
  <2>1. [A!NoRow EXCEPT !.role = users[u].role, !.pw = users[u].pw] \in A!Row
    BY PanelIdle, PanelFacts DEF A!Row
  <2>2. t \in PanelJobs /\ t.pc = "verified" /\ t.who = u /\ t.scope = A!NoScope
    BY <2>1, PanelIdle DEF PanelJobs, A!Pcs
  <2> HIDE DEF t
  <2>3. JobDecided(t)
    BY <2>2, PlainJob DEF Anonymous
  <2>4. A!Begin(r, t)
    BY <1>1 DEF t
  <2> QED
    BY <1>1, <2>2, <2>3, <2>4, BeginKept
<1>2. ASSUME A!At(r, "verified"),
             A!CreateSession(sess, accountTask[r].seen.role, accountTask[r].who,
                             accountTask[r].seen.pw),
             A!Finish(r), UNCHANGED <<users, accountAsked, gate, A!identity>>
      PROVE  PanelInv'
  <2>1. accountTask[r].pc = "verified" /\ UNCHANGED <<users, gate, idgen, idcache, lost, accountAsked>>
    BY <1>2 DEF A!At, A!identity
  <2>2. accountTask[r].who \in Users /\ accountTask[r].seen.role \in A!Roles
        /\ accountTask[r].seen.pw \in Nat
    BY <2>1, PanelTask DEF Anonymous, A!Row
  <2>3. /\ sess' \in [PanelSids -> A!Session]
        /\ \A s \in PanelSids :
             \/ sess'[s] = sess[s]
             \/ /\ sess[s].st = "unused" /\ sess'[s].st = "live"
                /\ sess'[s].actor # None /\ ~sess'[s].excused
                      => A!Matches(sess'[s].role, sess'[s].pw, users[sess'[s].actor])
    BY <1>2, <2>2, PanelFacts, Opened
  <2>4. accountTask' = [accountTask EXCEPT ![r] = A!Idle] /\ JobDecided(A!Idle)
    BY <1>2, PanelIdle, PlainJob DEF A!Finish, Anonymous
  <2>5. accountTask[r].pc \notin Revoking /\ accountTask[r].pc \notin Clearing
    BY <2>1 DEF Revoking, Clearing
  <2> QED
    BY <2>1, <2>3, <2>4, <2>5, PanelIdle, PanelFacts, SessionStepKept
<1> QED
  BY <1>1, <1>2 DEF A!LoginSubmit

(* Steps that are no request's own.                                        *)
LEMMA SessionsOnlyKept ==
    ASSUME PanelInv, UNCHANGED accountTask,
           sess' \in [PanelSids -> A!Session],
           \A s \in PanelSids :
              \/ sess'[s] = sess[s] \/ sess'[s].st = "dead"
              \/ /\ sess[s].st = "unused" /\ sess'[s].st = "live"
                 /\ sess'[s].actor # None /\ ~sess'[s].excused
                       => A!Matches(sess'[s].role, sess'[s].pw, users[sess'[s].actor]),
           UNCHANGED <<users, gate, idgen, idcache, lost>>, accountAsked' \in 0..MaxPanelRequests
    PROVE  PanelInv'
<1>1. PanelTypes' /\ \A v \in Users : ~users'[v].here => users'[v].groups = {}
  BY DEF PanelInv, PanelTypes
<1>2. CacheFits'
  BY <1>1, CacheKept
<1>3. \A v \in Users : SameAccount(users[v], users'[v])
  BY DEF SameAccount
<1>4. SessionsFit'
  BY <1>1, <1>3, SessionsKept
<1> QED
  BY <1>1, <1>2, <1>4 DEF PanelInv

(* A handler that ends where it stands leaves its sessions excused and the *)
(* entries it would have cleared lost.                                     *)
LEMMA AbandonKept == ASSUME PanelInv, NEW r \in Reqs, A!Abandon(r) PROVE PanelInv'
<1> DEFINE b == accountTask[r]
<1>1. /\ accountTask' = [accountTask EXCEPT ![r] = A!Idle]
      /\ sess' = IF b.pc \in Revoking THEN A!Excuse(b.who) ELSE sess
      /\ lost' = IF b.pc \in Clearing THEN lost \cup A!Outdated ELSE lost
      /\ UNCHANGED <<users, gate, idgen, idcache, accountAsked>>
  BY DEF A!Abandon, A!Finish, A!Revoking, A!Clearing, Revoking, Clearing
<1>2. JobDecided(A!Idle) /\ (b.pc \in Revoking => b.who \in Users)
  BY PanelIdle, PlainJob, PanelTask DEF Anonymous, Revoking
<1>3. accountTask \in [Reqs -> PanelJobs] /\ \A q \in Reqs : JobDecided(accountTask[q])
  BY DEF PanelInv, PanelTypes
<1>4. /\ accountTask' \in [Reqs -> PanelJobs] /\ accountTask'[r] = A!Idle
      /\ \A q \in Reqs \ {r} : accountTask'[q] = accountTask[q]
  BY <1>1, <1>3, PanelIdle
<1>5. \A q \in Reqs : JobDecided(accountTask'[q])
  BY <1>2, <1>3, <1>4
<1>6. \A q \in Reqs : accountTask'[q].pc \in {"fill", "gate"} => accountTask'[q] = accountTask[q]
  BY <1>4, PanelIdle
<1>7. /\ sess' \in [PanelSids -> A!Session]
      /\ \A s \in PanelSids : sess'[s] = sess[s] \/ (sess'[s].st = sess[s].st /\ sess'[s].excused)
      /\ b.pc \in Revoking => \A s \in PanelSids :
            sess'[s].st = "live" /\ sess'[s].actor = b.who => sess'[s].excused
  <2>1. CASE b.pc \in Revoking
    BY <1>1, <1>2, <2>1, ExcusedFits
  <2>2. CASE b.pc \notin Revoking
    <3>1. sess' = sess /\ sess \in [PanelSids -> A!Session]
      BY <1>1, <2>2 DEF PanelInv, PanelTypes
    <3> QED
      BY <2>2, <3>1, Zenon
  <2> QED
    BY <2>1, <2>2
<1>8. A!Outdated \subseteq Users
  <2>1. \A q \in Reqs : accountTask[q].pc = "fill" => accountTask[q].who \in Users
    BY <1>3 DEF JobDecided, Anonymous
  <2> QED
    BY <2>1 DEF A!Outdated, A!At
<1>9. PanelTypes' /\ \A v \in Users : ~users'[v].here => users'[v].groups = {}
  BY <1>1, <1>4, <1>7, <1>8 DEF PanelInv, PanelTypes
<1>10. CacheFits'
  <2>1. CASE b.pc \notin Clearing
    <3>1. ToBeCleared(accountTask) => ToBeCleared(accountTask')
      BY <1>4, <2>1 DEF ToBeCleared
    <3> QED
      BY <1>1, <1>6, <1>9, <2>1, <3>1, CacheKept
  <2>2. CASE b.pc \in Clearing
    <3>1. lost' = lost \cup A!Outdated
      BY <1>1, <2>2
    <3>2. ASSUME NEW u \in Users
          PROVE  EntryFits(idcache'[u].gen, idcache'[u].groups, u, users', accountTask', idgen', lost')
      BY <1>1, <3>1 DEF PanelInv, CacheFits, EntryFits, A!Outdated, A!Servable
    <3>3. ASSUME NEW q \in Reqs, accountTask'[q].pc = "fill"
          PROVE  EntryFits(accountTask'[q].gen, accountTask'[q].seen.groups, accountTask'[q].who,
                           users', accountTask', idgen', lost')
      <4>1. accountTask'[q] = accountTask[q] /\ accountTask[q].pc = "fill"
        BY <1>6, <3>3
      <4>2. accountTask[q].gen <= idgen
        BY <4>1 DEF PanelInv, CacheFits, EntryFits
      <4>3. accountTask[q].gen = idgen =>
              \/ accountTask[q].seen.groups \subseteq users[accountTask[q].who].groups
              \/ accountTask[q].who \in A!Outdated
        BY <4>1 DEF A!Outdated, A!At
      <4> QED
        BY <1>1, <3>1, <4>1, <4>2, <4>3 DEF EntryFits
    <3> QED
      BY <3>2, <3>3 DEF CacheFits
  <2> QED
    BY <2>1, <2>2
<1>11. SessionsFit'
  <2>1. \A v \in Users : SameAccount(users[v], users'[v])
    BY <1>1 DEF SameAccount
  <2>2. \A v \in Users : ToBeRevoked(accountTask, v) =>
              \/ ToBeRevoked(accountTask', v)
              \/ \A s \in PanelSids : sess'[s].st = "live" /\ sess'[s].actor = v
                                         => sess[s].st = "unused" \/ sess'[s].excused
    BY <1>4, <1>7 DEF ToBeRevoked
  <2> QED
    BY <1>1, <1>6, <1>7, <1>9, <2>1, <2>2, SessionsKept
<1> QED
  BY <1>5, <1>9, <1>10, <1>11 DEF PanelInv

LEMMA TokenKept == ASSUME PanelInv, NEW r \in Reqs, A!TokenLogin(r) PROVE PanelInv'
<1>1. /\ accountAsked < MaxPanelRequests /\ accountAsked' = accountAsked + 1
      /\ A!CreateSession(sess, "admin", None, 0)
      /\ UNCHANGED <<users, gate, idgen, idcache, lost, accountTask>>
  BY DEF A!TokenLogin, A!Ask, A!identity
<1>2. accountAsked' \in 0..MaxPanelRequests
  BY <1>1, PanelAssumption, PanelFacts
<1>3. "admin" \in A!Roles
  BY DEF A!Roles
<1>4. /\ sess' \in [PanelSids -> A!Session]
      /\ \A s \in PanelSids :
           \/ sess'[s] = sess[s]
           \/ /\ sess[s].st = "unused" /\ sess'[s].st = "live"
              /\ sess'[s].actor # None /\ ~sess'[s].excused
                    => A!Matches(sess'[s].role, sess'[s].pw, users[sess'[s].actor])
  BY <1>1, <1>3, PanelFacts, Opened
<1> QED
  BY <1>1, <1>2, <1>4, SessionsOnlyKept

LEMMA LogoutKept == ASSUME PanelInv, NEW s \in PanelSids, A!Logout(s) PROVE PanelInv'
<1>1. /\ accountAsked < MaxPanelRequests /\ accountAsked' = accountAsked + 1
      /\ sess' = EndedIn({s})
      /\ UNCHANGED <<users, gate, idgen, idcache, lost, accountTask>>
  BY DEF A!Logout, A!Ask, A!identity, A!Ended, A!Live, EndedIn
<1>2. accountAsked' \in 0..MaxPanelRequests
  BY <1>1, PanelAssumption, PanelFacts
<1> QED
  BY <1>1, <1>2, EndedFits, SessionsOnlyKept

LEMMA SetupKept == ASSUME PanelInv, NEW r \in Reqs, A!SetupSubmit(r) PROVE PanelInv'
<1> DEFINE b == accountTask[r]
<1>1. ASSUME NEW s \in PanelSids, NEW u \in Users, A!Reading,
             A!Begin(r, [A!Idle EXCEPT !.pc = "setup", !.who = u, !.sid = s])
      PROVE  PanelInv'
  <2> DEFINE t == [A!Idle EXCEPT !.pc = "setup", !.who = u, !.sid = s]
  <2>1. t \in PanelJobs /\ t.pc = "setup" /\ t.who = u /\ t.scope = A!NoScope /\ t.sid = s
    BY PanelIdle DEF PanelJobs, A!Pcs
  <2> HIDE DEF t
  <2>2. JobDecided(t)
    BY <2>1, PlainJob
  <2>3. A!Begin(r, t)
    BY <1>1 DEF t
  <2> QED
    BY <1>1, <2>1, <2>2, <2>3, BeginKept
<1>2. ASSUME A!At(r, "setup"), A!Insert(b.who, "admin", FALSE, {}),
             accountTask' = [accountTask EXCEPT ![r].pc = "resession",
                                                ![r].seen.pw = users'[b.who].pw],
             UNCHANGED <<sess, gate, A!identity, accountAsked>>
      PROVE  PanelInv'
  <2> DEFINE t == [b EXCEPT !.pc = "resession", !.seen.pw = users'[b.who].pw]
  <2>1. /\ b.pc = "setup" /\ b.who \in Users /\ b.sid \in PanelSids /\ b.scope = A!NoScope
        /\ b \in PanelJobs
    BY <1>2, PanelTask DEF A!At, Anonymous, JobDecided
  <2>2. "admin" \in A!Roles /\ {} \in SUBSET Groups
    BY DEF A!Roles
  <2>3. /\ users' \in [Users -> A!Row] /\ \A v \in Users \ {b.who} : users'[v] = users[v]
        /\ ~users[b.who].here /\ users[b.who].groups = {}
        /\ users'[b.who].here = TRUE /\ users'[b.who].pw \in Nat
    BY <1>2, <2>1, <2>2, InsertRow
  <2>4. /\ t \in PanelJobs /\ t.pc = "resession" /\ t.who = b.who /\ t.sid = b.sid
        /\ t.scope = b.scope
    BY <2>1, <2>3 DEF PanelJobs, A!Pcs, A!Row
  <2>5. accountTask' = [accountTask EXCEPT ![r] = t]
    <3>1. accountTask \in [Reqs -> PanelJobs]
      BY DEF PanelInv, PanelTypes
    <3>2. \A pw : [accountTask EXCEPT ![r].pc = "resession", ![r].seen.pw = pw] =
                    [accountTask EXCEPT ![r] = [b EXCEPT !.pc = "resession", !.seen.pw = pw]]
      BY <3>1
    <3> QED
      BY <1>2, <3>2, Zenon
  <2> HIDE DEF t
  <2>6. JobDecided(t)
    BY <2>1, <2>4, PlainJob
  <2>7. b.pc \notin Revoking /\ b.pc \notin Clearing
    BY <2>1 DEF Revoking, Clearing
  <2> QED
    BY <1>2, <2>1, <2>3, <2>4, <2>5, <2>6, <2>7, PanelFacts, CommitKept DEF A!identity
<1>3. ASSUME A!At(r, "resession"), A!Finish(r), UNCHANGED <<users, accountAsked, gate, A!identity>>,
             A!CreateSession(A!Ended(LAMBDA s : s = b.sid), "admin", b.who, b.seen.pw)
      PROVE  PanelInv'
  <2>1. b.pc = "resession" /\ b.who \in Users /\ UNCHANGED <<users, gate, idgen, idcache, lost, accountAsked>>
    BY <1>3, PanelTask DEF A!At, Anonymous, A!identity
  <2>2. "admin" \in A!Roles /\ b.seen.pw \in Nat
    BY PanelTask DEF A!Roles, A!Row
  <2>3. A!Ended(LAMBDA s : s = b.sid) = EndedIn({b.sid})
    BY DEF A!Ended, A!Live, EndedIn
  <2>4. /\ EndedIn({b.sid}) \in [PanelSids -> A!Session]
        /\ \A s \in PanelSids : \/ EndedIn({b.sid})[s] = sess[s]
                                \/ EndedIn({b.sid})[s].st = "dead" /\ sess[s].st = "live"
    BY EndedFits
  <2>5. /\ sess' \in [PanelSids -> A!Session]
        /\ \A s \in PanelSids :
             \/ sess'[s] = EndedIn({b.sid})[s]
             \/ /\ sess[s].st = "unused" /\ sess'[s].st = "live"
                /\ sess'[s].actor # None /\ ~sess'[s].excused
                      => A!Matches(sess'[s].role, sess'[s].pw, users[sess'[s].actor])
    BY <1>3, <2>1, <2>2, <2>3, <2>4, Opened
  <2>6. accountTask' = [accountTask EXCEPT ![r] = A!Idle] /\ JobDecided(A!Idle)
    BY <1>3, PanelIdle, PlainJob DEF A!Finish, Anonymous
  <2>7. b.pc \notin Revoking /\ b.pc \notin Clearing
    BY <2>1 DEF Revoking, Clearing
  <2>8. \A s \in PanelSids :
             \/ sess'[s] = sess[s] \/ sess'[s].st = "dead"
             \/ /\ sess[s].st = "unused" /\ sess'[s].st = "live"
                /\ sess'[s].actor # None /\ ~sess'[s].excused
                      => A!Matches(sess'[s].role, sess'[s].pw, users[sess'[s].actor])
    BY <2>4, <2>5
  <2>9. /\ A!Idle \in PanelJobs /\ A!Idle.pc \notin {"fill", "gate"}
        /\ sess' \in [PanelSids -> A!Session] /\ accountAsked' \in 0..MaxPanelRequests
        /\ UNCHANGED <<users, gate, idgen, idcache, lost>>
    BY <2>1, <2>5, PanelIdle, PanelFacts
  <2> QED
    BY <2>6, <2>7, <2>8, <2>9, SessionStepKept
<1> QED
  BY <1>1, <1>2, <1>3 DEF A!SetupSubmit

LEMMA RevokedFits ==
    ASSUME PanelInv, NEW u
    PROVE  /\ A!RevokeByActor(u) \in [PanelSids -> A!Session]
           /\ \A s \in PanelSids :
                \/ A!RevokeByActor(u)[s] = sess[s] /\ ~(sess[s].st = "live" /\ sess[s].actor = u)
                \/ A!RevokeByActor(u)[s].st = "dead" /\ sess[s].st = "live"
<1> DEFINE S == {s \in PanelSids : sess[s].actor = u}
<1>1. A!RevokeByActor(u) = EndedIn(S)
  BY DEF A!RevokeByActor, A!Ended, A!Live, EndedIn
<1>2. \A s \in PanelSids : s \in S <=> sess[s].actor = u
  OBVIOUS
<1> HIDE DEF S
<1> QED
  BY <1>1, <1>2, EndedFits

LEMMA PasswordKept == ASSUME PanelInv, NEW r \in Reqs, A!PasswordSubmit(r) PROVE PanelInv'
<1> DEFINE b == accountTask[r]
<1>1. ASSUME NEW s \in PanelSids, sess[s].actor # None, A!Reading,
             A!Begin(r, [A!Idle EXCEPT !.pc = "password", !.who = sess[s].actor,
                                       !.role = sess[s].role])
      PROVE  PanelInv'
  <2> DEFINE t == [A!Idle EXCEPT !.pc = "password", !.who = sess[s].actor, !.role = sess[s].role]
  <2>1. sess[s].actor \in Users /\ sess[s].role \in A!Roles
    BY <1>1, PanelFacts
  <2>2. t \in PanelJobs /\ t.pc = "password" /\ t.who \in Users /\ t.scope = A!NoScope
    BY <2>1, PanelIdle DEF PanelJobs, A!Pcs
  <2> HIDE DEF t
  <2>3. JobDecided(t)
    BY <2>2, PlainJob
  <2>4. A!Begin(r, t)
    BY <1>1 DEF t
  <2> QED
    BY <1>1, <2>2, <2>3, <2>4, BeginKept
<1>2. ASSUME A!At(r, "password"), A!SetPassword(b.who, FALSE),
             accountTask' = [accountTask EXCEPT ![r].pc = "renew",
                                                ![r].seen.pw = users'[b.who].pw],
             UNCHANGED <<sess, gate, A!identity, accountAsked>>
      PROVE  PanelInv'
  <2> DEFINE t == [b EXCEPT !.pc = "renew", !.seen.pw = users'[b.who].pw]
  <2>1. b.pc = "password" /\ b.who \in Users /\ b.scope = A!NoScope /\ b \in PanelJobs
    BY <1>2, PanelTask DEF A!At, Anonymous, JobDecided
  <2>2. /\ users' \in [Users -> A!Row] /\ \A v \in Users \ {b.who} : users'[v] = users[v]
        /\ users[b.who].here /\ users'[b.who].here = users[b.who].here
        /\ users'[b.who].groups = users[b.who].groups /\ users'[b.who].pw \in Nat
    BY <1>2, <2>1, PasswordRow
  <2>3. t \in PanelJobs /\ t.pc = "renew" /\ t.who = b.who /\ t.scope = b.scope
    BY <2>1, <2>2 DEF PanelJobs, A!Pcs, A!Row
  <2>4. accountTask' = [accountTask EXCEPT ![r] = t]
    <3>1. accountTask \in [Reqs -> PanelJobs]
      BY DEF PanelInv, PanelTypes
    <3>2. \A pw : [accountTask EXCEPT ![r].pc = "renew", ![r].seen.pw = pw] =
                    [accountTask EXCEPT ![r] = [b EXCEPT !.pc = "renew", !.seen.pw = pw]]
      BY <3>1
    <3> QED
      BY <1>2, <3>2, Zenon
  <2> HIDE DEF t
  <2>5. JobDecided(t)
    BY <2>1, <2>3, PlainJob
  <2>6. b.pc \notin Revoking /\ b.pc \notin Clearing /\ t.pc \in Revoking
    BY <2>1, <2>3 DEF Revoking, Clearing
  <2>7. /\ UNCHANGED <<gate, idgen, idcache, lost>> /\ sess' = sess
        /\ accountAsked' \in 0..MaxPanelRequests
    BY <1>2, PanelFacts DEF A!identity
  <2>8. t.pc \notin {"fill", "gate"} /\ (~users'[b.who].here => users'[b.who].groups = {})
    BY <2>2, <2>3
  <2> QED
    BY <2>1, <2>2, <2>3, <2>4, <2>5, <2>6, <2>7, <2>8, CommitKept
<1>3. ASSUME A!At(r, "renew"), A!Finish(r), UNCHANGED <<users, accountAsked, gate, A!identity>>,
             A!CreateSession(A!RevokeByActor(b.who), b.role, b.who, b.seen.pw)
      PROVE  PanelInv'
  <2>1. b.pc = "renew" /\ b.who \in Users /\ UNCHANGED <<users, gate, idgen, idcache, lost, accountAsked>>
    BY <1>3, PanelTask DEF A!At, Anonymous, A!identity
  <2>2. b.role \in A!Roles /\ b.seen.pw \in Nat
    BY PanelTask DEF A!Row
  <2>3. /\ A!RevokeByActor(b.who) \in [PanelSids -> A!Session]
        /\ \A s \in PanelSids :
             \/ /\ A!RevokeByActor(b.who)[s] = sess[s]
                /\ ~(sess[s].st = "live" /\ sess[s].actor = b.who)
             \/ A!RevokeByActor(b.who)[s].st = "dead" /\ sess[s].st = "live"
    BY RevokedFits
  <2>4. /\ sess' \in [PanelSids -> A!Session]
        /\ \A s \in PanelSids :
             \/ sess'[s] = A!RevokeByActor(b.who)[s]
             \/ /\ sess[s].st = "unused" /\ sess'[s].st = "live"
                /\ sess'[s].actor # None /\ ~sess'[s].excused
                      => A!Matches(sess'[s].role, sess'[s].pw, users[sess'[s].actor])
    BY <1>3, <2>1, <2>2, <2>3, Opened
  <2>5. accountTask' = [accountTask EXCEPT ![r] = A!Idle] /\ JobDecided(A!Idle)
    BY <1>3, PanelIdle, PlainJob DEF A!Finish, Anonymous
  <2>6. b.pc \notin Clearing
    BY <2>1 DEF Clearing
  <2>7. \A s \in PanelSids : sess'[s].st = "live" /\ sess'[s].actor = b.who => sess[s].st = "unused"
    BY <2>3, <2>4
  <2>8. \A s \in PanelSids :
             \/ sess'[s] = sess[s] \/ sess'[s].st = "dead"
             \/ /\ sess[s].st = "unused" /\ sess'[s].st = "live"
                /\ sess'[s].actor # None /\ ~sess'[s].excused
                      => A!Matches(sess'[s].role, sess'[s].pw, users[sess'[s].actor])
    BY <2>3, <2>4
  <2>9. /\ A!Idle \in PanelJobs /\ A!Idle.pc \notin {"fill", "gate"}
        /\ sess' \in [PanelSids -> A!Session] /\ accountAsked' \in 0..MaxPanelRequests
        /\ UNCHANGED <<users, gate, idgen, idcache, lost>>
    BY <2>1, <2>4, PanelIdle, PanelFacts
  <2> QED
    BY <2>5, <2>6, <2>7, <2>8, <2>9, SessionStepKept
<1> QED
  BY <1>1, <1>2, <1>3 DEF A!PasswordSubmit

LEMMA RevokeKept == ASSUME PanelInv, NEW r \in Reqs, A!Revoke(r) PROVE PanelInv'
<1> DEFINE b == accountTask[r]
<1>1. /\ b.pc \in {"revoke", "revoke_invalidate"} /\ sess' = A!RevokeByActor(b.who)
      /\ UNCHANGED <<users, gate, idgen, idcache, lost, accountAsked>>
      /\ IF b.pc = "revoke" THEN A!Finish(r) ELSE A!Goto(r, "invalidate")
  BY DEF A!Revoke, A!identity, A!At
<1>2. PICK t \in PanelJobs : /\ JobDecided(t) /\ t.pc \notin {"fill", "gate"}
                             /\ accountTask' = [accountTask EXCEPT ![r] = t]
                             /\ b.pc = "revoke_invalidate" => t.pc = "invalidate"
  <2>1. CASE b.pc = "revoke"
    <3>1. accountTask' = [accountTask EXCEPT ![r] = A!Idle] /\ JobDecided(A!Idle)
      BY <1>1, <2>1, PanelIdle, PlainJob DEF A!Finish, Anonymous
    <3> QED
      BY <2>1, <3>1, PanelIdle
  <2>2. CASE b.pc = "revoke_invalidate"
    <3>1. A!Goto(r, "invalidate") /\ "invalidate" \in A!Pcs /\ "invalidate" \in Anonymous
      BY <1>1, <2>2 DEF A!Pcs, Anonymous
    <3>2. \E t \in PanelJobs : /\ JobDecided(t) /\ t.pc = "invalidate" /\ t.who = b.who
                               /\ accountTask' = [accountTask EXCEPT ![r] = t]
      BY <3>1, GotoJob
    <3> QED
      BY <3>2
  <2> QED
    BY <1>1, <2>1, <2>2
<1>3. b.pc \in Clearing => t.pc \in Clearing
  BY <1>1, <1>2 DEF Clearing
<1>4. /\ sess' \in [PanelSids -> A!Session]
      /\ \A s \in PanelSids :
           \/ sess'[s] = sess[s] /\ ~(sess[s].st = "live" /\ sess[s].actor = b.who)
           \/ sess'[s].st = "dead" /\ sess[s].st = "live"
  BY <1>1, RevokedFits
<1>5. \A s \in PanelSids : ~(sess'[s].st = "live" /\ sess'[s].actor = b.who)
  BY <1>4
<1> QED
  BY <1>1, <1>2, <1>3, <1>4, <1>5, PanelFacts, SessionStepKept

LEMMA GuardKept == ASSUME PanelInv, NEW r \in Reqs, A!MustChangeGuard(r) PROVE PanelInv'
<1> DEFINE b == accountTask[r]
<1>1. ASSUME NEW s \in PanelSids, A!Live(s), A!Reading,
             A!Begin(r, [A!Idle EXCEPT !.pc = "gate", !.sid = s,
                           !.seen.must = sess[s].actor # None /\ users[sess[s].actor].must])
      PROVE  PanelInv'
  <2> DEFINE must == sess[s].actor # None /\ users[sess[s].actor].must
             t == [A!Idle EXCEPT !.pc = "gate", !.sid = s, !.seen.must = must]
  <2>1. must \in BOOLEAN
    OBVIOUS
  <2>2. A!Begin(r, t)
    BY <1>1
  <2>3. sess[s].actor # None => (must <=> users[sess[s].actor].must)
    OBVIOUS
  <2> HIDE DEF must
  <2>4. /\ t \in PanelJobs /\ t.pc = "gate" /\ t.sid = s /\ t.scope = A!NoScope
        /\ t.seen.must = must
    BY <2>1, PanelIdle DEF PanelJobs, A!Pcs, A!Row
  <2> HIDE DEF t
  <2>5. JobDecided(t)
    BY <2>4, PlainJob DEF Anonymous
  <2>6. sess[t.sid].st # "unused"
    BY <1>1, <2>4 DEF A!Live
  <2>7. GateFits(sess, users, accountTask, t.sid, t.seen.must)
    BY <2>3, <2>4 DEF GateFits, Unexplained
  <2> QED
    BY <1>1, <2>2, <2>4, <2>5, <2>6, <2>7, BeginKept
<1>2. ASSUME A!At(r, "gate"), A!Finish(r), UNCHANGED <<users, accountAsked, sess, A!identity>>,
             gate' = [gate EXCEPT ![b.sid] = IF b.seen.must THEN "must" ELSE "free"]
      PROVE  PanelInv'
  <2>1. b.pc = "gate" /\ b.sid \in PanelSids /\ UNCHANGED <<users, sess, idgen, idcache, lost, accountAsked>>
    BY <1>2, PanelTask DEF A!At, A!identity, JobDecided
  <2>2. accountTask' = [accountTask EXCEPT ![r] = A!Idle] /\ JobDecided(A!Idle)
    BY <1>2, PanelIdle, PlainJob DEF A!Finish, Anonymous
  <2>3. b.pc \notin Revoking /\ b.pc \notin Clearing
    BY <2>1 DEF Revoking, Clearing
  <2>4. /\ accountTask' \in [Reqs -> PanelJobs] /\ accountTask'[r] = A!Idle
        /\ \A q \in Reqs \ {r} : accountTask'[q] = accountTask[q]
        /\ \A q \in Reqs : JobDecided(accountTask'[q])
        /\ ToBeCleared(accountTask) => ToBeCleared(accountTask')
        /\ \A v : ToBeRevoked(accountTask, v) => ToBeRevoked(accountTask', v)
    BY <2>2, <2>3, PanelIdle, JobsGoOn
  <2>5. gate \in [PanelSids -> {"none", "must", "free"}]
    BY DEF PanelInv, PanelTypes
  <2>6. /\ gate' \in [PanelSids -> {"none", "must", "free"}]
        /\ \A s \in PanelSids \ {b.sid} : gate'[s] = gate[s]
        /\ gate'[b.sid] # "none" /\ (gate'[b.sid] = "must" <=> b.seen.must)
    BY <1>2, <2>1, <2>5
  <2>7. PanelTypes' /\ \A v \in Users : ~users'[v].here => users'[v].groups = {}
    BY <2>1, <2>4, <2>6 DEF PanelInv, PanelTypes
  <2>8. \A q \in Reqs : accountTask'[q].pc \in {"fill", "gate"} => accountTask'[q] = accountTask[q]
    BY <2>4, PanelIdle
  <2>9. CacheFits'
    BY <2>1, <2>4, <2>7, <2>8, CacheKept
  <2>10. \A v \in Users : SameAccount(users[v], users'[v])
    BY <2>1 DEF SameAccount
  <2>11. \A s \in PanelSids :
              \/ gate'[s] = gate[s]
              \/ \E q \in Reqs : /\ accountTask[q].pc = "gate" /\ accountTask[q].sid = s
                                 /\ gate'[s] # "none"
                                 /\ gate'[s] = "must" <=> accountTask[q].seen.must
    BY <2>1, <2>6
  <2>12. SessionsFit'
    BY <2>1, <2>4, <2>7, <2>8, <2>10, <2>11, SessionsKept
  <2> QED
    BY <2>4, <2>7, <2>9, <2>12 DEF PanelInv
<1> QED
  BY <1>1, <1>2 DEF A!MustChangeGuard

LEMMA ResolveKept == ASSUME PanelInv, NEW r \in Reqs, A!ResolveIdentity(r) PROVE PanelInv'
<1> DEFINE b == accountTask[r]
<1>1. ASSUME NEW s \in PanelSids, sess[s].actor # None, A!Reading,
             A!Begin(r, [A!Idle EXCEPT !.pc = "fill", !.who = sess[s].actor, !.gen = idgen,
                                       !.seen.groups = users[sess[s].actor].groups])
      PROVE  PanelInv'
  <2> DEFINE u == sess[s].actor
             t == [A!Idle EXCEPT !.pc = "fill", !.who = u, !.gen = idgen,
                                 !.seen.groups = users[u].groups]
  <2>1. u \in Users
    BY <1>1, PanelFacts
  <2>2. /\ t \in PanelJobs /\ t.pc = "fill" /\ t.who = u /\ t.scope = A!NoScope
        /\ t.gen = idgen /\ t.seen.groups = users[u].groups
    <3> DEFINE sn == [A!NoRow EXCEPT !.groups = users[u].groups]
    <3>1. sn \in A!Row /\ sn.groups = users[u].groups
      BY <2>1, PanelIdle, PanelFacts DEF A!Row
    <3>2. t = [A!Idle EXCEPT !.pc = "fill", !.who = u, !.gen = idgen, !.seen = sn]
      BY PanelIdle DEF PanelJobs
    <3>3. idgen \in Nat
      BY PanelFacts
    <3> HIDE DEF sn, t
    <3> QED
      BY <2>1, <3>1, <3>2, <3>3, PanelIdle DEF PanelJobs, A!Pcs
  <2>3. A!Begin(r, t)
    BY <1>1
  <2> HIDE DEF t
  <2>4. JobDecided(t)
    BY <2>1, <2>2, PlainJob
  <2>5. EntryFits(t.gen, t.seen.groups, t.who, users, accountTask, idgen, lost)
    BY <2>2, PanelFacts DEF EntryFits
  <2> QED
    BY <1>1, <2>2, <2>3, <2>4, <2>5, BeginKept
<1>2. ASSUME A!At(r, "fill"), A!StoreIdentity(r), A!Finish(r),
             UNCHANGED <<users, accountAsked, sess, gate, idgen, lost>>
      PROVE  PanelInv'
  <2>1. b.pc = "fill" /\ b.who \in Users /\ b.gen \in Nat /\ b.seen.groups \in SUBSET Groups
    BY <1>2, PanelTask DEF A!At, Anonymous, A!Row
  <2>2. accountTask' = [accountTask EXCEPT ![r] = A!Idle] /\ JobDecided(A!Idle)
    BY <1>2, PanelIdle, PlainJob DEF A!Finish, Anonymous
  <2>3. b.pc \notin Revoking /\ b.pc \notin Clearing
    BY <2>1 DEF Revoking, Clearing
  <2>4. /\ accountTask' \in [Reqs -> PanelJobs] /\ accountTask'[r] = A!Idle
        /\ \A q \in Reqs \ {r} : accountTask'[q] = accountTask[q]
        /\ \A q \in Reqs : JobDecided(accountTask'[q])
        /\ ToBeCleared(accountTask) => ToBeCleared(accountTask')
        /\ \A v : ToBeRevoked(accountTask, v) => ToBeRevoked(accountTask', v)
    BY <2>2, <2>3, PanelIdle, JobsGoOn
  <2>5. idcache \in [Users -> [gen : Nat, groups : SUBSET Groups]]
    BY DEF PanelInv, PanelTypes
  <2>6. idcache' = [idcache EXCEPT ![b.who] = [gen |-> b.gen, groups |-> b.seen.groups]]
    BY <1>2 DEF A!StoreIdentity
  <2>7. /\ idcache' \in [Users -> [gen : Nat, groups : SUBSET Groups]]
        /\ \A v \in Users \ {b.who} : idcache'[v] = idcache[v]
        /\ idcache'[b.who].gen = b.gen /\ idcache'[b.who].groups = b.seen.groups
    BY <2>1, <2>5, <2>6
  <2>8. PanelTypes' /\ \A v \in Users : ~users'[v].here => users'[v].groups = {}
    BY <1>2, <2>4, <2>7 DEF PanelInv, PanelTypes
  <2>9. \A q \in Reqs : accountTask'[q].pc \in {"fill", "gate"} => accountTask'[q] = accountTask[q]
    BY <2>4, PanelIdle
  <2>10. \A v \in Users :
              \/ idcache'[v] = idcache[v]
              \/ \E q \in Reqs : /\ accountTask[q].pc = "fill" /\ accountTask[q].who = v
                                 /\ idcache'[v].gen = accountTask[q].gen
                                 /\ idcache'[v].groups = accountTask[q].seen.groups
    BY <2>1, <2>7
  <2>11. CacheFits'
    BY <1>2, <2>4, <2>8, <2>9, <2>10, CacheKept
  <2>12. \A v \in Users : SameAccount(users[v], users'[v])
    BY <1>2 DEF SameAccount
  <2>13. SessionsFit'
    BY <1>2, <2>4, <2>8, <2>9, <2>12, SessionsKept
  <2> QED
    BY <2>4, <2>8, <2>11, <2>13 DEF PanelInv
<1> QED
  BY <1>1, <1>2 DEF A!ResolveIdentity

LEMMA InvalidateKept == ASSUME PanelInv, NEW r \in Reqs, A!Invalidate(r) PROVE PanelInv'
<1> DEFINE b == accountTask[r]
<1>1. /\ b.pc = "invalidate" /\ idgen' = idgen + 1 /\ lost' = {}
      /\ idcache' = [u \in Users |-> [gen |-> 0, groups |-> {}]]
      /\ accountTask' = [accountTask EXCEPT ![r] = A!Idle]
      /\ UNCHANGED <<users, accountAsked, sess, gate>>
  BY DEF A!Invalidate, A!InvalidateIdentity, A!At, A!Finish
<1>2. JobDecided(A!Idle) /\ b.pc \notin Revoking
  BY <1>1, PanelIdle, PlainJob DEF Anonymous, Revoking
<1>3. accountTask \in [Reqs -> PanelJobs] /\ \A q \in Reqs : JobDecided(accountTask[q])
  BY DEF PanelInv, PanelTypes
<1>4. /\ accountTask' \in [Reqs -> PanelJobs] /\ accountTask'[r] = A!Idle
      /\ \A q \in Reqs \ {r} : accountTask'[q] = accountTask[q]
  BY <1>1, <1>3, PanelIdle
<1>5. \A q \in Reqs : JobDecided(accountTask'[q])
  BY <1>2, <1>3, <1>4
<1>6. \A v : ToBeRevoked(accountTask, v) => ToBeRevoked(accountTask', v)
  BY <1>2, <1>4 DEF ToBeRevoked
<1>7. idgen \in Nat /\ idgen' \in Nat /\ idgen' # 0 /\ idgen < idgen'
  BY <1>1, PanelFacts
<1>8. /\ idcache' \in [Users -> [gen : Nat, groups : SUBSET Groups]]
      /\ \A v \in Users : idcache'[v].gen = 0
  BY <1>1
<1>9. PanelTypes' /\ \A v \in Users : ~users'[v].here => users'[v].groups = {}
  BY <1>1, <1>4, <1>7, <1>8 DEF PanelInv, PanelTypes
<1>10. \A q \in Reqs : accountTask'[q].pc \in {"fill", "gate"} => accountTask'[q] = accountTask[q]
  BY <1>4, PanelIdle
<1>11. CacheFits'
  <2>1. \A v \in Users : EntryFits(idcache'[v].gen, idcache'[v].groups, v, users', accountTask', idgen', lost')
    BY <1>7, <1>8 DEF EntryFits
  <2>2. ASSUME NEW q \in Reqs, accountTask'[q].pc = "fill"
        PROVE  EntryFits(accountTask'[q].gen, accountTask'[q].seen.groups, accountTask'[q].who,
                         users', accountTask', idgen', lost')
    <3>1. accountTask[q].gen <= idgen /\ accountTask'[q] = accountTask[q]
      BY <1>10, <2>2 DEF PanelInv, CacheFits, EntryFits
    <3>2. accountTask[q].gen \in Nat
      BY PanelTask
    <3> QED
      BY <1>7, <3>1, <3>2 DEF EntryFits
  <2> QED
    BY <2>1, <2>2 DEF CacheFits
<1>12. \A v \in Users : SameAccount(users[v], users'[v])
  BY <1>1 DEF SameAccount
<1>13. SessionsFit'
  BY <1>1, <1>6, <1>9, <1>10, <1>12, SessionsKept
<1> QED
  BY <1>5, <1>9, <1>11, <1>13 DEF PanelInv

(* The users page and the groups page. What an editor's scope allows.      *)
LEMMA ScopeFits ==
    ASSUME PanelInv, NEW s \in PanelSids
    PROVE  /\ A!FromEditor(s) \in A!Scope /\ A!Kept(A!FromEditor(s)) \in A!Scope
           /\ A!Kept(A!FromEditor(s)).role = "editor" =>
                 /\ A!Kept(A!FromEditor(s)) = A!FromEditor(s) /\ ~A!Unscoped(A!FromEditor(s))
<1> DEFINE sc == A!FromEditor(s)
<1>1. sc \in A!Scope
  <2>1. \A u \in A!Accounts : users[u].groups \in SUBSET Groups
    BY PanelFacts DEF A!Accounts
  <2> QED
    BY <2>1, PanelFacts DEF A!FromEditor, A!Scope
<1>2. A!Kept(sc) = IF A!Unscoped(sc) THEN A!NoScope ELSE sc
  BY DEF A!Kept
<1> QED
  BY <1>1, <1>2, PanelIdle

LEMMA MergeFits ==
    ASSUME NEW sc \in A!Scope, NEW existing \in SUBSET Groups, NEW requested \in SUBSET Groups
    PROVE  /\ A!MergePreserving(sc, existing, requested) \in SUBSET Groups
           /\ ~A!Unscoped(sc) => A!MergePreserving(sc, existing, requested) \ sc.groups
                                   = existing \ sc.groups
  BY DEF A!MergePreserving, A!Scope

LEMMA ScopedKept ==
    ASSUME PanelInv, NEW r \in Reqs, NEW s \in PanelSids, NEW u \in Users, NEW t0 \in PanelJobs,
           t0.pc \in {"save_edit", "set_profile", "set_groups", "set_role", "reset_password"},
           A!Scoped(r, s, u, t0),
           t0.pc \in {"save_edit", "set_role"} => A!MayAssignRole(A!FromEditor(s), t0.role),
           t0.pc \in {"save_edit", "set_groups"} => \E gs \in SUBSET Groups :
              t0.groups = A!MergePreserving(A!FromEditor(s), users[u].groups, gs)
    PROVE  PanelInv'
<1> DEFINE sc == A!FromEditor(s)
           t == [t0 EXCEPT !.scope = A!Kept(sc), !.who = u, !.seen.role = users[u].role,
                           !.seen.groups = users[u].groups]
<1>1. A!Begin(r, t) /\ A!Reading
  BY DEF A!Scoped
<1>2. /\ sc \in A!Scope /\ A!Kept(sc) \in A!Scope
      /\ A!Kept(sc).role = "editor" => A!Kept(sc) = sc /\ ~A!Unscoped(sc)
  BY ScopeFits
<1>3. /\ t \in PanelJobs /\ t.pc = t0.pc /\ t.scope = A!Kept(sc) /\ t.who = u
      /\ t.seen.groups = users[u].groups /\ t.role = t0.role /\ t.groups = t0.groups
  BY <1>2, PanelFacts DEF PanelJobs, A!Row
<1> HIDE DEF t, sc
<1>4. t.scope.role = "editor" /\ t.pc \in {"save_edit", "set_role"} => t.role # "admin"
  BY <1>2, <1>3 DEF A!MayAssignRole, sc
<1>5. t.scope.role = "editor" /\ t.pc \in {"save_edit", "set_groups"}
         => t.groups \ t.scope.groups = t.seen.groups \ t.scope.groups
  BY <1>2, <1>3, MergeFits, PanelFacts DEF sc
<1>6. JobDecided(t)
  BY <1>3, <1>4, <1>5 DEF JobDecided, Anonymous
<1> QED
  BY <1>1, <1>3, <1>6, BeginKept

LEMMA PlainCommit ==
    ASSUME PanelInv, NEW r \in Reqs, NEW pc \in {"revoke", "revoke_invalidate", "invalidate"},
           A!Goto(r, pc), accountTask[r].pc \notin Anonymous \cup Revoking \cup Clearing,
           users' \in [Users -> A!Row],
           \A v \in Users \ {accountTask[r].who} : users'[v] = users[v],
           ~users'[accountTask[r].who].here => users'[accountTask[r].who].groups = {},
           pc # "revoke" \/ users[accountTask[r].who].groups \subseteq users'[accountTask[r].who].groups,
           \/ /\ sess' = sess
              /\ \/ SameAccount(users[accountTask[r].who], users'[accountTask[r].who])
                 \/ pc # "invalidate"
           \/ sess' = A!Excuse(accountTask[r].who),
           UNCHANGED <<gate, idgen, idcache, lost, accountAsked>>
    PROVE  PanelInv'
<1> DEFINE u == accountTask[r].who
<1>1. u \in Users /\ accountAsked' \in 0..MaxPanelRequests
  BY PanelTask, PanelFacts
<1>2. pc \in A!Pcs /\ pc \notin {"setup", "resession", "gate", "fill"}
  BY DEF A!Pcs
<1>3. PICK t \in PanelJobs : /\ JobDecided(t) /\ t.pc = pc /\ t.who = u
                             /\ accountTask' = [accountTask EXCEPT ![r] = t]
  BY <1>2, GotoJob
<1>4. /\ t.pc \notin {"fill", "gate"}
      /\ t.pc \in Clearing \/ users[u].groups \subseteq users'[u].groups
      /\ \/ /\ sess' = sess
            /\ \/ SameAccount(users[u], users'[u]) \/ ~users[u].here
               \/ t.pc \in Revoking /\ t.who = u
         \/ sess' = A!Excuse(u)
  BY <1>2, <1>3 DEF Clearing, Revoking
<1> QED
  BY <1>1, <1>3, <1>4, CommitKept

LEMMA SaveEditKept == ASSUME PanelInv, NEW r \in Reqs, A!SaveEdit(r) PROVE PanelInv'
<1> DEFINE b == accountTask[r]
           u == b.who
<1>1. ASSUME NEW s \in PanelSids, NEW v \in Users, NEW role \in NewRoles, NEW gs \in NewGroups,
             A!MayAssignRole(A!FromEditor(s), role),
             A!Scoped(r, s, v, [A!Idle EXCEPT !.pc = "save_edit", !.role = role,
                !.groups = A!MergePreserving(A!FromEditor(s), users[v].groups, gs)])
      PROVE  PanelInv'
  <2> DEFINE m == A!MergePreserving(A!FromEditor(s), users[v].groups, gs)
             t0 == [A!Idle EXCEPT !.pc = "save_edit", !.role = role, !.groups = m]
  <2>1. m \in SUBSET Groups /\ role \in A!Roles /\ gs \in SUBSET Groups
    BY ScopeFits, MergeFits, PanelFacts, PanelAssumption
  <2>2. A!Scoped(r, s, v, t0)
    BY <1>1
  <2>3. t0 \in PanelJobs /\ t0.pc = "save_edit" /\ t0.role = role /\ t0.groups = m
    BY <2>1, PanelIdle DEF PanelJobs, A!Pcs
  <2> HIDE DEF t0
  <2> QED
    BY <1>1, <2>1, <2>2, <2>3, ScopedKept
<1>2. ASSUME A!At(r, "save_edit"), A!UpdateAccount(u, b.role, b.groups),
             A!Goto(r, IF b.seen.role # b.role THEN "revoke_invalidate" ELSE "invalidate"),
             sess' = IF users[u].role # b.seen.role THEN A!Excuse(u) ELSE sess,
             UNCHANGED <<gate, A!identity, accountAsked>>
      PROVE  PanelInv'
  <2>1. b.pc = "save_edit" /\ b.pc \notin Anonymous \cup Revoking \cup Clearing
    BY <1>2 DEF A!At, Anonymous, Revoking, Clearing
  <2>2. u \in Users /\ b.role \in A!Roles /\ b.groups \in SUBSET Groups
    BY <2>1, PanelTask
  <2>3. /\ users' \in [Users -> A!Row] /\ \A v \in Users \ {u} : users'[v] = users[v]
        /\ users[u].here /\ users'[u].here = users[u].here
        /\ users'[u].groups = b.groups /\ users'[u].role = b.role
        /\ users'[u].pw = users[u].pw /\ users'[u].must = users[u].must
    BY <1>2, <2>2, UpdateRow
  <2>4. users[u].role = b.role => SameAccount(users[u], users'[u])
    BY <2>3 DEF SameAccount
  <2>5. ~users'[u].here => users'[u].groups = {}
    BY <2>3
  <2>6. UNCHANGED <<gate, idgen, idcache, lost, accountAsked>>
    BY <1>2 DEF A!identity
  <2>7. CASE b.seen.role # b.role
    <3>1. A!Goto(r, "revoke_invalidate")
      BY <1>2, <2>7
    <3>2. sess' = A!Excuse(u) \/ sess' = sess
      BY <1>2
    <3> QED
      BY <2>1, <2>3, <2>5, <2>6, <3>1, <3>2, PlainCommit
  <2>8. CASE b.seen.role = b.role
    <3>1. A!Goto(r, "invalidate")
      BY <1>2, <2>8
    <3>2. sess' = A!Excuse(u) \/ (sess' = sess /\ SameAccount(users[u], users'[u]))
      BY <1>2, <2>4, <2>8
    <3> QED
      BY <2>1, <2>3, <2>5, <2>6, <3>1, <3>2, PlainCommit
  <2> QED
    BY <2>7, <2>8
<1> QED
  BY <1>1, <1>2 DEF A!SaveEdit

LEMMA SetProfileKept == ASSUME PanelInv, NEW r \in Reqs, A!SetProfile(r) PROVE PanelInv'
<1> DEFINE b == accountTask[r]
<1>1. ASSUME NEW s \in PanelSids, NEW v \in Users,
             A!Scoped(r, s, v, [A!Idle EXCEPT !.pc = "set_profile"])
      PROVE  PanelInv'
  <2> DEFINE t0 == [A!Idle EXCEPT !.pc = "set_profile"]
  <2>1. t0 \in PanelJobs /\ t0.pc = "set_profile" /\ A!Scoped(r, s, v, t0)
    BY <1>1, PanelIdle DEF PanelJobs, A!Pcs
  <2> HIDE DEF t0
  <2> QED
    BY <2>1, ScopedKept
<1>2. ASSUME A!At(r, "set_profile"), A!UpdateProfile(b.who), A!Goto(r, "invalidate"), A!Committed
      PROVE  PanelInv'
  <2>1. b.pc = "set_profile" /\ b.pc \notin Anonymous \cup Revoking \cup Clearing
    BY <1>2 DEF A!At, Anonymous, Revoking, Clearing
  <2>2. UNCHANGED <<users, sess, gate, idgen, idcache, lost, accountAsked>>
    BY <1>2 DEF A!UpdateProfile, A!Committed, A!identity
  <2>3. /\ users' \in [Users -> A!Row] /\ \A v \in Users : users'[v] = users[v]
        /\ ~users'[b.who].here => users'[b.who].groups = {}
        /\ SameAccount(users[b.who], users'[b.who])
    BY <2>1, <2>2, PanelFacts, PanelTask DEF SameAccount, PanelInv
  <2> QED
    BY <1>2, <2>1, <2>2, <2>3, PlainCommit
<1> QED
  BY <1>1, <1>2 DEF A!SetProfile

(* A list of groups is written back.                                       *)
LEMMA GroupsWritten ==
    ASSUME PanelInv, NEW r \in Reqs, accountTask[r].pc \in {"set_groups", "memberships"},
           A!SetGroupsOf(accountTask[r].who, accountTask[r].groups), A!Goto(r, "invalidate"),
           A!Committed
    PROVE  PanelInv'
<1> DEFINE b == accountTask[r]
           u == b.who
<1>1. b.pc \notin Anonymous \cup Revoking \cup Clearing
  BY DEF Anonymous, Revoking, Clearing
<1>2. u \in Users /\ b.groups \in SUBSET Groups /\ users[u].role \in A!Roles
  BY <1>1, PanelTask, PanelFacts
<1>3. /\ users' \in [Users -> A!Row] /\ \A v \in Users \ {u} : users'[v] = users[v]
      /\ users[u].here /\ users'[u].here = users[u].here
      /\ users'[u].role = users[u].role
      /\ users'[u].pw = users[u].pw /\ users'[u].must = users[u].must
  BY <1>2, UpdateRow
<1>4. SameAccount(users[u], users'[u]) /\ (~users'[u].here => users'[u].groups = {})
  BY <1>3 DEF SameAccount
<1>5. UNCHANGED <<sess, gate, idgen, idcache, lost, accountAsked>>
  BY DEF A!Committed, A!identity
<1> QED
  BY <1>1, <1>3, <1>4, <1>5, PlainCommit

LEMMA SetGroupsKept == ASSUME PanelInv, NEW r \in Reqs, A!SetGroups(r) PROVE PanelInv'
<1>1. ASSUME NEW s \in PanelSids, NEW v \in Users, NEW gs \in NewGroups,
             A!Scoped(r, s, v, [A!Idle EXCEPT !.pc = "set_groups",
                !.groups = A!MergePreserving(A!FromEditor(s), users[v].groups, gs)])
      PROVE  PanelInv'
  <2> DEFINE m == A!MergePreserving(A!FromEditor(s), users[v].groups, gs)
             t0 == [A!Idle EXCEPT !.pc = "set_groups", !.groups = m]
  <2>1. m \in SUBSET Groups /\ gs \in SUBSET Groups
    BY ScopeFits, MergeFits, PanelFacts, PanelAssumption
  <2>2. t0 \in PanelJobs /\ t0.pc = "set_groups" /\ t0.groups = m /\ A!Scoped(r, s, v, t0)
    BY <1>1, <2>1, PanelIdle DEF PanelJobs, A!Pcs
  <2> HIDE DEF t0
  <2> QED
    BY <2>1, <2>2, ScopedKept
<1> QED
  BY <1>1, GroupsWritten DEF A!SetGroups, A!At

LEMMA SetRoleKept == ASSUME PanelInv, NEW r \in Reqs, A!SetRole(r) PROVE PanelInv'
<1> DEFINE b == accountTask[r]
           u == b.who
<1>1. ASSUME NEW s \in PanelSids, NEW v \in Users, NEW role \in NewRoles,
             A!MayAssignRole(A!FromEditor(s), role),
             A!Scoped(r, s, v, [A!Idle EXCEPT !.pc = "set_role", !.role = role])
      PROVE  PanelInv'
  <2> DEFINE t0 == [A!Idle EXCEPT !.pc = "set_role", !.role = role]
  <2>1. role \in A!Roles
    BY PanelAssumption
  <2>2. t0 \in PanelJobs /\ t0.pc = "set_role" /\ t0.role = role /\ A!Scoped(r, s, v, t0)
    BY <1>1, <2>1, PanelIdle DEF PanelJobs, A!Pcs
  <2> HIDE DEF t0
  <2> QED
    BY <1>1, <2>2, ScopedKept
<1>2. ASSUME A!At(r, "set_role"), A!SetRoleOf(u, b.role), A!Goto(r, "revoke"), A!Committed
      PROVE  PanelInv'
  <2>1. b.pc = "set_role" /\ b.pc \notin Anonymous \cup Revoking \cup Clearing
    BY <1>2 DEF A!At, Anonymous, Revoking, Clearing
  <2>2. u \in Users /\ b.role \in A!Roles /\ users[u].groups \in SUBSET Groups
    BY <2>1, PanelTask, PanelFacts
  <2>3. /\ users' \in [Users -> A!Row] /\ \A v \in Users \ {u} : users'[v] = users[v]
        /\ users[u].here /\ users'[u].here = users[u].here
        /\ users'[u].groups = users[u].groups
    <3>1. users \in [Users -> A!Row] /\ users[u].here
      BY <1>2, PanelFacts DEF A!SetRoleOf
    <3>2. users' = [users EXCEPT ![u].role = b.role]
      BY <1>2 DEF A!SetRoleOf
    <3> QED
      BY <2>2, <3>1, <3>2 DEF A!Row
  <2>4. UNCHANGED <<sess, gate, idgen, idcache, lost, accountAsked>>
    BY <1>2 DEF A!Committed, A!identity
  <2> QED
    BY <1>2, <2>1, <2>3, <2>4, PlainCommit
<1> QED
  BY <1>1, <1>2 DEF A!SetRole

LEMMA ResetPasswordKept == ASSUME PanelInv, NEW r \in Reqs, A!ResetPassword(r) PROVE PanelInv'
<1> DEFINE b == accountTask[r]
           u == b.who
<1>1. ASSUME NEW s \in PanelSids, NEW v \in Users,
             A!Scoped(r, s, v, [A!Idle EXCEPT !.pc = "reset_password"])
      PROVE  PanelInv'
  <2> DEFINE t0 == [A!Idle EXCEPT !.pc = "reset_password"]
  <2>1. t0 \in PanelJobs /\ t0.pc = "reset_password" /\ A!Scoped(r, s, v, t0)
    BY <1>1, PanelIdle DEF PanelJobs, A!Pcs
  <2> HIDE DEF t0
  <2> QED
    BY <2>1, ScopedKept
<1>2. ASSUME A!At(r, "reset_password"), A!SetPassword(u, TRUE), A!Goto(r, "revoke"), A!Committed
      PROVE  PanelInv'
  <2>1. b.pc = "reset_password" /\ b.pc \notin Anonymous \cup Revoking \cup Clearing
    BY <1>2 DEF A!At, Anonymous, Revoking, Clearing
  <2>2. u \in Users
    BY <2>1, PanelTask
  <2>3. /\ users' \in [Users -> A!Row] /\ \A v \in Users \ {u} : users'[v] = users[v]
        /\ users[u].here /\ users'[u].here = users[u].here
        /\ users'[u].groups = users[u].groups
    BY <1>2, <2>2, PasswordRow
  <2>4. UNCHANGED <<sess, gate, idgen, idcache, lost, accountAsked>>
    BY <1>2 DEF A!Committed, A!identity
  <2> QED
    BY <1>2, <2>1, <2>3, <2>4, PlainCommit
<1> QED
  BY <1>1, <1>2 DEF A!ResetPassword

LEMMA DeleteKept == ASSUME PanelInv, NEW r \in Reqs, A!Delete(r) PROVE PanelInv'
<1> DEFINE b == accountTask[r]
           u == b.who
<1>1. ASSUME NEW v \in Users, A!Begin(r, [A!Idle EXCEPT !.pc = "delete", !.who = v]), A!Reading
      PROVE  PanelInv'
  <2> DEFINE t == [A!Idle EXCEPT !.pc = "delete", !.who = v]
  <2>1. t \in PanelJobs /\ t.pc = "delete" /\ t.who = v /\ t.scope = A!NoScope /\ A!Begin(r, t)
    BY <1>1, PanelIdle DEF PanelJobs, A!Pcs
  <2> HIDE DEF t
  <2>2. JobDecided(t)
    BY <2>1, PlainJob
  <2> QED
    BY <1>1, <2>1, <2>2, BeginKept
<1>2. ASSUME A!At(r, "delete"), A!DeleteAccount(u), A!Goto(r, "revoke_invalidate"), A!Committed
      PROVE  PanelInv'
  <2>1. b.pc = "delete" /\ b.pc \notin Anonymous \cup Revoking \cup Clearing
    BY <1>2 DEF A!At, Anonymous, Revoking, Clearing
  <2>2. u \in Users
    BY <2>1, PanelTask
  <2>3. /\ users' \in [Users -> A!Row] /\ \A v \in Users \ {u} : users'[v] = users[v]
        /\ users'[u].groups = {}
    BY <1>2, <2>2, DeleteRow
  <2>4. UNCHANGED <<sess, gate, idgen, idcache, lost, accountAsked>>
    BY <1>2 DEF A!Committed, A!identity
  <2> QED
    BY <1>2, <2>1, <2>3, <2>4, PlainCommit
<1> QED
  BY <1>1, <1>2 DEF A!Delete

LEMMA CreateKept == ASSUME PanelInv, NEW r \in Reqs, A!Create(r) PROVE PanelInv'
<1> DEFINE b == accountTask[r]
           u == b.who
<1>1. ASSUME NEW s \in PanelSids, NEW v \in Users, NEW role \in NewRoles, NEW gs \in NewGroups,
             A!MayAssignRole(A!FromEditor(s), role), A!MayAssignGroups(A!FromEditor(s), gs),
             A!Begin(r, [A!Idle EXCEPT !.pc = "create", !.who = v, !.role = role, !.groups = gs,
                                       !.scope = A!Kept(A!FromEditor(s))]),
             A!Reading
      PROVE  PanelInv'
  <2> DEFINE sc == A!FromEditor(s)
             t == [A!Idle EXCEPT !.pc = "create", !.who = v, !.role = role, !.groups = gs,
                                 !.scope = A!Kept(sc)]
  <2>1. /\ sc \in A!Scope /\ A!Kept(sc) \in A!Scope
        /\ A!Kept(sc).role = "editor" => A!Kept(sc) = sc /\ ~A!Unscoped(sc)
    BY ScopeFits
  <2>2. role \in A!Roles /\ gs \in SUBSET Groups
    BY PanelAssumption
  <2>3. /\ t \in PanelJobs /\ t.pc = "create" /\ t.who = v /\ t.role = role /\ t.groups = gs
        /\ t.scope = A!Kept(sc) /\ t.seen = A!NoRow /\ A!Begin(r, t)
    BY <1>1, <2>1, <2>2, PanelIdle DEF PanelJobs, A!Pcs
  <2> HIDE DEF t, sc
  <2>4. t.scope.role = "editor" => t.role # "admin" /\ t.groups \subseteq t.scope.groups
    BY <1>1, <2>1, <2>3 DEF A!MayAssignRole, A!MayAssignGroups, sc
  <2>5. JobDecided(t)
    BY <2>3, <2>4, PanelIdle DEF JobDecided, Anonymous
  <2> QED
    BY <1>1, <2>3, <2>5, BeginKept
<1>2. ASSUME A!At(r, "create"), A!Insert(u, b.role, TRUE, b.groups), A!Finish(r), A!Committed
      PROVE  PanelInv'
  <2>1. b.pc = "create" /\ b.pc \notin Anonymous /\ b.pc \notin Revoking /\ b.pc \notin Clearing
    BY <1>2 DEF A!At, Anonymous, Revoking, Clearing
  <2>2. u \in Users /\ b.role \in A!Roles /\ b.groups \in SUBSET Groups
    BY <2>1, PanelTask
  <2>3. /\ users' \in [Users -> A!Row] /\ \A v \in Users \ {u} : users'[v] = users[v]
        /\ ~users[u].here /\ users[u].groups = {} /\ users'[u].here = TRUE
    BY <1>2, <2>2, InsertRow
  <2>4. UNCHANGED <<sess, gate, idgen, idcache, lost, accountAsked>>
    BY <1>2 DEF A!Committed, A!identity
  <2>5. accountTask' = [accountTask EXCEPT ![r] = A!Idle] /\ JobDecided(A!Idle)
    BY <1>2, PanelIdle, PlainJob DEF A!Finish, Anonymous
  <2> QED
    BY <2>1, <2>2, <2>3, <2>4, <2>5, PanelIdle, PanelFacts, CommitKept
<1> QED
  BY <1>1, <1>2 DEF A!Create

(* An import: it clears the identity cache when it ends, whatever it did.  *)
LEMMA ImportKept == ASSUME PanelInv, NEW r \in Reqs, A!ImportConfirm(r) PROVE PanelInv'
<1> DEFINE b == accountTask[r]
<1>1. ASSUME A!Begin(r, [A!Idle EXCEPT !.pc = "import"]), A!Reading
      PROVE  PanelInv'
  <2> DEFINE t == [A!Idle EXCEPT !.pc = "import"]
  <2>1. t \in PanelJobs /\ t.pc = "import" /\ t.scope = A!NoScope /\ A!Begin(r, t)
    BY <1>1, PanelIdle DEF PanelJobs, A!Pcs
  <2> HIDE DEF t
  <2>2. JobDecided(t)
    BY <2>1, PlainJob DEF Anonymous
  <2> QED
    BY <1>1, <2>1, <2>2, BeginKept
<1>2. ASSUME A!At(r, "import"), NEW u \in Users, NEW role \in NewRoles, NEW gs \in NewGroups,
             NEW pc \in {"import", "rollback"}, A!Ask, A!Insert(u, role, TRUE, gs),
             accountTask' = [accountTask EXCEPT ![r].pc = pc, ![r].who = u],
             UNCHANGED <<sess, gate, A!identity>>
      PROVE  PanelInv'
  <2> DEFINE t == [b EXCEPT !.pc = pc, !.who = u]
  <2>1. b.pc = "import" /\ b \in PanelJobs
    BY <1>2, PanelTask DEF A!At
  <2>2. role \in A!Roles /\ gs \in SUBSET Groups
    BY PanelAssumption
  <2>3. /\ users' \in [Users -> A!Row] /\ \A v \in Users \ {u} : users'[v] = users[v]
        /\ ~users[u].here /\ users[u].groups = {} /\ users'[u].here = TRUE
    BY <1>2, <2>2, InsertRow
  <2>4. /\ t \in PanelJobs /\ t.pc = pc /\ t.who = u /\ t.pc \in Clearing
    BY <2>1 DEF PanelJobs, A!Pcs, Clearing
  <2>5. accountTask' = [accountTask EXCEPT ![r] = t]
    <3>1. accountTask \in [Reqs -> PanelJobs]
      BY DEF PanelInv, PanelTypes
    <3>2. [accountTask EXCEPT ![r].pc = pc, ![r].who = u] = [accountTask EXCEPT ![r] = t]
      BY <3>1
    <3> QED
      BY <1>2, <3>2, Zenon
  <2> HIDE DEF t
  <2>6. JobDecided(t)
    BY <2>4 DEF JobDecided
  <2>7. b.pc \notin Revoking /\ t.pc \notin {"fill", "gate"}
    BY <2>1, <2>4 DEF Revoking
  <2>8. accountAsked' \in 0..MaxPanelRequests /\ UNCHANGED <<gate, idgen, idcache, lost>> /\ sess' = sess
    BY <1>2, PanelFacts, PanelAssumption DEF A!Ask, A!identity
  <2> QED
    BY <2>3, <2>4, <2>5, <2>6, <2>7, <2>8, CommitKept
<1>3. ASSUME A!At(r, "rollback"), A!DeleteAccount(b.who), sess' = A!Excuse(b.who),
             A!Goto(r, "import"), UNCHANGED <<gate, A!identity, accountAsked>>
      PROVE  PanelInv'
  <2>1. b.pc = "rollback" /\ b.pc \notin Anonymous /\ b.pc \notin Revoking
    BY <1>3 DEF A!At, Anonymous, Revoking
  <2>2. b.who \in Users
    BY <2>1, PanelTask
  <2>3. /\ users' \in [Users -> A!Row] /\ \A v \in Users \ {b.who} : users'[v] = users[v]
        /\ users'[b.who].groups = {}
    BY <1>3, <2>2, DeleteRow
  <2>4. "import" \in A!Pcs /\ "import" \in Anonymous /\ "import" \in Clearing
    BY DEF A!Pcs, Anonymous, Clearing
  <2>5. PICK t \in PanelJobs : /\ JobDecided(t) /\ t.pc = "import"
                               /\ accountTask' = [accountTask EXCEPT ![r] = t]
    BY <1>3, <2>4, GotoJob
  <2>6. accountAsked' \in 0..MaxPanelRequests /\ UNCHANGED <<gate, idgen, idcache, lost>>
    BY <1>3, PanelFacts DEF A!identity
  <2> QED
    BY <1>3, <2>1, <2>2, <2>3, <2>4, <2>5, <2>6, CommitKept
<1>4. ASSUME NEW pc \in {"import", "invalidate"}, b.pc \in {"rollback", "import"},
             A!Goto(r, pc), UNCHANGED users, A!Committed
      PROVE  PanelInv'
  <2>1. b.pc \notin Revoking /\ pc \in A!Pcs /\ pc \in Anonymous /\ pc \in Clearing
    BY <1>4 DEF Revoking, A!Pcs, Anonymous, Clearing
  <2>2. PICK t \in PanelJobs : /\ JobDecided(t) /\ t.pc = pc
                               /\ accountTask' = [accountTask EXCEPT ![r] = t]
    BY <1>4, <2>1, GotoJob
  <2>3. /\ accountAsked' \in 0..MaxPanelRequests
        /\ UNCHANGED <<users, sess, gate, idgen, idcache, lost>>
    BY <1>4, PanelFacts DEF A!identity, A!Committed
  <2> QED
    BY <2>1, <2>2, <2>3, MoveKept
<1> QED
  BY <1>1, <1>2, <1>3, <1>4 DEF A!ImportConfirm, A!At

(* The groups page.                                                        *)
LEMMA MembershipKept ==
    ASSUME PanelInv, NEW r \in Reqs, NEW sc \in A!Scope, A!Kept(sc) \in A!Scope,
           NEW u \in Users, NEW gs \in SUBSET Groups,
           A!Kept(sc).role = "editor" => gs \ A!Kept(sc).groups = users[u].groups \ A!Kept(sc).groups,
           A!Membership(r, sc, u, gs)
    PROVE  PanelInv'
<1> DEFINE t == [A!Idle EXCEPT !.pc = "memberships", !.scope = A!Kept(sc), !.who = u,
                               !.seen.groups = users[u].groups, !.groups = gs]
<1>1. A!Begin(r, t) /\ A!Reading
  BY DEF A!Membership
<1>2. /\ t \in PanelJobs /\ t.pc = "memberships" /\ t.scope = A!Kept(sc) /\ t.who = u
      /\ t.seen.groups = users[u].groups /\ t.groups = gs
  <2> DEFINE sn == [A!NoRow EXCEPT !.groups = users[u].groups]
  <2>1. sn \in A!Row /\ sn.groups = users[u].groups
    BY PanelIdle, PanelFacts DEF A!Row
  <2>2. t = [A!Idle EXCEPT !.pc = "memberships", !.scope = A!Kept(sc), !.who = u, !.seen = sn,
                           !.groups = gs]
    BY PanelIdle DEF PanelJobs
  <2> HIDE DEF sn, t
  <2> QED
    BY <2>1, <2>2, PanelIdle DEF PanelJobs, A!Pcs
<1> HIDE DEF t
<1>3. JobDecided(t)
  BY <1>2 DEF JobDecided
<1> QED
  BY <1>1, <1>2, <1>3, BeginKept

LEMMA GroupsPageKept ==
    ASSUME PanelInv, NEW r \in Reqs, A!CreateGroup(r) \/ A!AddMember(r) \/ A!RemoveMember(r)
    PROVE  PanelInv'
<1>1. ASSUME NEW s \in PanelSids, NEW u \in A!Accounts, NEW g \in UNION NewGroups,
             NEW gs, A!Membership(r, A!FromEditor(s), u, gs),
             \/ A!Unscoped(A!FromEditor(s)) /\ gs = users[u].groups \cup {g}
             \/ \E req \in SUBSET (Groups \cup {g}) :
                   gs = A!MergePreserving(A!FromEditor(s), users[u].groups, req)
      PROVE  PanelInv'
  <2>1. u \in Users /\ g \in Groups /\ users[u].groups \in SUBSET Groups
    BY PanelFacts, PanelAssumption DEF A!Accounts
  <2>2. /\ A!FromEditor(s) \in A!Scope /\ A!Kept(A!FromEditor(s)) \in A!Scope
        /\ A!Kept(A!FromEditor(s)).role = "editor" =>
              /\ A!Kept(A!FromEditor(s)) = A!FromEditor(s) /\ ~A!Unscoped(A!FromEditor(s))
    BY ScopeFits
  <2>3. Groups \cup {g} = Groups
    BY <2>1
  <2>4. /\ gs \in SUBSET Groups
        /\ ~A!Unscoped(A!FromEditor(s)) =>
              gs \ A!FromEditor(s).groups = users[u].groups \ A!FromEditor(s).groups
    BY <1>1, <2>1, <2>2, <2>3, MergeFits
  <2> QED
    BY <1>1, <2>1, <2>2, <2>4, MembershipKept
<1>2. CASE A!CreateGroup(r)
  BY <1>1, <1>2 DEF A!CreateGroup, A!RequireAdmin, A!Unscoped, A!FromEditor
<1>3. CASE A!AddMember(r)
  <2>1. PICK s \in PanelSids, u \in A!Accounts, g \in UNION NewGroups :
           A!Membership(r, A!FromEditor(s), u,
              A!MergePreserving(A!FromEditor(s), users[u].groups,
                 {x \in users[u].groups : A!MayTouchGroup(A!FromEditor(s), x)} \cup {g}))
    BY <1>3, Zenon DEF A!AddMember
  <2>2. {x \in users[u].groups : A!MayTouchGroup(A!FromEditor(s), x)} \cup {g}
           \in SUBSET (Groups \cup {g})
    BY PanelFacts DEF A!Accounts
  <2> QED
    BY <1>1, <2>1, <2>2
<1>4. CASE A!RemoveMember(r)
  <2>1. PICK s \in PanelSids, u \in A!Accounts, g \in UNION NewGroups :
           A!Membership(r, A!FromEditor(s), u,
              A!MergePreserving(A!FromEditor(s), users[u].groups,
                 {x \in users[u].groups : x # g /\ A!MayTouchGroup(A!FromEditor(s), x)}))
    BY <1>4, Zenon DEF A!RemoveMember
  <2>2. {x \in users[u].groups : x # g /\ A!MayTouchGroup(A!FromEditor(s), x)}
           \in SUBSET (Groups \cup {g})
    BY PanelFacts DEF A!Accounts
  <2> QED
    BY <1>1, <2>1, <2>2
<1> QED
  BY <1>2, <1>3, <1>4

LEMMA SaveMembershipsKept ==
    ASSUME PanelInv, NEW r \in Reqs, A!SaveMemberships(r) PROVE PanelInv'
  BY GroupsWritten DEF A!SaveMemberships, A!At

(* A rename walks its listing; it clears the identity cache when it ends.  *)
LEMMA RewriteKept == ASSUME PanelInv, NEW r \in Reqs, A!RewriteGroup(r) PROVE PanelInv'
<1> DEFINE b == accountTask[r]
<1>1. ASSUME NEW g \in UNION NewGroups, NEW to \in {{}} \cup {{n} : n \in Groups}, A!Reading,
             A!Begin(r, [A!Idle EXCEPT !.pc = "rewrite",
                !.todo = {<<u, (users[u].groups \ {g}) \cup to>> :
                             u \in {v \in A!Accounts : g \in users[v].groups}}])
      PROVE  PanelInv'
  <2> DEFINE todo == {<<u, (users[u].groups \ {g}) \cup to>> :
                        u \in {v \in A!Accounts : g \in users[v].groups}}
             t == [A!Idle EXCEPT !.pc = "rewrite", !.todo = todo]
  <2>1. \A u \in A!Accounts : u \in Users /\ (users[u].groups \ {g}) \cup to \in SUBSET Groups
    BY PanelFacts DEF A!Accounts
  <2>2. todo \in SUBSET (Users \X SUBSET Groups) /\ A!Begin(r, t)
    BY <1>1, <2>1
  <2> HIDE DEF todo
  <2>3. t \in PanelJobs /\ t.pc = "rewrite" /\ t.scope = A!NoScope
    BY <2>2, PanelIdle DEF PanelJobs, A!Pcs
  <2> HIDE DEF t
  <2>4. JobDecided(t)
    BY <2>3, PlainJob DEF Anonymous
  <2> QED
    BY <1>1, <2>2, <2>3, <2>4, BeginKept
<1>2. ASSUME NEW m \in b.todo, A!At(r, "rewrite"), A!SetGroupsOf(m[1], m[2]) \/ UNCHANGED users,
             accountTask' = [accountTask EXCEPT ![r].todo = @ \ {m}], A!Committed
      PROVE  PanelInv'
  <2> DEFINE t == [b EXCEPT !.todo = b.todo \ {m}]
  <2>1. /\ b.pc = "rewrite" /\ b \in PanelJobs /\ m[1] \in Users /\ m[2] \in SUBSET Groups
        /\ users[m[1]].role \in A!Roles /\ JobDecided(b)
    BY <1>2, PanelTask, PanelFacts DEF A!At
  <2>2. /\ t \in PanelJobs /\ t.pc = "rewrite" /\ t.scope = b.scope /\ t.who = b.who
    BY <2>1 DEF PanelJobs
  <2>3. accountTask' = [accountTask EXCEPT ![r] = t]
    <3>1. accountTask \in [Reqs -> PanelJobs]
      BY DEF PanelInv, PanelTypes
    <3>2. [accountTask EXCEPT ![r].todo = @ \ {m}] = [accountTask EXCEPT ![r] = t]
      BY <3>1
    <3> QED
      BY <1>2, <3>2, Zenon
  <2> HIDE DEF t
  <2>4. JobDecided(t) /\ t.pc \in Clearing /\ t.pc \notin {"fill", "gate"} /\ b.pc \notin Revoking
    BY <2>1, <2>2 DEF JobDecided, Clearing, Revoking, Anonymous
  <2>5. /\ accountAsked' \in 0..MaxPanelRequests /\ UNCHANGED <<sess, gate, idgen, idcache, lost>>
    BY <1>2, PanelFacts DEF A!identity, A!Committed
  <2>6. CASE UNCHANGED users
    BY <2>2, <2>3, <2>4, <2>5, <2>6, MoveKept
  <2>7. CASE A!SetGroupsOf(m[1], m[2])
    <3>1. /\ users' \in [Users -> A!Row] /\ \A v \in Users \ {m[1]} : users'[v] = users[v]
          /\ users[m[1]].here /\ users'[m[1]].here = users[m[1]].here
          /\ users'[m[1]].role = users[m[1]].role
          /\ users'[m[1]].pw = users[m[1]].pw /\ users'[m[1]].must = users[m[1]].must
      BY <2>1, <2>7, UpdateRow
    <3>2. SameAccount(users[m[1]], users'[m[1]])
      BY <3>1 DEF SameAccount
    <3> QED
      BY <2>1, <2>2, <2>3, <2>4, <2>5, <3>1, <3>2, CommitKept
  <2> QED
    BY <1>2, <2>6, <2>7
<1>3. ASSUME A!At(r, "rewrite"), A!Goto(r, "invalidate"), UNCHANGED users, A!Committed
      PROVE  PanelInv'
  <2>1. /\ b.pc = "rewrite" /\ b.pc \notin Revoking /\ "invalidate" \in A!Pcs
        /\ "invalidate" \in Anonymous /\ "invalidate" \in Clearing
    BY <1>3 DEF A!At, Revoking, A!Pcs, Anonymous, Clearing
  <2>2. PICK t \in PanelJobs : /\ JobDecided(t) /\ t.pc = "invalidate"
                               /\ accountTask' = [accountTask EXCEPT ![r] = t]
    BY <1>3, <2>1, GotoJob
  <2>3. /\ accountAsked' \in 0..MaxPanelRequests
        /\ UNCHANGED <<users, sess, gate, idgen, idcache, lost>>
    BY <1>3, PanelFacts DEF A!identity, A!Committed
  <2> QED
    BY <2>1, <2>2, <2>3, MoveKept
<1> QED
  BY <1>1, <1>2, <1>3 DEF A!RewriteGroup

(* At boot nobody is served and no handler has begun.                      *)
LEMMA PanelInit == ASSUME A!Init PROVE PanelInv
<1>1. PICK boot \in PanelBoot : users = boot.row /\ sess = boot.sess /\ gate = boot.gate
  BY DEF A!Init
<1>2. /\ idgen = 1 /\ accountAsked = 0 /\ lost = {}
      /\ idcache = [u \in Users |-> [gen |-> 0, groups |-> {}]]
      /\ accountTask = [r \in Reqs |-> A!Idle]
  BY DEF A!Init
<1>3. PanelTypes
  BY <1>1, <1>2, PanelIdle, PanelAssumption DEF PanelTypes
<1>4. \A u \in Users : ~users[u].here => users[u].groups = {}
  BY <1>1, PanelAssumption
<1>5. \A r \in Reqs : accountTask[r] = A!Idle /\ JobDecided(A!Idle)
  BY <1>2, PanelIdle, PlainJob DEF Anonymous
<1>6. CacheFits
  BY <1>2, <1>5, PanelIdle DEF CacheFits, EntryFits
<1>7. SessionsFit
  <2>1. ASSUME NEW s \in PanelSids
        PROVE  /\ SessionFits(sess, users, accountTask, s)
               /\ sess[s].st = "unused" => gate[s] = "none"
               /\ gate[s] # "none" => GateFits(sess, users, accountTask, s, gate[s] = "must")
    BY <1>1, PanelAssumption DEF SessionFits, GateFits, Unexplained
  <2> QED
    BY <1>5, <2>1, PanelIdle DEF SessionsFit
<1> QED
  BY <1>3, <1>4, <1>5, <1>6, <1>7 DEF PanelInv

LEMMA PanelNext == ASSUME PanelInv, [A!Next]_(A!vars) PROVE PanelInv'
<1>1. ASSUME NEW r \in Reqs, A!SignIn(r) PROVE PanelInv'
  BY <1>1, LoginKept, TokenKept, SetupKept, PasswordKept, GuardKept, ResolveKept DEF A!SignIn
<1>2. ASSUME NEW r \in Reqs, A!UsersPage(r) PROVE PanelInv'
  BY <1>2, SaveEditKept, SetProfileKept, SetGroupsKept, SetRoleKept, ResetPasswordKept,
     DeleteKept, CreateKept, ImportKept DEF A!UsersPage
<1>3. ASSUME NEW r \in Reqs, A!GroupsPage(r) PROVE PanelInv'
  BY <1>3, GroupsPageKept, SaveMembershipsKept, RewriteKept DEF A!GroupsPage
<1>4. ASSUME NEW r \in Reqs, A!Tail(r) PROVE PanelInv'
  BY <1>4, RevokeKept, InvalidateKept, AbandonKept DEF A!Tail
<1>5. CASE UNCHANGED A!vars
  BY <1>5 DEF A!vars, PanelInv, PanelTypes, CacheFits, SessionsFit, ToBeCleared, EntryFits,
              ToBeRevoked, Unexplained, SessionFits, GateFits, A!Matches, JobDecided
<1> QED
  BY <1>1, <1>2, <1>3, <1>4, <1>5, LogoutKept DEF A!Next

\* Whatever the panel's requests interleave to, the accounts, their sessions
\* and what is cached of them fit together (Accounts).
THEOREM PanelInvariance == A!Spec => []PanelInv
<1>1. A!Init => PanelInv
  BY PanelInit
<1>2. PanelInv /\ [A!Next]_(A!vars) => PanelInv'
  BY PanelNext
<1> QED
  BY <1>1, <1>2, PTL DEF A!Spec

\* A group taken from a user is not served from the identity cache once the
\* handler that took it is through; one that ended before it invalidated
\* leaves the entries that were outdated then.
THEOREM RevokedGroupsGone == A!Spec => []NoRevokedGroupServed
<1>1. ASSUME PanelInv PROVE NoRevokedGroupServed
  <2>1. A!TypeOK
    <3>1. /\ users \in [Users -> A!Row] /\ sess \in [PanelSids -> A!Session]
          /\ gate \in [PanelSids -> {"none", "must", "free"}]
          /\ idgen \in Nat /\ accountAsked \in 0..MaxPanelRequests /\ lost \subseteq Users
          /\ idcache \in [Users -> [gen : Nat, groups : SUBSET Groups]]
          /\ accountTask \in [Reqs -> PanelJobs]
      BY <1>1 DEF PanelInv, PanelTypes
    <3>2. \A u \in Users : idcache[u].gen \in 0..idgen /\ idcache[u].groups \subseteq Groups
      <4>1. \A u \in Users : idcache[u].gen <= idgen
        BY <1>1 DEF PanelInv, CacheFits, EntryFits
      <4> QED
        BY <3>1, <4>1
    <3>3. \A r \in Reqs : /\ accountTask[r].pc \in A!Pcs /\ accountTask[r].scope \in A!Scope
                          /\ accountTask[r].who \in Users \cup {None}
                          /\ accountTask[r].seen \in A!Row
                          /\ accountTask[r].todo \subseteq Users \X (SUBSET Groups)
      BY <3>1 DEF PanelJobs
    <3> QED
      BY <3>1, <3>2, <3>3 DEF A!TypeOK
  <2>2. ASSUME NEW u \in Users, A!Servable(u), ~(idcache[u].groups \subseteq users[u].groups)
        PROVE  u \in lost \/ \E r \in Reqs : accountTask[r].pc \in A!Clearing
    BY <1>1, <2>2 DEF A!Servable, PanelInv, CacheFits, EntryFits, ToBeCleared, Clearing, A!Clearing
  <2> QED
    BY <2>1, <2>2 DEF NoRevokedGroupServed, A!NoRevokedGroupServed
<1> QED
  BY <1>1, PanelInvariance, PTL

\* A session that outlives a change of its account is one being revoked or one
\* of four named races, and the forced-change gate answers the account as it is.
THEOREM SessionsAccountedFor == A!Spec => []SessionsExplained
<1>1. ASSUME PanelInv PROVE SessionsExplained
  <2>1. \A u : ToBeRevoked(accountTask, u) <=> A!RevokePending(u)
    BY DEF ToBeRevoked, Revoking, A!RevokePending, A!Revoking
  <2>2. ASSUME NEW s \in PanelSids, A!Stale(s)
        PROVE  sess[s].excused \/ A!RevokePending(sess[s].actor)
    BY <1>1, <2>1, <2>2 DEF A!Stale, A!Live, PanelInv, SessionsFit, SessionFits, Unexplained
  <2>3. ASSUME NEW s \in PanelSids, A!Live(s), sess[s].actor # None, ~sess[s].excused,
               gate[s] # "none", ~A!RevokePending(sess[s].actor)
        PROVE  (gate[s] = "must") = users[sess[s].actor].must
    <3>1. (gate[s] = "must") <=> users[sess[s].actor].must
      BY <1>1, <2>1, <2>3 DEF A!Live, PanelInv, SessionsFit, GateFits, Unexplained
    <3>2. users[sess[s].actor].must \in BOOLEAN
      BY <1>1, <2>3, PanelFacts
    <3> QED
      BY <3>1, <3>2
  <2> QED
    BY <2>2, <2>3 DEF SessionsExplained, A!SessionsExplained
<1> QED
  BY <1>1, PanelInvariance, PTL

(* What a statement does to the admins: it is about one account, and it    *)
(* takes an admin away only when the statement itself counted two.         *)
AdminSafe(u) ==
    /\ \A v \in Users \ {u} : users'[v] = users[v]
    /\ u \in A!Admins => \/ users'[u].here /\ users'[u].role = "admin"
                         \/ A!Cardinality(A!Admins) > 1

LEMMA AdminKept ==
    ASSUME PanelInv, NEW u \in Users, AdminSafe(u), A!AnyAdminExists PROVE A!AnyAdminExists'
<1>1. \A v : v \in A!Admins <=> v \in Users /\ users[v].here /\ users[v].role = "admin"
  BY DEF A!Admins, A!Accounts
<1>2. \A v : v \in A!Admins' <=> v \in Users /\ users'[v].here /\ users'[v].role = "admin"
  BY DEF A!Admins, A!Accounts
<1>3. CASE \E v \in A!Admins : v # u
  BY <1>1, <1>2, <1>3 DEF AdminSafe, A!AnyAdminExists
<1>4. CASE \A v \in A!Admins : v = u
  <2>1. A!Admins = {u} /\ u \in A!Admins
    BY <1>4 DEF A!AnyAdminExists
  <2>2. A!Cardinality(A!Admins) = 1
    <3>1. A!Cardinality({u}) = Cardinality({u})
      BY Zenon DEF A!Cardinality, Cardinality
    <3> QED
      BY <2>1, <3>1, FS_Singleton
  <2>3. users'[u].here /\ users'[u].role = "admin"
    BY <2>1, <2>2 DEF AdminSafe
  <2> QED
    BY <1>2, <2>3 DEF A!AnyAdminExists
<1> QED
  BY <1>3, <1>4

LEMMA InsertSafe ==
    ASSUME PanelInv, NEW u \in Users, NEW role \in A!Roles, NEW must \in BOOLEAN,
           NEW gs \in SUBSET Groups, A!Insert(u, role, must, gs)
    PROVE  AdminSafe(u)
<1>1. (\A v \in Users \ {u} : users'[v] = users[v]) /\ ~users[u].here
  BY PanelFacts DEF A!Insert
<1> QED
  BY <1>1 DEF AdminSafe, A!Admins, A!Accounts

LEMMA PasswordSafe ==
    ASSUME PanelInv, NEW u \in Users, NEW must \in BOOLEAN, A!SetPassword(u, must)
    PROVE  AdminSafe(u)
<1>1. /\ \A v \in Users \ {u} : users'[v] = users[v]
      /\ users[u].here /\ users'[u].here = users[u].here /\ users'[u].role = users[u].role
  BY PasswordRow
<1> QED
  BY <1>1 DEF AdminSafe, A!Admins

LEMMA UpdateSafe ==
    ASSUME PanelInv, NEW u \in Users, NEW role \in A!Roles, NEW gs \in SUBSET Groups,
           \/ A!UpdateAccount(u, role, gs)
           \/ A!SetRoleOf(u, role) /\ gs = users[u].groups
           \/ A!SetGroupsOf(u, gs) /\ role = users[u].role
    PROVE  AdminSafe(u)
<1>1. /\ \A v \in Users \ {u} : users'[v] = users[v]
      /\ users[u].here /\ users'[u].here = users[u].here /\ users'[u].role = role
  BY UpdateRow
<1>2. A!LeavesAnAdmin(u, role) \/ role = users[u].role
  BY DEF A!UpdateAccount, A!SetRoleOf
<1>3. u \in A!Admins => users[u].role = "admin"
  BY DEF A!Admins
<1> QED
  BY <1>1, <1>2, <1>3 DEF AdminSafe, A!LeavesAnAdmin

LEMMA DeleteSafe == ASSUME PanelInv, NEW u \in Users, A!DeleteAccount(u) PROVE AdminSafe(u)
<1>1. \A v \in Users \ {u} : users'[v] = users[v]
  BY DeleteRow
<1>2. u \in A!Admins => users[u].role = "admin"
  BY DEF A!Admins
<1> QED
  BY <1>1, <1>2 DEF AdminSafe, A!LeavesAnAdmin, A!DeleteAccount

(* What a request's step does to the table: nothing, or one safe statement *)
(* that, when the request is a scoped editor's, is within its scope.       *)
WithinScope(t) ==
    /\ users'[t.who].role = "admin" => users[t.who].role = "admin"
    /\ \/ users'[t.who].groups \ t.scope.groups = t.seen.groups \ t.scope.groups
       \/ t.pc \in {"reset_password", "set_role"}
TableGuarded(t) ==
    \/ users' = users
    \/ /\ \E u \in Users : AdminSafe(u)
       /\ t.pc \in A!Writing /\ t.scope.role = "editor" => WithinScope(t)

LEMMA UnscopedGuarded ==
    ASSUME PanelInv, NEW r \in Reqs, NEW u \in Users, AdminSafe(u),
           accountTask[r].scope = A!NoScope \/ accountTask[r].pc \notin A!Writing
    PROVE  TableGuarded(accountTask[r])
  BY PanelIdle DEF TableGuarded

LEMMA SignInGuarded ==
    ASSUME PanelInv, NEW r \in Reqs, A!SignIn(r) PROVE TableGuarded(accountTask[r])
<1> DEFINE b == accountTask[r]
<1>1. CASE UNCHANGED users
  BY <1>1 DEF TableGuarded
<1>2. CASE A!At(r, "setup") /\ A!Insert(b.who, "admin", FALSE, {})
  <2>1. b.who \in Users /\ b.scope = A!NoScope
    BY <1>2, PanelTask DEF A!At, Anonymous, JobDecided
  <2>2. "admin" \in A!Roles /\ {} \in SUBSET Groups
    BY DEF A!Roles
  <2> QED
    BY <1>2, <2>1, <2>2, InsertSafe, UnscopedGuarded
<1>3. CASE A!At(r, "password") /\ A!SetPassword(b.who, FALSE)
  <2>1. b.who \in Users /\ b.scope = A!NoScope
    BY <1>3, PanelTask DEF A!At, Anonymous, JobDecided
  <2> QED
    BY <1>3, <2>1, PasswordSafe, UnscopedGuarded
<1>4. A!LoginSubmit(r) \/ A!TokenLogin(r) \/ A!MustChangeGuard(r) \/ A!ResolveIdentity(r)
         => UNCHANGED users
  BY DEF A!LoginSubmit, A!TokenLogin, A!MustChangeGuard, A!ResolveIdentity, A!Reading
<1>5. A!SetupSubmit(r) => \/ UNCHANGED users
                          \/ A!At(r, "setup") /\ A!Insert(b.who, "admin", FALSE, {})
  BY DEF A!SetupSubmit, A!Reading
<1>6. A!PasswordSubmit(r) => \/ UNCHANGED users
                             \/ A!At(r, "password") /\ A!SetPassword(b.who, FALSE)
  BY DEF A!PasswordSubmit, A!Reading
<1> QED
  BY <1>1, <1>2, <1>3, <1>4, <1>5, <1>6 DEF A!SignIn

LEMMA GroupsGuarded ==
    ASSUME PanelInv, NEW r \in Reqs, accountTask[r].pc \in {"set_groups", "memberships"},
           A!SetGroupsOf(accountTask[r].who, accountTask[r].groups)
    PROVE  TableGuarded(accountTask[r])
<1> DEFINE b == accountTask[r]
           u == b.who
<1>1. u \in Users /\ b.groups \in SUBSET Groups /\ users[u].role \in A!Roles
  BY PanelTask, PanelFacts DEF Anonymous
<1>2. AdminSafe(u)
  BY <1>1, UpdateSafe
<1>3. users'[u].groups = b.groups /\ users'[u].role = users[u].role
  BY <1>1, UpdateRow
<1>4. b.scope.role = "editor" => b.groups \ b.scope.groups = b.seen.groups \ b.scope.groups
  BY PanelTask DEF JobDecided
<1> QED
  BY <1>1, <1>2, <1>3, <1>4 DEF TableGuarded, WithinScope

LEMMA UsersPageGuarded ==
    ASSUME PanelInv, NEW r \in Reqs, A!UsersPage(r) PROVE TableGuarded(accountTask[r])
<1> DEFINE b == accountTask[r]
           u == b.who
<1>1. CASE UNCHANGED users
  BY <1>1 DEF TableGuarded
<1>2. CASE A!At(r, "save_edit") /\ A!UpdateAccount(u, b.role, b.groups)
  <2>1. b.pc = "save_edit" /\ u \in Users /\ b.role \in A!Roles /\ b.groups \in SUBSET Groups
    BY <1>2, PanelTask DEF A!At, Anonymous
  <2>2. AdminSafe(u) /\ users'[u].groups = b.groups /\ users'[u].role = b.role
    BY <1>2, <2>1, UpdateSafe, UpdateRow
  <2>3. b.scope.role = "editor" => /\ b.role # "admin"
                                   /\ b.groups \ b.scope.groups = b.seen.groups \ b.scope.groups
    BY <2>1, PanelTask DEF JobDecided
  <2> QED
    BY <2>1, <2>2, <2>3 DEF TableGuarded, WithinScope
<1>3. CASE A!At(r, "set_groups") /\ A!SetGroupsOf(u, b.groups)
  BY <1>3, GroupsGuarded DEF A!At
<1>4. CASE A!At(r, "set_role") /\ A!SetRoleOf(u, b.role)
  <2>1. b.pc = "set_role" /\ u \in Users /\ b.role \in A!Roles
    BY <1>4, PanelTask DEF A!At, Anonymous
  <2>2. users \in [Users -> A!Row] /\ users' = [users EXCEPT ![u].role = b.role]
    BY <1>4, PanelFacts DEF A!SetRoleOf
  <2>3. AdminSafe(u) /\ users'[u].role = b.role
    <3>1. users[u].groups \in SUBSET Groups
      BY <2>1, PanelFacts
    <3>2. \A gs \in SUBSET Groups : gs = users[u].groups => AdminSafe(u)
      BY <1>4, <2>1, UpdateSafe
    <3> QED
      BY <2>1, <2>2, <3>1, <3>2 DEF A!Row
  <2>4. b.scope.role = "editor" => b.role # "admin"
    BY <2>1, PanelTask DEF JobDecided
  <2> QED
    BY <2>1, <2>3, <2>4 DEF TableGuarded, WithinScope
<1>5. CASE A!At(r, "reset_password") /\ A!SetPassword(u, TRUE)
  <2>1. b.pc = "reset_password" /\ u \in Users
    BY <1>5, PanelTask DEF A!At, Anonymous
  <2>2. AdminSafe(u) /\ users'[u].role = users[u].role
    BY <1>5, <2>1, PasswordSafe, PasswordRow
  <2> QED
    BY <2>1, <2>2 DEF TableGuarded, WithinScope
<1>6. CASE A!At(r, "delete") /\ A!DeleteAccount(u)
  <2>1. u \in Users /\ b.scope = A!NoScope
    BY <1>6, PanelTask DEF A!At, Anonymous, JobDecided
  <2> QED
    BY <1>6, <2>1, DeleteSafe, UnscopedGuarded
<1>7. CASE A!At(r, "create") /\ A!Insert(u, b.role, TRUE, b.groups)
  <2>1. b.pc = "create" /\ u \in Users /\ b.role \in A!Roles /\ b.groups \in SUBSET Groups
    BY <1>7, PanelTask DEF A!At, Anonymous
  <2>2. AdminSafe(u)
    BY <1>7, <2>1, InsertSafe
  <2>3. users'[u].groups = b.groups /\ users'[u].role = b.role
    BY <1>7, <2>1, PanelFacts DEF A!Insert
  <2>4. b.scope.role = "editor" => /\ b.role # "admin"
                                   /\ b.groups \ b.scope.groups = b.seen.groups \ b.scope.groups
    BY <2>1, PanelTask DEF JobDecided
  <2> QED
    BY <2>1, <2>2, <2>3, <2>4 DEF TableGuarded, WithinScope
<1>8. ASSUME A!At(r, "import"), NEW v \in Users, NEW role \in NewRoles, NEW gs \in NewGroups,
             A!Insert(v, role, TRUE, gs)
      PROVE  TableGuarded(b)
  <2>1. role \in A!Roles /\ gs \in SUBSET Groups /\ b.pc \notin A!Writing
    BY <1>8, PanelAssumption DEF A!At, A!Writing
  <2> QED
    BY <1>8, <2>1, InsertSafe, UnscopedGuarded
<1>9. CASE A!At(r, "rollback") /\ A!DeleteAccount(u)
  <2>1. u \in Users /\ b.pc \notin A!Writing
    BY <1>9, PanelTask DEF A!At, Anonymous, A!Writing
  <2> QED
    BY <1>9, <2>1, DeleteSafe, UnscopedGuarded
<1>10. A!SaveEdit(r) => \/ UNCHANGED users
                        \/ A!At(r, "save_edit") /\ A!UpdateAccount(u, b.role, b.groups)
  <2>1. \A s, v, t : A!Scoped(r, s, v, t) => UNCHANGED users
    BY DEF A!Scoped, A!Reading
  <2> QED
    BY <2>1 DEF A!SaveEdit
<1>11. A!SetGroups(r) => UNCHANGED users \/ (A!At(r, "set_groups") /\ A!SetGroupsOf(u, b.groups))
  BY DEF A!SetGroups, A!Scoped, A!Reading
<1>12. A!SetRole(r) => UNCHANGED users \/ (A!At(r, "set_role") /\ A!SetRoleOf(u, b.role))
  BY DEF A!SetRole, A!Scoped, A!Reading
<1>13. A!ResetPassword(r) => \/ UNCHANGED users
                             \/ A!At(r, "reset_password") /\ A!SetPassword(u, TRUE)
  BY DEF A!ResetPassword, A!Scoped, A!Reading
<1>14. A!Delete(r) => UNCHANGED users \/ (A!At(r, "delete") /\ A!DeleteAccount(u))
  BY DEF A!Delete, A!Reading
<1>15. A!Create(r) => \/ UNCHANGED users
                      \/ A!At(r, "create") /\ A!Insert(u, b.role, TRUE, b.groups)
  BY DEF A!Create, A!Reading
<1>16. A!SetProfile(r) => UNCHANGED users
  BY DEF A!SetProfile, A!Scoped, A!Reading, A!UpdateProfile
<1>17. A!ImportConfirm(r) => TableGuarded(b)
  BY <1>1, <1>8, <1>9 DEF A!ImportConfirm, A!Reading
<1> QED
  BY <1>1, <1>2, <1>3, <1>4, <1>5, <1>6, <1>7, <1>10, <1>11, <1>12, <1>13, <1>14, <1>15, <1>16,
     <1>17 DEF A!UsersPage

LEMMA GroupsPageGuarded ==
    ASSUME PanelInv, NEW r \in Reqs, A!GroupsPage(r) \/ A!Tail(r)
    PROVE  TableGuarded(accountTask[r])
<1> DEFINE b == accountTask[r]
<1>1. CASE UNCHANGED users
  BY <1>1 DEF TableGuarded
<1>2. A!CreateGroup(r) \/ A!AddMember(r) \/ A!RemoveMember(r) \/ A!Tail(r) => UNCHANGED users
  BY DEF A!CreateGroup, A!AddMember, A!RemoveMember, A!Membership, A!Reading, A!Tail, A!Revoke,
         A!Invalidate, A!Abandon
<1>3. A!SaveMemberships(r) => TableGuarded(b)
  BY GroupsGuarded DEF A!SaveMemberships, A!At
<1>4. ASSUME NEW m \in b.todo, A!At(r, "rewrite"), A!SetGroupsOf(m[1], m[2])
      PROVE  TableGuarded(b)
  <2>1. m[1] \in Users /\ m[2] \in SUBSET Groups /\ users[m[1]].role \in A!Roles
    BY PanelTask, PanelFacts
  <2>2. b.pc \notin A!Writing
    BY <1>4 DEF A!At, A!Writing
  <2> QED
    BY <1>4, <2>1, <2>2, UpdateSafe, UnscopedGuarded
<1>5. A!RewriteGroup(r) => TableGuarded(b)
  BY <1>1, <1>4 DEF A!RewriteGroup, A!Reading
<1> QED
  BY <1>1, <1>2, <1>3, <1>5 DEF A!GroupsPage

(* A step is one request's: the others stay where they are.                *)
LEMMA OneRequest ==
    ASSUME PanelInv, NEW r \in Reqs,
           A!SignIn(r) \/ A!UsersPage(r) \/ A!GroupsPage(r) \/ A!Tail(r)
    PROVE  \A q \in Reqs \ {r} : accountTask'[q] = accountTask[q]
<1> DEFINE Others == \A q \in Reqs \ {r} : accountTask'[q] = accountTask[q]
<1>1. accountTask \in [Reqs -> PanelJobs]
  BY DEF PanelInv, PanelTypes
<1>2. \A t : A!Begin(r, t) => Others
  BY <1>1 DEF A!Begin
<1>3. A!Finish(r) => Others
  BY <1>1 DEF A!Finish
<1>4. \A pc : A!Goto(r, pc) => Others
  BY <1>1 DEF A!Goto
<1>5. \A s, v, t : A!Scoped(r, s, v, t) => Others
  BY <1>2 DEF A!Scoped
<1>6. \A sc, v, gs : A!Membership(r, sc, v, gs) => Others
  BY <1>2 DEF A!Membership
<1>7. \A pc, pw : accountTask' = [accountTask EXCEPT ![r].pc = pc, ![r].seen.pw = pw] => Others
  BY <1>1
<1>8. \A pc, u : accountTask' = [accountTask EXCEPT ![r].pc = pc, ![r].who = u] => Others
  BY <1>1
<1>9. \A m : accountTask' = [accountTask EXCEPT ![r].todo = @ \ {m}] => Others
  BY <1>1
<1>10. UNCHANGED accountTask => Others
  OBVIOUS
<1> HIDE DEF Others
<1>11. ASSUME A!SignIn(r) PROVE Others
  <2>1. A!LoginSubmit(r) => Others
    BY <1>2, <1>3 DEF A!LoginSubmit
  <2>2. A!TokenLogin(r) => Others
    BY <1>10 DEF A!TokenLogin
  <2>3. A!SetupSubmit(r) => Others
    BY <1>2, <1>3, <1>7, Zenon DEF A!SetupSubmit
  <2>4. A!PasswordSubmit(r) => Others
    BY <1>2, <1>3, <1>7, Zenon DEF A!PasswordSubmit
  <2>5. A!MustChangeGuard(r) => Others
    BY <1>2, <1>3, Zenon DEF A!MustChangeGuard
  <2>6. A!ResolveIdentity(r) => Others
    BY <1>2, <1>3, Zenon DEF A!ResolveIdentity
  <2> QED
    BY <1>11, <2>1, <2>2, <2>3, <2>4, <2>5, <2>6 DEF A!SignIn
<1>12. ASSUME A!UsersPage(r) PROVE Others
  <2>1. A!SaveEdit(r) \/ A!SetProfile(r) \/ A!SetGroups(r) => Others
    BY <1>4, <1>5, Zenon DEF A!SaveEdit, A!SetProfile, A!SetGroups
  <2>2. A!SetRole(r) \/ A!ResetPassword(r) => Others
    BY <1>4, <1>5, Zenon DEF A!SetRole, A!ResetPassword
  <2>3. A!Delete(r) \/ A!Create(r) => Others
    BY <1>2, <1>3, <1>4, Zenon DEF A!Delete, A!Create
  <2>4. A!ImportConfirm(r) => Others
    BY <1>2, <1>4, <1>8, Zenon DEF A!ImportConfirm
  <2> QED
    BY <1>12, <2>1, <2>2, <2>3, <2>4 DEF A!UsersPage
<1>13. ASSUME A!GroupsPage(r) PROVE Others
  <2>1. A!CreateGroup(r) \/ A!AddMember(r) \/ A!RemoveMember(r) => Others
    BY <1>6, Zenon DEF A!CreateGroup, A!AddMember, A!RemoveMember
  <2>2. A!SaveMemberships(r) => Others
    BY <1>4 DEF A!SaveMemberships
  <2>3. A!RewriteGroup(r) => Others
    BY <1>2, <1>4, <1>9, Zenon DEF A!RewriteGroup
  <2> QED
    BY <1>13, <2>1, <2>2, <2>3 DEF A!GroupsPage
<1>14. ASSUME A!Tail(r) PROVE Others
  BY <1>3, <1>4, <1>14 DEF A!Tail, A!Revoke, A!Invalidate, A!Abandon
<1> QED
  BY <1>11, <1>12, <1>13, <1>14 DEF Others

(* The pages show what the handlers allow.                                 *)
LEMMA PagesMatch == ASSUME PanelInv PROVE A!PagesMatchHandlers
<1> SUFFICES ASSUME NEW s \in PanelSids, A!RequireEditor(s)
             PROVE  /\ A!Index(s) = {u \in Users : A!ScopedTarget(A!FromEditor(s), u)}
                    /\ A!ExportCsv(s) \subseteq A!Index(s)
                    /\ \A u \in A!Index(s) :
                         /\ A!MayAssignGroups(A!FromEditor(s), A!EditPage(A!FromEditor(s), u).editable)
                         /\ A!MergePreserving(A!FromEditor(s), users[u].groups,
                                A!EditPage(A!FromEditor(s), u).editable) = users[u].groups
  BY DEF A!PagesMatchHandlers
<1> DEFINE sc == A!FromEditor(s)
<1>1. sc \in A!Scope /\ sc.groups \in SUBSET Groups
  BY ScopeFits DEF A!Scope
<1>2. A!Index(s) = A!Visible(sc) /\ A!ExportCsv(s) \subseteq A!Visible(sc)
  <2>1. A!Index(s) = A!Visible(sc)
    BY DEF A!Index
  <2>2. A!RequireAdmin(s) => A!Visible(sc) = A!Accounts
    BY DEF A!RequireAdmin, A!FromEditor, A!Visible, A!Unscoped
  <2> QED
    BY <2>1, <2>2 DEF A!ExportCsv
<1> HIDE DEF sc
<1>3. \A u : u \in A!Visible(sc) <=> u \in Users /\ A!ScopedTarget(sc, u)
  BY <1>1 DEF A!Visible, A!ScopedTarget, A!MayTouchUser, A!Accounts
<1>4. ASSUME NEW u \in Users
      PROVE  /\ A!MayAssignGroups(sc, A!EditPage(sc, u).editable)
             /\ A!MergePreserving(sc, users[u].groups, A!EditPage(sc, u).editable)
                   = users[u].groups
  <2>1. A!EditPage(sc, u).editable = A!MergePreserving(sc, {}, users[u].groups)
    BY DEF A!EditPage
  <2>2. users[u].groups \in SUBSET Groups
    BY PanelFacts
  <2> QED
    BY <1>1, <2>1, <2>2 DEF A!MayAssignGroups, A!MergePreserving
<1> QED
  BY <1>2, <1>3, <1>4 DEF sc

\* Once an admin account exists there is always one, whatever demotions, edits
\* and deletions run concurrently; a scoped editor makes nobody an admin and
\* leaves the groups outside its own as it read them; and an editor's pages
\* show what its handlers allow, the export being an admin's.
THEOREM RolesStayGuarded == A!Spec => RolesGuarded
<1>1. ASSUME PanelInv, A!Next
      PROVE  (A!AnyAdminExists => A!AnyAdminExists') /\ A!EditorsStayInScope
  <2>1. ASSUME NEW r \in Reqs, A!SignIn(r) \/ A!UsersPage(r) \/ A!GroupsPage(r) \/ A!Tail(r)
        PROVE  (A!AnyAdminExists => A!AnyAdminExists') /\ A!EditorsStayInScope
    <3>1. TableGuarded(accountTask[r])
      BY <1>1, <2>1, SignInGuarded, UsersPageGuarded, GroupsPageGuarded
    <3>2. \A q \in Reqs \ {r} : accountTask'[q] = accountTask[q]
      BY <1>1, <2>1, OneRequest
    <3>3. A!AnyAdminExists => A!AnyAdminExists'
      <4>1. CASE users' = users
        BY <4>1 DEF A!AnyAdminExists, A!Admins, A!Accounts
      <4>2. CASE \E u \in Users : AdminSafe(u)
        BY <1>1, <4>2, AdminKept
      <4> QED
        BY <3>1, <4>1, <4>2 DEF TableGuarded
    <3>4. A!EditorsStayInScope
      BY <3>1, <3>2, Zenon DEF TableGuarded, WithinScope, A!EditorsStayInScope
    <3> QED
      BY <3>3, <3>4
  <2>2. ASSUME NEW s \in PanelSids, A!Logout(s)
        PROVE  (A!AnyAdminExists => A!AnyAdminExists') /\ A!EditorsStayInScope
    BY <2>2 DEF A!Logout, A!AnyAdminExists, A!Admins, A!Accounts, A!EditorsStayInScope
  <2> QED
    BY <1>1, <2>1, <2>2 DEF A!Next
<1>2. PanelInv /\ [A!Next]_(A!vars) =>
         [/\ A!AnyAdminExists => A!AnyAdminExists'
          /\ A!EditorsStayInScope /\ A!PagesMatchHandlers]_(A!vars)
  BY <1>1, PagesMatch
<1> QED
  BY <1>2, PanelInvariance, PTL DEF A!Spec, RolesGuarded, A!RolesGuarded

\* The three parts share no state: what is proved of each by itself holds of
\* the system they make up.
THEOREM IdentityParts == IdentitySpec => Spec /\ A!Spec /\ F!Spec
<1>1. IdentityInit => Init /\ A!Init /\ F!Init
  BY DEF IdentityInit
<1>2. [IdentityNext]_identityVars => [Next]_vars
  BY DEF IdentityNext, identityVars
<1>3. [IdentityNext]_identityVars => [A!Next]_(A!vars)
  <2>1. [IdentityNext]_identityVars => A!Next \/ UNCHANGED accountsVars
    BY DEF IdentityNext, identityVars
  <2>2. UNCHANGED accountsVars => UNCHANGED A!vars
    BY DEF accountsVars, A!vars
  <2> QED
    BY <2>1, <2>2
<1>4. [IdentityNext]_identityVars => [F!Next]_(F!vars)
  <2>1. [IdentityNext]_identityVars => F!Next \/ UNCHANGED factorVars
    BY DEF IdentityNext, identityVars
  <2>2. UNCHANGED factorVars => UNCHANGED F!vars
    BY DEF factorVars, F!vars
  <2> QED
    BY <2>1, <2>2
<1> QED
  BY <1>1, <1>2, <1>3, <1>4, PTL DEF IdentitySpec, Spec, A!Spec, F!Spec

\* What the parts promise, of the system they make up: roles are guarded,
\* sessions and cached groups are accounted for, trust is fresh and codes count
\* once, and the shared sign-in sessions behave as SignIn says.
THEOREM IdentityHolds ==
    IdentitySpec => /\ RolesGuarded /\ ImplementsSignIn
                    /\ [](SessionsExplained /\ NoRevokedGroupServed)
                    /\ [](NoStaleTrust /\ ProofsCountOnce)
  BY IdentityParts, RolesStayGuarded, StoreImplementsSignIn, SessionsAccountedFor,
     RevokedGroupsGone, TrustIsFresh, CodesCountOnce, PTL
=============================================================================
