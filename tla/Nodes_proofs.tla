--------------------------- MODULE Nodes_proofs ----------------------------
(***************************************************************************)
(* Theorems about SessionSeats, SharedSessions and Fleet, and about Nodes, *)
(* the system they make up: for every number of replicas, sessions, nodes, *)
(* hosts, requests and sweeps.                                             *)
(*                                                                         *)
(* One node. SeatLedger is not inductive: whether a step keeps a row's     *)
(* counter equal to the seats held depends on who a session id belongs to. *)
(* Links says that: ids point only at minted replicas, a reservation not   *)
(* registered yet is known to nobody else, a replica still being spawned   *)
(* is nobody's.                                                            *)
(*                                                                         *)
(* Several nodes. A counter is stored from a number that was read before:  *)
(* SharedInv says what such a number, still in a task's hand, covers.      *)
(*                                                                         *)
(* Several hosts. A listing is used after the hosts have answered it:      *)
(* FleetInv says what an answer still shows then.                          *)
(***************************************************************************)
EXTENDS Nodes, FiniteSetTheorems, TLAPS

RowsMinted == \A r \in Replicas : state[r] # "absent" => r \in minted

SessionLinks ==
    /\ \A s \in Sids : bound[s] \in minted \cup {NoReplica}
    /\ \A s \in Sids : tracked[s] \in {bound[s], NoReplica}
    /\ \A s \in cookie : bound[s] # NoReplica

HandlerLinks ==
    /\ \A q \in Requests : pc[q] \in {"touch", "inc", "forward"} =>
          sid[q] \in Sids /\ bound[sid[q]] # NoReplica
    /\ \A l \in Logouts : ending[l] # NoSid => bound[ending[l]] # NoReplica

SpawnLinks ==
    /\ \A q \in Requests : pc[q] = "spawn" =>
          /\ target[q] \in minted /\ state[target[q]] = "absent"
          /\ \A s \in Sids : bound[s] # target[q]
    /\ \A p, q \in Requests : pc[p] = "spawn" /\ pc[q] = "spawn" => p = q

ReservationLinks ==
    \A q \in Requests : pc[q] = "touch" /\ reserved[q] =>
        /\ tracked[sid[q]] = NoReplica /\ sid[q] \notin cookie
        /\ \A p \in Requests :
              pc[p] \in {"touch", "inc", "forward"} /\ sid[p] = sid[q] => p = q

Links == RowsMinted /\ SessionLinks /\ HandlerLinks /\ SpawnLinks /\ ReservationLinks

Ledger ==
    \A r \in Replicas : Serving(r) /\ r \notin drifted =>
        active[r] = Taken(r) /\ IncMatched(r)

IInv == TypeOK /\ Links /\ Ledger

-----------------------------------------------------------------------------
(* Counting: subsets of the finite constant sets have a cardinality, and   *)
(* one element more or less is one more or less.                           *)

(* Every set of holders is finite, so its cardinality is a number.         *)
LEMMA SubsetCardinality ==
    ASSUME NEW U, IsFiniteSet(U), NEW T \in SUBSET U
    PROVE  IsFiniteSet(T) /\ Cardinality(T) \in Nat
BY FS_Subset, FS_CardinalityType

(* A new holder adds one to the cardinality.                               *)
LEMMA OneMore ==
    ASSUME NEW U, IsFiniteSet(U), NEW T \in SUBSET U, NEW x, x \notin T
    PROVE  Cardinality(T \cup {x}) = Cardinality(T) + 1
BY SubsetCardinality, FS_AddElement

(* A holder that leaves takes one from the cardinality.                    *)
LEMMA OneLess ==
    ASSUME NEW U, IsFiniteSet(U), NEW T \in SUBSET U, NEW x \in T
    PROVE  Cardinality(T) \in Nat \ {0} /\ Cardinality(T \ {x}) = Cardinality(T) - 1
<1>1. IsFiniteSet(T) /\ Cardinality(T) \in Nat
  BY SubsetCardinality
<1>2. Cardinality(T \ {x}) = Cardinality(T) - 1
  BY <1>1, FS_RemoveElement
<1>3. T # {}
  OBVIOUS
<1>4. Cardinality(T) # 0
  BY <1>1, <1>3, FS_EmptySet
<1> QED
  BY <1>1, <1>2, <1>4

(* A set with one known member and no other.                               *)
LEMMA OnlyHolder ==
    ASSUME NEW T, NEW x \in T, \A y \in T : y = x
    PROVE  T = {x}
OBVIOUS

(* Nobody holds a seat of r when the three sets of holders are empty.      *)
LEMMA NobodyHolds ==
    ASSUME NEW r, SessionHolds(r) = {}, ReservedHolds(r) = {}, EndingHolds(r) = {}
    PROVE  Taken(r) = 0
BY FS_EmptySet DEF Taken

-----------------------------------------------------------------------------
(* Type correctness.                                                       *)

(* Boot satisfies the type invariant.                                      *)
LEMMA InitTypeOK == Init => TypeOK
<1> SUFFICES ASSUME Init PROVE TypeOK
  OBVIOUS
<1>1. /\ state \in [Replicas -> RowStates]
      /\ active \in [Replicas -> Nat]
      /\ minted \subseteq Replicas
      /\ alive \subseteq minted
  BY DEF Init
<1>2. /\ tracked \in [Sids -> Replicas \cup {NoReplica}]
      /\ stale \subseteq Sids
      /\ bound \in [Sids -> Replicas \cup {NoReplica}]
      /\ cookie \subseteq Sids
  BY <1>1 DEF Init
<1>3. /\ pc \in [Requests -> ReqSteps]
      /\ sid \in [Requests -> Sids \cup {NoSid}]
      /\ target \in [Requests -> Replicas \cup {NoReplica}]
  BY DEF Init, ReqSteps
<1>4. reserved \in [Requests -> BOOLEAN]
  BY DEF Init
<1>5. victims \subseteq Sids /\ lock \in BOOLEAN
  BY DEF Init
<1>6. /\ ending \in [Logouts -> Sids \cup {NoSid}]
      /\ dropping \in [Reapers -> Replicas \cup {NoReplica}]
      /\ drifted \subseteq Replicas
  BY DEF Init
<1> QED
  BY <1>1, <1>2, <1>3, <1>4, <1>5, <1>6 DEF TypeOK, RegistryTypeOK, SessionTypeOK, RequestTypeOK, TaskTypeOK

USE ConstantsAssumption

(* Every step preserves the type invariant; the saturating decrement is    *)
(* what keeps counters natural, HandlerLinks what makes bound[sid[q]] a    *)
(* replica where a handler uses it.                                        *)
LEMMA NextTypeOK == TypeOK /\ Links /\ Next => TypeOK'
<1> SUFFICES ASSUME TypeOK, Links, Next PROVE TypeOK'
  OBVIOUS
<1> USE DEF TypeOK, RegistryTypeOK, SessionTypeOK, RequestTypeOK, TaskTypeOK,
            RowStates, ReqSteps
<1>1. ASSUME NEW q \in Requests, NEW s \in Sids, StickyVisit(q, s)
      PROVE  TypeOK'
  BY <1>1 DEF StickyVisit, Links, HandlerLinks, regVars, sessVars, reqVars, bgVars
<1>2. ASSUME NEW q \in Requests, NEW s \in Sids, NEW r \in Replicas, PickAccepting(q, s, r)
      PROVE  TypeOK'
  BY <1>2 DEF PickAccepting, Reserve, inc_sessions, Rows, FreshRequest, is_accepting, Links, HandlerLinks, regVars, sessVars, reqVars, bgVars
<1>3. ASSUME NEW q \in Requests, NEW s \in Sids, NEW r \in Replicas, PickStarting(q, s, r)
      PROVE  TypeOK'
  BY <1>3 DEF PickStarting, Reserve, inc_sessions, Rows, FreshRequest, StartingSeat, Links, HandlerLinks, regVars, sessVars, reqVars, bgVars
<1>4. ASSUME NEW q \in Requests, NEW s \in Sids, NEW r \in Replicas, PickOverload(q, s, r)
      PROVE  TypeOK'
  BY <1>4 DEF PickOverload, Reserve, inc_sessions, Rows, FreshRequest, Links, HandlerLinks, regVars, sessVars, reqVars, bgVars
<1>5. ASSUME NEW q \in Requests, NEW r \in Replicas, StartSpawn(q, r)
      PROVE  TypeOK'
  BY <1>5 DEF StartSpawn, Links, HandlerLinks, regVars, sessVars, reqVars, bgVars
<1>6. ASSUME NEW q \in Requests, NEW s \in Sids, SpawnAdd(q, s)
      PROVE  TypeOK'
  BY <1>6 DEF SpawnAdd, Links, HandlerLinks, regVars, sessVars, reqVars, bgVars
<1>7. ASSUME NEW q \in Requests, SpawnLost(q)
      PROVE  TypeOK'
  BY <1>7 DEF SpawnLost, Links, HandlerLinks, regVars, sessVars, reqVars, bgVars
<1>8. ASSUME NEW q \in Requests, Touch(q)
      PROVE  TypeOK'
  BY <1>8 DEF Touch, Links, HandlerLinks, regVars, sessVars, reqVars, bgVars
<1>9. ASSUME NEW q \in Requests, Register(q)
      PROVE  TypeOK'
  BY <1>9 DEF Register, Links, HandlerLinks, regVars, sessVars, reqVars, bgVars
<1>10. ASSUME NEW q \in Requests, IncSessions(q)
      PROVE  TypeOK'
  BY <1>10 DEF IncSessions, inc_sessions, Rows, Links, HandlerLinks, regVars, sessVars, reqVars, bgVars
<1>11. ASSUME NEW q \in Requests, CancelInc(q)
      PROVE  TypeOK'
  BY <1>11 DEF CancelInc, Done, Links, HandlerLinks, regVars, sessVars, reqVars, bgVars
<1>12. ASSUME NEW q \in Requests, Respond(q)
      PROVE  TypeOK'
  BY <1>12 DEF Respond, Done, Links, HandlerLinks, regVars, sessVars, reqVars, bgVars
<1>13. ASSUME NEW s \in Sids, Expire(s)
      PROVE  TypeOK'
  BY <1>13 DEF Expire, Links, HandlerLinks, regVars, sessVars, reqVars, bgVars
<1>14. ASSUME SweepCollect
      PROVE  TypeOK'
  BY <1>14 DEF SweepCollect, Links, HandlerLinks, regVars, sessVars, reqVars, bgVars
<1>15. ASSUME SweepLock
      PROVE  TypeOK'
  BY <1>15 DEF SweepLock, Links, HandlerLinks, regVars, sessVars, reqVars, bgVars
<1>16. ASSUME NEW s \in Sids, SweepEvict(s)
      PROVE  TypeOK'
  BY <1>16 DEF SweepEvict, Unregister, dec_sessions, Rows, Links, HandlerLinks, regVars, sessVars, reqVars, bgVars
<1>17. ASSUME NEW l \in Logouts, NEW s \in Sids, EndSession(l, s)
      PROVE  TypeOK'
  BY <1>17 DEF EndSession, Unregister, Links, HandlerLinks, regVars, sessVars, reqVars, bgVars
<1>18. ASSUME NEW l \in Logouts, EndSessionDec(l)
      PROVE  TypeOK'
  BY <1>18 DEF EndSessionDec, dec_sessions, Rows, Links, HandlerLinks, regVars, sessVars, reqVars, bgVars
<1>19. ASSUME NEW l \in Logouts, CancelLogout(l)
      PROVE  TypeOK'
  BY <1>19 DEF CancelLogout, Links, HandlerLinks, regVars, sessVars, reqVars, bgVars
<1>20. ASSUME NEW p \in Reapers, NEW r \in Replicas, CleanupReplica(p, r)
      PROVE  TypeOK'
  BY <1>20 DEF CleanupReplica, Links, HandlerLinks, regVars, sessVars, reqVars, bgVars
<1>21. ASSUME NEW p \in Reapers, NEW r \in Replicas, MarkRestarting(p, r)
      PROVE  TypeOK'
  BY <1>21 DEF MarkRestarting, Links, HandlerLinks, regVars, sessVars, reqVars, bgVars
<1>22. ASSUME NEW p \in Reapers, DropReplica(p)
      PROVE  TypeOK'
  BY <1>22 DEF DropReplica, Links, HandlerLinks, regVars, sessVars, reqVars, bgVars
<1>23. ASSUME NEW r \in Replicas, Readopt(r)
      PROVE  TypeOK'
  BY <1>23 DEF Readopt, Links, HandlerLinks, regVars, sessVars, reqVars, bgVars
<1>24. ASSUME NEW r \in Replicas, SpawnOne(r)
      PROVE  TypeOK'
  BY <1>24 DEF SpawnOne, Links, HandlerLinks, regVars, sessVars, reqVars, bgVars
<1> QED
  BY <1>1, <1>2, <1>3, <1>4, <1>5, <1>6, <1>7, <1>8, <1>9, <1>10, <1>11, <1>12, <1>13, <1>14, <1>15, <1>16, <1>17, <1>18, <1>19, <1>20, <1>21, <1>22, <1>23, <1>24
     DEF Next, RequestStep, SweeperStep, LogoutStep, ReaperStep

(* Boot satisfies the links: cookies of a former process point at listed   *)
(* containers.                                                             *)
LEMMA InitLinks == Init => Links
BY DEF Init, Links, RowsMinted, SessionLinks, HandlerLinks, SpawnLinks,
       ReservationLinks

(* Every step preserves the links.                                         *)
LEMMA NextLinks == TypeOK /\ Links /\ Next => Links'
<1> SUFFICES ASSUME TypeOK, Links, Next PROVE Links'
  OBVIOUS
<1> USE DEF TypeOK, RegistryTypeOK, SessionTypeOK, RequestTypeOK, TaskTypeOK,
            RowStates, ReqSteps, Links, RowsMinted, SessionLinks, HandlerLinks,
            SpawnLinks, ReservationLinks, MutexFree, 
            regVars, sessVars, reqVars, bgVars
<1>1. ASSUME NEW q \in Requests, NEW s \in Sids, StickyVisit(q, s)
      PROVE  Links'
  BY <1>1 DEF StickyVisit
<1>2. ASSUME NEW q \in Requests, NEW s \in Sids, NEW r \in Replicas, PickAccepting(q, s, r)
      PROVE  Links'
  BY <1>2 DEF PickAccepting, Reserve, inc_sessions, Rows, FreshRequest, is_accepting
<1>3. ASSUME NEW q \in Requests, NEW s \in Sids, NEW r \in Replicas, PickStarting(q, s, r)
      PROVE  Links'
  BY <1>3 DEF PickStarting, Reserve, inc_sessions, Rows, FreshRequest, StartingSeat
<1>4. ASSUME NEW q \in Requests, NEW s \in Sids, NEW r \in Replicas, PickOverload(q, s, r)
      PROVE  Links'
  BY <1>4 DEF PickOverload, Reserve, inc_sessions, Rows, FreshRequest
<1>5. ASSUME NEW q \in Requests, NEW r \in Replicas, StartSpawn(q, r)
      PROVE  Links'
  BY <1>5 DEF StartSpawn
<1>6. ASSUME NEW q \in Requests, NEW s \in Sids, SpawnAdd(q, s)
      PROVE  Links'
  BY <1>6 DEF SpawnAdd
<1>7. ASSUME NEW q \in Requests, SpawnLost(q)
      PROVE  Links'
  BY <1>7 DEF SpawnLost
<1>8. ASSUME NEW q \in Requests, Touch(q)
      PROVE  Links'
  BY <1>8 DEF Touch
<1>9. ASSUME NEW q \in Requests, Register(q)
      PROVE  Links'
  BY <1>9 DEF Register
<1>10. ASSUME NEW q \in Requests, IncSessions(q)
      PROVE  Links'
  BY <1>10 DEF IncSessions, inc_sessions, Rows
<1>11. ASSUME NEW q \in Requests, CancelInc(q)
      PROVE  Links'
  BY <1>11 DEF CancelInc, Done
<1>12. ASSUME NEW q \in Requests, Respond(q)
      PROVE  Links'
  BY <1>12 DEF Respond, Done
<1>13. ASSUME NEW s \in Sids, Expire(s)
      PROVE  Links'
  BY <1>13 DEF Expire
<1>14. ASSUME SweepCollect
      PROVE  Links'
  BY <1>14 DEF SweepCollect
<1>15. ASSUME SweepLock
      PROVE  Links'
  BY <1>15 DEF SweepLock
<1>16. ASSUME NEW s \in Sids, SweepEvict(s)
      PROVE  Links'
  BY <1>16 DEF SweepEvict, Unregister, dec_sessions, Rows
<1>17. ASSUME NEW l \in Logouts, NEW s \in Sids, EndSession(l, s)
      PROVE  Links'
  BY <1>17 DEF EndSession, Unregister
<1>18. ASSUME NEW l \in Logouts, EndSessionDec(l)
      PROVE  Links'
  BY <1>18 DEF EndSessionDec, dec_sessions, Rows
<1>19. ASSUME NEW l \in Logouts, CancelLogout(l)
      PROVE  Links'
  BY <1>19 DEF CancelLogout
<1>20. ASSUME NEW p \in Reapers, NEW r \in Replicas, CleanupReplica(p, r)
      PROVE  Links'
  BY <1>20 DEF CleanupReplica
<1>21. ASSUME NEW p \in Reapers, NEW r \in Replicas, MarkRestarting(p, r)
      PROVE  Links'
  BY <1>21 DEF MarkRestarting
<1>22. ASSUME NEW p \in Reapers, DropReplica(p)
      PROVE  Links'
  BY <1>22 DEF DropReplica
<1>23. ASSUME NEW r \in Replicas, Readopt(r)
      PROVE  Links'
  BY <1>23 DEF Readopt
<1>24. ASSUME NEW r \in Replicas, SpawnOne(r)
      PROVE  Links'
  BY <1>24 DEF SpawnOne
<1> QED
  BY <1>1, <1>2, <1>3, <1>4, <1>5, <1>6, <1>7, <1>8, <1>9, <1>10, <1>11, <1>12, <1>13, <1>14, <1>15, <1>16, <1>17, <1>18, <1>19, <1>20, <1>21, <1>22, <1>23, <1>24
     DEF Next, RequestStep, SweeperStep, LogoutStep, ReaperStep

-----------------------------------------------------------------------------
(* The ledger.                                                             *)

(* The cardinalities that Taken adds up are numbers, before and after a    *)
(* step.                                                                   *)
LEMMA HoldersCounted ==
    ASSUME NEW x
    PROVE  /\ SessionHolds(x) \in SUBSET Sids /\ SessionHolds(x)' \in SUBSET Sids
           /\ ReservedHolds(x) \in SUBSET Requests
           /\ ReservedHolds(x)' \in SUBSET Requests
           /\ EndingHolds(x) \in SUBSET Logouts /\ EndingHolds(x)' \in SUBSET Logouts
           /\ Cardinality(SessionHolds(x)) \in Nat
           /\ Cardinality(ReservedHolds(x)) \in Nat
           /\ Cardinality(EndingHolds(x)) \in Nat
<1>1. /\ SessionHolds(x) \in SUBSET Sids /\ SessionHolds(x)' \in SUBSET Sids
      /\ ReservedHolds(x) \in SUBSET Requests /\ ReservedHolds(x)' \in SUBSET Requests
      /\ EndingHolds(x) \in SUBSET Logouts /\ EndingHolds(x)' \in SUBSET Logouts
  BY DEF SessionHolds, ReservedHolds, EndingHolds
<1> QED
  BY <1>1, SubsetCardinality

(* At boot every counter is zero and nobody holds a seat.                  *)
LEMMA InitLedger == Init => Ledger
<1> SUFFICES ASSUME Init, NEW r \in Replicas
             PROVE  active[r] = Taken(r) /\ IncMatched(r)
  BY DEF Ledger
<1>1. SessionHolds(r) = {} /\ ReservedHolds(r) = {} /\ EndingHolds(r) = {}
  BY DEF Init, SessionHolds, ReservedHolds, EndingHolds
<1>2. Taken(r) = 0
  BY <1>1, NobodyHolds
<1> QED
  BY <1>2 DEF Init, IncMatched

(* A step that changes neither a row's holders nor its counter, and calls  *)
(* no row trustworthy that was not, keeps the ledger.                      *)
LEMMA LedgerFrame ==
    ASSUME Ledger, NEW x \in Replicas, Serving(x), x \notin drifted,
           active'[x] = active[x], SessionHolds(x)' = SessionHolds(x),
           ReservedHolds(x)' = ReservedHolds(x), EndingHolds(x)' = EndingHolds(x),
           IncMatched(x) => IncMatched(x)'
    PROVE  active'[x] = Taken(x)' /\ IncMatched(x)'
BY DEF Ledger, Taken

(* pick_or_spawn on an existing row: the counter and the reservations of   *)
(* that row grow together.                                                 *)
LEMMA ReserveLedger ==
    ASSUME TypeOK, Links, Ledger, NEW q \in Requests, NEW s \in Sids,
           NEW r \in Replicas, r \in Rows, FreshRequest(q, s), Reserve(q, s, r)
    PROVE  Ledger'
<1> SUFFICES ASSUME NEW x \in Replicas, Serving(x)', x \notin drifted'
             PROVE  active'[x] = Taken(x)' /\ IncMatched(x)'
  BY DEF Ledger
<1> USE DEF TypeOK, RegistryTypeOK, SessionTypeOK, RequestTypeOK, TaskTypeOK,
            Links, SessionLinks, HandlerLinks, Reserve, FreshRequest, bgVars
<1>1. Serving(x) /\ x \notin drifted
  BY DEF Serving
<1>2. SessionHolds(x)' = SessionHolds(x)
  BY DEF SessionHolds, IncPending
<1>3. EndingHolds(x)' = EndingHolds(x)
  BY DEF EndingHolds
<1>4. IncMatched(x) => IncMatched(x)'
  BY DEF IncMatched
<1>5. CASE x = r
  <2>1. ReservedHolds(x)' = ReservedHolds(x) \cup {q} /\ q \notin ReservedHolds(x)
    BY <1>5 DEF ReservedHolds
  <2>2. Cardinality(ReservedHolds(x)') = Cardinality(ReservedHolds(x)) + 1
    BY <2>1, OneMore, HoldersCounted
  <2>3. active'[x] = active[x] + 1
    BY <1>5 DEF inc_sessions
  <2> QED
    BY <1>1, <1>2, <1>3, <1>4, <2>2, <2>3, HoldersCounted DEF Ledger, Taken
<1>6. CASE x # r
  <2>1. ReservedHolds(x)' = ReservedHolds(x)
    BY <1>6 DEF ReservedHolds
  <2>2. active'[x] = active[x]
    BY <1>6 DEF inc_sessions
  <2> QED
    BY <1>1, <1>2, <1>3, <1>4, <2>1, <2>2, LedgerFrame
<1> QED
  BY <1>5, <1>6

(* Steps that leave every holder and every counter alone: a sticky visit,  *)
(* a spawn that is not registered yet, the touch of a known session, the   *)
(* end of a forward, the clock, the sweep before its first eviction.       *)
LEMMA QuietLedger ==
    ASSUME TypeOK, Links, Ledger,
           \/ \E q \in Requests, s \in Sids : StickyVisit(q, s)
           \/ \E q \in Requests, r \in Replicas : StartSpawn(q, r)
           \/ \E q \in Requests : SpawnLost(q) \/ Touch(q) \/ Respond(q)
           \/ \E s \in Sids : Expire(s)
           \/ SweepCollect \/ SweepLock
    PROVE  Ledger'
<1> SUFFICES ASSUME NEW x \in Replicas, Serving(x)', x \notin drifted'
             PROVE  active'[x] = Taken(x)' /\ IncMatched(x)'
  BY DEF Ledger
<1> USE DEF TypeOK, RequestTypeOK, ReqSteps, Links, ReservationLinks,
            StickyVisit, StartSpawn, SpawnLost, Touch, Respond, Done, Expire,
            SweepCollect, SweepLock, regVars, sessVars, reqVars, bgVars
<1>1. Serving(x) /\ x \notin drifted /\ active'[x] = active[x]
  BY DEF Serving
<1>2. SessionHolds(x)' = SessionHolds(x)
  BY DEF SessionHolds, IncPending
<1>3. ReservedHolds(x)' = ReservedHolds(x)
  BY DEF ReservedHolds
<1>4. EndingHolds(x)' = EndingHolds(x)
  BY DEF EndingHolds
<1>5. IncMatched(x) => IncMatched(x)'
  BY DEF IncMatched
<1> QED
  BY <1>1, <1>2, <1>3, <1>4, <1>5, LedgerFrame

(* A row that enters the pool with a replica nobody was ever bound to.     *)
LEMMA NewRowLedger ==
    ASSUME TypeOK, Links, Ledger,
           \/ \E q \in Requests, s \in Sids : SpawnAdd(q, s)
           \/ \E r \in Replicas : SpawnOne(r)
    PROVE  Ledger'
<1> SUFFICES ASSUME NEW x \in Replicas, Serving(x)', x \notin drifted'
             PROVE  active'[x] = Taken(x)' /\ IncMatched(x)'
  BY DEF Ledger
<1> USE DEF TypeOK, RegistryTypeOK, SessionTypeOK, RequestTypeOK, TaskTypeOK,
            ReqSteps, Links, SessionLinks, HandlerLinks, SpawnLinks,
            regVars, sessVars, reqVars, bgVars
<1>1. ASSUME NEW q \in Requests, NEW s \in Sids, SpawnAdd(q, s)
      PROVE  active'[x] = Taken(x)' /\ IncMatched(x)'
  <2> USE <1>1 DEF SpawnAdd
  <2>1. CASE x = target[q]
    <3> \A u \in Sids : (bound'[u] = x <=> u = s) /\ tracked[u] # x
      BY <2>1
    <3> \A l \in Logouts : ending[l] # s
      OBVIOUS
    <3> \A p \in Requests : pc'[p] = "touch" /\ sid'[p] = s => p = q
      OBVIOUS
    <3>1. SessionHolds(x)' = {} /\ EndingHolds(x)' = {}
      <4>1. SessionHolds(x)' = {}
        BY DEF SessionHolds
      <4>2. EndingHolds(x)' = {}
        BY DEF EndingHolds
      <4> QED BY <4>1, <4>2
    <3>2. ReservedHolds(x)' = {q}
      <4>1. pc'[q] = "touch" /\ sid'[q] = s /\ reserved'[q]
        BY DEF SpawnAdd
      <4>2. \A p \in Requests :
               pc'[p] = "touch" /\ bound'[sid'[p]] = x => sid'[p] = s
        OBVIOUS
      <4>3. bound'[sid'[q]] = x
        BY <4>1
      <4>4. ReservedHolds(x)' = {p \in Requests :
                pc'[p] = "touch" /\ reserved'[p] /\ bound'[sid'[p]] = x}
        BY DEF ReservedHolds
      <4>5. \A p \in ReservedHolds(x)' : p = q
        BY <4>2, <4>4
      <4>6. q \in ReservedHolds(x)'
        BY <4>1, <4>3, <4>4
      <4> QED
        BY <4>5, <4>6, OnlyHolder
    <3>3. Cardinality({}) = 0 /\ Cardinality({q}) = 1
      BY FS_EmptySet, FS_Singleton
    <3>4. Taken(x)' = 1
      BY <3>1, <3>2, <3>3 DEF Taken
    <3>5. IncMatched(x)'
      BY <2>1 DEF IncMatched
    <3> QED
      BY <2>1, <3>4, <3>5
  <2>2. CASE x # target[q]
    <3>1. Serving(x) /\ x \notin drifted /\ active'[x] = active[x]
      BY <2>2 DEF Serving
    <3>2. SessionHolds(x)' = SessionHolds(x)
      BY DEF SessionHolds, IncPending
    <3>3. ReservedHolds(x)' = ReservedHolds(x)
      BY <2>2 DEF ReservedHolds
    <3>4. EndingHolds(x)' = EndingHolds(x)
      <4>1. ending' = ending
        OBVIOUS
      <4>2. \A l \in Logouts : ending[l] # NoSid => (bound'[ending[l]] = x <=> bound[ending[l]] = x)
        BY <2>2
      <4> HIDE DEF TypeOK, Links, SpawnAdd
      <4> QED
        BY <4>1, <4>2 DEF EndingHolds
    <3>5. IncMatched(x) => IncMatched(x)'
      BY <2>2 DEF IncMatched
    <3> QED
      BY <3>1, <3>2, <3>3, <3>4, <3>5, LedgerFrame
  <2> QED
    BY <2>1, <2>2
<1>2. ASSUME NEW r \in Replicas, SpawnOne(r)
      PROVE  active'[x] = Taken(x)' /\ IncMatched(x)'
  <2> USE <1>2 DEF SpawnOne
  <2>1. /\ SessionHolds(x)' = SessionHolds(x) /\ ReservedHolds(x)' = ReservedHolds(x)
        /\ EndingHolds(x)' = EndingHolds(x) /\ (IncMatched(x) => IncMatched(x)')
    BY DEF SessionHolds, IncPending, ReservedHolds, EndingHolds, IncMatched
  <2>2. CASE x = r
    <3>1. SessionHolds(x) = {} /\ ReservedHolds(x) = {} /\ EndingHolds(x) = {}
      BY <2>2 DEF SessionHolds, ReservedHolds, EndingHolds
    <3>2. Taken(x)' = 0
      BY <2>1, <3>1, FS_EmptySet DEF Taken
    <3>3. IncMatched(x)
      BY <2>2 DEF IncMatched
    <3> QED
      BY <2>1, <2>2, <3>2, <3>3
  <2>3. CASE x # r
    <3>1. Serving(x) /\ x \notin drifted /\ active'[x] = active[x]
      BY <2>3 DEF Serving
    <3> QED
      BY <2>1, <3>1, LedgerFrame
  <2> QED
    BY <2>2, <2>3
<1> QED
  BY <1>1, <1>2

(* touch_or_register of an unknown session: the holder of a reserved seat  *)
(* changes from the reservation to the session; an unreserved one holds    *)
(* nothing until its increment.                                            *)
LEMMA RegisterLedger ==
    ASSUME TypeOK, Links, Ledger, NEW q \in Requests, Register(q)
    PROVE  Ledger'
<1> SUFFICES ASSUME NEW x \in Replicas, Serving(x)', x \notin drifted'
             PROVE  active'[x] = Taken(x)' /\ IncMatched(x)'
  BY DEF Ledger
<1> USE DEF TypeOK, RegistryTypeOK, SessionTypeOK, RequestTypeOK, TaskTypeOK,
            ReqSteps, Links, SessionLinks, HandlerLinks, ReservationLinks,
            Register, regVars, bgVars
<1>1. Serving(x) /\ x \notin drifted /\ active'[x] = active[x]
  BY DEF Serving
<1>2. active[x] = Taken(x) /\ IncMatched(x)
  BY <1>1 DEF Ledger
<1>3. EndingHolds(x)' = EndingHolds(x)
  BY DEF EndingHolds
<1>4. CASE reserved[q] /\ bound[sid[q]] = x
  <2>1. /\ SessionHolds(x)' = SessionHolds(x) \cup {sid[q]}
        /\ sid[q] \notin SessionHolds(x)
    BY <1>4 DEF SessionHolds, IncPending
  <2>2. ReservedHolds(x)' = ReservedHolds(x) \ {q} /\ q \in ReservedHolds(x)
    BY <1>4 DEF ReservedHolds
  <2>3. Cardinality(SessionHolds(x)') = Cardinality(SessionHolds(x)) + 1
    BY <2>1, OneMore, HoldersCounted
  <2>4. Cardinality(ReservedHolds(x)') = Cardinality(ReservedHolds(x)) - 1
    BY <2>2, OneLess, HoldersCounted
  <2>5. IncMatched(x)'
    BY <1>2, <1>4 DEF IncMatched
  <2> QED
    BY <1>1, <1>2, <1>3, <2>3, <2>4, <2>5, HoldersCounted DEF Taken
<1>5. CASE ~(reserved[q] /\ bound[sid[q]] = x)
  <2>1. SessionHolds(x)' = SessionHolds(x)
    BY <1>5 DEF SessionHolds, IncPending
  <2>2. ReservedHolds(x)' = ReservedHolds(x)
    BY <1>5 DEF ReservedHolds
  <2>3. IncMatched(x)'
    BY <1>2, <1>5 DEF IncMatched
  <2> QED
    BY <1>1, <1>3, <2>1, <2>2, <2>3, LedgerFrame
<1> QED
  BY <1>4, <1>5

(* The late increment of an unreserved session, and a handler dropped      *)
(* before it: the one makes the session a holder, the other marks the row. *)
LEMMA IncrementLedger ==
    ASSUME TypeOK, Links, Ledger, NEW q \in Requests, IncSessions(q) \/ CancelInc(q)
    PROVE  Ledger'
<1> SUFFICES ASSUME NEW x \in Replicas, Serving(x)', x \notin drifted'
             PROVE  active'[x] = Taken(x)' /\ IncMatched(x)'
  BY DEF Ledger
<1> USE DEF TypeOK, RegistryTypeOK, SessionTypeOK, RequestTypeOK, TaskTypeOK,
            ReqSteps, Links, SessionLinks, HandlerLinks, IncSessions, CancelInc,
            Done, regVars, sessVars, bgVars
<1>1. Serving(x) /\ x \notin drifted
  BY DEF Serving
<1>2. active[x] = Taken(x) /\ IncMatched(x)
  BY <1>1 DEF Ledger
<1>3. EndingHolds(x)' = EndingHolds(x)
  BY DEF EndingHolds
<1>4. ReservedHolds(x)' = ReservedHolds(x)
  BY DEF ReservedHolds
<1>5. IncMatched(x)'
  BY <1>2 DEF IncMatched
<1>6. CASE bound[sid[q]] = x
  <2>1. IncSessions(q)
    BY <1>6
  <2>2. tracked[sid[q]] = x /\ \A p \in Requests :
            pc[p] = "inc" /\ sid[p] = sid[q] => p = q
    BY <1>2, <1>6, <2>1 DEF IncMatched
  <2>3. /\ SessionHolds(x)' = SessionHolds(x) \cup {sid[q]}
        /\ sid[q] \notin SessionHolds(x)
    BY <2>1, <2>2 DEF SessionHolds, IncPending
  <2>4. Cardinality(SessionHolds(x)') = Cardinality(SessionHolds(x)) + 1
    BY <2>3, OneMore, HoldersCounted
  <2>5. active'[x] = active[x] + 1
    BY <1>1, <1>6, <2>1 DEF inc_sessions, Rows, Serving
  <2> QED
    BY <1>2, <1>3, <1>4, <1>5, <2>4, <2>5, HoldersCounted DEF Taken
<1>7. CASE bound[sid[q]] # x
  <2>1. SessionHolds(x)' = SessionHolds(x)
    BY <1>7 DEF SessionHolds, IncPending
  <2>2. active'[x] = active[x]
    BY <1>7 DEF inc_sessions
  <2> QED
    BY <1>1, <1>3, <1>4, <1>5, <2>1, <2>2, LedgerFrame
<1> QED
  BY <1>6, <1>7

(* Removing an entry of the map: its session stops holding a seat, or its  *)
(* row is marked because the session did not hold one yet.                 *)
LEMMA UnregisterHolds ==
    ASSUME TypeOK, Links, NEW s \in Sids, tracked[s] # NoReplica, Unregister(s),
           UNCHANGED <<pc, sid, bound>>, NEW x \in Replicas, x \notin drifted',
           IncMatched(x)
    PROVE  /\ x \notin drifted /\ IncMatched(x)'
           /\ IF bound[s] = x
              THEN s \in SessionHolds(x) /\ SessionHolds(x)' = SessionHolds(x) \ {s}
              ELSE SessionHolds(x)' = SessionHolds(x)
<1> USE DEF TypeOK, SessionTypeOK, RequestTypeOK, Links, SessionLinks, Unregister
<1>1. x \notin drifted
  OBVIOUS
<1>2. tracked[s] = bound[s] /\ (bound[s] = x => ~IncPending(s))
  OBVIOUS
<1>3. IncMatched(x)'
  BY <1>2 DEF IncMatched, IncPending
<1>4. IF bound[s] = x
      THEN s \in SessionHolds(x) /\ SessionHolds(x)' = SessionHolds(x) \ {s}
      ELSE SessionHolds(x)' = SessionHolds(x)
  BY <1>2 DEF SessionHolds, IncPending
<1> QED
  BY <1>1, <1>3, <1>4

(* One eviction of the sweep.                                              *)
LEMMA EvictLedger ==
    ASSUME TypeOK, Links, Ledger, NEW s \in Sids, SweepEvict(s)
    PROVE  Ledger'
<1> SUFFICES ASSUME NEW x \in Replicas, Serving(x)', x \notin drifted'
             PROVE  active'[x] = Taken(x)' /\ IncMatched(x)'
  BY DEF Ledger
<1> USE DEF SweepEvict, reqVars
<1>1. Serving(x)
  BY DEF Serving
<1>2. ReservedHolds(x)' = ReservedHolds(x) /\ EndingHolds(x)' = EndingHolds(x)
  BY DEF ReservedHolds, EndingHolds
<1>3. CASE tracked[s] = NoReplica
  <2>1. x \notin drifted /\ active'[x] = active[x]
    BY <1>3
  <2>2. SessionHolds(x)' = SessionHolds(x) /\ (IncMatched(x) => IncMatched(x)')
    BY <1>3 DEF SessionHolds, IncPending, IncMatched
  <2> QED
    BY <1>1, <1>2, <2>1, <2>2, LedgerFrame
<1>4. CASE tracked[s] # NoReplica
  <2>1. x \notin drifted
    BY <1>4 DEF Unregister
  <2>2. active[x] = Taken(x) /\ IncMatched(x)
    BY <1>1, <2>1 DEF Ledger
  <2>3. /\ IncMatched(x)'
        /\ IF bound[s] = x
           THEN s \in SessionHolds(x) /\ SessionHolds(x)' = SessionHolds(x) \ {s}
           ELSE SessionHolds(x)' = SessionHolds(x)
    BY <1>4, <2>2, UnregisterHolds
  <2>4. CASE bound[s] = x
    <3>1. /\ Cardinality(SessionHolds(x)) \in Nat \ {0}
          /\ Cardinality(SessionHolds(x)') = Cardinality(SessionHolds(x)) - 1
      BY <2>3, <2>4, OneLess, HoldersCounted
    <3>2. active[x] > 0
      BY <2>2, <3>1, HoldersCounted DEF Taken
    <3>3. active'[x] = active[x] - 1
      BY <1>1, <1>4, <2>4, <3>2
      DEF dec_sessions, Rows, Serving, TypeOK, RegistryTypeOK
    <3> QED
      BY <1>2, <2>2, <2>3, <3>1, <3>3, HoldersCounted DEF Taken
  <2>5. CASE bound[s] # x
    <3>1. active'[x] = active[x]
      BY <1>4, <2>5 DEF dec_sessions, TypeOK, RegistryTypeOK
    <3> QED
      BY <1>1, <1>2, <2>1, <2>3, <2>5, <3>1, LedgerFrame
  <2> QED
    BY <2>4, <2>5
<1> QED
  BY <1>3, <1>4

(* stop-on-logout: the seat passes from the session to the handler, and    *)
(* from the handler back to the row, unless the handler is dropped.        *)
LEMMA LogoutLedger ==
    ASSUME TypeOK, Links, Ledger, NEW l \in Logouts, LogoutStep(l)
    PROVE  Ledger'
<1> SUFFICES ASSUME NEW x \in Replicas, Serving(x)', x \notin drifted'
             PROVE  active'[x] = Taken(x)' /\ IncMatched(x)'
  BY DEF Ledger
<1> USE DEF TypeOK, RegistryTypeOK, SessionTypeOK, TaskTypeOK, Links, SessionLinks,
            HandlerLinks, regVars, sessVars, reqVars
<1>1. ASSUME NEW s \in Sids, EndSession(l, s)
      PROVE  active'[x] = Taken(x)' /\ IncMatched(x)'
  <2> USE <1>1 DEF EndSession
  <2>1. Serving(x) /\ x \notin drifted /\ active'[x] = active[x]
    BY DEF Serving, Unregister
  <2>2. active[x] = Taken(x) /\ IncMatched(x)
    BY <2>1 DEF Ledger
  <2>3. /\ IncMatched(x)'
        /\ IF bound[s] = x
           THEN s \in SessionHolds(x) /\ SessionHolds(x)' = SessionHolds(x) \ {s}
           ELSE SessionHolds(x)' = SessionHolds(x)
    BY <2>2, UnregisterHolds
  <2>4. ReservedHolds(x)' = ReservedHolds(x)
    BY DEF ReservedHolds
  <2>5. CASE bound[s] = x
    <3>1. EndingHolds(x)' = EndingHolds(x) \cup {l} /\ l \notin EndingHolds(x)
      BY <2>5 DEF EndingHolds
    <3>2. Cardinality(EndingHolds(x)') = Cardinality(EndingHolds(x)) + 1
      BY <3>1, OneMore, HoldersCounted
    <3>3. Cardinality(SessionHolds(x)') = Cardinality(SessionHolds(x)) - 1
      BY <2>3, <2>5, OneLess, HoldersCounted
    <3> QED
      BY <2>1, <2>2, <2>3, <2>4, <3>2, <3>3, HoldersCounted DEF Taken
  <2>6. CASE bound[s] # x
    <3>1. EndingHolds(x)' = EndingHolds(x)
      BY <2>6 DEF EndingHolds
    <3> QED
      BY <2>1, <2>3, <2>4, <2>6, <3>1, LedgerFrame
  <2> QED
    BY <2>5, <2>6
<1>2. ASSUME EndSessionDec(l) \/ CancelLogout(l)
      PROVE  active'[x] = Taken(x)' /\ IncMatched(x)'
  <2> USE <1>2 DEF EndSessionDec, CancelLogout
  <2>1. Serving(x) /\ x \notin drifted
    BY DEF Serving
  <2>2. active[x] = Taken(x) /\ IncMatched(x)
    BY <2>1 DEF Ledger
  <2>3. /\ SessionHolds(x)' = SessionHolds(x) /\ ReservedHolds(x)' = ReservedHolds(x)
        /\ IncMatched(x)'
    BY <2>2 DEF SessionHolds, IncPending, ReservedHolds, IncMatched
  <2>4. CASE bound[ending[l]] = x
    <3>1. EndSessionDec(l)
      BY <2>4
    <3>2. EndingHolds(x)' = EndingHolds(x) \ {l} /\ l \in EndingHolds(x)
      BY <2>4, <3>1 DEF EndingHolds
    <3>3. /\ Cardinality(EndingHolds(x)) \in Nat \ {0}
          /\ Cardinality(EndingHolds(x)') = Cardinality(EndingHolds(x)) - 1
      BY <3>2, OneLess, HoldersCounted
    <3>4. active[x] > 0
      BY <2>2, <3>3, HoldersCounted DEF Taken
    <3>5. active'[x] = active[x] - 1
      BY <2>1, <2>4, <3>1, <3>4 DEF dec_sessions, Rows, Serving
    <3> QED
      BY <2>2, <2>3, <3>3, <3>5, HoldersCounted DEF Taken
  <2>5. CASE bound[ending[l]] # x
    <3>1. EndingHolds(x)' = EndingHolds(x)
      BY <2>5 DEF EndingHolds
    <3>2. active'[x] = active[x]
      BY <2>5 DEF dec_sessions
    <3> QED
      BY <2>1, <2>3, <3>1, <3>2, LedgerFrame
  <2> QED
    BY <2>4, <2>5
<1> QED
  BY <1>1, <1>2 DEF LogoutStep

(* A row leaves the pool, its sessions are forgotten, or it comes back: it *)
(* is trusted afterwards only if nothing was lost on the way.              *)
LEMMA ReaperLedger ==
    ASSUME TypeOK, Links, Ledger,
           (\E p \in Reapers : ReaperStep(p)) \/ (\E r \in Replicas : Readopt(r))
    PROVE  Ledger'
<1> SUFFICES ASSUME NEW x \in Replicas, Serving(x)', x \notin drifted'
             PROVE  active'[x] = Taken(x)' /\ IncMatched(x)'
  BY DEF Ledger
<1> USE DEF TypeOK, RegistryTypeOK, SessionTypeOK, Links, SessionLinks,
            regVars, sessVars, reqVars, bgVars
<1>1. ASSUME NEW p \in Reapers, NEW r \in Replicas,
             CleanupReplica(p, r) \/ MarkRestarting(p, r)
      PROVE  active'[x] = Taken(x)' /\ IncMatched(x)'
  <2> USE <1>1 DEF CleanupReplica, MarkRestarting
  <2>1. Serving(x) /\ x \notin drifted /\ active'[x] = active[x]
    BY DEF Serving
  <2>2. /\ SessionHolds(x)' = SessionHolds(x) /\ ReservedHolds(x)' = ReservedHolds(x)
        /\ EndingHolds(x)' = EndingHolds(x) /\ (IncMatched(x) => IncMatched(x)')
    BY DEF SessionHolds, IncPending, ReservedHolds, EndingHolds, IncMatched
  <2> QED
    BY <2>1, <2>2, LedgerFrame
<1>2. ASSUME NEW p \in Reapers, DropReplica(p)
      PROVE  active'[x] = Taken(x)' /\ IncMatched(x)'
  <2> USE <1>2 DEF DropReplica
  <2>1. Serving(x) /\ x \notin drifted /\ active'[x] = active[x]
    BY DEF Serving
  <2>2. \A s \in Sids : tracked[s] = x => tracked'[s] = x
    BY <2>1
  <2>3. \A s \in Sids : tracked'[s] = x => tracked[s] = x
    OBVIOUS
  <2>4. SessionHolds(x)' = SessionHolds(x)
    BY <2>2, <2>3 DEF SessionHolds, IncPending
  <2>5. ReservedHolds(x)' = ReservedHolds(x) /\ EndingHolds(x)' = EndingHolds(x)
    BY DEF ReservedHolds, EndingHolds
  <2>6. IncMatched(x) => IncMatched(x)'
    BY <2>2 DEF IncMatched, HandlerLinks
  <2> QED
    BY <2>1, <2>4, <2>5, <2>6, LedgerFrame
<1>3. ASSUME NEW r \in Replicas, Readopt(r)
      PROVE  active'[x] = Taken(x)' /\ IncMatched(x)'
  <2> USE <1>3 DEF Readopt
  <2>1. /\ SessionHolds(x)' = SessionHolds(x) /\ ReservedHolds(x)' = ReservedHolds(x)
        /\ EndingHolds(x)' = EndingHolds(x) /\ (IncMatched(x) => IncMatched(x)')
    BY DEF SessionHolds, IncPending, ReservedHolds, EndingHolds, IncMatched
  <2>2. CASE x = r
    <3>1. Taken(x) = 0 /\ IncMatched(x) /\ active'[x] = 0
      BY <2>2
    <3> QED
      BY <2>1, <3>1 DEF Taken
  <2>3. CASE x # r
    <3>1. Serving(x) /\ x \notin drifted /\ active'[x] = active[x]
      BY <2>3 DEF Serving
    <3> QED
      BY <2>1, <3>1, LedgerFrame
  <2> QED
    BY <2>2, <2>3
<1> QED
  BY <1>1, <1>2, <1>3 DEF ReaperStep

(* Every step keeps the ledger.                                            *)
LEMMA NextLedger == TypeOK /\ Links /\ Ledger /\ Next => Ledger'
<1> SUFFICES ASSUME TypeOK, Links, Ledger, Next PROVE Ledger'
  OBVIOUS
<1>1. ASSUME NEW q \in Requests, NEW s \in Sids, NEW r \in Replicas,
             PickAccepting(q, s, r) \/ PickStarting(q, s, r) \/ PickOverload(q, s, r)
      PROVE  Ledger'
  <2>1. r \in Rows /\ FreshRequest(q, s) /\ Reserve(q, s, r)
    BY <1>1 DEF PickAccepting, PickStarting, PickOverload, is_accepting,
                StartingSeat, Rows
  <2> QED
    BY <2>1, ReserveLedger
<1>2. ASSUME NEW q \in Requests, RequestStep(q)
      PROVE  Ledger'
  BY <1>1, <1>2, QuietLedger, NewRowLedger, RegisterLedger, IncrementLedger
  DEF RequestStep
<1>3. ASSUME SweeperStep PROVE Ledger'
  BY <1>3, QuietLedger, EvictLedger DEF SweeperStep
<1> QED
  BY <1>2, <1>3, QuietLedger, NewRowLedger, LogoutLedger, ReaperLedger DEF Next

-----------------------------------------------------------------------------
(* The theorems.                                                           *)

(* A step that changes nothing keeps the invariant.                        *)
LEMMA IInvStutter == IInv /\ UNCHANGED vars => IInv'
<1> SUFFICES ASSUME IInv, UNCHANGED vars PROVE IInv'
  OBVIOUS
<1> USE DEF IInv, vars, regVars, sessVars, reqVars, bgVars
<1>1. TypeOK'
  BY DEF TypeOK, RegistryTypeOK, SessionTypeOK, RequestTypeOK, TaskTypeOK
<1>2. Links'
  BY DEF Links, RowsMinted, SessionLinks, HandlerLinks, SpawnLinks,
         ReservationLinks
<1>3. ASSUME NEW x \in Replicas, Serving(x)', x \notin drifted'
      PROVE  active'[x] = Taken(x)' /\ IncMatched(x)'
  <2>1. Serving(x) /\ x \notin drifted /\ active'[x] = active[x]
    BY <1>3 DEF Serving
  <2>2. SessionHolds(x)' = SessionHolds(x)
    BY DEF SessionHolds, IncPending
  <2>3. ReservedHolds(x)' = ReservedHolds(x) /\ EndingHolds(x)' = EndingHolds(x)
    BY DEF ReservedHolds, EndingHolds
  <2>4. IncMatched(x) => IncMatched(x)'
    BY DEF IncMatched
  <2> QED
    BY <2>1, <2>2, <2>3, <2>4, LedgerFrame
<1> QED
  BY <1>1, <1>2, <1>3 DEF Ledger

(* The counters, the session map and the links between them always satisfy *)
(* the inductive invariant.                                                *)
THEOREM Invariance == Spec => []IInv
<1>1. Init => IInv
  BY InitTypeOK, InitLinks, InitLedger DEF IInv
<1>2. IInv /\ [Next]_vars => IInv'
  BY NextTypeOK, NextLinks, NextLedger, IInvStutter DEF IInv
<1> QED
  BY <1>1, <1>2, PTL DEF Spec

(* No counter of the registry ever goes below zero, whatever the handlers, *)
(* the sweeper and the reapers do.                                         *)
THEOREM TypeCorrect == Spec => []TypeOK
<1>1. IInv => TypeOK
  BY DEF IInv
<1> QED
  BY <1>1, Invariance, PTL

(* sessions_active of every serving row equals the seats held, except on   *)
(* the rows a lost increment, a lost decrement or a re-adoption marked.    *)
THEOREM SeatsAccounted == Spec => []SeatLedger
<1>1. IInv => SeatLedger
  BY DEF IInv, Ledger, SeatLedger
<1> QED
  BY <1>1, Invariance, PTL

(* A step that raises a trusted counter above the seats is an increment of *)
(* a returning visitor or happens at max-replicas.                         *)
LEMMA RaiseAboveSeats ==
    ASSUME TypeOK, Next, NEW x \in Replicas, Serving(x),
           active'[x] > active[x], active'[x] > Seats
    PROVE  AtMax \/ \E q \in Requests : pc[q] = "inc" /\ pc'[q] = "forward"
<1> USE DEF TypeOK, RegistryTypeOK, RequestTypeOK, regVars
<1>1. ASSUME NEW q \in Requests, NEW s \in Sids, NEW r \in Replicas,
             PickAccepting(q, s, r) \/ PickStarting(q, s, r)
      PROVE  FALSE
  BY <1>1 DEF PickAccepting, PickStarting, Reserve, inc_sessions, is_accepting,
              StartingSeat, available_seats
<1>2. ASSUME NEW q \in Requests, NEW s \in Sids, NEW r \in Replicas,
             PickOverload(q, s, r)
      PROVE  AtMax
  BY <1>2 DEF PickOverload
<1>3. ASSUME NEW q \in Requests, NEW s \in Sids, SpawnAdd(q, s)
      PROVE  FALSE
  BY <1>3 DEF SpawnAdd
<1>4. ASSUME NEW q \in Requests, IncSessions(q)
      PROVE  pc[q] = "inc" /\ pc'[q] = "forward"
  BY <1>4 DEF IncSessions
<1>5. ASSUME NEW q \in Requests,
             \/ (\E s \in Sids : StickyVisit(q, s))
             \/ (\E r \in Replicas : StartSpawn(q, r))
             \/ SpawnLost(q) \/ Touch(q) \/ Register(q) \/ CancelInc(q) \/ Respond(q)
      PROVE  FALSE
  BY <1>5 DEF StickyVisit, StartSpawn, SpawnLost, Touch, Register, CancelInc, Respond
<1>6. ASSUME SweeperStep \/ \E s \in Sids : Expire(s)
      PROVE  FALSE
  BY <1>6 DEF SweeperStep, SweepCollect, SweepLock, SweepEvict, Expire, dec_sessions
<1>7. ASSUME NEW l \in Logouts, LogoutStep(l)
      PROVE  FALSE
  BY <1>7 DEF LogoutStep, EndSession, EndSessionDec, CancelLogout, dec_sessions
<1>8. ASSUME NEW p \in Reapers, ReaperStep(p)
      PROVE  FALSE
  BY <1>8 DEF ReaperStep, CleanupReplica, MarkRestarting, DropReplica
<1>9. ASSUME NEW r \in Replicas, Readopt(r) \/ SpawnOne(r)
      PROVE  FALSE
  BY <1>9 DEF Readopt, SpawnOne
<1> QED
  BY <1>1, <1>2, <1>3, <1>4, <1>5, <1>6, <1>7, <1>8, <1>9 DEF Next, RequestStep

(* Only a row that leaves the pool stops serving; its holders stay.        *)
LEMMA StopServing ==
    ASSUME TypeOK, Next, NEW x \in Replicas, Serving(x), ~Serving(x)'
    PROVE  Taken(x)' = Taken(x)
<1> USE DEF Serving, TypeOK, RegistryTypeOK, regVars
<1>a. ASSUME NEW q \in Requests, RequestStep(q) PROVE FALSE
  BY <1>a DEF RequestStep, StickyVisit, PickAccepting, PickStarting, PickOverload,
              Reserve, StartSpawn, SpawnAdd, SpawnLost, Touch, Register,
              IncSessions, CancelInc, Respond
<1>b. ASSUME SweeperStep \/ \E s \in Sids : Expire(s) PROVE FALSE
  BY <1>b DEF SweeperStep, SweepCollect, SweepLock, SweepEvict, Expire
<1>c. ASSUME NEW l \in Logouts, LogoutStep(l) PROVE FALSE
  BY <1>c DEF LogoutStep, EndSession, EndSessionDec, CancelLogout
<1>d. ASSUME NEW r \in Replicas, Readopt(r) \/ SpawnOne(r) PROVE FALSE
  BY <1>d DEF Readopt, SpawnOne
<1>e. PICK p \in Reapers : ReaperStep(p)
  BY <1>a, <1>b, <1>c, <1>d DEF Next
<1>1. PICK r \in Replicas : CleanupReplica(p, r) \/ MarkRestarting(p, r)
  BY <1>e DEF ReaperStep, DropReplica
<1>2. /\ SessionHolds(x)' = SessionHolds(x) /\ ReservedHolds(x)' = ReservedHolds(x)
      /\ EndingHolds(x)' = EndingHolds(x)
  BY <1>1 DEF CleanupReplica, MarkRestarting, sessVars, reqVars, SessionHolds,
              IncPending, ReservedHolds, EndingHolds
<1> QED
  BY <1>2 DEF Taken

(* On a row whose count is right, only the overload branch at max-replicas *)
(* and a returning sticky visitor take the seats held above the seats.     *)
THEOREM SeatsRespected == Spec => AdmissionRespectsSeats
<1>1. ASSUME IInv, IInv', Next PROVE AdmissionStep
  <2> SUFFICES ASSUME NEW r \in Replicas, Serving(r), r \notin drifted,
                      r \notin drifted', Taken(r)' > Taken(r), Taken(r)' > Seats
               PROVE  AtMax \/ \E q \in Requests : pc[q] = "inc" /\ pc'[q] = "forward"
    BY DEF AdmissionStep
  <2>1. Taken(r) = active[r] /\ active[r] \in Nat
    BY <1>1 DEF IInv, Ledger, TypeOK, RegistryTypeOK
  <2>2. CASE Serving(r)'
    <3>1. Taken(r)' = active'[r]
      BY <1>1, <2>2 DEF IInv, Ledger
    <3> QED
      BY <1>1, <2>1, <3>1, RaiseAboveSeats DEF IInv
  <2>3. CASE ~Serving(r)'
    <3>1. Taken(r)' = Taken(r)
      BY <1>1, <2>3, StopServing DEF IInv
    <3> QED
      BY <2>1, <3>1
  <2> QED
    BY <2>2, <2>3
<1>2. IInv /\ IInv' /\ [Next]_vars => [AdmissionStep]_vars
  BY <1>1
<1> QED
  BY <1>2, Invariance, PTL DEF Spec, AdmissionRespectsSeats

-----------------------------------------------------------------------------
(* Nodes that share their sessions.                                        *)

(* What a task of the shared store has in hand.                            *)
SharedSteps == {"idle", "touch", "count", "set", "took", "recount", "reset", "group", "store"}
SharedJobs ==
    [pc : SharedSteps, node : Members \cup {None}, sess : SharedSids \cup {None},
     rep : SharedReplicas \cup {None}, reserved : BOOLEAN, cnt : [SharedReplicas -> Nat],
     raced : SUBSET SharedReplicas, mine : Nat, gains : Nat]

SharedTypes ==
    /\ table \in [SharedSids -> S!Row \cup {None}]
    /\ counted \in [Members -> [SharedReplicas -> Nat]] /\ len \in [Members -> Nat]
    /\ sharedCookie \in [SharedSids -> SharedReplicas \cup {None}] /\ leader \in Members
    /\ excused \in [Members -> SUBSET SharedReplicas] /\ missed \in [Members -> Nat]
    /\ job \in [S!Tasks -> SharedJobs]

(* A task knows its node from its first step to its last, a request with a *)
(* statement under way its replica; a sweeper works on its own node.       *)
TaskLink(x, j) ==
    /\ j.pc # "idle" => j.node \in Members
    /\ j.pc = "touch" => j.sess \in SharedSids
    /\ x \in Members => j.node = x /\ j.pc \in {"idle", "group", "set", "store"}
    /\ x \in SharedRequests => j.pc # "group"
    /\ x \in SharedRequests /\ j.pc \in {"touch", "count", "set", "recount", "reset"}
         => j.rep \in SharedReplicas
TaskLinks == \A x \in S!Tasks : TaskLink(x, job[x])

OwnedRows(n)    == {s \in S!Rows : table[s].owner = n}
RowsBy(n, r)    == {s \in S!Rows : table[s].rep = r /\ table[s].by = n}
Waiting(n)      == S!At(n, {"count", "set", "took"}) \ Members
Uncounted(n, r) == {x \in S!At(n, {"count", "set"}) \ Members :
                       job[x].rep = r /\ ~job[x].reserved}

DrainHolds ==
    \A n \in Members :
        Cardinality(OwnedRows(n)) <= len[n] + Cardinality(Waiting(n)) + missed[n]

(* The number a task is about to store as its node's own sessions already  *)
(* covers what the drain must see.                                         *)
StoreHolds ==
    \A x \in S!Tasks, n \in Members : job[x].pc = "store" /\ job[x].node = n =>
        Cardinality(OwnedRows(n)) <= job[x].mine + Cardinality(Waiting(n)) + job[x].gains

SeatsHold ==
    \A n \in Members, r \in SharedReplicas :
        r \in excused[n] \/
        Cardinality(S!Outstanding(n, r)) + Cardinality(RowsBy(n, r))
          <= counted[n][r] + Cardinality(Uncounted(n, r))

(* A count that no reservation has raced with covers the rows of its node, *)
(* and nothing else of the node's is outstanding.                          *)
Counts(x, r) == job[x].pc \in {"set", "reset"} /\ (x \in Members \/ job[x].rep = r)
CountHolds ==
    \A x \in S!Tasks, r \in SharedReplicas, n \in Members :
        Counts(x, r) /\ job[x].node = n /\ r \notin job[x].raced =>
            /\ S!Outstanding(n, r) = {}
            /\ Cardinality(RowsBy(n, r)) <= job[x].cnt[r]

SharedInv == SharedTypes /\ TaskLinks /\ DrainHolds /\ StoreHolds /\ SeatsHold /\ CountHolds

-----------------------------------------------------------------------------
(* Counting in the shared store.                                           *)

(* SharedSessions counts with the Cardinality of the library.              *)
LEMMA SharedCardinality == ASSUME NEW T PROVE S!Cardinality(T) = Cardinality(T)
BY Zenon DEF S!Cardinality, Cardinality

(* Sets of shared sessions and of tasks are finite.                        *)
LEMMA SharedFinite ==
    /\ IsFiniteSet(SharedSids) /\ IsFiniteSet(S!Tasks)
    /\ \A T \in SUBSET SharedSids : IsFiniteSet(T) /\ Cardinality(T) \in Nat
    /\ \A T \in SUBSET S!Tasks : IsFiniteSet(T) /\ Cardinality(T) \in Nat
<1>1. IsFiniteSet(SharedSids) /\ IsFiniteSet(S!Tasks)
  BY SharedAssumption, FS_Union DEF S!Tasks
<1> QED
  BY <1>1, SubsetCardinality

Bit(b) == IF b THEN 1 ELSE 0

(* A set of which at most one element changes.                             *)
LEMMA OneChanges ==
    ASSUME NEW U, IsFiniteSet(U), NEW T \in SUBSET U, NEW V \in SUBSET U, NEW x,
           \A y : y # x => (y \in T <=> y \in V)
    PROVE  /\ Cardinality(T) \in Nat /\ Cardinality(V) \in Nat
           /\ Cardinality(V) = Cardinality(T) + Bit(x \in V) - Bit(x \in T)
<1>1. Cardinality(T) \in Nat /\ Cardinality(V) \in Nat
  BY SubsetCardinality
<1>2. CASE x \in T <=> x \in V
  <2>1. T = V
    BY <1>2
  <2> QED
    BY <1>1, <1>2, <2>1 DEF Bit
<1>3. CASE x \in T /\ x \notin V
  <2>1. V = T \ {x}
    BY <1>3
  <2>2. Cardinality(V) = Cardinality(T) - 1
    BY <1>3, <2>1, OneLess
  <2> QED
    BY <1>1, <1>3, <2>2 DEF Bit
<1>4. CASE x \notin T /\ x \in V
  <2>1. V = T \cup {x}
    BY <1>4
  <2>2. Cardinality(V) = Cardinality(T) + 1
    BY <1>4, <2>1, OneMore
  <2> QED
    BY <1>1, <1>4, <2>2 DEF Bit
<1> QED
  BY <1>2, <1>3, <1>4

(* A smaller set counts less.                                              *)
LEMMA FewerCounted ==
    ASSUME NEW U, IsFiniteSet(U), NEW T \in SUBSET U, NEW V \in SUBSET T
    PROVE  Cardinality(V) \in Nat /\ Cardinality(T) \in Nat /\ Cardinality(V) <= Cardinality(T)
BY SubsetCardinality, FS_Subset

(* What task x contributes to the numbers of node n, by its record j.      *)
Waits(x, j, n)    == x \notin Members /\ j.node = n /\ j.pc \in {"count", "set", "took"}
Reserves(j, n, r) == j.node = n /\ j.pc = "touch" /\ j.reserved /\ j.rep = r
Bumps(x, j, n, r) == /\ x \notin Members /\ j.node = n /\ j.pc \in {"count", "set"}
                     /\ j.rep = r /\ ~j.reserved

(* A step of task x leaves the others where they are: they only learn that *)
(* what they have read is out of date.                                     *)
Kept(j, k) ==
    /\ k.pc = j.pc /\ k.node = j.node /\ k.sess = j.sess /\ k.rep = j.rep
    /\ k.reserved = j.reserved /\ k.cnt = j.cnt /\ k.mine = j.mine
    /\ j.raced \subseteq k.raced /\ j.gains <= k.gains
OthersKept(x) == \A y \in S!Tasks \ {x} : Kept(job[y], job'[y])

(* The numbers that depend on tasks change by what x contributes.          *)
LEMMA TaskCounts ==
    ASSUME NEW x \in S!Tasks, OthersKept(x)
    PROVE  \A n, r :
             /\ Cardinality(Waiting(n)) \in Nat /\ Cardinality(Waiting(n)') \in Nat
             /\ Cardinality(Waiting(n)') =
                  Cardinality(Waiting(n)) + Bit(Waits(x, job'[x], n)) - Bit(Waits(x, job[x], n))
             /\ Cardinality(S!Outstanding(n, r)) \in Nat
             /\ Cardinality(S!Outstanding(n, r)') \in Nat
             /\ Cardinality(S!Outstanding(n, r)') =
                  Cardinality(S!Outstanding(n, r)) + Bit(Reserves(job'[x], n, r))
                    - Bit(Reserves(job[x], n, r))
             /\ Cardinality(Uncounted(n, r)) \in Nat /\ Cardinality(Uncounted(n, r)') \in Nat
             /\ Cardinality(Uncounted(n, r)') =
                  Cardinality(Uncounted(n, r)) + Bit(Bumps(x, job'[x], n, r))
                    - Bit(Bumps(x, job[x], n, r))
<1> TAKE n, r
<1>1. /\ \A y \in S!Tasks : y \in Waiting(n) <=> Waits(y, job[y], n)
      /\ \A y \in S!Tasks : y \in Waiting(n)' <=> Waits(y, job'[y], n)
      /\ Waiting(n) \subseteq S!Tasks /\ Waiting(n)' \subseteq S!Tasks
  BY DEF Waiting, S!At, Waits
<1>2. /\ \A y \in S!Tasks : y \in S!Outstanding(n, r) <=> Reserves(job[y], n, r)
      /\ \A y \in S!Tasks : y \in S!Outstanding(n, r)' <=> Reserves(job'[y], n, r)
      /\ S!Outstanding(n, r) \subseteq S!Tasks /\ S!Outstanding(n, r)' \subseteq S!Tasks
  BY DEF S!Outstanding, S!At, Reserves
<1>3. /\ \A y \in S!Tasks : y \in Uncounted(n, r) <=> Bumps(y, job[y], n, r)
      /\ \A y \in S!Tasks : y \in Uncounted(n, r)' <=> Bumps(y, job'[y], n, r)
      /\ Uncounted(n, r) \subseteq S!Tasks /\ Uncounted(n, r)' \subseteq S!Tasks
  BY DEF Uncounted, S!At, Bumps
<1>4. \A y \in S!Tasks : y # x => /\ Waits(y, job'[y], n) <=> Waits(y, job[y], n)
                                  /\ Reserves(job'[y], n, r) <=> Reserves(job[y], n, r)
                                  /\ Bumps(y, job'[y], n, r) <=> Bumps(y, job[y], n, r)
  BY DEF OthersKept, Kept, Waits, Reserves, Bumps
<1>5. /\ \A y : y # x => (y \in Waiting(n) <=> y \in Waiting(n)')
      /\ \A y : y # x => (y \in S!Outstanding(n, r) <=> y \in S!Outstanding(n, r)')
      /\ \A y : y # x => (y \in Uncounted(n, r) <=> y \in Uncounted(n, r)')
  BY <1>1, <1>2, <1>3, <1>4
<1>6. /\ Bit(x \in Waiting(n)) = Bit(Waits(x, job[x], n))
      /\ Bit(x \in Waiting(n)') = Bit(Waits(x, job'[x], n))
      /\ Bit(x \in S!Outstanding(n, r)) = Bit(Reserves(job[x], n, r))
      /\ Bit(x \in S!Outstanding(n, r)') = Bit(Reserves(job'[x], n, r))
      /\ Bit(x \in Uncounted(n, r)) = Bit(Bumps(x, job[x], n, r))
      /\ Bit(x \in Uncounted(n, r)') = Bit(Bumps(x, job'[x], n, r))
  BY <1>1, <1>2, <1>3 DEF Bit
<1>7. /\ Cardinality(Waiting(n)) \in Nat /\ Cardinality(Waiting(n)') \in Nat
      /\ Cardinality(Waiting(n)') =
           Cardinality(Waiting(n)) + Bit(x \in Waiting(n)') - Bit(x \in Waiting(n))
  BY <1>1, <1>5, SharedFinite, OneChanges
<1>8. /\ Cardinality(S!Outstanding(n, r)) \in Nat /\ Cardinality(S!Outstanding(n, r)') \in Nat
      /\ Cardinality(S!Outstanding(n, r)') = Cardinality(S!Outstanding(n, r))
           + Bit(x \in S!Outstanding(n, r)') - Bit(x \in S!Outstanding(n, r))
  BY <1>2, <1>5, SharedFinite, OneChanges
<1>9. /\ Cardinality(Uncounted(n, r)) \in Nat /\ Cardinality(Uncounted(n, r)') \in Nat
      /\ Cardinality(Uncounted(n, r)') =
           Cardinality(Uncounted(n, r)) + Bit(x \in Uncounted(n, r)') - Bit(x \in Uncounted(n, r))
  BY <1>3, <1>5, SharedFinite, OneChanges
<1> QED
  BY <1>6, <1>7, <1>8, <1>9

(* The numbers that depend on rows, when one row is written.               *)
HasOwner(v, n)     == v # None /\ v.owner = n
MadeBy(v, n, r)    == v # None /\ v.rep = r /\ v.by = n

(* What one changed row does to the two counts of rows.                    *)
LEMMA RowCounts ==
    ASSUME NEW s \in SharedSids, NEW v, table \in [SharedSids -> S!Row \cup {None}],
           table' = [table EXCEPT ![s] = v]
    PROVE  \A n, r :
             /\ Cardinality(OwnedRows(n)) \in Nat /\ Cardinality(OwnedRows(n)') \in Nat
             /\ Cardinality(OwnedRows(n)') =
                  Cardinality(OwnedRows(n)) + Bit(HasOwner(v, n)) - Bit(HasOwner(table[s], n))
             /\ Cardinality(RowsBy(n, r)) \in Nat /\ Cardinality(RowsBy(n, r)') \in Nat
             /\ Cardinality(RowsBy(n, r)') =
                  Cardinality(RowsBy(n, r)) + Bit(MadeBy(v, n, r)) - Bit(MadeBy(table[s], n, r))
<1> TAKE n, r
<1>1. /\ \A t \in SharedSids : t \in OwnedRows(n) <=> HasOwner(table[t], n)
      /\ \A t \in SharedSids : t \in OwnedRows(n)' <=> HasOwner(table'[t], n)
      /\ OwnedRows(n) \subseteq SharedSids /\ OwnedRows(n)' \subseteq SharedSids
  BY DEF OwnedRows, S!Rows, HasOwner
<1>2. /\ \A t \in SharedSids : t \in RowsBy(n, r) <=> MadeBy(table[t], n, r)
      /\ \A t \in SharedSids : t \in RowsBy(n, r)' <=> MadeBy(table'[t], n, r)
      /\ RowsBy(n, r) \subseteq SharedSids /\ RowsBy(n, r)' \subseteq SharedSids
  BY DEF RowsBy, S!Rows, MadeBy
<1>3. table'[s] = v /\ \A t \in SharedSids : t # s => table'[t] = table[t]
  OBVIOUS
<1>4. /\ \A t : t # s => (t \in OwnedRows(n) <=> t \in OwnedRows(n)')
      /\ \A t : t # s => (t \in RowsBy(n, r) <=> t \in RowsBy(n, r)')
  BY <1>1, <1>2, <1>3
<1>5. /\ Bit(s \in OwnedRows(n)) = Bit(HasOwner(table[s], n))
      /\ Bit(s \in OwnedRows(n)') = Bit(HasOwner(v, n))
      /\ Bit(s \in RowsBy(n, r)) = Bit(MadeBy(table[s], n, r))
      /\ Bit(s \in RowsBy(n, r)') = Bit(MadeBy(v, n, r))
  BY <1>1, <1>2, <1>3 DEF Bit
<1>6. /\ Cardinality(OwnedRows(n)) \in Nat /\ Cardinality(OwnedRows(n)') \in Nat
      /\ Cardinality(OwnedRows(n)') =
           Cardinality(OwnedRows(n)) + Bit(s \in OwnedRows(n)') - Bit(s \in OwnedRows(n))
  BY <1>1, <1>4, SharedFinite, OneChanges
<1>7. /\ Cardinality(RowsBy(n, r)) \in Nat /\ Cardinality(RowsBy(n, r)') \in Nat
      /\ Cardinality(RowsBy(n, r)') =
           Cardinality(RowsBy(n, r)) + Bit(s \in RowsBy(n, r)') - Bit(s \in RowsBy(n, r))
  BY <1>2, <1>4, SharedFinite, OneChanges
<1> QED
  BY <1>5, <1>6, <1>7

(* Rows that stay keep their owner, their replica and who made them.       *)
RowsStay ==
    \A s \in SharedSids :
        table'[s] # None => /\ table[s] # None /\ table'[s].owner = table[s].owner
                            /\ table'[s].rep = table[s].rep /\ table'[s].by = table[s].by

(* The numbers that depend on rows, when rows are only deleted.            *)
LEMMA RowsDeleted ==
    ASSUME RowsStay
    PROVE  \A n, r :
             /\ OwnedRows(n)' \subseteq OwnedRows(n) /\ RowsBy(n, r)' \subseteq RowsBy(n, r)
             /\ Cardinality(OwnedRows(n)) \in Nat /\ Cardinality(OwnedRows(n)') \in Nat
             /\ Cardinality(OwnedRows(n)') <= Cardinality(OwnedRows(n))
             /\ Cardinality(RowsBy(n, r)) \in Nat /\ Cardinality(RowsBy(n, r)') \in Nat
             /\ Cardinality(RowsBy(n, r)') <= Cardinality(RowsBy(n, r))
<1> TAKE n, r
<1>1. /\ OwnedRows(n)' \subseteq OwnedRows(n) /\ OwnedRows(n) \subseteq SharedSids
      /\ RowsBy(n, r)' \subseteq RowsBy(n, r) /\ RowsBy(n, r) \subseteq SharedSids
  BY DEF OwnedRows, RowsBy, S!Rows, RowsStay
<1> QED
  BY <1>1, SharedFinite, FewerCounted

-----------------------------------------------------------------------------
(* When a step keeps the invariant.                                        *)

(* d says on which nodes the step has given back a session that the drain  *)
(* of the node was waiting for as a task: a number has to grow for it.     *)
LEMMA DrainStep ==
    ASSUME SharedInv, SharedTypes', TaskLinks', NEW d \in [Members -> {0, 1}],
           \A n \in Members :
              /\ Cardinality(OwnedRows(n)) \in Nat /\ Cardinality(OwnedRows(n)') \in Nat
              /\ Cardinality(Waiting(n)) \in Nat /\ Cardinality(Waiting(n)') \in Nat
              /\ Cardinality(OwnedRows(n)') + Cardinality(Waiting(n))
                   <= Cardinality(OwnedRows(n)) + Cardinality(Waiting(n)') + d[n],
           \A n \in Members :
              \/ len[n] + missed[n] + d[n] <= len'[n] + missed'[n]
              \/ d[n] = 0 /\ \E y \in S!Tasks :
                    /\ job[y].pc = "store" /\ job[y].node = n
                    /\ len'[n] = job[y].mine /\ missed'[n] = job[y].gains,
           \A y \in S!Tasks, n \in Members : job'[y].pc = "store" /\ job'[y].node = n =>
              \/ /\ job[y].pc = "store" /\ job[y].node = n /\ job'[y].mine = job[y].mine
                 /\ job[y].gains + d[n] <= job'[y].gains
              \/ Cardinality(OwnedRows(n)') <= job'[y].mine
    PROVE  DrainHolds' /\ StoreHolds'
<1>1. /\ \A n \in Members : /\ len[n] \in Nat /\ missed[n] \in Nat /\ d[n] \in {0, 1}
                            /\ len'[n] \in Nat /\ missed'[n] \in Nat
      /\ \A y \in S!Tasks : /\ job[y].mine \in Nat /\ job[y].gains \in Nat
                            /\ job'[y].mine \in Nat /\ job'[y].gains \in Nat
  BY DEF SharedInv, SharedTypes, SharedJobs
<1>2. DrainHolds'
  <2>1. ASSUME NEW n \in Members
        PROVE  Cardinality(OwnedRows(n)') <= len'[n] + Cardinality(Waiting(n)') + missed'[n]
    <3>1. /\ len[n] \in Nat /\ missed[n] \in Nat /\ d[n] \in {0, 1}
          /\ len'[n] \in Nat /\ missed'[n] \in Nat
          /\ Cardinality(OwnedRows(n)) \in Nat /\ Cardinality(OwnedRows(n)') \in Nat
          /\ Cardinality(Waiting(n)) \in Nat /\ Cardinality(Waiting(n)') \in Nat
          /\ Cardinality(OwnedRows(n)') + Cardinality(Waiting(n))
               <= Cardinality(OwnedRows(n)) + Cardinality(Waiting(n)') + d[n]
      BY <1>1
    <3>2. CASE len[n] + missed[n] + d[n] <= len'[n] + missed'[n]
      <4>1. Cardinality(OwnedRows(n)) <= len[n] + Cardinality(Waiting(n)) + missed[n]
        BY DEF SharedInv, DrainHolds
      <4> QED
        BY <3>1, <3>2, <4>1
    <3>3. ASSUME d[n] = 0, NEW y \in S!Tasks, job[y].pc = "store", job[y].node = n,
                 len'[n] = job[y].mine, missed'[n] = job[y].gains
          PROVE  Cardinality(OwnedRows(n)') <= len'[n] + Cardinality(Waiting(n)') + missed'[n]
      <4>1. Cardinality(OwnedRows(n)) <= job[y].mine + Cardinality(Waiting(n)) + job[y].gains
        BY <3>3 DEF SharedInv, StoreHolds
      <4> QED
        BY <1>1, <3>1, <3>3, <4>1
    <3> QED
      BY <3>2, <3>3
  <2> QED
    BY <2>1 DEF DrainHolds
<1>3. StoreHolds'
  <2>1. ASSUME NEW y \in S!Tasks, NEW n \in Members, job'[y].pc = "store", job'[y].node = n
        PROVE  Cardinality(OwnedRows(n)')
                 <= job'[y].mine + Cardinality(Waiting(n)') + job'[y].gains
    <3>2. /\ d[n] \in {0, 1}
          /\ Cardinality(OwnedRows(n)) \in Nat /\ Cardinality(OwnedRows(n)') \in Nat
          /\ Cardinality(Waiting(n)) \in Nat /\ Cardinality(Waiting(n)') \in Nat
          /\ Cardinality(OwnedRows(n)') + Cardinality(Waiting(n))
               <= Cardinality(OwnedRows(n)) + Cardinality(Waiting(n)') + d[n]
      OBVIOUS
    <3>3. /\ job[y].mine \in Nat /\ job[y].gains \in Nat
          /\ job'[y].mine \in Nat /\ job'[y].gains \in Nat
      BY <1>1
    <3>4. CASE /\ job[y].pc = "store" /\ job[y].node = n /\ job'[y].mine = job[y].mine
               /\ job[y].gains + d[n] <= job'[y].gains
      <4>1. Cardinality(OwnedRows(n)) <= job[y].mine + Cardinality(Waiting(n)) + job[y].gains
        BY <3>4 DEF SharedInv, StoreHolds
      <4> QED
        BY <3>2, <3>3, <3>4, <4>1
    <3>5. CASE Cardinality(OwnedRows(n)') <= job'[y].mine
      BY <3>2, <3>3, <3>5
    <3> QED
      BY <2>1, <3>4, <3>5
  <2> QED
    BY <2>1 DEF StoreHolds
<1> QED
  BY <1>2, <1>3

(* The account of seats: on every node and replica the step keeps the      *)
(* balance, excuses it, or stores a count that covers the node's rows; and *)
(* a count that stays valid still covers what it covered.                  *)
LEMMA SeatStep ==
    ASSUME SharedInv, SharedTypes', TaskLinks',
           \A n \in Members, r \in SharedReplicas :
              /\ Cardinality(RowsBy(n, r)) \in Nat /\ Cardinality(RowsBy(n, r)') \in Nat
              /\ Cardinality(S!Outstanding(n, r)) \in Nat
              /\ Cardinality(S!Outstanding(n, r)') \in Nat
              /\ Cardinality(Uncounted(n, r)) \in Nat /\ Cardinality(Uncounted(n, r)') \in Nat,
           \A n \in Members, r \in SharedReplicas :
              \/ r \in excused'[n]
              \/ /\ r \notin excused[n]
                 /\ Cardinality(S!Outstanding(n, r)') + Cardinality(RowsBy(n, r)')
                      + counted[n][r] + Cardinality(Uncounted(n, r))
                    <= Cardinality(S!Outstanding(n, r)) + Cardinality(RowsBy(n, r))
                         + counted'[n][r] + Cardinality(Uncounted(n, r)')
              \/ /\ S!Outstanding(n, r)' = {}
                 /\ Cardinality(RowsBy(n, r)') <= counted'[n][r],
           \A y \in S!Tasks, r \in SharedReplicas, n \in Members :
              Counts(y, r)' /\ r \notin job'[y].raced /\ n = job'[y].node =>
              \/ /\ Counts(y, r) /\ r \notin job[y].raced
                 /\ n = job[y].node /\ job'[y].cnt[r] = job[y].cnt[r]
                 /\ S!Outstanding(n, r)' \subseteq S!Outstanding(n, r)
                 /\ Cardinality(RowsBy(n, r)') <= Cardinality(RowsBy(n, r))
              \/ /\ S!Outstanding(n, r)' = {}
                 /\ Cardinality(RowsBy(n, r)') <= job'[y].cnt[r]
    PROVE  SeatsHold' /\ CountHolds'
<1>1. SeatsHold'
  <2>1. ASSUME NEW n \in Members, NEW r \in SharedReplicas
        PROVE  r \in excused'[n] \/
                 Cardinality(S!Outstanding(n, r)') + Cardinality(RowsBy(n, r)')
                   <= counted'[n][r] + Cardinality(Uncounted(n, r)')
    <3>1. /\ Cardinality(RowsBy(n, r)) \in Nat /\ Cardinality(RowsBy(n, r)') \in Nat
          /\ Cardinality(S!Outstanding(n, r)) \in Nat
          /\ Cardinality(S!Outstanding(n, r)') \in Nat
          /\ Cardinality(Uncounted(n, r)) \in Nat /\ Cardinality(Uncounted(n, r)') \in Nat
      OBVIOUS
    <3>2. counted[n][r] \in Nat /\ counted'[n][r] \in Nat
      BY DEF SharedInv, SharedTypes
    <3>3. CASE /\ r \notin excused[n]
               /\ Cardinality(S!Outstanding(n, r)') + Cardinality(RowsBy(n, r)')
                    + counted[n][r] + Cardinality(Uncounted(n, r))
                  <= Cardinality(S!Outstanding(n, r)) + Cardinality(RowsBy(n, r))
                       + counted'[n][r] + Cardinality(Uncounted(n, r)')
      <4>1. Cardinality(S!Outstanding(n, r)) + Cardinality(RowsBy(n, r))
              <= counted[n][r] + Cardinality(Uncounted(n, r))
        BY <3>3 DEF SharedInv, SeatsHold
      <4> QED
        BY <3>1, <3>2, <3>3, <4>1
    <3>4. CASE S!Outstanding(n, r)' = {} /\ Cardinality(RowsBy(n, r)') <= counted'[n][r]
      <4>1. Cardinality(S!Outstanding(n, r)') = 0
        BY <3>4, FS_EmptySet
      <4> QED
        BY <3>1, <3>2, <3>4, <4>1
    <3> QED
      BY <3>3, <3>4
  <2> QED
    BY <2>1 DEF SeatsHold
<1>2. CountHolds'
  <2>1. ASSUME NEW y \in S!Tasks, NEW r \in SharedReplicas, NEW n \in Members,
               Counts(y, r)', job'[y].node = n, r \notin job'[y].raced
        PROVE  /\ S!Outstanding(n, r)' = {}
               /\ Cardinality(RowsBy(n, r)') <= job'[y].cnt[r]
    <3>2. Cardinality(RowsBy(n, r)) \in Nat /\ Cardinality(RowsBy(n, r)') \in Nat
      OBVIOUS
    <3>3. job[y].cnt[r] \in Nat /\ job'[y].cnt[r] \in Nat
      BY DEF SharedInv, SharedTypes, SharedJobs
    <3>4. CASE /\ Counts(y, r) /\ r \notin job[y].raced
               /\ n = job[y].node /\ job'[y].cnt[r] = job[y].cnt[r]
               /\ S!Outstanding(n, r)' \subseteq S!Outstanding(n, r)
               /\ Cardinality(RowsBy(n, r)') <= Cardinality(RowsBy(n, r))
      <4>1. S!Outstanding(n, r) = {} /\ Cardinality(RowsBy(n, r)) <= job[y].cnt[r]
        BY <3>4 DEF SharedInv, CountHolds
      <4> QED
        BY <3>2, <3>3, <3>4, <4>1
    <3> QED
      BY <2>1, <3>4
  <2> QED
    BY <2>1 DEF CountHolds
<1> QED
  BY <1>1, <1>2

-----------------------------------------------------------------------------
(* What a step does to the tasks.                                          *)

(* A task that is done contributes nothing and has nothing in hand.        *)
LEMMA NoJobFits ==
    ASSUME NEW x \in S!Tasks
    PROVE  /\ S!NoJob(x) \in SharedJobs /\ TaskLink(x, S!NoJob(x)) /\ S!NoJob(x).pc = "idle"
           /\ S!NoJob(x).cnt = [r \in SharedReplicas |-> 0] /\ S!NoJob(x).raced = {}
           /\ S!NoJob(x).node = IF x \in Members THEN x ELSE None
           /\ S!NoJob(x).sess = None /\ S!NoJob(x).rep = None /\ ~S!NoJob(x).reserved
           /\ S!NoJob(x).mine = 0 /\ S!NoJob(x).gains = 0
<1>1. [r \in SharedReplicas |-> 0] \in [SharedReplicas -> Nat]
  OBVIOUS
<1>2. S!NoJob(x) \in SharedJobs
  BY <1>1 DEF S!NoJob, SharedJobs, SharedSteps
<1> QED
  BY <1>2 DEF S!NoJob, TaskLink

(* The task's own record is written, the others are left alone.            *)
LEMMA JobSet ==
    ASSUME job \in [S!Tasks -> SharedJobs], NEW x \in S!Tasks, NEW k \in SharedJobs,
           job' = [job EXCEPT ![x] = k]
    PROVE  /\ job' \in [S!Tasks -> SharedJobs] /\ job'[x] = k
           /\ \A y \in S!Tasks \ {x} : job'[y] = job[y]
           /\ OthersKept(x)
<1>1. \A y \in S!Tasks : job[y].gains \in Nat
  BY DEF SharedJobs
<1> QED
  BY <1>1 DEF OthersKept, Kept

(* The task's own record is written, and node n's counts of r that are     *)
(* under way are marked.                                                   *)
LEMMA JobRaced ==
    ASSUME job \in [S!Tasks -> SharedJobs], NEW x \in S!Tasks, NEW k \in SharedJobs,
           NEW n, NEW r \in SharedReplicas, job' = [S!Race(job, n, r) EXCEPT ![x] = k]
    PROVE  /\ job' \in [S!Tasks -> SharedJobs] /\ job'[x] = k
           /\ \A y \in S!Tasks \ {x} :
                 /\ job'[y].gains = job[y].gains
                 /\ job[y].node = n /\ job[y].pc \in {"set", "reset"} => r \in job'[y].raced
           /\ OthersKept(x)
<1> DEFINE R(y) == IF job[y].node = n /\ job[y].pc \in {"set", "reset"}
                   THEN [job[y] EXCEPT !.raced = @ \cup {r}] ELSE job[y]
<1>1. S!Race(job, n, r) = [y \in S!Tasks |-> R(y)]
  BY DEF S!Race
<1>2. ASSUME NEW y \in S!Tasks
      PROVE  /\ R(y) \in SharedJobs /\ R(y).gains = job[y].gains /\ Kept(job[y], R(y))
             /\ job[y].node = n /\ job[y].pc \in {"set", "reset"} => r \in R(y).raced
  <2>1. job[y] \in SharedJobs /\ job[y].gains \in Nat
    BY DEF SharedJobs
  <2>2. CASE job[y].node = n /\ job[y].pc \in {"set", "reset"}
    <3> DEFINE m == job[y].raced \cup {r}
    <3>1. R(y) = [job[y] EXCEPT !.raced = m]
      BY <2>2
    <3>2. m \in SUBSET SharedReplicas /\ job[y].raced \subseteq m /\ r \in m
      BY <2>1 DEF SharedJobs
    <3> HIDE DEF R, m
    <3>3. R(y) \in SharedJobs
      BY <2>1, <3>1, <3>2 DEF SharedJobs
    <3>4. /\ R(y).pc = job[y].pc /\ R(y).node = job[y].node /\ R(y).sess = job[y].sess
          /\ R(y).rep = job[y].rep /\ R(y).reserved = job[y].reserved
          /\ R(y).cnt = job[y].cnt /\ R(y).mine = job[y].mine /\ R(y).gains = job[y].gains
          /\ R(y).raced = m
      BY <2>1, <3>1 DEF SharedJobs
    <3> QED
      BY <2>1, <3>2, <3>3, <3>4 DEF Kept
  <2>3. CASE ~(job[y].node = n /\ job[y].pc \in {"set", "reset"})
    <3>1. R(y) = job[y]
      BY <2>3
    <3> QED
      BY <2>1, <2>3, <3>1 DEF Kept
  <2> QED
    BY <2>2, <2>3
<1> HIDE DEF R
<1>3. /\ job' \in [S!Tasks -> SharedJobs] /\ job'[x] = k
      /\ \A y \in S!Tasks \ {x} : job'[y] = R(y)
  BY <1>1, <1>2
<1> QED
  BY <1>2, <1>3 DEF OthersKept

(* The task is done, and counts of node n's own sessions that are under    *)
(* way learn of one more.                                                  *)
LEMMA JobGained ==
    ASSUME job \in [S!Tasks -> SharedJobs], NEW x \in SharedRequests,
           NEW n, job' = S!Gain(S!Done(x), n)
    PROVE  /\ job' \in [S!Tasks -> SharedJobs] /\ job'[x] = S!NoJob(x)
           /\ \A y \in S!Tasks \ {x} :
                 /\ job'[y].raced = job[y].raced
                 /\ job[y].node = n /\ job[y].pc = "store" => job'[y].gains = job[y].gains + 1
           /\ OthersKept(x)
<1> DEFINE D == S!Done(x)
           R(y) == IF D[y].node = n /\ D[y].pc = "store"
                   THEN [D[y] EXCEPT !.gains = @ + 1] ELSE D[y]
<1>1. job' = [y \in S!Tasks |-> R(y)]
  BY DEF S!Gain
<1>2. x \in S!Tasks
  BY DEF S!Tasks
<1>3. /\ D[x] = S!NoJob(x) /\ D[x].pc = "idle"
      /\ \A y \in S!Tasks \ {x} : D[y] = job[y]
  BY <1>2, NoJobFits DEF S!Done
<1> HIDE DEF D
<1>4. R(x) = S!NoJob(x)
  BY <1>3
<1>5. ASSUME NEW y \in S!Tasks \ {x}
      PROVE  /\ R(y) \in SharedJobs /\ R(y).raced = job[y].raced /\ Kept(job[y], R(y))
             /\ job[y].node = n /\ job[y].pc = "store" => R(y).gains = job[y].gains + 1
  <2>1. job[y] \in SharedJobs /\ job[y].gains \in Nat /\ D[y] = job[y]
    BY <1>3 DEF SharedJobs
  <2>2. CASE job[y].node = n /\ job[y].pc = "store"
    <3>1. R(y) = [job[y] EXCEPT !.gains = @ + 1]
      BY <2>1, <2>2
    <3> QED
      BY <2>1, <2>2, <3>1 DEF SharedJobs, Kept
  <2>3. CASE ~(job[y].node = n /\ job[y].pc = "store")
    <3>1. R(y) = job[y]
      BY <2>1, <2>3
    <3> QED
      BY <2>1, <2>3, <3>1 DEF Kept
  <2> QED
    BY <2>2, <2>3
<1> HIDE DEF R
<1>6. /\ job'[x] = S!NoJob(x) /\ \A y \in S!Tasks \ {x} : job'[y] = R(y)
  BY <1>1, <1>2, <1>4
<1>7. job' \in [S!Tasks -> SharedJobs]
  <2>1. \A y \in S!Tasks : R(y) \in SharedJobs
    BY <1>2, <1>4, <1>5, NoJobFits
  <2> QED
    BY <1>1, <2>1
<1> QED
  BY <1>5, <1>6, <1>7 DEF OthersKept

(* The links of the others are what they were.                             *)
LEMMA LinksStep ==
    ASSUME TaskLinks, NEW x \in S!Tasks, OthersKept(x), TaskLink(x, job'[x])
    PROVE  TaskLinks'
BY DEF TaskLinks, TaskLink, OthersKept, Kept

(* A step that leaves len and missed alone, takes no session from those a  *)
(* drain waits for, and whose task, if it is about to store a count, has   *)
(* just taken it.                                                          *)
LEMMA DrainQuiet ==
    ASSUME SharedInv, SharedTypes', TaskLinks', NEW x \in S!Tasks, OthersKept(x),
           len' = len, missed' = missed,
           \A n \in Members :
              /\ Cardinality(OwnedRows(n)) \in Nat /\ Cardinality(OwnedRows(n)') \in Nat
              /\ Cardinality(OwnedRows(n)') + Bit(Waits(x, job[x], n))
                   <= Cardinality(OwnedRows(n)) + Bit(Waits(x, job'[x], n)),
           \A n \in Members : job'[x].pc = "store" /\ job'[x].node = n =>
              Cardinality(OwnedRows(n)') <= job'[x].mine
    PROVE  DrainHolds' /\ StoreHolds'
<1> DEFINE d == [n \in Members |-> 0]
<1>1. d \in [Members -> {0, 1}] /\ \A n \in Members : d[n] = 0
  OBVIOUS
<1> HIDE DEF d
<1>2. ASSUME NEW n \in Members
      PROVE  /\ Cardinality(OwnedRows(n)) \in Nat /\ Cardinality(OwnedRows(n)') \in Nat
             /\ Cardinality(Waiting(n)) \in Nat /\ Cardinality(Waiting(n)') \in Nat
             /\ Cardinality(OwnedRows(n)') + Cardinality(Waiting(n))
                  <= Cardinality(OwnedRows(n)) + Cardinality(Waiting(n)') + d[n]
  <2>1. /\ Cardinality(Waiting(n)) \in Nat /\ Cardinality(Waiting(n)') \in Nat
        /\ Cardinality(Waiting(n)') =
             Cardinality(Waiting(n)) + Bit(Waits(x, job'[x], n)) - Bit(Waits(x, job[x], n))
    BY TaskCounts
  <2>2. Bit(Waits(x, job'[x], n)) \in {0, 1} /\ Bit(Waits(x, job[x], n)) \in {0, 1}
    BY DEF Bit
  <2>3. /\ Cardinality(OwnedRows(n)) \in Nat /\ Cardinality(OwnedRows(n)') \in Nat
        /\ Cardinality(OwnedRows(n)') + Bit(Waits(x, job[x], n))
             <= Cardinality(OwnedRows(n)) + Bit(Waits(x, job'[x], n))
    OBVIOUS
  <2> QED
    BY <1>1, <2>1, <2>2, <2>3
<1>3. ASSUME NEW n \in Members
      PROVE  len[n] + missed[n] + d[n] <= len'[n] + missed'[n]
  BY <1>1 DEF SharedInv, SharedTypes
<1>4. ASSUME NEW y \in S!Tasks, NEW n \in Members, job'[y].pc = "store", job'[y].node = n
      PROVE  \/ /\ job[y].pc = "store" /\ job[y].node = n /\ job'[y].mine = job[y].mine
                /\ job[y].gains + d[n] <= job'[y].gains
             \/ Cardinality(OwnedRows(n)') <= job'[y].mine
  <2>1. CASE y = x
    BY <1>4, <2>1
  <2>2. CASE y # x
    <3>1. Kept(job[y], job'[y]) /\ job[y].gains \in Nat
      BY <2>2 DEF OthersKept, SharedInv, SharedTypes, SharedJobs
    <3> QED
      BY <1>1, <1>4, <3>1 DEF Kept
  <2> QED
    BY <2>1, <2>2
<1> QED
  BY <1>1, <1>2, <1>3, <1>4, DrainStep

(* The account of seats, when the other tasks are left where they are.     *)
LEMMA SeatQuiet ==
    ASSUME SharedInv, SharedTypes', TaskLinks', NEW x \in S!Tasks, OthersKept(x),
           \A n \in Members, r \in SharedReplicas :
              Cardinality(RowsBy(n, r)) \in Nat /\ Cardinality(RowsBy(n, r)') \in Nat,
           \A n \in Members, r \in SharedReplicas :
              \/ r \in excused'[n]
              \/ /\ r \notin excused[n]
                 /\ Bit(Reserves(job'[x], n, r)) + Cardinality(RowsBy(n, r)')
                      + counted[n][r] + Bit(Bumps(x, job[x], n, r))
                    <= Bit(Reserves(job[x], n, r)) + Cardinality(RowsBy(n, r))
                         + counted'[n][r] + Bit(Bumps(x, job'[x], n, r))
              \/ /\ S!Outstanding(n, r)' = {}
                 /\ Cardinality(RowsBy(n, r)') <= counted'[n][r],
           \A n \in Members, r \in SharedReplicas :
              \/ /\ ~Reserves(job'[x], n, r)
                 /\ Cardinality(RowsBy(n, r)') <= Cardinality(RowsBy(n, r))
              \/ \A y \in S!Tasks \ {x} :
                    job[y].node = n /\ job[y].pc \in {"set", "reset"} => r \in job'[y].raced,
           \A n \in Members, r \in SharedReplicas :
              Counts(x, r)' /\ job'[x].node = n /\ r \notin job'[x].raced =>
                 /\ S!Outstanding(n, r)' = {}
                 /\ Cardinality(RowsBy(n, r)') <= job'[x].cnt[r]
    PROVE  SeatsHold' /\ CountHolds'
<1>1. ASSUME NEW n \in Members, NEW r \in SharedReplicas
      PROVE  /\ Cardinality(S!Outstanding(n, r)) \in Nat
             /\ Cardinality(S!Outstanding(n, r)') \in Nat
             /\ Cardinality(Uncounted(n, r)) \in Nat /\ Cardinality(Uncounted(n, r)') \in Nat
             /\ Cardinality(S!Outstanding(n, r)') =
                  Cardinality(S!Outstanding(n, r)) + Bit(Reserves(job'[x], n, r))
                    - Bit(Reserves(job[x], n, r))
             /\ Cardinality(Uncounted(n, r)') =
                  Cardinality(Uncounted(n, r)) + Bit(Bumps(x, job'[x], n, r))
                    - Bit(Bumps(x, job[x], n, r))
  BY TaskCounts
<1>2. ASSUME NEW n \in Members, NEW r \in SharedReplicas
      PROVE  \/ r \in excused'[n]
             \/ /\ r \notin excused[n]
                /\ Cardinality(S!Outstanding(n, r)') + Cardinality(RowsBy(n, r)')
                     + counted[n][r] + Cardinality(Uncounted(n, r))
                   <= Cardinality(S!Outstanding(n, r)) + Cardinality(RowsBy(n, r))
                        + counted'[n][r] + Cardinality(Uncounted(n, r)')
             \/ /\ S!Outstanding(n, r)' = {}
                /\ Cardinality(RowsBy(n, r)') <= counted'[n][r]
  <2>1. /\ Bit(Reserves(job'[x], n, r)) \in {0, 1} /\ Bit(Reserves(job[x], n, r)) \in {0, 1}
        /\ Bit(Bumps(x, job'[x], n, r)) \in {0, 1} /\ Bit(Bumps(x, job[x], n, r)) \in {0, 1}
    BY DEF Bit
  <2>2. counted[n][r] \in Nat /\ counted'[n][r] \in Nat
    BY DEF SharedInv, SharedTypes
  <2>3. Cardinality(RowsBy(n, r)) \in Nat /\ Cardinality(RowsBy(n, r)') \in Nat
    OBVIOUS
  <2>4. CASE Bit(Reserves(job'[x], n, r)) + Cardinality(RowsBy(n, r)')
               + counted[n][r] + Bit(Bumps(x, job[x], n, r))
             <= Bit(Reserves(job[x], n, r)) + Cardinality(RowsBy(n, r))
                  + counted'[n][r] + Bit(Bumps(x, job'[x], n, r))
    <3>1. Cardinality(S!Outstanding(n, r)') + Cardinality(RowsBy(n, r)')
            + counted[n][r] + Cardinality(Uncounted(n, r))
          <= Cardinality(S!Outstanding(n, r)) + Cardinality(RowsBy(n, r))
               + counted'[n][r] + Cardinality(Uncounted(n, r)')
      BY <1>1, <2>1, <2>2, <2>3, <2>4
    <3> QED
      BY <3>1
  <2> QED
    BY <2>4
<1>3. ASSUME NEW y \in S!Tasks, NEW r \in SharedReplicas, NEW n \in Members,
             Counts(y, r)', r \notin job'[y].raced, n = job'[y].node
      PROVE  \/ /\ Counts(y, r) /\ r \notin job[y].raced
                /\ n = job[y].node /\ job'[y].cnt[r] = job[y].cnt[r]
                /\ S!Outstanding(n, r)' \subseteq S!Outstanding(n, r)
                /\ Cardinality(RowsBy(n, r)') <= Cardinality(RowsBy(n, r))
             \/ /\ S!Outstanding(n, r)' = {}
                /\ Cardinality(RowsBy(n, r)') <= job'[y].cnt[r]
  <2>1. CASE y = x
    BY <1>3, <2>1
  <2>2. CASE y # x
    <3>1. Kept(job[y], job'[y])
      BY <2>2 DEF OthersKept
    <3>2. /\ Counts(y, r) /\ r \notin job[y].raced /\ n = job[y].node
          /\ job'[y].cnt[r] = job[y].cnt[r] /\ job[y].pc \in {"set", "reset"}
      BY <1>3, <3>1 DEF Kept, Counts
    <3>3. /\ ~Reserves(job'[x], n, r)
          /\ Cardinality(RowsBy(n, r)') <= Cardinality(RowsBy(n, r))
      BY <1>3, <2>2, <3>2
    <3>4. S!Outstanding(n, r)' \subseteq S!Outstanding(n, r)
      <4>1. /\ \A z \in S!Tasks : z \in S!Outstanding(n, r) <=> Reserves(job[z], n, r)
            /\ \A z \in S!Tasks : z \in S!Outstanding(n, r)' <=> Reserves(job'[z], n, r)
            /\ S!Outstanding(n, r)' \subseteq S!Tasks
        BY DEF S!Outstanding, S!At, Reserves
      <4>2. \A z \in S!Tasks \ {x} : Reserves(job'[z], n, r) <=> Reserves(job[z], n, r)
        BY DEF OthersKept, Kept, Reserves
      <4> QED
        BY <3>3, <4>1, <4>2
    <3> QED
      BY <3>2, <3>3, <3>4
  <2> QED
    BY <2>1, <2>2
<1> QED
  BY <1>1, <1>2, <1>3, SeatStep

(* Everything a step of task x has to show: the balance of the drain, the  *)
(* balance of the seats, and what becomes of counts under way.             *)
DrainBalance(x) ==
    /\ len' = len /\ missed' = missed
    /\ \A n \in Members :
         /\ Cardinality(OwnedRows(n)) \in Nat /\ Cardinality(OwnedRows(n)') \in Nat
         /\ Cardinality(OwnedRows(n)') + Bit(Waits(x, job[x], n))
              <= Cardinality(OwnedRows(n)) + Bit(Waits(x, job'[x], n))
         /\ job'[x].pc = "store" /\ job'[x].node = n =>
              Cardinality(OwnedRows(n)') <= job'[x].mine

SeatBalance(x) ==
    \A n \in Members, r \in SharedReplicas :
        /\ Cardinality(RowsBy(n, r)) \in Nat /\ Cardinality(RowsBy(n, r)') \in Nat
        /\ \/ r \in excused'[n]
           \/ /\ r \notin excused[n]
              /\ Bit(Reserves(job'[x], n, r)) + Cardinality(RowsBy(n, r)')
                   + counted[n][r] + Bit(Bumps(x, job[x], n, r))
                 <= Bit(Reserves(job[x], n, r)) + Cardinality(RowsBy(n, r))
                      + counted'[n][r] + Bit(Bumps(x, job'[x], n, r))
           \/ /\ S!Outstanding(n, r)' = {}
              /\ Cardinality(RowsBy(n, r)') <= counted'[n][r]

CountBalance(x) ==
    \A n \in Members, r \in SharedReplicas :
        /\ \/ /\ ~Reserves(job'[x], n, r)
              /\ Cardinality(RowsBy(n, r)') <= Cardinality(RowsBy(n, r))
           \/ \A y \in S!Tasks \ {x} :
                 job[y].node = n /\ job[y].pc \in {"set", "reset"} => r \in job'[y].raced
        /\ Counts(x, r)' /\ job'[x].node = n /\ r \notin job'[x].raced =>
              /\ S!Outstanding(n, r)' = {}
              /\ Cardinality(RowsBy(n, r)') <= job'[x].cnt[r]

(* A step that leaves the counters and the rows of a node as they are.     *)
LEMMA SeatsKept ==
    ASSUME SharedInv, SharedTypes', TaskLinks', NEW x \in S!Tasks, OthersKept(x),
           SeatBalance(x), CountBalance(x)
    PROVE  SeatsHold' /\ CountHolds'
<1>1. \A n \in Members, r \in SharedReplicas :
         Cardinality(RowsBy(n, r)) \in Nat /\ Cardinality(RowsBy(n, r)') \in Nat
  BY DEF SeatBalance
<1>2. \A n \in Members, r \in SharedReplicas :
              \/ r \in excused'[n]
              \/ /\ r \notin excused[n]
                 /\ Bit(Reserves(job'[x], n, r)) + Cardinality(RowsBy(n, r)')
                      + counted[n][r] + Bit(Bumps(x, job[x], n, r))
                    <= Bit(Reserves(job[x], n, r)) + Cardinality(RowsBy(n, r))
                         + counted'[n][r] + Bit(Bumps(x, job'[x], n, r))
              \/ /\ S!Outstanding(n, r)' = {}
                 /\ Cardinality(RowsBy(n, r)') <= counted'[n][r]
  BY Zenon DEF SeatBalance
<1>3. \A n \in Members, r \in SharedReplicas :
              \/ /\ ~Reserves(job'[x], n, r)
                 /\ Cardinality(RowsBy(n, r)') <= Cardinality(RowsBy(n, r))
              \/ \A y \in S!Tasks \ {x} :
                    job[y].node = n /\ job[y].pc \in {"set", "reset"} => r \in job'[y].raced
  BY Zenon DEF CountBalance
<1>4. \A n \in Members, r \in SharedReplicas :
              Counts(x, r)' /\ job'[x].node = n /\ r \notin job'[x].raced =>
                 /\ S!Outstanding(n, r)' = {}
                 /\ Cardinality(RowsBy(n, r)') <= job'[x].cnt[r]
  BY Zenon DEF CountBalance
<1> QED
  BY <1>1, <1>2, <1>3, <1>4, SeatQuiet

(* A step of one task that touches no row and no counter.                  *)
LEMMA SharedStep ==
    ASSUME SharedInv, SharedTypes', NEW x \in S!Tasks, OthersKept(x), TaskLink(x, job'[x]),
           DrainBalance(x), SeatBalance(x), CountBalance(x)
    PROVE  SharedInv'
<1>1. TaskLinks'
  BY LinksStep DEF SharedInv
<1>2. DrainHolds' /\ StoreHolds'
  <2>1. /\ len' = len /\ missed' = missed
        /\ \A n \in Members :
              /\ Cardinality(OwnedRows(n)) \in Nat /\ Cardinality(OwnedRows(n)') \in Nat
              /\ Cardinality(OwnedRows(n)') + Bit(Waits(x, job[x], n))
                   <= Cardinality(OwnedRows(n)) + Bit(Waits(x, job'[x], n))
        /\ \A n \in Members : job'[x].pc = "store" /\ job'[x].node = n =>
              Cardinality(OwnedRows(n)') <= job'[x].mine
    BY Zenon DEF DrainBalance
  <2> QED
    BY <1>1, <2>1, DrainQuiet
<1>3. SeatsHold' /\ CountHolds'
  BY <1>1, SeatsKept
<1> QED
  BY <1>1, <1>2, <1>3 DEF SharedInv

(* No new reservation appears when the acting task makes none.             *)
LEMMA OutstandingShrinks ==
    ASSUME NEW x \in S!Tasks, OthersKept(x), NEW n, NEW r, ~Reserves(job'[x], n, r)
    PROVE  S!Outstanding(n, r)' \subseteq S!Outstanding(n, r)
<1>1. /\ \A z \in S!Tasks : z \in S!Outstanding(n, r) <=> Reserves(job[z], n, r)
      /\ \A z \in S!Tasks : z \in S!Outstanding(n, r)' <=> Reserves(job'[z], n, r)
      /\ S!Outstanding(n, r)' \subseteq S!Tasks
  BY DEF S!Outstanding, S!At, Reserves
<1>2. \A z \in S!Tasks \ {x} : Reserves(job'[z], n, r) <=> Reserves(job[z], n, r)
  BY DEF OthersKept, Kept, Reserves
<1> QED
  BY <1>1, <1>2

(* A step that deletes rows at most, leaves the counters alone, and after  *)
(* which the task neither reserves nor counts.                             *)
LEMMA QuietStep ==
    ASSUME SharedInv, SharedTypes', NEW x \in S!Tasks, OthersKept(x), TaskLink(x, job'[x]),
           RowsStay, UNCHANGED <<len, missed, counted, excused>>,
           job[x].pc \notin {"count", "set", "took"},
           job'[x].pc \notin {"set", "reset"},
           job'[x].pc = "touch" => ~job'[x].reserved,
           \A n \in Members : job'[x].pc = "store" /\ job'[x].node = n =>
              Cardinality(OwnedRows(n)') <= job'[x].mine
    PROVE  SharedInv'
<1>1. ASSUME NEW n, NEW r
      PROVE  /\ ~Waits(x, job[x], n) /\ ~Reserves(job'[x], n, r) /\ ~Bumps(x, job[x], n, r)
             /\ Bit(Waits(x, job[x], n)) = 0 /\ Bit(Reserves(job'[x], n, r)) = 0
             /\ Bit(Bumps(x, job[x], n, r)) = 0
             /\ Bit(Waits(x, job'[x], n)) \in {0, 1} /\ Bit(Reserves(job[x], n, r)) \in {0, 1}
             /\ Bit(Bumps(x, job'[x], n, r)) \in {0, 1}
  BY DEF Waits, Reserves, Bumps, Bit
<1>2. \A n, r :
         /\ Cardinality(OwnedRows(n)) \in Nat /\ Cardinality(OwnedRows(n)') \in Nat
         /\ Cardinality(OwnedRows(n)') <= Cardinality(OwnedRows(n))
         /\ Cardinality(RowsBy(n, r)) \in Nat /\ Cardinality(RowsBy(n, r)') \in Nat
         /\ Cardinality(RowsBy(n, r)') <= Cardinality(RowsBy(n, r))
  BY RowsDeleted
<1>3. DrainBalance(x)
  BY <1>1, <1>2 DEF DrainBalance
<1>4. SeatBalance(x)
  <2>1. ASSUME NEW n \in Members, NEW r \in SharedReplicas
        PROVE  Bit(Reserves(job'[x], n, r)) + Cardinality(RowsBy(n, r)')
                   + counted[n][r] + Bit(Bumps(x, job[x], n, r))
                 <= Bit(Reserves(job[x], n, r)) + Cardinality(RowsBy(n, r))
                      + counted'[n][r] + Bit(Bumps(x, job'[x], n, r))
    <3>1. counted[n][r] \in Nat /\ counted'[n][r] = counted[n][r]
      BY DEF SharedInv, SharedTypes
    <3> QED
      BY <1>1, <1>2, <3>1
  <2> QED
    BY <1>2, <2>1 DEF SeatBalance
<1>5. CountBalance(x)
  BY <1>1, <1>2 DEF CountBalance, Counts
<1> QED
  BY <1>3, <1>4, <1>5, SharedStep

(* A step of no task, that leaves every number alone.                      *)
LEMMA EnvironmentStep ==
    ASSUME SharedInv, SharedTypes', RowsStay, UNCHANGED <<len, missed, counted, excused, job>>
    PROVE  SharedInv'
<1> PICK x \in S!Tasks : TRUE
  BY SharedAssumption DEF S!Tasks
<1>1. OthersKept(x)
  BY DEF OthersKept, Kept, SharedInv, SharedTypes, SharedJobs
<1>2. TaskLink(x, job'[x])
  BY DEF SharedInv, TaskLinks
<1>3. \A n, r :
         /\ Cardinality(OwnedRows(n)) \in Nat /\ Cardinality(OwnedRows(n)') \in Nat
         /\ Cardinality(OwnedRows(n)') <= Cardinality(OwnedRows(n))
         /\ Cardinality(RowsBy(n, r)) \in Nat /\ Cardinality(RowsBy(n, r)') \in Nat
         /\ Cardinality(RowsBy(n, r)') <= Cardinality(RowsBy(n, r))
  BY RowsDeleted
<1>4. \A n, r : S!Outstanding(n, r)' = S!Outstanding(n, r) /\ Waiting(n)' = Waiting(n)
                /\ Uncounted(n, r)' = Uncounted(n, r)
  BY DEF S!Outstanding, S!At, Waiting, Uncounted
<1>5. \A n, r : /\ Cardinality(Waiting(n)) \in Nat /\ Cardinality(S!Outstanding(n, r)) \in Nat
                /\ Cardinality(Uncounted(n, r)) \in Nat
  BY <1>1, TaskCounts
<1>6. TaskLinks'
  BY <1>1, <1>2, LinksStep DEF SharedInv
<1>7. DrainHolds'
  <2>1. ASSUME NEW n \in Members
        PROVE  Cardinality(OwnedRows(n)') <= len'[n] + Cardinality(Waiting(n)') + missed'[n]
    <3>1. Cardinality(OwnedRows(n)) <= len[n] + Cardinality(Waiting(n)) + missed[n]
      BY DEF SharedInv, DrainHolds
    <3>2. len[n] \in Nat /\ missed[n] \in Nat
      BY DEF SharedInv, SharedTypes
    <3>3. Waiting(n)' = Waiting(n) /\ Cardinality(Waiting(n)) \in Nat
      BY <1>4, <1>5
    <3>4. /\ Cardinality(OwnedRows(n)) \in Nat /\ Cardinality(OwnedRows(n)') \in Nat
          /\ Cardinality(OwnedRows(n)') <= Cardinality(OwnedRows(n))
      BY <1>3
    <3> QED
      BY <3>1, <3>2, <3>3, <3>4
  <2> QED
    BY <2>1 DEF DrainHolds
<1>8. StoreHolds'
  <2>1. ASSUME NEW y \in S!Tasks, NEW n \in Members, job'[y].pc = "store", job'[y].node = n
        PROVE  Cardinality(OwnedRows(n)')
                 <= job'[y].mine + Cardinality(Waiting(n)') + job'[y].gains
    <3>1. Cardinality(OwnedRows(n)) <= job[y].mine + Cardinality(Waiting(n)) + job[y].gains
      BY <2>1 DEF SharedInv, StoreHolds
    <3>2. job[y].mine \in Nat /\ job[y].gains \in Nat /\ job'[y] = job[y]
      BY DEF SharedInv, SharedTypes, SharedJobs
    <3>3. Waiting(n)' = Waiting(n) /\ Cardinality(Waiting(n)) \in Nat
      BY <1>4, <1>5
    <3>4. /\ Cardinality(OwnedRows(n)) \in Nat /\ Cardinality(OwnedRows(n)') \in Nat
          /\ Cardinality(OwnedRows(n)') <= Cardinality(OwnedRows(n))
      BY <1>3
    <3> QED
      BY <3>1, <3>2, <3>3, <3>4
  <2> QED
    BY <2>1 DEF StoreHolds
<1>9. SeatsHold'
  BY <1>3, <1>4, <1>5 DEF SeatsHold, SharedInv, SharedTypes
<1>10. CountHolds'
  <2>1. ASSUME NEW y \in S!Tasks, NEW r \in SharedReplicas, NEW n \in Members,
               Counts(y, r)', job'[y].node = n, r \notin job'[y].raced
        PROVE  S!Outstanding(n, r)' = {} /\ Cardinality(RowsBy(n, r)') <= job'[y].cnt[r]
    <3>1. Counts(y, r) /\ job[y].node = n /\ r \notin job[y].raced /\ job'[y] = job[y]
      BY <2>1 DEF Counts
    <3>2. S!Outstanding(n, r) = {} /\ Cardinality(RowsBy(n, r)) <= job[y].cnt[r]
      BY <3>1 DEF SharedInv, CountHolds
    <3>3. job[y].cnt[r] \in Nat /\ S!Outstanding(n, r)' = S!Outstanding(n, r)
      BY <1>4 DEF SharedInv, SharedTypes, SharedJobs
    <3> QED
      BY <1>3, <3>1, <3>2, <3>3
  <2> QED
    BY <2>1 DEF CountHolds
<1> QED
  BY <1>6, <1>7, <1>8, <1>9, <1>10 DEF SharedInv

(* The number of rows a node owns is a number.                             *)
LEMMA OwnedIsNat == \A n : S!Owned(n) = Cardinality(OwnedRows(n)) /\ S!Owned(n) \in Nat
<1> TAKE n
<1>1. S!Owned(n) = Cardinality(OwnedRows(n))
  BY SharedCardinality DEF S!Owned, OwnedRows
<1>2. OwnedRows(n) \in SUBSET SharedSids
  BY DEF OwnedRows, S!Rows
<1> QED
  BY <1>1, <1>2, SharedFinite

(* A count of the node's own sessions has just been taken.                 *)
MineJob(x, n, m) == [S!NoJob(x) EXCEPT !.pc = "store", !.node = n, !.mine = m]

(* A count of a node's own sessions is taken with none gained since.       *)
LEMMA MineTaken ==
    ASSUME NEW x \in S!Tasks, NEW n \in Members, x \in Members => n = x, NEW m \in Nat
    PROVE  /\ MineJob(x, n, m) \in SharedJobs /\ TaskLink(x, MineJob(x, n, m))
           /\ MineJob(x, n, m).pc = "store" /\ MineJob(x, n, m).node = n
           /\ MineJob(x, n, m).mine = m
<1>1. S!NoJob(x) \in SharedJobs
  BY NoJobFits
<1>2. /\ MineJob(x, n, m) \in SharedJobs /\ MineJob(x, n, m).pc = "store"
      /\ MineJob(x, n, m).node = n /\ MineJob(x, n, m).mine = m
  BY <1>1 DEF SharedJobs, SharedSteps, MineJob
<1>3. TaskLink(x, MineJob(x, n, m))
  BY <1>2, SharedAssumption DEF TaskLink
<1> QED
  BY <1>2, <1>3

(* Taking that count keeps what every other count holds.                   *)
LEMMA CountsMine ==
    ASSUME SharedInv, NEW x \in S!Tasks, job[x].pc # "idle", job' = S!CountMine(x)
    PROVE  LET n == job[x].node
           IN  /\ job' \in [S!Tasks -> SharedJobs] /\ OthersKept(x)
               /\ TaskLink(x, job'[x]) /\ job'[x].pc = "store"
               /\ job'[x].node = n /\ job'[x].mine = Cardinality(OwnedRows(n))
               /\ n \in Members /\ Cardinality(OwnedRows(n)) \in Nat
               /\ \A y \in S!Tasks \ {x} : job'[y] = job[y]
<1> DEFINE n == job[x].node
           k == MineJob(x, n, S!Owned(n))
<1>1. n \in Members /\ (x \in Members => n = x)
  BY DEF SharedInv, TaskLinks, TaskLink
<1>2. S!Owned(n) \in Nat /\ S!Owned(n) = Cardinality(OwnedRows(n))
  BY OwnedIsNat
<1>3. job' = [job EXCEPT ![x] = k]
  BY DEF S!CountMine, MineJob
<1> HIDE DEF n
<1>4. k \in SharedJobs /\ TaskLink(x, k) /\ k.pc = "store" /\ k.node = n /\ k.mine = S!Owned(n)
  BY <1>1, <1>2, MineTaken
<1> HIDE DEF k
<1>5. /\ job' \in [S!Tasks -> SharedJobs] /\ job'[x] = k /\ OthersKept(x)
      /\ \A y \in S!Tasks \ {x} : job'[y] = job[y]
  BY <1>3, <1>4, JobSet DEF SharedInv, SharedTypes
<1> QED
  BY <1>1, <1>2, <1>4, <1>5 DEF n

-----------------------------------------------------------------------------
(* The steps, one by one.                                                  *)

(* The facts about task x that its steps start from.                       *)
LEMMA SharedFacts ==
    ASSUME SharedInv
    PROVE  /\ SharedTypes /\ job \in [S!Tasks -> SharedJobs]
           /\ SharedRequests \subseteq S!Tasks /\ Members \subseteq S!Tasks
           /\ \A x \in S!Tasks : job[x] \in SharedJobs /\ TaskLink(x, job[x])
           /\ \A x \in SharedRequests : x \notin Members
BY SharedAssumption DEF SharedInv, SharedTypes, TaskLinks, S!Tasks

(* A request of a session that has a row goes to its replica.              *)
LEMMA SharedSticky ==
    ASSUME SharedInv, NEW x \in S!IdleRequests, NEW n \in Members, NEW s \in SharedSids,
           S!StickyVisit(x, n, s)
    PROVE  SharedInv'
<1> DEFINE k == [S!NoJob(x) EXCEPT !.pc = "touch", !.node = n, !.sess = s,
                                   !.rep = sharedCookie[s]]
<1>1. x \in SharedRequests /\ job[x].pc = "idle" /\ x \in S!Tasks /\ x \notin Members
  BY SharedFacts DEF S!IdleRequests
<1>2. sharedCookie[s] \in SharedReplicas
  BY SharedFacts DEF S!StickyVisit, SharedTypes
<1>3. S!NoJob(x) \in SharedJobs /\ ~S!NoJob(x).reserved
  BY <1>1, NoJobFits
<1>4. k \in SharedJobs /\ k.pc = "touch" /\ ~k.reserved /\ TaskLink(x, k)
  BY <1>1, <1>2, <1>3 DEF SharedJobs, SharedSteps, TaskLink
<1>5. /\ job' = [job EXCEPT ![x] = k]
      /\ UNCHANGED <<table, counted, len, sharedCookie, leader, excused, missed>>
  BY DEF S!StickyVisit
<1> HIDE DEF k
<1>6. job' \in [S!Tasks -> SharedJobs] /\ job'[x] = k /\ OthersKept(x)
  BY <1>1, <1>4, <1>5, SharedFacts, JobSet
<1>7. SharedTypes' /\ RowsStay
  BY <1>5, <1>6, SharedFacts DEF SharedTypes, RowsStay
<1> QED
  BY <1>1, <1>4, <1>5, <1>6, <1>7, QuietStep

(* The statement of a touch fails: a reservation is given back.            *)
LEMMA SharedTouchFails ==
    ASSUME SharedInv, NEW x \in SharedRequests, S!TouchFails(x)
    PROVE  SharedInv'
<1>1. x \in S!Tasks /\ job[x].pc = "touch" /\ job[x].sess \in SharedSids
      /\ job[x].rep \in SharedReplicas
  BY SharedFacts DEF S!TouchFails, TaskLink
<1>2. /\ job' = [job EXCEPT ![x] = S!NoJob(x)]
      /\ sharedCookie' = [sharedCookie EXCEPT ![job[x].sess] = job[x].rep]
      /\ UNCHANGED <<table, counted, len, leader, excused, missed>>
  BY DEF S!TouchFails, S!Done
<1>3. S!NoJob(x) \in SharedJobs /\ S!NoJob(x).pc = "idle" /\ TaskLink(x, S!NoJob(x))
  BY <1>1, NoJobFits
<1>4. job' \in [S!Tasks -> SharedJobs] /\ job'[x] = S!NoJob(x) /\ OthersKept(x)
  BY <1>1, <1>2, <1>3, SharedFacts, JobSet
<1>5. SharedTypes' /\ RowsStay
  BY <1>1, <1>2, <1>4, SharedFacts DEF SharedTypes, RowsStay
<1> QED
  BY <1>1, <1>2, <1>3, <1>4, <1>5, QuietStep

(* A reservation whose session cannot be written is dropped.               *)
LEMMA SharedGiveUp ==
    ASSUME SharedInv, NEW x \in S!Tasks, S!GiveUp(x)
    PROVE  SharedInv'
<1>1. /\ job[x].pc \in {"group", "store"} /\ job' = [job EXCEPT ![x] = S!NoJob(x)]
      /\ UNCHANGED <<table, counted, len, sharedCookie, leader, excused, missed>>
  BY DEF S!GiveUp, S!Done
<1>2. S!NoJob(x) \in SharedJobs /\ S!NoJob(x).pc = "idle" /\ TaskLink(x, S!NoJob(x))
  BY NoJobFits
<1>3. job' \in [S!Tasks -> SharedJobs] /\ job'[x] = S!NoJob(x) /\ OthersKept(x)
  BY <1>1, <1>2, SharedFacts, JobSet
<1>4. SharedTypes' /\ RowsStay
  BY <1>1, <1>3, SharedFacts DEF SharedTypes, RowsStay
<1> QED
  BY <1>1, <1>2, <1>3, <1>4, QuietStep

(* A logout or an expiry takes the row away.                               *)
LEMMA SharedEndSession ==
    ASSUME SharedInv, NEW x \in S!IdleRequests, NEW n \in Members, NEW s \in SharedSids,
           S!EndSession(x, n, s)
    PROVE  SharedInv'
<1> DEFINE k == [S!NoJob(x) EXCEPT !.pc = "recount", !.node = n, !.rep = table[s].rep]
<1>1. x \in SharedRequests /\ job[x].pc = "idle" /\ x \in S!Tasks /\ x \notin Members
  BY SharedFacts DEF S!IdleRequests
<1>2. /\ job' = [job EXCEPT ![x] = k] /\ table[s] # None /\ table' = [table EXCEPT ![s] = None]
      /\ UNCHANGED <<counted, len, sharedCookie, leader, excused, missed>>
  BY DEF S!EndSession
<1>3. table[s].rep \in SharedReplicas
  BY <1>2, SharedFacts DEF SharedTypes, S!Row
<1>4. S!NoJob(x) \in SharedJobs
  BY <1>1, NoJobFits
<1>5. k \in SharedJobs /\ k.pc = "recount" /\ TaskLink(x, k)
  BY <1>1, <1>3, <1>4 DEF SharedJobs, SharedSteps, TaskLink
<1> HIDE DEF k
<1>6. job' \in [S!Tasks -> SharedJobs] /\ job'[x] = k /\ OthersKept(x)
  BY <1>1, <1>2, <1>5, SharedFacts, JobSet
<1>7. SharedTypes' /\ RowsStay
  BY <1>2, <1>6, SharedFacts DEF SharedTypes, RowsStay
<1> QED
  BY <1>1, <1>2, <1>5, <1>6, <1>7, QuietStep

(* A count for the replica fails and changes nothing.                      *)
LEMMA SharedRecountFails ==
    ASSUME SharedInv, NEW x \in SharedRequests, S!RecountFails(x)
    PROVE  SharedInv'
<1>1. /\ x \in S!Tasks /\ job[x].pc = "recount" /\ job' = S!CountMine(x)
      /\ UNCHANGED <<table, counted, len, sharedCookie, leader, excused, missed>>
  BY SharedFacts DEF S!RecountFails
<1>2. /\ job' \in [S!Tasks -> SharedJobs] /\ OthersKept(x)
      /\ TaskLink(x, job'[x]) /\ job'[x].pc = "store"
      /\ job'[x].mine = Cardinality(OwnedRows(job'[x].node)) /\ job'[x].mine \in Nat
  BY <1>1, CountsMine
<1>3. SharedTypes' /\ RowsStay
  BY <1>1, <1>2, SharedFacts DEF SharedTypes, RowsStay
<1>4. \A m \in Members : job'[x].node = m => Cardinality(OwnedRows(m)') <= job'[x].mine
  <2>1. \A m : OwnedRows(m)' = OwnedRows(m)
    BY <1>1 DEF OwnedRows, S!Rows
  <2> QED
    BY <1>2, <2>1
<1> QED
  BY <1>1, <1>2, <1>3, <1>4, QuietStep

(* The leader's sweep deletes an idle row.                                 *)
LEMMA SharedSweepDelete ==
    ASSUME SharedInv, NEW n \in Members, S!SweepDelete(n)
    PROVE  SharedInv'
<1> DEFINE k == [job[n] EXCEPT !.pc = "group"]
<1>1. /\ n \in S!Tasks /\ job[n].pc = "idle" /\ job[n] \in SharedJobs
      /\ n \notin SharedRequests /\ job[n].node = n
  BY SharedFacts DEF S!SweepDelete, TaskLink
<1>2. /\ job' = [job EXCEPT ![n] = k]
      /\ \A s \in SharedSids : table'[s] \in {table[s], None}
      /\ UNCHANGED <<counted, len, sharedCookie, leader, excused, missed>>
  BY <1>1 DEF S!SweepDelete, S!Goto
<1>3. k \in SharedJobs /\ k.pc = "group" /\ TaskLink(n, k)
  BY <1>1 DEF SharedJobs, SharedSteps, TaskLink
<1> HIDE DEF k
<1>4. job' \in [S!Tasks -> SharedJobs] /\ job'[n] = k /\ OthersKept(n)
  BY <1>1, <1>2, <1>3, SharedFacts, JobSet
<1>5. table' \in [SharedSids -> S!Row \cup {None}]
  BY SharedFacts DEF S!SweepDelete, SharedTypes
<1>6. SharedTypes' /\ RowsStay
  BY <1>2, <1>4, <1>5, SharedFacts DEF SharedTypes, RowsStay
<1> QED
  BY <1>1, <1>2, <1>3, <1>4, <1>6, QuietStep

(* A row turns idle.                                                       *)
LEMMA SharedExpire ==
    ASSUME SharedInv, NEW s \in SharedSids, S!Expire(s)
    PROVE  SharedInv'
<1>1. /\ table[s] # None /\ table' = [table EXCEPT ![s].idle = TRUE]
      /\ UNCHANGED <<counted, len, sharedCookie, leader, job, excused, missed>>
  BY DEF S!Expire, S!Rows
<1>2. table[s] \in S!Row /\ table \in [SharedSids -> S!Row \cup {None}]
  BY <1>1, SharedFacts DEF SharedTypes
<1>3. /\ [table[s] EXCEPT !.idle = TRUE] \in S!Row
      /\ table' = [table EXCEPT ![s] = [table[s] EXCEPT !.idle = TRUE]]
  BY <1>1, <1>2 DEF S!Row
<1>4. SharedTypes'
  BY <1>1, <1>2, <1>3, SharedFacts DEF SharedTypes
<1>5. RowsStay
  BY <1>1, <1>2, <1>3 DEF RowsStay, S!Row
<1> QED
  BY <1>1, <1>4, <1>5, EnvironmentStep

(* Another node becomes the leader.                                        *)
LEMMA SharedElection ==
    ASSUME SharedInv, NEW n \in Members, S!Election(n)
    PROVE  SharedInv'
<1>1. /\ leader' = n
      /\ UNCHANGED <<table, counted, len, sharedCookie, job, excused, missed>>
  BY DEF S!Election
<1>2. SharedTypes' /\ RowsStay
  BY <1>1, SharedFacts DEF SharedTypes, RowsStay
<1> QED
  BY <1>1, <1>2, EnvironmentStep

(* A new visitor reserves a seat.                                          *)
LEMMA SharedFresh ==
    ASSUME SharedInv, NEW x \in S!IdleRequests, NEW n \in Members, NEW r \in SharedReplicas,
           S!FreshVisit(x, n, r)
    PROVE  SharedInv'
<1>0. PICK s \in SharedSids :
        job' = [S!Race(job, n, r) EXCEPT ![x] = [S!NoJob(x) EXCEPT !.pc = "touch", !.node = n,
                  !.sess = s, !.rep = r, !.reserved = TRUE]]
  BY DEF S!FreshVisit, S!Unused
<1> DEFINE k == [S!NoJob(x) EXCEPT !.pc = "touch", !.node = n, !.sess = s, !.rep = r,
                                   !.reserved = TRUE]
<1>1. x \in SharedRequests /\ job[x].pc = "idle" /\ x \in S!Tasks /\ x \notin Members
  BY SharedFacts DEF S!IdleRequests
<1>2. S!NoJob(x) \in SharedJobs
  BY <1>1, NoJobFits
<1>3. /\ k \in SharedJobs /\ k.pc = "touch" /\ k.node = n /\ k.rep = r /\ k.reserved
      /\ TaskLink(x, k)
  BY <1>1, <1>2 DEF SharedJobs, SharedSteps, TaskLink
<1>4. /\ job' = [S!Race(job, n, r) EXCEPT ![x] = k]
      /\ counted' = [counted EXCEPT ![n][r] = @ + 1]
      /\ UNCHANGED <<table, len, sharedCookie, leader, excused, missed>>
  BY <1>0 DEF S!FreshVisit
<1> HIDE DEF k
<1>5. /\ job' \in [S!Tasks -> SharedJobs] /\ job'[x] = k /\ OthersKept(x)
      /\ \A y \in S!Tasks \ {x} :
            job[y].node = n /\ job[y].pc \in {"set", "reset"} => r \in job'[y].raced
  <2>1. job' = [S!Race(job, n, r) EXCEPT ![x] = k] /\ k \in SharedJobs
    BY <1>3, <1>4
  <2>2. x \in S!Tasks /\ job \in [S!Tasks -> SharedJobs]
    BY <1>1, SharedFacts
  <2> QED
    BY <2>1, <2>2, JobRaced
<1>6. /\ counted \in [Members -> [SharedReplicas -> Nat]]
      /\ counted' \in [Members -> [SharedReplicas -> Nat]]
      /\ counted'[n][r] = counted[n][r] + 1
      /\ \A m \in Members, q \in SharedReplicas : m # n \/ q # r => counted'[m][q] = counted[m][q]
  BY <1>4, SharedFacts DEF SharedTypes
<1>7. SharedTypes' /\ RowsStay
  BY <1>4, <1>5, <1>6, SharedFacts DEF SharedTypes, RowsStay
<1>8. \A m, q :
         /\ Cardinality(OwnedRows(m)) \in Nat /\ Cardinality(OwnedRows(m)') \in Nat
         /\ Cardinality(OwnedRows(m)') <= Cardinality(OwnedRows(m))
         /\ Cardinality(RowsBy(m, q)) \in Nat /\ Cardinality(RowsBy(m, q)') \in Nat
         /\ Cardinality(RowsBy(m, q)') <= Cardinality(RowsBy(m, q))
  BY <1>7, RowsDeleted
<1>9. ASSUME NEW m, NEW q
      PROVE  /\ Bit(Waits(x, job[x], m)) = 0 /\ Bit(Waits(x, job'[x], m)) = 0
             /\ Bit(Bumps(x, job[x], m, q)) = 0 /\ Bit(Bumps(x, job'[x], m, q)) = 0
             /\ Bit(Reserves(job[x], m, q)) = 0
             /\ Reserves(job'[x], m, q) <=> m = n /\ q = r
             /\ Bit(Reserves(job'[x], m, q)) = IF m = n /\ q = r THEN 1 ELSE 0
  BY <1>1, <1>3, <1>5 DEF Waits, Reserves, Bumps, Bit
<1>10. DrainBalance(x)
  <2>1. ASSUME NEW m \in Members
        PROVE  /\ Cardinality(OwnedRows(m)) \in Nat /\ Cardinality(OwnedRows(m)') \in Nat
               /\ Cardinality(OwnedRows(m)') + Bit(Waits(x, job[x], m))
                    <= Cardinality(OwnedRows(m)) + Bit(Waits(x, job'[x], m))
    <3>1. /\ Cardinality(OwnedRows(m)) \in Nat /\ Cardinality(OwnedRows(m)') \in Nat
          /\ Cardinality(OwnedRows(m)') <= Cardinality(OwnedRows(m))
      BY <1>8
    <3>2. Bit(Waits(x, job[x], m)) = 0 /\ Bit(Waits(x, job'[x], m)) = 0
      BY <1>9
    <3> QED
      BY <3>1, <3>2
  <2>2. job'[x].pc # "store"
    BY <1>3, <1>5
  <2> QED
    BY <1>4, <2>1, <2>2 DEF DrainBalance
<1>11. SeatBalance(x)
  <2>1. ASSUME NEW m \in Members, NEW q \in SharedReplicas
        PROVE  Bit(Reserves(job'[x], m, q)) + Cardinality(RowsBy(m, q)')
                   + counted[m][q] + Bit(Bumps(x, job[x], m, q))
                 <= Bit(Reserves(job[x], m, q)) + Cardinality(RowsBy(m, q))
                      + counted'[m][q] + Bit(Bumps(x, job'[x], m, q))
    <3>1. /\ counted[m][q] \in Nat /\ counted'[m][q] \in Nat
          /\ counted'[m][q] = IF m = n /\ q = r THEN counted[m][q] + 1 ELSE counted[m][q]
      BY <1>6
    <3>2. /\ Cardinality(RowsBy(m, q)) \in Nat /\ Cardinality(RowsBy(m, q)') \in Nat
          /\ Cardinality(RowsBy(m, q)') <= Cardinality(RowsBy(m, q))
      BY <1>8
    <3> QED
      BY <1>9, <3>1, <3>2
  <2> QED
    BY <1>4, <1>8, <2>1 DEF SeatBalance
<1>12. CountBalance(x)
  <2>1. ASSUME NEW m \in Members, NEW q \in SharedReplicas
        PROVE  \/ /\ ~Reserves(job'[x], m, q)
                  /\ Cardinality(RowsBy(m, q)') <= Cardinality(RowsBy(m, q))
               \/ \A y \in S!Tasks \ {x} :
                     job[y].node = m /\ job[y].pc \in {"set", "reset"} => q \in job'[y].raced
    BY <1>5, <1>8, <1>9
  <2>2. ASSUME NEW q PROVE ~Counts(x, q)'
    BY <1>3, <1>5 DEF Counts
  <2> QED
    BY <2>1, <2>2 DEF CountBalance
<1> QED
  BY <1>1, <1>3, <1>5, <1>7, <1>10, <1>11, <1>12, SharedStep

(* The upsert makes the row.                                               *)
LEMMA SharedTouchNew ==
    ASSUME SharedInv, NEW x \in SharedRequests, S!Touch(x), table[job[x].sess] = None
    PROVE  SharedInv'
<1> DEFINE n == job[x].node
           r == job[x].rep
           s == job[x].sess
           v == [rep |-> r, owner |-> n, idle |-> FALSE, by |-> n]
           k == [job[x] EXCEPT !.pc = "count", !.sess = None]
<1>1. /\ x \in S!Tasks /\ x \notin Members /\ job[x].pc = "touch" /\ n \in Members
      /\ s \in SharedSids /\ r \in SharedReplicas /\ job[x] \in SharedJobs
  BY SharedFacts DEF S!Touch, TaskLink
<1>2. /\ k \in SharedJobs /\ k.pc = "count" /\ k.node = n /\ k.rep = r
      /\ k.reserved = job[x].reserved /\ TaskLink(x, k)
  <2>1. k \in SharedJobs /\ k.pc = "count" /\ k.node = n /\ k.rep = r
        /\ k.reserved = job[x].reserved
    BY <1>1 DEF SharedJobs, SharedSteps
  <2> HIDE DEF k
  <2> QED
    BY <1>1, <2>1 DEF TaskLink
<1>3. /\ table' = [table EXCEPT ![s] = v]
      /\ job' = [S!Race(job, n, r) EXCEPT ![x].pc = "count", ![x].sess = None]
      /\ sharedCookie' = [sharedCookie EXCEPT ![s] = r]
      /\ UNCHANGED <<counted, len, leader, excused, missed>>
  BY DEF S!Touch
<1>4. S!Race(job, n, r)[x] = job[x]
  BY <1>1 DEF S!Race
<1>5. job' = [S!Race(job, n, r) EXCEPT ![x] = k]
  BY <1>1, <1>3, <1>4 DEF S!Race
<1>6. v \in S!Row /\ v # None /\ v.owner = n /\ v.rep = r /\ v.by = n
  <2>1. v \in S!Row /\ v.owner = n /\ v.rep = r /\ v.by = n
    BY <1>1 DEF S!Row
  <2> HIDE DEF v
  <2> QED
    BY <2>1, SharedAssumption
<1> HIDE DEF k, v
<1>7. /\ job' \in [S!Tasks -> SharedJobs] /\ job'[x] = k /\ OthersKept(x)
      /\ \A y \in S!Tasks \ {x} :
            job[y].node = n /\ job[y].pc \in {"set", "reset"} => r \in job'[y].raced
  BY <1>1, <1>2, <1>5, SharedFacts, JobRaced
<1>8. SharedTypes'
  BY <1>1, <1>3, <1>6, <1>7, SharedFacts DEF SharedTypes
<1>9. \A m, q :
         /\ Cardinality(OwnedRows(m)) \in Nat /\ Cardinality(OwnedRows(m)') \in Nat
         /\ Cardinality(OwnedRows(m)') =
              Cardinality(OwnedRows(m)) + Bit(HasOwner(v, m)) - Bit(HasOwner(table[s], m))
         /\ Cardinality(RowsBy(m, q)) \in Nat /\ Cardinality(RowsBy(m, q)') \in Nat
         /\ Cardinality(RowsBy(m, q)') =
              Cardinality(RowsBy(m, q)) + Bit(MadeBy(v, m, q)) - Bit(MadeBy(table[s], m, q))
  <2>1. table \in [SharedSids -> S!Row \cup {None}]
    BY SharedFacts DEF SharedTypes
  <2>2. s \in SharedSids /\ table' = [table EXCEPT ![s] = v]
    BY <1>1, <1>3
  <2> HIDE DEF s
  <2> QED
    BY <2>1, <2>2, RowCounts
<1>10. ASSUME NEW m, NEW q
       PROVE  /\ Bit(HasOwner(v, m)) = IF m = n THEN 1 ELSE 0
              /\ Bit(HasOwner(table[s], m)) = 0 /\ Bit(MadeBy(table[s], m, q)) = 0
              /\ Bit(MadeBy(v, m, q)) = IF m = n /\ q = r THEN 1 ELSE 0
  BY <1>6 DEF HasOwner, MadeBy, Bit
<1>11. ASSUME NEW m, NEW q
       PROVE  /\ Bit(Waits(x, job[x], m)) = 0
              /\ Bit(Waits(x, job'[x], m)) = IF m = n THEN 1 ELSE 0
              /\ Bit(Bumps(x, job[x], m, q)) = 0
              /\ Bit(Bumps(x, job'[x], m, q)) =
                   IF m = n /\ q = r /\ ~job[x].reserved THEN 1 ELSE 0
              /\ Bit(Reserves(job[x], m, q)) = IF m = n /\ q = r /\ job[x].reserved THEN 1 ELSE 0
              /\ ~Reserves(job'[x], m, q) /\ Bit(Reserves(job'[x], m, q)) = 0
  BY <1>1, <1>2, <1>7 DEF Waits, Reserves, Bumps, Bit
<1> HIDE DEF n, r, s
<1>12. DrainBalance(x)
  <2>1. ASSUME NEW m \in Members
        PROVE  /\ Cardinality(OwnedRows(m)) \in Nat /\ Cardinality(OwnedRows(m)') \in Nat
               /\ Cardinality(OwnedRows(m)') + Bit(Waits(x, job[x], m))
                    <= Cardinality(OwnedRows(m)) + Bit(Waits(x, job'[x], m))
    <3>1. /\ Cardinality(OwnedRows(m)) \in Nat /\ Cardinality(OwnedRows(m)') \in Nat
          /\ Cardinality(OwnedRows(m)') =
               Cardinality(OwnedRows(m)) + Bit(HasOwner(v, m)) - Bit(HasOwner(table[s], m))
      BY <1>9
    <3>2. Bit(HasOwner(v, m)) = (IF m = n THEN 1 ELSE 0) /\ Bit(HasOwner(table[s], m)) = 0
      BY <1>10
    <3>3. Bit(Waits(x, job[x], m)) = 0 /\ Bit(Waits(x, job'[x], m)) = IF m = n THEN 1 ELSE 0
      BY <1>11
    <3> QED
      BY <3>1, <3>2, <3>3
  <2>2. job'[x].pc # "store"
    BY <1>2, <1>7
  <2> QED
    BY <1>3, <2>1, <2>2 DEF DrainBalance
<1>13. SeatBalance(x)
  <2>1. ASSUME NEW m \in Members, NEW q \in SharedReplicas
        PROVE  Bit(Reserves(job'[x], m, q)) + Cardinality(RowsBy(m, q)')
                   + counted[m][q] + Bit(Bumps(x, job[x], m, q))
                 <= Bit(Reserves(job[x], m, q)) + Cardinality(RowsBy(m, q))
                      + counted'[m][q] + Bit(Bumps(x, job'[x], m, q))
    <3>1. counted[m][q] \in Nat /\ counted'[m][q] = counted[m][q]
      BY <1>3, SharedFacts DEF SharedTypes
    <3>2. /\ Cardinality(RowsBy(m, q)) \in Nat /\ Cardinality(RowsBy(m, q)') \in Nat
          /\ Cardinality(RowsBy(m, q)') = Cardinality(RowsBy(m, q))
               + Bit(MadeBy(v, m, q)) - Bit(MadeBy(table[s], m, q))
      BY <1>9
    <3>3. /\ Bit(MadeBy(v, m, q)) = (IF m = n /\ q = r THEN 1 ELSE 0)
          /\ Bit(MadeBy(table[s], m, q)) = 0
      BY <1>10
    <3> QED
      BY <1>11, <3>1, <3>2, <3>3
  <2> QED
    BY <1>3, <1>9, <2>1 DEF SeatBalance
<1>14. CountBalance(x)
  <2>1. ASSUME NEW m \in Members, NEW q \in SharedReplicas
        PROVE  \/ /\ ~Reserves(job'[x], m, q)
                  /\ Cardinality(RowsBy(m, q)') <= Cardinality(RowsBy(m, q))
               \/ \A y \in S!Tasks \ {x} :
                     job[y].node = m /\ job[y].pc \in {"set", "reset"} => q \in job'[y].raced
    <3>1. CASE m = n /\ q = r
      BY <1>7, <3>1
    <3>2. CASE ~(m = n /\ q = r)
      <4>1. /\ Cardinality(RowsBy(m, q)) \in Nat /\ Cardinality(RowsBy(m, q)') \in Nat
            /\ Cardinality(RowsBy(m, q)') = Cardinality(RowsBy(m, q))
                 + Bit(MadeBy(v, m, q)) - Bit(MadeBy(table[s], m, q))
        BY <1>9
      <4>2. Bit(MadeBy(v, m, q)) = 0 /\ Bit(MadeBy(table[s], m, q)) = 0
        BY <1>10, <3>2
      <4> QED
        BY <1>11, <4>1, <4>2
    <3> QED
      BY <3>1, <3>2
  <2>2. ASSUME NEW q PROVE ~Counts(x, q)'
    BY <1>2, <1>7 DEF Counts
  <2> QED
    BY <2>1, <2>2 DEF CountBalance
<1> QED
  BY <1>1, <1>2, <1>7, <1>8, <1>12, <1>13, <1>14, SharedStep

(* The upsert refreshes a row, whose owner becomes the node of the touch.  *)
LEMMA SharedTouchOld ==
    ASSUME SharedInv, NEW x \in SharedRequests, S!Touch(x), table[job[x].sess] # None
    PROVE  SharedInv'
<1> DEFINE n == job[x].node
           s == job[x].sess
           o == table[s]
           v == [o EXCEPT !.owner = n, !.idle = FALSE]
           k == IF o.owner # n THEN [S!NoJob(x) EXCEPT !.pc = "took", !.node = n] ELSE S!NoJob(x)
<1>1. /\ x \in S!Tasks /\ x \notin Members /\ job[x].pc = "touch" /\ n \in Members
      /\ s \in SharedSids /\ job[x].rep \in SharedReplicas
  BY SharedFacts DEF S!Touch, TaskLink
<1>2. table \in [SharedSids -> S!Row \cup {None}] /\ o \in S!Row /\ o # None
  BY <1>1, SharedFacts DEF SharedTypes
<1>3. /\ table' = [table EXCEPT ![s] = v] /\ job' = [job EXCEPT ![x] = k]
      /\ sharedCookie' = [sharedCookie EXCEPT ![s] = job[x].rep]
      /\ UNCHANGED <<counted, len, leader, excused, missed>>
  <2>1. /\ table' = [table EXCEPT ![s].owner = n, ![s].idle = FALSE]
        /\ job' = IF o.owner # n THEN [job EXCEPT ![x] = [S!NoJob(x) EXCEPT !.pc = "took",
                                                                  !.node = n]]
                  ELSE [job EXCEPT ![x] = S!NoJob(x)]
        /\ sharedCookie' = [sharedCookie EXCEPT ![s] = job[x].rep]
        /\ UNCHANGED <<counted, len, leader, excused, missed>>
    BY <1>2 DEF S!Touch, S!Done
  <2>2. table' = [table EXCEPT ![s] = v]
    BY <1>1, <1>2, <2>1
  <2> QED
    BY <2>1, <2>2
<1>4. v \in S!Row /\ v.owner = n /\ v.rep = o.rep /\ v.by = o.by
  BY <1>1, <1>2 DEF S!Row
<1>5. v # None
  <2> HIDE DEF v
  <2> QED
    BY <1>4, SharedAssumption
<1>6. k \in SharedJobs /\ TaskLink(x, k) /\ k.pc = (IF o.owner # n THEN "took" ELSE "idle")
      /\ (o.owner # n => k.node = n)
  <2>1. S!NoJob(x) \in SharedJobs /\ TaskLink(x, S!NoJob(x)) /\ S!NoJob(x).pc = "idle"
    BY <1>1, NoJobFits
  <2> DEFINE w == [S!NoJob(x) EXCEPT !.pc = "took", !.node = n]
  <2>2. w \in SharedJobs /\ w.pc = "took" /\ w.node = n
    BY <1>1, <2>1 DEF SharedJobs, SharedSteps
  <2>3. k = IF o.owner # n THEN w ELSE S!NoJob(x)
    OBVIOUS
  <2> HIDE DEF w, k
  <2>4. TaskLink(x, w)
    BY <1>1, <2>2 DEF TaskLink
  <2> QED
    BY <2>1, <2>2, <2>3, <2>4
<1> HIDE DEF k, v, o
<1>7. job' \in [S!Tasks -> SharedJobs] /\ job'[x] = k /\ OthersKept(x)
  <2>1. job' = [job EXCEPT ![x] = k] /\ x \in S!Tasks
    BY <1>1, <1>3
  <2> QED
    BY <1>6, <2>1, SharedFacts, JobSet
<1>8. SharedTypes'
  BY <1>1, <1>2, <1>3, <1>4, <1>7, SharedFacts DEF SharedTypes
<1>9. \A m, q :
         /\ Cardinality(OwnedRows(m)) \in Nat /\ Cardinality(OwnedRows(m)') \in Nat
         /\ Cardinality(OwnedRows(m)') =
              Cardinality(OwnedRows(m)) + Bit(HasOwner(v, m)) - Bit(HasOwner(table[s], m))
         /\ Cardinality(RowsBy(m, q)) \in Nat /\ Cardinality(RowsBy(m, q)') \in Nat
         /\ Cardinality(RowsBy(m, q)') =
              Cardinality(RowsBy(m, q)) + Bit(MadeBy(v, m, q)) - Bit(MadeBy(table[s], m, q))
  <2>1. s \in SharedSids /\ table' = [table EXCEPT ![s] = v]
    BY <1>1, <1>3
  <2> HIDE DEF s
  <2> QED
    BY <1>2, <2>1, RowCounts
<1>10. ASSUME NEW m, NEW q
       PROVE  /\ Bit(HasOwner(v, m)) = IF m = n THEN 1 ELSE 0
              /\ Bit(HasOwner(table[s], m)) = IF m = o.owner THEN 1 ELSE 0
              /\ Bit(MadeBy(v, m, q)) = Bit(MadeBy(table[s], m, q))
              /\ Bit(MadeBy(v, m, q)) \in {0, 1}
  <2>1. table[s] = o
    BY DEF o
  <2> QED
    BY <1>2, <1>4, <1>5, <2>1 DEF HasOwner, MadeBy, Bit
<1>11. ASSUME NEW m, NEW q
       PROVE  /\ Bit(Waits(x, job[x], m)) = 0
              /\ Bit(Waits(x, job'[x], m)) \in {0, 1}
              /\ (m = n /\ o.owner # n) => Bit(Waits(x, job'[x], m)) = 1
              /\ Bit(Bumps(x, job[x], m, q)) = 0 /\ Bit(Bumps(x, job'[x], m, q)) = 0
              /\ Bit(Reserves(job[x], m, q)) \in {0, 1}
              /\ ~Reserves(job'[x], m, q) /\ Bit(Reserves(job'[x], m, q)) = 0
  BY <1>1, <1>6, <1>7 DEF Waits, Reserves, Bumps, Bit
<1> HIDE DEF n, s
<1>12. DrainBalance(x)
  <2>1. ASSUME NEW m \in Members
        PROVE  /\ Cardinality(OwnedRows(m)) \in Nat /\ Cardinality(OwnedRows(m)') \in Nat
               /\ Cardinality(OwnedRows(m)') + Bit(Waits(x, job[x], m))
                    <= Cardinality(OwnedRows(m)) + Bit(Waits(x, job'[x], m))
    <3>1. /\ Cardinality(OwnedRows(m)) \in Nat /\ Cardinality(OwnedRows(m)') \in Nat
          /\ Cardinality(OwnedRows(m)') =
               Cardinality(OwnedRows(m)) + Bit(HasOwner(v, m)) - Bit(HasOwner(table[s], m))
      BY <1>9
    <3>2. /\ Bit(HasOwner(v, m)) = (IF m = n THEN 1 ELSE 0)
          /\ Bit(HasOwner(table[s], m)) = (IF m = o.owner THEN 1 ELSE 0)
      BY <1>10
    <3>3. /\ Bit(Waits(x, job[x], m)) = 0 /\ Bit(Waits(x, job'[x], m)) \in {0, 1}
          /\ (m = n /\ o.owner # n) => Bit(Waits(x, job'[x], m)) = 1
      BY <1>11
    <3> QED
      BY <3>1, <3>2, <3>3
  <2>2. job'[x].pc # "store"
    BY <1>6, <1>7
  <2> QED
    BY <1>3, <2>1, <2>2 DEF DrainBalance
<1>13. \A m, q : Cardinality(RowsBy(m, q)') = Cardinality(RowsBy(m, q))
                  /\ Cardinality(RowsBy(m, q)) \in Nat
  <2> TAKE m, q
  <2>1. /\ Cardinality(RowsBy(m, q)) \in Nat /\ Cardinality(RowsBy(m, q)') \in Nat
        /\ Cardinality(RowsBy(m, q)') =
             Cardinality(RowsBy(m, q)) + Bit(MadeBy(v, m, q)) - Bit(MadeBy(table[s], m, q))
    BY <1>9
  <2>2. Bit(MadeBy(v, m, q)) = Bit(MadeBy(table[s], m, q)) /\ Bit(MadeBy(v, m, q)) \in {0, 1}
    BY <1>10
  <2> QED
    BY <2>1, <2>2
<1>14. SeatBalance(x)
  <2>1. ASSUME NEW m \in Members, NEW q \in SharedReplicas
        PROVE  Bit(Reserves(job'[x], m, q)) + Cardinality(RowsBy(m, q)')
                   + counted[m][q] + Bit(Bumps(x, job[x], m, q))
                 <= Bit(Reserves(job[x], m, q)) + Cardinality(RowsBy(m, q))
                      + counted'[m][q] + Bit(Bumps(x, job'[x], m, q))
    <3>1. counted[m][q] \in Nat /\ counted'[m][q] = counted[m][q]
      BY <1>3, SharedFacts DEF SharedTypes
    <3> QED
      BY <1>11, <1>13, <3>1
  <2> QED
    BY <1>3, <1>13, <2>1 DEF SeatBalance
<1>15. CountBalance(x)
  <2>1. ASSUME NEW q PROVE ~Counts(x, q)'
    BY <1>6, <1>7 DEF Counts
  <2>2. ASSUME NEW m \in Members, NEW q \in SharedReplicas
        PROVE  ~Reserves(job'[x], m, q) /\ Cardinality(RowsBy(m, q)') <= Cardinality(RowsBy(m, q))
    BY <1>11, <1>13
  <2> QED
    BY <2>1, <2>2 DEF CountBalance
<1> QED
  BY <1>1, <1>6, <1>7, <1>8, <1>12, <1>14, <1>15, SharedStep

(* A request that is done adds one to the node's own sessions, and every   *)
(* count of them that is under way learns of it.                           *)
LEMMA DrainGained ==
    ASSUME SharedInv, SharedTypes', TaskLinks', NEW x \in SharedRequests, NEW n \in Members,
           job[x].node = n, job[x].pc \in {"count", "set", "took"},
           job' = S!Gain(S!Done(x), n), len' = [len EXCEPT ![n] = @ + 1],
           UNCHANGED <<table, missed>>
    PROVE  DrainHolds' /\ StoreHolds'
<1> DEFINE d == [m \in Members |-> IF m = n THEN 1 ELSE 0]
<1>1. d \in [Members -> {0, 1}] /\ \A m \in Members : d[m] = IF m = n THEN 1 ELSE 0
  OBVIOUS
<1> HIDE DEF d
<1>2. x \in S!Tasks /\ x \notin Members
  BY SharedFacts
<1>3. /\ job'[x] = S!NoJob(x) /\ OthersKept(x)
      /\ \A y \in S!Tasks \ {x} :
            job[y].node = n /\ job[y].pc = "store" => job'[y].gains = job[y].gains + 1
  BY SharedFacts, JobGained
<1>4. S!NoJob(x).pc = "idle"
  BY <1>2, NoJobFits
<1>5. ASSUME NEW m \in Members
      PROVE  /\ Cardinality(OwnedRows(m)) \in Nat /\ Cardinality(OwnedRows(m)') \in Nat
             /\ Cardinality(Waiting(m)) \in Nat /\ Cardinality(Waiting(m)') \in Nat
             /\ Cardinality(OwnedRows(m)') + Cardinality(Waiting(m))
                  <= Cardinality(OwnedRows(m)) + Cardinality(Waiting(m)') + d[m]
  <2>1. OwnedRows(m)' = OwnedRows(m) /\ Cardinality(OwnedRows(m)) \in Nat
    BY OwnedIsNat DEF OwnedRows, S!Rows
  <2>2. /\ Cardinality(Waiting(m)) \in Nat /\ Cardinality(Waiting(m)') \in Nat
        /\ Cardinality(Waiting(m)') =
             Cardinality(Waiting(m)) + Bit(Waits(x, job'[x], m)) - Bit(Waits(x, job[x], m))
    BY <1>2, <1>3, TaskCounts
  <2>3. Bit(Waits(x, job'[x], m)) = 0 /\ Bit(Waits(x, job[x], m)) = IF m = n THEN 1 ELSE 0
    BY <1>2, <1>3, <1>4 DEF Waits, Bit
  <2> QED
    BY <1>1, <2>1, <2>2, <2>3
<1>6. ASSUME NEW m \in Members
      PROVE  len[m] + missed[m] + d[m] <= len'[m] + missed'[m]
  <2>1. len \in [Members -> Nat] /\ missed[m] \in Nat /\ missed'[m] = missed[m]
    BY SharedFacts DEF SharedTypes
  <2>2. len[m] \in Nat /\ len'[m] = IF m = n THEN len[m] + 1 ELSE len[m]
    BY <2>1
  <2> QED
    BY <1>1, <2>1, <2>2
<1>7. ASSUME NEW y \in S!Tasks, NEW m \in Members, job'[y].pc = "store", job'[y].node = m
      PROVE  /\ job[y].pc = "store" /\ job[y].node = m /\ job'[y].mine = job[y].mine
             /\ job[y].gains + d[m] <= job'[y].gains
  <2>1. y # x
    BY <1>3, <1>4, <1>7
  <2>2. Kept(job[y], job'[y]) /\ job[y].gains \in Nat
    BY <1>3, <2>1, SharedFacts DEF OthersKept, SharedJobs
  <2>3. /\ job[y].pc = "store" /\ job[y].node = m /\ job'[y].mine = job[y].mine
        /\ job[y].gains <= job'[y].gains
    BY <1>7, <2>2 DEF Kept
  <2>4. m = n => job'[y].gains = job[y].gains + 1
    BY <1>3, <2>1, <2>3
  <2> QED
    BY <1>1, <2>2, <2>3, <2>4
<1> QED
  BY <1>1, <1>5, <1>6, <1>7, DrainStep

(* The table is left alone.                                                *)
LEMMA RowsUnchanged ==
    ASSUME table' = table
    PROVE  \A n, r : /\ OwnedRows(n)' = OwnedRows(n) /\ RowsBy(n, r)' = RowsBy(n, r)
                     /\ Cardinality(OwnedRows(n)) \in Nat /\ Cardinality(RowsBy(n, r)) \in Nat
<1> TAKE n, r
<1>1. /\ OwnedRows(n)' = OwnedRows(n) /\ RowsBy(n, r)' = RowsBy(n, r)
      /\ OwnedRows(n) \in SUBSET SharedSids /\ RowsBy(n, r) \in SUBSET SharedSids
  BY DEF OwnedRows, RowsBy, S!Rows
<1> QED
  BY <1>1, SharedFinite

(* A task that neither reserves nor counts from here on disturbs no count. *)
LEMMA CountQuiet ==
    ASSUME NEW x, table' = table, job'[x].pc \in {"idle", "store", "group"}
    PROVE  CountBalance(x)
<1>1. ASSUME NEW n, NEW r
      PROVE  /\ ~Reserves(job'[x], n, r) /\ ~Counts(x, r)'
             /\ Cardinality(RowsBy(n, r)') <= Cardinality(RowsBy(n, r))
  <2>1. ~Reserves(job'[x], n, r) /\ ~Counts(x, r)'
    BY DEF Reserves, Counts
  <2>2. RowsBy(n, r)' = RowsBy(n, r) /\ Cardinality(RowsBy(n, r)) \in Nat
    BY RowsUnchanged
  <2> QED
    BY <2>1, <2>2
<1> QED
  BY <1>1 DEF CountBalance

(* A request that has counted is done.                                     *)
LEMMA SharedGained ==
    ASSUME SharedInv, NEW x \in SharedRequests, job[x].pc \in {"count", "set", "took"},
           job' = S!Gain(S!Done(x), job[x].node),
           len' = [len EXCEPT ![job[x].node] = @ + 1],
           UNCHANGED <<table, sharedCookie, leader, missed>>,
           counted' \in [Members -> [SharedReplicas -> Nat]],
           excused' \in [Members -> SUBSET SharedReplicas],
           SeatBalance(x)
    PROVE  SharedInv'
<1>1. x \in S!Tasks /\ x \notin Members /\ job[x].node \in Members
  BY SharedFacts DEF TaskLink
<1>2. job' \in [S!Tasks -> SharedJobs] /\ job'[x] = S!NoJob(x) /\ OthersKept(x)
  BY SharedFacts, JobGained
<1>3. S!NoJob(x).pc = "idle" /\ TaskLink(x, S!NoJob(x))
  BY <1>1, NoJobFits
<1>4. len' \in [Members -> Nat]
  BY <1>1, SharedFacts DEF SharedTypes
<1>5. SharedTypes'
  BY <1>2, <1>4, SharedFacts DEF SharedTypes
<1>6. TaskLinks'
  BY <1>1, <1>2, <1>3, LinksStep DEF SharedInv
<1>7. DrainHolds' /\ StoreHolds'
  BY <1>1, <1>5, <1>6, DrainGained
<1>8. CountBalance(x)
  BY <1>2, <1>3, CountQuiet
<1>9. SeatsHold' /\ CountHolds'
  BY <1>1, <1>2, <1>5, <1>6, <1>8, SeatsKept
<1> QED
  BY <1>5, <1>6, <1>7, <1>9 DEF SharedInv

(* A touch that took a session over from another node.                     *)
LEMMA SharedTookOver ==
    ASSUME SharedInv, NEW x \in SharedRequests, S!TookOver(x)
    PROVE  SharedInv'
<1>1. /\ job[x].pc = "took" /\ job' = S!Gain(S!Done(x), job[x].node)
      /\ len' = [len EXCEPT ![job[x].node] = @ + 1]
      /\ UNCHANGED <<table, counted, sharedCookie, leader, excused, missed>>
  BY DEF S!TookOver
<1>2. job'[x] = S!NoJob(x) /\ S!NoJob(x).pc = "idle" /\ x \in S!Tasks
  BY <1>1, SharedFacts, JobGained, NoJobFits
<1>3. SeatBalance(x)
  <2>1. ASSUME NEW n \in Members, NEW r \in SharedReplicas
        PROVE  Bit(Reserves(job'[x], n, r)) + Cardinality(RowsBy(n, r)')
                   + counted[n][r] + Bit(Bumps(x, job[x], n, r))
                 <= Bit(Reserves(job[x], n, r)) + Cardinality(RowsBy(n, r))
                      + counted'[n][r] + Bit(Bumps(x, job'[x], n, r))
    <3>1. /\ Bit(Reserves(job'[x], n, r)) = 0 /\ Bit(Reserves(job[x], n, r)) = 0
          /\ Bit(Bumps(x, job[x], n, r)) = 0 /\ Bit(Bumps(x, job'[x], n, r)) = 0
      BY <1>1, <1>2 DEF Reserves, Bumps, Bit
    <3>2. RowsBy(n, r)' = RowsBy(n, r) /\ Cardinality(RowsBy(n, r)) \in Nat
      BY <1>1, RowsUnchanged
    <3>3. counted'[n][r] = counted[n][r] /\ counted[n][r] \in Nat
      BY <1>1, SharedFacts DEF SharedTypes
    <3> QED
      BY <3>1, <3>2, <3>3
  <2> QED
    BY <1>1, <2>1, RowsUnchanged DEF SeatBalance
<1>4. counted' \in [Members -> [SharedReplicas -> Nat]] /\ excused' \in [Members -> SUBSET SharedReplicas]
  BY <1>1, SharedFacts DEF SharedTypes
<1> QED
  BY <1>1, <1>3, <1>4, SharedGained

(* The count after a touch fails; the node counts by itself.               *)
LEMMA SharedCountFails ==
    ASSUME SharedInv, NEW x \in SharedRequests, S!CountFails(x)
    PROVE  SharedInv'
<1> DEFINE n == job[x].node
           r == job[x].rep
<1>1. /\ job[x].pc = "count" /\ job' = S!Gain(S!Done(x), n)
      /\ len' = [len EXCEPT ![n] = @ + 1]
      /\ UNCHANGED <<table, sharedCookie, leader, excused, missed>>
      /\ counted' = IF job[x].reserved THEN counted ELSE [counted EXCEPT ![n][r] = @ + 1]
  BY DEF S!CountFails, S!BlindBump
<1>2. /\ job'[x] = S!NoJob(x) /\ S!NoJob(x).pc = "idle" /\ x \in S!Tasks /\ x \notin Members
      /\ n \in Members /\ r \in SharedReplicas /\ job[x].reserved \in BOOLEAN
  BY <1>1, SharedFacts, JobGained, NoJobFits DEF TaskLink, SharedJobs
<1>3. /\ counted \in [Members -> [SharedReplicas -> Nat]]
      /\ excused' \in [Members -> SUBSET SharedReplicas]
  BY <1>1, SharedFacts DEF SharedTypes
<1>4. /\ counted' \in [Members -> [SharedReplicas -> Nat]]
      /\ \A m \in Members, q \in SharedReplicas :
           /\ counted[m][q] \in Nat
           /\ counted'[m][q] = IF m = n /\ q = r /\ ~job[x].reserved
                               THEN counted[m][q] + 1 ELSE counted[m][q]
  <2>1. CASE job[x].reserved
    BY <1>1, <1>3, <2>1
  <2>2. CASE ~job[x].reserved
    <3>1. counted' = [counted EXCEPT ![n][r] = @ + 1]
      BY <1>1, <2>2
    <3> HIDE DEF n, r
    <3> QED
      BY <1>2, <1>3, <2>2, <3>1
  <2> QED
    BY <2>1, <2>2
<1>5. SeatBalance(x)
  <2>1. ASSUME NEW m \in Members, NEW q \in SharedReplicas
        PROVE  Bit(Reserves(job'[x], m, q)) + Cardinality(RowsBy(m, q)')
                   + counted[m][q] + Bit(Bumps(x, job[x], m, q))
                 <= Bit(Reserves(job[x], m, q)) + Cardinality(RowsBy(m, q))
                      + counted'[m][q] + Bit(Bumps(x, job'[x], m, q))
    <3>1. /\ Bit(Reserves(job'[x], m, q)) = 0 /\ Bit(Reserves(job[x], m, q)) = 0
          /\ Bit(Bumps(x, job'[x], m, q)) = 0
          /\ Bit(Bumps(x, job[x], m, q)) =
               IF m = n /\ q = r /\ ~job[x].reserved THEN 1 ELSE 0
      BY <1>1, <1>2 DEF Reserves, Bumps, Bit
    <3>2. RowsBy(m, q)' = RowsBy(m, q) /\ Cardinality(RowsBy(m, q)) \in Nat
      BY <1>1, RowsUnchanged
    <3>3. /\ counted[m][q] \in Nat
          /\ counted'[m][q] = IF m = n /\ q = r /\ ~job[x].reserved
                              THEN counted[m][q] + 1 ELSE counted[m][q]
      BY <1>4
    <3> HIDE DEF n, r
    <3> QED
      BY <3>1, <3>2, <3>3
  <2> QED
    BY <1>1, <2>1, RowsUnchanged DEF SeatBalance
<1> QED
  BY <1>1, <1>3, <1>4, <1>5, SharedGained

(* The count a request has read overwrites the registry's: it covers the   *)
(* node's rows and nothing is outstanding, or a reservation raced with it. *)
LEMMA CountSet ==
    ASSUME SharedInv, NEW x \in SharedRequests, job[x].pc \in {"set", "reset"},
           S!SetCount(job[x].node, job[x].rep, job[x]), OthersKept(x),
           job'[x].pc \in {"idle", "store"}, table' = table
    PROVE  /\ counted' \in [Members -> [SharedReplicas -> Nat]]
           /\ excused' \in [Members -> SUBSET SharedReplicas]
           /\ SeatBalance(x)
<1> DEFINE n == job[x].node
           r == job[x].rep
           e == IF r \in job[x].raced THEN excused[n] \cup {r} ELSE excused[n] \ {r}
<1>1. /\ x \in S!Tasks /\ x \notin Members /\ n \in Members /\ r \in SharedReplicas
      /\ job[x].cnt \in [SharedReplicas -> Nat] /\ job[x].cnt[r] \in Nat
  BY SharedFacts DEF TaskLink, SharedJobs
<1>2. /\ counted' = [counted EXCEPT ![n][r] = job[x].cnt[r]]
      /\ excused' = [excused EXCEPT ![n] = e]
  BY DEF S!SetCount
<1>3. /\ counted \in [Members -> [SharedReplicas -> Nat]]
      /\ excused \in [Members -> SUBSET SharedReplicas]
  BY SharedFacts DEF SharedTypes
<1>4. /\ e \in SUBSET SharedReplicas
      /\ r \in job[x].raced => r \in e
      /\ \A q \in SharedReplicas \ {r} : q \in e <=> q \in excused[n]
  BY <1>1, <1>3
<1> HIDE DEF n, r, e
<1>5. /\ counted' \in [Members -> [SharedReplicas -> Nat]]
      /\ excused' \in [Members -> SUBSET SharedReplicas]
      /\ counted'[n][r] = job[x].cnt[r] /\ excused'[n] = e
      /\ \A m \in Members : m # n => excused'[m] = excused[m]
      /\ \A m \in Members, q \in SharedReplicas :
            (m # n \/ q # r) => counted'[m][q] = counted[m][q]
  BY <1>1, <1>2, <1>3, <1>4
<1>6. ASSUME NEW m \in Members, NEW q \in SharedReplicas, ~(m = n /\ q = r)
      PROVE  \/ q \in excused'[m]
             \/ /\ q \notin excused[m]
                /\ Bit(Reserves(job'[x], m, q)) + Cardinality(RowsBy(m, q)')
                     + counted[m][q] + Bit(Bumps(x, job[x], m, q))
                   <= Bit(Reserves(job[x], m, q)) + Cardinality(RowsBy(m, q))
                        + counted'[m][q] + Bit(Bumps(x, job'[x], m, q))
  <2>1. /\ Bit(Reserves(job'[x], m, q)) = 0 /\ Bit(Reserves(job[x], m, q)) = 0
        /\ Bit(Bumps(x, job'[x], m, q)) = 0 /\ Bit(Bumps(x, job[x], m, q)) = 0
    BY <1>6 DEF Reserves, Bumps, Bit, n, r
  <2>2. RowsBy(m, q)' = RowsBy(m, q) /\ Cardinality(RowsBy(m, q)) \in Nat
    BY RowsUnchanged
  <2>3. counted'[m][q] = counted[m][q] /\ counted[m][q] \in Nat
    BY <1>3, <1>5, <1>6
  <2>4. q \in excused'[m] <=> q \in excused[m]
    BY <1>4, <1>5, <1>6
  <2> QED
    BY <2>1, <2>2, <2>3, <2>4
<1>7. ASSUME NEW m \in Members, NEW q \in SharedReplicas, m = n, q = r
      PROVE  \/ q \in excused'[m]
             \/ S!Outstanding(m, q)' = {} /\ Cardinality(RowsBy(m, q)') <= counted'[m][q]
  <2>1. CASE q \in job[x].raced
    BY <1>4, <1>5, <1>7, <2>1
  <2>2. CASE q \notin job[x].raced
    <3>1. Counts(x, q) /\ job[x].node = m
      BY <1>7 DEF Counts, n, r
    <3>2. S!Outstanding(m, q) = {} /\ Cardinality(RowsBy(m, q)) <= job[x].cnt[q]
      BY <1>1, <2>2, <3>1 DEF SharedInv, CountHolds
    <3>3. ~Reserves(job'[x], m, q)
      BY DEF Reserves
    <3>4. S!Outstanding(m, q)' \subseteq S!Outstanding(m, q)
      BY <1>1, <3>3, OutstandingShrinks
    <3>5. RowsBy(m, q)' = RowsBy(m, q)
      BY RowsUnchanged
    <3>6. counted'[m][q] = job[x].cnt[q]
      BY <1>5, <1>7
    <3> QED
      BY <3>2, <3>4, <3>5, <3>6
  <2> QED
    BY <2>1, <2>2
<1>8. \A m, q : Cardinality(RowsBy(m, q)) \in Nat /\ Cardinality(RowsBy(m, q)') \in Nat
  BY RowsUnchanged
<1>9. SeatBalance(x)
  BY <1>6, <1>7, <1>8 DEF SeatBalance
<1> QED
  BY <1>5, <1>9

(* A touch returns and the session is registered.                          *)
LEMMA SharedRegistered ==
    ASSUME SharedInv, NEW x \in SharedRequests, S!Registered(x)
    PROVE  SharedInv'
<1>1. /\ job[x].pc = "set" /\ job' = S!Gain(S!Done(x), job[x].node)
      /\ len' = [len EXCEPT ![job[x].node] = @ + 1]
      /\ UNCHANGED <<table, sharedCookie, leader, missed>>
      /\ S!SetCount(job[x].node, job[x].rep, job[x])
  BY DEF S!Registered
<1>2. OthersKept(x) /\ job'[x] = S!NoJob(x) /\ S!NoJob(x).pc = "idle"
  BY <1>1, SharedFacts, JobGained, NoJobFits
<1>3. /\ counted' \in [Members -> [SharedReplicas -> Nat]]
      /\ excused' \in [Members -> SUBSET SharedReplicas] /\ SeatBalance(x)
  BY <1>1, <1>2, CountSet
<1> QED
  BY <1>1, <1>3, SharedGained

(* A replica's count covers the rows that one node made.                   *)
LEMMA CountCovers ==
    \A n, r : S!CountIn(r) \in Nat /\ Cardinality(RowsBy(n, r)) <= S!CountIn(r)
<1> TAKE n, r
<1> DEFINE T == {s \in S!Rows : table[s].rep = r}
<1>1. T \in SUBSET SharedSids /\ RowsBy(n, r) \in SUBSET T
  BY DEF RowsBy, S!Rows
<1>2. S!CountIn(r) = Cardinality(T)
  BY SharedCardinality DEF S!CountIn
<1> HIDE DEF T
<1> QED
  BY <1>1, <1>2, SharedFinite, FewerCounted

(* A step that leaves table and counters alone and after which the task    *)
(* counts what it has just read.                                           *)
LEMMA CountTaken ==
    ASSUME SharedInv, NEW x \in S!Tasks, job' \in [S!Tasks -> SharedJobs], OthersKept(x),
           TaskLink(x, job'[x]),
           UNCHANGED <<table, counted, len, sharedCookie, leader, excused, missed>>,
           \A n, r : /\ Waits(x, job'[x], n) <=> Waits(x, job[x], n)
                     /\ Bumps(x, job'[x], n, r) <=> Bumps(x, job[x], n, r),
           job[x].pc # "touch", job'[x].pc \in {"set", "reset"},
           \A n \in Members, r \in SharedReplicas :
              Counts(x, r)' /\ job'[x].node = n /\ r \notin job'[x].raced =>
                 S!Outstanding(n, r) = {} /\ job'[x].cnt[r] = S!CountIn(r)
    PROVE  SharedInv'
<1>1. SharedTypes'
  BY SharedFacts DEF SharedTypes
<1>2. \A n, r : ~Reserves(job'[x], n, r) /\ ~Reserves(job[x], n, r)
  BY DEF Reserves
<1>3. \A n, r : /\ OwnedRows(n)' = OwnedRows(n) /\ RowsBy(n, r)' = RowsBy(n, r)
                /\ Cardinality(OwnedRows(n)) \in Nat /\ Cardinality(RowsBy(n, r)) \in Nat
  BY RowsUnchanged
<1>4. DrainBalance(x)
  <2>1. ASSUME NEW n \in Members
        PROVE  /\ Cardinality(OwnedRows(n)) \in Nat /\ Cardinality(OwnedRows(n)') \in Nat
               /\ Cardinality(OwnedRows(n)') + Bit(Waits(x, job[x], n))
                    <= Cardinality(OwnedRows(n)) + Bit(Waits(x, job'[x], n))
    <3>1. OwnedRows(n)' = OwnedRows(n) /\ Cardinality(OwnedRows(n)) \in Nat
      BY <1>3
    <3>2. Bit(Waits(x, job'[x], n)) = Bit(Waits(x, job[x], n)) /\ Bit(Waits(x, job[x], n)) \in {0, 1}
      BY DEF Bit
    <3> QED
      BY <3>1, <3>2
  <2> QED
    BY <2>1 DEF DrainBalance
<1>5. SeatBalance(x)
  <2>1. ASSUME NEW n \in Members, NEW r \in SharedReplicas
        PROVE  Bit(Reserves(job'[x], n, r)) + Cardinality(RowsBy(n, r)')
                   + counted[n][r] + Bit(Bumps(x, job[x], n, r))
                 <= Bit(Reserves(job[x], n, r)) + Cardinality(RowsBy(n, r))
                      + counted'[n][r] + Bit(Bumps(x, job'[x], n, r))
    <3>1. /\ Bit(Reserves(job'[x], n, r)) = 0 /\ Bit(Reserves(job[x], n, r)) = 0
          /\ Bit(Bumps(x, job'[x], n, r)) = Bit(Bumps(x, job[x], n, r))
          /\ Bit(Bumps(x, job[x], n, r)) \in {0, 1}
      BY <1>2 DEF Bit
    <3>2. counted'[n][r] = counted[n][r] /\ counted[n][r] \in Nat
      BY SharedFacts DEF SharedTypes
    <3> QED
      BY <1>3, <3>1, <3>2
  <2> QED
    BY <1>3, <2>1 DEF SeatBalance
<1>6. CountBalance(x)
  <2>1. ASSUME NEW n \in Members, NEW r \in SharedReplicas
        PROVE  ~Reserves(job'[x], n, r) /\ Cardinality(RowsBy(n, r)') <= Cardinality(RowsBy(n, r))
    BY <1>2, <1>3
  <2>2. ASSUME NEW n \in Members, NEW r \in SharedReplicas,
               Counts(x, r)', job'[x].node = n, r \notin job'[x].raced
        PROVE  S!Outstanding(n, r)' = {} /\ Cardinality(RowsBy(n, r)') <= job'[x].cnt[r]
    <3>1. S!Outstanding(n, r) = {} /\ job'[x].cnt[r] = S!CountIn(r)
      BY <2>2
    <3>2. S!Outstanding(n, r)' \subseteq S!Outstanding(n, r)
      BY <1>2, OutstandingShrinks
    <3>3. Cardinality(RowsBy(n, r)) <= S!CountIn(r) /\ RowsBy(n, r)' = RowsBy(n, r)
      BY <1>3, CountCovers
    <3> QED
      BY <3>1, <3>2, <3>3
  <2> QED
    BY <2>1, <2>2 DEF CountBalance
<1> QED
  BY <1>1, <1>4, <1>5, <1>6, SharedStep

(* A task reads how many rows a replica has.                               *)
LEMMA SharedCountForReplica ==
    ASSUME SharedInv, NEW x \in SharedRequests, S!CountForReplica(x)
    PROVE  SharedInv'
<1> DEFINE n == job[x].node
           r == job[x].rep
           p == IF job[x].pc = "count" THEN "set" ELSE "reset"
           c == [job[x].cnt EXCEPT ![r] = S!CountIn(r)]
           m == IF S!Outstanding(n, r) = {} THEN {} ELSE {r}
           k == [job[x] EXCEPT !.pc = p, !.cnt = c, !.raced = m]
<1>1. /\ x \in S!Tasks /\ x \notin Members /\ job[x].pc \in {"count", "recount"}
      /\ n \in Members /\ r \in SharedReplicas /\ job[x] \in SharedJobs
      /\ job[x].cnt \in [SharedReplicas -> Nat]
  BY SharedFacts DEF S!CountForReplica, TaskLink, SharedJobs
<1>2. UNCHANGED <<table, counted, len, sharedCookie, leader, excused, missed>>
  BY DEF S!CountForReplica
<1>3. job' = [job EXCEPT ![x] = k]
  BY <1>1, SharedFacts DEF S!CountForReplica, SharedJobs
<1>4. /\ c \in [SharedReplicas -> Nat] /\ c[r] = S!CountIn(r)
      /\ m \in SUBSET SharedReplicas /\ (r \notin m => S!Outstanding(n, r) = {})
      /\ p \in {"set", "reset"} /\ (p = "set" <=> job[x].pc = "count")
  BY <1>1, CountCovers
<1> HIDE DEF p, c, m
<1>5. /\ k \in SharedJobs /\ k.pc = p /\ k.node = n /\ k.rep = r /\ k.cnt = c /\ k.raced = m
      /\ k.reserved = job[x].reserved
  BY <1>1, <1>4 DEF SharedJobs, SharedSteps
<1> HIDE DEF k
<1>6. TaskLink(x, k)
  BY <1>1, <1>4, <1>5 DEF TaskLink
<1>7. job' \in [S!Tasks -> SharedJobs] /\ job'[x] = k /\ OthersKept(x)
  BY <1>1, <1>3, <1>5, SharedFacts, JobSet
<1>8. ASSUME NEW i, NEW q
      PROVE  /\ Waits(x, job'[x], i) <=> Waits(x, job[x], i)
             /\ Bumps(x, job'[x], i, q) <=> Bumps(x, job[x], i, q)
  BY <1>1, <1>4, <1>5, <1>7 DEF Waits, Bumps
<1>9. ASSUME NEW i \in Members, NEW q \in SharedReplicas,
             Counts(x, q)', job'[x].node = i, q \notin job'[x].raced
      PROVE  S!Outstanding(i, q) = {} /\ job'[x].cnt[q] = S!CountIn(q)
  <2>1. q = r /\ i = n
    BY <1>1, <1>5, <1>7, <1>9 DEF Counts
  <2> QED
    BY <1>4, <1>5, <1>7, <1>9, <2>1
<1>10. job[x].pc # "touch" /\ job'[x].pc \in {"set", "reset"} /\ TaskLink(x, job'[x])
  BY <1>1, <1>4, <1>5, <1>6, <1>7
<1> QED
  BY <1>1, <1>2, <1>7, <1>8, <1>9, <1>10, CountTaken

(* A sweep reads how many rows every replica has.                          *)
LEMMA SharedSweepGroup ==
    ASSUME SharedInv, NEW n \in Members, S!SweepGroup(n)
    PROVE  SharedInv'
<1> DEFINE c == [r \in SharedReplicas |-> S!CountIn(r)]
           m == {r \in SharedReplicas : S!Outstanding(n, r) # {}}
           k == [job[n] EXCEPT !.pc = "set", !.cnt = c, !.raced = m]
<1>1. /\ n \in S!Tasks /\ n \notin SharedRequests /\ job[n].pc = "group" /\ job[n].node = n
      /\ job[n] \in SharedJobs
  BY SharedFacts DEF S!SweepGroup, TaskLink
<1>2. /\ UNCHANGED <<table, counted, len, sharedCookie, leader, excused, missed>>
      /\ job' = [job EXCEPT ![n] = k]
  BY <1>1, SharedFacts DEF S!SweepGroup
<1>3. /\ c \in [SharedReplicas -> Nat] /\ m \in SUBSET SharedReplicas
      /\ \A r \in SharedReplicas : c[r] = S!CountIn(r)
      /\ \A r \in SharedReplicas : r \notin m => S!Outstanding(n, r) = {}
  BY CountCovers
<1> HIDE DEF c, m
<1>4. k \in SharedJobs /\ k.pc = "set" /\ k.node = n /\ k.cnt = c /\ k.raced = m
  BY <1>1, <1>3 DEF SharedJobs, SharedSteps
<1> HIDE DEF k
<1>5. TaskLink(n, k)
  BY <1>1, <1>4 DEF TaskLink
<1>6. job' \in [S!Tasks -> SharedJobs] /\ job'[n] = k /\ OthersKept(n)
  BY <1>1, <1>2, <1>4, SharedFacts, JobSet
<1>7. ASSUME NEW i, NEW q
      PROVE  /\ Waits(n, job'[n], i) <=> Waits(n, job[n], i)
             /\ Bumps(n, job'[n], i, q) <=> Bumps(n, job[n], i, q)
  BY DEF Waits, Bumps
<1>8. ASSUME NEW i \in Members, NEW q \in SharedReplicas,
             Counts(n, q)', job'[n].node = i, q \notin job'[n].raced
      PROVE  S!Outstanding(i, q) = {} /\ job'[n].cnt[q] = S!CountIn(q)
  BY <1>3, <1>4, <1>6, <1>8
<1>9. job[n].pc # "touch" /\ job'[n].pc \in {"set", "reset"} /\ TaskLink(n, job'[n])
  BY <1>1, <1>4, <1>5, <1>6
<1> QED
  BY <1>1, <1>2, <1>6, <1>7, <1>8, <1>9, CountTaken

(* A task has just counted its node's own sessions, and changed nothing    *)
(* else that the drain looks at.                                           *)
LEMMA DrainCounted ==
    ASSUME NEW x, UNCHANGED <<table, len, missed>>, job[x].pc \notin {"count", "set", "took"} \/ x \in Members,
           job'[x].mine = Cardinality(OwnedRows(job'[x].node)), job'[x].mine \in Nat
    PROVE  DrainBalance(x)
<1>1. ASSUME NEW n \in Members
      PROVE  /\ Cardinality(OwnedRows(n)) \in Nat /\ Cardinality(OwnedRows(n)') \in Nat
             /\ Cardinality(OwnedRows(n)') + Bit(Waits(x, job[x], n))
                  <= Cardinality(OwnedRows(n)) + Bit(Waits(x, job'[x], n))
             /\ job'[x].pc = "store" /\ job'[x].node = n =>
                  Cardinality(OwnedRows(n)') <= job'[x].mine
  <2>1. OwnedRows(n)' = OwnedRows(n) /\ Cardinality(OwnedRows(n)) \in Nat
    BY RowsUnchanged
  <2>2. Bit(Waits(x, job[x], n)) = 0 /\ Bit(Waits(x, job'[x], n)) \in {0, 1}
    BY DEF Waits, Bit
  <2> QED
    BY <2>1, <2>2
<1> QED
  BY <1>1 DEF DrainBalance

(* A session ends and the node counts the replica again.                   *)
LEMMA SharedEnded ==
    ASSUME SharedInv, NEW x \in SharedRequests, S!Ended(x)
    PROVE  SharedInv'
<1>1. /\ x \in S!Tasks /\ job[x].pc = "reset" /\ job' = S!CountMine(x)
      /\ S!SetCount(job[x].node, job[x].rep, job[x])
      /\ UNCHANGED <<table, len, sharedCookie, leader, missed>>
  BY SharedFacts DEF S!Ended
<1>2. /\ job' \in [S!Tasks -> SharedJobs] /\ OthersKept(x)
      /\ TaskLink(x, job'[x]) /\ job'[x].pc = "store"
      /\ job'[x].mine = Cardinality(OwnedRows(job'[x].node)) /\ job'[x].mine \in Nat
  BY <1>1, CountsMine
<1>3. /\ counted' \in [Members -> [SharedReplicas -> Nat]]
      /\ excused' \in [Members -> SUBSET SharedReplicas] /\ SeatBalance(x)
  BY <1>1, <1>2, CountSet
<1>4. SharedTypes'
  BY <1>1, <1>2, <1>3, SharedFacts DEF SharedTypes
<1>5. DrainBalance(x)
  BY <1>1, <1>2, DrainCounted
<1>6. CountBalance(x)
  BY <1>1, <1>2, CountQuiet
<1> QED
  BY <1>1, <1>2, <1>3, <1>4, <1>5, <1>6, SharedStep

(* The sweep stores what it has read, for every replica at once.           *)
LEMMA SharedSetSessionCounts ==
    ASSUME SharedInv, NEW n \in Members, S!SetSessionCounts(n)
    PROVE  SharedInv'
<1>1. /\ n \in S!Tasks /\ job[n].pc = "set" /\ job[n].node = n /\ job' = S!CountMine(n)
      /\ counted' = [counted EXCEPT ![n] = job[n].cnt]
      /\ excused' = [excused EXCEPT ![n] = job[n].raced]
      /\ UNCHANGED <<table, len, sharedCookie, leader, missed>>
  BY SharedFacts DEF S!SetSessionCounts, TaskLink
<1>2. /\ job' \in [S!Tasks -> SharedJobs] /\ OthersKept(n)
      /\ TaskLink(n, job'[n]) /\ job'[n].pc = "store"
      /\ job'[n].mine = Cardinality(OwnedRows(job'[n].node)) /\ job'[n].mine \in Nat
  BY <1>1, CountsMine
<1>3. job[n].cnt \in [SharedReplicas -> Nat] /\ job[n].raced \in SUBSET SharedReplicas
  BY <1>1, SharedFacts DEF SharedJobs
<1>4. SharedTypes'
  BY <1>1, <1>2, <1>3, SharedFacts DEF SharedTypes
<1>5. DrainBalance(n)
  BY <1>1, <1>2, DrainCounted
<1>6. CountBalance(n)
  BY <1>1, <1>2, CountQuiet
<1>7. SeatBalance(n)
  <2>1. ASSUME NEW m \in Members, NEW r \in SharedReplicas, m # n
        PROVE  \/ r \in excused'[m]
               \/ /\ r \notin excused[m]
                  /\ Bit(Reserves(job'[n], m, r)) + Cardinality(RowsBy(m, r)')
                       + counted[m][r] + Bit(Bumps(n, job[n], m, r))
                     <= Bit(Reserves(job[n], m, r)) + Cardinality(RowsBy(m, r))
                          + counted'[m][r] + Bit(Bumps(n, job'[n], m, r))
    <3>1. /\ Bit(Reserves(job'[n], m, r)) = 0 /\ Bit(Reserves(job[n], m, r)) = 0
          /\ Bit(Bumps(n, job'[n], m, r)) = 0 /\ Bit(Bumps(n, job[n], m, r)) = 0
      BY <1>1, <1>2 DEF Reserves, Bumps, Bit
    <3>2. RowsBy(m, r)' = RowsBy(m, r) /\ Cardinality(RowsBy(m, r)) \in Nat
      BY <1>1, RowsUnchanged
    <3>3. /\ counted'[m][r] = counted[m][r] /\ counted[m][r] \in Nat
          /\ excused'[m] = excused[m]
      BY <1>1, <2>1, SharedFacts DEF SharedTypes
    <3> QED
      BY <3>1, <3>2, <3>3
  <2>2. ASSUME NEW r \in SharedReplicas, r \notin job[n].raced
        PROVE  S!Outstanding(n, r)' = {} /\ Cardinality(RowsBy(n, r)') <= counted'[n][r]
    <3>1. Counts(n, r)
      BY <1>1 DEF Counts
    <3>2. S!Outstanding(n, r) = {} /\ Cardinality(RowsBy(n, r)) <= job[n].cnt[r]
      BY <1>1, <2>2, <3>1 DEF SharedInv, CountHolds
    <3>3. S!Outstanding(n, r)' \subseteq S!Outstanding(n, r)
      <4>1. ~Reserves(job'[n], n, r)
        BY <1>2 DEF Reserves
      <4> QED
        BY <1>1, <1>2, <4>1, OutstandingShrinks
    <3>4. RowsBy(n, r)' = RowsBy(n, r)
      BY <1>1, RowsUnchanged
    <3>5. counted'[n][r] = job[n].cnt[r]
      BY <1>1, SharedFacts DEF SharedTypes
    <3> QED
      BY <3>2, <3>3, <3>4, <3>5
  <2>3. excused'[n] = job[n].raced
    BY <1>1, SharedFacts DEF SharedTypes
  <2>4. \A m, r : Cardinality(RowsBy(m, r)) \in Nat /\ Cardinality(RowsBy(m, r)') \in Nat
    BY <1>1, RowsUnchanged
  <2> QED
    BY <2>1, <2>2, <2>3, <2>4 DEF SeatBalance
<1> QED
  BY <1>1, <1>2, <1>4, <1>5, <1>6, <1>7, SharedStep

(* A replica that is gone takes its rows, and its counter, with it.        *)
LEMMA SharedDropReplica ==
    ASSUME SharedInv, NEW x \in S!IdleRequests, NEW n \in Members, NEW r \in SharedReplicas,
           S!DropReplica(x, n, r)
    PROVE  SharedInv'
<1> DEFINE T == {s \in S!Rows : table[s].owner = n /\ table[s].rep # r}
           k == MineJob(x, n, Cardinality(T))
<1>1. x \in SharedRequests /\ job[x].pc = "idle" /\ x \in S!Tasks /\ x \notin Members
  BY SharedFacts DEF S!IdleRequests
<1>2. /\ counted' = [counted EXCEPT ![n][r] = 0]
      /\ excused' = [excused EXCEPT ![n] = @ \cup {r}]
      /\ table' = [s \in SharedSids |-> IF s \in S!Rows /\ table[s].rep = r
                                        THEN None ELSE table[s]]
      /\ sharedCookie' = [s \in SharedSids |-> IF sharedCookie[s] = r THEN None ELSE sharedCookie[s]]
      /\ UNCHANGED <<len, leader, missed>>
  BY DEF S!DropReplica
<1>3. job' = [job EXCEPT ![x] = k]
  BY SharedCardinality DEF S!DropReplica, MineJob
<1>4. Cardinality(T) \in Nat
  <2>1. T \in SUBSET SharedSids
    BY DEF S!Rows
  <2> QED
    BY <2>1, SharedFinite
<1>5. OwnedRows(n)' = T
  BY <1>2, SharedFacts DEF OwnedRows, S!Rows, SharedTypes
<1> HIDE DEF T
<1>6. k \in SharedJobs /\ TaskLink(x, k) /\ k.pc = "store" /\ k.node = n /\ k.mine = Cardinality(T)
  BY <1>1, <1>4, MineTaken
<1> HIDE DEF k
<1>7. job' \in [S!Tasks -> SharedJobs] /\ job'[x] = k /\ OthersKept(x)
  BY <1>1, <1>3, <1>6, SharedFacts, JobSet
<1>8. /\ counted \in [Members -> [SharedReplicas -> Nat]]
      /\ excused \in [Members -> SUBSET SharedReplicas]
      /\ table \in [SharedSids -> S!Row \cup {None}]
      /\ sharedCookie \in [SharedSids -> SharedReplicas \cup {None}]
  BY SharedFacts DEF SharedTypes
<1>9. /\ counted' \in [Members -> [SharedReplicas -> Nat]]
      /\ \A m \in Members, q \in SharedReplicas :
            (m # n \/ q # r) => counted'[m][q] = counted[m][q] /\ counted[m][q] \in Nat
  BY <1>2, <1>8
<1>10. /\ excused' \in [Members -> SUBSET SharedReplicas] /\ r \in excused'[n]
       /\ \A m \in Members, q \in SharedReplicas :
            (m # n \/ q # r) => (q \in excused'[m] <=> q \in excused[m])
  BY <1>2, <1>8
<1>11. SharedTypes'
  <2>1. /\ table' \in [SharedSids -> S!Row \cup {None}]
        /\ sharedCookie' \in [SharedSids -> SharedReplicas \cup {None}]
    BY <1>2, <1>8
  <2> QED
    BY <1>2, <1>7, <1>9, <1>10, <2>1, SharedFacts DEF SharedTypes
<1>12. RowsStay
  BY <1>2 DEF RowsStay
<1>13. \A m, q :
         /\ Cardinality(OwnedRows(m)) \in Nat /\ Cardinality(OwnedRows(m)') \in Nat
         /\ Cardinality(OwnedRows(m)') <= Cardinality(OwnedRows(m))
         /\ Cardinality(RowsBy(m, q)) \in Nat /\ Cardinality(RowsBy(m, q)') \in Nat
         /\ Cardinality(RowsBy(m, q)') <= Cardinality(RowsBy(m, q))
  BY <1>12, RowsDeleted
<1>14. ASSUME NEW m, NEW q
       PROVE  /\ Bit(Waits(x, job[x], m)) = 0 /\ Bit(Waits(x, job'[x], m)) = 0
              /\ Bit(Bumps(x, job[x], m, q)) = 0 /\ Bit(Bumps(x, job'[x], m, q)) = 0
              /\ Bit(Reserves(job[x], m, q)) = 0 /\ Bit(Reserves(job'[x], m, q)) = 0
              /\ ~Reserves(job'[x], m, q) /\ ~Counts(x, q)'
  BY <1>1, <1>6, <1>7 DEF Waits, Reserves, Bumps, Bit, Counts
<1>15. DrainBalance(x)
  <2>1. ASSUME NEW m \in Members
        PROVE  /\ Cardinality(OwnedRows(m)) \in Nat /\ Cardinality(OwnedRows(m)') \in Nat
               /\ Cardinality(OwnedRows(m)') + Bit(Waits(x, job[x], m))
                    <= Cardinality(OwnedRows(m)) + Bit(Waits(x, job'[x], m))
               /\ job'[x].node = m => Cardinality(OwnedRows(m)') <= job'[x].mine
    <3>1. /\ Cardinality(OwnedRows(m)) \in Nat /\ Cardinality(OwnedRows(m)') \in Nat
          /\ Cardinality(OwnedRows(m)') <= Cardinality(OwnedRows(m))
      BY <1>13
    <3>2. Bit(Waits(x, job[x], m)) = 0 /\ Bit(Waits(x, job'[x], m)) = 0
      BY <1>14
    <3>3. job'[x].node = m => Cardinality(OwnedRows(m)') = job'[x].mine
      BY <1>5, <1>6, <1>7
    <3> QED
      BY <3>1, <3>2, <3>3
  <2> QED
    BY <1>2, <2>1 DEF DrainBalance
<1>16. SeatBalance(x)
  <2>1. ASSUME NEW m \in Members, NEW q \in SharedReplicas, ~(m = n /\ q = r)
        PROVE  \/ q \in excused'[m]
               \/ /\ q \notin excused[m]
                  /\ Bit(Reserves(job'[x], m, q)) + Cardinality(RowsBy(m, q)')
                       + counted[m][q] + Bit(Bumps(x, job[x], m, q))
                     <= Bit(Reserves(job[x], m, q)) + Cardinality(RowsBy(m, q))
                          + counted'[m][q] + Bit(Bumps(x, job'[x], m, q))
    <3>1. /\ counted'[m][q] = counted[m][q] /\ counted[m][q] \in Nat
          /\ q \in excused'[m] <=> q \in excused[m]
      BY <1>9, <1>10, <2>1
    <3>2. /\ Cardinality(RowsBy(m, q)) \in Nat /\ Cardinality(RowsBy(m, q)') \in Nat
          /\ Cardinality(RowsBy(m, q)') <= Cardinality(RowsBy(m, q))
      BY <1>13
    <3> QED
      BY <1>14, <3>1, <3>2
  <2> QED
    BY <1>10, <1>13, <2>1 DEF SeatBalance
<1>17. CountBalance(x)
  BY <1>13, <1>14 DEF CountBalance
<1>18. TaskLink(x, job'[x])
  BY <1>6, <1>7
<1> QED
  BY <1>1, <1>7, <1>11, <1>15, <1>16, <1>17, <1>18, SharedStep

(* The count of the node's own sessions is stored: what it may miss is     *)
(* what was gained while it was under way.                                 *)
LEMMA SharedStoreMine ==
    ASSUME SharedInv, NEW x \in S!Tasks, S!StoreMine(x)
    PROVE  SharedInv'
<1>1. /\ job[x].pc = "store" /\ job[x].node \in Members
      /\ len' = [len EXCEPT ![job[x].node] = job[x].mine]
      /\ missed' = [missed EXCEPT ![job[x].node] = job[x].gains]
      /\ job' = [job EXCEPT ![x] = S!NoJob(x)]
      /\ UNCHANGED <<table, counted, sharedCookie, leader, excused>>
  BY SharedFacts DEF S!StoreMine, S!Done, TaskLink
<1>2. /\ S!NoJob(x) \in SharedJobs /\ S!NoJob(x).pc = "idle" /\ TaskLink(x, S!NoJob(x))
      /\ job[x].mine \in Nat /\ job[x].gains \in Nat
  BY NoJobFits, SharedFacts DEF SharedJobs
<1>3. job' \in [S!Tasks -> SharedJobs] /\ job'[x] = S!NoJob(x) /\ OthersKept(x)
  <2>1. job' = [job EXCEPT ![x] = S!NoJob(x)] /\ S!NoJob(x) \in SharedJobs
    BY <1>1, <1>2
  <2> QED
    BY <2>1, SharedFacts, JobSet
<1>4. /\ len \in [Members -> Nat] /\ missed \in [Members -> Nat]
      /\ len' \in [Members -> Nat] /\ missed' \in [Members -> Nat]
  BY <1>1, <1>2, SharedFacts DEF SharedTypes
<1>5. SharedTypes'
  BY <1>1, <1>3, <1>4, SharedFacts DEF SharedTypes
<1>6. TaskLinks'
  BY <1>2, <1>3, LinksStep DEF SharedInv
<1>7. \A n, r :
         /\ Bit(Waits(x, job[x], n)) = 0 /\ Bit(Waits(x, job'[x], n)) = 0
         /\ Bit(Bumps(x, job[x], n, r)) = 0 /\ Bit(Bumps(x, job'[x], n, r)) = 0
         /\ Bit(Reserves(job[x], n, r)) = 0 /\ Bit(Reserves(job'[x], n, r)) = 0
  BY <1>1, <1>2, <1>3 DEF Waits, Reserves, Bumps, Bit
<1>8. DrainHolds' /\ StoreHolds'
  <2> DEFINE d == [n \in Members |-> 0]
  <2>1. d \in [Members -> {0, 1}] /\ \A n \in Members : d[n] = 0
    OBVIOUS
  <2> HIDE DEF d
  <2>2. ASSUME NEW n \in Members
        PROVE  /\ Cardinality(OwnedRows(n)) \in Nat /\ Cardinality(OwnedRows(n)') \in Nat
               /\ Cardinality(Waiting(n)) \in Nat /\ Cardinality(Waiting(n)') \in Nat
               /\ Cardinality(OwnedRows(n)') + Cardinality(Waiting(n))
                    <= Cardinality(OwnedRows(n)) + Cardinality(Waiting(n)') + d[n]
    <3>1. OwnedRows(n)' = OwnedRows(n) /\ Cardinality(OwnedRows(n)) \in Nat
      BY <1>1, RowsUnchanged
    <3>2. /\ Cardinality(Waiting(n)) \in Nat /\ Cardinality(Waiting(n)') \in Nat
          /\ Cardinality(Waiting(n)') =
               Cardinality(Waiting(n)) + Bit(Waits(x, job'[x], n)) - Bit(Waits(x, job[x], n))
      BY <1>3, TaskCounts
    <3>3. Bit(Waits(x, job[x], n)) = 0 /\ Bit(Waits(x, job'[x], n)) = 0
      BY <1>7
    <3> QED
      BY <2>1, <3>1, <3>2, <3>3
  <2>3. ASSUME NEW n \in Members
        PROVE  \/ len[n] + missed[n] + d[n] <= len'[n] + missed'[n]
               \/ d[n] = 0 /\ \E y \in S!Tasks :
                    /\ job[y].pc = "store" /\ job[y].node = n
                    /\ len'[n] = job[y].mine /\ missed'[n] = job[y].gains
    <3>1. CASE n = job[x].node
      <4>1. len'[n] = job[x].mine /\ missed'[n] = job[x].gains /\ job[x].node = n
        BY <1>1, <1>4, <3>1
      <4> QED
        BY <1>1, <2>1, <4>1
    <3>2. CASE n # job[x].node
      <4>1. /\ len'[n] = len[n] /\ missed'[n] = missed[n]
            /\ len[n] \in Nat /\ missed[n] \in Nat
        BY <1>1, <1>4, <3>2
      <4> QED
        BY <2>1, <4>1
    <3> QED
      BY <3>1, <3>2
  <2>4. ASSUME NEW y \in S!Tasks, NEW n \in Members, job'[y].pc = "store", job'[y].node = n
        PROVE  /\ job[y].pc = "store" /\ job[y].node = n /\ job'[y].mine = job[y].mine
               /\ job[y].gains + d[n] <= job'[y].gains
    <3>1. y # x
      BY <1>2, <1>3, <2>4
    <3>2. Kept(job[y], job'[y]) /\ job[y].gains \in Nat
      BY <1>3, <3>1, SharedFacts DEF OthersKept, SharedJobs
    <3> QED
      BY <2>1, <2>4, <3>2 DEF Kept
  <2> QED
    BY <1>5, <1>6, <2>1, <2>2, <2>3, <2>4, DrainStep
<1>9. SeatBalance(x)
  <2>1. ASSUME NEW n \in Members, NEW r \in SharedReplicas
        PROVE  Bit(Reserves(job'[x], n, r)) + Cardinality(RowsBy(n, r)')
                   + counted[n][r] + Bit(Bumps(x, job[x], n, r))
                 <= Bit(Reserves(job[x], n, r)) + Cardinality(RowsBy(n, r))
                      + counted'[n][r] + Bit(Bumps(x, job'[x], n, r))
    <3>1. RowsBy(n, r)' = RowsBy(n, r) /\ Cardinality(RowsBy(n, r)) \in Nat
      BY <1>1, RowsUnchanged
    <3>2. counted'[n][r] = counted[n][r] /\ counted[n][r] \in Nat
      BY <1>1, SharedFacts DEF SharedTypes
    <3> QED
      BY <1>7, <3>1, <3>2
  <2> QED
    BY <1>1, <2>1, RowsUnchanged DEF SeatBalance
<1>10. CountBalance(x)
  BY <1>1, <1>2, <1>3, CountQuiet
<1>11. SeatsHold' /\ CountHolds'
  BY <1>3, <1>5, <1>6, <1>9, <1>10, SeatsKept
<1> QED
  BY <1>5, <1>6, <1>8, <1>11 DEF SharedInv

-----------------------------------------------------------------------------
(* The invariant holds.                                                    *)

(* The invariant holds when the nodes start.                               *)
LEMMA SharedInit == S!Init => SharedInv
<1> SUFFICES ASSUME S!Init PROVE SharedInv
  OBVIOUS
<1>1. /\ table = [s \in SharedSids |-> None]
      /\ counted = [n \in Members |-> [r \in SharedReplicas |-> 0]]
      /\ len = [n \in Members |-> 0]
      /\ sharedCookie = [s \in SharedSids |-> None]
      /\ leader = CHOOSE n \in Members : TRUE
      /\ job = [x \in S!Tasks |-> S!NoJob(x)]
      /\ excused = [n \in Members |-> {}] /\ missed = [n \in Members |-> 0]
  BY DEF S!Init
<1>2. leader \in Members
  BY <1>1, SharedAssumption
<1>3. \A x \in S!Tasks : job[x] \in SharedJobs /\ TaskLink(x, job[x]) /\ job[x].pc = "idle"
  BY <1>1, NoJobFits
<1>4. SharedTypes
  BY <1>1, <1>2, <1>3 DEF SharedTypes
<1>5. TaskLinks /\ StoreHolds /\ CountHolds
  BY <1>3 DEF TaskLinks, StoreHolds, CountHolds, Counts
<1>6. ASSUME NEW n, NEW r
      PROVE  /\ OwnedRows(n) = {} /\ RowsBy(n, r) = {} /\ Waiting(n) = {}
             /\ S!Outstanding(n, r) = {} /\ Uncounted(n, r) = {}
  BY <1>1, <1>3 DEF OwnedRows, RowsBy, S!Rows, Waiting, Uncounted, S!Outstanding, S!At
<1>7. Cardinality({}) = 0
  BY FS_EmptySet
<1>8. DrainHolds
  <2>1. ASSUME NEW n \in Members
        PROVE  Cardinality(OwnedRows(n)) <= len[n] + Cardinality(Waiting(n)) + missed[n]
    <3>1. OwnedRows(n) = {} /\ Waiting(n) = {}
      BY <1>6
    <3>2. len[n] = 0 /\ missed[n] = 0
      BY <1>1
    <3> QED
      BY <1>7, <3>1, <3>2
  <2> QED
    BY <2>1 DEF DrainHolds
<1>9. SeatsHold
  <2>1. ASSUME NEW n \in Members, NEW r \in SharedReplicas
        PROVE  Cardinality(S!Outstanding(n, r)) + Cardinality(RowsBy(n, r))
                 <= counted[n][r] + Cardinality(Uncounted(n, r))
    <3>1. S!Outstanding(n, r) = {} /\ RowsBy(n, r) = {} /\ Uncounted(n, r) = {}
      BY <1>6
    <3>2. counted[n][r] = 0
      BY <1>1
    <3> QED
      BY <1>7, <3>1, <3>2
  <2> QED
    BY <2>1 DEF SeatsHold
<1> QED
  BY <1>4, <1>5, <1>8, <1>9 DEF SharedInv

(* Every step of the nodes keeps the invariant.                            *)
LEMMA SharedNext == SharedInv /\ S!Next => SharedInv'
<1> SUFFICES ASSUME SharedInv, S!Next PROVE SharedInv'
  OBVIOUS
<1>0. SharedRequests \subseteq S!Tasks /\ Members \subseteq S!Tasks
  BY SharedFacts
<1>1. ASSUME S!Arrivals PROVE SharedInv'
  BY <1>1, SharedSticky, SharedEndSession, SharedFresh, SharedDropReplica DEF S!Arrivals
<1>2. ASSUME NEW x \in SharedRequests, S!RequestStep(x) PROVE SharedInv'
  <2>1. ASSUME S!Touch(x) PROVE SharedInv'
    BY <2>1, SharedTouchNew, SharedTouchOld
  <2> QED
    BY <1>0, <1>2, <2>1, SharedTouchFails, SharedTookOver, SharedCountForReplica,
       SharedRegistered, SharedCountFails, SharedEnded, SharedRecountFails, SharedStoreMine,
       SharedGiveUp DEF S!RequestStep
<1>3. ASSUME NEW n \in Members, S!SweepStep(n) \/ S!Election(n) PROVE SharedInv'
  BY <1>0, <1>3, SharedSweepDelete, SharedSweepGroup, SharedSetSessionCounts, SharedStoreMine,
     SharedGiveUp, SharedElection DEF S!SweepStep
<1>4. ASSUME NEW s \in SharedSids, S!Expire(s) PROVE SharedInv'
  BY <1>4, SharedExpire
<1> QED
  BY <1>1, <1>2, <1>3, <1>4 DEF S!Next

(* So does a step of the others.                                           *)
LEMMA SharedStutter == SharedInv /\ UNCHANGED S!vars => SharedInv'
<1> SUFFICES ASSUME SharedInv, UNCHANGED S!vars PROVE SharedInv'
  OBVIOUS
<1>1. UNCHANGED <<table, counted, len, sharedCookie, leader, job, excused, missed>>
  BY DEF S!vars
<1>2. SharedTypes' /\ RowsStay
  BY <1>1, SharedFacts DEF SharedTypes, RowsStay
<1> QED
  BY <1>1, <1>2, EnvironmentStep

\* The numbers that the nodes keep of the shared sessions stay accounted for:
\* types, what every task has in hand, and the balances of the drain and of
\* the seats, with those of the counts that are under way.
THEOREM SharedInvariance == S!Spec => []SharedInv
<1>1. SharedInv /\ [S!Next]_(S!vars) => SharedInv'
  BY SharedNext, SharedStutter
<1> QED
  BY <1>1, SharedInit, PTL DEF S!Spec

\* A node's counter of a replica covers every seat the node has given out,
\* except after an absolute count that was read before, or beside, a
\* reservation; whatever number of nodes, requests and sweeps interleave.
THEOREM SharedSeatsCounted == S!Spec => []SeatsCounted
<1>1. SharedInv => SeatsCounted
  <2> SUFFICES ASSUME SharedInv, NEW n \in Members, NEW r \in SharedReplicas, r \notin excused[n]
               PROVE  counted[n][r] >= S!GivenOut(n, r)
    BY DEF SeatsCounted, S!SeatsCounted
  <2>1. S!GivenOut(n, r) = Cardinality(S!Outstanding(n, r)) + Cardinality(RowsBy(n, r))
                             - Cardinality(Uncounted(n, r))
    BY SharedCardinality DEF S!GivenOut, RowsBy, Uncounted
  <2>2. Cardinality(S!Outstanding(n, r)) + Cardinality(RowsBy(n, r))
          <= counted[n][r] + Cardinality(Uncounted(n, r))
    BY DEF SharedInv, SeatsHold
  <2>3. counted[n][r] \in Nat
    BY DEF SharedInv, SharedTypes
  <2>4. /\ S!Outstanding(n, r) \in SUBSET S!Tasks /\ Uncounted(n, r) \in SUBSET S!Tasks
        /\ RowsBy(n, r) \in SUBSET SharedSids
    BY DEF S!Outstanding, Uncounted, S!At, RowsBy, S!Rows
  <2>5. /\ Cardinality(S!Outstanding(n, r)) \in Nat /\ Cardinality(Uncounted(n, r)) \in Nat
        /\ Cardinality(RowsBy(n, r)) \in Nat
    BY <2>4, SharedFinite
  <2> QED
    BY <2>1, <2>2, <2>3, <2>5
<1> QED
  BY <1>1, SharedInvariance, PTL

\* A drain waits for every session its node owns, up to the touches whose
\* statement has not returned and the sessions gained while a count of the
\* node's own was in flight.
THEOREM DrainsSeeOwn == S!Spec => []DrainSeesOwn
<1>1. SharedInv => DrainSeesOwn
  <2> SUFFICES ASSUME SharedInv, NEW n \in Members
               PROVE  S!Owned(n) <= len[n]
                        + S!Cardinality(S!At(n, {"count", "set", "took"}) \ Members) + missed[n]
    BY DEF DrainSeesOwn, S!DrainSeesOwn
  <2>1. Cardinality(OwnedRows(n)) <= len[n] + Cardinality(Waiting(n)) + missed[n]
    BY DEF SharedInv, DrainHolds
  <2>2. /\ S!Owned(n) = Cardinality(OwnedRows(n))
        /\ S!Cardinality(S!At(n, {"count", "set", "took"}) \ Members) = Cardinality(Waiting(n))
    BY OwnedIsNat, SharedCardinality DEF Waiting
  <2> QED
    BY <2>1, <2>2
<1> QED
  BY <1>1, SharedInvariance, PTL

-----------------------------------------------------------------------------
(* The fleet.                                                              *)

Places     == F!Hosts \cup {F!NoHost}
Containers == [st : {"new", "up", "stopped", "gone"}, host : Places]
FleetJobs  == [pc : {"idle", "create", "ready", "stop", "try"},
               r : Replicas \cup {NoReplica}, hosts : SUBSET F!Hosts]
Answers    == SUBSET (F!Hosts \X SUBSET Replicas)
Listings   == [pc : {"idle", "liveness", "list", "boot"}, known : SUBSET Replicas,
               managed : Answers, listed : Answers, failed : SUBSET F!Hosts]

FleetTypes ==
    /\ ctr \in [Replicas -> Containers] /\ placement \in [Replicas -> Places]
    /\ rows \in SUBSET Replicas
    /\ fleetTask \in [FleetTasks -> FleetJobs] /\ pass \in [Passes -> Listings]

(* With containers c and tasks k: a replica is one task's at a time; until *)
(* its container is created it is new, and known to nobody else.           *)
JobFits(c, j) ==
    /\ j.pc # "idle" => j.r \in Replicas
    /\ j.pc \in {"create", "ready"} => \E h \in F!Hosts : j.hosts = {h}
    /\ j.pc = "create" => c[j.r].st = "new"
    /\ j.pc \notin {"idle", "create"} => c[j.r].st # "new"
OneEach(k) == \A t, u \in FleetTasks : k[t].pc # "idle" /\ k[u].r = k[t].r => u = t
SpawnsApart == (\A t \in FleetTasks : JobFits(ctr, fleetTask[t])) /\ OneEach(fleetTask)

(* Rows and listings are about containers that were created; one that its  *)
(* host did not list, though it was known then, is gone.                   *)
RowsCreated == \A r \in rows : ctr[r].st # "new"
ListingFits(c, x) ==
    /\ \A r \in x.known : c[r].st # "new"
    /\ \A a \in x.listed, r \in Replicas : r \in a[2] => c[r].st # "new"
    /\ \A a \in x.managed, r \in x.known :
         c[r].host = a[1] /\ r \notin a[2] => c[r].st = "gone"
ListingsFit == \A p \in Passes : ListingFits(ctr, pass[p])

HostsDown == down \subseteq F!Hosts

FleetInv == FleetTypes /\ SpawnsApart /\ RowsCreated /\ ListingsFit

(* A container once created stays where it is, and once gone stays gone.   *)
Moves(c, d) ==
    /\ d \in [Replicas -> Containers]
    /\ \A r \in Replicas : /\ c[r].st # "new" => d[r].st # "new" /\ d[r].host = c[r].host
                           /\ c[r].st = "gone" => d[r].st = "gone"
Ages(c, d) == Moves(c, d) /\ \A r \in Replicas : c[r].st = "new" => d[r].st = "new"

(* A task that is over, or never began.                                    *)
LEMMA FleetRest ==
    /\ F!NoTask \in FleetJobs /\ F!NoTask.pc = "idle" /\ F!NoTask.r \notin Replicas
    /\ F!NoPass \in Listings /\ F!NoPass.pc = "idle"
    /\ F!NoPass.known = {} /\ F!NoPass.managed = {} /\ F!NoPass.listed = {}
    /\ F!NoPass.failed = {}
  BY ConstantsAssumption DEF F!NoTask, F!NoPass, FleetJobs, Listings, Answers

(* The one host of a spawn.                                                *)
LEMMA OnlyHost == ASSUME NEW h \in F!Hosts PROVE F!Min({h}) = h
  BY FleetAssumption DEF F!Min, F!Hosts

(* What a listing showed stays true of containers that moved on.           *)
LEMMA ListingFitsOn ==
    ASSUME NEW c, NEW d, NEW x \in Listings, Moves(c, d), ListingFits(c, x)
    PROVE  ListingFits(d, x)
<1>1. x.known \subseteq Replicas
  BY DEF Listings
<1>2. \A r \in x.known : d[r].st # "new"
  BY <1>1 DEF Moves, ListingFits
<1>3. \A a \in x.listed, r \in Replicas : r \in a[2] => d[r].st # "new"
  BY DEF Moves, ListingFits
<1>4. ASSUME NEW a \in x.managed, NEW r \in x.known, d[r].host = a[1], r \notin a[2]
      PROVE  d[r].st = "gone"
  <2>1. r \in Replicas /\ c[r].st # "new"
    BY <1>1 DEF ListingFits
  <2>2. c[r].host = a[1]
    BY <1>4, <2>1 DEF Moves
  <2>3. c[r].st = "gone"
    BY <1>4, <2>2 DEF ListingFits
  <2> QED
    BY <2>1, <2>3 DEF Moves
<1> QED
  BY <1>2, <1>3, <1>4 DEF ListingFits

(* A step that leaves the listings alone and adds no row.                  *)
LEMMA ListingsKept ==
    ASSUME FleetInv, Moves(ctr, ctr'), pass' = pass, rows' \subseteq rows
    PROVE  RowsCreated' /\ ListingsFit'
<1>1. \A p \in Passes : pass[p] \in Listings /\ ListingFits(ctr, pass[p])
  BY DEF FleetInv, FleetTypes, ListingsFit
<1>2. \A p \in Passes : ListingFits(ctr', pass[p])
  BY <1>1, ListingFitsOn
<1>3. rows \subseteq Replicas
  BY DEF FleetInv, FleetTypes
<1>4. RowsCreated'
  BY <1>3 DEF FleetInv, RowsCreated, Moves
<1> QED
  BY <1>2, <1>4 DEF ListingsFit

(* What a task knows of its replica stays true as containers age.          *)
LEMMA JobFitsOn ==
    ASSUME NEW c, NEW d, NEW j, Ages(c, d), JobFits(c, j)
    PROVE  JobFits(d, j)
  BY DEF Ages, Moves, JobFits

(* A task takes its next step, keeping its replica.                        *)
LEMMA TasksStep ==
    ASSUME FleetInv, NEW t \in FleetTasks, NEW j \in FleetJobs, Ages(ctr, ctr'),
           fleetTask' = [fleetTask EXCEPT ![t] = j], JobFits(ctr', j),
           (j.pc = "idle" /\ j.r \notin Replicas)
             \/ (fleetTask[t].pc # "idle" /\ j.r = fleetTask[t].r)
             \/ (\A u \in FleetTasks : fleetTask[u].r # j.r)
    PROVE  fleetTask' \in [FleetTasks -> FleetJobs] /\ SpawnsApart'
<1>1. fleetTask \in [FleetTasks -> FleetJobs]
  BY DEF FleetInv, FleetTypes
<1>2. fleetTask'[t] = j /\ \A u \in FleetTasks \ {t} : fleetTask'[u] = fleetTask[u]
  BY <1>1
<1>3. \A u \in FleetTasks : JobFits(ctr, fleetTask[u])
  BY DEF FleetInv, SpawnsApart
<1>4. \A u \in FleetTasks \ {t} : JobFits(ctr', fleetTask[u])
  BY <1>3, JobFitsOn
<1>5. \A u \in FleetTasks : JobFits(ctr', fleetTask'[u])
  BY <1>2, <1>4
<1>6. \A u \in FleetTasks : fleetTask[u].pc # "idle" => fleetTask[u].r \in Replicas
  BY <1>3 DEF JobFits
<1>7. \A u, v \in FleetTasks : fleetTask[u].pc # "idle" /\ fleetTask[v].r = fleetTask[u].r => v = u
  BY DEF FleetInv, SpawnsApart, OneEach
<1>8. ASSUME NEW u \in FleetTasks, NEW v \in FleetTasks,
             fleetTask'[u].pc # "idle", fleetTask'[v].r = fleetTask'[u].r
      PROVE  v = u
  <2>1. CASE u # t /\ v # t
    BY <1>2, <1>7, <1>8, <2>1
  <2>2. CASE u = t /\ v # t
    <3>1. j.pc # "idle" /\ fleetTask[v].r = j.r
      BY <1>2, <1>8, <2>2
    <3> QED
      BY <1>7, <2>2, <3>1
  <2>3. CASE u # t /\ v = t
    <3>1. fleetTask[u].pc # "idle" /\ fleetTask[u].r = j.r
      BY <1>2, <1>8, <2>3
    <3> QED
      BY <1>6, <1>7, <2>3, <3>1
  <2> QED
    BY <2>1, <2>2, <2>3
<1>9. OneEach(fleetTask')
  BY <1>8 DEF OneEach
<1> QED
  BY <1>1, <1>5, <1>9 DEF SpawnsApart

(* A step that leaves the tasks alone.                                     *)
LEMMA TasksKept ==
    ASSUME FleetInv, Ages(ctr, ctr'), fleetTask' = fleetTask
    PROVE  fleetTask' \in [FleetTasks -> FleetJobs] /\ SpawnsApart'
<1>1. \A u \in FleetTasks : JobFits(ctr', fleetTask[u])
  BY JobFitsOn DEF FleetInv, SpawnsApart
<1> QED
  BY <1>1 DEF FleetInv, FleetTypes, SpawnsApart

(* One container goes to another state, having been created; or none does. *)
LEMMA ContainerAges ==
    ASSUME FleetInv, NEW r \in Replicas, NEW st \in {"up", "stopped", "gone"},
           ctr[r].st # "new", ctr[r].st = "gone" => st = "gone",
           ctr' = [ctr EXCEPT ![r].st = st]
    PROVE  Ages(ctr, ctr')
<1>1. ctr \in [Replicas -> Containers]
  BY DEF FleetInv, FleetTypes
<1>2. ctr[r] \in Containers
  BY <1>1
<1>3. [ctr[r] EXCEPT !.st = st] = [st |-> st, host |-> ctr[r].host]
  BY <1>2 DEF Containers
<1>4. [st |-> st, host |-> ctr[r].host] \in Containers
  BY <1>2 DEF Containers
<1>5. ctr' = [ctr EXCEPT ![r] = [st |-> st, host |-> ctr[r].host]]
  BY <1>3
<1>6. ctr'[r] = [st |-> st, host |-> ctr[r].host] /\ \A x \in Replicas \ {r} : ctr'[x] = ctr[x]
  BY <1>1, <1>5
<1>7. ctr' \in [Replicas -> Containers]
  BY <1>1, <1>4, <1>5
<1> QED
  BY <1>6, <1>7 DEF Ages, Moves

(* No container changes.                                                   *)
LEMMA ContainersSame ==
    ASSUME FleetInv, ctr' = ctr
    PROVE  Ages(ctr, ctr')
  BY DEF FleetInv, FleetTypes, Ages, Moves

(* A spawn: a host is picked, the container is created, the map is told.   *)
LEMMA FleetPickHost ==
    ASSUME FleetInv, NEW t \in FleetTasks, NEW r \in Replicas, F!PickHost(t, r)
    PROVE  FleetInv'
<1>1. PICK h \in F!ChooseHost(SpecOf[r]) :
        fleetTask' = [fleetTask EXCEPT ![t] = [pc |-> "create", r |-> r, hosts |-> {h}]]
  BY DEF F!PickHost, F!To
<1> DEFINE j == [pc |-> "create", r |-> r, hosts |-> {h}]
<1>2. h \in F!Hosts
  BY DEF F!ChooseHost, F!Pool, F!Eligible
<1>3. /\ ctr[r].st = "new" /\ \A u \in FleetTasks : fleetTask[u].r # r
      /\ ctr' = ctr /\ placement' = placement /\ rows' = rows /\ pass' = pass
  BY DEF F!PickHost
<1>4. Ages(ctr, ctr')
  BY <1>3, ContainersSame
<1>5. j \in FleetJobs /\ JobFits(ctr', j) /\ j.r = r
  BY <1>2, <1>3 DEF FleetJobs, JobFits
<1>6. fleetTask' = [fleetTask EXCEPT ![t] = j]
  BY <1>1
<1> HIDE DEF j
<1>7. fleetTask' \in [FleetTasks -> FleetJobs] /\ SpawnsApart'
  BY <1>3, <1>4, <1>5, <1>6, TasksStep
<1>8. RowsCreated' /\ ListingsFit'
  BY <1>3, <1>4, ListingsKept DEF Ages
<1> QED
  BY <1>3, <1>7, <1>8 DEF FleetInv, FleetTypes

(* The container is created at the host that was picked.                   *)
LEMMA FleetCreate ==
    ASSUME FleetInv, NEW t \in FleetTasks, F!CreateAndStart(t)
    PROVE  FleetInv'
<1> DEFINE q == fleetTask[t].r
           j == [fleetTask[t] EXCEPT !.pc = "ready"]
           b == [st |-> "up", host |-> F!Min(fleetTask[t].hosts)]
<1>1. /\ fleetTask[t].pc = "create" /\ ctr' = [ctr EXCEPT ![q] = b]
      /\ fleetTask' = [fleetTask EXCEPT ![t] = j]
      /\ placement' = placement /\ rows' = rows /\ pass' = pass
  BY DEF F!CreateAndStart, F!To
<1>2. fleetTask \in [FleetTasks -> FleetJobs] /\ ctr \in [Replicas -> Containers]
  BY DEF FleetInv, FleetTypes
<1>3. \A u \in FleetTasks : JobFits(ctr, fleetTask[u])
  BY DEF FleetInv, SpawnsApart
<1>4. q \in Replicas /\ ctr[q].st = "new"
  BY <1>1, <1>3 DEF JobFits
<1>5. PICK h \in F!Hosts : fleetTask[t].hosts = {h}
  BY <1>1, <1>3 DEF JobFits
<1>6. b \in Containers /\ b.st = "up"
  BY <1>5, OnlyHost DEF Containers, Places
<1> HIDE DEF b
<1>7. ctr'[q] = b /\ ctr' \in [Replicas -> Containers]
        /\ \A x \in Replicas \ {q} : ctr'[x] = ctr[x]
  BY <1>1, <1>2, <1>4, <1>6
<1>8. Moves(ctr, ctr')
  BY <1>4, <1>7 DEF Moves
<1>9. j = [pc |-> "ready", r |-> q, hosts |-> {h}]
  <2>1. fleetTask[t] \in FleetJobs
    BY <1>2
  <2>2. j = [pc |-> "ready", r |-> fleetTask[t].r, hosts |-> fleetTask[t].hosts]
    BY <2>1 DEF FleetJobs
  <2> QED
    BY <1>5, <2>2
<1>10. j \in FleetJobs /\ j.pc = "ready" /\ j.r = q /\ JobFits(ctr', j)
  BY <1>4, <1>6, <1>7, <1>9 DEF FleetJobs, JobFits
<1> HIDE DEF j
<1>11. fleetTask'[t] = j /\ (\A u \in FleetTasks \ {t} : fleetTask'[u] = fleetTask[u])
         /\ fleetTask' \in [FleetTasks -> FleetJobs]
  BY <1>1, <1>2, <1>10
<1>12. \A u, v \in FleetTasks : fleetTask[u].pc # "idle" /\ fleetTask[v].r = fleetTask[u].r => v = u
  BY DEF FleetInv, SpawnsApart, OneEach
<1>13. ASSUME NEW u \in FleetTasks, u # t PROVE JobFits(ctr', fleetTask[u])
  <2>1. fleetTask[u].r # q
    BY <1>1, <1>12, <1>13
  <2>2. fleetTask[u].r \in Replicas => ctr'[fleetTask[u].r] = ctr[fleetTask[u].r]
    BY <1>7, <2>1
  <2>3. JobFits(ctr, fleetTask[u])
    BY <1>3
  <2> QED
    BY <2>2, <2>3 DEF JobFits
<1>14. \A u \in FleetTasks : JobFits(ctr', fleetTask'[u])
  BY <1>10, <1>11, <1>13
<1>15. \A u \in FleetTasks : fleetTask'[u].r = fleetTask[u].r
         /\ (fleetTask'[u].pc # "idle" => fleetTask[u].pc # "idle")
  BY <1>1, <1>10, <1>11
<1>16. OneEach(fleetTask')
  BY <1>12, <1>15 DEF OneEach
<1>17. RowsCreated' /\ ListingsFit'
  BY <1>1, <1>8, ListingsKept
<1> QED
  BY <1>1, <1>7, <1>11, <1>14, <1>16, <1>17 DEF FleetInv, FleetTypes, SpawnsApart

(* The map and the registry learn of the new replica.                      *)
LEMMA FleetInsert ==
    ASSUME FleetInv, NEW t \in FleetTasks, F!InsertPlacement(t)
    PROVE  FleetInv'
<1> DEFINE q == fleetTask[t].r
           g == F!Min(fleetTask[t].hosts)
<1>1. /\ fleetTask[t].pc = "ready" /\ placement' = [placement EXCEPT ![q] = g]
      /\ rows' = rows \cup {q} /\ fleetTask' = [fleetTask EXCEPT ![t] = F!NoTask]
      /\ ctr' = ctr /\ pass' = pass
  BY DEF F!InsertPlacement, F!To
<1>2. JobFits(ctr, fleetTask[t])
  BY DEF FleetInv, SpawnsApart
<1>3. q \in Replicas /\ ctr[q].st # "new"
  BY <1>1, <1>2 DEF JobFits
<1>4. PICK h \in F!Hosts : fleetTask[t].hosts = {h}
  BY <1>1, <1>2 DEF JobFits
<1>5. g \in Places
  BY <1>4, OnlyHost DEF Places
<1> HIDE DEF g
<1>6. placement' \in [Replicas -> Places]
  BY <1>1, <1>5 DEF FleetInv, FleetTypes
<1>7. Ages(ctr, ctr')
  BY <1>1, ContainersSame
<1>8. fleetTask' \in [FleetTasks -> FleetJobs] /\ SpawnsApart'
  BY <1>1, <1>7, FleetRest, TasksStep DEF JobFits
<1>9. ListingsFit'
  BY <1>1 DEF FleetInv, ListingsFit
<1>10. rows' \in SUBSET Replicas /\ RowsCreated'
  BY <1>1, <1>3 DEF FleetInv, FleetTypes, RowsCreated
<1> QED
  BY <1>1, <1>6, <1>8, <1>9, <1>10 DEF FleetInv, FleetTypes

(* A spawn ends without a replica.                                         *)
LEMMA FleetSpawnFails ==
    ASSUME FleetInv, NEW t \in FleetTasks, F!SpawnFails(t)
    PROVE  FleetInv'
<1> DEFINE q == fleetTask[t].r
<1>1. /\ fleetTask' = [fleetTask EXCEPT ![t] = F!NoTask]
      /\ placement' = placement /\ rows' = rows /\ pass' = pass
      /\ \/ ctr' = ctr
         \/ fleetTask[t].pc = "ready" /\ ctr' = [ctr EXCEPT ![q].st = "gone"]
  BY DEF F!SpawnFails, F!To
<1>2. Ages(ctr, ctr')
  <2>1. CASE ctr' = ctr
    BY <2>1, ContainersSame
  <2>2. CASE fleetTask[t].pc = "ready" /\ ctr' = [ctr EXCEPT ![q].st = "gone"]
    <3>1. JobFits(ctr, fleetTask[t])
      BY DEF FleetInv, SpawnsApart
    <3>2. q \in Replicas /\ ctr[q].st # "new"
      BY <2>2, <3>1 DEF JobFits
    <3> QED
      BY <2>2, <3>2, ContainerAges
  <2> QED
    BY <1>1, <2>1, <2>2
<1>3. fleetTask' \in [FleetTasks -> FleetJobs] /\ SpawnsApart'
  BY <1>1, <1>2, FleetRest, TasksStep DEF JobFits
<1>4. RowsCreated' /\ ListingsFit'
  BY <1>1, <1>2, ListingsKept DEF Ages
<1>5. ctr' \in [Replicas -> Containers]
  BY <1>2 DEF Ages, Moves
<1> QED
  BY <1>1, <1>3, <1>4, <1>5 DEF FleetInv, FleetTypes

(* A stop begins: at the host of its entry, or at every host in turn.      *)
LEMMA FleetStop ==
    ASSUME FleetInv, NEW t \in FleetTasks, NEW r \in Replicas, F!Stop(t, r)
    PROVE  FleetInv'
<1> DEFINE a == [pc |-> "stop", r |-> r, hosts |-> {placement[r]}]
           b == [pc |-> "try", r |-> r, hosts |-> F!Hosts]
           j == IF placement[r] # F!NoHost THEN a ELSE b
<1>1. /\ fleetTask' = [fleetTask EXCEPT ![t] = j] /\ r \in rows
      /\ \A u \in FleetTasks : fleetTask[u].r # r
      /\ ctr' = ctr /\ placement' = placement /\ rows' = rows /\ pass' = pass
  BY DEF F!Stop, F!To
<1>2. ctr[r].st # "new" /\ placement[r] \in Places
  BY <1>1 DEF FleetInv, FleetTypes, RowsCreated
<1>3. j \in FleetJobs /\ j.r = r /\ j.pc \in {"stop", "try"}
  <2>1. CASE placement[r] # F!NoHost
    BY <1>2, <2>1 DEF FleetJobs, Places
  <2>2. CASE placement[r] = F!NoHost
    BY <2>2 DEF FleetJobs
  <2> QED
    BY <2>1, <2>2
<1> HIDE DEF j
<1>4. JobFits(ctr', j)
  BY <1>1, <1>2, <1>3 DEF JobFits
<1>5. Ages(ctr, ctr')
  BY <1>1, ContainersSame
<1>6. fleetTask' \in [FleetTasks -> FleetJobs] /\ SpawnsApart'
  BY <1>1, <1>3, <1>4, <1>5, TasksStep
<1>7. RowsCreated' /\ ListingsFit'
  BY <1>1, <1>5, ListingsKept DEF Ages
<1> QED
  BY <1>1, <1>6, <1>7 DEF FleetInv, FleetTypes

(* The end of a stop: the entry and the row go.                            *)
LEMMA FleetStopped ==
    ASSUME FleetInv, NEW t \in FleetTasks, F!Stopped(t), Ages(ctr, ctr'), pass' = pass
    PROVE  FleetInv'
<1>1. /\ placement' = [placement EXCEPT ![fleetTask[t].r] = F!NoHost]
      /\ rows' = rows \ {fleetTask[t].r}
      /\ fleetTask' = [fleetTask EXCEPT ![t] = F!NoTask]
  BY DEF F!Stopped, F!To
<1>2. placement' \in [Replicas -> Places]
  BY <1>1 DEF FleetInv, FleetTypes, Places
<1>3. fleetTask' \in [FleetTasks -> FleetJobs] /\ SpawnsApart'
  BY <1>1, FleetRest, TasksStep DEF JobFits
<1>4. RowsCreated' /\ ListingsFit' /\ rows' \in SUBSET Replicas
  BY <1>1, ListingsKept DEF Ages, FleetInv, FleetTypes
<1>5. ctr' \in [Replicas -> Containers] /\ pass' \in [Passes -> Listings]
  BY DEF Ages, Moves, FleetInv, FleetTypes
<1> QED
  BY <1>2, <1>3, <1>4, <1>5 DEF FleetInv, FleetTypes

(* A host says Ok to a stop.                                               *)
LEMMA FleetStopOk ==
    ASSUME FleetInv, NEW t \in FleetTasks, F!StopOk(t)
    PROVE  FleetInv'
<1> DEFINE q == fleetTask[t].r
           h == F!Min(fleetTask[t].hosts)
<1>1. ctr' = F!StopAt(q, h) /\ F!Stopped(t) /\ pass' = pass
  BY DEF F!StopOk
<1>2. Ages(ctr, ctr')
  <2>1. CASE q \in F!On(h)
    <3>1. q \in Replicas /\ ctr[q].st \in {"up", "stopped"}
      BY <2>1 DEF F!On
    <3>2. ctr' = [ctr EXCEPT ![q].st = "gone"]
      BY <1>1, <2>1 DEF F!StopAt
    <3> QED
      BY <3>1, <3>2, ContainerAges
  <2>2. CASE q \notin F!On(h)
    <3>1. ctr' = ctr
      BY <1>1, <2>2 DEF F!StopAt
    <3> QED
      BY <3>1, ContainersSame
  <2> QED
    BY <2>1, <2>2
<1> QED
  BY <1>1, <1>2, FleetStopped

(* A host fails a stop: the search goes on, or ends there.                 *)
LEMMA FleetStopFails ==
    ASSUME FleetInv, NEW t \in FleetTasks, F!StopFails(t)
    PROVE  FleetInv'
<1> DEFINE h == F!Min(fleetTask[t].hosts)
           j == [fleetTask[t] EXCEPT !.hosts = @ \ {h}]
<1>1. /\ fleetTask[t].pc \in {"stop", "try"} /\ ctr' = ctr /\ pass' = pass
      /\ \/ F!Stopped(t)
         \/ /\ fleetTask' = [fleetTask EXCEPT ![t] = j]
            /\ placement' = placement /\ rows' = rows
  BY DEF F!StopFails, F!To
<1>2. Ages(ctr, ctr')
  BY <1>1, ContainersSame
<1>3. CASE F!Stopped(t)
  BY <1>1, <1>2, <1>3, FleetStopped
<1>4. CASE /\ fleetTask' = [fleetTask EXCEPT ![t] = j]
           /\ placement' = placement /\ rows' = rows
  <2>1. fleetTask[t] \in FleetJobs /\ JobFits(ctr, fleetTask[t])
    BY DEF FleetInv, FleetTypes, SpawnsApart
  <2>2. /\ j \in FleetJobs /\ j.r = fleetTask[t].r /\ j.pc = fleetTask[t].pc
    BY <2>1 DEF FleetJobs
  <2> HIDE DEF j
  <2>3. JobFits(ctr', j)
    BY <1>1, <2>1, <2>2 DEF JobFits
  <2>4. fleetTask' \in [FleetTasks -> FleetJobs] /\ SpawnsApart'
    BY <1>1, <1>2, <1>4, <2>2, <2>3, TasksStep
  <2>5. RowsCreated' /\ ListingsFit'
    BY <1>1, <1>2, <1>4, ListingsKept DEF Ages
  <2> QED
    BY <1>1, <1>4, <2>4, <2>5 DEF FleetInv, FleetTypes
<1> QED
  BY <1>1, <1>3, <1>4

(* Steps of the containers alone.                                          *)
LEMMA FleetContainer ==
    ASSUME FleetInv, Ages(ctr, ctr'), placement' = placement, rows' = rows,
           fleetTask' = fleetTask, pass' = pass
    PROVE  FleetInv'
<1>1. fleetTask' \in [FleetTasks -> FleetJobs] /\ SpawnsApart'
  BY TasksKept
<1>2. RowsCreated' /\ ListingsFit'
  BY ListingsKept DEF Ages
<1> QED
  BY <1>1, <1>2 DEF FleetInv, FleetTypes, Ages, Moves

(* A container is removed, exits or is started again.                      *)
LEMMA FleetRemove ==
    ASSUME FleetInv, NEW r \in Replicas, F!RemoveContainer(r) \/ F!ContainerChanges(r)
    PROVE  FleetInv'
<1>1. /\ ctr[r].st \in {"up", "stopped"}
      /\ placement' = placement /\ rows' = rows /\ fleetTask' = fleetTask /\ pass' = pass
      /\ \/ ctr' = [ctr EXCEPT ![r].st = "gone"] \/ ctr' = [ctr EXCEPT ![r].st = "up"]
         \/ ctr' = [ctr EXCEPT ![r].st = "stopped"]
  BY DEF F!RemoveContainer, F!ContainerChanges, F!On
<1>2. Ages(ctr, ctr')
  BY <1>1, ContainerAges
<1> QED
  BY <1>1, <1>2, FleetContainer

(* A host goes down or comes back.                                         *)
LEMMA FleetHost ==
    ASSUME FleetInv, NEW h, F!HostDown(h) \/ F!HostUp(h)
    PROVE  FleetInv'
<1>1. ctr' = ctr /\ placement' = placement /\ rows' = rows /\ fleetTask' = fleetTask /\ pass' = pass
  BY DEF F!HostDown, F!HostUp
<1> QED
  BY <1>1, ContainersSame, FleetContainer

(* A listing's record with some of its fields replaced.                    *)
LEMMA ListingManaged ==
    ASSUME NEW y \in Listings, NEW m
    PROVE  [y EXCEPT !.managed = m] =
             [pc |-> y.pc, known |-> y.known, managed |-> m, listed |-> y.listed,
              failed |-> y.failed]
  BY DEF Listings

(* The same, for the answers to the other query.                           *)
LEMMA ListingListed ==
    ASSUME NEW y \in Listings, NEW l
    PROVE  [y EXCEPT !.listed = l] =
             [pc |-> y.pc, known |-> y.known, managed |-> y.managed, listed |-> l,
              failed |-> y.failed]
  BY DEF Listings

(* A step of one listing: it goes to x, and the rest stays.                *)
LEMMA FleetListing ==
    ASSUME FleetInv, NEW p \in Passes, NEW x \in Listings,
           pass' = [pass EXCEPT ![p] = x], ListingFits(ctr, x),
           ctr' = ctr, placement' = placement, rows' = rows, fleetTask' = fleetTask
    PROVE  FleetInv'
<1>1. pass \in [Passes -> Listings]
  BY DEF FleetInv, FleetTypes
<1>2. pass' \in [Passes -> Listings]
  BY <1>1
<1>3. pass'[p] = x /\ \A q \in Passes \ {p} : pass'[q] = pass[q]
  BY <1>1
<1>4. ListingsFit'
  BY <1>3 DEF FleetInv, ListingsFit
<1>5. SpawnsApart' /\ RowsCreated'
  BY DEF FleetInv, SpawnsApart, RowsCreated
<1> QED
  BY <1>2, <1>4, <1>5 DEF FleetInv, FleetTypes

(* A listing begins; reconciliation knows the rows of that moment.         *)
LEMMA FleetBegin ==
    ASSUME FleetInv, NEW p \in Passes, F!Begin(p)
    PROVE  FleetInv'
<1>0. PICK kind \in {"liveness", "list", "boot"} :
        pass' = [pass EXCEPT ![p] = [F!NoPass EXCEPT !.pc = kind,
                    !.known = IF kind = "liveness" THEN rows ELSE {}]]
  BY DEF F!Begin
<1> DEFINE k == IF kind = "liveness" THEN rows ELSE {}
           x == [F!NoPass EXCEPT !.pc = kind, !.known = k]
<1>1. pass' = [pass EXCEPT ![p] = x]
  BY <1>0
<1>2. k \in SUBSET Replicas /\ \A r \in k : ctr[r].st # "new"
  BY DEF FleetInv, FleetTypes, RowsCreated
<1> HIDE DEF k
<1>a. x = [F!NoPass EXCEPT !.pc = kind, !.known = k]
  OBVIOUS
<1> HIDE DEF x
<1>3. x \in Listings /\ x.known = k /\ x.managed = {} /\ x.listed = {}
  <2>1. F!NoPass \in Listings /\ F!NoPass.managed = {} /\ F!NoPass.listed = {}
    BY FleetRest
  <2>2. x \in Listings
    BY <1>2, <1>a, <2>1 DEF Listings
  <2> QED
    BY <1>2, <1>a, <2>1 DEF Listings
<1>4. ListingFits(ctr, x)
  BY <1>2, <1>3 DEF ListingFits
<1>5. ctr' = ctr /\ placement' = placement /\ rows' = rows /\ fleetTask' = fleetTask
  BY DEF F!Begin
<1> QED
  BY <1>1, <1>3, <1>4, <1>5, FleetListing

(* A host that answers lists all its containers: one known to be there and *)
(* not listed is gone.                                                     *)
LEMMA FleetListManaged ==
    ASSUME FleetInv, NEW p \in Passes, NEW h \in F!Hosts, F!ListManaged(p, h)
    PROVE  FleetInv'
<1> DEFINE y == pass[p]
           m == y.managed \cup {<<h, F!On(h)>>}
           x == [pc |-> y.pc, known |-> y.known, managed |-> m, listed |-> y.listed,
                 failed |-> y.failed]
<1>1. y \in Listings /\ pass \in [Passes -> Listings] /\ ctr \in [Replicas -> Containers]
  BY DEF FleetInv, FleetTypes
<1>2. pass' = [pass EXCEPT ![p].managed = @ \cup {<<h, F!On(h)>>}]
  BY DEF F!ListManaged
<1>3. [y EXCEPT !.managed = m] = x
  BY <1>1, ListingManaged
<1>4. pass' = [pass EXCEPT ![p] = x]
  BY <1>2, <1>3
<1>5. F!On(h) \in SUBSET Replicas
  BY DEF F!On
<1>6. m \in Answers /\ y.listed \in Answers
  BY <1>1, <1>5 DEF Listings, Answers
<1>7. ListingFits(ctr, y)
  BY DEF FleetInv, ListingsFit
<1>8. ASSUME NEW a \in m, NEW r \in y.known, ctr[r].host = a[1], r \notin a[2]
      PROVE  ctr[r].st = "gone"
  <2>1. CASE a \in y.managed
    BY <1>7, <1>8, <2>1 DEF ListingFits
  <2>2. CASE a = <<h, F!On(h)>>
    <3>1. r \in Replicas /\ ctr[r].host = h /\ r \notin F!On(h)
      BY <1>1, <1>8, <2>2 DEF Listings
    <3>2. ctr[r].st \notin {"up", "stopped"}
      BY <3>1 DEF F!On
    <3>3. ctr[r].st # "new"
      BY <1>7 DEF ListingFits
    <3>4. ctr[r].st \in {"new", "up", "stopped", "gone"}
      BY <1>1, <3>1 DEF Containers
    <3> QED
      BY <3>2, <3>3, <3>4
  <2> QED
    BY <1>8, <2>1, <2>2
<1> HIDE DEF m
<1>9. x \in Listings
  BY <1>1, <1>6 DEF Listings
<1>10. ListingFits(ctr, x)
  BY <1>7, <1>8 DEF ListingFits
<1> HIDE DEF x
<1>11. ctr' = ctr /\ placement' = placement /\ rows' = rows /\ fleetTask' = fleetTask
  BY DEF F!ListManaged
<1> QED
  BY <1>4, <1>9, <1>10, <1>11, FleetListing

(* A host lists the replicas that run.                                     *)
LEMMA FleetListReplicas ==
    ASSUME FleetInv, NEW p \in Passes, NEW h \in F!Hosts, F!ListReplicas(p, h)
    PROVE  FleetInv'
<1> DEFINE y == pass[p]
           up == {r \in F!On(h) : ctr[r].st = "up"}
           l == y.listed \cup {<<h, up>>}
           x == [pc |-> y.pc, known |-> y.known, managed |-> y.managed, listed |-> l,
                 failed |-> y.failed]
<1>1. y \in Listings /\ pass \in [Passes -> Listings] /\ ctr \in [Replicas -> Containers]
  BY DEF FleetInv, FleetTypes
<1>2. pass' = [pass EXCEPT ![p].listed = @ \cup {<<h, up>>}]
  BY DEF F!ListReplicas
<1>3. [y EXCEPT !.listed = l] = x
  BY <1>1, ListingListed
<1>4. pass' = [pass EXCEPT ![p] = x]
  BY <1>2, <1>3
<1>5. up \in SUBSET Replicas /\ \A r \in up : ctr[r].st # "new"
  BY DEF F!On
<1> HIDE DEF up
<1>6. l \in Answers
  BY <1>1, <1>5 DEF Listings, Answers
<1>7. ListingFits(ctr, y)
  BY DEF FleetInv, ListingsFit
<1>8. \A a \in l, r \in Replicas : r \in a[2] => ctr[r].st # "new"
  BY <1>5, <1>7 DEF ListingFits
<1> HIDE DEF l
<1>9. x \in Listings
  BY <1>1, <1>6 DEF Listings
<1>10. ListingFits(ctr, x)
  BY <1>7, <1>8 DEF ListingFits
<1> HIDE DEF x
<1>11. ctr' = ctr /\ placement' = placement /\ rows' = rows /\ fleetTask' = fleetTask
  BY DEF F!ListReplicas
<1> QED
  BY <1>4, <1>9, <1>10, <1>11, FleetListing

(* A host fails, and so do its answers.                                    *)
LEMMA FleetHostFails ==
    ASSUME FleetInv, NEW p \in Passes, NEW h \in F!Hosts, F!HostFails(p, h)
    PROVE  FleetInv'
<1> DEFINE y == pass[p]
           m == F!Without(y.managed, h)
           l == F!Without(y.listed, h)
           f == y.failed \cup {h}
           x == [y EXCEPT !.failed = f, !.managed = m, !.listed = l]
<1>1. y \in Listings /\ pass \in [Passes -> Listings]
  BY DEF FleetInv, FleetTypes
<1>2. pass' = [pass EXCEPT ![p].failed = @ \cup {h}, ![p].managed = F!Without(@, h),
                           ![p].listed = F!Without(@, h)]
  BY DEF F!HostFails
<1>3. pass' = [pass EXCEPT ![p] = x]
  BY <1>1, <1>2 DEF Listings
<1>4. m \subseteq y.managed /\ l \subseteq y.listed
  BY DEF F!Without
<1>5. f \in SUBSET F!Hosts /\ m \in Answers /\ l \in Answers
  BY <1>1, <1>4 DEF Listings, Answers
<1>a. x = [y EXCEPT !.failed = f, !.managed = m, !.listed = l]
  OBVIOUS
<1> HIDE DEF m, l, f, x
<1>6. x \in Listings /\ x.known = y.known /\ x.managed = m /\ x.listed = l
  <2>1. x \in Listings
    BY <1>1, <1>5, <1>a DEF Listings
  <2> QED
    BY <1>1, <1>a, <2>1 DEF Listings
<1>7. ListingFits(ctr, y)
  BY DEF FleetInv, ListingsFit
<1>8. ListingFits(ctr, x)
  BY <1>4, <1>6, <1>7 DEF ListingFits
<1>9. ctr' = ctr /\ placement' = placement /\ rows' = rows /\ fleetTask' = fleetTask
  BY DEF F!HostFails
<1> QED
  BY <1>3, <1>6, <1>8, <1>9, FleetListing

(* A listing ends: the map is rebuilt, rows go and come.                   *)
LEMMA FleetEndPass ==
    ASSUME FleetInv, NEW p \in Passes, F!EndPass(p)
    PROVE  FleetInv'
<1> DEFINE x == pass[p]
<1>1. /\ ctr \in [Replicas -> Containers] /\ placement \in [Replicas -> Places]
      /\ rows \in SUBSET Replicas /\ pass \in [Passes -> Listings] /\ x \in Listings
  BY DEF FleetInv, FleetTypes
<1>2. /\ ctr' = ctr /\ fleetTask' = fleetTask /\ pass' = [pass EXCEPT ![p] = F!NoPass]
      /\ placement' = placement \/ placement' = F!Retain(x)
      /\ \/ rows' = rows \/ rows' = F!Seen(x.listed)
         \/ \E new \in SUBSET F!Seen(x.listed) : rows' = (rows \ F!Missing(x)) \cup new
  BY DEF F!EndPass
<1>3. placement' \in [Replicas -> Places]
  BY <1>1, <1>2 DEF F!Retain, Places, Containers
<1>4. \A r \in F!Seen(x.listed) : r \in Replicas /\ ctr[r].st # "new"
  <2> TAKE r \in F!Seen(x.listed)
  <2>1. PICK a \in x.listed : r \in a[2]
    BY DEF F!Seen
  <2>2. a \in F!Hosts \X SUBSET Replicas
    BY <1>1 DEF Listings, Answers
  <2>3. r \in Replicas
    BY <2>1, <2>2
  <2>4. ListingFits(ctr, x)
    BY DEF FleetInv, ListingsFit
  <2> QED
    BY <2>1, <2>3, <2>4 DEF ListingFits
<1>5. \A r \in rows' : r \in rows \/ r \in F!Seen(x.listed)
  BY <1>2
<1>6. rows' \in SUBSET Replicas /\ RowsCreated'
  BY <1>1, <1>2, <1>4, <1>5 DEF FleetInv, RowsCreated
<1>7. pass' \in [Passes -> Listings]
  BY <1>1, <1>2, FleetRest
<1>8. ListingFits(ctr, F!NoPass)
  BY FleetRest DEF ListingFits
<1>9. pass'[p] = F!NoPass /\ \A q \in Passes \ {p} : pass'[q] = pass[q]
  BY <1>1, <1>2
<1>10. ListingsFit'
  BY <1>2, <1>8, <1>9 DEF FleetInv, ListingsFit
<1>11. SpawnsApart'
  BY <1>2 DEF FleetInv, SpawnsApart
<1> QED
  BY <1>1, <1>2, <1>3, <1>6, <1>7, <1>10, <1>11 DEF FleetInv, FleetTypes

(* A new process knows nothing; the containers are as they were.           *)
LEMMA FleetRestart ==
    ASSUME FleetTypes, ctr' = ctr, rows' = {},
           placement' = [r \in Replicas |-> F!NoHost],
           fleetTask' = [t \in FleetTasks |-> F!NoTask], pass' = [p \in Passes |-> F!NoPass]
    PROVE  FleetInv'
<1>1. FleetTypes'
  BY FleetRest DEF FleetTypes, Places
<1>2. \A t \in FleetTasks : fleetTask'[t] = F!NoTask
  OBVIOUS
<1>3. SpawnsApart'
  BY <1>2, FleetRest DEF SpawnsApart, JobFits, OneEach
<1>4. RowsCreated'
  BY DEF RowsCreated
<1>5. \A p \in Passes : pass'[p] = F!NoPass
  OBVIOUS
<1>6. ListingsFit'
  BY <1>5, FleetRest DEF ListingsFit, ListingFits
<1> QED
  BY <1>1, <1>3, <1>4, <1>6 DEF FleetInv

(* The invariant holds before the first boot.                              *)
LEMMA FleetInit == ASSUME F!Init PROVE FleetInv
<1>1. FleetTypes
  BY FleetRest DEF F!Init, FleetTypes, Containers, Places
<1>2. \A t \in FleetTasks : fleetTask[t] = F!NoTask
  BY DEF F!Init
<1>3. SpawnsApart
  BY <1>2, FleetRest DEF SpawnsApart, JobFits, OneEach
<1>4. RowsCreated
  BY DEF F!Init, RowsCreated
<1>5. \A p \in Passes : pass[p] = F!NoPass
  BY DEF F!Init
<1>6. ListingsFit
  BY <1>5, FleetRest DEF ListingsFit, ListingFits
<1> QED
  BY <1>1, <1>3, <1>4, <1>6 DEF FleetInv

(* Only hosts of the configuration are ever down.                          *)
LEMMA HostsDownNext == ASSUME HostsDown, [F!Next]_(F!vars) PROVE HostsDown'
<1>1. down' = down \/ \E h \in F!Hosts : down' = down \cup {h} \/ down' = down \ {h}
  <2>1. ASSUME NEW t \in FleetTasks,
               \/ F!CreateAndStart(t) \/ F!InsertPlacement(t) \/ F!SpawnFails(t)
               \/ F!StopOk(t) \/ F!StopFails(t)
        PROVE  down' = down
    BY <2>1 DEF F!CreateAndStart, F!InsertPlacement, F!SpawnFails, F!StopOk, F!StopFails
  <2>2. ASSUME NEW t, NEW r, F!PickHost(t, r) \/ F!Stop(t, r)
        PROVE  down' = down
    BY <2>2 DEF F!PickHost, F!Stop
  <2>3. ASSUME NEW p, F!Begin(p) \/ F!EndPass(p)
        PROVE  down' = down
    BY <2>3 DEF F!Begin, F!EndPass
  <2>4. ASSUME NEW p, NEW h, F!ListManaged(p, h) \/ F!ListReplicas(p, h) \/ F!HostFails(p, h)
        PROVE  down' = down
    BY <2>4 DEF F!ListManaged, F!ListReplicas, F!HostFails
  <2>5. ASSUME NEW r, F!RemoveContainer(r) \/ F!ContainerChanges(r)
        PROVE  down' = down
    BY <2>5 DEF F!RemoveContainer, F!ContainerChanges
  <2>6. ASSUME NEW h \in F!Hosts, F!HostDown(h) \/ F!HostUp(h)
        PROVE  down' = down \cup {h} \/ down' = down \ {h}
    BY <2>6 DEF F!HostDown, F!HostUp
  <2>7. CASE F!Restart
    BY <2>7 DEF F!Restart
  <2>8. CASE UNCHANGED F!vars
    BY <2>8 DEF F!vars
  <2> QED
    BY <2>1, <2>2, <2>3, <2>4, <2>5, <2>6, <2>7, <2>8 DEF F!Next, F!PassStep
<1> QED
  BY <1>1 DEF HostsDown

(* Every step of the fleet keeps the invariant.                            *)
LEMMA FleetNext == ASSUME FleetInv, HostsDown, [F!Next]_(F!vars) PROVE FleetInv'
<1>0. down \subseteq F!Hosts
  BY DEF HostsDown
<1>1. ASSUME NEW t \in FleetTasks,
             \/ F!CreateAndStart(t) \/ F!InsertPlacement(t) \/ F!SpawnFails(t)
             \/ F!StopOk(t) \/ F!StopFails(t)
      PROVE  FleetInv'
  BY <1>1, FleetCreate, FleetInsert, FleetSpawnFails, FleetStopOk, FleetStopFails
<1>2. ASSUME NEW t \in FleetTasks, NEW r \in Replicas, F!PickHost(t, r) \/ F!Stop(t, r)
      PROVE  FleetInv'
  BY <1>2, FleetPickHost, FleetStop
<1>3. ASSUME NEW p \in Passes, F!Begin(p) \/ F!EndPass(p)
      PROVE  FleetInv'
  BY <1>3, FleetBegin, FleetEndPass
<1>4. ASSUME NEW p \in Passes, NEW h \in F!Hosts,
             F!ListManaged(p, h) \/ F!ListReplicas(p, h) \/ F!HostFails(p, h)
      PROVE  FleetInv'
  BY <1>4, FleetListManaged, FleetListReplicas, FleetHostFails
<1>5. ASSUME NEW r \in Replicas, F!RemoveContainer(r) \/ F!ContainerChanges(r)
      PROVE  FleetInv'
  BY <1>5, FleetRemove
<1>6. ASSUME NEW h \in F!Hosts, F!HostDown(h) \/ F!HostUp(h)
      PROVE  FleetInv'
  BY <1>6, FleetHost
<1>7. CASE F!Restart
  BY <1>7, FleetRestart DEF F!Restart, FleetInv
<1>8. CASE UNCHANGED F!vars
  BY <1>8, ContainersSame, FleetContainer DEF F!vars
<1> QED
  BY <1>0, <1>1, <1>2, <1>3, <1>4, <1>5, <1>6, <1>7, <1>8 DEF F!Next, F!PassStep

(* What was created stays where it is, what was not listed is gone: the    *)
(* inductive invariant of the hosts' listings.                             *)
THEOREM FleetInvariance == F!Spec => [](FleetInv /\ HostsDown)
<1>1. F!Init => FleetInv /\ HostsDown
  BY FleetInit DEF F!Init, HostsDown
<1>2. FleetInv /\ HostsDown /\ [F!Next]_(F!vars) => (FleetInv /\ HostsDown)'
  BY FleetNext, HostsDownNext
<1> QED
  BY <1>1, <1>2, PTL DEF F!Spec

(* A row that a listing classified as missing has a container that is      *)
(* gone.                                                                   *)
LEMMA MissingIsGone ==
    ASSUME FleetInv, NEW p \in Passes, NEW r \in F!Missing(pass[p])
    PROVE  ctr[r].st = "gone"
<1>1. ListingFits(ctr, pass[p])
  BY DEF FleetInv, ListingsFit
<1>2. /\ r \in pass[p].known /\ ctr[r].host \in F!Answered(pass[p].managed)
      /\ r \notin F!Seen(pass[p].managed)
  BY DEF F!Missing
<1>3. PICK a \in pass[p].managed : ctr[r].host = a[1]
  BY <1>2 DEF F!Answered
<1>4. r \notin a[2]
  BY <1>2 DEF F!Seen
<1> QED
  BY <1>1, <1>2, <1>3, <1>4 DEF ListingFits

(* Only its own end takes a listing of a running process to idle.          *)
LEMMA OnlyEndPassEnds ==
    ASSUME FleetInv, HostsDown, F!Next, NEW p \in Passes,
           pass[p].pc = "liveness", pass'[p].pc = "idle", booted'
    PROVE  F!EndPass(p)
<1>1. pass \in [Passes -> Listings] /\ pass[p] \in Listings
  BY DEF FleetInv, FleetTypes
<1>2. pass' # pass
  OBVIOUS
<1>3. ASSUME NEW t \in FleetTasks,
             \/ F!CreateAndStart(t) \/ F!InsertPlacement(t) \/ F!SpawnFails(t)
             \/ F!StopOk(t) \/ F!StopFails(t)
      PROVE  FALSE
  BY <1>2, <1>3 DEF F!CreateAndStart, F!InsertPlacement, F!SpawnFails, F!StopOk, F!StopFails
<1>4. ASSUME NEW t, NEW r, F!PickHost(t, r) \/ F!Stop(t, r)
      PROVE  FALSE
  BY <1>2, <1>4 DEF F!PickHost, F!Stop
<1>5. ASSUME NEW r, F!RemoveContainer(r) \/ F!ContainerChanges(r)
      PROVE  FALSE
  BY <1>2, <1>5 DEF F!RemoveContainer, F!ContainerChanges
<1>6. ASSUME NEW h, F!HostDown(h) \/ F!HostUp(h)
      PROVE  FALSE
  BY <1>2, <1>6 DEF F!HostDown, F!HostUp
<1>7. ~F!Restart
  BY DEF F!Restart
<1>8. PICK q \in Passes :
         \/ F!Begin(q) \/ F!EndPass(q)
         \/ \E h : F!ListManaged(q, h) \/ F!ListReplicas(q, h) \/ F!HostFails(q, h)
  BY <1>3, <1>4, <1>5, <1>6, <1>7 DEF F!Next, F!PassStep
<1>9. q = p
  <2>1. \E x : pass' = [pass EXCEPT ![q] = x]
    BY <1>8 DEF F!Begin, F!EndPass, F!ListManaged, F!ListReplicas, F!HostFails
  <2> QED
    BY <1>1, <2>1
<1>10. ~F!Begin(p)
  BY DEF F!Begin
<1>11. ASSUME NEW h, F!ListManaged(p, h) \/ F!ListReplicas(p, h) \/ F!HostFails(p, h)
       PROVE  FALSE
  <2>1. CASE F!ListManaged(p, h)
    <3>1. pass' = [pass EXCEPT ![p].managed = @ \cup {<<h, F!On(h)>>}]
      BY <2>1 DEF F!ListManaged
    <3> QED
      BY <1>1, <3>1 DEF Listings
  <2>2. CASE F!ListReplicas(p, h)
    <3>1. pass' = [pass EXCEPT ![p].listed = @ \cup {<<h, {r \in F!On(h) : ctr[r].st = "up"}>>}]
      BY <2>2 DEF F!ListReplicas
    <3> QED
      BY <1>1, <3>1 DEF Listings
  <2>3. CASE F!HostFails(p, h)
    <3>1. pass' = [pass EXCEPT ![p].failed = @ \cup {h}, ![p].managed = F!Without(@, h),
                               ![p].listed = F!Without(@, h)]
      BY <2>3 DEF F!HostFails
    <3> QED
      BY <1>1, <3>1 DEF Listings
  <2> QED
    BY <1>11, <2>1, <2>2, <2>3
<1> QED
  BY <1>8, <1>9, <1>10, <1>11

(* A row is pruned as missing only when its container is gone, whatever    *)
(* hosts fail, answer late or answer one query of two.                     *)
THEOREM NeverFalselyMissing == F!Spec => NoFalseMissing
<1> DEFINE Pruned == \A p \in Passes : pass[p].pc = "liveness" /\ pass'[p].pc = "idle" /\ booted'
                       => \A r \in rows \ rows' : ctr[r].st = "gone"
<1>1. ASSUME FleetInv, HostsDown, F!Next PROVE Pruned
  <2> SUFFICES ASSUME NEW p \in Passes, pass[p].pc = "liveness", pass'[p].pc = "idle",
                      booted', NEW r \in rows \ rows'
               PROVE  ctr[r].st = "gone"
    OBVIOUS
  <2>1. F!EndPass(p)
    BY <1>1, OnlyEndPassEnds
  <2>2. r \in F!Missing(pass[p])
    BY <2>1 DEF F!EndPass
  <2> QED
    BY <1>1, <2>2, MissingIsGone
<1>2. FleetInv /\ HostsDown /\ [F!Next]_(F!vars) => [Pruned]_(F!vars)
  BY <1>1
<1> QED
  BY <1>2, FleetInvariance, PTL DEF F!Spec, NoFalseMissing, F!NoFalseMissing

-----------------------------------------------------------------------------
(* The composition.                                                        *)

\* The parts share no state: what is proved of each by itself holds of the
\* system they make up.
THEOREM NodesParts == NodesSpec => Spec /\ S!Spec /\ F!Spec
<1>1. NodesInit => Init /\ S!Init /\ F!Init
  BY DEF NodesInit
<1>2. [NodesNext]_nodeVars => [Next]_vars
  <2>1. [NodesNext]_nodeVars => Next \/ UNCHANGED vars
    BY DEF NodesNext, nodeVars
  <2> QED
    BY <2>1
<1>3. [NodesNext]_nodeVars => [S!Next]_(S!vars)
  <2>1. [NodesNext]_nodeVars => S!Next \/ UNCHANGED sharedVars
    BY DEF NodesNext, nodeVars
  <2>2. UNCHANGED sharedVars => UNCHANGED S!vars
    BY DEF sharedVars, S!vars
  <2> QED
    BY <2>1, <2>2
<1>4. [NodesNext]_nodeVars => [F!Next]_(F!vars)
  <2>1. [NodesNext]_nodeVars => F!Next \/ UNCHANGED fleetVars
    BY DEF NodesNext, nodeVars
  <2>2. UNCHANGED fleetVars => UNCHANGED F!vars
    BY DEF fleetVars, F!vars
  <2> QED
    BY <2>1, <2>2
<1> QED
  BY <1>1, <1>2, <1>3, <1>4, PTL DEF NodesSpec, Spec, S!Spec, F!Spec

\* What the parts promise, of the system they make up: on one node counters
\* and admissions keep to the seats; nodes that share sessions count the seats
\* they gave out and drain what they own; and no listing of the hosts prunes a
\* row whose container is still there.
THEOREM NodesHold ==
    NodesSpec => /\ [](SeatLedger /\ SeatsCounted /\ DrainSeesOwn)
                 /\ AdmissionRespectsSeats /\ NoFalseMissing
  BY NodesParts, SeatsAccounted, SeatsRespected, SharedSeatsCounted, DrainsSeeOwn,
     NeverFalselyMissing, PTL
=============================================================================
