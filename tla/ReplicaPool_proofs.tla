------------------------- MODULE ReplicaPool_proofs -------------------------
(***************************************************************************)
(* What the spec's spawn mutex is enough for, proved for any number of     *)
(* replicas, spawners, liveness passes and stoppers and any events of      *)
(* their containers: the cap of spawn_one and the coalescing of cold       *)
(* starts hold although they are checked a whole spawn before the row is   *)
(* added, and passes, which act on what they read earlier, touch no spawn  *)
(* in flight and reset no Ready row.                                       *)
(*                                                                         *)
(* The argument: whatever makes a row Ready or adds one holds the mutex.   *)
(* So nothing that a holder has established under it (the row it probes is *)
(* not Ready; nothing accepts but what was freed since; there is room) is  *)
(* undone by another task. A container in flight is invisible to passes:   *)
(* it has no row, and nothing that a pass keeps from an earlier reading is *)
(* about it, because a container is created under an id nobody has seen.   *)
(***************************************************************************)
EXTENDS ReplicaPool, FiniteSetTheorems, TLAPS

InFlight == {"start", "probe", "add"}
Probing  == {"probe", "upsert"}

(* Who holds the mutex, and what tells so.                                 *)
MutexHeld ==
    /\ \A t \in Spawners : /\ mutex = t <=> spc[t] # "idle"
                           /\ tgt[t] # NoReplica <=> spc[t] \in InFlight
    /\ \A p \in Passes : /\ mutex = p <=> ppc[p] \in Probing
                         /\ cur[p] # NoReplica <=> ppc[p] \in Probing

(* No row, and nothing a pass holds from its readings makes it touch r.    *)
Unseen(r) ==
    /\ state[r] = "absent" /\ r \notin rowOld /\ r \notin ctrOld
    /\ \A p \in Passes : /\ snap[p][r] = "absent" /\ plan[p][r] = "keep"
                         /\ r \notin gc[p]

(* Containers in flight, and ids not used so far, are unseen.              *)
SpawnsUnseen ==
    /\ \A t \in Spawners : tgt[t] # NoReplica => Unseen(tgt[t]) /\ ctr[tgt[t]] # "none"
    /\ \A r \in Replicas : ctr[r] = "none" =>
          /\ Unseen(r)
          /\ \A p \in Passes : r \notin adopt[p] /\ cur[p] # r

(* A row that a re-adoption waits for is not Ready.                        *)
ProbesSpare ==
    \A p \in Passes : ppc[p] \in Probing => state[cur[p]] # "ready"

(* Since EnsureAvailable's check, rows accept only through freed seats.    *)
NeedLasts ==
    \A t \in Spawners :
        kind[t] = "ensure" /\ spc[t] \in {"cap", "create"} \cup InFlight
        => \A r \in Replicas : is_accepting(r) => r \in freed

(* Room found under the cap is there until it is used.                     *)
RoomLasts ==
    /\ \A t \in Spawners :
          kind[t] # "visit" /\ spc[t] \in {"create"} \cup InFlight => Live < MaxReplicas
    /\ \A p \in Passes : ppc[p] \in Probing /\ ~sameId[p] => Live < MaxReplicas

(* The inductive invariant.                                                *)
PoolInv == TypeOK /\ MutexHeld /\ SpawnsUnseen /\ ProbesSpare /\ NeedLasts /\ RoomLasts
-----------------------------------------------------------------------------
LEMMA SeatNumbers == 0 \in 0..Seats /\ 1 \in 0..Seats
  BY ConstantsAssumption

LEMMA OneValueSet ==
    ASSUME NEW D, NEW S, NEW f \in [D -> S], NEW d \in D, NEW v \in S
    PROVE  [f EXCEPT ![d] = v] \in [D -> S]
  OBVIOUS

LEMMA RowsShrink ==
    ASSUME TypeOK, Rows' \subseteq Rows
    PROVE  Live' <= Live /\ Live \in Nat /\ Live' \in Nat
<1>1. IsFiniteSet(Rows)
  BY ConstantsAssumption, FS_Subset DEF Rows
<1> QED
  BY <1>1, FS_Subset, FS_CardinalityType DEF Live

LEMMA PickAcceptingInv ==
    ASSUME PoolInv, NEW r \in Replicas, PickAccepting(r)
    PROVE  PoolInv'
<1> USE ConstantsAssumption
      DEF PoolInv, TypeOK, rowVars, ctrVars, spawnVars, passVars, PickAccepting,
      is_accepting
<1>1. TypeOK'
  BY DEF RowStates, CtrStates, Plans, Kinds
<1>2. MutexHeld'
  BY DEF MutexHeld, InFlight, Probing
<1>3. SpawnsUnseen'
  BY DEF SpawnsUnseen, Unseen, MutexHeld, InFlight
<1>4. ProbesSpare'
  BY DEF ProbesSpare, MutexHeld, Probing
<1>5. NeedLasts'
  BY DEF NeedLasts, MutexHeld, is_accepting, InFlight
<1>6. RoomLasts'
  <2>1. Rows' \subseteq Rows
    BY DEF Rows
  <2> QED
    BY <2>1, RowsShrink DEF RoomLasts, MutexHeld, InFlight, Probing
<1> QED
  BY <1>1, <1>2, <1>3, <1>4, <1>5, <1>6

LEMMA PickStartingInv ==
    ASSUME PoolInv, NEW r \in Replicas, PickStarting(r)
    PROVE  PoolInv'
<1> USE ConstantsAssumption
      DEF PoolInv, TypeOK, rowVars, ctrVars, spawnVars, passVars, PickStarting,
      StartingSeat
<1>1. TypeOK'
  BY DEF RowStates, CtrStates, Plans, Kinds
<1>2. MutexHeld'
  BY DEF MutexHeld, InFlight, Probing
<1>3. SpawnsUnseen'
  BY DEF SpawnsUnseen, Unseen, MutexHeld, InFlight
<1>4. ProbesSpare'
  BY DEF ProbesSpare, MutexHeld, Probing
<1>5. NeedLasts'
  BY DEF NeedLasts, MutexHeld, is_accepting, InFlight
<1>6. RoomLasts'
  <2>1. Rows' \subseteq Rows
    BY DEF Rows
  <2> QED
    BY <2>1, RowsShrink DEF RoomLasts, MutexHeld, InFlight, Probing
<1> QED
  BY <1>1, <1>2, <1>3, <1>4, <1>5, <1>6

LEMMA LeaveInv ==
    ASSUME PoolInv, NEW r \in Replicas, Leave(r)
    PROVE  PoolInv'
<1> USE ConstantsAssumption
      DEF PoolInv, TypeOK, rowVars, ctrVars, spawnVars, passVars, Leave
<1>1. TypeOK'
  BY DEF RowStates, CtrStates, Plans, Kinds
<1>2. MutexHeld'
  BY DEF MutexHeld, InFlight, Probing
<1>3. SpawnsUnseen'
  BY DEF SpawnsUnseen, Unseen, MutexHeld, InFlight
<1>4. ProbesSpare'
  BY DEF ProbesSpare, MutexHeld, Probing
<1>5. NeedLasts'
  BY DEF NeedLasts, MutexHeld, is_accepting, InFlight
<1>6. RoomLasts'
  <2>1. Rows' \subseteq Rows
    BY DEF Rows
  <2> QED
    BY <2>1, RowsShrink DEF RoomLasts, MutexHeld, InFlight, Probing
<1> QED
  BY <1>1, <1>2, <1>3, <1>4, <1>5, <1>6

LEMMA ReapConfirmedDeadInv ==
    ASSUME PoolInv, NEW r \in Replicas, ReapConfirmedDead(r)
    PROVE  PoolInv'
<1> USE ConstantsAssumption
      DEF PoolInv, TypeOK, rowVars, ctrVars, spawnVars, passVars, ReapConfirmedDead,
      RemoveRow
<1>1. TypeOK'
  BY DEF RowStates, CtrStates, Plans, Kinds
<1>2. MutexHeld'
  BY DEF MutexHeld, InFlight, Probing
<1>3. SpawnsUnseen'
  BY DEF SpawnsUnseen, Unseen, MutexHeld, InFlight
<1>4. ProbesSpare'
  BY DEF ProbesSpare, MutexHeld, Probing
<1>5. NeedLasts'
  BY DEF NeedLasts, MutexHeld, is_accepting, InFlight
<1>6. RoomLasts'
  <2>1. Rows' \subseteq Rows
    BY DEF Rows
  <2> QED
    BY <2>1, RowsShrink DEF RoomLasts, MutexHeld, InFlight, Probing
<1> QED
  BY <1>1, <1>2, <1>3, <1>4, <1>5, <1>6

LEMMA ExternalInv ==
    ASSUME PoolInv, NEW r \in Replicas, External(r)
    PROVE  PoolInv'
<1> USE ConstantsAssumption
      DEF PoolInv, TypeOK, rowVars, ctrVars, spawnVars, passVars, External
<1>1. TypeOK'
  <2>1. ctr' \in [Replicas -> CtrStates]
    <3>1. \E v \in CtrStates : ctr' = [ctr EXCEPT ![r] = v]
      BY Zenon DEF CtrStates
    <3> HIDE DEF External
    <3> QED
      BY <3>1, OneValueSet
  <2>2. faults' \in 0..FaultBudget
    OBVIOUS
  <2> QED
    BY <2>1, <2>2
<1>2. MutexHeld'
  BY DEF MutexHeld, InFlight, Probing
<1>3. SpawnsUnseen'
  BY DEF SpawnsUnseen, Unseen, MutexHeld, InFlight
<1>4. ProbesSpare'
  BY DEF ProbesSpare, MutexHeld, Probing
<1>5. NeedLasts'
  BY DEF NeedLasts, MutexHeld, is_accepting, InFlight
<1>6. RoomLasts'
  <2>1. Rows' \subseteq Rows
    BY DEF Rows
  <2> QED
    BY <2>1, RowsShrink DEF RoomLasts, MutexHeld, InFlight, Probing
<1> QED
  BY <1>1, <1>2, <1>3, <1>4, <1>5, <1>6

LEMMA RowAgesInv ==
    ASSUME PoolInv, NEW r \in Replicas, RowAges(r)
    PROVE  PoolInv'
<1> USE ConstantsAssumption
      DEF PoolInv, TypeOK, rowVars, ctrVars, spawnVars, passVars, RowAges
<1>1. TypeOK'
  BY DEF RowStates, CtrStates, Plans, Kinds
<1>2. MutexHeld'
  BY DEF MutexHeld, InFlight, Probing
<1>3. SpawnsUnseen'
  BY DEF SpawnsUnseen, Unseen, MutexHeld, InFlight
<1>4. ProbesSpare'
  BY DEF ProbesSpare, MutexHeld, Probing
<1>5. NeedLasts'
  BY DEF NeedLasts, MutexHeld, is_accepting, InFlight
<1>6. RoomLasts'
  <2>1. Rows' \subseteq Rows
    BY DEF Rows
  <2> QED
    BY <2>1, RowsShrink DEF RoomLasts, MutexHeld, InFlight, Probing
<1> QED
  BY <1>1, <1>2, <1>3, <1>4, <1>5, <1>6

LEMMA ContainerAgesInv ==
    ASSUME PoolInv, NEW r \in Replicas, ContainerAges(r)
    PROVE  PoolInv'
<1> USE ConstantsAssumption
      DEF PoolInv, TypeOK, rowVars, ctrVars, spawnVars, passVars, ContainerAges
<1>1. TypeOK'
  BY DEF RowStates, CtrStates, Plans, Kinds
<1>2. MutexHeld'
  BY DEF MutexHeld, InFlight, Probing
<1>3. SpawnsUnseen'
  BY DEF SpawnsUnseen, Unseen, MutexHeld, InFlight
<1>4. ProbesSpare'
  BY DEF ProbesSpare, MutexHeld, Probing
<1>5. NeedLasts'
  BY DEF NeedLasts, MutexHeld, is_accepting, InFlight
<1>6. RoomLasts'
  <2>1. Rows' \subseteq Rows
    BY DEF Rows
  <2> QED
    BY <2>1, RowsShrink DEF RoomLasts, MutexHeld, InFlight, Probing
<1> QED
  BY <1>1, <1>2, <1>3, <1>4, <1>5, <1>6

LEMMA VisitSpawnInv ==
    ASSUME PoolInv, NEW t \in Spawners, VisitSpawn(t)
    PROVE  PoolInv'
<1> USE ConstantsAssumption
      DEF PoolInv, TypeOK, rowVars, ctrVars, spawnVars, passVars, VisitSpawn
<1>1. TypeOK'
  BY DEF RowStates, CtrStates, Plans, Kinds
<1>2. MutexHeld'
  BY DEF MutexHeld, InFlight, Probing
<1>3. SpawnsUnseen'
  BY DEF SpawnsUnseen, Unseen, MutexHeld, InFlight
<1>4. ProbesSpare'
  BY DEF ProbesSpare, MutexHeld, Probing
<1>5. NeedLasts'
  BY DEF NeedLasts, MutexHeld, is_accepting, InFlight
<1>6. RoomLasts'
  <2>1. Rows' \subseteq Rows
    BY DEF Rows
  <2> QED
    BY <2>1, RowsShrink DEF RoomLasts, MutexHeld, InFlight, Probing
<1> QED
  BY <1>1, <1>2, <1>3, <1>4, <1>5, <1>6

LEMMA SpawnOneLockInv ==
    ASSUME PoolInv, NEW t \in Spawners, NEW k \in Kinds, SpawnOneLock(t, k)
    PROVE  PoolInv'
<1> USE ConstantsAssumption
      DEF PoolInv, TypeOK, rowVars, ctrVars, spawnVars, passVars, SpawnOneLock
<1>1. TypeOK'
  BY DEF RowStates, CtrStates, Plans, Kinds
<1>2. MutexHeld'
  BY DEF MutexHeld, InFlight, Probing
<1>3. SpawnsUnseen'
  BY DEF SpawnsUnseen, Unseen, MutexHeld, InFlight
<1>4. ProbesSpare'
  BY DEF ProbesSpare, MutexHeld, Probing
<1>5. NeedLasts'
  BY DEF NeedLasts, MutexHeld, is_accepting, InFlight
<1>6. RoomLasts'
  <2>1. Rows' \subseteq Rows
    BY DEF Rows
  <2> QED
    BY <2>1, RowsShrink DEF RoomLasts, MutexHeld, InFlight, Probing
<1> QED
  BY <1>1, <1>2, <1>3, <1>4, <1>5, <1>6

LEMMA EnsureCheckInv ==
    ASSUME PoolInv, NEW t \in Spawners, EnsureCheck(t)
    PROVE  PoolInv'
<1> USE ConstantsAssumption
      DEF PoolInv, TypeOK, rowVars, ctrVars, spawnVars, passVars, EnsureCheck,
      SpawnerDone
<1>0. \/ SpawnerDone(t)
      \/ spc' = [spc EXCEPT ![t] = "cap"] /\ UNCHANGED <<mutex, kind, tgt>>
  BY Zenon
<1>1. TypeOK'
  <2>1. CASE SpawnerDone(t)
    BY <2>1 DEF Kinds
  <2>2. CASE spc' = [spc EXCEPT ![t] = "cap"] /\ UNCHANGED <<mutex, kind, tgt>>
    BY <2>2
  <2> QED
    BY <1>0, <2>1, <2>2
<1>2. MutexHeld'
  <2>1. CASE SpawnerDone(t)
    BY <2>1 DEF MutexHeld, InFlight, Probing
  <2>2. CASE UNCHANGED <<mutex, kind, tgt>>
    BY <2>2 DEF MutexHeld, InFlight, Probing
  <2> QED
    BY <2>1, <2>2
<1>3. SpawnsUnseen'
  BY DEF SpawnsUnseen, Unseen, MutexHeld, InFlight
<1>4. ProbesSpare'
  BY DEF ProbesSpare, MutexHeld, Probing
<1>5. NeedLasts'
  <2>1. CASE SpawnerDone(t)
    BY <2>1 DEF NeedLasts, MutexHeld, InFlight
  <2>2. CASE \A r \in Replicas : ~is_accepting(r)
    BY <2>2 DEF NeedLasts, MutexHeld, is_accepting, InFlight
  <2> QED
    BY <2>1, <2>2
<1>6. RoomLasts'
  <2>1. Rows' = Rows /\ Live' = Live
    BY DEF Rows, Live
  <2>2. CASE SpawnerDone(t)
    BY <2>1, <2>2 DEF RoomLasts, InFlight, Probing
  <2>3. CASE spc' = [spc EXCEPT ![t] = "cap"] /\ UNCHANGED <<mutex, kind, tgt>>
    BY <2>1, <2>3 DEF RoomLasts, InFlight, Probing
  <2> QED
    BY <2>2, <2>3
<1> QED
  BY <1>1, <1>2, <1>3, <1>4, <1>5, <1>6

LEMMA CapCheckInv ==
    ASSUME PoolInv, NEW t \in Spawners, CapCheck(t)
    PROVE  PoolInv'
<1> USE ConstantsAssumption
      DEF PoolInv, TypeOK, rowVars, ctrVars, spawnVars, passVars, CapCheck,
      SpawnerDone
<1>0. \/ SpawnerDone(t)
      \/ spc' = [spc EXCEPT ![t] = "create"] /\ UNCHANGED <<mutex, kind, tgt>>
  BY Zenon
<1>1. TypeOK'
  <2>1. CASE SpawnerDone(t)
    BY <2>1 DEF Kinds
  <2>2. CASE spc' = [spc EXCEPT ![t] = "create"] /\ UNCHANGED <<mutex, kind, tgt>>
    BY <2>2
  <2> QED
    BY <1>0, <2>1, <2>2
<1>2. MutexHeld'
  <2>1. CASE SpawnerDone(t)
    BY <2>1 DEF MutexHeld, InFlight, Probing
  <2>2. CASE UNCHANGED <<mutex, kind, tgt>>
    BY <2>2 DEF MutexHeld, InFlight, Probing
  <2> QED
    BY <2>1, <2>2
<1>3. SpawnsUnseen'
  <2>1. \A u \in Spawners : tgt'[u] \in {tgt[u], NoReplica}
    BY <1>0
  <2> QED
    BY <2>1 DEF SpawnsUnseen, Unseen
<1>4. ProbesSpare'
  BY DEF ProbesSpare, MutexHeld, Probing
<1>5. NeedLasts'
  <2>1. CASE SpawnerDone(t)
    BY <2>1 DEF NeedLasts, is_accepting, InFlight
  <2>2. CASE spc' = [spc EXCEPT ![t] = "create"] /\ UNCHANGED <<mutex, kind, tgt>>
    BY <2>2 DEF NeedLasts, is_accepting, InFlight
  <2> QED
    BY <1>0, <2>1, <2>2
<1>6. RoomLasts'
  <2>1. Rows' \subseteq Rows
    BY DEF Rows
  <2> QED
    BY <2>1, RowsShrink DEF RoomLasts, MutexHeld, InFlight, Probing
<1> QED
  BY <1>1, <1>2, <1>3, <1>4, <1>5, <1>6

LEMMA CreateContainerInv ==
    ASSUME PoolInv, NEW t \in Spawners, NEW r \in Replicas, CreateContainer(t, r)
    PROVE  PoolInv'
<1> USE ConstantsAssumption
      DEF PoolInv, TypeOK, rowVars, ctrVars, spawnVars, passVars, CreateContainer
<1>1. TypeOK'
  BY DEF RowStates, CtrStates, Plans, Kinds
<1>2. MutexHeld'
  BY DEF MutexHeld, InFlight, Probing
<1>3. SpawnsUnseen'
  BY DEF SpawnsUnseen, Unseen, MutexHeld, InFlight
<1>4. ProbesSpare'
  BY DEF ProbesSpare, MutexHeld, Probing
<1>5. NeedLasts'
  BY DEF NeedLasts, MutexHeld, is_accepting, InFlight
<1>6. RoomLasts'
  <2>1. Rows' \subseteq Rows
    BY DEF Rows
  <2> QED
    BY <2>1, RowsShrink DEF RoomLasts, MutexHeld, InFlight, Probing
<1> QED
  BY <1>1, <1>2, <1>3, <1>4, <1>5, <1>6

LEMMA StartContainerInv ==
    ASSUME PoolInv, NEW t \in Spawners, StartContainer(t)
    PROVE  PoolInv'
<1> USE ConstantsAssumption
      DEF PoolInv, TypeOK, rowVars, ctrVars, spawnVars, passVars, StartContainer
<1>1. TypeOK'
  BY DEF RowStates, CtrStates, Plans, Kinds
<1>2. MutexHeld'
  BY DEF MutexHeld, InFlight, Probing
<1>3. SpawnsUnseen'
  BY DEF SpawnsUnseen, Unseen, MutexHeld, InFlight
<1>4. ProbesSpare'
  BY DEF ProbesSpare, MutexHeld, Probing
<1>5. NeedLasts'
  BY DEF NeedLasts, MutexHeld, is_accepting, InFlight
<1>6. RoomLasts'
  <2>1. Rows' \subseteq Rows
    BY DEF Rows
  <2> QED
    BY <2>1, RowsShrink DEF RoomLasts, MutexHeld, InFlight, Probing
<1> QED
  BY <1>1, <1>2, <1>3, <1>4, <1>5, <1>6

LEMMA SpawnReadyInv ==
    ASSUME PoolInv, NEW t \in Spawners, SpawnReady(t)
    PROVE  PoolInv'
<1> USE ConstantsAssumption
      DEF PoolInv, TypeOK, rowVars, ctrVars, spawnVars, passVars, SpawnReady
<1>1. TypeOK'
  BY DEF RowStates, CtrStates, Plans, Kinds
<1>2. MutexHeld'
  BY DEF MutexHeld, InFlight, Probing
<1>3. SpawnsUnseen'
  BY DEF SpawnsUnseen, Unseen, MutexHeld, InFlight
<1>4. ProbesSpare'
  BY DEF ProbesSpare, MutexHeld, Probing
<1>5. NeedLasts'
  BY DEF NeedLasts, MutexHeld, is_accepting, InFlight
<1>6. RoomLasts'
  <2>1. Rows' \subseteq Rows
    BY DEF Rows
  <2> QED
    BY <2>1, RowsShrink DEF RoomLasts, MutexHeld, InFlight, Probing
<1> QED
  BY <1>1, <1>2, <1>3, <1>4, <1>5, <1>6

LEMMA SpawnAddInv ==
    ASSUME PoolInv, NEW t \in Spawners, SpawnAdd(t)
    PROVE  PoolInv'
<1> USE ConstantsAssumption
      DEF PoolInv, TypeOK, rowVars, ctrVars, spawnVars, passVars, SpawnAdd,
      SpawnerDone
<1>1. TypeOK'
  <2>1. state' \in [Replicas -> RowStates]
    BY DEF RowStates
  <2>2. active' \in [Replicas -> 0..Seats]
    BY SeatNumbers
  <2> QED
    BY <2>1, <2>2 DEF Kinds
<1>2. MutexHeld'
  BY DEF MutexHeld, InFlight, Probing
<1>3. SpawnsUnseen'
  <2>1. \A u \in Spawners : tgt'[u] = NoReplica
    BY <1>2 DEF MutexHeld, InFlight
  <2>2. ASSUME NEW r \in Replicas, ctr[r] = "none" PROVE r # tgt[t]
    BY <2>2 DEF SpawnsUnseen, MutexHeld, InFlight
  <2> QED
    BY <2>1, <2>2 DEF SpawnsUnseen, Unseen
<1>4. ProbesSpare'
  BY <1>2 DEF MutexHeld, ProbesSpare, Probing
<1>5. NeedLasts'
  BY DEF NeedLasts, MutexHeld, is_accepting, InFlight
<1>6. RoomLasts'
  BY <1>1, <1>2 DEF MutexHeld, RoomLasts, InFlight, Probing
<1> QED
  BY <1>1, <1>2, <1>3, <1>4, <1>5, <1>6

LEMMA SpawnFailInv ==
    ASSUME PoolInv, NEW t \in Spawners, SpawnFail(t)
    PROVE  PoolInv'
<1> USE ConstantsAssumption
      DEF PoolInv, TypeOK, rowVars, ctrVars, spawnVars, passVars, SpawnFail,
      SpawnerDone, BackendStop
<1>1. TypeOK'
  BY DEF RowStates, CtrStates, Plans, Kinds
<1>2. MutexHeld'
  BY DEF MutexHeld, InFlight, Probing
<1>3. SpawnsUnseen'
  BY DEF SpawnsUnseen, Unseen, MutexHeld, InFlight
<1>4. ProbesSpare'
  BY DEF ProbesSpare, MutexHeld, Probing
<1>5. NeedLasts'
  BY DEF NeedLasts, MutexHeld, is_accepting, InFlight
<1>6. RoomLasts'
  <2>1. Rows' \subseteq Rows
    BY DEF Rows
  <2> QED
    BY <2>1, RowsShrink DEF RoomLasts, MutexHeld, InFlight, Probing
<1> QED
  BY <1>1, <1>2, <1>3, <1>4, <1>5, <1>6

LEMMA VisitCancelledInv ==
    ASSUME PoolInv, NEW t \in Spawners, VisitCancelled(t)
    PROVE  PoolInv'
<1> USE ConstantsAssumption
      DEF PoolInv, TypeOK, rowVars, ctrVars, spawnVars, passVars, VisitCancelled,
      SpawnerDone
<1>1. TypeOK'
  BY DEF RowStates, CtrStates, Plans, Kinds
<1>2. MutexHeld'
  BY DEF MutexHeld, InFlight, Probing
<1>3. SpawnsUnseen'
  BY DEF SpawnsUnseen, Unseen, MutexHeld, InFlight
<1>4. ProbesSpare'
  BY DEF ProbesSpare, MutexHeld, Probing
<1>5. NeedLasts'
  BY DEF NeedLasts, MutexHeld, is_accepting, InFlight
<1>6. RoomLasts'
  <2>1. Rows' \subseteq Rows
    BY DEF Rows
  <2> QED
    BY <2>1, RowsShrink DEF RoomLasts, MutexHeld, InFlight, Probing
<1> QED
  BY <1>1, <1>2, <1>3, <1>4, <1>5, <1>6

LEMMA PassSnapshotInv ==
    ASSUME PoolInv, NEW p \in Passes, PassSnapshot(p)
    PROVE  PoolInv'
<1> USE ConstantsAssumption
      DEF PoolInv, TypeOK, rowVars, ctrVars, spawnVars, passVars, PassSnapshot
<1>1. TypeOK'
  BY DEF RowStates, CtrStates, Plans, Kinds
<1>2. MutexHeld'
  BY DEF MutexHeld, InFlight, Probing
<1>3. SpawnsUnseen'
  BY DEF SpawnsUnseen, Unseen, MutexHeld, InFlight
<1>4. ProbesSpare'
  BY DEF ProbesSpare, MutexHeld, Probing
<1>5. NeedLasts'
  BY DEF NeedLasts, MutexHeld, is_accepting, InFlight
<1>6. RoomLasts'
  <2>1. Rows' \subseteq Rows
    BY DEF Rows
  <2> QED
    BY <2>1, RowsShrink DEF RoomLasts, MutexHeld, InFlight, Probing
<1> QED
  BY <1>1, <1>2, <1>3, <1>4, <1>5, <1>6

LEMMA PassReportInv ==
    ASSUME PoolInv, NEW p \in Passes, PassReport(p)
    PROVE  PoolInv'
<1> USE ConstantsAssumption
      DEF PoolInv, TypeOK, rowVars, ctrVars, spawnVars, passVars, PassReport, NoSnap
<1>1. TypeOK'
  <2>1. \A r \in Replicas : Verdict(snap[p][r], ctr[r]) \in Plans
    BY DEF Verdict, Plans
  <2>2. plan' \in [Passes -> [Replicas -> Plans]]
    BY <2>1
  <2>3. snap' \in [Passes -> [Replicas -> RowStates \cup {"overdue"}]]
    BY DEF RowStates
  <2>4. adopt' \in [Passes -> SUBSET Replicas] /\ gc' \in [Passes -> SUBSET Replicas]
    OBVIOUS
  <2> QED
    BY <2>2, <2>3, <2>4
<1>2. MutexHeld'
  BY DEF MutexHeld, InFlight, Probing
<1>3. SpawnsUnseen'
  <2>1. ASSUME NEW r \in Replicas, Unseen(r) PROVE Unseen(r)'
    <3>1. Verdict(snap[p][r], ctr[r]) = "keep"
      BY <2>1 DEF Unseen, Verdict
    <3> QED
      BY <2>1, <3>1 DEF Unseen
  <2>2. ASSUME NEW r \in Replicas, ctr[r] = "none", NEW q \in Passes
        PROVE  r \notin adopt'[q] /\ cur'[q] # r
    BY <2>2 DEF SpawnsUnseen
  <2>3. UNCHANGED <<ctr, tgt>>
    OBVIOUS
  <2> QED
    BY <2>1, <2>2, <2>3 DEF SpawnsUnseen
<1>4. ProbesSpare'
  BY DEF ProbesSpare, MutexHeld, Probing
<1>5. NeedLasts'
  BY DEF NeedLasts, MutexHeld, is_accepting, InFlight
<1>6. RoomLasts'
  <2>1. Rows' \subseteq Rows
    BY DEF Rows
  <2> QED
    BY <2>1, RowsShrink DEF RoomLasts, MutexHeld, InFlight, Probing
<1> QED
  BY <1>1, <1>2, <1>3, <1>4, <1>5, <1>6

LEMMA PassSkippedInv ==
    ASSUME PoolInv, NEW p \in Passes, PassSkipped(p)
    PROVE  PoolInv'
<1> USE ConstantsAssumption
      DEF PoolInv, TypeOK, rowVars, ctrVars, spawnVars, passVars, PassSkipped, NoSnap
<1>1. TypeOK'
  BY DEF RowStates, CtrStates, Plans, Kinds
<1>2. MutexHeld'
  BY DEF MutexHeld, InFlight, Probing
<1>3. SpawnsUnseen'
  BY DEF SpawnsUnseen, Unseen, MutexHeld, InFlight
<1>4. ProbesSpare'
  BY DEF ProbesSpare, MutexHeld, Probing
<1>5. NeedLasts'
  BY DEF NeedLasts, MutexHeld, is_accepting, InFlight
<1>6. RoomLasts'
  <2>1. Rows' \subseteq Rows
    BY DEF Rows
  <2> QED
    BY <2>1, RowsShrink DEF RoomLasts, MutexHeld, InFlight, Probing
<1> QED
  BY <1>1, <1>2, <1>3, <1>4, <1>5, <1>6

LEMMA PassPruneInv ==
    ASSUME PoolInv, NEW p \in Passes, NEW r \in Replicas, PassPrune(p, r)
    PROVE  PoolInv'
<1> USE ConstantsAssumption
      DEF PoolInv, TypeOK, rowVars, ctrVars, spawnVars, passVars, PassPrune, Planned,
      PlanDone, RemoveRow
<1>1. TypeOK'
  BY DEF RowStates, CtrStates, Plans, Kinds
<1>2. MutexHeld'
  BY DEF MutexHeld, InFlight, Probing
<1>3. SpawnsUnseen'
  BY DEF SpawnsUnseen, Unseen, MutexHeld, InFlight
<1>4. ProbesSpare'
  BY DEF ProbesSpare, MutexHeld, Probing
<1>5. NeedLasts'
  BY DEF NeedLasts, MutexHeld, is_accepting, InFlight
<1>6. RoomLasts'
  <2>1. Rows' \subseteq Rows
    BY DEF Rows
  <2> QED
    BY <2>1, RowsShrink DEF RoomLasts, MutexHeld, InFlight, Probing
<1> QED
  BY <1>1, <1>2, <1>3, <1>4, <1>5, <1>6

LEMMA PassMarkInv ==
    ASSUME PoolInv, NEW p \in Passes, NEW r \in Replicas, PassMark(p, r)
    PROVE  PoolInv'
<1> USE ConstantsAssumption
      DEF PoolInv, TypeOK, rowVars, ctrVars, spawnVars, passVars, PassMark, Planned,
      PlanDone
<1>1. TypeOK'
  <2>1. state' \in [Replicas -> RowStates]
    BY DEF RowStates
  <2>2. active' \in [Replicas -> 0..Seats]
    <3>1. active \in [Replicas -> 0..Seats] /\ active' \in {active, [active EXCEPT ![r] = 0]}
      OBVIOUS
    <3> HIDE DEF PoolInv, TypeOK, PassMark
    <3> QED
      BY <3>1, SeatNumbers, OneValueSet
  <2>3. plan' \in [Passes -> [Replicas -> Plans]]
    BY DEF Plans
  <2>4. rowOld' \subseteq Replicas
    OBVIOUS
  <2> QED
    BY <2>1, <2>2, <2>3, <2>4
<1>2. MutexHeld'
  BY DEF MutexHeld, InFlight, Probing
<1>3. SpawnsUnseen'
  BY DEF SpawnsUnseen, Unseen, MutexHeld, InFlight
<1>4. ProbesSpare'
  BY DEF ProbesSpare, MutexHeld, Probing
<1>5. NeedLasts'
  <2>1. \A x \in Replicas : is_accepting(x)' => is_accepting(x)
    <3>1. CASE r \in Rows
      <4>1. /\ state' = [state EXCEPT ![r] = "stopped"] /\ state \in [Replicas -> RowStates]
            /\ active' = [active EXCEPT ![r] = 0] /\ active \in [Replicas -> 0..Seats]
        BY <3>1
      <4> HIDE DEF PoolInv, TypeOK, PassMark
      <4> QED
        BY <4>1 DEF is_accepting
    <3>2. CASE r \notin Rows
      BY <3>2 DEF is_accepting
    <3> QED
      BY <3>1, <3>2
  <2>2. UNCHANGED <<kind, spc, freed>>
    OBVIOUS
  <2> QED
    BY <2>1, <2>2 DEF NeedLasts
<1>6. RoomLasts'
  <2>1. Rows' \subseteq Rows
    BY DEF Rows
  <2> QED
    BY <2>1, RowsShrink DEF RoomLasts, MutexHeld, InFlight, Probing
<1> QED
  BY <1>1, <1>2, <1>3, <1>4, <1>5, <1>6

LEMMA PassExpireInv ==
    ASSUME PoolInv, NEW p \in Passes, NEW r \in Replicas, PassExpire(p, r)
    PROVE  PoolInv'
<1> USE ConstantsAssumption
      DEF PoolInv, TypeOK, rowVars, ctrVars, spawnVars, passVars, PassExpire, Planned,
      PlanDone, RemoveRow, BackendStop
<1>1. TypeOK'
  <2>1. ctr' \in [Replicas -> CtrStates]
    BY DEF CtrStates
  <2>2. faults' \in 0..FaultBudget
    OBVIOUS
  <2>3. state' \in [Replicas -> RowStates]
    BY DEF RowStates
  <2>4. active' \in [Replicas -> 0..Seats]
    BY SeatNumbers
  <2>5. plan' \in [Passes -> [Replicas -> Plans]]
    BY DEF Plans
  <2> QED
    BY <2>1, <2>2, <2>3, <2>4, <2>5
<1>2. MutexHeld'
  BY DEF MutexHeld, InFlight, Probing
<1>3. SpawnsUnseen'
  BY DEF SpawnsUnseen, Unseen, MutexHeld, InFlight
<1>4. ProbesSpare'
  BY DEF ProbesSpare, MutexHeld, Probing
<1>5. NeedLasts'
  BY DEF NeedLasts, MutexHeld, is_accepting, InFlight
<1>6. RoomLasts'
  <2>1. Rows' \subseteq Rows
    BY DEF Rows
  <2> QED
    BY <2>1, RowsShrink DEF RoomLasts, MutexHeld, InFlight, Probing
<1> QED
  BY <1>1, <1>2, <1>3, <1>4, <1>5, <1>6

LEMMA ReadoptReadyInv ==
    ASSUME PoolInv, NEW p \in Passes, NEW r \in Replicas, ReadoptReady(p, r)
    PROVE  PoolInv'
<1> USE ConstantsAssumption
      DEF PoolInv, TypeOK, rowVars, ctrVars, spawnVars, passVars, ReadoptReady,
      ToReadopt, Readopted
<1>1. TypeOK'
  BY DEF RowStates, CtrStates, Plans, Kinds
<1>2. MutexHeld'
  BY DEF MutexHeld, InFlight, Probing
<1>3. SpawnsUnseen'
  BY DEF SpawnsUnseen, Unseen, MutexHeld, InFlight
<1>4. ProbesSpare'
  BY DEF ProbesSpare, MutexHeld, Probing
<1>5. NeedLasts'
  BY DEF NeedLasts, MutexHeld, is_accepting, InFlight
<1>6. RoomLasts'
  <2>1. Rows' \subseteq Rows
    BY DEF Rows
  <2> QED
    BY <2>1, RowsShrink DEF RoomLasts, MutexHeld, InFlight, Probing
<1> QED
  BY <1>1, <1>2, <1>3, <1>4, <1>5, <1>6

LEMMA ReadoptExcessInv ==
    ASSUME PoolInv, NEW p \in Passes, NEW r \in Replicas, ReadoptExcess(p, r)
    PROVE  PoolInv'
<1> USE ConstantsAssumption
      DEF PoolInv, TypeOK, rowVars, ctrVars, spawnVars, passVars, ReadoptExcess,
      ToReadopt, Readopted, BackendStop
<1>1. TypeOK'
  <2>1. ctr' \in [Replicas -> CtrStates]
    BY DEF CtrStates
  <2>2. faults' \in 0..FaultBudget
    OBVIOUS
  <2>3. state' \in [Replicas -> RowStates]
    BY DEF RowStates
  <2>4. active' \in [Replicas -> 0..Seats]
    BY SeatNumbers
  <2>5. plan' \in [Passes -> [Replicas -> Plans]]
    BY DEF Plans
  <2> QED
    BY <2>1, <2>2, <2>3, <2>4, <2>5
<1>2. MutexHeld'
  BY DEF MutexHeld, InFlight, Probing
<1>3. SpawnsUnseen'
  BY DEF SpawnsUnseen, Unseen, MutexHeld, InFlight
<1>4. ProbesSpare'
  BY DEF ProbesSpare, MutexHeld, Probing
<1>5. NeedLasts'
  BY DEF NeedLasts, MutexHeld, is_accepting, InFlight
<1>6. RoomLasts'
  <2>1. Rows' \subseteq Rows
    BY DEF Rows
  <2> QED
    BY <2>1, RowsShrink DEF RoomLasts, MutexHeld, InFlight, Probing
<1> QED
  BY <1>1, <1>2, <1>3, <1>4, <1>5, <1>6

LEMMA ReadoptProbeInv ==
    ASSUME PoolInv, NEW p \in Passes, NEW r \in Replicas, ReadoptProbe(p, r)
    PROVE  PoolInv'
<1> USE ConstantsAssumption
      DEF PoolInv, TypeOK, rowVars, ctrVars, spawnVars, passVars, ReadoptProbe,
      ToReadopt, Readopted
<1>1. TypeOK'
  BY DEF RowStates, CtrStates, Plans, Kinds
<1>2. MutexHeld'
  BY DEF MutexHeld, InFlight, Probing
<1>3. SpawnsUnseen'
  BY DEF SpawnsUnseen, Unseen, MutexHeld, InFlight
<1>4. ProbesSpare'
  BY DEF ProbesSpare, MutexHeld, Probing
<1>5. NeedLasts'
  BY DEF NeedLasts, MutexHeld, is_accepting, InFlight
<1>6. RoomLasts'
  <2>1. Rows' = Rows /\ Live' = Live
    BY DEF Rows, Live
  <2>2. ~sameId'[p] => Live < MaxReplicas
    <3>1. sameId'[p] = (r \in Rows)
      BY Zenon
    <3> QED
      BY <3>1, Zenon
  <2>3. \A q \in Passes \ {p} : sameId'[q] = sameId[q] /\ ppc'[q] = ppc[q]
    OBVIOUS
  <2> QED
    BY <2>1, <2>2, <2>3 DEF RoomLasts
<1> QED
  BY <1>1, <1>2, <1>3, <1>4, <1>5, <1>6

LEMMA ReadoptReachedInv ==
    ASSUME PoolInv, NEW p \in Passes, ReadoptReached(p)
    PROVE  PoolInv'
<1> USE ConstantsAssumption
      DEF PoolInv, TypeOK, rowVars, ctrVars, spawnVars, passVars, ReadoptReached
<1>1. TypeOK'
  BY DEF RowStates, CtrStates, Plans, Kinds
<1>2. MutexHeld'
  BY DEF MutexHeld, InFlight, Probing
<1>3. SpawnsUnseen'
  BY DEF SpawnsUnseen, Unseen, MutexHeld, InFlight
<1>4. ProbesSpare'
  BY DEF ProbesSpare, MutexHeld, Probing
<1>5. NeedLasts'
  BY DEF NeedLasts, MutexHeld, is_accepting, InFlight
<1>6. RoomLasts'
  <2>1. Rows' \subseteq Rows
    BY DEF Rows
  <2> QED
    BY <2>1, RowsShrink DEF RoomLasts, MutexHeld, InFlight, Probing
<1> QED
  BY <1>1, <1>2, <1>3, <1>4, <1>5, <1>6

LEMMA ReadoptUpsertInv ==
    ASSUME PoolInv, NEW p \in Passes, ReadoptUpsert(p)
    PROVE  PoolInv'
<1> USE ConstantsAssumption
      DEF PoolInv, TypeOK, rowVars, ctrVars, spawnVars, passVars, ReadoptUpsert,
      ProbeDone
<1>1. TypeOK'
  <2>1. state' \in [Replicas -> RowStates]
    BY DEF RowStates
  <2>2. active' \in [Replicas -> 0..Seats]
    BY SeatNumbers
  <2> QED
    BY <2>1, <2>2
<1>2. MutexHeld'
  BY DEF MutexHeld, InFlight, Probing
<1>3. SpawnsUnseen'
  <2>1. \A t \in Spawners : tgt'[t] = NoReplica
    BY <1>2 DEF MutexHeld, InFlight, Probing
  <2>2. ASSUME NEW r \in Replicas, ctr[r] = "none" PROVE r # cur[p]
    BY <2>2 DEF SpawnsUnseen
  <2> QED
    BY <2>1, <2>2 DEF SpawnsUnseen, Unseen
<1>4. ProbesSpare'
  BY DEF ProbesSpare, MutexHeld, Probing
<1>5. NeedLasts'
  <2>1. \A t \in Spawners : spc'[t] = "idle"
    BY DEF MutexHeld, Probing
  <2> QED
    BY <2>1, Zenon DEF NeedLasts, InFlight
<1>6. RoomLasts'
  BY <1>1, <1>2 DEF MutexHeld, RoomLasts, InFlight, Probing
<1> QED
  BY <1>1, <1>2, <1>3, <1>4, <1>5, <1>6

LEMMA ReadoptFailInv ==
    ASSUME PoolInv, NEW p \in Passes, ReadoptFail(p)
    PROVE  PoolInv'
<1> USE ConstantsAssumption
      DEF PoolInv, TypeOK, rowVars, ctrVars, spawnVars, passVars, ReadoptFail,
      ProbeDone, BackendStop, RemoveRow
<1>0. cur[p] \in Replicas
  BY DEF MutexHeld, Probing
<1>00. \/ RemoveRow(cur[p])
       \/ UNCHANGED <<state, active, rowOld>>
  BY Zenon
<1>1. TypeOK'
  <2>1. ctr' \in [Replicas -> CtrStates]
    BY DEF CtrStates
  <2>2. faults' \in 0..FaultBudget
    OBVIOUS
  <2>3. state' \in [Replicas -> RowStates]
    <3>1. state' \in {state, [state EXCEPT ![cur[p]] = "absent"]} /\ "absent" \in RowStates
      BY <1>00 DEF RowStates
    <3> HIDE DEF ReadoptFail
    <3> QED
      BY <1>0, <3>1, OneValueSet
  <2>4. active' \in [Replicas -> 0..Seats]
    <3>1. active' \in {active, [active EXCEPT ![cur[p]] = 0]}
      BY <1>00
    <3> HIDE DEF ReadoptFail
    <3> QED
      BY <1>0, <3>1, SeatNumbers, OneValueSet
  <2>5. plan' \in [Passes -> [Replicas -> Plans]]
    BY DEF Plans
  <2> QED
    BY <2>1, <2>2, <2>3, <2>4, <2>5
<1>2. MutexHeld'
  BY DEF MutexHeld, InFlight, Probing
<1>3. SpawnsUnseen'
  BY DEF SpawnsUnseen, Unseen, MutexHeld, InFlight
<1>4. ProbesSpare'
  BY DEF ProbesSpare, MutexHeld, Probing
<1>5. NeedLasts'
  <2>1. \A t \in Spawners : spc'[t] = "idle"
    BY DEF MutexHeld, Probing
  <2> QED
    BY <2>1, Zenon DEF NeedLasts, InFlight
<1>6. RoomLasts'
  <2>1. Rows' \subseteq Rows
    BY DEF Rows
  <2> QED
    BY <2>1, RowsShrink DEF RoomLasts, MutexHeld, InFlight, Probing
<1> QED
  BY <1>1, <1>2, <1>3, <1>4, <1>5, <1>6

LEMMA PassCollectInv ==
    ASSUME PoolInv, NEW p \in Passes, PassCollect(p)
    PROVE  PoolInv'
<1> USE ConstantsAssumption
      DEF PoolInv, TypeOK, rowVars, ctrVars, spawnVars, passVars, PassCollect
<1>1. TypeOK'
  BY DEF RowStates, CtrStates, Plans, Kinds
<1>2. MutexHeld'
  BY DEF MutexHeld, InFlight, Probing
<1>3. SpawnsUnseen'
  BY DEF SpawnsUnseen, Unseen, MutexHeld, InFlight
<1>4. ProbesSpare'
  BY DEF ProbesSpare, MutexHeld, Probing
<1>5. NeedLasts'
  BY DEF NeedLasts, MutexHeld, is_accepting, InFlight
<1>6. RoomLasts'
  <2>1. Rows' \subseteq Rows
    BY DEF Rows
  <2> QED
    BY <2>1, RowsShrink DEF RoomLasts, MutexHeld, InFlight, Probing
<1> QED
  BY <1>1, <1>2, <1>3, <1>4, <1>5, <1>6

LEMMA PassRemoveInv ==
    ASSUME PoolInv, NEW p \in Passes, NEW r \in Replicas, PassRemove(p, r)
    PROVE  PoolInv'
<1> USE ConstantsAssumption
      DEF PoolInv, TypeOK, rowVars, ctrVars, spawnVars, passVars, PassRemove,
      BackendStop
<1>1. TypeOK'
  <2>1. ctr' \in [Replicas -> CtrStates]
    BY DEF CtrStates
  <2>2. faults' \in 0..FaultBudget
    OBVIOUS
  <2> QED
    BY <2>1, <2>2
<1>2. MutexHeld'
  BY DEF MutexHeld, InFlight, Probing
<1>3. SpawnsUnseen'
  BY DEF SpawnsUnseen, Unseen, MutexHeld, InFlight
<1>4. ProbesSpare'
  BY DEF ProbesSpare, MutexHeld, Probing
<1>5. NeedLasts'
  BY DEF NeedLasts, MutexHeld, is_accepting, InFlight
<1>6. RoomLasts'
  <2>1. Rows' \subseteq Rows
    BY DEF Rows
  <2> QED
    BY <2>1, RowsShrink DEF RoomLasts, MutexHeld, InFlight, Probing
<1> QED
  BY <1>1, <1>2, <1>3, <1>4, <1>5, <1>6

LEMMA PassEndInv ==
    ASSUME PoolInv, NEW p \in Passes, PassEnd(p)
    PROVE  PoolInv'
<1> USE ConstantsAssumption
      DEF PoolInv, TypeOK, rowVars, ctrVars, spawnVars, passVars, PassEnd
<1>1. TypeOK'
  BY DEF RowStates, CtrStates, Plans, Kinds
<1>2. MutexHeld'
  BY DEF MutexHeld, InFlight, Probing
<1>3. SpawnsUnseen'
  BY DEF SpawnsUnseen, Unseen, MutexHeld, InFlight
<1>4. ProbesSpare'
  BY DEF ProbesSpare, MutexHeld, Probing
<1>5. NeedLasts'
  BY DEF NeedLasts, MutexHeld, is_accepting, InFlight
<1>6. RoomLasts'
  <2>1. Rows' \subseteq Rows
    BY DEF Rows
  <2> QED
    BY <2>1, RowsShrink DEF RoomLasts, MutexHeld, InFlight, Probing
<1> QED
  BY <1>1, <1>2, <1>3, <1>4, <1>5, <1>6

LEMMA StopOneInv ==
    ASSUME PoolInv, NEW x \in Stoppers, NEW r \in Replicas, StopOne(x, r)
    PROVE  PoolInv'
<1> USE ConstantsAssumption
      DEF PoolInv, TypeOK, rowVars, ctrVars, spawnVars, passVars, StopOne, BackendStop
<1>1. TypeOK'
  <2>1. ctr' \in [Replicas -> CtrStates]
    BY DEF CtrStates
  <2>2. faults' \in 0..FaultBudget
    OBVIOUS
  <2> QED
    BY <2>1, <2>2
<1>2. MutexHeld'
  BY DEF MutexHeld, InFlight, Probing
<1>3. SpawnsUnseen'
  BY DEF SpawnsUnseen, Unseen, MutexHeld, InFlight
<1>4. ProbesSpare'
  BY DEF ProbesSpare, MutexHeld, Probing
<1>5. NeedLasts'
  BY DEF NeedLasts, MutexHeld, is_accepting, InFlight
<1>6. RoomLasts'
  <2>1. Rows' \subseteq Rows
    BY DEF Rows
  <2> QED
    BY <2>1, RowsShrink DEF RoomLasts, MutexHeld, InFlight, Probing
<1> QED
  BY <1>1, <1>2, <1>3, <1>4, <1>5, <1>6

LEMMA StopOneCleanupInv ==
    ASSUME PoolInv, NEW x \in Stoppers, StopOneCleanup(x)
    PROVE  PoolInv'
<1> USE ConstantsAssumption
      DEF PoolInv, TypeOK, rowVars, ctrVars, spawnVars, passVars, StopOneCleanup,
      RemoveRow
<1>1. TypeOK'
  BY DEF RowStates, CtrStates, Plans, Kinds
<1>2. MutexHeld'
  BY DEF MutexHeld, InFlight, Probing
<1>3. SpawnsUnseen'
  BY DEF SpawnsUnseen, Unseen, MutexHeld, InFlight
<1>4. ProbesSpare'
  BY DEF ProbesSpare, MutexHeld, Probing
<1>5. NeedLasts'
  BY DEF NeedLasts, MutexHeld, is_accepting, InFlight
<1>6. RoomLasts'
  <2>1. Rows' \subseteq Rows
    BY DEF Rows
  <2> QED
    BY <2>1, RowsShrink DEF RoomLasts, MutexHeld, InFlight, Probing
<1> QED
  BY <1>1, <1>2, <1>3, <1>4, <1>5, <1>6

LEMMA InitInv == Init => PoolInv
<1> SUFFICES ASSUME Init PROVE PoolInv
  OBVIOUS
<1> USE ConstantsAssumption DEF Init
<1>1. TypeOK
  <2>1. active \in [Replicas -> 0..Seats]
    BY SeatNumbers
  <2> QED
    BY <2>1 DEF TypeOK, RowStates, CtrStates, Plans, Kinds, NoSnap, NoPlan
<1>2. MutexHeld
  BY DEF MutexHeld, InFlight, Probing
<1>3. SpawnsUnseen
  <2>1. ASSUME NEW r \in Replicas, ctr[r] = "none" PROVE state[r] = "absent"
    BY <2>1 DEF BootRow
  <2> QED
    BY <2>1 DEF SpawnsUnseen, Unseen, NoSnap, NoPlan
<1>4. ProbesSpare /\ NeedLasts /\ RoomLasts
  BY DEF ProbesSpare, NeedLasts, RoomLasts, Probing, InFlight
<1> QED
  BY <1>1, <1>2, <1>3, <1>4 DEF PoolInv

LEMMA SpawnerStepInv ==
    ASSUME PoolInv, NEW t \in Spawners, SpawnerStep(t)
    PROVE  PoolInv'
  BY VisitSpawnInv, SpawnOneLockInv, EnsureCheckInv, CapCheckInv, CreateContainerInv,
     StartContainerInv, SpawnReadyInv, SpawnAddInv, SpawnFailInv, VisitCancelledInv, Zenon
  DEF SpawnerStep

LEMMA PassStepInv ==
    ASSUME PoolInv, NEW p \in Passes, PassStep(p)
    PROVE  PoolInv'
  BY PassSnapshotInv, PassReportInv, PassSkippedInv, PassPruneInv, PassMarkInv,
     PassExpireInv, ReadoptReadyInv, ReadoptExcessInv, ReadoptProbeInv, PassRemoveInv,
     ReadoptReachedInv, ReadoptUpsertInv, ReadoptFailInv, PassCollectInv, PassEndInv, Zenon
  DEF PassStep

LEMMA StutterInv == PoolInv /\ UNCHANGED vars => PoolInv'
  BY DEF PoolInv, vars, rowVars, ctrVars, spawnVars, passVars, TypeOK, MutexHeld,
         SpawnsUnseen, Unseen, ProbesSpare, NeedLasts, RoomLasts, is_accepting, Live, Rows

LEMMA NextInv ==
    ASSUME PoolInv, [Next]_vars
    PROVE  PoolInv'
<1>1. ASSUME NEW t \in Spawners, SpawnerStep(t) PROVE PoolInv'
  BY <1>1, SpawnerStepInv
<1>2. ASSUME NEW p \in Passes, PassStep(p) PROVE PoolInv'
  BY <1>2, PassStepInv
<1>3. ASSUME NEW x \in Stoppers, StopperStep(x) PROVE PoolInv'
  BY <1>3, StopOneInv, StopOneCleanupInv, Zenon DEF StopperStep
<1>4. CASE UNCHANGED vars
  BY <1>4, StutterInv
<1> QED
  BY <1>1, <1>2, <1>3, <1>4, PickAcceptingInv, PickStartingInv, LeaveInv,
     ReapConfirmedDeadInv, ExternalInv, RowAgesInv, ContainerAgesInv, Zenon
  DEF Next

(* In every reachable state of the pool's tasks (rows, containers, the     *)
(* spec's spawn mutex and what each task has read and not yet acted on)    *)
(* the inductive invariant holds, TypeOK with it.                          *)
THEOREM PoolInvariance == Spec => []PoolInv
  BY InitInv, NextInv, PTL DEF Spec

-----------------------------------------------------------------------------
(* Which steps add rows.                                                   *)

LEMMA SpawnerStepRows ==
    ASSUME NEW t \in Spawners, SpawnerStep(t)
    PROVE  UNCHANGED rowVars \/ SpawnAdd(t)
  BY DEF SpawnerStep, VisitSpawn, SpawnOneLock, EnsureCheck, CapCheck, CreateContainer,
         StartContainer, SpawnReady, SpawnFail, VisitCancelled

LEMMA PassStepRows ==
    ASSUME PoolInv, NEW p \in Passes, PassStep(p)
    PROVE  Rows' \subseteq Rows \/ ReadoptUpsert(p)
<1> USE DEF rowVars, PoolInv, TypeOK
<1>1. ASSUME UNCHANGED rowVars PROVE Rows' \subseteq Rows
  BY <1>1 DEF Rows
<1>2. ASSUME NEW r \in Replicas, RemoveRow(r) PROVE Rows' \subseteq Rows
  BY <1>2 DEF RemoveRow, Rows
<1>3. ASSUME NEW r \in Replicas, PassMark(p, r) PROVE Rows' \subseteq Rows
  BY <1>3 DEF PassMark, Rows
<1>4. ASSUME ReadoptFail(p) PROVE Rows' \subseteq Rows
  <2>1. cur[p] \in Replicas
    BY <1>4, ConstantsAssumption DEF ReadoptFail, MutexHeld, Probing
  <2> QED
    BY <1>1, <1>2, <1>4, <2>1 DEF ReadoptFail
<1>5. ASSUME NEW r \in Replicas, PassPrune(p, r) \/ PassExpire(p, r) PROVE Rows' \subseteq Rows
  BY <1>2, <1>5 DEF PassPrune, PassExpire
<1>6. ASSUME NEW r \in Replicas, ReadoptReady(p, r) \/ ReadoptExcess(p, r) \/ ReadoptProbe(p, r)
                                   \/ PassRemove(p, r)
      PROVE  Rows' \subseteq Rows
  BY <1>1, <1>6 DEF ReadoptReady, ReadoptExcess, ReadoptProbe, PassRemove
<1>7. ASSUME PassSnapshot(p) \/ PassReport(p) \/ PassSkipped(p) \/ ReadoptReached(p)
               \/ PassCollect(p) \/ PassEnd(p)
      PROVE  Rows' \subseteq Rows
  BY <1>1, <1>7 DEF PassSnapshot, PassReport, PassSkipped, ReadoptReached, PassCollect, PassEnd
<1> QED
  BY <1>3, <1>4, <1>5, <1>6, <1>7, Zenon DEF PassStep

LEMMA StopperStepRows ==
    ASSUME TypeOK, NEW x \in Stoppers, StopperStep(x)
    PROVE  Rows' \subseteq Rows
<1>1. ASSUME NEW r \in Replicas, StopOne(x, r) PROVE Rows' \subseteq Rows
  BY <1>1 DEF StopOne, rowVars, Rows
<1>2. ASSUME StopOneCleanup(x) PROVE Rows' \subseteq Rows
  BY <1>2 DEF StopOneCleanup, RemoveRow, Rows, TypeOK
<1> QED
  BY <1>1, <1>2 DEF StopperStep

(* A step that adds rows is the end of a spawn or of a re-adoption.        *)
LEMMA RowsGrow ==
    ASSUME PoolInv, [Next]_vars
    PROVE  \/ Rows' \subseteq Rows
           \/ \E t \in Spawners : SpawnAdd(t)
           \/ \E p \in Passes : ReadoptUpsert(p)
<1>1. ASSUME UNCHANGED state PROVE Rows' \subseteq Rows
  BY <1>1 DEF Rows
<1>2. ASSUME NEW r \in Replicas,
             PickAccepting(r) \/ PickStarting(r) \/ Leave(r) \/ External(r) \/ RowAges(r)
               \/ ContainerAges(r)
      PROVE  Rows' \subseteq Rows
  BY <1>1, <1>2 DEF PickAccepting, PickStarting, Leave, External, RowAges, ContainerAges, rowVars
<1>3. ASSUME NEW r \in Replicas, ReapConfirmedDead(r) PROVE Rows' \subseteq Rows
  BY <1>3 DEF ReapConfirmedDead, RemoveRow, Rows, PoolInv, TypeOK
<1>4. CASE UNCHANGED vars
  BY <1>1, <1>4 DEF vars, rowVars
<1>5. ASSUME NEW t \in Spawners, SpawnerStep(t) PROVE Rows' \subseteq Rows \/ SpawnAdd(t)
  BY <1>1, <1>5, SpawnerStepRows DEF rowVars
<1>6. ASSUME NEW x \in Stoppers, StopperStep(x) PROVE Rows' \subseteq Rows
  BY <1>6, StopperStepRows DEF PoolInv
<1> QED
  BY <1>2, <1>3, <1>4, <1>5, <1>6, PassStepRows, Zenon DEF Next

(* One row more is at most one more to count.                              *)
LEMMA OneRowMore ==
    ASSUME NEW r \in Replicas, Rows' \subseteq Rows \cup {r}
    PROVE  /\ Live \in Nat /\ Cardinality(Rows') \in Nat
           /\ Cardinality(Rows') <= Live + 1
<1>1. IsFiniteSet(Rows)
  BY ConstantsAssumption, FS_Subset DEF Rows
<1>2. /\ IsFiniteSet(Rows \cup {r}) /\ Cardinality(Rows) \in Nat
      /\ Cardinality(Rows \cup {r}) <= Cardinality(Rows) + 1
      /\ Cardinality(Rows \cup {r}) \in Nat
  BY <1>1, FS_AddElement, FS_CardinalityType
<1> QED
  BY <1>2, FS_Subset, FS_CardinalityType DEF Live

(* Only a visit, or the return of a row that was there when the            *)
(* re-adoption took the mutex, exceeds max-replicas.                       *)
LEMMA CapStep ==
    ASSUME PoolInv, [Next]_vars,
           Cardinality(Rows') > Live, Cardinality(Rows') > MaxReplicas
    PROVE  \/ \E t \in Spawners : spc[t] = "add" /\ kind[t] = "visit" /\ mutex' # t
           \/ \E p \in Passes : ppc[p] = "upsert" /\ sameId[p]
<1>1. ASSUME Rows' \subseteq Rows PROVE FALSE
  BY <1>1, RowsShrink DEF PoolInv, Live
<1>2. ASSUME NEW t \in Spawners, SpawnAdd(t)
      PROVE  spc[t] = "add" /\ kind[t] = "visit" /\ mutex' # t
  <2>1. spc[t] = "add" /\ mutex' # t
    BY <1>2, ConstantsAssumption DEF SpawnAdd, SpawnerDone
  <2>2. tgt[t] \in Replicas
    BY <2>1 DEF PoolInv, TypeOK, MutexHeld, InFlight
  <2>3. Rows' \subseteq Rows \cup {tgt[t]}
    BY <1>2, <2>2 DEF SpawnAdd, Rows, PoolInv, TypeOK
  <2>4. ~(Live < MaxReplicas)
    BY <2>2, <2>3, OneRowMore, ConstantsAssumption
  <2> QED
    BY <2>1, <2>4 DEF PoolInv, RoomLasts, InFlight
<1>3. ASSUME NEW p \in Passes, ReadoptUpsert(p)
      PROVE  ppc[p] = "upsert" /\ sameId[p]
  <2>1. ppc[p] = "upsert"
    BY <1>3 DEF ReadoptUpsert
  <2>2. cur[p] \in Replicas
    BY <2>1 DEF PoolInv, TypeOK, MutexHeld, Probing
  <2>3. Rows' \subseteq Rows \cup {cur[p]}
    BY <1>3, <2>2 DEF ReadoptUpsert, Rows, PoolInv, TypeOK
  <2>4. ~(Live < MaxReplicas)
    BY <2>2, <2>3, OneRowMore, ConstantsAssumption
  <2> QED
    BY <2>1, <2>4 DEF PoolInv, RoomLasts, Probing
<1> QED
  BY <1>1, <1>2, <1>3, RowsGrow

(* A spawn under the mutex adds a row only when it is needed and there is  *)
(* room, although both were checked before the container was created:      *)
(* spawn_one's cap (OnlyVisitsExceedMax) and the coalescing of cold starts *)
(* (EnsureAddsOnlyWhenNeeded).                                             *)
THEOREM PoolSpawnsBounded == Spec => SpawnsBounded
<1>1. ASSUME PoolInv, [Next]_vars
      PROVE  [\A t \in Spawners :
                spc[t] = "add" /\ kind[t] = "ensure" /\ spc'[t] = "idle"
                => \A r \in Replicas : is_accepting(r) => r \in freed]_vars
  BY <1>1 DEF PoolInv, NeedLasts, InFlight
<1>2. Spec => OnlyVisitsExceedMax
  BY PoolInvariance, CapStep, PTL DEF OnlyVisitsExceedMax, Spec
<1>3. Spec => EnsureAddsOnlyWhenNeeded
  BY <1>1, PoolInvariance, PTL DEF EnsureAddsOnlyWhenNeeded, Spec
<1> QED
  BY <1>2, <1>3 DEF SpawnsBounded

-----------------------------------------------------------------------------
(* The only end of a re-adoption's upsert is the upsert.                   *)
LEMMA UpsertSpares ==
    ASSUME PoolInv, NEW p \in Passes, ppc[p] = "upsert"
    PROVE  state[cur[p]] # "ready"
  BY DEF PoolInv, ProbesSpare, Probing

(* A pass leaves the container and the row of a spawn in flight alone.     *)
LEMMA PassSparesSpawn ==
    ASSUME PoolInv, NEW t \in Spawners, tgt[t] # NoReplica, mutex = t,
           NEW p \in Passes, PassStep(p)
    PROVE  UNCHANGED <<ctr[tgt[t]], state[tgt[t]]>>
<1> DEFINE c == tgt[t]
<1> USE DEF PoolInv, TypeOK
<1>1. /\ c \in Replicas /\ mutex # Free /\ mutex # p
      /\ plan[p][c] = "keep" /\ c \notin gc[p]
  BY ConstantsAssumption DEF SpawnsUnseen, Unseen
<1>2. ppc[p] \notin Probing
  BY <1>1 DEF MutexHeld
<1>3. tgt' = tgt
  BY DEF PassStep, PassSnapshot, PassReport, PassSkipped, PassPrune, PassMark, PassExpire,
         ReadoptReady, ReadoptExcess, ReadoptProbe, PassRemove, ReadoptReached,
         ReadoptUpsert, ReadoptFail, PassCollect, PassEnd, spawnVars
<1>4. ASSUME NEW r \in Replicas, r # c, RemoveRow(r) PROVE state'[c] = state[c]
  BY <1>1, <1>4 DEF RemoveRow
<1>5. ASSUME NEW r \in Replicas, r # c, BackendStop(r) PROVE ctr'[c] = ctr[c]
  BY <1>1, <1>5 DEF BackendStop
<1>6. ASSUME NEW r \in Replicas, PassPrune(p, r) PROVE ctr'[c] = ctr[c] /\ state'[c] = state[c]
  BY <1>1, <1>4, <1>6 DEF PassPrune, Planned
<1>7. ASSUME NEW r \in Replicas, PassMark(p, r) PROVE ctr'[c] = ctr[c] /\ state'[c] = state[c]
  BY <1>1, <1>7 DEF PassMark, Planned, rowVars
<1>8. ASSUME NEW r \in Replicas, PassExpire(p, r) PROVE ctr'[c] = ctr[c] /\ state'[c] = state[c]
  BY <1>1, <1>4, <1>5, <1>8 DEF PassExpire, Planned
<1>9. ASSUME NEW r \in Replicas, PassRemove(p, r) PROVE ctr'[c] = ctr[c] /\ state'[c] = state[c]
  BY <1>1, <1>5, <1>9 DEF PassRemove, rowVars
<1>10. \A r \in Replicas : ~ReadoptReady(p, r) /\ ~ReadoptExcess(p, r) /\ ~ReadoptProbe(p, r)
  BY <1>1 DEF ReadoptReady, ReadoptExcess, ReadoptProbe
<1>11. ~ReadoptReached(p) /\ ~ReadoptUpsert(p) /\ ~ReadoptFail(p)
  BY <1>2 DEF ReadoptReached, ReadoptUpsert, ReadoptFail, Probing
<1>12. ASSUME PassSnapshot(p) \/ PassReport(p) \/ PassSkipped(p) \/ PassCollect(p) \/ PassEnd(p)
       PROVE  ctr'[c] = ctr[c] /\ state'[c] = state[c]
  BY <1>12 DEF PassSnapshot, PassReport, PassSkipped, PassCollect, PassEnd, rowVars, ctrVars
<1>13. ctr'[c] = ctr[c] /\ state'[c] = state[c]
  BY <1>6, <1>7, <1>8, <1>9, <1>10, <1>11, <1>12, Zenon DEF PassStep
<1> QED
  BY <1>3, <1>13

(* Liveness passes, which act on readings of an earlier moment and run     *)
(* beside spawns, stops and each other, reset no Ready row's seats and     *)
(* touch no container and no row of a spawn in flight.                     *)
THEOREM PoolPassesSpareOthers == Spec => PassesSpareOthers
<1>1. ASSUME PoolInv, [Next]_vars
      PROVE  [\A p \in Passes : ppc[p] = "upsert" /\ ppc'[p] # "upsert"
                => state[cur[p]] # "ready"]_vars
  BY <1>1, UpsertSpares
<1>2. ASSUME PoolInv, [Next]_vars
      PROVE  [\A t \in Spawners : tgt[t] # NoReplica /\ mutex = t /\ mutex' = t
                => \A p \in Passes : PassStep(p) =>
                      UNCHANGED <<ctr[tgt[t]], state[tgt[t]]>>]_vars
  BY <1>2, PassSparesSpawn
<1>3. PoolInv => TypeOK
  BY DEF PoolInv
<1>4. Spec => ReadoptSparesReadyRows
  BY <1>1, PoolInvariance, PTL DEF ReadoptSparesReadyRows, Spec
<1>5. Spec => PassesSpareSpawns
  BY <1>2, PoolInvariance, PTL DEF PassesSpareSpawns, Spec
<1>6. Spec => []TypeOK
  BY <1>3, PoolInvariance, PTL
<1> QED
  BY <1>4, <1>5, <1>6 DEF PassesSpareOthers
=============================================================================
