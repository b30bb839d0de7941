----------------------------- MODULE LeaderLock -----------------------------
(***************************************************************************)
(* Leader election of the scaler and the job scheduler: PgLeaderLock, one  *)
(* dedicated Postgres connection per process and a session-level advisory  *)
(* lock that is never unlocked, only lost with its session. The server's   *)
(* side (who owns the lock, which sessions it has given up) is external    *)
(* and behaves as the code relies on it.                                   *)
(***************************************************************************)
EXTENDS Naturals, FiniteSets

CONSTANTS
    Nodes,       \* Ruscker processes sharing the database
    Loops,       \* the loops of a process that ask once per tick
    MaxFaults,   \* bound on failures of connections and processes
    NoNode,      \* nobody owns the lock
    Orphan       \* a session whose client is gone still owns it

ASSUME LeaderAssumption ==
    /\ IsFiniteSet(Nodes) /\ MaxFaults \in Nat
    /\ NoNode \notin Nodes /\ Orphan \notin Nodes /\ NoNode # Orphan

VARIABLES
    session,  \* LockState::conn: "none", "live", or "severed" unnoticed
    holds,    \* LockState::holds
    owner,    \* the server's owner of SCALER_LOCK_KEY
    acting,   \* the loops inside a tick that is_leader let through
    faults

lockVars == <<session, holds, owner, acting, faults>>

LockTypeOK ==
    /\ session \in [Nodes -> {"none", "live", "severed"}]
    /\ holds \in [Nodes -> BOOLEAN]
    /\ owner \in Nodes \cup {NoNode, Orphan}
    /\ acting \in SUBSET (Nodes \X Loops)
    /\ faults \in 0..MaxFaults

LockInit ==
    /\ session = [n \in Nodes |-> "none"]
    /\ holds = [n \in Nodes |-> FALSE]
    /\ owner = NoNode /\ acting = {} /\ faults = 0

Fault == faults < MaxFaults /\ faults' = faults + 1

(* Closing a session: the server notices when it notices.                  *)
Abandon(n) == owner' = IF owner = n THEN Orphan ELSE owner

-----------------------------------------------------------------------------
(* is_leader(): the ways to say yes, then the ways to say no.              *)

(* Mutant: a leader trusts its flag.                                       *)
StillLeaderUnchecked(n) == holds[n] /\ UNCHANGED <<session, holds, owner, faults>>

(* The ping answers.                                                       *)
StillLeader(n) ==
    /\ holds[n] /\ session[n] = "live"
    /\ UNCHANGED <<session, holds, owner, faults>>

(* Connect if needed, then pg_try_advisory_lock.                           *)
Acquire(n) ==
    /\ ~holds[n] /\ session[n] # "severed"
    /\ owner = NoNode
    /\ owner' = n
    /\ holds' = [holds EXCEPT ![n] = TRUE]
    /\ session' = [session EXCEPT ![n] = "live"]
    /\ UNCHANGED faults

LockTaken(n) ==
    /\ ~holds[n] /\ session[n] # "severed"
    /\ owner # NoNode
    /\ session' = [session EXCEPT ![n] = "live"]
    /\ UNCHANGED <<holds, owner, faults>>

ConnectFails(n) ==
    /\ session[n] = "none"
    /\ Fault
    /\ UNCHANGED <<session, holds, owner>>

(* The lock query fails or times out; it may have been granted.            *)
QueryFails(n) ==
    /\ ~holds[n]
    /\ \/ session[n] = "severed" /\ UNCHANGED <<owner, faults>>
       \/ /\ session[n] # "severed" /\ Fault
          /\ owner' \in {owner, IF owner = NoNode THEN Orphan ELSE owner}
    /\ session' = [session EXCEPT ![n] = "none"]
    /\ UNCHANGED holds

(* The ping fails or times out, on a lost session or a slow one.           *)
PingFails(n) ==
    /\ holds[n]
    /\ \/ session[n] = "severed" /\ UNCHANGED faults
       \/ session[n] = "live" /\ Fault
    /\ session' = [session EXCEPT ![n] = "none"]
    /\ holds' = [holds EXCEPT ![n] = FALSE]
    /\ Abandon(n)

(* Once per tick of loop l; the state mutex makes each call atomic.        *)
SaysYes(n, l) ==
    /\ <<n, l>> \notin acting
    /\ StillLeader(n) \/ Acquire(n)
    /\ acting' = acting \cup {<<n, l>>}

SaysNo(n, l) ==
    /\ <<n, l>> \notin acting
    /\ LockTaken(n) \/ ConnectFails(n) \/ QueryFails(n) \/ PingFails(n)
    /\ UNCHANGED acting

(* The pass is over and the loop sleeps.                                   *)
TickEnds(n, l) ==
    /\ <<n, l>> \in acting
    /\ acting' = acting \ {<<n, l>>}
    /\ UNCHANGED <<session, holds, owner, faults>>

-----------------------------------------------------------------------------
(* The environment.                                                        *)

(* The connection goes half-open: the server gives the session up now or   *)
(* later, the client does not know.                                        *)
Sever(n) ==
    /\ session[n] = "live"
    /\ Fault
    /\ session' = [session EXCEPT ![n] = "severed"]
    /\ owner' \in (IF owner = n THEN {NoNode, Orphan} ELSE {owner})
    /\ UNCHANGED <<holds, acting>>

(* The process dies and is started again.                                  *)
LockCrash(n) ==
    /\ Fault
    /\ session' = [session EXCEPT ![n] = "none"]
    /\ holds' = [holds EXCEPT ![n] = FALSE]
    /\ Abandon(n)
    /\ acting' = acting \ ({n} \X Loops)

(* The server gives up the session of a client that is gone.               *)
Release ==
    /\ owner = Orphan /\ owner' = NoNode
    /\ UNCHANGED <<session, holds, acting, faults>>

LockNext ==
    \/ \E n \in Nodes, l \in Loops : SaysYes(n, l) \/ SaysNo(n, l) \/ TickEnds(n, l)
    \/ \E n \in Nodes : Sever(n) \/ LockCrash(n)
    \/ Release

LockSpec == LockInit /\ [][LockNext]_lockVars

(* Every loop keeps ticking; the server gives up dead sessions. No fault   *)
(* is owed: only the fault-free outcomes of a call are fair.               *)
LockFairSpec ==
    /\ LockSpec
    /\ \A n \in Nodes, l \in Loops :
        /\ WF_lockVars((SaysYes(n, l) \/ SaysNo(n, l)) /\ UNCHANGED faults)
        /\ WF_lockVars(TickEnds(n, l))
    /\ WF_lockVars(Release)

-----------------------------------------------------------------------------
(* Properties.                                                             *)

(* A loop enters a tick only while its process owns the lock, although the *)
(* flag is_leader starts from may be stale: a process cut off from the     *)
(* server stands down at its next check, so a split brain lasts one tick.  *)
YesOnlyToOwner ==
    [][\A n \in Nodes, l \in Loops :
        <<n, l>> \in acting' \ acting => owner' = n]_lockVars

(* Of the processes whose connection still lives, at most one leads.       *)
Leading(n) == holds[n] /\ session[n] = "live"
OneLeader  == \A m, n \in Nodes : Leading(m) /\ Leading(n) => m = n

(* Failover: the lock always finds a living owner again, whatever sequence *)
(* of crashes and half-open connections came before.                       *)
LeaderReturns == []<>(\E n \in Nodes : owner = n /\ holds[n])
=============================================================================
