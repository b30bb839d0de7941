--------------------------- MODULE SharedSessions ---------------------------
(***************************************************************************)
(* PostgresSessionStore: the proxy's sessions in a table that several      *)
(* nodes share.  Every node keeps two numbers of its own: its registry's   *)
(* sessions_active per replica (cluster-wide, for routing) and `len`, the  *)
(* sessions it owns (for its graceful drain).  Both are copies of the      *)
(* table, taken by one statement and stored after it returned, while       *)
(* requests reserve seats and the other nodes write.  A task is split at   *)
(* its statements; each of them may fail.  Picking a replica is reduced to *)
(* the seat it reserves: SessionSeats has the rest.                        *)
(***************************************************************************)
EXTENDS Integers, FiniteSets

CONSTANTS
    Nodes, Sessions, Replicas, Seats,
    Requests,       \* concurrent requests, on any node
    MaxVisits,      \* bound on requests
    MaxFaults,      \* bound on failed statements and elections
    MaxSweeps,      \* bound on sweeps at the same time
    None

(* A node's sweeper goes by the node's name.                               *)
Tasks == Requests \cup Nodes

VARIABLES
    table,      \* proxy_sessions: session -> None or [rep, owner, idle, by]
    active,     \* node -> replica -> sessions_active in its registry
    len,        \* node -> local_len
    cookie,     \* session -> the replica its cookie names
    leader,     \* the node whose sweeps delete
    job,        \* task -> where it is and what it has read
    visits, faults,
    \* history
    excused,    \* node -> replicas whose count was overwritten by a value
                \* read before, or beside, a reservation
    missed      \* node -> sessions gained while its own count was in flight

vars == <<table, active, len, cookie, leader, job, visits, faults, excused, missed>>

Row == [rep : Replicas, owner : Nodes, idle : BOOLEAN, by : Nodes]
NoJob(x) == [pc |-> "idle", node |-> IF x \in Nodes THEN x ELSE None, sess |-> None,
             rep |-> None, reserved |-> FALSE, cnt |-> [r \in Replicas |-> 0],
             raced |-> {}, mine |-> 0, gains |-> 0]

Rows == {s \in Sessions : table[s] # None}
CountIn(r) == Cardinality({s \in Rows : table[s].rep = r})
Owned(n) == Cardinality({s \in Rows : table[s].owner = n})
At(n, pcs) == {x \in Tasks : job[x].node = n /\ job[x].pc \in pcs}
(* Seats that node n has reserved for sessions that have no row yet.       *)
Outstanding(n, r) == {x \in At(n, {"touch"}) : job[x].reserved /\ job[x].rep = r}

Init ==
    /\ table = [s \in Sessions |-> None]
    /\ active = [n \in Nodes |-> [r \in Replicas |-> 0]]
    /\ len = [n \in Nodes |-> 0]
    /\ cookie = [s \in Sessions |-> None]
    /\ leader = CHOOSE n \in Nodes : TRUE
    /\ job = [x \in Tasks |-> NoJob(x)]
    /\ visits = 0 /\ faults = 0
    /\ excused = [n \in Nodes |-> {}] /\ missed = [n \in Nodes |-> 0]

Goto(x, pc) == [job EXCEPT ![x].pc = pc]
Done(x) == [job EXCEPT ![x] = NoJob(x)]
(* A seat is reserved, or a session registered, on node n: counts of r     *)
(* that n has read and not yet stored are out of date.                     *)
Race(j, n, r) ==
    [x \in Tasks |-> IF j[x].node = n /\ j[x].pc \in {"set", "reset"}
                     THEN [j[x] EXCEPT !.raced = @ \cup {r}] ELSE j[x]]
Gain(j, n) ==
    [x \in Tasks |-> IF j[x].node = n /\ j[x].pc = "store"
                     THEN [j[x] EXCEPT !.gains = @ + 1] ELSE j[x]]
(* The node's own sessions are counted; the statements before it took      *)
(* effect in the registry only, which nobody compares with this count.     *)
CountMine(x) ==
    LET n == job[x].node IN
    [job EXCEPT ![x] = [NoJob(x) EXCEPT !.pc = "store", !.node = n, !.mine = Owned(n)]]
Fault == faults < MaxFaults /\ faults' = faults + 1

-----------------------------------------------------------------------------
(* Requests.                                                               *)

(* Session ids are minted, and tasks spawned, when they are needed.        *)
Unused ==
    {s \in Sessions : /\ cookie[s] = None /\ table[s] = None
                      /\ \A y \in Tasks : job[y].sess # s}
IdleRequests == {x \in Requests : job[x].pc = "idle"}

(* A visitor without a cookie reserves a seat in the node's own registry.  *)
FreshVisit(x, n, r) ==
    /\ visits < MaxVisits
    /\ active[n][r] < Seats
    /\ active' = [active EXCEPT ![n][r] = @ + 1]
    /\ \E s \in Unused :
          job' = [Race(job, n, r) EXCEPT ![x] = [NoJob(x) EXCEPT !.pc = "touch",
                     !.node = n, !.sess = s, !.rep = r, !.reserved = TRUE]]
    /\ visits' = visits + 1
    /\ UNCHANGED <<table, len, cookie, leader, faults, excused, missed>>

(* The load balancer may send a returning visitor to any node; the cookie  *)
(* brings it to its replica, full or not.                                  *)
StickyVisit(x, n, s) ==
    /\ visits < MaxVisits
    /\ cookie[s] # None
    /\ job' = [job EXCEPT ![x] = [NoJob(x) EXCEPT !.pc = "touch", !.node = n,
                  !.sess = s, !.rep = cookie[s]]]
    /\ visits' = visits + 1
    /\ UNCHANGED <<table, active, len, cookie, leader, faults, excused, missed>>

(* try_touch.  The upsert makes a row, or refreshes it and its owner; the  *)
(* row's replica stays what it was.                                        *)
Touch(x) ==
    LET j == job[x]  s == j.sess IN
    /\ j.pc = "touch"
    /\ cookie' = [cookie EXCEPT ![s] = j.rep]
    /\ IF table[s] = None
       THEN /\ table' = [table EXCEPT ![s] =
                  [rep |-> j.rep, owner |-> j.node, idle |-> FALSE, by |-> j.node]]
            /\ job' = [Race(job, j.node, j.rep) EXCEPT ![x].pc = "count", ![x].sess = None]
       ELSE /\ table' = [table EXCEPT ![s].owner = j.node, ![s].idle = FALSE]
            /\ job' = IF table[s].owner # j.node THEN [job EXCEPT ![x] = [NoJob(x) EXCEPT !.pc = "took", !.node = j.node]] ELSE Done(x)
    /\ UNCHANGED <<active, len, leader, visits, faults, excused, missed>>

(* The statement fails: the request goes on as a touch, its reservation    *)
(* stays in the registry until a count overwrites it.                      *)
TouchFails(x) ==
    /\ job[x].pc = "touch" /\ Fault
    /\ cookie' = [cookie EXCEPT ![job[x].sess] = job[x].rep]
    /\ job' = Done(x)
    /\ UNCHANGED <<table, active, len, leader, visits, excused, missed>>

(* Mutant: a session taken over is not counted before the next sweep.      *)
TookOver_Uncounted(x) ==
    /\ job[x].pc = "took"
    /\ job' = Done(x)
    /\ UNCHANGED <<table, active, len, cookie, leader, visits, faults, excused, missed>>

TookOver(x) ==
    /\ job[x].pc = "took"
    /\ len' = [len EXCEPT ![job[x].node] = @ + 1]
    /\ job' = Gain(Done(x), job[x].node)
    /\ UNCHANGED <<table, active, cookie, leader, visits, faults, excused, missed>>

(* count_for_replica, after a registration or a logout.                    *)
CountForReplica(x) ==
    LET j == job[x] IN
    /\ j.pc \in {"count", "recount"}
    /\ job' = [job EXCEPT ![x].pc = IF j.pc = "count" THEN "set" ELSE "reset",
                          ![x].cnt[j.rep] = CountIn(j.rep),
                          ![x].raced = IF Outstanding(j.node, j.rep) = {} THEN {} ELSE {j.rep}]
    /\ UNCHANGED <<table, active, len, cookie, leader, visits, faults, excused, missed>>

(* set_session_count: the value read overwrites the registry's.            *)
SetCount(n, r, j) ==
    /\ active' = [active EXCEPT ![n][r] = j.cnt[r]]
    /\ excused' = [excused EXCEPT ![n] = IF r \in j.raced THEN @ \cup {r} ELSE @ \ {r}]

Registered(x) ==
    LET j == job[x] IN
    /\ j.pc = "set" /\ x \in Requests
    /\ SetCount(j.node, j.rep, j)
    /\ len' = [len EXCEPT ![j.node] = @ + 1]
    /\ job' = Gain(Done(x), j.node)
    /\ UNCHANGED <<table, cookie, leader, visits, faults, missed>>

(* Mutant: the fallback forgets the visitors without a reservation.        *)
BlindBump_Never(j) == active
(* The count could not be read: a blind bump, unless the seat is reserved. *)
BlindBump(j) == IF j.reserved THEN active ELSE [active EXCEPT ![j.node][j.rep] = @ + 1]

CountFails(x) ==
    LET j == job[x] IN
    /\ j.pc = "count" /\ Fault
    /\ active' = BlindBump(j)
    /\ len' = [len EXCEPT ![j.node] = @ + 1]
    /\ job' = Gain(Done(x), j.node)
    /\ UNCHANGED <<table, cookie, leader, visits, excused, missed>>

-----------------------------------------------------------------------------
(* end_session: a logout deletes the row and stores the counts it reads.   *)

EndSession(x, n, s) ==
    /\ visits < MaxVisits
    /\ table[s] # None
    /\ table' = [table EXCEPT ![s] = None]
    /\ job' = [job EXCEPT ![x] = [NoJob(x) EXCEPT !.pc = "recount", !.node = n,
                                                  !.rep = table[s].rep]]
    /\ visits' = visits + 1
    /\ UNCHANGED <<active, len, cookie, leader, faults, excused, missed>>

Ended(x) ==
    /\ job[x].pc = "reset"
    /\ SetCount(job[x].node, job[x].rep, job[x])
    /\ job' = CountMine(x)
    /\ UNCHANGED <<table, len, cookie, leader, visits, faults, missed>>

RecountFails(x) ==
    /\ job[x].pc = "recount" /\ Fault
    /\ job' = CountMine(x)
    /\ UNCHANGED <<table, active, len, cookie, leader, visits, excused, missed>>

(* drop_replica, by the cleanup of a replica that is gone: its row leaves  *)
(* this node's registry, its sessions leave the table.                     *)
DropReplica(x, n, r) ==
    /\ visits < MaxVisits
    /\ active' = [active EXCEPT ![n][r] = 0]
    /\ excused' = [excused EXCEPT ![n] = @ \cup {r}]
    /\ table' = [s \in Sessions |-> IF s \in Rows /\ table[s].rep = r THEN None ELSE table[s]]
    /\ cookie' = [s \in Sessions |-> IF cookie[s] = r THEN None ELSE cookie[s]]
    /\ job' = [job EXCEPT ![x] = [NoJob(x) EXCEPT !.pc = "store", !.node = n,
                  !.mine = Cardinality({s \in Rows : table[s].owner = n /\ table[s].rep # r})]]
    /\ visits' = visits + 1
    /\ UNCHANGED <<len, leader, faults, missed>>

-----------------------------------------------------------------------------
(* try_sweep, on every node.                                               *)

Expire(s) ==
    /\ s \in Rows /\ ~table[s].idle
    /\ table' = [table EXCEPT ![s].idle = TRUE]
    /\ UNCHANGED <<active, len, cookie, leader, job, visits, faults, excused, missed>>

(* Only the leader deletes idle rows.                                      *)
SweepDelete(n) ==
    /\ job[n].pc = "idle"
    /\ Cardinality({m \in Nodes : job[m].pc # "idle"}) < MaxSweeps
    /\ table' = IF n = leader
                THEN [s \in Sessions |-> IF s \in Rows /\ table[s].idle THEN None ELSE table[s]]
                ELSE table
    /\ job' = Goto(n, "group")
    /\ UNCHANGED <<active, len, cookie, leader, visits, faults, excused, missed>>

SweepGroup(n) ==
    /\ job[n].pc = "group"
    /\ job' = [job EXCEPT ![n].pc = "set",
                          ![n].cnt = [r \in Replicas |-> CountIn(r)],
                          ![n].raced = {r \in Replicas : Outstanding(n, r) # {}}]
    /\ UNCHANGED <<table, active, len, cookie, leader, visits, faults, excused, missed>>

(* Mutant: only the leader's sweep reconciles.                             *)
SetSessionCounts_Leader(n) ==
    /\ job[n].pc = "set"
    /\ IF n = leader THEN active' = [active EXCEPT ![n] = job[n].cnt]
                          /\ excused' = [excused EXCEPT ![n] = job[n].raced]
       ELSE UNCHANGED <<active, excused>>
    /\ job' = CountMine(n)
    /\ UNCHANGED <<table, len, cookie, leader, visits, faults, missed>>

(* set_session_counts: replicas without a row count zero.                  *)
SetSessionCounts(n) ==
    /\ job[n].pc = "set"
    /\ active' = [active EXCEPT ![n] = job[n].cnt]
    /\ excused' = [excused EXCEPT ![n] = job[n].raced]
    /\ job' = CountMine(n)
    /\ UNCHANGED <<table, len, cookie, leader, visits, faults, missed>>

(* The count of the node's own sessions is stored.                         *)
StoreMine(x) ==
    LET j == job[x] IN
    /\ j.pc = "store"
    /\ len' = [len EXCEPT ![j.node] = j.mine]
    /\ missed' = [missed EXCEPT ![j.node] = j.gains]
    /\ job' = Done(x)
    /\ UNCHANGED <<table, active, cookie, leader, visits, faults, excused>>

(* A statement fails: the rest of the sweep, or of the cleanup, is left    *)
(* out.                                                                    *)
GiveUp(x) ==
    /\ job[x].pc \in {"group", "store"} /\ Fault
    /\ job' = Done(x)
    /\ UNCHANGED <<table, active, len, cookie, leader, visits, excused, missed>>

Election(n) ==
    /\ n # leader /\ Fault
    /\ leader' = n
    /\ UNCHANGED <<table, active, len, cookie, job, visits, excused, missed>>

RequestStep(x) ==
    \/ Touch(x) \/ TouchFails(x) \/ TookOver(x)
    \/ CountForReplica(x) \/ Registered(x) \/ CountFails(x)
    \/ Ended(x) \/ RecountFails(x) \/ StoreMine(x) \/ GiveUp(x)
SweepStep(n) ==
    SweepDelete(n) \/ SweepGroup(n) \/ SetSessionCounts(n)
    \/ StoreMine(n) \/ GiveUp(n)
Arrivals ==
    \E x \in IdleRequests, n \in Nodes :
        \/ \E s \in Sessions : StickyVisit(x, n, s) \/ EndSession(x, n, s)
        \/ \E r \in Replicas : FreshVisit(x, n, r) \/ DropReplica(x, n, r)
Next ==
    \/ Arrivals
    \/ \E x \in Requests : RequestStep(x)
    \/ \E n \in Nodes : SweepStep(n) \/ Election(n)
    \/ \E s \in Sessions : Expire(s)

(* Requests finish, and the sweeper of every node runs on an interval (the *)
(* strong fairness only keeps MaxSweeps from starving a node).             *)
Fairness ==
    /\ \A x \in Requests : WF_vars(RequestStep(x))
    /\ \A n \in Nodes : SF_vars(SweepDelete(n)) /\ WF_vars(SweepStep(n))
Spec == Init /\ [][Next]_vars
FairSpec == Spec /\ Fairness

-----------------------------------------------------------------------------
(* Properties.                                                             *)

TypeOK ==
    /\ table \in [Sessions -> Row \cup {None}]
    /\ active \in [Nodes -> [Replicas -> Nat]] /\ len \in [Nodes -> Nat]
    /\ cookie \in [Sessions -> Replicas \cup {None}]
    /\ leader \in Nodes

(* Seats that node n has given out on r: its reservations, and the rows it *)
(* registered, those left out whose registration has yet to be counted.    *)
GivenOut(n, r) ==
    Cardinality(Outstanding(n, r))
    + Cardinality({s \in Rows : table[s].rep = r /\ table[s].by = n})
    - Cardinality({x \in At(n, {"count", "set"}) \ Nodes :
                       job[x].rep = r /\ ~job[x].reserved})

(* A node's counter of a replica covers every seat the node has given out, *)
(* so that a burst of first requests cannot over-pack it, except after an  *)
(* absolute count that was read before, or beside, a reservation.          *)
SeatsCounted ==
    \A n \in Nodes, r \in Replicas :
        r \in excused[n] \/ active[n][r] >= GivenOut(n, r)

(* A drain waits for every session its node owns: `len` falls short only   *)
(* by the touches whose statement has not returned and by the sessions     *)
(* gained while a count of the node's own was in flight.                   *)
DrainSeesOwn ==
    \A n \in Nodes :
        Owned(n) <= len[n] + Cardinality(At(n, {"count", "set", "took"}) \ Nodes) + missed[n]

(* Once requests stop, every node settles on the numbers of the table.     *)
CountsConverge ==
    <>[](\A n \in Nodes : len[n] = Owned(n) /\ \A r \in Replicas : active[n][r] = CountIn(r))
=============================================================================
