-------------------------------- MODULE Nodes --------------------------------
(***************************************************************************)
(* The accounts of seats and replicas: on one node, on nodes that share    *)
(* their sessions, and over several Docker hosts. They share no state with *)
(* each other, so a behaviour is about one of them, its subject; the       *)
(* others stay in an initial state.                                        *)
(***************************************************************************)
EXTENDS Integers, SessionSeats

CONSTANTS
    None,
    \* the sessions that several nodes share
    Members, SharedSids, SharedReplicas, SharedSeats, SharedRequests,
    MaxVisits, MaxSharedFaults, MaxSweeps,
    \* the Docker hosts
    N, MaxContainers, Weight, SpecOf, Placement, AntiAffinity, FleetTasks, Passes,
    MaxFleetFaults

VARIABLE subject

VARIABLES table, counted, len, sharedCookie, leader, job, visits, sharedFaults, excused, missed
S == INSTANCE SharedSessions WITH
       Nodes <- Members, Sessions <- SharedSids, Replicas <- SharedReplicas,
       Seats <- SharedSeats, Requests <- SharedRequests, MaxFaults <- MaxSharedFaults,
       active <- counted, cookie <- sharedCookie, faults <- sharedFaults
sharedVars == <<table, counted, len, sharedCookie, leader, job, visits, sharedFaults,
                excused, missed>>

VARIABLES ctr, placement, rows, fleetTask, pass, down, booted, fleetFaults
F == INSTANCE Fleet WITH
       Tasks <- FleetTasks, MaxFaults <- MaxFleetFaults, task <- fleetTask,
       faults <- fleetFaults
fleetVars == <<ctr, placement, rows, fleetTask, pass, down, booted, fleetFaults>>

(* A node's sweeper goes by the node's name, so no request has that name.    *)
ASSUME SharedAssumption ==
    /\ IsFiniteSet(Members) /\ Members # {}
    /\ IsFiniteSet(SharedSids) /\ IsFiniteSet(SharedRequests)
    /\ Members \cap SharedRequests = {}
    /\ None \notin Members \cup SharedSids \cup SharedReplicas \cup S!Row

ASSUME FleetAssumption == N \in Nat

(* The seats of a single node are this module's own: SessionSeats is         *)
(* extended.                                                                 *)
-----------------------------------------------------------------------------
nodeVars == <<subject, vars, sharedVars, fleetVars>>

NodesInit ==
    /\ subject \in {"seats", "shared", "fleet"}
    /\ Init /\ S!Init /\ F!Init
    \* which initial state the others are in does not matter
    /\ subject # "seats" => \A r \in Replicas : state[r] = "absent"

NodesNext ==
    \/ subject = "seats" /\ Next
       /\ UNCHANGED <<subject, sharedVars, fleetVars>>
    \/ subject = "shared" /\ S!Next
       /\ UNCHANGED <<subject, vars, fleetVars>>
    \/ subject = "fleet" /\ F!Next
       /\ UNCHANGED <<subject, vars, sharedVars>>

NodesSpec == NodesInit /\ [][NodesNext]_nodeVars

-----------------------------------------------------------------------------
\* A node's counter covers every seat it has given out, unless an absolute
\* count overwrote a reservation (SharedSessions).
SeatsCounted == S!SeatsCounted

\* A drain waits for every session its node owns, up to those gained while
\* it was counting (SharedSessions).
DrainSeesOwn == S!DrainSeesOwn

\* A row is pruned as missing only when its container is gone (Fleet).
NoFalseMissing == F!NoFalseMissing

\* SeatLedger and AdmissionRespectsSeats are SessionSeats' own.
=============================================================================
