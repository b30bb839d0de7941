------------------------------ MODULE MCLoops -------------------------------
(***************************************************************************)
(* Instances of the tasks that run by themselves and must not stop short:  *)
(* the access counter's flusher, leader election, the WebSocket pump, the  *)
(* image pulls, the sweepers of one node and of nodes that share their     *)
(* sessions, and the listings of a fleet of hosts. A behaviour is about    *)
(* one of them, its subject; the others stay in their initial state.       *)
(***************************************************************************)
EXTENDS AccessCounter, LeaderLock

CONSTANTS none, n1, n2, j1, j2, s1, q1, q2, l1, r1, p1

VARIABLE subject

VARIABLES wire, sent, peer, got, dir, hand, pump, quiet
W == INSTANCE WsPump WITH
       MaxFrames <- 2, IdleLimit <- 1
pumpVars == <<wire, sent, peer, got, dir, hand, pump, quiet>>

VARIABLES pullTask, held, listed, rx, due, chan, said, sweep
P == INSTANCE PullJobs WITH
       Jobs <- {j1, j2}, Slots <- 1, Cap <- 1, MaxLines <- 2,
       task <- pullTask
pullsVars == <<pullTask, held, listed, rx, due, chan, said, sweep>>

VARIABLES table, active, len, cookie, leader, job, visits, sharedFaults, excused, missed
S == INSTANCE SharedSessions WITH
       Nodes <- {n1, n2}, Sessions <- {s1}, Replicas <- {r1}, Seats <- 1, Requests <- {q1},
       MaxVisits <- 2, MaxFaults <- 1, MaxSweeps <- 1, None <- none,
       faults <- sharedFaults
sharedVars == <<table, active, len, cookie, leader, job, visits, sharedFaults, excused,
                missed>>

VARIABLES state, seatActive, minted, alive, tracked, stale, bound, seatCookie, pc, sid, reserved,
    target, victims, lock, ending, dropping, drifted
Q == INSTANCE SessionSeats WITH
       Replicas <- {r1}, Sids <- {s1}, Requests <- {q1, q2}, Logouts <- {l1},
       Reapers <- {p1}, Seats <- 1, MaxReplicas <- 1, CountBound <- 2, NoReplica <- none,
       NoSid <- none,
       active <- seatActive, cookie <- seatCookie
seatsVars == <<state, seatActive, minted, alive, tracked, stale, bound, seatCookie, pc,
               sid, reserved, target, victims, lock, ending, dropping, drifted>>

VARIABLES ctr, placement, rows, fleetTask, pass, down, booted, fleetFaults
F == INSTANCE Fleet WITH
       N <- 2, MaxContainers <- <<1, 2>>, Weight <- <<1, 2>>, Replicas <- {r1},
       SpecOf <- [r \in {r1} |-> "app"], Placement <- "spread", AntiAffinity <- TRUE,
       Tasks <- {q1}, Passes <- {p1}, MaxFaults <- 2, NoReplica <- none,
       task <- fleetTask, faults <- fleetFaults
fleetVars == <<ctr, placement, rows, fleetTask, pass, down, booted, fleetFaults>>
accessVars == vars
-----------------------------------------------------------------------------
loopVars == <<subject, accessVars, lockVars, pumpVars, pullsVars, sharedVars, seatsVars, fleetVars>>

LoopInit ==
    /\ subject \in {"access", "lock", "pump", "pulls", "shared", "seats", "fleet"}
    /\ Init /\ LockInit /\ W!Init /\ P!Init /\ S!Init /\ Q!Init /\ F!Init
    \* which initial state the seats are in otherwise does not matter
    /\ subject # "seats" => state[r1] = "absent"

LoopNext ==
    \/ subject = "access" /\ Next
       /\ UNCHANGED <<subject, lockVars, pumpVars, pullsVars, sharedVars, seatsVars,
                              fleetVars>>
    \/ subject = "lock" /\ LockNext
       /\ UNCHANGED <<subject, accessVars, pumpVars, pullsVars, sharedVars, seatsVars,
                              fleetVars>>
    \/ subject = "pump" /\ W!Next
       /\ UNCHANGED <<subject, accessVars, lockVars, pullsVars, sharedVars, seatsVars,
                              fleetVars>>
    \/ subject = "pulls" /\ P!Next
       /\ UNCHANGED <<subject, accessVars, lockVars, pumpVars, sharedVars, seatsVars,
                              fleetVars>>
    \/ subject = "shared" /\ S!Next
       /\ UNCHANGED <<subject, accessVars, lockVars, pumpVars, pullsVars, seatsVars,
                              fleetVars>>
    \/ subject = "seats" /\ Q!Next
       /\ UNCHANGED <<subject, accessVars, lockVars, pumpVars, pullsVars, sharedVars,
                              fleetVars>>
    \/ subject = "fleet" /\ F!Next
       /\ UNCHANGED <<subject, accessVars, lockVars, pumpVars, pullsVars, sharedVars,
                              seatsVars>>

(* The fairness of each module, for the behaviours it is the subject of.   *)
LoopFairness ==
    /\ WF_accessVars(subject = "access" /\ FlushStep("drain"))
    /\ \A n \in Nodes, l \in Loops :
         /\ WF_lockVars(/\ subject = "lock" /\ UNCHANGED faults
                        /\ SaysYes(n, l) \/ SaysNo(n, l))
         /\ WF_lockVars(subject = "lock" /\ TickEnds(n, l))
    /\ WF_lockVars(subject = "lock" /\ Release)
    /\ \A o \in W!Peers : WF_pumpVars(subject = "pump" /\ W!Task(o))
    /\ WF_pumpVars(subject = "pump" /\ W!FirstEnds)
    /\ WF_pumpVars(subject = "pump" /\ W!SecondEnds)
    /\ WF_pumpVars(subject = "pump" /\ W!Timers)
    /\ \A j \in {j1, j2} :
         /\ WF_pullsVars(subject = "pulls" /\ (P!StartFails(j) \/ P!Start(j)))
         /\ WF_pullsVars(subject = "pulls" /\ P!Forward(j))
         /\ WF_pullsVars(subject = "pulls" /\ P!Sweep(j))
    /\ WF_sharedVars(subject = "shared" /\ S!RequestStep(q1))
    /\ \A n \in {n1, n2} : /\ SF_sharedVars(subject = "shared" /\ S!SweepDelete(n))
                           /\ WF_sharedVars(subject = "shared" /\ S!SweepStep(n))
    /\ WF_seatsVars(subject = "seats" /\ Q!SweeperStep)
    /\ WF_fleetVars(subject = "fleet" /\ F!PassStep(p1))
    /\ WF_fleetVars(subject = "fleet" /\ F!Begin(p1))
LoopSpec == LoopInit /\ [][LoopNext]_loopVars /\ LoopFairness

-----------------------------------------------------------------------------
\* Buffered accesses reach the table, whatever writes failed in between
\* (AccessCounter).
BufferDrains == []TypeOK /\ EventuallyPersisted

\* After any sequence of crashes and half-open connections somebody leads
\* again, and never two with live connections (LeaderLock).
LeadershipReturns == /\ [](LockTypeOK /\ OneLeader)
                     /\ subject = "lock" => LeaderReturns

\* A WebSocket relay delivers in order and ends when its peers do; a pull
\* gives its slot back unless Docker falls silent or its follower stays and
\* reads nothing (WsPump, PullJobs).
RelaysEnd == /\ [][W!FramesInOrder']_pumpVars /\ (subject = "pump" => W!PumpEnds)
             /\ P!SlotsReturn

\* Once requests stop, every node's numbers are the table's (SharedSessions).
CountsConverge == []S!TypeOK /\ S!CountsConverge

\* An idle session gives its seat back, and no seat is given back twice,
\* although a logout, a reaper and two requests race with the sweeper
\* (SessionSeats).
SeatsReleased == []Q!SeatLedger /\ Q!IdleSessionReleased

\* The placement map recovers what races with listings lost or left (Fleet).
PlacementHeals == []F!TypeOK /\ F!PlacementHeals
=============================================================================
