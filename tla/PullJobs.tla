------------------------------- MODULE PullJobs -------------------------------
(***************************************************************************)
(* The editor's Pull button: a pull takes one of a few slots, runs in a    *)
(* task of its own that forwards progress lines into a bounded channel,    *)
(* and is followed by at most one event stream. Nobody may ever follow; a  *)
(* follower may leave; the channel may fill.                               *)
(***************************************************************************)
EXTENDS Naturals, FiniteSets

CONSTANTS
    Jobs,        \* pulls, each with its token
    Slots,       \* MAX_CONCURRENT_PULLS
    Cap,         \* PULL_CHANNEL_CAP
    MaxLines     \* bound on the progress lines of one pull

VARIABLES
    task,       \* each pull: "new", "starting", "refused", "failed", "run", "done", "over"
    held,       \* the permits of PULL_SLOTS taken, by pull
    listed,     \* PULL_JOBS: the tokens that can still be followed
    rx,         \* the channel's receiver: "none", "map", "follower" or "gone"
    due,        \* what its stream has yielded and is not sent on: "none", "line" or "end"
    chan,       \* lines in the channel
    said,       \* lines produced so far
    sweep       \* the tokens whose TTL timer is still to fire

vars == <<task, held, listed, rx, due, chan, said, sweep>>

Init ==
    /\ task = [j \in Jobs |-> "new"] /\ held = {} /\ listed = {} /\ sweep = {}
    /\ rx = [j \in Jobs |-> "none"] /\ chan = [j \in Jobs |-> 0]
    /\ due = [j \in Jobs |-> "none"] /\ said = [j \in Jobs |-> 0]

Become(j, s) == task' = [task EXCEPT ![j] = s]

\* No image name, one with an unresolved variable, an app out of the
\* editor's scope, a credential that cannot be read: no slot is asked for.
TurnedAway(j) == /\ task[j] = "new" /\ Become(j, "refused")
                 /\ UNCHANGED <<held, listed, rx, due, chan, said, sweep>>
\* try_acquire: a fifth pull is refused rather than queued.
Acquire(j) ==
    /\ task[j] = "new"
    /\ IF Cardinality(held) < Slots
       THEN Become(j, "starting") /\ held' = held \cup {j}
       ELSE Become(j, "refused") /\ UNCHANGED held
    /\ UNCHANGED <<listed, rx, due, chan, said, sweep>>
\* The pull cannot start on any host, or the request is dropped meanwhile:
\* the permit goes with the handler.
StartFails(j) ==
    /\ task[j] = "starting" /\ Become(j, "failed") /\ held' = held \ {j}
    /\ UNCHANGED <<listed, rx, due, chan, said, sweep>>
Start(j) ==
    /\ task[j] = "starting" /\ Become(j, "run")
    /\ rx' = [rx EXCEPT ![j] = "map"]
    /\ listed' = listed \cup {j} /\ sweep' = sweep \cup {j}
    /\ UNCHANGED <<held, due, chan, said>>

\* Docker's stream yields a line or ends, when it does.
Yields(j) ==
    /\ task[j] = "run" /\ due[j] = "none"
    /\ \/ said[j] < MaxLines /\ due' = [due EXCEPT ![j] = "line"]
          /\ said' = [said EXCEPT ![j] = @ + 1]
       \/ due' = [due EXCEPT ![j] = "end"] /\ UNCHANGED said
    /\ UNCHANGED <<task, held, listed, rx, chan, sweep>>
\* forward_pull: a line, and the event of the end, waits for room; a send
\* fails once the receiver is gone; the permit is released when the task
\* returns.
Line(j) ==
    /\ due[j] = "line" /\ due' = [due EXCEPT ![j] = "none"]
    /\ rx[j] # "gone" /\ chan[j] < Cap /\ chan' = [chan EXCEPT ![j] = @ + 1]
    /\ UNCHANGED <<task, held, listed, rx, said, sweep>>
Ends(j, s) ==
    /\ due' = [due EXCEPT ![j] = "none"] /\ Become(j, s) /\ held' = held \ {j}
    /\ UNCHANGED <<listed, rx, said, sweep>>
StreamEnds(j) ==
    /\ due[j] = "end" /\ Ends(j, "done")
    /\ rx[j] # "gone" /\ chan[j] < Cap /\ chan' = [chan EXCEPT ![j] = @ + 1]
SendFails(j) ==
    /\ due[j] # "none" /\ rx[j] = "gone" /\ Ends(j, "over") /\ UNCHANGED chan
Forward(j) == Line(j) \/ StreamEnds(j) \/ SendFails(j)

\* image_pull_events: taking the token out of the map makes this the one
\* follower.
Follow(j) ==
    /\ j \in listed /\ listed' = listed \ {j}
    /\ rx[j] = "map" /\ rx' = [rx EXCEPT ![j] = "follower"]
    /\ UNCHANGED <<task, held, due, chan, said, sweep>>
Receive(j) ==
    /\ rx[j] = "follower" /\ chan[j] > 0
    /\ chan' = [chan EXCEPT ![j] = @ - 1]
    /\ rx' = [rx EXCEPT ![j] = IF task[j] = "done" /\ chan[j] = 1 THEN "gone" ELSE @]
    /\ UNCHANGED <<task, held, listed, due, said, sweep>>
\* The browser goes away: the stream, and with it the receiver, is dropped.
Leave(j) ==
    /\ rx[j] = "follower" /\ rx' = [rx EXCEPT ![j] = "gone"]
    /\ UNCHANGED <<task, held, listed, due, chan, said, sweep>>

\* The TTL timer drops a pull nobody followed, with its receiver.
Dropped(j) == [rx EXCEPT ![j] = IF j \in listed THEN "gone" ELSE @]
Sweep(j) ==
    /\ j \in sweep /\ sweep' = sweep \ {j}
    /\ rx' = Dropped(j) /\ listed' = listed \ {j}
    /\ UNCHANGED <<task, held, due, chan, said>>

Next == \E j \in Jobs :
    \/ TurnedAway(j) \/ Acquire(j) \/ StartFails(j) \/ Start(j)
    \/ Yields(j) \/ Line(j) \/ StreamEnds(j) \/ SendFails(j)
    \/ Follow(j) \/ Receive(j) \/ Leave(j) \/ Sweep(j)

\* Ruscker's own tasks run on and its timers fire. Docker's stream and the
\* follower's browser need not do anything, and nothing times them out.
Fairness == \A j \in Jobs : /\ WF_vars(StartFails(j) \/ Start(j))
                            /\ WF_vars(Forward(j)) /\ WF_vars(Sweep(j))
Spec == Init /\ [][Next]_vars /\ Fairness

-----------------------------------------------------------------------------
\* A pull gives its slot back, followed, abandoned or never followed
\* (forward_pull: it "can't keep the task alive forever"). Two things hold
\* it: a stream of Docker's that says nothing any more, and a follower that
\* stays connected and reads nothing.
Silent(j) == task[j] = "run" /\ due[j] = "none"
Unread(j) == rx[j] = "follower" /\ chan[j] = Cap
SlotsReturn ==
    \A j \in Jobs : \/ (j \in held) ~> (j \notin held)
                    \/ <>[]Silent(j) \/ <>[]Unread(j)
=============================================================================
