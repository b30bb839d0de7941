------------------------------- MODULE WsPump -------------------------------
(***************************************************************************)
(* The WebSocket pump: one task per direction that reads a frame from its  *)
(* origin and sends it to its target, a watchdog for silence, and the pump *)
(* that waits for the first of the three, grants the other direction a     *)
(* grace, and aborts what is left. The two peers (the browser and the      *)
(* app) are external: they send, stop reading, close or vanish at will.    *)
(***************************************************************************)
EXTENDS Naturals, Sequences, SequencesExt

CONSTANTS
    MaxFrames,    \* bound on the frames of a peer
    IdleLimit     \* silent checks until the watchdog gives up

VARIABLES
    wire,    \* frames of each peer on their way to the pump
    sent,    \* data frames of each peer so far
    peer,    \* "open", "deaf" (reads no more), "closing", "gone"
    got,     \* what each peer has received
    dir,     \* the direction from each peer: what its task is about to do
    hand,    \* the frame it is sending
    pump,    \* "select", "grace", "over"
    quiet    \* checks since the last frame

vars == <<wire, sent, peer, got, dir, hand, pump, quiet>>

Peers == {"client", "upstream"}
Other(o) == CHOOSE t \in Peers : t # o
CloseFrame == 0            \* data frames are numbered from 1

Init ==
    /\ wire = [o \in Peers |-> <<>>] /\ sent = [o \in Peers |-> 0]
    /\ peer = [o \in Peers |-> "open"] /\ got = [o \in Peers |-> <<>>]
    /\ dir = [o \in Peers |-> "next"] /\ hand = [o \in Peers |-> CloseFrame]
    /\ pump = "select" /\ quiet = 0

----------------------------------------------------------------------------
(***************************************************************************)
(* The peers.                                                              *)
(***************************************************************************)
PeerSends(o) ==
    /\ peer[o] \in {"open", "deaf"} /\ sent[o] < MaxFrames /\ pump # "over"
    /\ sent' = [sent EXCEPT ![o] = @ + 1]
    /\ wire' = [wire EXCEPT ![o] = Append(@, sent'[o])]
    /\ UNCHANGED <<peer, got, dir, hand, pump, quiet>>
PeerCloses(o) ==
    /\ peer[o] \in {"open", "deaf"}
    /\ peer' = [peer EXCEPT ![o] = "closing"]
    /\ wire' = [wire EXCEPT ![o] = Append(@, CloseFrame)]
    /\ UNCHANGED <<sent, got, dir, hand, pump, quiet>>
PeerStalls(o) ==
    /\ peer[o] = "open"
    /\ peer' = [peer EXCEPT ![o] = "deaf"]
    /\ UNCHANGED <<wire, sent, got, dir, hand, pump, quiet>>
PeerResumes(o) ==
    /\ peer[o] = "deaf" /\ pump # "over"
    /\ peer' = [peer EXCEPT ![o] = "open"]
    /\ UNCHANGED <<wire, sent, got, dir, hand, pump, quiet>>
PeerVanishes(o) ==
    /\ peer[o] # "gone"
    /\ peer' = [peer EXCEPT ![o] = "gone"]
    /\ UNCHANGED <<wire, sent, got, dir, hand, pump, quiet>>

----------------------------------------------------------------------------
(***************************************************************************)
(* A direction. The task ends with the close frame it forwarded, with a    *)
(* close of its own at the end of the stream or on a receive error, or     *)
(* with a send that failed or took longer than SEND_TIMEOUT.               *)
(***************************************************************************)
Ends(o) == dir' = [dir EXCEPT ![o] = "done"]
Recv(o) ==
    /\ dir[o] = "next" /\ wire[o] # <<>>
    /\ hand' = [hand EXCEPT ![o] = Head(wire[o])]
    /\ wire' = [wire EXCEPT ![o] = Tail(@)]
    /\ dir' = [dir EXCEPT ![o] = IF Head(wire[o]) = CloseFrame THEN "bye" ELSE "send"]
    /\ quiet' = 0
    /\ UNCHANGED <<sent, peer, got, pump>>
\* The end of the stream, or an error on it: frames not read yet may be lost
\* with the connection.
RecvEnd(o) ==
    /\ dir[o] = "next" /\ peer[o] = "gone"
    /\ hand' = [hand EXCEPT ![o] = CloseFrame] /\ wire' = [wire EXCEPT ![o] = <<>>]
    /\ dir' = [dir EXCEPT ![o] = "bye"]
    /\ quiet' \in {quiet, 0}                  \* an error counts as activity
    /\ UNCHANGED <<sent, peer, got, pump>>
Sent(o) ==
    LET t == Other(o) IN
    /\ dir[o] \in {"send", "bye"} /\ peer[t] \in {"open", "closing"}
    /\ got' = [got EXCEPT ![t] = Append(@, hand[o])]
    /\ dir' = [dir EXCEPT ![o] = IF @ = "bye" THEN "done" ELSE "next"]
    /\ hand' = [hand EXCEPT ![o] = CloseFrame]
    /\ UNCHANGED <<wire, sent, peer, pump, quiet>>
\* send_with_timeout: Failed, TimedOut.
SendFails(o) ==
    /\ dir[o] \in {"send", "bye"} /\ peer[Other(o)] = "gone"
    /\ Ends(o) /\ hand' = [hand EXCEPT ![o] = CloseFrame]
    /\ UNCHANGED <<wire, sent, peer, got, pump, quiet>>
TimesOut(o) == peer[Other(o)] = "deaf"
SendTimesOut(o) ==
    /\ dir[o] \in {"send", "bye"} /\ TimesOut(o)
    /\ Ends(o) /\ hand' = [hand EXCEPT ![o] = CloseFrame]
    /\ UNCHANGED <<wire, sent, peer, got, pump, quiet>>

----------------------------------------------------------------------------
(***************************************************************************)
(* The watchdog and the pump.                                              *)
(***************************************************************************)
IdleCheck ==
    /\ pump = "select" /\ quiet < IdleLimit
    /\ quiet' = quiet + 1
    /\ UNCHANGED <<wire, sent, peer, got, dir, hand, pump>>
\* Aborting drops both connections, and with them what is on the wire.
Abort_None == UNCHANGED <<dir, hand>>
Abort == /\ dir' = [o \in Peers |-> "done"]
         /\ hand' = [o \in Peers |-> CloseFrame]
Over == /\ pump' = "over" /\ Abort /\ wire' = [o \in Peers |-> <<>>]
        /\ UNCHANGED <<sent, peer, got, quiet>>
IdleTimeout == pump = "select" /\ quiet = IdleLimit /\ Over
FirstEnds ==
    /\ pump = "select" /\ \E o \in Peers : dir[o] = "done"
    /\ pump' = "grace"
    /\ UNCHANGED <<wire, sent, peer, got, dir, hand, quiet>>
SecondEnds == pump = "grace" /\ (\A o \in Peers : dir[o] = "done") /\ Over
GraceExpires == pump = "grace" /\ (\E o \in Peers : dir[o] # "done") /\ Over

PeerStep == \E o \in Peers : \/ PeerSends(o) \/ PeerCloses(o) \/ PeerVanishes(o)
                             \/ PeerStalls(o) \/ PeerResumes(o)
Task(o) == Recv(o) \/ RecvEnd(o) \/ Sent(o) \/ SendFails(o) \/ SendTimesOut(o)
Timers == IdleCheck \/ IdleTimeout \/ GraceExpires
Next == \/ PeerStep \/ \E o \in Peers : Task(o)
        \/ FirstEnds \/ SecondEnds \/ Timers
\* Tasks run, the pump wakes up, timers expire. The peers owe nothing.
Spec == /\ Init /\ [][Next]_vars
        /\ \A o \in Peers : WF_vars(Task(o))
        /\ WF_vars(FirstEnds) /\ WF_vars(SecondEnds) /\ WF_vars(Timers)

----------------------------------------------------------------------------
(***************************************************************************)
(* Properties.                                                             *)
(***************************************************************************)
Data(s) == SelectSeq(s, LAMBDA f : f # CloseFrame)
\* A close goes through: the other peer, if it still reads, has everything
\* that was sent, then the close, unless a failure or the watchdog intervened.
CloseArrives ==
    \A o \in Peers : LET t == Other(o) IN
        dir[o] = "done" /\ peer[o] = "closing" /\ got[t] # <<>> /\ Last(got[t]) = CloseFrame
          => Len(Data(got[t])) = sent[o]
\* Each peer receives a prefix of what the other sent, in order, and nothing
\* after a close, however sends, timeouts, closes and aborts interleave; a
\* close received from a peer that closed means nothing it sent was lost.
FramesInOrder ==
    /\ CloseArrives
    /\ \A t \in Peers :
        /\ \A i \in 1..Len(Data(got[t])) : Data(got[t])[i] = i
        /\ Len(Data(got[t])) <= sent[Other(t)]
        /\ \A i \in 1..Len(got[t]) : got[t][i] = CloseFrame => i = Len(got[t])

\* A pump does not outlive its peers: when one of them closes, vanishes, or
\* stops reading while the other sends, or when both fall silent, both
\* directions end; and a pump that is over has no task left.
PumpEnds ==
    /\ <>[](pump = "over")
    /\ [](pump = "over" => \A o \in Peers : dir[o] = "done")
=============================================================================
