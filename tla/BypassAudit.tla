----------------------------- MODULE BypassAudit -----------------------------
(***************************************************************************)
(* The audit of break-glass requests that pass an app's second factor:     *)
(* one entry per (session, app) and cooldown, claimed before the insert    *)
(* and given back when the insert fails. One (session, app) pair.          *)
(***************************************************************************)
EXTENDS Naturals, FiniteSets

CONSTANTS
    Bypasses,    \* the requests that bypass, in no particular order
    Cooldown,    \* MFA_BREAK_GLASS_AUDIT_COOLDOWN, in ticks
    MaxTime      \* bound on the clock

VARIABLES
    now,
    entry,      \* MFA_BREAK_GLASS_AUDITS: when the pair was claimed, or Never
    bypass,     \* each request: [pc, at], "new", "writing", "skipped", "written",
                \* "failed", or "cut": its handler was dropped while it was writing
    ended       \* ghost: when a failed insert was reported

vars == <<now, entry, bypass, ended>>
Never == 0

Init == /\ now = 1 /\ entry = Never
        /\ bypass = [b \in Bypasses |-> [pc |-> "new", at |-> Never]]
        /\ ended = [b \in Bypasses |-> Never]

Tick == now < MaxTime /\ now' = now + 1 /\ UNCHANGED <<entry, bypass, ended>>

Claimed == entry # Never /\ now - entry < Cooldown
Become(b, pc) == bypass' = [bypass EXCEPT ![b] = [pc |-> pc, at |-> now]]
Skip(b) ==
    /\ bypass[b].pc = "new" /\ Claimed /\ Become(b, "skipped")
    /\ UNCHANGED <<now, entry, ended>>
Claim(b) ==
    /\ bypass[b].pc = "new" /\ ~Claimed /\ Become(b, "writing")
    /\ entry' = now
    /\ UNCHANGED <<now, ended>>
Written(b) ==
    /\ bypass[b].pc = "writing"
    /\ bypass' = [bypass EXCEPT ![b].pc = "written"]
    /\ UNCHANGED <<now, entry, ended>>
\* The client hangs up: the handler is dropped at the insert's await, and
\* nobody gives the claim back.
Cut(b) ==
    /\ bypass[b].pc = "writing"
    /\ bypass' = [bypass EXCEPT ![b].pc = "cut"]
    /\ UNCHANGED <<now, entry, ended>>
\* The claim is given back, whoever holds it by now.
Released == Never
WriteFails(b) ==
    /\ bypass[b].pc = "writing"
    /\ bypass' = [bypass EXCEPT ![b].pc = "failed"]
    /\ entry' = Released /\ ended' = [ended EXCEPT ![b] = now]
    /\ UNCHANGED now
\* Past the map's cap, claims whose cooldown is over are dropped.
Retain == /\ entry # Never /\ ~Claimed /\ entry' = Never
          /\ UNCHANGED <<now, bypass, ended>>

Next == Tick \/ Retain
        \/ \E b \in Bypasses : Skip(b) \/ Claim(b) \/ Written(b) \/ Cut(b) \/ WriteFails(b)
Spec == Init /\ [][Next]_vars

\* A bypass that writes no audit entry is silenced by another one within the
\* cooldown before it: one that was written, or was being written at that
\* moment and may still fail, or, the one that leaves a gap for the whole
\* cooldown, one whose handler was dropped as it wrote; a failure that was
\* reported silences nobody.
SilenceVouchedFor ==
    \A b \in Bypasses : bypass[b].pc = "skipped" =>
        \E a \in Bypasses :
            /\ bypass[a].at # Never /\ bypass[a].at <= bypass[b].at
            /\ bypass[b].at - bypass[a].at < Cooldown
            /\ \/ bypass[a].pc \in {"writing", "written", "cut"}
               \/ bypass[a].pc = "failed" /\ ended[a] >= bypass[b].at
=============================================================================
