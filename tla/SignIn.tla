------------------------------- MODULE SignIn -------------------------------
(***************************************************************************)
(* What a store of sign-in sessions promises, whatever the number of nodes *)
(* and caches behind it (the contract of AdminSessionStore, with the       *)
(* staleness that admin_sessions_pg.rs allows itself): a session is        *)
(* honoured while it is live, for less than Grace after it was ended, and  *)
(* never at or past its expiry.  It may be refused at any time.  It does   *)
(* not promise that a logout ends the session: remove and revoke_by_actor  *)
(* return nothing, and a failed statement of theirs ends none.             *)
(***************************************************************************)
EXTENDS Naturals

CONSTANTS Sessions, Grace, Lifetime

VARIABLES
    phase,    \* session -> "none" "live" "ended"
    ended,    \* session -> time since it ended, up to Grace
    left,     \* session -> time until it expires
    honoured  \* the sessions of the last answer: one, or none

vars == <<phase, ended, left, honoured>>

Init ==
    /\ phase = [s \in Sessions |-> "none"]
    /\ ended = [s \in Sessions |-> 0]
    /\ left = [s \in Sessions |-> Lifetime]
    /\ honoured = {}

(* A login hands out a session, part of its life perhaps over; one that    *)
(* was revoked meanwhile, or never stored, is born ended.                  *)
Create(s) ==
    /\ phase[s] = "none"
    /\ \E p \in {"live", "ended"} : phase' = [phase EXCEPT ![s] = p]
    /\ \E l \in 0..Lifetime : left' = [left EXCEPT ![s] = l]
    /\ UNCHANGED <<ended, honoured>>

(* A logout, a revocation, an expiry found: any number of sessions end;    *)
(* none, if the statement failed.                                          *)
End ==
    /\ \E gone \in SUBSET {s \in Sessions : phase[s] = "live"} :
          phase' = [s \in Sessions |-> IF s \in gone THEN "ended" ELSE phase[s]]
    /\ UNCHANGED <<ended, left, honoured>>

Honour(s) ==
    /\ left[s] > 0
    /\ phase[s] = "live" \/ (phase[s] = "ended" /\ ended[s] < Grace)
    /\ honoured' = {s}
    /\ UNCHANGED <<phase, ended, left>>

Refuse ==
    /\ honoured' = {}
    /\ UNCHANGED <<phase, ended, left>>

Tick ==
    /\ ended' = [s \in Sessions |->
                    IF phase[s] = "ended" /\ ended[s] < Grace THEN ended[s] + 1 ELSE ended[s]]
    /\ left' = [s \in Sessions |->
                    IF phase[s] # "none" /\ left[s] > 0 THEN left[s] - 1 ELSE left[s]]
    /\ UNCHANGED <<phase, honoured>>

Next == End \/ Refuse \/ Tick \/ \E s \in Sessions : Create(s) \/ Honour(s)
Spec == Init /\ [][Next]_vars
=============================================================================
