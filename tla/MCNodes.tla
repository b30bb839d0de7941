------------------------------ MODULE MCNodes -------------------------------
(***************************************************************************)
(* Values for the constants of Nodes.                                      *)
(***************************************************************************)
EXTENDS Nodes, TLC

CONSTANTS r1, r2, s1, s2, q1, q2

(* Two hosts, the second with twice the room and twice the weight.           *)
HostCaps    == <<1, 2>>
HostWeights == <<1, 2>>
OneApp      == [r \in {r1, r2} |-> "app"]

Symmetry == Permutations({q1, q2}) \cup Permutations({s1, s2}) \cup Permutations({r1, r2})
=============================================================================
