----------------------------- MODULE MCIdentity -----------------------------
(***************************************************************************)
(* Values for the constants of Identity.                                   *)
(***************************************************************************)
EXTENDS Identity, TLC

CONSTANTS none, ann, bob, g1, h1, s0, s1, s2, r1, r2, b1, b2, n1, n2

(* Accounts. A fresh database; two admins; an admin with an editor that must *)
(* change its password; an editor with a member of its group who is in       *)
(* another group too. Somebody has signed in with the token, and the editor  *)
(* with its password.                                                        *)
Person(role, gs) == [here |-> TRUE, role |-> role, groups |-> gs, must |-> FALSE, pw |-> 1]
Nobody == [here |-> FALSE, role |-> "viewer", groups |-> {}, must |-> FALSE, pw |-> 0]
People == { (ann :> Nobody) @@ (bob :> Nobody),
            (ann :> Person("admin", {})) @@ (bob :> Person("admin", {})),
            (ann :> Person("admin", {})) @@ (bob :> [Person("editor", {g1}) EXCEPT !.must = TRUE]),
            (ann :> Person("viewer", {g1, h1})) @@ (bob :> Person("editor", {g1})) }
Unused == [st |-> "unused", actor |-> none, role |-> "viewer", pw |-> 0, excused |-> FALSE]
Token  == [Unused EXCEPT !.st = "live", !.role = "admin"]
Editor == [Unused EXCEPT !.st = "live", !.role = "editor", !.actor = bob, !.pw = 1]
SessionsOf(t) == (s0 :> Token) @@ (s1 :> IF t[bob].role = "editor" THEN Editor ELSE Unused)
                   @@ (s2 :> Unused)
SignedIn == { [row |-> t, sess |-> SessionsOf(t),
               gate |-> [s \in {s0, s1, s2} |->
                           IF SessionsOf(t)[s] = Unused THEN "none"
                           ELSE IF s = s1 /\ t[bob].must THEN "must" ELSE "free"]] : t \in People }

(* Second factor: nothing enrolled, or a factor confirmed earlier with its   *)
(* codes; the account is signed in twice from one browser, once from another.*)
Factor(st, secret, gen) == [st |-> st, secret |-> secret, gen |-> gen, last |-> 0,
                            epoch |-> 0, proven |-> secret]
NotEnrolled == [fac |-> ann :> Factor("none", 0, 0),
                codes |-> ann :> [gen |-> 0, used |-> {}], minted |-> 0]
Enrolled    == [fac |-> ann :> Factor("confirmed", 1, 2),
                codes |-> ann :> [gen |-> 2, used |-> {}], minted |-> 2]

-----------------------------------------------------------------------------
ThreeSids == {s0, s1, s2}
AnnOnly   == [s \in ThreeSids |-> ann]
Browser   == [s \in ThreeSids |-> IF s = s2 THEN b2 ELSE b1]
Forms     == {{}, {g1}}
AnyPeople == CHOOSE t \in People : TRUE
TwoBoots  == {NotEnrolled, Enrolled}

Symmetry == Permutations({r1, r2})
=============================================================================
