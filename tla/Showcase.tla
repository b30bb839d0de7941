------------------------------- MODULE Showcase -------------------------------
(***************************************************************************)
(* First-install seeding of a database: the showcase cards and the built-  *)
(* in logos are written one by one by every process that opens a SQLite    *)
(* file whose marker is missing, and the marker is written last. Several   *)
(* processes (the server, a command line tool) may open one file; any of   *)
(* them may stop in the middle, and operators edit meanwhile. Cards and    *)
(* logos are seeded by the same steps, so one set of items stands for      *)
(* either.                                                                 *)
(***************************************************************************)
EXTENDS Naturals, FiniteSets

CONSTANTS
    Processes,   \* processes that open the database
    Items,       \* the showcase cards, or the built-in logos
    MaxEdits     \* bound on the operator's edits

VARIABLES
    item,       \* in the database: "absent", "seeded" or "own"
    marker,     \* config_meta: the seed marker
    proc,       \* each process: [pc, left, at]: where in the loop it is
    late,       \* ghost: the processes that found the marker when they opened
    ever,       \* ghost: the items that were in the database at some time
    edits

vars == <<item, marker, proc, late, ever, edits>>

Off == [pc |-> "off", left |-> {}, at |-> "none"]
Run(left) == IF left = {} THEN [pc |-> "mark", left |-> {}, at |-> "none"]
             ELSE [pc |-> "look", left |-> left, at |-> "none"]

Init ==
    /\ item \in [Items -> {"absent", "own"}]
    /\ marker = FALSE /\ proc = [p \in Processes |-> Off]
    /\ late = {} /\ ever = {i \in Items : item[i] # "absent"} /\ edits = 0

Becomes(p, r) == proc' = [proc EXCEPT ![p] = r]

Skips_Never == FALSE
Skips == marker
Open(p) ==
    /\ proc[p].pc = "off"
    /\ Becomes(p, IF Skips THEN [Off EXCEPT !.pc = "serving"] ELSE Run(Items))
    /\ late' = IF marker THEN late \cup {p} ELSE late \ {p}
    /\ UNCHANGED <<item, marker, ever, edits>>
\* An item that is there already, whoever wrote it, is left alone.
Look(p, i) ==
    /\ proc[p].pc = "look" /\ i \in proc[p].left
    /\ Becomes(p, IF item[i] # "absent" THEN Run(proc[p].left \ {i})
                  ELSE [pc |-> "write", left |-> proc[p].left, at |-> i])
    /\ UNCHANGED <<item, marker, late, ever, edits>>
Write(p) ==
    /\ proc[p].pc = "write"
    /\ item' = [item EXCEPT ![proc[p].at] = "seeded"]
    /\ ever' = ever \cup {proc[p].at}
    /\ Becomes(p, Run(proc[p].left \ {proc[p].at}))
    /\ UNCHANGED <<marker, late, edits>>
Mark(p) ==
    /\ proc[p].pc = "mark" /\ marker' = TRUE
    /\ Becomes(p, [Off EXCEPT !.pc = "serving"])
    /\ UNCHANGED <<item, late, ever, edits>>
\* A database error ends the seeding, not the process.
Fails(p) ==
    /\ proc[p].pc \in {"look", "write", "mark"}
    /\ Becomes(p, [Off EXCEPT !.pc = "serving"])
    /\ UNCHANGED <<item, marker, late, ever, edits>>
Stops(p) == /\ proc[p].pc # "off" /\ Becomes(p, Off)
            /\ UNCHANGED <<item, marker, late, ever, edits>>

Edit(i) ==
    /\ edits < MaxEdits /\ edits' = edits + 1
    /\ \E v \in {"absent", "own"} : item' = [item EXCEPT ![i] = v]
    /\ ever' = IF item'[i] = "own" THEN ever \cup {i} ELSE ever
    /\ UNCHANGED <<marker, proc, late>>

Next == \/ \E p \in Processes : \/ Open(p) \/ Write(p) \/ Mark(p) \/ Fails(p) \/ Stops(p)
                                \/ \E i \in Items : Look(p, i)
        \/ \E i \in Items : Edit(i)
Spec == Init /\ [][Next]_vars

-----------------------------------------------------------------------------
\* Seeding is complete, happens once and leaves the operator's own alone
\* (showcase.rs, "even if the operator deleted some"): a database is marked
\* only when every item has been in it; a process that opens a marked
\* database never adds one; and an item of the operator's is overwritten
\* only by a process that had already looked and found none.
SeededOnce ==
    /\ [](marker => ever = Items)
    /\ [][\A i \in Items : item[i] # "seeded" /\ item'[i] = "seeded" =>
            \E p \in Processes \ late : proc[p].pc = "write" /\ proc[p].at = i]_vars
=============================================================================
