---------------------------- MODULE LandingBlocks ----------------------------
(***************************************************************************)
(* The order of the operator's blocks on the landing page. A block carries *)
(* a position within its slot; the page lists a slot by position, then by  *)
(* age. Inserts, slot changes and moves read positions and write them back *)
(* in one transaction; a reorder writes the order of a page that may be    *)
(* out of date; an import replaces everything. On SQLite a transaction     *)
(* whose reading was overtaken by another write fails; on Postgres (read   *)
(* committed) it goes through.                                             *)
(***************************************************************************)
EXTENDS Integers, FiniteSets

CONSTANTS
    Admins,
    NBlocks,    \* the blocks are numbered
    Slots,      \* SLOTS
    None,
    MaxOps      \* bound on the edits

VARIABLES
    store,      \* "sqlite" or "postgres"
    row,        \* landing_blocks: each block's [slot, pos, born], or None
    version,    \* ghost: the number of commits
    tx,         \* each admin's open transaction, or None
    copy,       \* an earlier listing of the slots, open in a browser or
                \* exported to a file, or None
    loose       \* ghost: the slots whose positions may repeat

vars == <<store, row, version, tx, copy, loose>>

Blocks == 1..NBlocks
In(r, s) == {b \in Blocks : r[b] # None /\ r[b].slot = s}
Positions(r, s) == {r[b].pos : b \in In(r, s)}
\* ORDER BY slot, position, created_at, within a slot.
Before(r, b, c) == \/ r[b].pos < r[c].pos
                   \/ r[b].pos = r[c].pos /\ r[b].born < r[c].born
Lists(q, r, s) == /\ DOMAIN q = 1..Cardinality(In(r, s))
                  /\ {q[i] : i \in DOMAIN q} = In(r, s)
                  /\ \A i, j \in DOMAIN q : i < j => ~Before(r, q[j], q[i])
Orders == UNION {[1..n -> Blocks] : n \in 0..Cardinality(Blocks)}
\* One order, unless two blocks share a position and an age.
Listings(r, s) == {q \in Orders : Lists(q, r, s)}

NextPos(s) == IF In(row, s) = {} THEN 0
              ELSE 1 + CHOOSE p \in Positions(row, s) : \A q \in Positions(row, s) : q <= p

Init ==
    /\ store \in {"sqlite", "postgres"}
    /\ \E s \in Slots, n \in 2..NBlocks :       \* some blocks, listed in one slot
         row = [b \in Blocks |-> IF b <= n THEN [slot |-> s, pos |-> b - 1, born |-> 0] ELSE None]
    /\ version = 1
    /\ tx = [a \in Admins |-> None]     /\ copy = None /\ loose = {}

Begun(a, t) == /\ version < MaxOps /\ tx[a] = None
               /\ tx' = [tx EXCEPT ![a] = t]
               /\ UNCHANGED <<store, row, version, copy, loose>>

BeginInsert(a, b, s) ==
    /\ row[b] = None /\ \A c \in Admins : tx[c] # None => tx[c].b # b
    /\ Begun(a, [op |-> "insert", b |-> b, slot |-> s, pos |-> NextPos(s), at |-> version])
\* A block that stays in its slot keeps the position read.
BeginUpdate(a, b, s) ==
    /\ row[b] # None
    /\ Begun(a, [op |-> "update", b |-> b, slot |-> s, at |-> version,
                 pos |-> IF row[b].slot = s THEN row[b].pos ELSE NextPos(s)])
Nearest_Farthest(b, up) ==
    LET side == {c \in In(row, row[b].slot) :
                    IF up THEN row[c].pos < row[b].pos ELSE row[c].pos > row[b].pos}
    IN {c \in side : \A d \in side : IF up THEN row[d].pos >= row[c].pos
                                     ELSE row[d].pos <= row[c].pos}
\* The nearest block above or below by position; none at the edge.
Nearest(b, up) ==
    LET side == {c \in In(row, row[b].slot) :
                    IF up THEN row[c].pos < row[b].pos ELSE row[c].pos > row[b].pos}
    IN {c \in side : \A d \in side : IF up THEN row[d].pos <= row[c].pos
                                     ELSE row[d].pos >= row[c].pos}
BeginMove(a, b, up) ==
    /\ row[b] # None
    /\ \E n \in Nearest(b, up) :
         Begun(a, [op |-> "move", b |-> b, n |-> n, up |-> up, slot |-> row[b].slot,
                   pos |-> row[b].pos, npos |-> row[n].pos, at |-> version])

Placed(t) ==
    CASE t.op = "insert" -> [row EXCEPT ![t.b] = [slot |-> t.slot, pos |-> t.pos, born |-> version]]
      [] t.op = "update" -> [b \in Blocks |->
             IF b = t.b /\ row[b] # None THEN [row[b] EXCEPT !.slot = t.slot, !.pos = t.pos]
             ELSE row[b]]
      [] t.op = "move" -> [b \in Blocks |->
             IF row[b] = None THEN None
             ELSE IF b = t.b THEN [row[b] EXCEPT !.pos = t.npos]
             ELSE IF b = t.n THEN [row[b] EXCEPT !.pos = t.pos] ELSE row[b]]
\* On Postgres a write based on an overtaken reading may repeat a position,
\* in the slot it was meant for or the one its blocks are in by now.
Commit(a) ==
    /\ tx[a] # None /\ tx' = [tx EXCEPT ![a] = None]
    /\ LET t == tx[a]  fresh == t.at = version IN
       IF fresh \/ store = "postgres"
       THEN /\ row' = Placed(t) /\ version' = version + 1
            /\ loose' = IF fresh THEN loose
                        ELSE loose \cup {t.slot} \cup {row[b].slot : b \in {c \in Blocks : row[c] # None}}
       ELSE UNCHANGED <<row, version, loose>>
    /\ UNCHANGED <<store, copy>>

Edits == version < MaxOps /\ version' = version + 1
Delete(b) ==
    /\ Edits /\ row[b] # None /\ row' = [row EXCEPT ![b] = None]
    /\ UNCHANGED <<store, tx, copy, loose>>
\* The page is opened, or the configuration exported.
Copied ==
    /\ copy' \in [Slots -> UNION {Listings(row, s) : s \in Slots}]
    /\ \A s \in Slots : copy'[s] \in Listings(row, s)
    /\ copy' # copy
    /\ UNCHANGED <<store, row, version, tx, loose>>
\* Drag and drop: 0, 1, ... in the order posted, which is an order of the
\* page's blocks; the ones that are no longer in the slot are passed over.
Kept(q, s) == {i \in DOMAIN q : q[i] \in In(row, s)}
Ranked(q, s) == [b \in Blocks |->
    IF \E i \in Kept(q, s) : q[i] = b
    THEN LET i == CHOOSE k \in Kept(q, s) : q[k] = b
         IN [row[b] EXCEPT !.pos = Cardinality({j \in Kept(q, s) : j < i})]
    ELSE row[b]]
Reorder(s) ==
    /\ Edits /\ copy # None
    /\ \E q \in Orders :
         /\ DOMAIN q = DOMAIN copy[s]
         /\ {q[i] : i \in DOMAIN q} = {copy[s][i] : i \in DOMAIN q}
         /\ row' = Ranked(q, s)
         /\ loose' = IF {q[i] : i \in Kept(q, s)} = In(row, s) THEN loose \ {s} ELSE loose \cup {s}
    /\ UNCHANGED <<store, tx, copy>>

\* An import clears the table and numbers each slot from 0 in the file's
\* order; a file without blocks leaves the table alone.
Import ==
    /\ Edits /\ copy # None /\ \E s \in Slots : copy[s] # <<>>
    /\ \A a \in Admins : tx[a] = None
    /\ row' = [b \in Blocks |->
          IF \E s \in Slots : \E i \in DOMAIN copy[s] : copy[s][i] = b
          THEN LET s == CHOOSE u \in Slots : \E i \in DOMAIN copy[u] : copy[u][i] = b
               IN [slot |-> s, pos |-> (CHOOSE i \in DOMAIN copy[s] : copy[s][i] = b) - 1,
                   born |-> version]
          ELSE None]
    /\ loose' = {}
    /\ UNCHANGED <<store, tx, copy>>

Next ==
    \/ \E a \in Admins, b \in Blocks, s \in Slots : BeginInsert(a, b, s) \/ BeginUpdate(a, b, s)
    \/ \E a \in Admins, b \in Blocks, up \in BOOLEAN : BeginMove(a, b, up)
    \/ \E a \in Admins : Commit(a)
    \/ \E b \in Blocks : Delete(b)
    \/ \E s \in Slots : Reorder(s)
    \/ Copied \/ Import
Spec == Init /\ [][Next]_vars

-----------------------------------------------------------------------------
Distinct(r, s) == \A b, c \in In(r, s) : b # c => r[b].pos # r[c].pos

\* The page shows the order the edits asked for (move_block, "one step
\* within its slot"): positions repeat only in a slot where a stale page or
\* an overtaken transaction wrote; where they do not, a move exchanges a
\* block with the one listed next to it and disturbs no other; and an import
\* restores the order that was exported.
OrderFollowsEdits ==
    /\ [](\A s \in Slots \ loose : Distinct(row, s))
    /\ [][/\ \A a \in Admins : LET t == tx[a] IN
               Commit(a) /\ t.op = "move" /\ t.at = version /\ t.slot \notin loose =>
                  \A b, c \in In(row, t.slot) :
                     b # c => (Before(row', b, c) <=> IF {b, c} = {t.b, t.n} THEN Before(row, c, b)
                                                      ELSE Before(row, b, c))
          /\ Import => \A s \in Slots : Listings(row', s) = {copy[s]}]_vars
=============================================================================
