----------------------------- MODULE LandingPage -----------------------------
(***************************************************************************)
(* The landing customisation: one row, edited as a whole from a form. An   *)
(* option that was never set has a default; the form shows the effective   *)
(* value and saves it as set. Resetting the appearance reads the row and   *)
(* writes it back with the looks cleared, in two steps.                    *)
(***************************************************************************)
EXTENDS Naturals, FiniteSets

CONSTANTS
    Admins,
    Texts,      \* texts an operator writes
    None,
    MaxEdits    \* bound on saves, resets and imports

VARIABLES
    row,        \* landing_customization
    form,       \* each admin's form as loaded or typed, or None
    fresh,      \* ghost: the row is as it was when the form was loaded
    resetting,  \* each admin's reset: the row it read, or None
    edits

vars == <<row, form, fresh, resetting, edits>>

Languages == {"pt", "en", "es", "fr"}
\* A YAML import may write a language, a slot, a theme or a size that the
\* form does not offer.
Imported == [title : {None}, intro : {{}, {"fr", "de"}}, search : {None, FALSE},
             logo : {None, "sidebar"}, theme : {None, "dark", "sepia"}, size : {None, 100}]
Default == [title |-> None, intro |-> {}, search |-> None, logo |-> None,
            theme |-> None, size |-> None]

\* What the landing page makes of the row.
Shown(r) == [title |-> r.title, intro |-> r.intro \cap Languages,
             search |-> r.search \in {None, TRUE},
             logo |-> IF r.logo = "sidebar" THEN None ELSE r.logo,
             theme |-> IF r.theme \in {"light", "dark"} THEN r.theme ELSE "auto",
             size |-> IF r.size # None /\ r.size \in 12..64 THEN r.size ELSE 28]

from_customization(r) ==
    [title |-> r.title, intro |-> r.intro \cap Languages, search |-> r.search \in {None, TRUE},
     logo |-> r.logo, theme |-> r.theme, size |-> IF r.size = None THEN 28 ELSE r.size]
into_customization(f) ==
    [title |-> f.title, intro |-> f.intro, search |-> f.search,
     logo |-> IF f.logo \in {None, "footer"} THEN f.logo ELSE "header",
     theme |-> IF f.theme \in {"light", "dark"} THEN f.theme ELSE None,
     size |-> f.size]

Init ==
    /\ row = Default /\ form = [a \in Admins |-> None] /\ fresh = {}
    /\ resetting = [a \in Admins |-> None] /\ edits = 0

Written(r) == /\ edits < MaxEdits /\ edits' = edits + 1 /\ row' = r
Load(a) ==
    /\ form' = [form EXCEPT ![a] = from_customization(row)]
    /\ fresh' = fresh \cup {a}
    /\ UNCHANGED <<row, resetting, edits>>
Type(a) ==
    /\ form[a] # None
    /\ \E t \in Texts \cup {None}, s \in BOOLEAN :
         form' = [form EXCEPT ![a].title = t, ![a].search = s]
    /\ fresh' = fresh \ {a}
    /\ UNCHANGED <<row, resetting, edits>>
\* The page comes back with the values saved.
Save(a) ==
    /\ form[a] # None /\ Written(into_customization(form[a]))
    /\ form' = [form EXCEPT ![a] = from_customization(into_customization(@))]
    /\ fresh' = {a}
    /\ UNCHANGED resetting
Import(r) == /\ Written(r) /\ fresh' = {} /\ UNCHANGED <<form, resetting>>

Cleared(r) == [r EXCEPT !.theme = None, !.size = None]
ResetRead(a) ==
    /\ resetting[a] = None /\ edits < MaxEdits
    /\ resetting' = [resetting EXCEPT ![a] = row]
    /\ UNCHANGED <<row, form, fresh, edits>>
ResetWrite(a) ==
    /\ resetting[a] # None /\ Written(Cleared(resetting[a]))
    /\ resetting' = [resetting EXCEPT ![a] = None]
    /\ form' = [form EXCEPT ![a] = from_customization(row')] /\ fresh' = {a}

Next == \/ \E a \in Admins : Load(a) \/ Type(a) \/ Save(a) \/ ResetRead(a) \/ ResetWrite(a)
        \/ \E r \in Imported : Import(r)
Spec == Init /\ [][Next]_vars

-----------------------------------------------------------------------------
\* Saving a form nobody touched changes nothing a visitor sees, whatever the
\* row came from (from_customization, into_customization), except that a
\* logo in an unknown slot, which rendered nowhere, moves to the header; and
\* a reset of the appearance keeps the content it read, so that it loses
\* only what was saved between its reading and its writing.
LookStable ==
    [][\A a \in Admins :
         /\ Save(a) /\ a \in fresh =>
              Shown(row') = [Shown(row) EXCEPT !.logo = IF row.logo = "sidebar" THEN "header" ELSE @]
         /\ ResetWrite(a) => /\ row'.title = resetting[a].title /\ row'.intro = resetting[a].intro
                             /\ row'.search = resetting[a].search /\ row'.logo = resetting[a].logo
                             /\ Shown(row').theme = "auto"]_vars
=============================================================================
