------------------------------ MODULE Catalog -------------------------------
(***************************************************************************)
(* The catalog of specs: the specs table and its history, the YAML specs   *)
(* behind it, the cached list the admin pages read, and every request that *)
(* writes the table: the edit form, create, the two toggles, delete, the   *)
(* selective import, a group's rewrite, and the scaler's date stamp.       *)
(*                                                                         *)
(* Handlers read a row, decide, and write the whole row later; a write is  *)
(* a transaction that reads the row again and commits, unless the keys of  *)
(* specs and spec_versions refuse it.                                      *)
(***************************************************************************)
EXTENDS Naturals, FiniteSets

CONSTANTS
    Ids, Groups,
    EditorGroups,  \* the groups of the editor; the admin is unscoped
    Yaml,          \* specs of the configuration file: [SUBSET Ids -> Content]
    Boot,          \* tables to start from: [row, hist]
    FormGroups,    \* sets of groups the forms ask for
    Bodies,        \* what else a spec says
    Reqs,          \* requests that can be in flight at a time
    MaxRequests,   \* bound on requests
    ListFails      \* whether the query that lists the table may fail

VARIABLES
    row,      \* specs: [here, content, version, updated]
    hist,     \* spec_versions: <<version, content>> pairs by spec
    cache,    \* catalog_cache: [sig, specs, why]
    clock,    \* Utc::now()
    task,     \* what each request is about to do
    asked,    \* requests so far
    reborn    \* ghost: specs last deleted while a transaction that had read
              \* their row was still to commit

vars == <<row, hist, cache, clock, task, asked, reborn>>

Content == [groups : SUBSET Groups, active : BOOLEAN, featured : BOOLEAN,
            dated : BOOLEAN, body : Bodies]
Blank   == [groups |-> {}, active |-> TRUE, featured |-> FALSE, dated |-> TRUE,
            body |-> CHOOSE b \in Bodies : TRUE]
NoRow   == [here |-> FALSE, content |-> Blank, version |-> 0, updated |-> 0]
Row     == [here : BOOLEAN, content : Content, version : Nat, updated : Nat]
NoSig   == <<>>
Nobody  == "nobody"
Actors  == {"admin", "editor"}
\* raced: the row was written where the version token does not look;
\* shown: the spec an edit form was rendered from.
Idle    == [pc |-> "idle", id |-> CHOOSE i \in Ids : TRUE, who |-> Nobody,
            kind |-> "none", shown |-> Blank, token |-> 0, new |-> Blank,
            at |-> 0, seen |-> NoRow, raced |-> FALSE, sig |-> NoSig]

TypeOK ==
    /\ \A i \in Ids : /\ row[i].content \in Content
                      /\ row[i].version \in Nat
                      /\ ~row[i].here => row[i] = NoRow
    /\ clock \in Nat /\ asked \in 0..MaxRequests
    /\ cache.specs \in [DOMAIN cache.specs -> Content]
    /\ \A r \in Reqs : task[r].new \in Content /\ task[r].seen.content \in Content

----------------------------------------------------------------------------
(***************************************************************************)
(* The list, its fingerprint, and what an editor may touch.                *)
(***************************************************************************)
Stored == {i \in Ids : row[i].here}
ListAll == [i \in Stored |-> row[i].content]
\* effective_specs: the table, and the YAML specs it does not shadow.
Effective == [i \in Stored \cup DOMAIN Yaml |->
                 IF row[i].here THEN row[i].content ELSE Yaml[i]]
Latest == CHOOSE n \in {0} \cup {row[i].updated : i \in Stored} :
             \A i \in Stored : row[i].updated <= n
\* COUNT, SUM(version), MAX(updated_at); the sum as a number of pairs.
VersionsOf(t) == UNION {{i} \X (1..t[i].version) : i \in {j \in Ids : t[j].here}}
CatalogSignature_NoVersions == <<Cardinality(Stored), 0, Latest>>
CatalogSignature == <<Cardinality(Stored), Cardinality(VersionsOf(row)), Latest>>

\* The history h has every version of the row r, and r as it is.
Tells(h, r) == /\ {e[1] : e \in h} = 1..r.version /\ Cardinality(h) = r.version
               /\ r.here => <<r.version, r.content>> \in h

IsOpen(c) == c.groups = {}
MayTouchSpec(who, c) ==
    who # "editor" \/ IsOpen(c) \/ c.groups \cap EditorGroups # {}
MayAssign(who, gs) == who # "editor" \/ gs \subseteq EditorGroups
Merge(who, existing, requested) ==
    IF who = "editor" THEN (existing \ EditorGroups) \cup (requested \cap EditorGroups)
    ELSE requested

(* There are specs, and things to say of them; what is in the table at the  *)
(* start was written no later than the clock's first reading.               *)
ASSUME CatalogAssumption ==
    /\ Ids # {} /\ IsFiniteSet(Ids) /\ Bodies # {} /\ MaxRequests \in Nat
    /\ EditorGroups \subseteq Groups /\ FormGroups \subseteq SUBSET Groups
    /\ DOMAIN Yaml \subseteq Ids /\ Yaml \in [DOMAIN Yaml -> Content]
    /\ \A b \in Boot : /\ b.row \in [Ids -> Row]
                       /\ b.hist \in [Ids -> SUBSET (Nat \X Content)]
                       /\ \A i \in Ids : /\ IsFiniteSet(b.hist[i])
                                         /\ Tells(b.hist[i], b.row[i])
                                         /\ b.row[i].updated <= 1
                                         /\ b.row[i].here => b.row[i].version # 0
                                         /\ ~b.row[i].here => b.row[i] = NoRow

----------------------------------------------------------------------------
(***************************************************************************)
(* Requests and transactions.                                              *)
(***************************************************************************)
Arrives(r) == task[r].pc = "idle" /\ asked < MaxRequests /\ asked' = asked + 1
Ask(r, t) == Arrives(r) /\ task' = [task EXCEPT ![r] = t]
Then(r, t) == task' = [task EXCEPT ![r] = t] /\ UNCHANGED asked

\* A write of spec i ends request r. Others do not notice it when they stand
\* between the two queries behind a form, or past their version check.
Blind == {"form", "tx", "commit"}
Written(r, i, blind) ==
    /\ task' = [q \in Reqs |-> IF q = r THEN Idle
                               ELSE IF task[q].id = i /\ task[q].pc \in blind
                               THEN [task[q] EXCEPT !.raced = TRUE]
                               ELSE task[q]]
    /\ UNCHANGED asked

\* upsert_in_tx and set_state: the row is read first. The timestamp was taken
\* before the transaction began.
BeginTx(r, t) ==
    /\ clock' = clock + 1
    /\ task' = [task EXCEPT ![r] = [t EXCEPT !.pc = "tx", !.at = clock + 1]]
TxRead(r) ==
    /\ task[r].pc = "tx"
    /\ Then(r, [task[r] EXCEPT !.pc = "commit", !.seen = row[task[r].id]])
    /\ UNCHANGED <<row, hist, cache, clock, reborn>>

\* Keys: an insert needs the id to be free, an update writes one history row
\* that needs its version to be free and the spec to be there.
KeysAllow(i, seen) ==
    /\ seen.here = row[i].here
    /\ ~\E h \in hist[i] : h[1] = seen.version + 1
\* set_state leaves updated_at alone.
StateRow(i, seen, c) == [row[i] EXCEPT !.content = c, !.version = seen.version + 1]
UpsertRow(seen, c, at) ==
    [here |-> TRUE, content |-> c, version |-> seen.version + 1, updated |-> at]
Commit(r) ==
    LET t == task[r]
        i == t.id
        c == IF t.kind = "state" THEN [t.seen.content EXCEPT !.active = t.new.active]
             ELSE t.new
        new == IF t.kind = "state" THEN StateRow(i, t.seen, c)
               ELSE UpsertRow(t.seen, c, t.at) IN
    /\ t.pc = "commit"
    /\ t.kind = "state" => t.seen.here
    /\ t.kind = "create" => ~t.seen.here
    /\ t.seen.here => c # t.seen.content
    /\ KeysAllow(i, t.seen)
    /\ row' = [row EXCEPT ![i] = new]
    /\ hist' = [hist EXCEPT ![i] = @ \cup {<<new.version, c>>}]
    /\ Written(r, i, Blind)
    /\ cache' = [cache EXCEPT !.why =
          @ \cup {w \in {"late"} : t.kind # "state" /\ t.at < Latest}
            \cup {w \in {"back"} : t.seen.version < row[i].version}]
    /\ UNCHANGED <<clock, reborn>>
\* Unchanged, a key refuses, or the query fails.
Rollback(r) ==
    /\ task[r].pc \in {"tx", "commit"} /\ Then(r, Idle)
    /\ UNCHANGED <<row, hist, cache, clock, reborn>>

----------------------------------------------------------------------------
(***************************************************************************)
(* Handlers.                                                               *)
(***************************************************************************)
\* The edit form: the spec, then, in a second query, the version it will post
\* back as its token.
EditForm(r, who, i) ==
    /\ row[i].here /\ MayTouchSpec(who, row[i].content)
    /\ Ask(r, [Idle EXCEPT !.pc = "form", !.id = i, !.who = who, !.kind = "update",
                           !.shown = row[i].content])
    /\ UNCHANGED <<row, hist, cache, clock, reborn>>
FetchVersion(r) ==
    /\ task[r].pc = "form"
    /\ Then(r, [task[r] EXCEPT !.pc = "page", !.token = row[task[r].id].version])
    /\ UNCHANGED <<row, hist, cache, clock, reborn>>
\* update: the base again, the scope on it and on the result, then the token.
Update(r) ==
    LET t == task[r]
        base == row[t.id].content IN
    /\ t.pc = "page" /\ row[t.id].here
    /\ MayTouchSpec(t.who, base)
    /\ \E b \in Bodies, gs \in FormGroups :
         LET c == [t.shown EXCEPT !.body = b, !.dated = TRUE,
                                          !.groups = Merge(t.who, base.groups, gs)] IN
         /\ MayAssign(t.who, gs) /\ MayTouchSpec(t.who, c)
         /\ Then(r, [t EXCEPT !.pc = "base", !.new = c])
    /\ UNCHANGED <<row, hist, cache, clock, reborn>>
\* A token of 0: the version could not be read when the form was rendered.
TokenHolds_Unchecked(t) == TRUE
TokenHolds(t) == t.token \in {0, row[t.id].version} \/ ~row[t.id].here
CheckToken(r) ==
    /\ task[r].pc = "base" /\ TokenHolds(task[r])
    /\ BeginTx(r, task[r])
    /\ UNCHANGED <<row, hist, cache, asked, reborn>>
CloseForm(r) ==
    /\ \/ task[r].pc \in {"form", "page"}
       \/ task[r].pc = "base" /\ ~TokenHolds(task[r])
    /\ Then(r, Idle)
    /\ UNCHANGED <<row, hist, cache, clock, reborn>>

\* create: no row yet, and insert_new looks again inside its transaction.
Create(r, who, i) ==
    /\ ~row[i].here
    /\ Arrives(r)
    /\ \E b \in Bodies, gs \in FormGroups :
         LET c == [Blank EXCEPT !.body = b, !.groups = gs] IN
         /\ MayAssign(who, gs) /\ MayTouchSpec(who, c)
         /\ BeginTx(r, [Idle EXCEPT !.id = i, !.who = who, !.kind = "create",
                                    !.new = c])
    /\ UNCHANGED <<row, hist, cache, reborn>>

\* toggle_featured, and the scaler's set_updated_if_absent: read, change one
\* thing, write all of it. toggle_state: set_state writes only the state.
ToggleFeatured(r, who, i) ==
    LET c == row[i].content IN
    /\ row[i].here /\ MayTouchSpec(who, c)
    /\ Arrives(r)
    /\ BeginTx(r, [Idle EXCEPT !.id = i, !.who = who, !.kind = "featured",
                      !.new = [c EXCEPT !.featured = ~@]])
    /\ UNCHANGED <<row, hist, cache, reborn>>
ToggleState(r, who, i) ==
    LET c == row[i].content IN
    /\ row[i].here /\ MayTouchSpec(who, c)
    /\ Arrives(r)
    /\ BeginTx(r, [Idle EXCEPT !.id = i, !.who = who, !.kind = "state",
                      !.new = [c EXCEPT !.active = ~@]])
    /\ UNCHANGED <<row, hist, cache, reborn>>
SetUpdatedIfAbsent(r, i) ==
    LET c == row[i].content IN
    /\ row[i].here /\ ~c.dated
    /\ Arrives(r)
    /\ BeginTx(r, [Idle EXCEPT !.id = i, !.who = "system", !.kind = "date",
                      !.new = [c EXCEPT !.dated = TRUE]])
    /\ UNCHANGED <<row, hist, cache, reborn>>

\* delete: the scope on the row read, then one statement; the history goes
\* with the row. (stop_spec is in ReplicaPool.)
Delete(r, who, i) ==
    /\ row[i].here /\ MayTouchSpec(who, row[i].content)
    /\ Ask(r, [Idle EXCEPT !.pc = "delete", !.id = i, !.who = who])
    /\ UNCHANGED <<row, hist, cache, clock, reborn>>
DeleteOne(r) ==
    LET i == task[r].id IN
    /\ task[r].pc = "delete"
    /\ row' = [row EXCEPT ![i] = NoRow]
    /\ hist' = [hist EXCEPT ![i] = {}]
    /\ reborn' = {j \in reborn : j # i} \cup
          {j \in {i} : \E q \in Reqs : /\ task[q].pc = "commit" /\ task[q].id = i
                                      /\ task[q].seen.here}
    /\ Written(r, i, Blind \cup {"page", "base"})
    /\ UNCHANGED <<cache, clock>>

\* What the admin pages read when the cache is right, and what they get.
CachedSpecs == IF cache.sig = CatalogSignature THEN cache.specs ELSE Effective
\* prepare_scoped_import: an editor may only replace a spec of that list that
\* is in its scope, with groups of its own beside those the spec keeps.
PrepareScopedImport(who, i, specs, c) ==
    LET there == i \in DOMAIN specs
        imported == IF there THEN [c EXCEPT !.groups = Merge(who, specs[i].groups, @)]
                    ELSE c IN
    { p \in {imported} : /\ who = "editor" /\ row[i].here => there
                         /\ there => MayTouchSpec(who, specs[i])
                         /\ MayAssign(who, c.groups)
                         /\ MayTouchSpec(who, p) }
\* import_confirm of one spec of an uploaded file.
ImportConfirm(r, who, i) ==
    /\ Arrives(r)
    /\ \E b \in Bodies, gs \in FormGroups :
       \E c \in PrepareScopedImport(who, i, CachedSpecs,
                   [Blank EXCEPT !.body = b, !.dated = FALSE, !.groups = gs]) :
         BeginTx(r, [Idle EXCEPT !.id = i, !.who = who, !.kind = "import", !.new = c,
                        !.raced = /\ i \in DOMAIN CachedSpecs /\ row[i].here
                                  /\ CachedSpecs[i] # row[i].content])
    /\ UNCHANGED <<row, hist, cache, reborn>>

\* rename or delete of a group: each spec that has it is written back without
\* it; one that had no other group is open from then on.
RewriteGroup(r, i, old, new) ==
    LET c == row[i].content IN
    /\ row[i].here /\ old \in c.groups
    /\ Arrives(r)
    /\ BeginTx(r, [Idle EXCEPT !.id = i, !.who = "admin", !.kind = "group",
                      !.new = [c EXCEPT !.groups = (@ \ {old}) \cup new]])
    /\ UNCHANGED <<row, hist, cache, reborn>>

\* effective_specs_cached: the signature; on a mismatch the list, stored with
\* the signature read before it, the YAML list if the table's cannot be read.
ReadSignature(r) ==
    /\ cache.sig # CatalogSignature
    /\ Ask(r, [Idle EXCEPT !.pc = "list", !.sig = CatalogSignature])
    /\ UNCHANGED <<row, hist, cache, clock, reborn>>
\* why: the list failed; the table changed since the signature was read; or,
\* later, a write came with a timestamp or a version older than the newest.
FillCache(r) ==
    /\ task[r].pc = "list"
    /\ \/ cache' = [sig |-> task[r].sig, specs |-> Effective,
                    why |-> IF task[r].sig = CatalogSignature THEN {} ELSE {"raced"}]
       \/ ListFails /\ cache' = [sig |-> task[r].sig, specs |-> Yaml, why |-> {"list"}]
    /\ Then(r, Idle)
    /\ UNCHANGED <<row, hist, clock, reborn>>

Init ==
    /\ \E b \in Boot : row = b.row /\ hist = b.hist
    /\ reborn = {}
    /\ cache = [sig |-> NoSig, specs |-> <<>>, why |-> {}]
    /\ clock = 1 /\ asked = 0
    /\ task = [r \in Reqs |-> Idle]

Arrive(r) ==
    /\ task[r].pc = "idle" /\ asked < MaxRequests
    /\ \/ ReadSignature(r)
       \/ \E i \in Ids :
            \/ \E who \in Actors : \/ EditForm(r, who, i) \/ Create(r, who, i)
                                   \/ ToggleFeatured(r, who, i) \/ ToggleState(r, who, i)
                                   \/ Delete(r, who, i) \/ ImportConfirm(r, who, i)
            \/ SetUpdatedIfAbsent(r, i)
            \/ \E old \in Groups, new \in FormGroups : RewriteGroup(r, i, old, new)
Proceed(r) ==
    \/ FetchVersion(r) \/ Update(r) \/ CheckToken(r) \/ CloseForm(r)
    \/ TxRead(r) \/ Commit(r) \/ Rollback(r) \/ DeleteOne(r) \/ FillCache(r)
Next == \E r \in Reqs : Arrive(r) \/ Proceed(r)

Spec == Init /\ [][Next]_vars

----------------------------------------------------------------------------
(***************************************************************************)
(* Properties.                                                             *)
(***************************************************************************)
\* The history of a spec has one entry for every version up to the current
\* one, the last of them the spec as it is, although two transactions may read
\* the same version before either writes: the key of spec_versions turns one
\* of them away, and a spec deleted meanwhile takes its history along. Only a
\* spec deleted between the reading and the writing of a transaction may, when
\* it is created anew, go on from the version it had before.
HistoryMatches ==
    \A i \in Ids \ reborn : Tells(hist[i], row[i])

\* A cached list whose signature is the table's is the table's list, except in
\* the four ways named in why: the list had failed, the table changed between
\* the two queries that filled the cache, a write carried a timestamp older
\* than the newest row's, or a version older than that of the row it replaced.
CacheFresh ==
    /\ TypeOK
    /\ cache.sig = CatalogSignature /\ cache.why = {} => cache.specs = Effective

Saves(r, kinds) == /\ task[r].pc = "commit" /\ task[r].kind \in kinds
                   /\ row'[task[r].id] # row[task[r].id] /\ task'[r].pc = "idle"

\* A save of the edit form replaces what its form showed, nothing newer: the
\* version token notices every write, the archive toggle's and the scaler's
\* date stamp included, that does not fall between the form's two queries or
\* after the check, and is not a delete with a new spec of the same version.
\* And what an editor writes leaves a spec's groups outside its own alone, if
\* the row (for an import, the cached list) it decided on is what it replaces.
EditsNotLost ==
    [][\A r \in Reqs : LET i == task[r].id IN
         /\ Saves(r, {"update"}) => task[r].raced \/ row[i].content = task[r].shown
         /\ Saves(r, {"update", "featured", "state", "import"})
              /\ task[r].who = "editor" /\ row[i].here /\ ~task[r].raced
            => row'[i].content.groups \ EditorGroups
                 = row[i].content.groups \ EditorGroups]_vars
=============================================================================
