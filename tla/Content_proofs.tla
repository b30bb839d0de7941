---------------------------- MODULE Content_proofs ---------------------------
(***************************************************************************)
(* What operators edit, proved for any specs, groups, blocks, images,      *)
(* names and samples, any number of requests, admins and processes, and    *)
(* any tables to start from. Six parts, each with its own invariant:       *)
(*                                                                         *)
(* - CatalogInv, the specs and their history. What a transaction has read  *)
(*   is the row it writes, unless it is marked as raced; a cached list     *)
(*   that counts as fresh was read from a table of which every row is      *)
(*   still as it was or was rewritten later than the newest of them.       *)
(* - MediaInv, the images. A rename holds, of each row it may rewrite,     *)
(*   what it read; a digest belongs to the file that has the name.         *)
(* - SeedInv, the samples. A seeder has seen what it passed.               *)
(* - LookInv, the landing page. A fresh form is what the row makes of it.  *)
(* - BlocksInv, the blocks. Positions of a slot differ, unless a           *)
(*   transaction that was overtaken or an incomplete order was written;    *)
(*   a transaction under way still holds what it read of its slot.         *)
(* - FormInv, the spec form. An untouched page shows the stored spec.      *)
(***************************************************************************)
EXTENDS Content, FiniteSetTheorems, WellFoundedInduction, TLAPS

-----------------------------------------------------------------------------
(* The catalog.                                                            *)

Pcs   == {"idle", "form", "page", "base", "tx", "commit", "delete", "list"}
Kinds == {"none", "update", "create", "featured", "state", "date", "import", "group"}
Sigs  == {NoSig} \cup (Nat \X Nat \X Nat)
Lists == UNION {[D -> Content] : D \in SUBSET Ids}
Task  == [pc : Pcs, id : Ids, who : Actors \cup {"system", Nobody}, kind : Kinds,
          shown : Content, token : Nat, new : Content, at : Nat, seen : Row,
          raced : BOOLEAN, sig : Sigs]
CatalogTypes ==
    /\ row \in [Ids -> Row] /\ hist \in [Ids -> SUBSET (Nat \X Content)]
    /\ cache \in [sig : Sigs, specs : Lists, why : SUBSET {"list", "raced", "late", "back"}]
    /\ clock \in Nat \ {0} /\ task \in [Reqs -> Task] /\ asked \in 0..MaxRequests
    /\ reborn \in SUBSET Ids

(* What the keys of the two tables keep, and, of a spec no transaction     *)
(* outlived the deletion of, that its history has no gap.                  *)
Versions(h) == {e[1] : e \in h}
Keyed(i) ==
    /\ IsFiniteSet(hist[i])
    /\ \A d, e \in hist[i] : d[1] = e[1] => d = e
    /\ ~row[i].here => row[i] = NoRow /\ hist[i] = {}
    /\ row[i].here => row[i].version # 0 /\ <<row[i].version, row[i].content>> \in hist[i]
    /\ i \notin reborn => Tells(hist[i], row[i])
Histories == \A i \in Ids : Keyed(i)

(* Timestamps on their way are newer than the rows', and differ.           *)
InTx(r) == task[r].pc \in {"tx", "commit"}
Stamps ==
    /\ \A i \in Ids : row[i].updated <= clock
    /\ \A r \in Reqs : InTx(r) =>
         /\ task[r].at \in 1..clock /\ \A i \in Ids : row[i].updated # task[r].at
         /\ \A q \in Reqs \ {r} : InTx(q) => task[q].at # task[r].at

(* The groups that are not the editor's.                                   *)
Foreign(c) == c.groups \ EditorGroups

(* What a request knows of its row. One that nothing disturbed writes what *)
(* it meant to write on the row it read.                                   *)
SeenRight(t) ==
    t.pc = "commit" =>
      /\ ~t.seen.here => t.seen = NoRow
      /\ t.seen.here => t.seen.version # 0
      /\ t.seen.here /\ t.id \notin reborn =>
           /\ row[t.id].here /\ t.seen.version <= row[t.id].version
           /\ t.seen.version = row[t.id].version => t.seen = row[t.id]
      /\ ~t.raced => t.seen = row[t.id]
FormRight(t) ==
    /\ t.pc = "form" /\ ~t.raced => row[t.id].here /\ row[t.id].content = t.shown
    /\ t.pc \in {"page", "base"} /\ ~t.raced =>
         row[t.id].here /\ t.token # 0 /\ <<t.token, t.shown>> \in hist[t.id]
    /\ t.pc = "base" /\ ~t.raced /\ t.who = "editor" /\ row[t.id].version = t.token =>
         Foreign(row[t.id].content) = Foreign(t.new)
WriteRight(t) ==
    t.pc \in {"tx", "commit"} /\ ~t.raced =>
      /\ t.kind = "update" => row[t.id].content = t.shown
      /\ t.who = "editor" /\ row[t.id].here /\ t.kind \in {"update", "featured", "state", "import"} =>
           Foreign(row[t.id].content) = Foreign(t.new)
TaskRight(t) == SeenRight(t) /\ FormRight(t) /\ WriteRight(t)
Tasks == \A r \in Reqs : TaskRight(task[r])

(* What became of the table f since the cache was filled from it: a row    *)
(* was kept, its version no older and the same only if the row is; or it   *)
(* was written, with another timestamp than f's newest, and with an older  *)
(* one only when the row with the newest was gone.                         *)
In(f) == {i \in Ids : f[i].here}
EffectiveOf(f) == [i \in In(f) \cup DOMAIN Yaml |-> IF f[i].here THEN f[i].content ELSE Yaml[i]]
Kept(f, i) == /\ f[i].here /\ f[i].version <= row[i].version
              /\ f[i].version = row[i].version => row[i] = f[i]
Rewritten(i, m) == /\ row[i].updated # m
                   /\ row[i].updated < m => \A j \in Ids : row[j].here => row[j].updated # m
Since(f, m) == \A i \in Ids : row[i].here => Kept(f, i) \/ Rewritten(i, m)
FilledFrom(f) ==
    /\ cache.sig[1] = Cardinality(In(f)) /\ cache.sig[2] = Cardinality(VersionsOf(f))
    /\ cache.specs = EffectiveOf(f)
    /\ Since(f, cache.sig[3])
Listed ==
    cache.why = {} /\ cache.sig # NoSig =>
      /\ cache.sig[3] <= clock
      /\ \A r \in Reqs : InTx(r) => task[r].at # cache.sig[3]
      /\ \E f \in [Ids -> Row] : FilledFrom(f)

CatalogInv == CatalogTypes /\ Histories /\ Stamps /\ Tasks /\ Listed

LEMMA BlankFacts == Blank \in Content /\ NoRow \in Row /\ Idle \in Task
<1>1. (CHOOSE x \in Bodies : TRUE) \in Bodies /\ (CHOOSE i \in Ids : TRUE) \in Ids
  BY CatalogAssumption
<1>2. Blank \in Content
  BY <1>1 DEF Blank, Content
<1>3. NoRow \in Row
  BY <1>2 DEF NoRow, Row
<1> QED
  BY <1>1, <1>2, <1>3 DEF Idle, Task, Pcs, Kinds, Sigs, Nobody

LEMMA CatalogPart == CatalogInv <=> CatalogTypes /\ Histories /\ Stamps /\ Tasks /\ Listed
  BY DEF CatalogInv

(* A request that goes on without touching the table.                      *)
LEMMA CatalogQuiet ==
    ASSUME CatalogInv, NEW r \in Reqs, NEW t \in Task, TaskRight(t),
           UNCHANGED <<row, hist, reborn, cache, clock>>, asked' \in 0..MaxRequests,
           task' = [task EXCEPT ![r] = t],
           t.pc \in {"tx", "commit"} => InTx(r) /\ t.at = task[r].at
    PROVE  CatalogInv'
<1>1. CatalogTypes'
  BY DEF CatalogInv, CatalogTypes
<1>2. Histories'
  BY DEF CatalogInv, Histories, Keyed
<1>3. \A q \in Reqs : InTx(q)' => InTx(q) /\ (task[q].at)' = task[q].at
  BY DEF InTx, CatalogInv, CatalogTypes
<1>4. Stamps'
  BY <1>3 DEF CatalogInv, Stamps
<1>5. Tasks'
  <2>1. \A q \in Reqs : task'[q] = IF q = r THEN t ELSE task[q]
    BY DEF CatalogInv, CatalogTypes
  <2>2. ASSUME NEW s, TaskRight(s) PROVE TaskRight(s)'
    BY <2>2 DEF TaskRight, SeenRight, FormRight, WriteRight, Foreign
  <2> QED
    BY <2>1, <2>2 DEF Tasks, CatalogInv
<1>6. Listed'
  <2>1. \A f, m : Since(f, m) => Since(f, m)'
    BY DEF Since, Kept, Rewritten
  <2>2. \A f : FilledFrom(f) => FilledFrom(f)'
    BY <2>1 DEF FilledFrom
  <2> QED
    BY <1>3, <2>2 DEF Listed, CatalogInv
<1> QED
  BY <1>1, <1>2, <1>4, <1>5, <1>6 DEF CatalogInv

(* A request that begins its transaction takes a timestamp of its own.     *)
LEMMA CatalogBegins ==
    ASSUME CatalogInv, NEW r \in Reqs, NEW t \in Task, TaskRight([t EXCEPT !.pc = "tx", !.at = clock + 1]),
           UNCHANGED <<row, hist, reborn, cache>>, asked' \in 0..MaxRequests,
           BeginTx(r, t)
    PROVE  CatalogInv'
<1> DEFINE u == [t EXCEPT !.pc = "tx", !.at = clock + 1]
<1>0. /\ clock' = clock + 1 /\ clock \in Nat \ {0} /\ u \in Task /\ u.at = clock + 1
      /\ task' = [task EXCEPT ![r] = u] /\ task \in [Reqs -> Task]
  <2>1. clock + 1 \in Nat /\ clock \in Nat \ {0} /\ task \in [Reqs -> Task]
    BY DEF CatalogInv, CatalogTypes
  <2>2. u \in Task /\ u.at = clock + 1
    <3> HIDE DEF Kinds, Content, Row, Sigs, Actors, Nobody
    <3> QED
      BY <2>1 DEF Task, Pcs
  <2> QED
    BY <2>1, <2>2 DEF BeginTx
<1> HIDE DEF u
<1>1. CatalogTypes'
  BY <1>0 DEF CatalogInv, CatalogTypes
<1>2. Histories'
  BY DEF CatalogInv, Histories, Keyed
<1>3. \A q \in Reqs : task'[q] = IF q = r THEN u ELSE task[q]
  BY <1>0
<1>4. \A q \in Reqs \ {r} : InTx(q)' => InTx(q) /\ task[q].at \in 1..clock
  BY <1>3 DEF InTx, Stamps, CatalogInv
<1>5. Stamps'
  <2>1. \A i \in Ids : row[i].updated <= clock /\ row[i].updated \in Nat
    BY DEF Stamps, CatalogInv, CatalogTypes, Row
  <2>2. \A i \in Ids : row'[i].updated <= clock' /\ row'[i].updated # clock + 1
    BY <1>0, <2>1
  <2>3. ASSUME NEW q \in Reqs, InTx(q)'
        PROVE  /\ task'[q].at \in 1..clock' /\ \A i \in Ids : row'[i].updated # task'[q].at
               /\ \A p \in Reqs \ {q} : InTx(p)' => task'[p].at # task'[q].at
    <3>1. CASE q = r
      <4>1. \A p \in Reqs \ {r} : InTx(p)' => task'[p].at # clock + 1
        BY <1>0, <1>3, <1>4
      <4> QED
        BY <1>0, <1>3, <2>2, <3>1, <4>1
    <3>2. CASE q # r
      <4>1. InTx(q) /\ task'[q] = task[q] /\ task[q].at \in 1..clock
        BY <1>3, <1>4, <2>3, <3>2
      <4>2. \A p \in Reqs \ {q} : InTx(p)' => task'[p].at # task'[q].at
        <5>1. ASSUME NEW p \in Reqs \ {q}, p # r, InTx(p)' PROVE task'[p].at # task'[q].at
          BY <1>3, <1>4, <4>1, <5>1 DEF Stamps, CatalogInv
        <5>2. task'[r].at # task'[q].at
          BY <1>0, <1>3, <4>1
        <5> QED
          BY <5>1, <5>2
      <4>3. task'[q].at \in 1..clock'
        BY <1>0, <4>1
      <4>4. \A i \in Ids : row'[i].updated # task'[q].at
        BY <4>1 DEF Stamps, CatalogInv
      <4> QED
        BY <4>2, <4>3, <4>4
    <3> QED
      BY <3>1, <3>2
  <2> QED
    BY <2>2, <2>3 DEF Stamps
<1>6. Tasks'
  <2>1. ASSUME NEW s, TaskRight(s) PROVE TaskRight(s)'
    BY <2>1 DEF TaskRight, SeenRight, FormRight, WriteRight, Foreign
  <2>2. TaskRight(u)
    BY DEF u
  <2> QED
    BY <1>3, <2>1, <2>2 DEF Tasks, CatalogInv
<1>7. Listed'
  <2>1. \A f, m : Since(f, m) => Since(f, m)'
    BY DEF Since, Kept, Rewritten
  <2>2. \A f : FilledFrom(f) => FilledFrom(f)'
    BY <2>1 DEF FilledFrom
  <2>3. SUFFICES ASSUME cache.why = {}, cache.sig # NoSig
                 PROVE  /\ cache.sig[3] <= clock'
                        /\ \A q \in Reqs : InTx(q)' => task'[q].at # cache.sig[3]
    BY <2>2 DEF Listed, CatalogInv
  <2>4. cache.sig[3] <= clock /\ cache.sig[3] \in Nat
    BY <2>3 DEF Listed, CatalogInv, CatalogTypes, Sigs
  <2>5. \A q \in Reqs \ {r} : InTx(q)' => task'[q].at # cache.sig[3]
    BY <1>3, <1>4, <2>3 DEF Listed, CatalogInv
  <2> QED
    BY <1>0, <1>3, <2>4, <2>5
<1> QED
  BY <1>1, <1>2, <1>5, <1>6, <1>7 DEF CatalogInv

LEMMA TaskTyped == ASSUME CatalogInv, NEW r \in Reqs PROVE task[r] \in Task /\ TaskRight(task[r])
  BY DEF CatalogInv, CatalogTypes, Tasks

LEMMA RowTyped ==
    ASSUME CatalogInv, NEW i \in Ids
    PROVE  row[i] \in Row /\ row[i].content \in Content /\ row[i].version \in Nat /\ Keyed(i)
  BY DEF CatalogInv, CatalogTypes, Histories, Row

LEMMA Merged ==
    ASSUME NEW actor, NEW e \in SUBSET Groups, NEW q \in SUBSET Groups
    PROVE  /\ Merge(actor, e, q) \in SUBSET Groups
           /\ actor = "editor" => Merge(actor, e, q) \ EditorGroups = e \ EditorGroups
  BY CatalogAssumption DEF Merge

LEMMA IdleRight == TaskRight(Idle)
  BY DEF TaskRight, SeenRight, FormRight, WriteRight, Idle

LEMMA CatalogArrives ==
    ASSUME CatalogInv, NEW r \in Reqs, NEW t \in Task, TaskRight(t), t.pc \notin {"tx", "commit"},
           Ask(r, t), UNCHANGED <<row, hist, cache, clock, reborn>>
    PROVE  CatalogInv'
<1>1. asked' \in 0..MaxRequests
  BY CatalogAssumption DEF Ask, Arrives, CatalogInv, CatalogTypes
<1> QED
  BY <1>1, CatalogQuiet DEF Ask

LEMMA CatalogEditForm ==
    ASSUME CatalogInv, NEW r \in Reqs, NEW actor \in Actors, NEW i \in Ids, EditForm(r, actor, i)
    PROVE  CatalogInv'
<1> DEFINE t == [Idle EXCEPT !.pc = "form", !.id = i, !.who = actor, !.kind = "update",
                             !.shown = row[i].content]
<1>1. row[i].content \in Content /\ row[i].here
  BY RowTyped DEF EditForm
<1>2. t \in Task
  BY <1>1, BlankFacts DEF Task, Pcs, Kinds
<1>3. TaskRight(t)
  BY <1>1, BlankFacts DEF TaskRight, SeenRight, FormRight, WriteRight, Task
<1>4. t.pc = "form"
  BY BlankFacts DEF Task
<1>5. Ask(r, t) /\ UNCHANGED <<row, hist, cache, clock, reborn>>
  BY DEF EditForm
<1> HIDE DEF t
<1> QED
  BY <1>2, <1>3, <1>4, <1>5, CatalogArrives

LEMMA CatalogDelete ==
    ASSUME CatalogInv, NEW r \in Reqs, NEW actor \in Actors, NEW i \in Ids, Delete(r, actor, i)
    PROVE  CatalogInv'
<1> DEFINE t == [Idle EXCEPT !.pc = "delete", !.id = i, !.who = actor]
<1>1. t \in Task /\ t.pc = "delete"
  BY BlankFacts DEF Task, Pcs, Kinds
<1>2. TaskRight(t)
  BY <1>1 DEF TaskRight, SeenRight, FormRight, WriteRight
<1>3. Ask(r, t) /\ UNCHANGED <<row, hist, cache, clock, reborn>>
  BY DEF Delete
<1> HIDE DEF t
<1> QED
  BY <1>1, <1>2, <1>3, CatalogArrives

LEMMA CatalogFetchVersion ==
    ASSUME CatalogInv, NEW r \in Reqs, FetchVersion(r) PROVE CatalogInv'
<1> DEFINE t == [task[r] EXCEPT !.pc = "page", !.token = row[task[r].id].version]
<1>1. task[r] \in Task /\ TaskRight(task[r]) /\ task[r].id \in Ids /\ task[r].pc = "form"
  BY TaskTyped DEF Task, FetchVersion
<1>2. row[task[r].id].version \in Nat /\ Keyed(task[r].id)
  BY <1>1, RowTyped
<1>3. t \in Task /\ t.pc = "page" /\ t.id = task[r].id /\ t.token = row[t.id].version
      /\ t.shown = task[r].shown /\ t.raced = task[r].raced
  BY <1>1, <1>2 DEF Task, Pcs
<1>4. TaskRight(t)
  <2> HIDE DEF t
  <2> QED
    BY <1>1, <1>2, <1>3 DEF TaskRight, SeenRight, FormRight, WriteRight, Keyed
<1>5. task' = [task EXCEPT ![r] = t] /\ asked' = asked /\ UNCHANGED <<row, hist, cache, clock, reborn>>
  BY DEF FetchVersion, Then
<1>6. asked' \in 0..MaxRequests
  BY <1>5 DEF CatalogInv, CatalogTypes
<1> HIDE DEF t
<1> QED
  BY <1>3, <1>4, <1>5, <1>6, CatalogQuiet

LEMMA CatalogUpdate == ASSUME CatalogInv, NEW r \in Reqs, Update(r) PROVE CatalogInv'
<1> DEFINE u == task[r]
           base == row[u.id].content
<1>1. u \in Task /\ TaskRight(u) /\ u.id \in Ids /\ u.pc = "page" /\ u.shown \in Content
  BY TaskTyped DEF Task, Update
<1>2. PICK b \in Bodies, gs \in FormGroups :
        Then(r, [u EXCEPT !.pc = "base",
                          !.new = [u.shown EXCEPT !.body = b, !.dated = TRUE,
                                                  !.groups = Merge(u.who, base.groups, gs)]])
  BY DEF Update
<1> DEFINE c == [u.shown EXCEPT !.body = b, !.dated = TRUE, !.groups = Merge(u.who, base.groups, gs)]
           t == [u EXCEPT !.pc = "base", !.new = c]
<1>3. gs \in SUBSET Groups /\ base \in Content /\ base.groups \in SUBSET Groups
  BY <1>1, RowTyped, CatalogAssumption DEF Content
<1>4. /\ Merge(u.who, base.groups, gs) \in SUBSET Groups
      /\ u.who = "editor" => Merge(u.who, base.groups, gs) \ EditorGroups = base.groups \ EditorGroups
  BY <1>3, Merged
<1>5. c \in Content /\ c.groups = Merge(u.who, base.groups, gs)
  BY <1>1, <1>4 DEF Content
<1> HIDE DEF c
<1>6. /\ t \in Task /\ t.pc = "base" /\ t.id = u.id /\ t.token = u.token /\ t.shown = u.shown
      /\ t.raced = u.raced /\ t.who = u.who /\ t.new = c
  BY <1>1, <1>5 DEF Task, Pcs
<1>7. task' = [task EXCEPT ![r] = t] /\ asked' = asked /\ UNCHANGED <<row, hist, cache, clock, reborn>>
  BY <1>2 DEF Then, Update, c
<1>8. TaskRight(t)
  <2> HIDE DEF t
  <2> QED
    BY <1>1, <1>4, <1>5, <1>6 DEF TaskRight, SeenRight, FormRight, WriteRight, Foreign
<1>9. asked' \in 0..MaxRequests
  BY <1>7 DEF CatalogInv, CatalogTypes
<1> HIDE DEF t
<1> QED
  BY <1>6, <1>7, <1>8, <1>9, CatalogQuiet

LEMMA CatalogIdles ==
    ASSUME CatalogInv, NEW r \in Reqs, Then(r, Idle), UNCHANGED <<row, hist, cache, clock, reborn>>
    PROVE  CatalogInv'
<1>1. asked' \in 0..MaxRequests /\ task' = [task EXCEPT ![r] = Idle] /\ Idle.pc \notin {"tx", "commit"}
  BY DEF CatalogInv, CatalogTypes, Then, Idle
<1> QED
  BY <1>1, BlankFacts, IdleRight, CatalogQuiet

LEMMA CatalogTxRead == ASSUME CatalogInv, NEW r \in Reqs, TxRead(r) PROVE CatalogInv'
<1> DEFINE u == task[r]
           t == [u EXCEPT !.pc = "commit", !.seen = row[u.id]]
<1>1. u \in Task /\ TaskRight(u) /\ u.id \in Ids /\ u.pc = "tx"
  BY TaskTyped DEF Task, TxRead
<1>2. row[u.id] \in Row /\ Keyed(u.id) /\ row[u.id].version \in Nat
  BY <1>1, RowTyped
<1>3. /\ t \in Task /\ t.pc = "commit" /\ t.id = u.id /\ t.shown = u.shown /\ t.raced = u.raced
      /\ t.who = u.who /\ t.new = u.new /\ t.seen = row[u.id] /\ t.kind = u.kind /\ t.at = u.at
  BY <1>1, <1>2 DEF Task, Pcs
<1>4. task' = [task EXCEPT ![r] = t] /\ asked' = asked /\ UNCHANGED <<row, hist, cache, clock, reborn>>
  BY DEF Then, TxRead
<1>5. InTx(r)
  BY <1>1 DEF InTx
<1> HIDE DEF t
<1>6. TaskRight(t)
  BY <1>1, <1>2, <1>3 DEF TaskRight, SeenRight, FormRight, WriteRight, Keyed
<1>7. asked' \in 0..MaxRequests
  BY <1>4 DEF CatalogInv, CatalogTypes
<1> QED
  BY <1>3, <1>4, <1>5, <1>6, <1>7, CatalogQuiet

LEMMA CatalogCheckToken == ASSUME CatalogInv, NEW r \in Reqs, CheckToken(r) PROVE CatalogInv'
<1> DEFINE u == task[r]
           t == [u EXCEPT !.pc = "tx", !.at = clock + 1]
<1>1. u \in Task /\ TaskRight(u) /\ u.id \in Ids /\ u.pc = "base" /\ TokenHolds(u)
  BY TaskTyped DEF Task, CheckToken
<1>2. row[u.id] \in Row /\ Keyed(u.id)
  BY <1>1, RowTyped
<1>3. /\ t.pc = "tx" /\ t.id = u.id /\ t.shown = u.shown /\ t.raced = u.raced
      /\ t.who = u.who /\ t.new = u.new
  BY <1>1 DEF Task
<1> HIDE DEF t
<1>4. u.raced => TaskRight(t)
  BY <1>3 DEF TaskRight, SeenRight, FormRight, WriteRight
<1>5. ASSUME ~u.raced PROVE TaskRight(t)
  <2>1. row[u.id].here /\ row[u.id].version = u.token /\ <<u.token, u.shown>> \in hist[u.id]
    BY <1>1, <1>5 DEF TaskRight, FormRight, TokenHolds
  <2>2. <<row[u.id].version, row[u.id].content>> \in hist[u.id]
    BY <1>2, <2>1 DEF Keyed
  <2>3. row[u.id].content = u.shown
    <3>1. <<row[u.id].version, row[u.id].content>> = <<u.token, u.shown>>
      BY <1>2, <2>1, <2>2 DEF Keyed
    <3> QED
      BY <3>1
  <2>4. u.who = "editor" => Foreign(row[u.id].content) = Foreign(u.new)
    BY <1>1, <1>5, <2>1 DEF TaskRight, FormRight
  <2>5. TaskRight(t)
    BY <1>3, <2>3, <2>4 DEF TaskRight, SeenRight, FormRight, WriteRight
  <2> QED
    BY <2>5
<1>6. TaskRight(t) /\ UNCHANGED <<row, hist, cache, asked, reborn>> /\ BeginTx(r, u)
  <2>1. TaskRight(t)
    BY <1>4, <1>5
  <2> QED
    BY <2>1 DEF CheckToken
<1>7. asked' \in 0..MaxRequests
  BY <1>6 DEF CatalogInv, CatalogTypes
<1> QED
  BY <1>1, <1>6, <1>7, CatalogBegins DEF t

(* The handlers that read a row and begin their transaction at once.       *)
LEMMA CatalogAsksToWrite ==
    ASSUME CatalogInv, NEW r \in Reqs, NEW t \in Task, TaskRight([t EXCEPT !.pc = "tx", !.at = clock + 1]),
           Arrives(r), BeginTx(r, t), UNCHANGED <<row, hist, cache, reborn>>
    PROVE  CatalogInv'
<1>1. asked' \in 0..MaxRequests
  BY CatalogAssumption DEF Arrives, CatalogInv, CatalogTypes
<1> QED
  BY <1>1, CatalogBegins

(* What such a handler has in hand is right if an editor's new content is, *)
(* outside its groups, that of the row.                                    *)
LEMMA WritesRight ==
    ASSUME NEW t \in Task, t.kind # "update", t.pc = "idle",
           t.who = "editor" /\ row[t.id].here /\ ~t.raced
             /\ t.kind \in {"featured", "state", "import"} =>
               Foreign(row[t.id].content) = Foreign(t.new)
    PROVE  TaskRight([t EXCEPT !.pc = "tx", !.at = clock + 1])
  BY DEF TaskRight, SeenRight, FormRight, WriteRight, Task

LEMMA CatalogCreate ==
    ASSUME CatalogInv, NEW r \in Reqs, NEW actor \in Actors, NEW i \in Ids, Create(r, actor, i)
    PROVE  CatalogInv'
<1>1. PICK b \in Bodies, gs \in FormGroups :
        BeginTx(r, [Idle EXCEPT !.id = i, !.who = actor, !.kind = "create",
                                !.new = [Blank EXCEPT !.body = b, !.groups = gs]])
  BY DEF Create
<1> DEFINE c == [Blank EXCEPT !.body = b, !.groups = gs]
           t == [Idle EXCEPT !.id = i, !.who = actor, !.kind = "create", !.new = c]
<1>2. c \in Content
  BY BlankFacts, CatalogAssumption DEF Content
<1> HIDE DEF c
<1>3. t \in Task /\ t.kind = "create" /\ t.pc = "idle"
  BY <1>2, BlankFacts DEF Task, Kinds, Idle
<1>4. BeginTx(r, t)
  BY <1>1 DEF c
<1> HIDE DEF t
<1>5. TaskRight([t EXCEPT !.pc = "tx", !.at = clock + 1])
  BY <1>3, WritesRight
<1> QED
  BY <1>3, <1>4, <1>5, CatalogAsksToWrite DEF Create

LEMMA CatalogToggleFeatured ==
    ASSUME CatalogInv, NEW r \in Reqs, NEW actor \in Actors, NEW i \in Ids, ToggleFeatured(r, actor, i)
    PROVE  CatalogInv'
<1> DEFINE c == [row[i].content EXCEPT !.featured = ~@]
           t == [Idle EXCEPT !.id = i, !.who = actor, !.kind = "featured", !.new = c]
<1>2. c \in Content /\ c.groups = row[i].content.groups
  BY RowTyped DEF Content
<1>4. BeginTx(r, t)
  BY DEF ToggleFeatured
<1> HIDE DEF c
<1>3. t \in Task /\ t.kind = "featured" /\ t.pc = "idle" /\ t.id = i /\ t.new = c
  BY <1>2, BlankFacts DEF Task, Kinds, Idle
<1> HIDE DEF t
<1>5. TaskRight([t EXCEPT !.pc = "tx", !.at = clock + 1])
  BY <1>2, <1>3, WritesRight DEF Foreign
<1> QED
  BY <1>3, <1>4, <1>5, CatalogAsksToWrite DEF ToggleFeatured

LEMMA CatalogToggleState ==
    ASSUME CatalogInv, NEW r \in Reqs, NEW actor \in Actors, NEW i \in Ids, ToggleState(r, actor, i)
    PROVE  CatalogInv'
<1> DEFINE c == [row[i].content EXCEPT !.active = ~@]
           t == [Idle EXCEPT !.id = i, !.who = actor, !.kind = "state", !.new = c]
<1>2. c \in Content /\ c.groups = row[i].content.groups
  BY RowTyped DEF Content
<1>4. BeginTx(r, t)
  BY DEF ToggleState
<1> HIDE DEF c
<1>3. t \in Task /\ t.kind = "state" /\ t.pc = "idle" /\ t.id = i /\ t.new = c
  BY <1>2, BlankFacts DEF Task, Kinds, Idle
<1> HIDE DEF t
<1>5. TaskRight([t EXCEPT !.pc = "tx", !.at = clock + 1])
  BY <1>2, <1>3, WritesRight DEF Foreign
<1> QED
  BY <1>3, <1>4, <1>5, CatalogAsksToWrite DEF ToggleState

LEMMA CatalogSetUpdated ==
    ASSUME CatalogInv, NEW r \in Reqs, NEW i \in Ids, SetUpdatedIfAbsent(r, i)
    PROVE  CatalogInv'
<1> DEFINE c == [row[i].content EXCEPT !.dated = TRUE]
           t == [Idle EXCEPT !.id = i, !.who = "system", !.kind = "date", !.new = c]
<1>2. c \in Content
  BY RowTyped DEF Content
<1>4. BeginTx(r, t)
  BY DEF SetUpdatedIfAbsent
<1> HIDE DEF c
<1>3. t \in Task /\ t.kind = "date" /\ t.pc = "idle"
  BY <1>2, BlankFacts DEF Task, Kinds, Idle
<1> HIDE DEF t
<1>5. TaskRight([t EXCEPT !.pc = "tx", !.at = clock + 1])
  BY <1>3, WritesRight
<1> QED
  BY <1>3, <1>4, <1>5, CatalogAsksToWrite DEF SetUpdatedIfAbsent

LEMMA CatalogRewriteGroup ==
    ASSUME CatalogInv, NEW r \in Reqs, NEW i \in Ids, NEW old \in Groups, NEW new \in FormGroups,
           RewriteGroup(r, i, old, new)
    PROVE  CatalogInv'
<1> DEFINE c == [row[i].content EXCEPT !.groups = (@ \ {old}) \cup new]
           t == [Idle EXCEPT !.id = i, !.who = "admin", !.kind = "group", !.new = c]
<1>1. new \in SUBSET Groups /\ row[i].content \in Content
  BY RowTyped, CatalogAssumption
<1>2. c \in Content
  BY <1>1 DEF Content
<1>4. BeginTx(r, t)
  BY DEF RewriteGroup
<1> HIDE DEF c
<1>3. t \in Task /\ t.kind = "group" /\ t.pc = "idle"
  BY <1>2, BlankFacts DEF Task, Kinds, Idle, Actors
<1> HIDE DEF t
<1>5. TaskRight([t EXCEPT !.pc = "tx", !.at = clock + 1])
  BY <1>3, WritesRight
<1> QED
  BY <1>3, <1>4, <1>5, CatalogAsksToWrite DEF RewriteGroup

(* Every list, cached or not, is one of specs.                             *)
LEMMA EffectiveTyped == ASSUME CatalogInv PROVE Effective \in Lists /\ Yaml \in Lists
<1>1. Stored \cup DOMAIN Yaml \in SUBSET Ids
  BY CatalogAssumption DEF Stored
<1>2. Effective \in [Stored \cup DOMAIN Yaml -> Content]
  <2>1. ASSUME NEW i \in Stored \cup DOMAIN Yaml
        PROVE  (IF row[i].here THEN row[i].content ELSE Yaml[i]) \in Content
    <3>1. i \in Ids
      BY <1>1
    <3>2. row[i].content \in Content
      BY <3>1, RowTyped
    <3>3. ~row[i].here => i \in DOMAIN Yaml
      BY DEF Stored
    <3> QED
      BY <3>2, <3>3, CatalogAssumption
  <2> QED
    BY <2>1 DEF Effective
<1> QED
  BY <1>1, <1>2, CatalogAssumption DEF Lists

LEMMA CatalogImport ==
    ASSUME CatalogInv, NEW r \in Reqs, NEW actor \in Actors, NEW i \in Ids, ImportConfirm(r, actor, i)
    PROVE  CatalogInv'
<1> DEFINE list == CachedSpecs
           disturbed == /\ i \in DOMAIN list /\ row[i].here
                        /\ list[i] # row[i].content
<1>1. PICK b \in Bodies, gs \in FormGroups :
      \E c \in PrepareScopedImport(actor, i, list,
                   [Blank EXCEPT !.body = b, !.dated = FALSE, !.groups = gs]) :
         BeginTx(r, [Idle EXCEPT !.id = i, !.who = actor, !.kind = "import", !.new = c,
                        !.raced = disturbed])
  BY DEF ImportConfirm
<1> DEFINE read == [Blank EXCEPT !.body = b, !.dated = FALSE, !.groups = gs]
<1>2. PICK c \in PrepareScopedImport(actor, i, list, read) :
         BeginTx(r, [Idle EXCEPT !.id = i, !.who = actor, !.kind = "import", !.new = c,
                        !.raced = disturbed])
  BY <1>1
<1>3. read \in Content /\ read.groups \in SUBSET Groups
  BY BlankFacts, CatalogAssumption DEF Content
<1>4. list \in Lists
  BY EffectiveTyped DEF CachedSpecs, CatalogInv, CatalogTypes
<1>5. i \in DOMAIN list => list[i] \in Content
  BY <1>4 DEF Lists
<1>6. disturbed \in BOOLEAN
  OBVIOUS
<1> HIDE DEF read, list
<1>7. /\ c \in Content
      /\ actor = "editor" /\ row[i].here => i \in DOMAIN list /\ Foreign(c) = Foreign(list[i])
  <2>1. CASE i \in DOMAIN list
    <3>1. c = [read EXCEPT !.groups = Merge(actor, list[i].groups, @)]
      BY <2>1 DEF PrepareScopedImport
    <3>2. list[i].groups \in SUBSET Groups
      BY <1>5, <2>1 DEF Content
    <3>3. /\ Merge(actor, list[i].groups, read.groups) \in SUBSET Groups
          /\ actor = "editor" => Merge(actor, list[i].groups, read.groups) \ EditorGroups
                                 = list[i].groups \ EditorGroups
      BY <1>3, <3>2, Merged
    <3>4. c \in Content /\ c.groups = Merge(actor, list[i].groups, read.groups)
      BY <1>3, <3>1, <3>3 DEF Content
    <3> QED
      BY <2>1, <3>3, <3>4 DEF Foreign
  <2>2. CASE i \notin DOMAIN list
    <3>1. c = read /\ ~(actor = "editor" /\ row[i].here)
      BY <2>2 DEF PrepareScopedImport
    <3> QED
      BY <1>3, <3>1
  <2> QED
    BY <2>1, <2>2
<1> DEFINE d == disturbed
<1>8. ~d /\ i \in DOMAIN list /\ row[i].here => list[i] = row[i].content
  OBVIOUS
<1> HIDE DEF d
<1> DEFINE t == [Idle EXCEPT !.id = i, !.who = actor, !.kind = "import", !.new = c, !.raced = d]
<1>9. t \in Task /\ t.kind = "import" /\ t.pc = "idle" /\ t.id = i /\ t.who = actor /\ t.new = c /\ t.raced = d
  BY <1>6, <1>7, BlankFacts DEF Task, Kinds, Idle, d
<1>10. BeginTx(r, t)
  BY <1>2 DEF d
<1> HIDE DEF t
<1>11. TaskRight([t EXCEPT !.pc = "tx", !.at = clock + 1])
  BY <1>7, <1>8, <1>9, WritesRight DEF Foreign
<1> QED
  BY <1>9, <1>10, <1>11, CatalogAsksToWrite DEF ImportConfirm

(* A set of natural numbers has a least one.                               *)
LEMMA LeastNumber ==
    ASSUME NEW T \in SUBSET Nat, T # {}
    PROVE  \E x \in T : \A y \in T : x <= y
<1>1. PICK x \in T : \A y \in T : ~(<<y, x>> \in OpToRel(<, Nat))
  BY NatLessThanWellFounded, WFMin
<1>2. \A y \in T : ~(y < x)
  BY <1>1 DEF OpToRel
<1> QED
  BY <1>2

(* The three numbers of a signature.                                       *)
LEMMA InFinite == ASSUME NEW f PROVE IsFiniteSet(In(f)) /\ Cardinality(In(f)) \in Nat
<1>1. In(f) \in SUBSET Ids
  BY DEF In
<1> QED
  BY <1>1, CatalogAssumption, FS_Subset, FS_CardinalityType

LEMMA VersionsFinite ==
    ASSUME NEW f \in [Ids -> Row]
    PROVE  IsFiniteSet(VersionsOf(f)) /\ Cardinality(VersionsOf(f)) \in Nat
<1> DEFINE pairs == [i \in In(f) |-> {i} \X (1..f[i].version)]
           T == {{i} \X (1..f[i].version) : i \in In(f)}
<1>1. pairs \in Surjection(In(f), T)
  BY DEF Surjection
<1>2. IsFiniteSet(T)
  BY <1>1, InFinite, FS_Surjection
<1>3. ASSUME NEW i \in In(f) PROVE IsFiniteSet({i} \X (1..f[i].version))
  <2>1. f[i].version \in Int
    BY DEF In, Row
  <2>2. IsFiniteSet({i}) /\ IsFiniteSet(1..f[i].version)
    <3>1. IsFiniteSet(1..f[i].version)
      BY <2>1, FS_Interval
    <3> QED
      BY <3>1, FS_Singleton
  <2> QED
    BY <2>2, FS_Product
<1>4. \A A \in T : IsFiniteSet(A)
  BY <1>3
<1>5. VersionsOf(f) = UNION T
  BY DEF VersionsOf, In
<1>6. IsFiniteSet(VersionsOf(f))
  BY <1>2, <1>4, <1>5, FS_UNION
<1> QED
  BY <1>6, FS_CardinalityType

LEMMA LatestIs ==
    ASSUME CatalogInv
    PROVE  /\ Latest \in Nat /\ Latest <= clock
           /\ Latest = 0 \/ \E i \in Ids : row[i].here /\ Latest = row[i].updated
           /\ \A i \in Ids : row[i].here => row[i].updated <= Latest
<1> DEFINE T == {n \in Nat : \A i \in Stored : row[i].updated <= n}
           U == {0} \cup {row[i].updated : i \in Stored}
<1>1. \A i \in Stored : i \in Ids /\ row[i].here /\ row[i].updated \in Nat /\ row[i].updated <= clock
  BY DEF CatalogInv, CatalogTypes, Row, Stamps, Stored
<1>2. clock \in T
  BY <1>1 DEF CatalogInv, CatalogTypes
<1>3. PICK n \in T : \A y \in T : n <= y
  BY <1>2, LeastNumber
<1>4. n \in U
  <2>1. SUFFICES ASSUME n # 0, n \notin U PROVE FALSE
    OBVIOUS
  <2>2. n - 1 \in Nat
    BY <2>1, <1>3
  <2>3. \A i \in Stored : row[i].updated <= n - 1
    <3>1. ASSUME NEW i \in Stored PROVE row[i].updated <= n - 1
      <4>1. row[i].updated \in Nat /\ row[i].updated <= n /\ row[i].updated # n
        BY <2>1, <1>1, <1>3
      <4> QED
        BY <4>1, <1>3
    <3> QED
      BY <3>1
  <2>4. n <= n - 1
    BY <1>3, <2>2, <2>3
  <2> QED
    BY <1>3, <2>4
<1>5. n \in U /\ \A i \in Stored : row[i].updated <= n
  BY <1>3, <1>4
<1>6. Latest \in U /\ \A i \in Stored : row[i].updated <= Latest
  BY <1>5 DEF Latest
<1>7. Latest <= clock
  BY <1>1, <1>6 DEF CatalogInv, CatalogTypes
<1> QED
  BY <1>1, <1>6, <1>7 DEF Stored

LEMMA SignatureIs ==
    ASSUME CatalogInv
    PROVE  /\ CatalogSignature \in Sigs /\ CatalogSignature # NoSig
           /\ CatalogSignature[1] = Cardinality(In(row))
           /\ CatalogSignature[2] = Cardinality(VersionsOf(row))
           /\ CatalogSignature[3] = Latest
           /\ Stored = In(row) /\ Effective = EffectiveOf(row)
<1>1. row \in [Ids -> Row]
  BY DEF CatalogInv, CatalogTypes
<1>2. Stored = In(row)
  BY DEF Stored, In
<1>3. Cardinality(Stored) \in Nat /\ Cardinality(VersionsOf(row)) \in Nat /\ Latest \in Nat
  BY <1>1, <1>2, InFinite, VersionsFinite, LatestIs
<1>4. CatalogSignature \in Nat \X Nat \X Nat
  BY <1>3 DEF CatalogSignature
<1>5. CatalogSignature # NoSig
  BY DEF CatalogSignature, NoSig
<1>6. /\ CatalogSignature[1] = Cardinality(Stored)
      /\ CatalogSignature[2] = Cardinality(VersionsOf(row))
      /\ CatalogSignature[3] = Latest
  BY DEF CatalogSignature
<1> QED
  BY <1>2, <1>4, <1>5, <1>6 DEF Sigs, Effective, EffectiveOf

LEMMA CatalogReadSignature ==
    ASSUME CatalogInv, NEW r \in Reqs, ReadSignature(r) PROVE CatalogInv'
<1> DEFINE t == [Idle EXCEPT !.pc = "list", !.sig = CatalogSignature]
<1>1. t \in Task /\ t.pc = "list"
  BY BlankFacts, SignatureIs DEF Task, Pcs
<1>2. TaskRight(t)
  BY <1>1 DEF TaskRight, SeenRight, FormRight, WriteRight
<1>3. Ask(r, t) /\ UNCHANGED <<row, hist, cache, clock, reborn>>
  BY DEF ReadSignature
<1> HIDE DEF t
<1> QED
  BY <1>1, <1>2, <1>3, CatalogArrives

LEMMA CatalogFillCache ==
    ASSUME CatalogInv, NEW r \in Reqs, FillCache(r) PROVE CatalogInv'
<1>0. /\ task' = [task EXCEPT ![r] = Idle] /\ UNCHANGED <<row, hist, clock, reborn, asked>>
      /\ task[r] \in Task /\ task \in [Reqs -> Task] /\ task[r].sig \in Sigs
  BY TaskTyped DEF FillCache, Then, CatalogInv, CatalogTypes, Task
<1>1. \/ cache' = [sig |-> task[r].sig, specs |-> Effective,
                   why |-> IF task[r].sig = CatalogSignature THEN {} ELSE {"raced"}]
      \/ cache' = [sig |-> task[r].sig, specs |-> Yaml, why |-> {"list"}]
  BY DEF FillCache
<1>2. CatalogTypes'
  <2>1. cache' \in [sig : Sigs, specs : Lists, why : SUBSET {"list", "raced", "late", "back"}]
    BY <1>0, <1>1, EffectiveTyped
  <2> QED
    BY <1>0, <2>1, BlankFacts DEF CatalogInv, CatalogTypes
<1>3. Histories'
  BY <1>0 DEF CatalogInv, Histories, Keyed
<1>4. \A q \in Reqs : InTx(q)' => InTx(q) /\ task'[q] = task[q]
  BY <1>0 DEF InTx, Idle
<1>5. Stamps'
  BY <1>0, <1>4 DEF CatalogInv, Stamps
<1>6. Tasks'
  <2>1. \A q \in Reqs : task'[q] = IF q = r THEN Idle ELSE task[q]
    BY <1>0
  <2>2. ASSUME NEW s, TaskRight(s) PROVE TaskRight(s)'
    BY <1>0, <2>2 DEF TaskRight, SeenRight, FormRight, WriteRight, Foreign
  <2> QED
    BY <2>1, <2>2, IdleRight DEF Tasks, CatalogInv
<1>7. Listed'
  <2>1. SUFFICES ASSUME cache'.why = {}
                 PROVE  /\ cache'.sig[3] <= clock'
                        /\ \A q \in Reqs : InTx(q)' => task'[q].at # cache'.sig[3]
                        /\ \E f \in [Ids -> Row] : FilledFrom(f)'
    BY DEF Listed
  <2>2. cache'.sig = CatalogSignature /\ cache'.specs = Effective
    BY <1>1, <2>1
  <2>3. /\ cache'.sig[1] = Cardinality(In(row)) /\ cache'.sig[2] = Cardinality(VersionsOf(row))
        /\ cache'.sig[3] = Latest /\ cache'.specs = EffectiveOf(row)
    BY <2>2, SignatureIs
  <2>4. ASSUME NEW q \in Reqs, InTx(q)' PROVE task'[q].at # Latest
    BY <1>4, <2>4, LatestIs DEF CatalogInv, Stamps
  <2>5. PICK f \in [Ids -> Row] : f = row
    BY DEF CatalogInv, CatalogTypes
  <2>6. ASSUME NEW n PROVE Since(f, n)'
    <3>1. \A i \in Ids : f[i].version <= row'[i].version /\ row'[i] = f[i]
      BY <1>0, <2>5 DEF Row
    <3> QED
      BY <3>1 DEF Since, Kept
  <2>7. FilledFrom(f)'
    BY <2>3, <2>5, <2>6 DEF FilledFrom
  <2> QED
    BY <1>0, <2>3, <2>4, <2>7, LatestIs
<1> QED
  BY <1>2, <1>3, <1>5, <1>6, <1>7 DEF CatalogInv

(* One version more.                                                       *)
LEMMA TellsNext ==
    ASSUME NEW h \in SUBSET (Nat \X Content), IsFiniteSet(h), NEW old \in Row, Tells(h, old),
           NEW new \in Row, new.version = old.version + 1, \A e \in h : e[1] # new.version
    PROVE  Tells(h \cup {<<new.version, new.content>>}, new)
<1> DEFINE e == <<new.version, new.content>>
           g == h \cup {e}
<1>1. old.version \in Nat
  BY DEF Row
<1>2. e \notin h /\ e[1] = new.version
  BY <1>1
<1>3. Cardinality(g) = Cardinality(h) + 1
  BY <1>2, FS_AddElement
<1>4. {d[1] : d \in g} = {d[1] : d \in h} \cup {new.version}
  BY <1>2
<1>5. (1..old.version) \cup {new.version} = 1..new.version
  BY <1>1
<1> QED
  BY <1>1, <1>3, <1>4, <1>5 DEF Tells

(* What a transaction that commits writes: a version no history of the     *)
(* spec has yet, the next one unless the spec was deleted on the way.      *)
CommitOf(r) ==
    LET t == task[r] IN
    IF t.kind = "state" THEN [t.seen.content EXCEPT !.active = t.new.active] ELSE t.new
RowOf(r) ==
    LET t == task[r] IN
    IF t.kind = "state" THEN StateRow(t.id, t.seen, CommitOf(r)) ELSE UpsertRow(t.seen, CommitOf(r), t.at)

LEMMA CommitFacts ==
    ASSUME CatalogInv, NEW r \in Reqs, Commit(r), NEW t, t = task[r], NEW new, new = RowOf(r)
    PROVE  /\ t \in Task /\ TaskRight(t) /\ t.pc = "commit" /\ t.id \in Ids
           /\ new \in Row /\ new.here /\ new.version = t.seen.version + 1
           /\ new.content = CommitOf(r)
           /\ new.updated = IF t.kind = "state" THEN row[t.id].updated ELSE t.at
           /\ t.kind = "state" => row[t.id].here
           /\ t.seen.here = row[t.id].here
           /\ \A e \in hist[t.id] : e[1] # new.version
           /\ t.id \notin reborn => t.seen = row[t.id]
           /\ row' = [row EXCEPT ![t.id] = new]
           /\ hist' = [hist EXCEPT ![t.id] = @ \cup {<<new.version, new.content>>}]
           /\ task' = [q \in Reqs |-> IF q = r THEN Idle
                                      ELSE IF task[q].id = t.id /\ task[q].pc \in Blind
                                      THEN [task[q] EXCEPT !.raced = TRUE] ELSE task[q]]
           /\ cache' = [cache EXCEPT !.why =
                 @ \cup {w \in {"late"} : t.kind # "state" /\ t.at < Latest}
                   \cup {w \in {"back"} : t.seen.version < row[t.id].version}]
           /\ UNCHANGED <<clock, reborn, asked>>
<1> DEFINE c == CommitOf(r)
           i == t.id
<1>1. t \in Task /\ TaskRight(t) /\ t.pc = "commit" /\ i \in Ids /\ t.seen \in Row /\ t.at \in Nat
      /\ t.new \in Content /\ t.seen.content \in Content /\ t.seen.version \in Nat
  BY TaskTyped DEF Task, Row, Commit
<1>2. row[i] \in Row /\ Keyed(i) /\ row \in [Ids -> Row] /\ hist[i] \in SUBSET (Nat \X Content)
  BY <1>1, RowTyped DEF CatalogInv, CatalogTypes
<1>3. c \in Content
  BY <1>1 DEF CommitOf, Content
<1>4. /\ t.kind = "state" => t.seen.here
      /\ KeysAllow(i, t.seen)
      /\ row' = [row EXCEPT ![i] = new]
      /\ hist' = [hist EXCEPT ![i] = @ \cup {<<new.version, c>>}]
      /\ Written(r, i, Blind)
      /\ cache' = [cache EXCEPT !.why =
          @ \cup {w \in {"late"} : t.kind # "state" /\ t.at < Latest}
            \cup {w \in {"back"} : t.seen.version < row[i].version}]
      /\ UNCHANGED <<clock, reborn>>
  BY DEF Commit, CommitOf, RowOf
<1>5. /\ t.seen.here = row[i].here
      /\ \A e \in hist[i] : e[1] # t.seen.version + 1
  BY <1>4 DEF KeysAllow
<1> HIDE DEF c
<1>6. /\ new \in Row /\ new.here /\ new.version = t.seen.version + 1 /\ new.content = c
      /\ new.updated = IF t.kind = "state" THEN row[i].updated ELSE t.at
  <2>1. CASE t.kind = "state"
    <3>1. new = [row[i] EXCEPT !.content = c, !.version = t.seen.version + 1]
      BY <2>1 DEF RowOf, StateRow, c
    <3>2. row[i].here
      BY <1>4, <1>5, <2>1
    <3>3. row[i] \in Row /\ t.seen.version + 1 \in Nat
      BY <1>1, <1>2
    <3> HIDE DEF i
    <3> QED
      BY <1>3, <2>1, <3>1, <3>2, <3>3 DEF Row
  <2>2. CASE t.kind # "state"
    <3>1. new = [here |-> TRUE, content |-> c, version |-> t.seen.version + 1, updated |-> t.at]
      BY <2>2 DEF RowOf, UpsertRow, c
    <3> QED
      BY <1>1, <1>3, <2>2, <3>1 DEF Row
  <2> QED
    BY <2>1, <2>2
<1>7. ASSUME i \notin reborn PROVE t.seen = row[i]
  <2>1. CASE ~t.seen.here
    BY <1>1, <1>2, <1>5, <2>1 DEF TaskRight, SeenRight, Keyed
  <2>2. CASE t.seen.here
    <3>1. /\ t.seen.version # 0 /\ t.seen.version <= row[i].version
          /\ t.seen.version = row[i].version => t.seen = row[i]
      BY <1>1, <1>7, <2>2 DEF TaskRight, SeenRight
    <3>2. Versions(hist[i]) = 1..row[i].version /\ row[i].version \in Nat
      BY <1>2, <1>7 DEF Keyed, Tells, Versions, Row
    <3>3. t.seen.version + 1 \notin 1..row[i].version
      BY <1>5, <3>2 DEF Versions
    <3> QED
      BY <1>1, <3>1, <3>2, <3>3
  <2> QED
    BY <2>1, <2>2
<1>8. c = CommitOf(r)
  BY DEF c
<1> QED
  BY <1>1, <1>4, <1>5, <1>6, <1>7, <1>8 DEF Written

LEMMA CommitHistories == ASSUME CatalogInv, NEW r \in Reqs, Commit(r) PROVE Histories'
<1>0. PICK t, new : t = task[r] /\ new = RowOf(r)
  OBVIOUS
<1>1. /\ t.id \in Ids /\ new \in Row /\ new.here /\ new.version = t.seen.version + 1
      /\ \A e \in hist[t.id] : e[1] # new.version
      /\ t.id \notin reborn => t.seen = row[t.id]
      /\ row' = [row EXCEPT ![t.id] = new]
      /\ hist' = [hist EXCEPT ![t.id] = @ \cup {<<new.version, new.content>>}]
      /\ reborn' = reborn /\ t.seen.version \in Nat
  BY <1>0, CommitFacts DEF Task, Row
<1>2. row \in [Ids -> Row] /\ hist \in [Ids -> SUBSET (Nat \X Content)] /\ Keyed(t.id)
  BY <1>1, RowTyped DEF CatalogInv, CatalogTypes
<1>3. ASSUME NEW j \in Ids, j # t.id PROVE Keyed(j)'
  <2>1. row'[j] = row[j] /\ hist'[j] = hist[j] /\ Keyed(j)
    BY <1>1, <1>2, <1>3, RowTyped
  <2> QED
    BY <1>1, <2>1 DEF Keyed
<1>4. Keyed(t.id)'
  <2> DEFINE i == t.id
             e == <<new.version, new.content>>
  <2>1. row'[i] = new /\ hist'[i] = hist[i] \cup {e} /\ e[1] = new.version
    BY <1>1, <1>2
  <2> HIDE DEF e
  <2>2. IsFiniteSet(hist[i]) /\ \A a, b \in hist[i] : a[1] = b[1] => a = b
    BY <1>2 DEF Keyed
  <2>3. IsFiniteSet(hist'[i])
    BY <2>1, <2>2, FS_AddElement
  <2>4. \A a, b \in hist'[i] : a[1] = b[1] => a = b
    BY <1>1, <2>1, <2>2
  <2>5. ASSUME i \notin reborn PROVE Tells(hist'[i], row'[i])
    <3>1. Tells(hist[i], row[i]) /\ new.version = row[i].version + 1
      BY <1>1, <1>2, <2>5 DEF Keyed
    <3>2. hist[i] \in SUBSET (Nat \X Content) /\ row[i] \in Row
      BY <1>1, <1>2
    <3> QED
      BY <1>1, <2>1, <2>2, <3>1, <3>2, TellsNext DEF e
  <2>6. new.version # 0
    BY <1>1
  <2>7. <<row'[i].version, row'[i].content>> \in hist'[i]
    BY <2>1 DEF e
  <2> QED
    BY <1>1, <2>1, <2>3, <2>4, <2>5, <2>6, <2>7 DEF Keyed
<1> QED
  BY <1>3, <1>4 DEF Histories

LEMMA CommitOthers ==
    ASSUME CatalogInv, NEW r \in Reqs, Commit(r)
    PROVE  /\ \A q \in Reqs : /\ task'[q] \in Task
                              /\ q # r => task'[q].pc = task[q].pc /\ task'[q].at = task[q].at
           /\ task'[r] = Idle
           /\ \A q \in Reqs : InTx(q)' => InTx(q) /\ q # r /\ task'[q].at = task[q].at
<1>1. task' = [q \in Reqs |-> IF q = r THEN Idle
                              ELSE IF task[q].id = task[r].id /\ task[q].pc \in Blind
                              THEN [task[q] EXCEPT !.raced = TRUE] ELSE task[q]]
  BY CommitFacts
<1>2. \A q \in Reqs : task[q] \in Task /\ [task[q] EXCEPT !.raced = TRUE] \in Task
        /\ [task[q] EXCEPT !.raced = TRUE].pc = task[q].pc
        /\ [task[q] EXCEPT !.raced = TRUE].at = task[q].at
  BY TaskTyped DEF Task
<1>3. \A q \in Reqs : /\ task'[q] \in Task
                      /\ q # r => task'[q].pc = task[q].pc /\ task'[q].at = task[q].at
  BY <1>1, <1>2, BlankFacts
<1>4. task'[r] = Idle /\ Idle.pc = "idle"
  BY <1>1 DEF Idle
<1> QED
  BY <1>3, <1>4 DEF InTx

LEMMA CommitTypes == ASSUME CatalogInv, NEW r \in Reqs, Commit(r) PROVE CatalogTypes'
<1>0. PICK t, new : t = task[r] /\ new = RowOf(r)
  OBVIOUS
<1>1. /\ t.id \in Ids /\ new \in Row
      /\ row' = [row EXCEPT ![t.id] = new]
      /\ hist' = [hist EXCEPT ![t.id] = @ \cup {<<new.version, new.content>>}]
      /\ UNCHANGED <<clock, reborn, asked>>
  BY <1>0, CommitFacts
<1>2. new.version \in Nat /\ new.content \in Content
  BY <1>1 DEF Row
<1>3. row' \in [Ids -> Row] /\ hist' \in [Ids -> SUBSET (Nat \X Content)]
  BY <1>1, <1>2 DEF CatalogInv, CatalogTypes
<1>4. cache' \in [sig : Sigs, specs : Lists, why : SUBSET {"list", "raced", "late", "back"}]
  BY DEF Commit, CatalogInv, CatalogTypes
<1>5. task' \in [Reqs -> Task]
  <2>1. task' = [q \in Reqs |-> IF q = r THEN Idle
                                ELSE IF task[q].id = t.id /\ task[q].pc \in Blind
                                THEN [task[q] EXCEPT !.raced = TRUE] ELSE task[q]]
    BY <1>0, CommitFacts
  <2> QED
    BY <2>1, CommitOthers
<1> QED
  BY <1>1, <1>3, <1>4, <1>5 DEF CatalogInv, CatalogTypes

LEMMA CommitStamps == ASSUME CatalogInv, NEW r \in Reqs, Commit(r) PROVE Stamps'
<1>0. PICK t, new : t = task[r] /\ new = RowOf(r)
  OBVIOUS
<1>1. /\ t.id \in Ids /\ row' = [row EXCEPT ![t.id] = new] /\ clock' = clock
      /\ new.updated \in {row[t.id].updated, t.at} /\ t.pc = "commit"
  BY <1>0, CommitFacts
<1>2. row \in [Ids -> Row] /\ \A i \in Ids : row[i].updated <= clock
  BY DEF CatalogInv, CatalogTypes, Stamps
<1>3. t.at \in 1..clock /\ clock \in Nat
  BY <1>0, <1>1 DEF CatalogInv, CatalogTypes, Stamps, InTx
<1>4. \A i \in Ids : row'[i].updated \in {row[i].updated, t.at}
  BY <1>1, <1>2
<1>5. \A q \in Reqs : InTx(q)' => InTx(q) /\ q # r /\ task'[q].at = task[q].at
  BY CommitOthers
<1>6. \A i \in Ids : row'[i].updated <= clock'
  BY <1>1, <1>2, <1>3, <1>4
<1>7. ASSUME NEW q \in Reqs, InTx(q)'
      PROVE  /\ task'[q].at \in 1..clock' /\ \A i \in Ids : row'[i].updated # task'[q].at
             /\ \A p \in Reqs \ {q} : InTx(p)' => task'[p].at # task'[q].at
  <2>1. InTx(q) /\ q # r /\ task'[q].at = task[q].at
    BY <1>5, <1>7
  <2>2. InTx(r)
    BY <1>0, <1>1 DEF InTx
  <2>3. /\ task[q].at \in 1..clock /\ task[q].at # t.at
        /\ \A i \in Ids : row[i].updated # task[q].at
        /\ \A p \in Reqs \ {q} : InTx(p) => task[p].at # task[q].at
    BY <1>0, <2>1, <2>2 DEF CatalogInv, Stamps
  <2> QED
    BY <1>1, <1>4, <1>5, <2>1, <2>3
<1> QED
  BY <1>6, <1>7 DEF Stamps

(* The others that stand at the row that was written.                      *)
LEMMA CommitTasks == ASSUME CatalogInv, NEW r \in Reqs, Commit(r) PROVE Tasks'
<1>0. PICK t, new : t = task[r] /\ new = RowOf(r)
  OBVIOUS
<1>1. /\ t.id \in Ids /\ new \in Row /\ new.here /\ new.version = t.seen.version + 1
      /\ \A e \in hist[t.id] : e[1] # new.version
      /\ t.id \notin reborn => t.seen = row[t.id]
      /\ row' = [row EXCEPT ![t.id] = new]
      /\ hist' = [hist EXCEPT ![t.id] = @ \cup {<<new.version, new.content>>}]
      /\ task' = [q \in Reqs |-> IF q = r THEN Idle
                                 ELSE IF task[q].id = t.id /\ task[q].pc \in Blind
                                 THEN [task[q] EXCEPT !.raced = TRUE] ELSE task[q]]
      /\ reborn' = reborn /\ t.seen \in Row
  BY <1>0, CommitFacts DEF Task
<1>2. row \in [Ids -> Row] /\ hist \in [Ids -> SUBSET (Nat \X Content)]
  BY DEF CatalogInv, CatalogTypes
<1>3. /\ row'[t.id] = new /\ hist[t.id] \subseteq hist'[t.id]
      /\ \A i \in Ids \ {t.id} : row'[i] = row[i] /\ hist'[i] = hist[i]
  BY <1>1, <1>2
<1>4. ASSUME NEW s \in Task, TaskRight(s), s.id # t.id PROVE TaskRight(s)'
  <2>1. s.id \in Ids
    BY DEF Task
  <2>2. row'[s.id] = row[s.id] /\ hist'[s.id] = hist[s.id]
    BY <1>3, <1>4, <2>1
  <2> QED
    BY <1>1, <1>4, <2>2 DEF TaskRight, SeenRight, FormRight, WriteRight
<1>5. ASSUME NEW s \in Task, TaskRight(s), s.id = t.id, s.pc \notin Blind PROVE TaskRight(s)'
  <2>1. s.pc \notin {"form", "tx", "commit"}
    BY <1>5 DEF Blind
  <2>2. ASSUME ~s.raced, s.pc \in {"page", "base"}
        PROVE  /\ new.here /\ s.token # 0 /\ <<s.token, s.shown>> \in hist'[s.id]
               /\ new.version # s.token
    <3>1. s.token # 0 /\ <<s.token, s.shown>> \in hist[t.id]
      BY <1>5, <2>2 DEF TaskRight, FormRight
    <3> QED
      BY <1>1, <1>3, <1>5, <3>1
  <2> QED
    BY <1>3, <1>5, <2>1, <2>2 DEF TaskRight, SeenRight, FormRight, WriteRight
<1>6. ASSUME NEW s \in Task, TaskRight(s), s.id = t.id, s.pc \in Blind,
             NEW s2, s2 = [s EXCEPT !.raced = TRUE]
      PROVE  TaskRight(s2)'
  <2>1. s2.raced /\ s2.id = t.id /\ s2.pc = s.pc /\ s2.seen = s.seen /\ s.seen \in Row
    BY <1>6 DEF Task
  <2>2. ASSUME s.pc = "commit", s.seen.here, t.id \notin reborn
        PROVE  s.seen.version < new.version
    <3>1. s.seen.version <= row[t.id].version /\ t.seen = row[t.id]
      BY <1>1, <1>6, <2>2 DEF TaskRight, SeenRight
    <3> QED
      BY <1>1, <2>1, <3>1 DEF Row
  <2>3. SeenRight(s2)'
    <3>1. s.pc = "commit" => (~s.seen.here => s.seen = NoRow) /\ (s.seen.here => s.seen.version # 0)
      BY <1>6 DEF TaskRight, SeenRight
    <3>2. s.seen.version \in Nat /\ new.version \in Nat
      BY <1>1, <2>1 DEF Row
    <3> QED
      BY <1>1, <1>3, <2>1, <2>2, <3>1, <3>2 DEF SeenRight
  <2> QED
    BY <2>1, <2>3 DEF TaskRight, FormRight, WriteRight
<1>7. ASSUME NEW q \in Reqs PROVE TaskRight(task[q])'
  <2>1. task[q] \in Task /\ TaskRight(task[q])
    BY TaskTyped
  <2>2. PICK s, s2 : s = task[q] /\ s2 = task'[q]
    OBVIOUS
  <2>3. TaskRight(s2)'
    <3>1. CASE q = r
      <4>1. s2 = Idle
        BY <1>1, <2>2, <3>1
      <4> QED
        BY <4>1 DEF TaskRight, SeenRight, FormRight, WriteRight, Idle
    <3>2. CASE q # r
      <4>1. s2 = IF s.id = t.id /\ s.pc \in Blind THEN [s EXCEPT !.raced = TRUE] ELSE s
        BY <1>1, <2>2, <3>2
      <4> QED
        BY <1>4, <1>5, <1>6, <2>1, <2>2, <4>1
    <3> QED
      BY <3>1, <3>2
  <2> QED
    BY <2>2, <2>3 DEF TaskRight, SeenRight, FormRight, WriteRight
<1> QED
  BY <1>7 DEF Tasks

LEMMA CommitListed == ASSUME CatalogInv, NEW r \in Reqs, Commit(r) PROVE Listed'
<1>0. PICK t, new : t = task[r] /\ new = RowOf(r)
  OBVIOUS
<1>1. /\ t.id \in Ids /\ new \in Row /\ new.here /\ new.version = t.seen.version + 1
      /\ new.updated = IF t.kind = "state" THEN row[t.id].updated ELSE t.at
      /\ t.kind = "state" => row[t.id].here
      /\ row' = [row EXCEPT ![t.id] = new]
      /\ t.pc = "commit" /\ t.seen \in Row /\ t.at \in Nat /\ clock' = clock
  BY <1>0, CommitFacts DEF Task
<1>2. SUFFICES ASSUME cache'.why = {}, cache'.sig # NoSig
               PROVE  /\ cache'.sig[3] <= clock'
                      /\ \A q \in Reqs : InTx(q)' => task'[q].at # cache'.sig[3]
                      /\ \E f \in [Ids -> Row] : FilledFrom(f)'
  BY DEF Listed
<1>3. /\ cache.why = {} /\ cache' = cache
      /\ t.kind # "state" => ~(t.at < Latest)
      /\ ~(t.seen.version < row[t.id].version)
  <2>1. cache' = [cache EXCEPT !.why =
            @ \cup {w \in {"late"} : t.kind # "state" /\ t.at < Latest}
              \cup {w \in {"back"} : t.seen.version < row[t.id].version}]
    BY <1>0 DEF Commit
  <2>2. "why" \in DOMAIN cache /\ cache \in [sig : Sigs, specs : Lists, why : SUBSET {"list", "raced", "late", "back"}]
    BY DEF CatalogInv, CatalogTypes
  <2>3. {} = cache.why \cup {w \in {"late"} : t.kind # "state" /\ t.at < Latest}
               \cup {w \in {"back"} : t.seen.version < row[t.id].version}
    BY <1>2, <2>1, <2>2
  <2>4. /\ cache.why = {} /\ {w \in {"late"} : t.kind # "state" /\ t.at < Latest} = {}
        /\ {w \in {"back"} : t.seen.version < row[t.id].version} = {}
    BY <2>3
  <2>5. cache' = [cache EXCEPT !.why = {}]
    BY <2>1, <2>4
  <2>6. cache' = cache
    BY <2>2, <2>4, <2>5
  <2> QED
    BY <2>4, <2>6
<1>4. /\ cache.sig[3] <= clock /\ \A q \in Reqs : InTx(q) => task[q].at # cache.sig[3]
      /\ \E f \in [Ids -> Row] : FilledFrom(f)
  BY <1>2, <1>3 DEF CatalogInv, Listed
<1>5. PICK f \in [Ids -> Row] : FilledFrom(f)
  BY <1>4
<1>6. PICK m \in Nat : m = cache.sig[3]
  BY <1>2, <1>3 DEF CatalogInv, CatalogTypes, Sigs
<1>7. row \in [Ids -> Row]
  BY DEF CatalogInv, CatalogTypes
<1>8. Since(f, m)
  BY <1>5, <1>6 DEF FilledFrom
<1>9. /\ row'[t.id] = new /\ \A i \in Ids \ {t.id} : row'[i] = row[i]
  BY <1>1, <1>7
<1>10. t.at # m
  <2>1. InTx(r)
    BY <1>0, <1>1 DEF InTx
  <2> QED
    BY <1>0, <1>4, <1>6, <2>1
<1>11. Since(f, m)'
  <2>1. CASE t.kind = "state"
    <3>1. row[t.id].here /\ new.updated = row[t.id].updated /\ row[t.id] \in Row
      BY <1>1, <1>7, <2>1
    <3>2. row[t.id].version < new.version
      BY <1>1, <1>3, <3>1 DEF Row
    <3>3. \A i \in Ids : row'[i].updated = row[i].updated /\ row'[i].here = row[i].here
      <4>1. \A i \in Ids : i = t.id \/ row'[i] = row[i]
        BY <1>9
      <4>2. row'[t.id].updated = row[t.id].updated /\ row'[t.id].here = row[t.id].here
        BY <1>1, <1>7, <1>9, <3>1 DEF Row
      <4> QED
        BY <4>1, <4>2
    <3>4. \A i \in Ids : Rewritten(i, m) => Rewritten(i, m)'
      BY <3>3 DEF Rewritten
    <3>5. \A i \in Ids \ {t.id} : Kept(f, i) => Kept(f, i)'
      BY <1>9 DEF Kept
    <3>6. Kept(f, t.id) => (f[t.id].here /\ f[t.id].version < new.version)
      <4>1. f[t.id].version \in Nat /\ row[t.id].version \in Nat /\ new.version \in Nat
        BY <1>1, <3>1 DEF Row
      <4> QED
        BY <3>2, <4>1 DEF Kept
    <3>7. ASSUME NEW i \in Ids, i = t.id, Kept(f, i) PROVE Kept(f, i)'
      <4>1. f[i].version \in Nat /\ new.version \in Nat
        BY <1>1 DEF Row
      <4> QED
        BY <1>9, <3>6, <3>7, <4>1 DEF Kept
    <3> QED
      BY <1>8, <3>3, <3>4, <3>5, <3>7 DEF Since
  <2>2. CASE t.kind # "state"
    <3>1. new.updated = t.at /\ Latest <= t.at
      BY <1>1, <1>3, <2>2, LatestIs
    <3>2. \A j \in Ids : row[j].here => row[j].updated <= t.at
      <4>1. \A j \in Ids : row[j].updated \in Nat
        BY <1>7 DEF Row
      <4> QED
        BY <1>1, <3>1, <4>1, LatestIs
    <3>3. ASSUME NEW i \in Ids, i = t.id PROVE Rewritten(i, m)'
      <4>1. row'[i].updated # m /\ row'[i].updated = t.at
        BY <1>9, <1>10, <3>1, <3>3
      <4>2. ASSUME t.at < m, NEW j \in Ids, row'[j].here PROVE row'[j].updated # m
        <5>1. CASE j = t.id
          BY <3>3, <4>1, <5>1
        <5>2. CASE j # t.id
          <6>1. row'[j] = row[j] /\ row[j].updated \in Nat
            BY <1>7, <1>9, <5>2 DEF Row
          <6>2. row[j].updated <= t.at
            BY <3>2, <4>2, <6>1
          <6> QED
            BY <1>1, <1>6, <4>2, <6>1, <6>2
        <5> QED
          BY <5>1, <5>2
      <4> QED
        BY <4>1, <4>2 DEF Rewritten
    <3>4. ASSUME NEW i \in Ids, i # t.id, Rewritten(i, m) PROVE Rewritten(i, m)'
      <4>1. row'[i] = row[i]
        BY <1>9, <3>4
      <4>2. \A j \in Ids : j = t.id \/ row'[j] = row[j]
        BY <1>9
      <4>3. row'[t.id].updated # m
        BY <1>9, <1>10, <3>1
      <4> QED
        BY <3>4, <4>1, <4>2, <4>3 DEF Rewritten
    <3>5. ASSUME NEW i \in Ids, i # t.id, Kept(f, i) PROVE Kept(f, i)'
      BY <1>9, <3>5 DEF Kept
    <3> QED
      BY <1>8, <1>9, <3>3, <3>4, <3>5 DEF Since
  <2> QED
    BY <2>1, <2>2
<1>12. FilledFrom(f)'
  BY <1>3, <1>5, <1>6, <1>11 DEF FilledFrom
<1>13. \A q \in Reqs : InTx(q)' => task'[q].at # cache'.sig[3]
  BY <1>3, <1>4, CommitOthers
<1> QED
  BY <1>1, <1>3, <1>4, <1>12, <1>13

LEMMA CatalogCommit == ASSUME CatalogInv, NEW r \in Reqs, Commit(r) PROVE CatalogInv'
  BY CommitTypes, CommitHistories, CommitStamps, CommitTasks, CommitListed DEF CatalogInv

(* A deletion takes the history along, and shuts out who had read the row. *)
LEMMA DeleteFacts ==
    ASSUME CatalogInv, NEW r \in Reqs, DeleteOne(r), NEW i, i = task[r].id
    PROVE  /\ i \in Ids /\ row' = [row EXCEPT ![i] = NoRow] /\ hist' = [hist EXCEPT ![i] = {}]
           /\ task' = [q \in Reqs |-> IF q = r THEN Idle
                                      ELSE IF task[q].id = i /\ task[q].pc \in Blind \cup {"page", "base"}
                                      THEN [task[q] EXCEPT !.raced = TRUE] ELSE task[q]]
           /\ \A j \in Ids : j \notin reborn' =>
                \/ j # i /\ j \notin reborn
                \/ j = i /\ \A q \in Reqs : task[q].pc = "commit" /\ task[q].id = i => ~task[q].seen.here
           /\ UNCHANGED <<cache, clock, asked>> /\ reborn' \in SUBSET Ids
<1>1. i \in Ids
  BY TaskTyped DEF Task
<1>2. reborn' = {j \in reborn : j # i} \cup
          {j \in {i} : \E q \in Reqs : /\ task[q].pc = "commit" /\ task[q].id = i
                                      /\ task[q].seen.here}
  BY DEF DeleteOne
<1>3. \A j \in Ids : j \notin reborn' =>
                \/ j # i /\ j \notin reborn
                \/ j = i /\ \A q \in Reqs : task[q].pc = "commit" /\ task[q].id = i => ~task[q].seen.here
  BY <1>1, <1>2
<1>4. reborn' \in SUBSET Ids
  BY <1>1, <1>2 DEF CatalogInv, CatalogTypes
<1> QED
  BY <1>1, <1>3, <1>4 DEF DeleteOne, Written

LEMMA DeleteOthers ==
    ASSUME CatalogInv, NEW r \in Reqs, DeleteOne(r)
    PROVE  /\ \A q \in Reqs : /\ task'[q] \in Task
                              /\ q # r => task'[q].pc = task[q].pc /\ task'[q].at = task[q].at
           /\ task'[r] = Idle
           /\ \A q \in Reqs : InTx(q)' => InTx(q) /\ q # r /\ task'[q].at = task[q].at
<1>0. PICK i : i = task[r].id
  OBVIOUS
<1>1. task' = [q \in Reqs |-> IF q = r THEN Idle
                              ELSE IF task[q].id = i /\ task[q].pc \in Blind \cup {"page", "base"}
                              THEN [task[q] EXCEPT !.raced = TRUE] ELSE task[q]]
  BY <1>0, DeleteFacts
<1>2. \A q \in Reqs : task[q] \in Task /\ [task[q] EXCEPT !.raced = TRUE] \in Task
        /\ [task[q] EXCEPT !.raced = TRUE].pc = task[q].pc
        /\ [task[q] EXCEPT !.raced = TRUE].at = task[q].at
  BY TaskTyped DEF Task
<1>3. \A q \in Reqs : /\ task'[q] \in Task
                      /\ q # r => task'[q].pc = task[q].pc /\ task'[q].at = task[q].at
  BY <1>1, <1>2, BlankFacts
<1>4. task'[r] = Idle /\ Idle.pc = "idle"
  BY <1>1 DEF Idle
<1> QED
  BY <1>3, <1>4 DEF InTx

LEMMA NoneToTell == Tells({}, NoRow)
<1>1. {e[1] : e \in {}} = {} /\ 1..0 = {}
  OBVIOUS
<1> QED
  BY <1>1, FS_EmptySet DEF Tells, NoRow

LEMMA DeleteHistories == ASSUME CatalogInv, NEW r \in Reqs, DeleteOne(r) PROVE Histories'
<1>0. PICK i : i = task[r].id
  OBVIOUS
<1>1. /\ i \in Ids /\ row' = [row EXCEPT ![i] = NoRow] /\ hist' = [hist EXCEPT ![i] = {}]
      /\ \A j \in Ids : j \notin reborn' => j = i \/ j \notin reborn
  BY <1>0, DeleteFacts
<1>2. row \in [Ids -> Row] /\ hist \in [Ids -> SUBSET (Nat \X Content)]
  BY DEF CatalogInv, CatalogTypes
<1>3. ASSUME NEW j \in Ids, j # i PROVE Keyed(j)'
  <2>1. row'[j] = row[j] /\ hist'[j] = hist[j] /\ Keyed(j)
    BY <1>1, <1>2, <1>3, RowTyped
  <2> QED
    BY <1>1, <1>3, <2>1 DEF Keyed
<1>4. Keyed(i)'
  <2>1. row'[i] = NoRow /\ hist'[i] = {} /\ ~NoRow.here
    BY <1>1, <1>2 DEF NoRow
  <2> QED
    BY <2>1, NoneToTell, FS_EmptySet DEF Keyed
<1> QED
  BY <1>3, <1>4 DEF Histories

LEMMA DeleteStamps == ASSUME CatalogInv, NEW r \in Reqs, DeleteOne(r) PROVE Stamps'
<1>0. PICK i : i = task[r].id
  OBVIOUS
<1>1. /\ i \in Ids /\ row' = [row EXCEPT ![i] = NoRow] /\ clock' = clock
  BY <1>0, DeleteFacts
<1>2. row \in [Ids -> Row] /\ clock \in Nat
  BY DEF CatalogInv, CatalogTypes
<1>3. \A j \in Ids : row'[j] = row[j] \/ row'[j].updated = 0
  BY <1>1, <1>2 DEF NoRow
<1>4. \A j \in Ids : row'[j].updated <= clock'
  BY <1>1, <1>2, <1>3 DEF CatalogInv, Stamps
<1>5. ASSUME NEW q \in Reqs, InTx(q)'
      PROVE  /\ task'[q].at \in 1..clock' /\ \A j \in Ids : row'[j].updated # task'[q].at
             /\ \A p \in Reqs \ {q} : InTx(p)' => task'[p].at # task'[q].at
  <2>1. InTx(q) /\ task'[q].at = task[q].at
    BY <1>5, DeleteOthers
  <2>2. /\ task[q].at \in 1..clock /\ \A j \in Ids : row[j].updated # task[q].at
        /\ \A p \in Reqs \ {q} : InTx(p) => task[p].at # task[q].at
    BY <2>1 DEF CatalogInv, Stamps
  <2>3. \A p \in Reqs \ {q} : InTx(p)' => InTx(p) /\ task'[p].at = task[p].at
    BY DeleteOthers
  <2> QED
    BY <1>1, <1>2, <1>3, <2>1, <2>2, <2>3
<1> QED
  BY <1>4, <1>5 DEF Stamps

LEMMA DeleteTasks == ASSUME CatalogInv, NEW r \in Reqs, DeleteOne(r) PROVE Tasks'
<1>0. PICK i : i = task[r].id
  OBVIOUS
<1>1. /\ i \in Ids /\ row' = [row EXCEPT ![i] = NoRow] /\ hist' = [hist EXCEPT ![i] = {}]
      /\ task' = [q \in Reqs |-> IF q = r THEN Idle
                                 ELSE IF task[q].id = i /\ task[q].pc \in Blind \cup {"page", "base"}
                                 THEN [task[q] EXCEPT !.raced = TRUE] ELSE task[q]]
      /\ \A j \in Ids : j \notin reborn' =>
           \/ j # i /\ j \notin reborn
           \/ j = i /\ \A q \in Reqs : task[q].pc = "commit" /\ task[q].id = i => ~task[q].seen.here
  BY <1>0, DeleteFacts
<1>2. row \in [Ids -> Row] /\ hist \in [Ids -> SUBSET (Nat \X Content)]
  BY DEF CatalogInv, CatalogTypes
<1>3. \A j \in Ids \ {i} : row'[j] = row[j] /\ hist'[j] = hist[j]
  BY <1>1, <1>2
<1>4. ASSUME NEW s \in Task, TaskRight(s), s.id # i PROVE TaskRight(s)'
  <2>1. s.id \in Ids
    BY DEF Task
  <2>2. row'[s.id] = row[s.id] /\ hist'[s.id] = hist[s.id] /\ (s.id \notin reborn' => s.id \notin reborn)
    BY <1>1, <1>3, <1>4, <2>1
  <2> QED
    BY <1>4, <2>2 DEF TaskRight, SeenRight, FormRight, WriteRight
<1>5. ASSUME NEW s \in Task, TaskRight(s), s.id = i, s.pc \notin Blind \cup {"page", "base"}
      PROVE  TaskRight(s)'
  <2>1. s.pc \notin {"form", "page", "base", "tx", "commit"}
    BY <1>5 DEF Blind
  <2> QED
    BY <2>1 DEF TaskRight, SeenRight, FormRight, WriteRight
<1>6. ASSUME NEW s \in Task, TaskRight(s), s.id = i, NEW s2, s2 = [s EXCEPT !.raced = TRUE],
             NEW q \in Reqs, s = task[q]
      PROVE  TaskRight(s2)'
  <2>1. s2.raced /\ s2.id = i /\ s2.pc = s.pc /\ s2.seen = s.seen
    BY <1>6 DEF Task
  <2>2. s.pc = "commit" => (~s.seen.here => s.seen = NoRow) /\ (s.seen.here => s.seen.version # 0)
    BY <1>6 DEF TaskRight, SeenRight
  <2>3. s.pc = "commit" /\ s.seen.here => i \in reborn'
    BY <1>1, <1>6
  <2> QED
    BY <2>1, <2>2, <2>3 DEF TaskRight, SeenRight, FormRight, WriteRight
<1>7. ASSUME NEW q \in Reqs PROVE TaskRight(task[q])'
  <2>1. task[q] \in Task /\ TaskRight(task[q])
    BY TaskTyped
  <2>2. PICK s, s2 : s = task[q] /\ s2 = task'[q]
    OBVIOUS
  <2>3. TaskRight(s2)'
    <3>1. CASE q = r
      <4>1. s2 = Idle
        BY <1>1, <2>2, <3>1
      <4> QED
        BY <4>1 DEF TaskRight, SeenRight, FormRight, WriteRight, Idle
    <3>2. CASE q # r
      <4>1. s2 = IF s.id = i /\ s.pc \in Blind \cup {"page", "base"} THEN [s EXCEPT !.raced = TRUE] ELSE s
        BY <1>1, <2>2, <3>2
      <4> QED
        BY <1>4, <1>5, <1>6, <2>1, <2>2, <4>1
    <3> QED
      BY <3>1, <3>2
  <2> QED
    BY <2>2, <2>3 DEF TaskRight, SeenRight, FormRight, WriteRight
<1> QED
  BY <1>7 DEF Tasks

LEMMA DeleteListed == ASSUME CatalogInv, NEW r \in Reqs, DeleteOne(r) PROVE Listed'
<1>0. PICK i : i = task[r].id
  OBVIOUS
<1>1. /\ i \in Ids /\ row' = [row EXCEPT ![i] = NoRow] /\ UNCHANGED <<cache, clock>>
  BY <1>0, DeleteFacts
<1>2. row \in [Ids -> Row]
  BY DEF CatalogInv, CatalogTypes
<1>3. ASSUME NEW f, NEW m, Since(f, m) PROVE Since(f, m)'
  <2>1. \A j \in Ids : row'[j].here => row'[j] = row[j] /\ row[j].here
    BY <1>1, <1>2 DEF NoRow
  <2> QED
    BY <1>3, <2>1 DEF Since, Kept, Rewritten
<1>4. \A f : FilledFrom(f) => FilledFrom(f)'
  BY <1>1, <1>3 DEF FilledFrom
<1>5. \A q \in Reqs : InTx(q)' => InTx(q) /\ task'[q].at = task[q].at
  BY DeleteOthers
<1> QED
  BY <1>1, <1>4, <1>5 DEF Listed, CatalogInv

LEMMA CatalogDeleteOne == ASSUME CatalogInv, NEW r \in Reqs, DeleteOne(r) PROVE CatalogInv'
<1>0. PICK i : i = task[r].id
  OBVIOUS
<1>1. /\ i \in Ids /\ row' = [row EXCEPT ![i] = NoRow] /\ hist' = [hist EXCEPT ![i] = {}]
      /\ task' = [q \in Reqs |-> IF q = r THEN Idle
                                 ELSE IF task[q].id = i /\ task[q].pc \in Blind \cup {"page", "base"}
                                 THEN [task[q] EXCEPT !.raced = TRUE] ELSE task[q]]
      /\ UNCHANGED <<cache, clock, asked>> /\ reborn' \in SUBSET Ids
  BY <1>0, DeleteFacts
<1>2. task' \in [Reqs -> Task]
  BY <1>1, DeleteOthers
<1>3. CatalogTypes'
  BY <1>1, <1>2, BlankFacts DEF CatalogInv, CatalogTypes
<1> QED
  BY <1>3, DeleteHistories, DeleteStamps, DeleteTasks, DeleteListed DEF CatalogInv

(* A history with as many entries as versions has one of each.             *)
LEMMA OneEach ==
    ASSUME NEW h, IsFiniteSet(h), NEW n \in Nat, {e[1] : e \in h} = 1..n, Cardinality(h) = n
    PROVE  \A d, e \in h : d[1] = e[1] => d = e
<1> DEFINE f == [e \in h |-> e[1]]
<1>1. f \in Surjection(h, 1..n)
  BY DEF Surjection
<1>2. IsFiniteSet(1..n) /\ Cardinality(1..n) = n
  BY FS_Interval
<1>3. f \in Injection(h, 1..n)
  BY <1>1, <1>2, FS_SurjSameCardinalityImpliesInj
<1> QED
  BY <1>3 DEF Injection, IsInjective

LEMMA CatalogInit == Init => CatalogInv
<1> SUFFICES ASSUME Init PROVE CatalogInv
  OBVIOUS
<1>1. PICK b \in Boot : row = b.row /\ hist = b.hist
  BY DEF Init
<1>2. /\ reborn = {} /\ cache = [sig |-> NoSig, specs |-> <<>>, why |-> {}]
      /\ clock = 1 /\ asked = 0 /\ task = [r \in Reqs |-> Idle]
  BY DEF Init
<1>3. /\ row \in [Ids -> Row] /\ hist \in [Ids -> SUBSET (Nat \X Content)]
      /\ \A i \in Ids : /\ IsFiniteSet(hist[i]) /\ Tells(hist[i], row[i]) /\ row[i].updated <= 1
                        /\ row[i].here => row[i].version # 0
                        /\ ~row[i].here => row[i] = NoRow
  BY <1>1, CatalogAssumption
<1>4. <<>> \in Lists
  <2>1. <<>> \in [{} -> Content]
    OBVIOUS
  <2> QED
    BY <2>1 DEF Lists
<1>5. CatalogTypes
  BY <1>2, <1>3, <1>4, BlankFacts, CatalogAssumption DEF CatalogTypes, Sigs
<1>6. Histories
  <2>1. ASSUME NEW i \in Ids PROVE Keyed(i)
    <3>1. hist[i] \in SUBSET (Nat \X Content) /\ row[i] \in Row /\ row[i].version \in Nat
      BY <1>3 DEF Row
    <3>2. Versions(hist[i]) = 1..row[i].version /\ Cardinality(hist[i]) = row[i].version
      BY <1>3 DEF Tells, Versions
    <3>3. IsFiniteSet(hist[i]) /\ (\A d, e \in hist[i] : d[1] = e[1] => d = e)
      BY <1>3, <3>1, <3>2, OneEach DEF Versions
    <3>4. ASSUME ~row[i].here PROVE hist[i] = {}
      <4>1. Cardinality(hist[i]) = 0
        BY <1>3, <3>2, <3>4 DEF NoRow
      <4> QED
        BY <3>3, <4>1, FS_EmptySet
    <3>5. row[i].here => <<row[i].version, row[i].content>> \in hist[i]
      BY <1>3 DEF Tells
    <3> QED
      BY <1>3, <3>3, <3>4, <3>5 DEF Keyed
  <2> QED
    BY <2>1 DEF Histories
<1>7. Stamps /\ Tasks /\ Listed
  BY <1>2, <1>3, IdleRight DEF Stamps, InTx, Tasks, Listed, Idle
<1> QED
  BY <1>5, <1>6, <1>7 DEF CatalogInv

LEMMA CatalogNext == CatalogInv /\ [Next]_vars => CatalogInv'
<1>1. ASSUME CatalogInv, NEW r \in Reqs, Arrive(r) PROVE CatalogInv'
  <2>1. CASE ReadSignature(r)
    BY <1>1, <2>1, CatalogReadSignature
  <2>2. CASE \E i \in Ids : \E actor \in Actors :
               \/ EditForm(r, actor, i) \/ Create(r, actor, i)
               \/ ToggleFeatured(r, actor, i) \/ ToggleState(r, actor, i)
               \/ Delete(r, actor, i) \/ ImportConfirm(r, actor, i)
    BY <1>1, <2>2, CatalogEditForm, CatalogCreate, CatalogToggleFeatured, CatalogToggleState,
       CatalogDelete, CatalogImport
  <2>3. CASE \E i \in Ids : SetUpdatedIfAbsent(r, i)
    BY <1>1, <2>3, CatalogSetUpdated
  <2>4. CASE \E i \in Ids : \E old \in Groups, new \in FormGroups : RewriteGroup(r, i, old, new)
    BY <1>1, <2>4, CatalogRewriteGroup
  <2> QED
    BY <1>1, <2>1, <2>2, <2>3, <2>4 DEF Arrive
<1>2. ASSUME CatalogInv, NEW r \in Reqs, CloseForm(r) \/ Rollback(r) PROVE CatalogInv'
  <2>1. Then(r, Idle) /\ UNCHANGED <<row, hist, cache, clock, reborn>>
    BY <1>2 DEF CloseForm, Rollback
  <2> QED
    BY <1>2, <2>1, CatalogIdles
<1>3. ASSUME CatalogInv, NEW r \in Reqs, Proceed(r) PROVE CatalogInv'
  BY <1>2, <1>3, CatalogFetchVersion, CatalogUpdate, CatalogCheckToken, CatalogTxRead,
     CatalogCommit, CatalogDeleteOne, CatalogFillCache DEF Proceed
<1>4. ASSUME CatalogInv, UNCHANGED vars PROVE CatalogInv'
  <2>1. \A i \in Ids : Keyed(i) => Keyed(i)'
    BY <1>4 DEF vars, Keyed
  <2>2. \A s : TaskRight(s) => TaskRight(s)'
    BY <1>4 DEF vars, TaskRight, SeenRight, FormRight, WriteRight
  <2>3. \A f : FilledFrom(f) => FilledFrom(f)'
    BY <1>4 DEF vars, FilledFrom, Since, Kept, Rewritten
  <2>4. CatalogTypes' /\ Stamps'
    BY <1>4 DEF CatalogInv, vars, CatalogTypes, Stamps, InTx
  <2>5. Histories' /\ Tasks'
    BY <1>4, <2>1, <2>2 DEF CatalogInv, vars, Histories, Tasks
  <2>6. Listed'
    BY <1>4, <2>3 DEF CatalogInv, vars, Listed, InTx
  <2> QED
    BY <2>4, <2>5, <2>6 DEF CatalogInv
<1> QED
  BY <1>1, <1>3, <1>4 DEF Next

(* The tables keep what their keys promise, and a request that nothing     *)
(* disturbed writes on the row it read (Catalog: every handler).           *)
THEOREM CatalogInvariance == Spec => []CatalogInv
  BY CatalogInit, CatalogNext, PTL DEF Spec

LEMMA CatalogTyped == CatalogInv => TypeOK
<1> SUFFICES ASSUME CatalogInv PROVE TypeOK
  OBVIOUS
<1>1. ASSUME NEW i \in Ids
      PROVE  row[i].content \in Content /\ row[i].version \in Nat /\ (~row[i].here => row[i] = NoRow)
  BY RowTyped DEF Keyed
<1>2. clock \in Nat /\ asked \in 0..MaxRequests /\ cache.specs \in Lists
  BY DEF CatalogInv, CatalogTypes
<1>3. cache.specs \in [DOMAIN cache.specs -> Content]
  BY <1>2 DEF Lists
<1>4. ASSUME NEW r \in Reqs PROVE task[r].new \in Content /\ task[r].seen.content \in Content
  BY TaskTyped DEF Task, Row
<1> QED
  BY <1>1, <1>2, <1>3, <1>4 DEF TypeOK

(* A table as large, as much written and as new as the one the cache was   *)
(* filled from is that table.                                              *)
LEMMA SameTable ==
    ASSUME CatalogInv, cache.sig = CatalogSignature, NEW f \in [Ids -> Row], FilledFrom(f)
    PROVE  Effective = EffectiveOf(f)
<1> DEFINE m == cache.sig[3]
<1>1. /\ Cardinality(In(row)) = Cardinality(In(f)) /\ m = Latest
      /\ Cardinality(VersionsOf(row)) = Cardinality(VersionsOf(f))
      /\ Effective = EffectiveOf(row) /\ Since(f, m)
  BY SignatureIs DEF FilledFrom
<1>2. row \in [Ids -> Row]
  BY DEF CatalogInv, CatalogTypes
<1>3. ASSUME NEW i \in Ids, row[i].here PROVE Kept(f, i)
  <2>1. SUFFICES ASSUME Rewritten(i, m) PROVE FALSE
    BY <1>1, <1>3 DEF Since
  <2>2. row[i].updated \in Nat /\ row[i].updated <= Latest /\ row[i].updated # Latest /\ Latest \in Nat
    BY <1>1, <1>2, <1>3, <2>1, LatestIs DEF Rewritten, Row
  <2>3. \A j \in Ids : row[j].here => row[j].updated # Latest
    BY <1>1, <2>1, <2>2 DEF Rewritten
  <2>4. Latest = 0
    BY <2>3, LatestIs
  <2> QED
    BY <2>2, <2>4
<1>4. In(row) = In(f)
  <2>1. In(row) \in SUBSET In(f)
    BY <1>3 DEF In, Kept
  <2> QED
    BY <1>1, <2>1, InFinite, FS_Subset
<1>5. VersionsOf(row) = VersionsOf(f)
  <2>1. ASSUME NEW i \in In(row) PROVE 1..f[i].version \subseteq 1..row[i].version
    <3>1. i \in Ids /\ f[i].version \in Nat /\ row[i].version \in Nat /\ f[i].version <= row[i].version
      BY <1>2, <1>3 DEF In, Kept, Row
    <3> QED
      BY <3>1
  <2>2. VersionsOf(row) = UNION {{i} \X (1..row[i].version) : i \in In(row)}
        /\ VersionsOf(f) = UNION {{i} \X (1..f[i].version) : i \in In(row)}
    BY <1>4 DEF VersionsOf, In
  <2>3. VersionsOf(f) \in SUBSET VersionsOf(row)
    BY <2>1, <2>2
  <2> QED
    BY <1>1, <1>2, <2>3, VersionsFinite, FS_Subset
<1>6. ASSUME NEW i \in In(row) PROVE row[i] = f[i]
  <2>1. /\ i \in Ids /\ row[i].version \in Nat /\ row[i].version # 0 /\ f[i].version \in Nat
        /\ Kept(f, i)
    BY <1>2, <1>3, RowTyped DEF In, Keyed, Row
  <2>2. <<i, row[i].version>> \in VersionsOf(row)
    BY <2>1 DEF VersionsOf, In
  <2>3. row[i].version \in 1..f[i].version
    BY <1>5, <2>2 DEF VersionsOf
  <2> QED
    BY <2>1, <2>3 DEF Kept
<1>7. \A i \in In(row) \cup DOMAIN Yaml : row[i].here <=> i \in In(row)
  BY CatalogAssumption DEF In
<1>8. \A i \in In(f) \cup DOMAIN Yaml : f[i].here <=> i \in In(f)
  BY CatalogAssumption DEF In
<1>9. EffectiveOf(row) = EffectiveOf(f)
  BY <1>4, <1>6, <1>7, <1>8 DEF EffectiveOf
<1> QED
  BY <1>1, <1>9

(* The history of a spec has every version, and a cached list with the     *)
(* table's signature is the table's (Catalog: upsert_in_tx, set_state,     *)
(* delete_one, effective_specs_cached).                                    *)
LEMMA CatalogIsConsistent == CatalogInv => HistoryMatches /\ CacheFresh
<1> SUFFICES ASSUME CatalogInv PROVE HistoryMatches /\ CacheFresh
  OBVIOUS
<1>1. HistoryMatches
  BY RowTyped DEF HistoryMatches, Keyed
<1>2. ASSUME cache.sig = CatalogSignature, cache.why = {} PROVE cache.specs = Effective
  <2>1. PICK f \in [Ids -> Row] : FilledFrom(f)
    BY <1>2, SignatureIs DEF CatalogInv, Listed
  <2>2. Effective = EffectiveOf(f)
    BY <1>2, <2>1, SameTable
  <2> QED
    BY <2>1, <2>2 DEF FilledFrom
<1> QED
  BY <1>1, <1>2, CatalogTyped DEF CacheFresh

(* The history has every version of a spec, and a fresh list is the        *)
(* table's, but in the ways named (Catalog: every handler).                *)
THEOREM CatalogHolds == Spec => [](HistoryMatches /\ CacheFresh)
  BY CatalogIsConsistent, CatalogInvariance, PTL

(* A save of the edit form replaces what it showed, and what an editor     *)
(* writes leaves the groups of others alone (Catalog: update, the toggles, *)
(* import_confirm).                                                        *)
LEMMA SaveIsCommit ==
    ASSUME CatalogInv, [Next]_vars, NEW r \in Reqs, NEW kinds, Saves(r, kinds)
    PROVE  Commit(r)
<1>1. task[r].pc = "commit" /\ row'[task[r].id] # row[task[r].id] /\ task'[r].pc = "idle"
  BY DEF Saves
<1>2. PICK q \in Reqs : Commit(q) \/ DeleteOne(q)
  <2>1. ASSUME NEW q \in Reqs, Arrive(q) PROVE row' = row
    <3>1. ReadSignature(q) => row' = row
      BY DEF ReadSignature
    <3>2. ASSUME NEW i \in Ids, NEW actor \in Actors,
                 \/ EditForm(q, actor, i) \/ Create(q, actor, i)
                 \/ ToggleFeatured(q, actor, i) \/ ToggleState(q, actor, i)
                 \/ Delete(q, actor, i) \/ ImportConfirm(q, actor, i)
          PROVE  row' = row
      BY <3>2 DEF EditForm, Create, ToggleFeatured, ToggleState, Delete, ImportConfirm
    <3>3. ASSUME NEW i \in Ids,
                 \/ SetUpdatedIfAbsent(q, i)
                 \/ \E old \in Groups, new \in FormGroups : RewriteGroup(q, i, old, new)
          PROVE  row' = row
      BY <3>3 DEF SetUpdatedIfAbsent, RewriteGroup
    <3> QED
      BY <2>1, <3>1, <3>2, <3>3 DEF Arrive
  <2>2. ASSUME NEW q \in Reqs, Proceed(q) PROVE row' = row \/ Commit(q) \/ DeleteOne(q)
    BY <2>2 DEF Proceed, FetchVersion, Update, CheckToken, CloseForm, TxRead, Rollback, FillCache
  <2>3. UNCHANGED vars => row' = row
    BY DEF vars
  <2> QED
    BY <1>1, <2>1, <2>2, <2>3 DEF Next
<1>3. q = r
  <2>1. CASE Commit(q)
    BY <1>1, <2>1, CommitOthers
  <2>2. CASE DeleteOne(q)
    BY <1>1, <2>2, DeleteOthers
  <2> QED
    BY <1>2, <2>1, <2>2
<1>4. ~DeleteOne(r)
  BY <1>1 DEF DeleteOne
<1> QED
  BY <1>2, <1>3, <1>4

(* The edit form replaces what it showed, and an editor leaves the groups  *)
(* of others alone (Catalog: update, the toggles, import_confirm).         *)
THEOREM SavesAreFair == Spec => EditsNotLost
<1> DEFINE Fair(r) ==
      LET i == task[r].id IN
         /\ Saves(r, {"update"}) => task[r].raced \/ row[i].content = task[r].shown
         /\ Saves(r, {"update", "featured", "state", "import"})
              /\ task[r].who = "editor" /\ row[i].here /\ ~task[r].raced
            => row'[i].content.groups \ EditorGroups
                 = row[i].content.groups \ EditorGroups
<1>1. ASSUME CatalogInv, [Next]_vars, NEW r \in Reqs PROVE Fair(r)
  <2>0. PICK t, new : t = task[r] /\ new = RowOf(r)
    OBVIOUS
  <2>1. t \in Task /\ TaskRight(t)
    BY <1>1, <2>0, TaskTyped
  <2>2. ASSUME Saves(r, {"update"}) PROVE t.raced \/ row[t.id].content = t.shown
    BY <2>0, <2>1, <2>2 DEF Saves, TaskRight, WriteRight
  <2>3. ASSUME Saves(r, {"update", "featured", "state", "import"}), t.who = "editor",
               row[t.id].here, ~t.raced
        PROVE  Foreign(row'[t.id].content) = Foreign(row[t.id].content)
    <3>1. Commit(r)
      BY <1>1, <2>3, SaveIsCommit
    <3>2. /\ t.pc = "commit" /\ t.id \in Ids /\ row' = [row EXCEPT ![t.id] = new]
          /\ new.content = CommitOf(r)
      BY <1>1, <2>0, <3>1, CommitFacts
    <3>3. row'[t.id].content = CommitOf(r)
      BY <1>1, <3>2 DEF CatalogInv, CatalogTypes
    <3>4. t.seen = row[t.id] /\ Foreign(row[t.id].content) = Foreign(t.new) /\ t.seen.content \in Content
      BY <2>0, <2>1, <2>3, <3>2 DEF TaskRight, SeenRight, WriteRight, Saves, Task, Row
    <3>5. Foreign(CommitOf(r)) = Foreign(row[t.id].content)
      BY <2>0, <3>4 DEF CommitOf, Foreign, Content
    <3> QED
      BY <3>3, <3>5
  <2> QED
    BY <2>0, <2>2, <2>3 DEF Foreign
<1>2. CatalogInv /\ [Next]_vars => [\A r \in Reqs : Fair(r)]_vars
  BY <1>1
<1> QED
  BY <1>2, CatalogInvariance, PTL DEF Spec, EditsNotLost

-----------------------------------------------------------------------------
(* The media library.                                                      *)

Filenames == ((1..MaxName) \X {0}) \cup LongNames
Urls      == (1..MaxName) \X Nat
Pictures  == 1..MaxImages
MediaTasks ==
    [op : {"none", "upload", "import", "rename", "delete"},
     at : {"idle", "probe", "begin", "commit", "taken", "specs", "landing", "invalidate"},
     id : Pictures \cup {Void}, old : Filenames \cup {Void}, new : Filenames \cup {Void},
     ref : [M!Spots -> Urls \cup {Void}], hit : SUBSET M!Rows, gone : SUBSET Pictures,
     dirty : SUBSET (M!Rows \cup {"images"})]
Reads == [name : Filenames, id : Pictures, late : BOOLEAN]
MediaTypes ==
    /\ images \in [Pictures -> Filenames \cup {Void}] /\ uploaded \in Pictures
    /\ ref \in [M!Spots -> Urls \cup {Void}] /\ mediaTask \in [MediaAdmins -> MediaTasks]
    /\ digest \in [Filenames -> Pictures \cup {Void}]
    /\ request \in [Readers -> Reads \cup {Void}]

(* An upload on its way has an image of its own, not yet there, and holds  *)
(* the images its transaction deleted, of the name it takes.               *)
Uploading(t) == t.op \in {"upload", "import"}
OwnUpload(t) ==
    /\ Uploading(t) => t.id \in 1..uploaded /\ images[t.id] = Void /\ t.new \in Filenames
    /\ t.gone # {} => Uploading(t) /\ t.at = "commit"
    /\ \A i \in t.gone : images[i] = t.new
Apart(t, u) == (Uploading(t) /\ Uploading(u) => t.id # u.id) /\ t.gone \cap u.gone = {}
Uploads ==
    /\ \A i \in Pictures : i > uploaded => images[i] = Void
    /\ \A a \in MediaAdmins : OwnUpload(mediaTask[a])
    /\ \A a, b \in MediaAdmins : a # b => Apart(mediaTask[a], mediaTask[b])

(* What a rename or a deletion read is still so, unless others wrote it.   *)
Hit(m, t) == m = t.old \/ M!Longer(m, t.old)
Matches(t, w) ==
    \A s \in M!Spots : M!Row(s) = w =>
      /\ w \in t.hit => t.ref[s] = IF Hit(ref[s], t) THEN M!rewrite_reference(t, ref[s]) ELSE ref[s]
      /\ w \notin t.hit => ~Hit(ref[s], t)
Follows(t) ==
    /\ t.at = "idle" => t.op = "none"
    /\ t.at = "invalidate" => t.op = "none"
    /\ t.op \in {"rename", "delete"} =>
         /\ t.id \in Pictures /\ t.old \in Filenames
         /\ "images" \notin t.dirty => images[t.id] = t.old
         /\ t.op = "rename" => t.new \in Filenames
         /\ t.at \in {"landing", "begin", "commit"} /\ "spec" \notin t.dirty => Matches(t, "spec")
         /\ t.at \in {"begin", "commit"} /\ "landing" \notin t.dirty => Matches(t, "landing")
         /\ t.at \in {"taken", "specs"} => t.hit = {}
         /\ t.at = "landing" => t.hit \subseteq {"spec"}
Following == \A a \in MediaAdmins : Follows(mediaTask[a])

(* A digest, and what a request holds, is of a file under its name, or     *)
(* accounted for.                                                          *)
Awaits(a, n) == mediaTask[a].at = "invalidate" /\ n \in M!Moved(mediaTask[a])
Digests ==
    /\ \A n \in Filenames : digest[n] # Void =>
         \/ images[digest[n]] = n \/ n \in raced \/ \E a \in MediaAdmins : Awaits(a, n)
    /\ \A r \in Readers : request[r] # Void =>
         images[request[r].id] = request[r].name \/ request[r].late

MediaInv == MediaTypes /\ Uploads /\ Following /\ Digests

LEMMA MediaIdle ==
    /\ M!Idle \in MediaTasks /\ Follows(M!Idle) /\ OwnUpload(M!Idle)
    /\ \A t : Apart(t, M!Idle) /\ Apart(M!Idle, t)
    /\ M!Idle.op = "none" /\ M!Idle.at = "idle" /\ M!Idle.gone = {} /\ M!Idle.dirty = {} /\ M!Idle.hit = {}
<1>1. [s \in M!Spots |-> Void] \in [M!Spots -> Urls \cup {Void}]
  OBVIOUS
<1>2. M!Idle \in MediaTasks
  BY <1>1 DEF M!Idle, MediaTasks
<1>3. Follows(M!Idle) /\ OwnUpload(M!Idle)
  BY DEF M!Idle, Follows, OwnUpload, Uploading
<1>4. \A t : Apart(t, M!Idle) /\ Apart(M!Idle, t)
  BY DEF M!Idle, Apart, Uploading
<1> QED
  BY <1>2, <1>3, <1>4 DEF M!Idle

LEMMA MediaTask ==
    ASSUME MediaInv, NEW a \in MediaAdmins
    PROVE  /\ mediaTask[a] \in MediaTasks /\ Follows(mediaTask[a]) /\ OwnUpload(mediaTask[a])
           /\ \A b \in MediaAdmins \ {a} : Apart(mediaTask[b], mediaTask[a]) /\ Apart(mediaTask[a], mediaTask[b])
  BY DEF MediaInv, MediaTypes, Uploads, Following

LEMMA PictureNames == M!Images = Pictures /\ M!Names = Filenames
  BY DEF M!Images, M!Names, M!Stems, Pictures, Filenames

LEMMA NamesAreUrls == Filenames \subseteq Urls /\ Void \notin Urls /\ Void \notin Filenames
  BY MediaAssumption DEF Filenames, Urls

(* What a reference becomes when its file is renamed.                      *)
LEMMA UrlRewritten ==
    ASSUME NEW t \in MediaTasks, t.op \in {"rename", "delete"}, t.old \in Filenames,
           t.op = "rename" => t.new \in Filenames
    PROVE  /\ \A m \in Urls : Hit(m, t) => M!rewrite_reference(t, m) \in Urls \cup {Void}
           /\ M!rewrite_reference(t, t.old) = IF t.op = "rename" THEN t.new ELSE Void
           /\ ~Hit(Void, t)
<1>1. t.old \in Urls /\ (t.op = "rename" => t.new \in Urls)
  BY NamesAreUrls
<1>2. CASE t.op = "delete"
  BY <1>1, <1>2, NamesAreUrls DEF M!rewrite_reference, Hit, M!Longer
<1>3. CASE t.op = "rename"
  <2>1. PICK a \in 1..MaxName, b \in Nat : t.old = <<a, b>>
    BY <1>1 DEF Urls
  <2>2. PICK c \in 1..MaxName, d \in Nat : t.new = <<c, d>>
    BY <1>1, <1>3 DEF Urls
  <2>3. \A m : M!rewrite_reference(t, m) = <<c, d + m[2] - b>>
    BY <1>3, <2>1, <2>2 DEF M!rewrite_reference
  <2>4. ASSUME NEW m \in Urls, Hit(m, t) PROVE M!rewrite_reference(t, m) \in Urls
    <3>1. PICK e \in 1..MaxName, f \in Nat : m = <<e, f>>
      BY DEF Urls
    <3>2. f >= b
      BY <2>1, <2>4, <3>1 DEF Hit, M!Longer
    <3>3. d + m[2] - b \in Nat
      BY <3>1, <3>2
    <3> QED
      BY <2>3, <3>3 DEF Urls
  <2>5. M!rewrite_reference(t, t.old) = t.new
    <3>1. d + b - b = d
      OBVIOUS
    <3> QED
      BY <2>1, <2>2, <2>3, <3>1
  <2> QED
    BY <1>1, <1>3, <2>4, <2>5, NamesAreUrls DEF Hit, M!Longer
<1> QED
  BY <1>2, <1>3

(* A request that goes on without touching a row.                          *)
LEMMA MediaGoes ==
    ASSUME MediaInv, NEW a \in MediaAdmins, NEW t \in MediaTasks, Follows(t), OwnUpload(t)',
           \A b \in MediaAdmins \ {a} : Apart(t, mediaTask[b]),
           t.at # "invalidate", mediaTask[a].at # "invalidate",
           mediaTask' = [mediaTask EXCEPT ![a] = t],
           uploaded' \in Pictures, uploaded <= uploaded',
           UNCHANGED <<images, ref, digest, request, raced>>
    PROVE  MediaInv'
<1>1. mediaTask \in [MediaAdmins -> MediaTasks]
  BY DEF MediaInv, MediaTypes
<1>2. \A b \in MediaAdmins : mediaTask'[b] = IF b = a THEN t ELSE mediaTask[b]
  BY <1>1
<1>3. MediaTypes'
  BY <1>1 DEF MediaInv, MediaTypes
<1>4. uploaded \in Nat /\ uploaded' \in Nat
  BY MediaAssumption DEF MediaInv, MediaTypes, Pictures
<1>5. Uploads'
  <2>1. \A i \in Pictures : i > uploaded' => images'[i] = Void
    BY <1>4 DEF MediaInv, Uploads, Pictures
  <2>2. ASSUME NEW s, OwnUpload(s) PROVE OwnUpload(s)'
    <3>1. 1..uploaded \subseteq 1..uploaded'
      BY <1>4
    <3> QED
      BY <2>2, <3>1 DEF OwnUpload
  <2>3. ASSUME NEW b \in MediaAdmins PROVE OwnUpload(mediaTask[b])'
    <3>1. CASE b = a
      BY <1>2, <3>1 DEF OwnUpload
    <3>2. CASE b # a
      <4>1. PICK s : s = mediaTask[b]
        OBVIOUS
      <4>2. OwnUpload(s)' /\ mediaTask'[b] = s
        BY <1>2, <2>2, <3>2, <4>1 DEF MediaInv, Uploads
      <4> QED
        BY <4>2 DEF OwnUpload
    <3> QED
      BY <3>1, <3>2
  <2>4. \A b, c \in MediaAdmins : b # c => Apart(mediaTask'[b], mediaTask'[c])
    <3>1. \A b \in MediaAdmins \ {a} : Apart(mediaTask[b], t)
      BY DEF Apart
    <3> QED
      BY <1>2, <3>1 DEF MediaInv, Uploads
  <2> QED
    BY <2>1, <2>3, <2>4 DEF Uploads, Apart
<1>6. Following'
  <2>1. ASSUME NEW s, Follows(s) PROVE Follows(s)'
    BY <2>1 DEF Follows, Matches
  <2>2. ASSUME NEW b \in MediaAdmins PROVE Follows(mediaTask[b])'
    <3>1. PICK s : s = mediaTask'[b]
      OBVIOUS
    <3>2. Follows(s)
      BY <1>2, <3>1 DEF MediaInv, Following
    <3>3. Follows(s)'
      BY <2>1, <3>2
    <3> QED
      BY <3>1, <3>3 DEF Follows, Matches
  <2> QED
    BY <2>2 DEF Following
<1>7. Digests'
  <2>1. \A b \in MediaAdmins : \A n : Awaits(b, n) => Awaits(b, n)'
    BY <1>2 DEF Awaits
  <2>2. \A n \in Filenames : (digest'[n] # Void =>
         \/ images'[digest'[n]] = n \/ n \in raced' \/ \E b \in MediaAdmins : Awaits(b, n)')
    BY <2>1 DEF MediaInv, Digests
  <2> QED
    BY <2>2 DEF MediaInv, Digests
<1> QED
  BY <1>3, <1>5, <1>6, <1>7 DEF MediaInv

(* As it is with what a handler goes on with: uploaded does not change.    *)
LEMMA MediaStays ==
    ASSUME MediaInv, NEW a \in MediaAdmins, NEW t \in MediaTasks, Follows(t), OwnUpload(t),
           \A b \in MediaAdmins \ {a} : Apart(t, mediaTask[b]),
           t.at # "invalidate", mediaTask[a].at # "invalidate", M!Goes(a, t),
           UNCHANGED <<images, uploaded, ref, digest, request, raced>>
    PROVE  MediaInv'
<1>1. OwnUpload(t)'
  BY DEF OwnUpload
<1>2. uploaded' \in Pictures /\ uploaded <= uploaded'
  BY DEF MediaInv, MediaTypes, Pictures
<1> QED
  BY <1>1, <1>2, MediaGoes DEF M!Goes

LEMMA MediaGivesUp ==
    ASSUME MediaInv, NEW a \in MediaAdmins, mediaTask[a].at # "invalidate", M!Goes(a, M!Idle),
           UNCHANGED <<images, uploaded, ref, digest, request, raced>>
    PROVE  MediaInv'
  BY MediaIdle, MediaStays

LEMMA MediaArrives ==
    ASSUME MediaInv, NEW a \in MediaAdmins, NEW op \in {"upload", "import"},
           NEW at \in {"probe", "begin"}, NEW new \in Filenames, M!Arrives(a, op, at, new)
    PROVE  MediaInv'
<1>1. PICK n : n = uploaded + 1
  OBVIOUS
<1>2. PICK t : t = [M!Idle EXCEPT !.op = op, !.at = at, !.id = n, !.new = new]
  OBVIOUS
<1>3. /\ mediaTask[a] = M!Idle /\ uploaded < MaxImages /\ uploaded' = n
      /\ mediaTask' = [mediaTask EXCEPT ![a] = t]
      /\ UNCHANGED <<images, ref, digest, request, raced>>
  BY <1>1, <1>2 DEF M!Arrives, M!Goes
<1>4. uploaded \in 1..MaxImages /\ n \in Pictures /\ n \in 1..uploaded'
  BY <1>1, <1>3, MediaAssumption DEF MediaInv, MediaTypes, Pictures
<1>5. t \in MediaTasks /\ t.op = op /\ t.at = at /\ t.id = n /\ t.new = new /\ t.gone = {}
  BY <1>2, <1>4, MediaIdle DEF MediaTasks
<1>6. Follows(t)
  BY <1>5 DEF Follows
<1>7. images[n] = Void
  BY <1>1, <1>4, MediaAssumption DEF MediaInv, Uploads, Pictures
<1>8. OwnUpload(t)'
  BY <1>3, <1>4, <1>5, <1>7 DEF OwnUpload
<1>9. ASSUME NEW b \in MediaAdmins \ {a} PROVE Apart(t, mediaTask[b])
  <2>1. Uploading(mediaTask[b]) => mediaTask[b].id \in 1..uploaded
    BY MediaTask DEF OwnUpload
  <2> QED
    BY <1>1, <1>4, <1>5, <2>1 DEF Apart
<1>10. mediaTask[a].at # "invalidate" /\ uploaded <= uploaded' /\ uploaded' \in Pictures
  BY <1>1, <1>3, <1>4, MediaIdle
<1> QED
  BY <1>3, <1>5, <1>6, <1>8, <1>9, <1>10, MediaGoes

LEMMA MediaUpload ==
    ASSUME MediaInv, NEW a \in MediaAdmins, M!Upload(a) \/ M!Import(a) PROVE MediaInv'
<1>1. <<1, 0>> \in Filenames
  BY MediaAssumption DEF Filenames
<1> QED
  BY <1>1, MediaArrives, PictureNames DEF M!Upload, M!Import

LEMMA MediaFilename == ASSUME MediaInv, NEW a \in MediaAdmins, M!unique_filename(a) PROVE MediaInv'
<1>1. PICK t : t = mediaTask[a]
  OBVIOUS
<1>2. /\ t.op = "upload" /\ t.at = "probe" /\ t \in MediaTasks /\ OwnUpload(t) /\ t.gone = {}
      /\ \A b \in MediaAdmins \ {a} : Apart(t, mediaTask[b])
      /\ UNCHANGED <<images, uploaded, ref, digest, request, raced>>
  BY <1>1, MediaTask DEF M!unique_filename, M!At, OwnUpload
<1> DEFINE tried == <<t.new[1] + 1, t.new[2]>>
<1>3. PICK u : /\ M!Goes(a, u)
               /\ \/ u = [t EXCEPT !.at = "begin"]
                  \/ tried \in Filenames /\ u = [t EXCEPT !.new = tried]
                  \/ u = M!Idle
  BY <1>1, PictureNames DEF M!unique_filename
<1> HIDE DEF tried
<1>4. CASE u = M!Idle
  BY <1>1, <1>2, <1>3, <1>4, MediaGivesUp
<1>5. CASE u = [t EXCEPT !.at = "begin"] \/ (tried \in Filenames /\ u = [t EXCEPT !.new = tried])
  <2>1. t.new \in Filenames
    BY <1>2 DEF OwnUpload, Uploading
  <2>2. /\ u \in MediaTasks /\ u.op = "upload" /\ u.at \in {"begin", "probe"} /\ u.id = t.id
        /\ u.new \in Filenames /\ u.gone = {}
    <3>1. CASE u = [t EXCEPT !.at = "begin"]
      BY <1>2, <2>1, <3>1 DEF MediaTasks
    <3>2. CASE tried \in Filenames /\ u = [t EXCEPT !.new = tried]
      BY <1>2, <2>1, <3>2 DEF MediaTasks
    <3> QED
      BY <1>5, <3>1, <3>2
  <2>3. Follows(u) /\ OwnUpload(u) /\ \A b \in MediaAdmins \ {a} : Apart(u, mediaTask[b])
    BY <1>2, <2>2 DEF Follows, OwnUpload, Apart, Uploading
  <2> QED
    BY <1>1, <1>2, <1>3, <2>2, <2>3, MediaStays
<1> QED
  BY <1>3, <1>4, <1>5

LEMMA MediaInsertDeletes == ASSUME MediaInv, NEW a \in MediaAdmins, M!InsertDeletes(a) PROVE MediaInv'
<1>1. PICK t : t = mediaTask[a]
  OBVIOUS
<1> DEFINE G == {i \in M!Images : images[i] = t.new}
           u == [t EXCEPT !.at = "commit", !.gone = G]
<1>2. /\ Uploading(t) /\ t.at = "begin" /\ t \in MediaTasks /\ OwnUpload(t)
      /\ \A b \in MediaAdmins \ {a} : Apart(t, mediaTask[b])
      /\ M!Goes(a, u) /\ \A i \in M!Images : images[i] = t.new => ~M!Locked(i)
      /\ UNCHANGED <<images, uploaded, ref, digest, request, raced>>
  BY <1>1, MediaTask DEF M!InsertDeletes, M!At, Uploading
<1>3. G \in SUBSET Pictures /\ \A i \in G : images[i] = t.new /\ \A b \in MediaAdmins : i \notin mediaTask[b].gone
  BY <1>2, PictureNames DEF M!Locked
<1> HIDE DEF G
<1>4. /\ u \in MediaTasks /\ u.op = t.op /\ u.at = "commit" /\ u.id = t.id /\ u.new = t.new
      /\ u.gone = G
  BY <1>2, <1>3 DEF MediaTasks
<1> HIDE DEF u
<1>5. Follows(u) /\ OwnUpload(u) /\ \A b \in MediaAdmins \ {a} : Apart(u, mediaTask[b])
  BY <1>2, <1>3, <1>4 DEF Follows, OwnUpload, Apart, Uploading
<1> QED
  BY <1>1, <1>2, <1>4, <1>5, MediaStays

LEMMA MediaLookup ==
    ASSUME MediaInv, NEW a \in MediaAdmins, NEW i \in Pictures, M!Lookup(a, i) PROVE MediaInv'
<1>1. /\ mediaTask[a] = M!Idle /\ images[i] # Void
      /\ UNCHANGED <<images, uploaded, ref, digest, request, raced>>
  BY DEF M!Lookup
<1>2. images[i] \in Filenames
  BY <1>1 DEF MediaInv, MediaTypes
<1>3. PICK u : /\ M!Goes(a, u)
               /\ \/ u = [M!Idle EXCEPT !.op = "delete", !.at = "specs", !.id = i, !.old = images[i]]
                  \/ \E n \in M!Names : u = [M!Idle EXCEPT !.op = "rename", !.at = "taken", !.id = i,
                                                           !.old = images[i], !.new = n]
  BY DEF M!Lookup
<1>4. /\ u \in MediaTasks /\ u.op \in {"rename", "delete"} /\ u.at \in {"specs", "taken"} /\ u.id = i
      /\ u.old = images[i] /\ u.gone = {} /\ u.hit = {} /\ (u.op = "rename" => u.new \in Filenames)
  <2>1. CASE u = [M!Idle EXCEPT !.op = "delete", !.at = "specs", !.id = i, !.old = images[i]]
    BY <1>2, <2>1, MediaIdle DEF MediaTasks
  <2>2. CASE \E n \in M!Names : u = [M!Idle EXCEPT !.op = "rename", !.at = "taken", !.id = i,
                                                   !.old = images[i], !.new = n]
    <3>1. PICK n \in Filenames : u = [M!Idle EXCEPT !.op = "rename", !.at = "taken", !.id = i,
                                                    !.old = images[i], !.new = n]
      BY <2>2, PictureNames
    <3> QED
      BY <1>2, <3>1, MediaIdle DEF MediaTasks
  <2> QED
    BY <1>3, <2>1, <2>2
<1>5. Follows(u) /\ OwnUpload(u) /\ \A b \in MediaAdmins \ {a} : Apart(u, mediaTask[b])
  BY <1>2, <1>4 DEF Follows, OwnUpload, Apart, Uploading
<1> QED
  BY <1>1, <1>3, <1>4, <1>5, MediaIdle, MediaStays

LEMMA MediaRenameTaken == ASSUME MediaInv, NEW a \in MediaAdmins, M!RenameTaken(a) PROVE MediaInv'
<1>1. PICK t : t = mediaTask[a]
  OBVIOUS
<1>2. /\ t.op = "rename" /\ t.at = "taken" /\ t \in MediaTasks /\ OwnUpload(t) /\ Follows(t)
      /\ \A b \in MediaAdmins \ {a} : Apart(t, mediaTask[b])
      /\ UNCHANGED <<images, uploaded, ref, digest, request, raced>>
      /\ M!Goes(a, M!Idle) \/ M!Goes(a, [t EXCEPT !.at = "specs"])
  BY <1>1, MediaTask DEF M!RenameTaken, M!At
<1>3. CASE M!Goes(a, M!Idle)
  BY <1>1, <1>2, <1>3, MediaGivesUp
<1>4. CASE M!Goes(a, [t EXCEPT !.at = "specs"])
  <2>1. PICK u : u = [t EXCEPT !.at = "specs"]
    OBVIOUS
  <2>2. /\ u \in MediaTasks /\ u.op = t.op /\ u.at = "specs" /\ u.id = t.id /\ u.new = t.new
        /\ u.old = t.old /\ u.gone = t.gone /\ u.hit = t.hit /\ u.dirty = t.dirty
    BY <1>2, <2>1 DEF MediaTasks
  <2>3. Follows(u) /\ OwnUpload(u) /\ \A b \in MediaAdmins \ {a} : Apart(u, mediaTask[b])
    BY <1>2, <2>2 DEF Follows, OwnUpload, Apart, Uploading
  <2> QED
    BY <1>1, <1>2, <1>4, <2>1, <2>2, <2>3, MediaStays
<1> QED
  BY <1>2, <1>3, <1>4

(* What a handler reads of a row it has not read before.                   *)
LEMMA MediaRead ==
    ASSUME NEW t \in MediaTasks, MediaTypes, NEW w \in M!Rows, w \notin t.hit, NEW u, u = M!Read(t, w),
           t.op \in {"rename", "delete"}, t.old \in Filenames, t.op = "rename" => t.new \in Filenames
    PROVE  /\ u \in MediaTasks /\ Matches(u, w)
           /\ u.op = t.op /\ u.at = t.at /\ u.id = t.id /\ u.new = t.new /\ u.old = t.old
           /\ u.gone = t.gone /\ u.dirty = t.dirty /\ t.hit \subseteq u.hit /\ u.hit \subseteq t.hit \cup {w}
           /\ \A v \in M!Rows : v # w /\ Matches(t, v) => Matches(u, v)
<1> DEFINE hits == {s \in M!Spots : M!Row(s) = w /\ M!references_image(s, t.old)}
           g == [s \in M!Spots |-> IF s \in hits THEN M!rewrite_reference(t, ref[s])
                                   ELSE IF M!Row(s) = w THEN ref[s] ELSE t.ref[s]]
<1>1. u = IF hits = {} THEN t ELSE [t EXCEPT !.ref = g, !.hit = t.hit \cup {w}]
  BY DEF M!Read, MediaTasks
<1>2. \A s \in hits : /\ M!Row(s) = w /\ s \in M!Spots /\ Hit(ref[s], t)
                      /\ M!rewrite_reference(t, ref[s]) \in Urls \cup {Void}
  <2>1. ASSUME NEW s \in hits PROVE M!Row(s) = w /\ s \in M!Spots /\ Hit(ref[s], t)
    BY DEF M!references_image, Hit
  <2>2. ASSUME NEW s \in hits PROVE M!rewrite_reference(t, ref[s]) \in Urls \cup {Void}
    <3>1. ref[s] \in Urls \cup {Void} /\ Hit(ref[s], t)
      BY <2>1 DEF MediaTypes
    <3> QED
      BY <3>1, UrlRewritten
  <2> QED
    BY <2>1, <2>2
<1>3. g \in [M!Spots -> Urls \cup {Void}]
  BY <1>2 DEF MediaTypes, MediaTasks
<1>4. t.hit \cup {w} \in SUBSET M!Rows
  BY DEF MediaTasks
<1>5. /\ \A s \in M!Spots : M!Row(s) = w => (s \in hits <=> Hit(ref[s], t))
      /\ \A s \in M!Spots : g[s] = IF s \in hits THEN M!rewrite_reference(t, ref[s])
                                   ELSE IF M!Row(s) = w THEN ref[s] ELSE t.ref[s]
  BY DEF M!references_image, Hit
<1> HIDE DEF hits, g
<1>6. CASE hits = {}
  BY <1>1, <1>5, <1>6 DEF Matches
<1>7. CASE hits # {}
  <2>1. /\ u \in MediaTasks /\ u.ref = g /\ u.hit = t.hit \cup {w}
        /\ u.op = t.op /\ u.at = t.at /\ u.id = t.id /\ u.new = t.new /\ u.old = t.old
        /\ u.gone = t.gone /\ u.dirty = t.dirty
    BY <1>1, <1>3, <1>4, <1>7 DEF MediaTasks
  <2>2. \A m : M!rewrite_reference(u, m) = M!rewrite_reference(t, m) /\ (Hit(m, u) <=> Hit(m, t))
    BY <2>1 DEF M!rewrite_reference, Hit
  <2>3. Matches(u, w)
    BY <1>2, <1>5, <2>1, <2>2 DEF Matches
  <2>4. \A v \in M!Rows : v # w /\ Matches(t, v) => Matches(u, v)
    BY <1>2, <1>5, <2>1, <2>2 DEF Matches
  <2> QED
    BY <2>1, <2>3, <2>4
<1> QED
  BY <1>6, <1>7

LEMMA MediaReadSpecs == ASSUME MediaInv, NEW a \in MediaAdmins, M!ReadSpecs(a) PROVE MediaInv'
<1>1. PICK t : t = mediaTask[a]
  OBVIOUS
<1>2. PICK v : v = M!Read(t, "spec")
  OBVIOUS
<1>3. PICK u : u = [v EXCEPT !.at = "landing"]
  OBVIOUS
<1>4. /\ t.op \in {"rename", "delete"} /\ t.at = "specs" /\ t \in MediaTasks /\ OwnUpload(t) /\ Follows(t)
      /\ \A b \in MediaAdmins \ {a} : Apart(t, mediaTask[b])
      /\ UNCHANGED <<images, uploaded, ref, digest, request, raced>> /\ M!Goes(a, u)
  BY <1>1, <1>2, <1>3, MediaTask DEF M!ReadSpecs, M!At
<1>5. /\ MediaTypes /\ t.hit = {} /\ t.old \in Filenames /\ (t.op = "rename" => t.new \in Filenames) /\ "spec" \in M!Rows
  BY <1>4 DEF Follows, MediaInv, M!Rows
<1>6. /\ v \in MediaTasks /\ Matches(v, "spec")
      /\ v.op = t.op /\ v.id = t.id /\ v.new = t.new /\ v.old = t.old
      /\ v.gone = t.gone /\ v.dirty = t.dirty /\ v.hit \subseteq {"spec"}
  BY <1>2, <1>4, <1>5, MediaRead
<1>7. /\ u \in MediaTasks /\ u.at = "landing" /\ u.op = t.op /\ u.id = t.id /\ u.new = t.new
      /\ u.old = t.old /\ u.gone = t.gone /\ u.dirty = t.dirty /\ u.hit = v.hit /\ u.ref = v.ref
  BY <1>3, <1>6 DEF MediaTasks
<1>8. Matches(u, "spec")
  BY <1>6, <1>7 DEF Matches, M!rewrite_reference, Hit
<1>9. Follows(u) /\ OwnUpload(u) /\ \A b \in MediaAdmins \ {a} : Apart(u, mediaTask[b])
  BY <1>4, <1>6, <1>7, <1>8 DEF Follows, OwnUpload, Apart, Uploading
<1> QED
  BY <1>1, <1>4, <1>7, <1>9, MediaStays

LEMMA MediaReadLanding == ASSUME MediaInv, NEW a \in MediaAdmins, M!ReadLanding(a) PROVE MediaInv'
<1>1. PICK t : t = mediaTask[a]
  OBVIOUS
<1>2. PICK v : v = M!Read(t, "landing")
  OBVIOUS
<1>3. PICK u : u = [v EXCEPT !.at = IF t.op = "rename" THEN "begin" ELSE "commit"]
  OBVIOUS
<1>4. /\ t.op \in {"rename", "delete"} /\ t.at = "landing" /\ t \in MediaTasks /\ OwnUpload(t) /\ Follows(t)
      /\ \A b \in MediaAdmins \ {a} : Apart(t, mediaTask[b])
      /\ UNCHANGED <<images, uploaded, ref, digest, request, raced>> /\ M!Goes(a, u)
  BY <1>1, <1>2, <1>3, MediaTask DEF M!ReadLanding, M!At
<1>5. /\ MediaTypes /\ "landing" \notin t.hit /\ t.old \in Filenames /\ (t.op = "rename" => t.new \in Filenames)
      /\ "landing" \in M!Rows /\ "spec" \in M!Rows
  BY <1>4 DEF Follows, MediaInv, M!Rows
<1>6. /\ v \in MediaTasks /\ Matches(v, "landing") /\ (Matches(t, "spec") => Matches(v, "spec"))
      /\ v.op = t.op /\ v.id = t.id /\ v.new = t.new /\ v.old = t.old
      /\ v.gone = t.gone /\ v.dirty = t.dirty
  BY <1>2, <1>4, <1>5, MediaRead
<1>7. /\ u \in MediaTasks /\ u.at \in {"begin", "commit"} /\ u.op = t.op /\ u.id = t.id /\ u.new = t.new
      /\ u.old = t.old /\ u.gone = t.gone /\ u.dirty = t.dirty /\ u.hit = v.hit /\ u.ref = v.ref
  BY <1>3, <1>6 DEF MediaTasks
<1>8. \A w \in M!Rows : Matches(v, w) => Matches(u, w)
  BY <1>6, <1>7 DEF Matches, M!rewrite_reference, Hit
<1>9. u.at \in {"begin", "commit"} /\ "spec" \notin u.dirty => Matches(u, "spec")
  BY <1>4, <1>5, <1>6, <1>7, <1>8 DEF Follows
<1>10. Follows(u) /\ OwnUpload(u) /\ \A b \in MediaAdmins \ {a} : Apart(u, mediaTask[b])
  BY <1>4, <1>5, <1>6, <1>7, <1>8, <1>9 DEF Follows, OwnUpload, Apart, Uploading
<1> QED
  BY <1>1, <1>4, <1>7, <1>10, MediaStays

LEMMA MediaRenameBegins == ASSUME MediaInv, NEW a \in MediaAdmins, M!RenameBegins(a) PROVE MediaInv'
<1>1. PICK t : t = mediaTask[a]
  OBVIOUS
<1>2. PICK u : u = [t EXCEPT !.at = "commit"]
  OBVIOUS
<1>3. /\ t.op = "rename" /\ t.at = "begin" /\ t \in MediaTasks /\ OwnUpload(t) /\ Follows(t)
      /\ \A b \in MediaAdmins \ {a} : Apart(t, mediaTask[b])
      /\ UNCHANGED <<images, uploaded, ref, digest, request, raced>>
      /\ M!Goes(a, M!Idle) \/ M!Goes(a, u)
  BY <1>1, <1>2, MediaTask DEF M!RenameBegins, M!At
<1>4. CASE M!Goes(a, M!Idle)
  BY <1>1, <1>3, <1>4, MediaGivesUp
<1>5. CASE M!Goes(a, u)
  <2>1. /\ u \in MediaTasks /\ u.op = t.op /\ u.at = "commit" /\ u.id = t.id /\ u.new = t.new
        /\ u.old = t.old /\ u.gone = t.gone /\ u.hit = t.hit /\ u.dirty = t.dirty /\ u.ref = t.ref
    BY <1>2, <1>3 DEF MediaTasks
  <2>2. \A w : Matches(t, w) => Matches(u, w)
    BY <2>1 DEF Matches, M!rewrite_reference, Hit
  <2>3. Follows(u) /\ OwnUpload(u) /\ \A b \in MediaAdmins \ {a} : Apart(u, mediaTask[b])
    BY <1>3, <2>1, <2>2 DEF Follows, OwnUpload, Apart, Uploading
  <2> QED
    BY <1>1, <1>3, <1>5, <2>1, <2>3, MediaStays
<1> QED
  BY <1>3, <1>4, <1>5

(* What another's commit does to a handler.                                *)
LEMMA MediaDisturbed ==
    ASSUME NEW u \in MediaTasks, NEW what \in SUBSET (M!Rows \cup {"images"}), NEW d,
           d = IF u.op \notin {"rename", "delete"} THEN u ELSE [u EXCEPT !.dirty = u.dirty \cup what]
    PROVE  /\ d \in MediaTasks /\ d.op = u.op /\ d.at = u.at /\ d.id = u.id /\ d.old = u.old /\ d.new = u.new
           /\ d.ref = u.ref /\ d.hit = u.hit /\ d.gone = u.gone
           /\ (u.op \in {"rename", "delete"} => d.dirty = u.dirty \cup what)
<1>1. u.dirty \cup what \in SUBSET (M!Rows \cup {"images"})
  BY DEF MediaTasks
<1>2. CASE u.op \notin {"rename", "delete"}
  BY <1>2
<1>3. CASE u.op \in {"rename", "delete"}
  BY <1>1, <1>3 DEF MediaTasks
<1> QED
  BY <1>2, <1>3

LEMMA MediaSeen ==
    ASSUME MediaInv, NEW b \in MediaAdmins, NEW what \in SUBSET (M!Rows \cup {"images"}), NEW d,
           d = M!Disturbed(b, what), images' = images \/ "images" \in what,
           \A s \in M!Spots : M!Row(s) \notin what => ref'[s] = ref[s]
    PROVE  /\ d \in MediaTasks /\ d.op = mediaTask[b].op /\ d.at = mediaTask[b].at /\ d.id = mediaTask[b].id
           /\ d.old = mediaTask[b].old /\ d.new = mediaTask[b].new /\ d.gone = mediaTask[b].gone
           /\ Follows(d)'
<1>1. PICK u : u = mediaTask[b]
  OBVIOUS
<1>2. u \in MediaTasks /\ Follows(u)
  BY <1>1, MediaTask
<1>3. d = IF u.op \notin {"rename", "delete"} THEN u ELSE [u EXCEPT !.dirty = u.dirty \cup what]
  BY <1>1 DEF M!Disturbed
<1>4. /\ d \in MediaTasks /\ d.op = u.op /\ d.at = u.at /\ d.id = u.id /\ d.old = u.old /\ d.new = u.new
      /\ d.ref = u.ref /\ d.hit = u.hit /\ d.gone = u.gone
      /\ (u.op \in {"rename", "delete"} => d.dirty = u.dirty \cup what)
  BY <1>2, <1>3, MediaDisturbed
<1>5. ASSUME NEW w, w \notin what, Matches(u, w) PROVE Matches(d, w)'
  <2>1. \A s \in M!Spots : M!Row(s) = w => ref'[s] = ref[s]
    BY <1>5
  <2>2. \A m : M!rewrite_reference(d, m) = M!rewrite_reference(u, m) /\ (Hit(m, d) <=> Hit(m, u))
    BY <1>4 DEF M!rewrite_reference, Hit
  <2> QED
    BY <1>4, <1>5, <2>1, <2>2 DEF Matches
<1>6. Follows(d)'
  BY <1>2, <1>4, <1>5 DEF Follows
<1> QED
  BY <1>1, <1>4, <1>6

(* A transaction commits: the images it moves are of names that the        *)
(* handler forgets next, or that count as raced.                           *)
LEMMA MediaEnds ==
    ASSUME MediaInv, NEW a \in MediaAdmins, NEW rows \in [Pictures -> Filenames \cup {Void}],
           NEW u \in MediaTasks, u.op = "none", u.gone = {}, u.at = "invalidate" \/ u = M!Idle,
           M!Ends(a, rows, u), mediaTask[a].at # "invalidate",
           ref' \in [M!Spots -> Urls \cup {Void}],
           \A s \in M!Spots : M!Row(s) \notin mediaTask[a].hit => ref'[s] = ref[s],
           \A i \in Pictures : i > uploaded => rows[i] = Void,
           \A b \in MediaAdmins \ {a} : Uploading(mediaTask[b]) => rows[mediaTask[b].id] = Void,
           \A b \in MediaAdmins \ {a} : \A i \in mediaTask[b].gone : rows[i] = images[i]
    PROVE  MediaInv'
<1>1. PICK t : t = mediaTask[a]
  OBVIOUS
<1>3. PICK what : what = {"images"} \cup t.hit
  OBVIOUS
<1>4. t \in MediaTasks /\ what \in SUBSET (M!Rows \cup {"images"})
  BY <1>1, <1>3, MediaTask DEF MediaTasks
<1>5. Follows(u)' /\ M!Moved(M!Idle) = {}
  BY MediaIdle DEF Follows, M!Moved, M!Idle
<1>6. /\ images' = rows /\ UNCHANGED <<uploaded, digest>>
      /\ mediaTask' = [b \in MediaAdmins |-> IF b = a THEN u ELSE M!Disturbed(b, what)]
      /\ raced' = raced \cup {n \in Filenames \ M!Moved(u) : M!Moves(n, digest[n], rows)}
  BY <1>1, <1>3, PictureNames DEF M!Ends
<1>21. request' = [r \in Readers |->
           IF request[r] # Void /\ M!Moves(request[r].name, request[r].id, rows)
           THEN [request[r] EXCEPT !.late = TRUE] ELSE request[r]]
  BY DEF M!Ends
<1>22. ASSUME NEW r \in Readers
       PROVE  /\ request'[r] \in Reads \cup {Void}
              /\ request'[r] # Void => images'[request'[r].id] = request'[r].name \/ request'[r].late
  <2>1. PICK q : q = request[r]
    OBVIOUS
  <2>2. /\ q \in Reads \cup {Void}
        /\ q # Void => images[q.id] = q.name \/ q.late
        /\ request'[r] = IF q # Void /\ M!Moves(q.name, q.id, rows) THEN [q EXCEPT !.late = TRUE] ELSE q
    BY <1>21, <2>1 DEF MediaInv, MediaTypes, Digests
  <2>3. CASE q # Void /\ M!Moves(q.name, q.id, rows)
    <3>1. PICK p : p = [q EXCEPT !.late = TRUE]
      OBVIOUS
    <3>2. p \in Reads /\ p.late
      BY <2>2, <2>3, <3>1 DEF Reads
    <3>3. request'[r] = p
      BY <2>2, <2>3, <3>1
    <3> QED
      BY <3>2, <3>3
  <2>4. CASE ~(q # Void /\ M!Moves(q.name, q.id, rows))
    <3>1. request'[r] = q
      BY <2>2, <2>4
    <3>2. ASSUME q # Void PROVE rows[q.id] = q.name \/ q.late
      <4>1. q.id \in Pictures /\ Void \notin Pictures
        BY <2>2, <3>2, MediaAssumption DEF Reads, Pictures
      <4> QED
        BY <2>2, <2>4, <3>2, <4>1 DEF M!Moves
    <3> QED
      BY <1>6, <2>2, <3>1, <3>2
  <2> QED
    BY <2>3, <2>4
<1>7. \A s \in M!Spots : M!Row(s) \notin what => ref'[s] = ref[s]
  BY <1>1, <1>3
<1>8. ASSUME NEW b \in MediaAdmins
      PROVE  /\ mediaTask'[b] \in MediaTasks
             /\ b # a => /\ mediaTask'[b].op = mediaTask[b].op /\ mediaTask'[b].id = mediaTask[b].id
                         /\ mediaTask'[b].at = mediaTask[b].at
                         /\ mediaTask'[b].old = mediaTask[b].old /\ mediaTask'[b].new = mediaTask[b].new
                         /\ mediaTask'[b].gone = mediaTask[b].gone
             /\ Follows(mediaTask[b])'
  <2>1. CASE b = a
    <3>1. mediaTask'[b] = u /\ Follows(u)'
      BY <1>5, <1>6, <2>1
    <3> QED
      BY <2>1, <3>1 DEF Follows, Matches
  <2>2. CASE b # a
    <3>1. PICK d : d = M!Disturbed(b, what)
      OBVIOUS
    <3>2. "images" \in what
      BY <1>3
    <3>3. /\ d \in MediaTasks /\ d.op = mediaTask[b].op /\ d.at = mediaTask[b].at /\ d.id = mediaTask[b].id
          /\ d.old = mediaTask[b].old /\ d.new = mediaTask[b].new /\ d.gone = mediaTask[b].gone
          /\ Follows(d)'
      BY <1>4, <1>7, <3>1, <3>2, MediaSeen
    <3>4. mediaTask'[b] = d
      BY <1>6, <2>2, <3>1
    <3>5. Follows(mediaTask[b])'
      BY <3>3, <3>4 DEF Follows, Matches
    <3> QED
      BY <2>2, <3>3, <3>4, <3>5
  <2> QED
    BY <2>1, <2>2
<1>9. MediaTypes'
  <2>1. mediaTask' \in [MediaAdmins -> MediaTasks]
    BY <1>6, <1>8
  <2>2. request' \in [Readers -> Reads \cup {Void}]
    BY <1>21, <1>22
  <2> QED
    BY <1>6, <2>1, <2>2 DEF MediaInv, MediaTypes
<1>10. Uploads'
  <2>1. \A i \in Pictures : i > uploaded' => images'[i] = Void
    BY <1>6
  <2>2. ASSUME NEW b \in MediaAdmins PROVE OwnUpload(mediaTask[b])'
    <3>1. CASE b = a
      <4>1. mediaTask'[b] = u
        BY <1>6, <3>1
      <4> QED
        BY <4>1 DEF OwnUpload, Uploading
    <3>2. CASE b # a
      <4>1. OwnUpload(mediaTask[b])
        BY MediaTask
      <4> QED
        BY <1>6, <1>8, <3>2, <4>1 DEF OwnUpload, Uploading
    <3> QED
      BY <3>1, <3>2
  <2>3. ASSUME NEW b \in MediaAdmins, NEW c \in MediaAdmins, b # c PROVE Apart(mediaTask[b], mediaTask[c])'
    <3>1. Apart(mediaTask[b], mediaTask[c])
      BY <2>3 DEF MediaInv, Uploads
    <3>2. mediaTask'[a].op = "none" /\ mediaTask'[a].gone = {}
      BY <1>6
    <3> QED
      BY <1>8, <2>3, <3>1, <3>2 DEF Apart, Uploading
  <2> QED
    BY <2>1, <2>2, <2>3 DEF Uploads
<1>11. Following'
  BY <1>8 DEF Following
<1>12. Digests'
  <2>1. ASSUME NEW n \in Filenames, digest'[n] # Void
        PROVE  images'[digest'[n]] = n \/ n \in raced' \/ \E b \in MediaAdmins : Awaits(b, n)'
    <3>1. digest[n] # Void /\ digest[n] \in Pictures
      BY <1>6, <2>1 DEF MediaInv, MediaTypes
    <3>2. CASE images[digest[n]] = n
      <4>1. n \in M!Moved(u) => Awaits(a, n)'
        <5>1. mediaTask'[a] = u
          BY <1>6
        <5> QED
          BY <1>5, <5>1 DEF Awaits, M!Moved
      <4> QED
        BY <1>6, <2>1, <3>1, <3>2, <4>1 DEF M!Moves
    <3>3. CASE n \in raced
      BY <1>6, <3>3
    <3>4. CASE \E b \in MediaAdmins : Awaits(b, n)
      <4>1. PICK b \in MediaAdmins : Awaits(b, n)
        BY <3>4
      <4>2. b # a
        BY <4>1 DEF Awaits
      <4>3. Awaits(b, n)'
        BY <1>8, <4>1, <4>2 DEF Awaits, M!Moved
      <4> QED
        BY <4>3
    <3> QED
      BY <3>1, <3>2, <3>3, <3>4 DEF MediaInv, Digests
  <2> QED
    BY <1>22, <2>1 DEF Digests
<1> QED
  BY <1>9, <1>10, <1>11, <1>12 DEF MediaInv

LEMMA MediaCommits ==
    ASSUME MediaInv, NEW a \in MediaAdmins, NEW rows \in [Pictures -> Filenames \cup {Void}],
           NEW old \in Filenames \cup {Void}, M!Commits(a, rows, old), mediaTask[a].at # "invalidate",
           ref' \in [M!Spots -> Urls \cup {Void}],
           \A s \in M!Spots : M!Row(s) \notin mediaTask[a].hit => ref'[s] = ref[s],
           \A i \in Pictures : i > uploaded => rows[i] = Void,
           \A b \in MediaAdmins \ {a} : Uploading(mediaTask[b]) => rows[mediaTask[b].id] = Void,
           \A b \in MediaAdmins \ {a} : \A i \in mediaTask[b].gone : rows[i] = images[i]
    PROVE  MediaInv'
<1>1. PICK u : /\ M!Ends(a, rows, u)
               /\ \/ u = M!Idle
                  \/ u = [M!Idle EXCEPT !.at = "invalidate", !.old = old, !.new = mediaTask[a].new]
  BY DEF M!Commits
<1>2. mediaTask[a].new \in Filenames \cup {Void}
  BY MediaTask DEF MediaTasks
<1>3. u \in MediaTasks /\ u.op = "none" /\ u.gone = {} /\ (u.at = "invalidate" \/ u = M!Idle)
  <2>1. CASE u = M!Idle
    BY <2>1, MediaIdle
  <2>2. CASE u = [M!Idle EXCEPT !.at = "invalidate", !.old = old, !.new = mediaTask[a].new]
    BY <1>2, <2>2, MediaIdle DEF MediaTasks
  <2> QED
    BY <1>1, <2>1, <2>2
<1> QED
  BY <1>1, <1>3, MediaEnds

LEMMA MediaInsert == ASSUME MediaInv, NEW a \in MediaAdmins, M!insert(a) PROVE MediaInv'
<1>1. PICK t : t = mediaTask[a]
  OBVIOUS
<1>2. PICK rows : rows = [i \in M!Images |-> IF i = t.id THEN t.new ELSE IF i \in t.gone THEN Void ELSE images[i]]
  OBVIOUS
<1>3. /\ Uploading(t) /\ t.at = "commit" /\ t \in MediaTasks /\ OwnUpload(t)
      /\ \A b \in MediaAdmins \ {a} : Apart(t, mediaTask[b])
      /\ M!Commits(a, rows, Void) /\ ref' = ref
  BY <1>1, <1>2, MediaTask DEF M!insert, M!At, Uploading
<1>4. /\ t.id \in 1..uploaded /\ images[t.id] = Void /\ t.new \in Filenames /\ Void \notin Filenames
      /\ \A i \in t.gone : images[i] = t.new
  BY <1>3, NamesAreUrls DEF OwnUpload
<1>5. rows \in [Pictures -> Filenames \cup {Void}]
  BY <1>2, <1>4, PictureNames DEF MediaInv, MediaTypes
<1>6. \A i \in Pictures : i > uploaded => rows[i] = Void
  BY <1>2, <1>4, PictureNames DEF MediaInv, MediaTypes, Uploads, Pictures
<1>7. ASSUME NEW b \in MediaAdmins \ {a}, Uploading(mediaTask[b]) PROVE rows[mediaTask[b].id] = Void
  <2>1. mediaTask[b].id \in Pictures /\ images[mediaTask[b].id] = Void /\ mediaTask[b].id # t.id
    BY <1>3, <1>7, MediaTask, MediaAssumption DEF OwnUpload, Apart, Pictures, MediaInv, MediaTypes
  <2> QED
    BY <1>2, <2>1, PictureNames
<1>8. ASSUME NEW b \in MediaAdmins \ {a}, NEW i \in mediaTask[b].gone PROVE rows[i] = images[i]
  <2>1. i \in Pictures /\ images[i] = mediaTask[b].new /\ mediaTask[b].new \in Filenames /\ i \notin t.gone
    BY <1>3, MediaTask DEF OwnUpload, Apart, MediaTasks
  <2> QED
    BY <1>2, <1>4, <2>1, PictureNames
<1>10. ref' \in [M!Spots -> Urls \cup {Void}]
  BY <1>3 DEF MediaInv, MediaTypes
<1> QED
  BY <1>1, <1>3, <1>5, <1>6, <1>7, <1>8, <1>10, MediaCommits

LEMMA MediaWithRefs ==
    ASSUME MediaInv, NEW a \in MediaAdmins, M!At(a, {"rename", "delete"}, "commit"),
           ~M!Locked(mediaTask[a].id), M!WithRefs(a)
    PROVE  MediaInv'
<1>1. PICK t : t = mediaTask[a]
  OBVIOUS
<1>2. PICK now : now = images[t.id]
  OBVIOUS
<1>3. PICK rows : rows = [images EXCEPT ![t.id] = IF t.op = "rename" THEN t.new ELSE Void]
  OBVIOUS
<1>4. PICK old : old = IF t.op = "rename" THEN t.old ELSE now
  OBVIOUS
<1>6. /\ t.op \in {"rename", "delete"} /\ t.at = "commit" /\ t \in MediaTasks /\ Follows(t) /\ now # Void
      /\ M!Commits(a, rows, old)
      /\ ref' = [s \in M!Spots |-> IF M!Row(s) \in t.hit THEN t.ref[s] ELSE ref[s]]
      /\ \A b \in MediaAdmins : t.id \notin mediaTask[b].gone
  BY <1>1, <1>2, <1>3, <1>4, MediaTask DEF M!WithRefs, M!At, M!Locked
<1>7. /\ t.id \in Pictures /\ (t.op = "rename" => t.new \in Filenames) /\ now \in Filenames
      /\ images \in [Pictures -> Filenames \cup {Void}]
  BY <1>2, <1>6 DEF Follows, MediaInv, MediaTypes
<1>8. /\ rows \in [Pictures -> Filenames \cup {Void}]
      /\ \A i \in Pictures \ {t.id} : rows[i] = images[i]
  BY <1>3, <1>7
<1>9. old \in Filenames \cup {Void}
  BY <1>4, <1>6, <1>7 DEF MediaTasks
<1>10. t.ref \in [M!Spots -> Urls \cup {Void}] /\ ref \in [M!Spots -> Urls \cup {Void}]
  BY <1>6 DEF MediaInv, MediaTypes, MediaTasks
<1>11. /\ ref' \in [M!Spots -> Urls \cup {Void}]
       /\ \A s \in M!Spots : M!Row(s) \notin t.hit => ref'[s] = ref[s]
  BY <1>6, <1>10
<1>12. \A i \in Pictures : i > uploaded => rows[i] = Void
  BY <1>2, <1>6, <1>7, <1>8 DEF MediaInv, Uploads
<1>13. ASSUME NEW b \in MediaAdmins \ {a}, Uploading(mediaTask[b]) PROVE rows[mediaTask[b].id] = Void
  <2>1. mediaTask[b].id \in Pictures /\ images[mediaTask[b].id] = Void
    BY <1>13, MediaTask, MediaAssumption DEF OwnUpload, Pictures, MediaInv, MediaTypes
  <2> QED
    BY <1>2, <1>6, <1>8, <2>1
<1>14. ASSUME NEW b \in MediaAdmins \ {a}, NEW i \in mediaTask[b].gone PROVE rows[i] = images[i]
  <2>1. i \in Pictures /\ i # t.id
    BY <1>6, MediaTask DEF MediaTasks
  <2> QED
    BY <1>8, <2>1
<1>16. mediaTask[a].at # "invalidate"
  BY <1>1, <1>6
<1> QED
  BY <1>1, <1>6, <1>8, <1>9, <1>11, <1>12, <1>13, <1>14, <1>16, MediaCommits

LEMMA MediaHandlerCommits ==
    ASSUME MediaInv, NEW a \in MediaAdmins, M!rename_with_refs(a) \/ M!delete_with_refs(a) PROVE MediaInv'
<1>1. M!At(a, {"rename", "delete"}, "commit") /\ ~M!Locked(mediaTask[a].id) /\ (M!WithRefs(a) \/ M!Gone(a))
  BY DEF M!rename_with_refs, M!delete_with_refs, M!At
<1>2. CASE M!WithRefs(a)
  BY <1>1, <1>2, MediaWithRefs
<1>3. CASE M!Gone(a)
  BY <1>1, <1>3, MediaGivesUp DEF M!Gone, M!At
<1> QED
  BY <1>1, <1>2, <1>3

LEMMA MediaInvalidate == ASSUME MediaInv, NEW a \in MediaAdmins, M!Invalidate(a) PROVE MediaInv'
<1>1. PICK t : t = mediaTask[a]
  OBVIOUS
<1>2. /\ t.at = "invalidate" /\ t \in MediaTasks /\ mediaTask' = [mediaTask EXCEPT ![a] = M!Idle]
      /\ digest' = [n \in M!Names |-> IF n \in M!Moved(t) THEN Void ELSE digest[n]]
      /\ raced' = raced \ M!Moved(t) /\ UNCHANGED <<images, uploaded, ref, request>>
  BY <1>1, MediaTask DEF M!Invalidate, M!Goes, M!invalidate_thumb
<1>3. \A b \in MediaAdmins : mediaTask'[b] = IF b = a THEN M!Idle ELSE mediaTask[b]
  BY <1>2 DEF MediaInv, MediaTypes
<1>4. MediaTypes'
  <2>1. digest' \in [Filenames -> Pictures \cup {Void}]
    BY <1>2, PictureNames DEF MediaInv, MediaTypes
  <2> QED
    BY <1>2, <2>1, MediaIdle DEF MediaInv, MediaTypes
<1>5. Uploads'
  <2>1. ASSUME NEW b \in MediaAdmins PROVE OwnUpload(mediaTask[b])'
    BY <1>2, <1>3, MediaIdle, MediaTask DEF OwnUpload
  <2>2. ASSUME NEW b \in MediaAdmins, NEW c \in MediaAdmins, b # c PROVE Apart(mediaTask[b], mediaTask[c])'
    <3>1. Apart(mediaTask[b], mediaTask[c])
      BY <2>2 DEF MediaInv, Uploads
    <3> QED
      BY <1>3, <2>2, <3>1, MediaIdle DEF Apart
  <2> QED
    BY <1>2, <2>1, <2>2 DEF MediaInv, Uploads
<1>6. Following'
  <2>1. ASSUME NEW b \in MediaAdmins PROVE Follows(mediaTask[b])'
    <3>1. CASE b = a
      <4>1. mediaTask'[b] = M!Idle
        BY <1>3, <3>1
      <4> QED
        BY <4>1, MediaIdle DEF Follows
    <3>2. CASE b # a
      <4>1. mediaTask'[b] = mediaTask[b] /\ Follows(mediaTask[b])
        BY <1>3, <3>2, MediaTask
      <4> QED
        BY <1>2, <4>1 DEF Follows, Matches
    <3> QED
      BY <3>1, <3>2
  <2> QED
    BY <2>1 DEF Following
<1>7. Digests'
  <2>1. ASSUME NEW n \in Filenames, digest'[n] # Void
        PROVE  images'[digest'[n]] = n \/ n \in raced' \/ \E b \in MediaAdmins : Awaits(b, n)'
    <3>1. n \notin M!Moved(t) /\ digest'[n] = digest[n]
      BY <1>2, <2>1, PictureNames
    <3>2. ASSUME NEW b \in MediaAdmins, Awaits(b, n) PROVE Awaits(b, n)'
      <4>1. b # a
        BY <1>1, <3>1, <3>2 DEF Awaits
      <4> QED
        BY <1>3, <3>2, <4>1 DEF Awaits
    <3> QED
      BY <1>2, <2>1, <3>1, <3>2 DEF MediaInv, Digests
  <2> QED
    BY <1>2, <2>1 DEF MediaInv, Digests
<1> QED
  BY <1>4, <1>5, <1>6, <1>7 DEF MediaInv

LEMMA MediaEditRow == ASSUME MediaInv, NEW z \in M!Spots, M!EditRow(z) PROVE MediaInv'
<1> DEFINE w == M!Row(z)
<1>7. w \in M!Rows
  BY DEF M!Row, M!Rows
<1>8. PICK m \in Filenames \cup {Void} : ref' = [ref EXCEPT ![z] = m]
  BY PictureNames DEF M!EditRow
<1>1. /\ ref' \in [M!Spots -> Urls \cup {Void}] /\ \A s \in M!Spots : M!Row(s) # w => ref'[s] = ref[s]
      /\ mediaTask' = [a \in MediaAdmins |-> M!Disturbed(a, {w})]
      /\ UNCHANGED <<images, uploaded, digest, request, raced>>
  <2>1. ref \in [M!Spots -> Urls \cup {Void}] /\ m \in Urls \cup {Void}
    BY NamesAreUrls DEF MediaInv, MediaTypes
  <2>2. ref' \in [M!Spots -> Urls \cup {Void}] /\ \A s \in M!Spots : s # z => ref'[s] = ref[s]
    BY <1>8, <2>1
  <2> QED
    BY <2>2 DEF M!EditRow
<1> HIDE DEF w
<1>2. ASSUME NEW b \in MediaAdmins
      PROVE  /\ mediaTask'[b] \in MediaTasks /\ mediaTask'[b].at = mediaTask[b].at
             /\ mediaTask'[b].op = mediaTask[b].op /\ mediaTask'[b].id = mediaTask[b].id
             /\ mediaTask'[b].old = mediaTask[b].old /\ mediaTask'[b].new = mediaTask[b].new
             /\ mediaTask'[b].gone = mediaTask[b].gone
             /\ Follows(mediaTask[b])'
  <2>1. PICK d : d = M!Disturbed(b, {w})
    OBVIOUS
  <2>2. \A s \in M!Spots : M!Row(s) \notin {w} => ref'[s] = ref[s]
    BY <1>1
  <2>3. {w} \in SUBSET (M!Rows \cup {"images"}) /\ images' = images
    BY <1>1, <1>7
  <2>4. /\ d \in MediaTasks /\ d.op = mediaTask[b].op /\ d.at = mediaTask[b].at /\ d.id = mediaTask[b].id
        /\ d.old = mediaTask[b].old /\ d.new = mediaTask[b].new /\ d.gone = mediaTask[b].gone
        /\ Follows(d)'
    BY <2>1, <2>2, <2>3, MediaSeen
  <2>5. mediaTask'[b] = d
    BY <1>1, <2>1
  <2>6. Follows(mediaTask[b])'
    BY <2>4, <2>5 DEF Follows, Matches
  <2> QED
    BY <2>4, <2>5, <2>6
<1>3. MediaTypes'
  BY <1>1, <1>2 DEF MediaInv, MediaTypes
<1>4. Uploads'
  <2>1. ASSUME NEW b \in MediaAdmins PROVE OwnUpload(mediaTask[b])'
    <3>1. OwnUpload(mediaTask[b])
      BY MediaTask
    <3> QED
      BY <1>1, <1>2, <3>1 DEF OwnUpload, Uploading
  <2>2. ASSUME NEW b \in MediaAdmins, NEW c \in MediaAdmins, b # c PROVE Apart(mediaTask[b], mediaTask[c])'
    <3>1. Apart(mediaTask[b], mediaTask[c])
      BY <2>2 DEF MediaInv, Uploads
    <3> QED
      BY <1>2, <3>1 DEF Apart, Uploading
  <2> QED
    BY <1>1, <2>1, <2>2 DEF MediaInv, Uploads
<1>5. Following'
  BY <1>2 DEF Following
<1>6. Digests'
  <2>1. \A b \in MediaAdmins : \A n : Awaits(b, n) => Awaits(b, n)'
    BY <1>2 DEF Awaits, M!Moved
  <2> QED
    BY <1>1, <2>1 DEF MediaInv, Digests
<1> QED
  BY <1>3, <1>4, <1>5, <1>6 DEF MediaInv

(* The requests leave the rows and the handlers alone.                     *)
LEMMA MediaRequests ==
    ASSUME MediaInv, UNCHANGED <<images, uploaded, ref, mediaTask>>,
           digest' \in [Filenames -> Pictures \cup {Void}],
           request' \in [Readers -> Reads \cup {Void}], Digests'
    PROVE  MediaInv'
<1>1. MediaTypes'
  BY DEF MediaInv, MediaTypes
<1>2. Uploads'
  BY DEF MediaInv, Uploads, OwnUpload, Apart
<1>3. Following'
  BY DEF MediaInv, Following, Follows, Matches
<1> QED
  BY <1>1, <1>2, <1>3 DEF MediaInv

LEMMA MediaFetch ==
    ASSUME MediaInv, NEW r \in Readers, NEW i \in Pictures, M!Fetch(r, i) PROVE MediaInv'
<1>1. PICK q : q = [name |-> images[i], id |-> i, late |-> FALSE]
  OBVIOUS
<1>2. /\ images[i] # Void /\ request' = [request EXCEPT ![r] = q]
      /\ UNCHANGED <<images, uploaded, ref, mediaTask, digest, raced>>
  BY <1>1 DEF M!Fetch
<1>3. q \in Reads /\ images[q.id] = q.name
  BY <1>1, <1>2 DEF MediaInv, MediaTypes, Reads
<1>4. \A v \in Readers : request'[v] = request[v] \/ request'[v] = q
  BY <1>2
<1>5. Digests'
  <2>1. \A b \in MediaAdmins : \A n : Awaits(b, n) => Awaits(b, n)'
    BY <1>2 DEF Awaits
  <2> QED
    BY <1>2, <1>3, <1>4, <2>1 DEF MediaInv, Digests
<1>6. request' \in [Readers -> Reads \cup {Void}]
  BY <1>2, <1>3 DEF MediaInv, MediaTypes
<1>7. digest' \in [Filenames -> Pictures \cup {Void}]
  BY <1>2 DEF MediaInv, MediaTypes
<1> QED
  BY <1>2, <1>5, <1>6, <1>7, MediaRequests

LEMMA MediaRemember == ASSUME MediaInv, NEW r \in Readers, M!Remember(r) PROVE MediaInv'
<1>1. PICK q : q = request[r]
  OBVIOUS
<1>2. /\ q # Void /\ digest' = [digest EXCEPT ![q.name] = q.id] /\ request' = [request EXCEPT ![r] = Void]
      /\ raced' = (IF q.late THEN raced \cup {q.name} ELSE raced \ {q.name})
      /\ UNCHANGED <<images, uploaded, ref, mediaTask>>
  BY <1>1 DEF M!Remember
<1>3. q \in Reads /\ (images[q.id] = q.name \/ q.late)
  BY <1>1, <1>2 DEF MediaInv, MediaTypes, Digests
<1>4. q.name \in Filenames /\ q.id \in Pictures
  BY <1>3 DEF Reads
<1>5. /\ digest' \in [Filenames -> Pictures \cup {Void}]
      /\ \A n \in Filenames : digest'[n] = IF n = q.name THEN q.id ELSE digest[n]
  BY <1>2, <1>4 DEF MediaInv, MediaTypes
<1>6. \A v \in Readers : request'[v] = request[v] \/ request'[v] = Void
  BY <1>2
<1>7. Digests'
  <2>1. \A b \in MediaAdmins : \A n : Awaits(b, n) => Awaits(b, n)'
    BY <1>2 DEF Awaits
  <2>2. \A n \in Filenames : digest'[n] # Void =>
          images'[digest'[n]] = n \/ n \in raced' \/ \E b \in MediaAdmins : Awaits(b, n)'
    BY <1>2, <1>3, <1>5, <2>1 DEF MediaInv, Digests
  <2>3. \A v \in Readers : request'[v] # Void =>
          images'[request'[v].id] = request'[v].name \/ request'[v].late
    BY <1>2, <1>6 DEF MediaInv, Digests
  <2> QED
    BY <2>2, <2>3 DEF Digests
<1>8. request' \in [Readers -> Reads \cup {Void}]
  BY <1>2 DEF MediaInv, MediaTypes
<1> QED
  BY <1>2, <1>5, <1>7, <1>8, MediaRequests

LEMMA MediaStart == M!Init => MediaInv
<1> SUFFICES ASSUME M!Init PROVE MediaInv
  OBVIOUS
<1>1. 1 \in Pictures /\ <<1, 0>> \in Filenames /\ <<1, 0>> \in Urls
  BY MediaAssumption DEF Pictures, Filenames, Urls
<1>2. /\ images = [i \in Pictures |-> IF i = 1 THEN <<1, 0>> ELSE Void] /\ uploaded = 1
      /\ \E n \in {Void, <<1, 0>>} : ref = [s \in M!Spots |-> n]
      /\ mediaTask = [a \in MediaAdmins |-> M!Idle]
      /\ digest = [n \in Filenames |-> Void] /\ request = [r \in Readers |-> Void]
  BY PictureNames DEF M!Init
<1>3. MediaTypes
  BY <1>1, <1>2, MediaIdle DEF MediaTypes
<1>4. Uploads
  <2>1. \A i \in Pictures : i > 1 => images[i] = Void
    BY <1>2 DEF Pictures
  <2> QED
    BY <1>2, <2>1, MediaIdle DEF Uploads
<1>5. Following /\ Digests
  BY <1>2, MediaIdle DEF Following, Digests
<1> QED
  BY <1>3, <1>4, <1>5 DEF MediaInv

LEMMA MediaStep == MediaInv /\ [M!Next]_(M!vars) => MediaInv'
<1> SUFFICES ASSUME MediaInv, [M!Next]_(M!vars) PROVE MediaInv'
  OBVIOUS
<1>1. CASE UNCHANGED M!vars
  <2>1. UNCHANGED <<images, uploaded, ref, mediaTask, digest, request, raced>>
    BY <1>1 DEF M!vars
  <2>2. Digests'
    BY <2>1 DEF MediaInv, Digests, Awaits
  <2> QED
    BY <2>1, <2>2, MediaRequests DEF MediaInv, MediaTypes
<1>2. CASE \E a \in MediaAdmins :
             \/ M!Upload(a) \/ M!Import(a) \/ M!unique_filename(a) \/ M!InsertDeletes(a) \/ M!insert(a)
             \/ M!RenameTaken(a) \/ M!ReadSpecs(a) \/ M!ReadLanding(a) \/ M!RenameBegins(a)
             \/ M!rename_with_refs(a) \/ M!delete_with_refs(a) \/ M!Invalidate(a)
             \/ \E i \in Pictures : M!Lookup(a, i)
  BY <1>2, MediaUpload, MediaFilename, MediaInsertDeletes, MediaInsert, MediaRenameTaken, MediaReadSpecs,
     MediaReadLanding, MediaRenameBegins, MediaHandlerCommits, MediaInvalidate, MediaLookup
<1>3. CASE \E s \in M!Spots : M!EditRow(s)
  BY <1>3, MediaEditRow
<1>4. CASE \E r \in Readers : M!Remember(r) \/ \E i \in Pictures : M!Fetch(r, i)
  BY <1>4, MediaRemember, MediaFetch
<1> QED
  BY <1>1, <1>2, <1>3, <1>4, PictureNames DEF M!Next

(* The invariant of the media library.                                     *)
THEOREM MediaInvariance == M!Spec => []MediaInv
  BY MediaStart, MediaStep, PTL DEF M!Spec

(* What MediaInv says of the digests is what DigestsExplained says.        *)
LEMMA DigestsAre == MediaInv => M!DigestsExplained
  BY PictureNames DEF MediaInv, Digests, M!DigestsExplained, Awaits

(* A handler whose reading still holds at its commit takes every name of   *)
(* the file along, and no other but the longer ones that begin with it.    *)
LEMMA MediaRefsStep ==
    ASSUME MediaInv, NEW a \in MediaAdmins, M!rename_with_refs(a) \/ M!delete_with_refs(a),
           "images" \notin mediaTask[a].dirty, NEW s \in M!Spots, M!Row(s) \notin mediaTask[a].dirty,
           ~M!Longer(ref[s], mediaTask[a].old)
    PROVE  /\ M!Resolves(ref[s]) => M!Resolves(ref[s])'
           /\ ref'[s] # ref[s] => ref[s] = mediaTask[a].old
<1>1. PICK t : t = mediaTask[a]
  OBVIOUS
<1>2. /\ t.op \in {"rename", "delete"} /\ t.at = "commit" /\ t \in MediaTasks /\ Follows(t)
      /\ M!WithRefs(a) \/ M!Gone(a)
  BY <1>1, MediaTask DEF M!rename_with_refs, M!delete_with_refs, M!At
<1>3. /\ t.id \in Pictures /\ images[t.id] = t.old /\ (t.op = "rename" => t.new \in Filenames)
      /\ (M!Row(s) \in {"spec", "landing"} => Matches(t, M!Row(s))) /\ M!Row(s) \in {"spec", "landing"}
  BY <1>1, <1>2 DEF Follows, M!Row
<1>4. CASE M!Gone(a)
  BY <1>4 DEF M!Gone, M!Resolves, M!filename_taken
<1>5. CASE M!WithRefs(a)
  <2>1. /\ images' = [images EXCEPT ![t.id] = IF t.op = "rename" THEN t.new ELSE Void]
        /\ ref'[s] = IF M!Row(s) \in t.hit THEN t.ref[s] ELSE ref[s]
    BY <1>1, <1>2, <1>5 DEF M!WithRefs, M!Commits, M!Ends
  <2>2. ref'[s] = IF ref[s] = t.old THEN M!rewrite_reference(t, ref[s]) ELSE ref[s]
    BY <1>1, <1>3, <2>1 DEF Matches, Hit
  <2>3. \A i \in Pictures : images'[i] = IF i = t.id THEN IF t.op = "rename" THEN t.new ELSE Void ELSE images[i]
    BY <2>1 DEF MediaInv, MediaTypes
  <2>4. CASE ref[s] = t.old
    <3>1. ref'[s] = (IF t.op = "rename" THEN t.new ELSE Void)
      <4>1. t.old \in Filenames
        BY <1>2 DEF Follows
      <4> QED
        BY <1>2, <1>3, <2>2, <2>4, <4>1, UrlRewritten
    <3>2. ref'[s] = Void \/ \E i \in Pictures : images'[i] = ref'[s]
      BY <1>3, <2>3, <3>1
    <3> QED
      BY <1>1, <2>4, <3>2, PictureNames DEF M!Resolves, M!filename_taken
  <2>5. CASE ref[s] # t.old
    <3>1. ref'[s] = ref[s]
      BY <2>2, <2>5
    <3>2. \A i \in Pictures : images[i] = ref[s] => images'[i] = ref[s]
      BY <1>3, <2>3, <2>5
    <3> QED
      BY <3>1, <3>2, PictureNames DEF M!Resolves, M!filename_taken
  <2> QED
    BY <2>4, <2>5
<1> QED
  BY <1>2, <1>4, <1>5

(* A remembered digest is accounted for, and a renamed or deleted image    *)
(* leaves no slot dangling, outside the named ways.                        *)
THEOREM MediaHolds == M!Spec => []M!DigestsExplained /\ M!RefsFollow
<1>1. MediaInv /\ [M!Next]_(M!vars) =>
        [\A a \in MediaAdmins :
         (M!rename_with_refs(a) \/ M!delete_with_refs(a)) /\ "images" \notin mediaTask[a].dirty =>
           \A s \in M!Spots :
             M!Row(s) \notin mediaTask[a].dirty =>
               \/ M!Longer(ref[s], mediaTask[a].old)
               \/ /\ M!Resolves(ref[s]) => M!Resolves(ref[s])'
                  /\ ref'[s] # ref[s] => ref[s] = mediaTask[a].old]_(M!vars)
  BY MediaRefsStep
<1>2. M!Spec => [][M!Next]_(M!vars)
  BY DEF M!Spec
<1>3. M!Spec => []M!DigestsExplained
  BY MediaInvariance, DigestsAre, PTL
<1>4. M!Spec => M!RefsFollow
  BY <1>1, <1>2, MediaInvariance, PTL DEF M!RefsFollow
<1> QED
  BY <1>3, <1>4

-----------------------------------------------------------------------------
(* The first-install seeding.                                              *)

(* A process in the loop has seen, or written, what it has not left to do, *)
(* and one that found the marker is not in the loop.                       *)
Seeder(r) ==
    /\ r \in [pc : {"off", "serving", "look", "write", "mark"}, left : SUBSET Items, at : Items \cup {"none"}]
    /\ r.pc \in {"look", "write", "mark"} => Items \ r.left \subseteq ever
    /\ r.pc = "mark" => r.left = {}
    /\ r.pc = "write" => r.at \in r.left
SeedInv ==
    /\ item \in [Items -> {"absent", "seeded", "own"}] /\ marker \in BOOLEAN /\ ever \subseteq Items
    /\ proc \in [Processes -> [pc : {"off", "serving", "look", "write", "mark"}, left : SUBSET Items,
                               at : Items \cup {"none"}]]
    /\ \A i \in Items : item[i] # "absent" => i \in ever
    /\ \A p \in Processes : Seeder(proc[p]) /\ (p \in late => proc[p].pc \in {"off", "serving"})
    /\ marker => ever = Items

LEMMA SeedRecords ==
    /\ Seeder(W!Off) /\ W!Off.pc = "off"
    /\ Seeder([W!Off EXCEPT !.pc = "serving"]) /\ [W!Off EXCEPT !.pc = "serving"].pc = "serving"
    /\ \A left \in SUBSET Items : Items \ left \subseteq ever => Seeder(W!Run(left))
  BY DEF Seeder, W!Off, W!Run

LEMMA SeedMoves ==
    ASSUME SeedInv, NEW p \in Processes, NEW r, W!Becomes(p, r), Seeder(r)',
           p \in late' => r.pc \in {"off", "serving"}, late' \subseteq late \cup {p},
           ever \subseteq ever', ever' \subseteq Items, marker' \in BOOLEAN, marker' => ever' = Items,
           item' \in [Items -> {"absent", "seeded", "own"}],
           \A i \in Items : item'[i] # "absent" => i \in ever'
    PROVE  SeedInv'
<1>1. /\ proc' = [proc EXCEPT ![p] = r]
      /\ r \in [pc : {"off", "serving", "look", "write", "mark"}, left : SUBSET Items, at : Items \cup {"none"}]
  BY DEF W!Becomes, Seeder
<1>2. \A q \in Processes : proc'[q] = IF q = p THEN r ELSE proc[q]
  BY <1>1 DEF SeedInv
<1>3. ASSUME NEW q \in Processes PROVE Seeder(proc[q])' /\ (q \in late' => proc'[q].pc \in {"off", "serving"})
  <2>1. CASE q = p
    BY <1>2, <2>1 DEF Seeder
  <2>2. CASE q # p
    <3>1. Seeder(proc[q]) /\ proc'[q] = proc[q] /\ (q \in late => proc[q].pc \in {"off", "serving"})
      BY <1>2, <2>2 DEF SeedInv
    <3> QED
      BY <2>2, <3>1 DEF Seeder
  <2> QED
    BY <2>1, <2>2
<1>4. proc' \in [Processes -> [pc : {"off", "serving", "look", "write", "mark"}, left : SUBSET Items,
                               at : Items \cup {"none"}]]
  BY <1>1 DEF SeedInv
<1> QED
  BY <1>3, <1>4 DEF SeedInv

LEMMA SeedStarts == W!Init => SeedInv
<1> SUFFICES ASSUME W!Init PROVE SeedInv
  OBVIOUS
<1>1. /\ item \in [Items -> {"absent", "own"}] /\ marker = FALSE /\ proc = [p \in Processes |-> W!Off]
      /\ late = {} /\ ever = {i \in Items : item[i] # "absent"}
  BY DEF W!Init
<1>2. \A p \in Processes : proc[p] = W!Off
  BY <1>1
<1>3. \A p \in Processes : Seeder(proc[p])
  BY <1>2, SeedRecords
<1>4. proc \in [Processes -> [pc : {"off", "serving", "look", "write", "mark"}, left : SUBSET Items,
                               at : Items \cup {"none"}]]
  BY <1>1 DEF W!Off
<1> QED
  BY <1>1, <1>3, <1>4 DEF SeedInv

LEMMA SeedStep == SeedInv /\ [W!Next]_(W!vars) => SeedInv'
<1> SUFFICES ASSUME SeedInv, [W!Next]_(W!vars) PROVE SeedInv'
  OBVIOUS
<1>1. CASE UNCHANGED W!vars
  BY <1>1 DEF W!vars, SeedInv, Seeder
<1>2. ASSUME NEW p \in Processes, W!Open(p) PROVE SeedInv'
  <2>1. PICK r : r = IF marker THEN [W!Off EXCEPT !.pc = "serving"] ELSE W!Run(Items)
    OBVIOUS
  <2>2. /\ W!Becomes(p, r) /\ late' = (IF marker THEN late \cup {p} ELSE late \ {p})
        /\ UNCHANGED <<item, marker, ever>>
    BY <1>2, <2>1 DEF W!Open, W!Skips
  <2>3. Seeder(r) /\ (marker => r.pc = "serving")
    BY <2>1, SeedRecords
  <2>4. Seeder(r)'
    BY <2>2, <2>3 DEF Seeder
  <2> QED
    BY <2>2, <2>3, <2>4, SeedMoves DEF SeedInv
<1>3. ASSUME NEW p \in Processes, NEW i \in Items, W!Look(p, i) PROVE SeedInv'
  <2>1. PICK r : r = IF item[i] # "absent" THEN W!Run(proc[p].left \ {i})
                     ELSE [pc |-> "write", left |-> proc[p].left, at |-> i]
    OBVIOUS
  <2>2. /\ proc[p].pc = "look" /\ i \in proc[p].left /\ W!Becomes(p, r)
        /\ UNCHANGED <<item, marker, late, ever>>
    BY <1>3, <2>1 DEF W!Look
  <2>3. Seeder(proc[p]) /\ p \notin late /\ proc[p].left \in SUBSET Items /\ Items \ proc[p].left \subseteq ever
    BY <2>2 DEF SeedInv, Seeder
  <2>4. Seeder(r)
    <3>1. CASE item[i] # "absent"
      <4>1. i \in ever /\ r = W!Run(proc[p].left \ {i})
        BY <2>1, <3>1 DEF SeedInv
      <4>2. proc[p].left \ {i} \in SUBSET Items /\ Items \ (proc[p].left \ {i}) \subseteq ever
        BY <2>3, <4>1
      <4> QED
        BY <4>1, <4>2, SeedRecords
    <3>2. CASE item[i] = "absent"
      BY <2>1, <2>2, <2>3, <3>2 DEF Seeder
    <3> QED
      BY <3>1, <3>2
  <2>5. Seeder(r)'
    BY <2>2, <2>4 DEF Seeder
  <2> QED
    BY <2>2, <2>3, <2>5, SeedMoves DEF SeedInv
<1>4. ASSUME NEW p \in Processes, W!Write(p) PROVE SeedInv'
  <2>1. PICK i : i = proc[p].at
    OBVIOUS
  <2>2. PICK left : left = proc[p].left \ {i}
    OBVIOUS
  <2>3. /\ proc[p].pc = "write" /\ item' = [item EXCEPT ![i] = "seeded"] /\ ever' = ever \cup {i}
        /\ W!Becomes(p, W!Run(left)) /\ UNCHANGED <<marker, late>>
    BY <1>4, <2>1, <2>2 DEF W!Write
  <2>4. /\ p \notin late /\ i \in Items /\ left \in SUBSET Items
        /\ Items \ left \subseteq ever \cup {i}
    BY <2>1, <2>2, <2>3 DEF SeedInv, Seeder
  <2>5. Seeder(W!Run(left))'
    BY <2>3, <2>4 DEF Seeder, W!Run
  <2>6. item' \in [Items -> {"absent", "seeded", "own"}] /\ \A j \in Items : item'[j] # "absent" => j \in ever'
    BY <2>3, <2>4 DEF SeedInv
  <2>7. ever' \subseteq Items /\ ever \subseteq ever' /\ (marker' => ever' = Items) /\ marker' \in BOOLEAN
    BY <2>3, <2>4 DEF SeedInv
  <2>8. PICK r : r = W!Run(left)
    OBVIOUS
  <2>9. Seeder(r)'
    BY <2>5, <2>8 DEF Seeder
  <2> QED
    BY <2>3, <2>4, <2>6, <2>7, <2>8, <2>9, SeedMoves
<1>5. ASSUME NEW p \in Processes, W!Mark(p) PROVE SeedInv'
  <2>1. PICK r : r = [W!Off EXCEPT !.pc = "serving"]
    OBVIOUS
  <2>2. /\ proc[p].pc = "mark" /\ marker' = TRUE /\ W!Becomes(p, r) /\ UNCHANGED <<item, late, ever>>
    BY <1>5, <2>1 DEF W!Mark
  <2>3. ever = Items /\ Seeder(r) /\ r.pc = "serving"
    BY <2>1, <2>2, SeedRecords DEF SeedInv, Seeder
  <2>4. Seeder(r)'
    BY <2>2, <2>3 DEF Seeder
  <2> QED
    BY <2>2, <2>3, <2>4, SeedMoves DEF SeedInv
<1>6. ASSUME NEW p \in Processes, W!Fails(p) \/ W!Stops(p) PROVE SeedInv'
  <2>1. PICK r : W!Becomes(p, r) /\ (r = W!Off \/ r = [W!Off EXCEPT !.pc = "serving"])
    BY <1>6 DEF W!Fails, W!Stops
  <2>2. UNCHANGED <<item, marker, late, ever>>
    BY <1>6 DEF W!Fails, W!Stops
  <2>3. Seeder(r) /\ r.pc \in {"off", "serving"}
    BY <2>1, SeedRecords
  <2>4. Seeder(r)'
    BY <2>2, <2>3 DEF Seeder
  <2> QED
    BY <2>1, <2>2, <2>3, <2>4, SeedMoves DEF SeedInv
<1>7. ASSUME NEW i \in Items, W!Edit(i) PROVE SeedInv'
  <2>1. /\ \E v \in {"absent", "own"} : item' = [item EXCEPT ![i] = v]
        /\ ever' = (IF item'[i] = "own" THEN ever \cup {i} ELSE ever)
        /\ UNCHANGED <<marker, proc, late>>
    BY <1>7 DEF W!Edit
  <2>2. ever \subseteq ever' /\ ever' \subseteq Items
    BY <2>1 DEF SeedInv
  <2>3. \A p \in Processes : Seeder(proc[p])'
    BY <2>1, <2>2 DEF SeedInv, Seeder
  <2> QED
    BY <2>1, <2>2, <2>3 DEF SeedInv
<1> QED
  BY <1>1, <1>2, <1>3, <1>4, <1>5, <1>6, <1>7 DEF W!Next

(* The invariant of the seeding.                                           *)
THEOREM SeedInvariance == W!Spec => []SeedInv
  BY SeedStarts, SeedStep, PTL DEF W!Spec

LEMMA SeedWrites ==
    ASSUME SeedInv, [W!Next]_(W!vars), NEW i \in Items, item[i] # "seeded", item'[i] = "seeded"
    PROVE  \E p \in Processes \ late : proc[p].pc = "write" /\ proc[p].at = i
<1>1. item' # item
  OBVIOUS
<1>2. ~ \E j \in Items : W!Edit(j)
  <2> SUFFICES ASSUME NEW j \in Items, W!Edit(j) PROVE FALSE
    OBVIOUS
  <2> QED
    BY DEF W!Edit, SeedInv
<1>3. PICK p \in Processes : W!Write(p)
  BY <1>1, <1>2 DEF W!Next, W!vars, W!Open, W!Look, W!Mark, W!Fails, W!Stops
<1>4. proc[p].pc = "write" /\ item' = [item EXCEPT ![proc[p].at] = "seeded"]
  BY <1>3 DEF W!Write
<1>5. proc[p].at = i /\ p \notin late
  BY <1>4 DEF SeedInv
<1> QED
  BY <1>4, <1>5

(* A marked database has had every sample, and only a process that had     *)
(* found neither the marker nor the sample writes one.                     *)
THEOREM SeedHolds == W!Spec => W!SeededOnce
<1>1. SeedInv /\ [W!Next]_(W!vars) =>
        [\A i \in Items : item[i] # "seeded" /\ item'[i] = "seeded" =>
            \E p \in Processes \ late : proc[p].pc = "write" /\ proc[p].at = i]_(W!vars)
  BY SeedWrites
<1>2. W!Spec => [][W!Next]_(W!vars)
  BY DEF W!Spec
<1>3. SeedInv => (marker => ever = Items)
  BY DEF SeedInv
<1> QED
  BY <1>1, <1>2, <1>3, SeedInvariance, PTL DEF W!SeededOnce

-----------------------------------------------------------------------------
(* The landing page's row and its forms.                                   *)

LookRows == [title : Texts \cup {Void}, intro : SUBSET {"pt", "en", "es", "fr", "de"},
             search : BOOLEAN \cup {Void}, logo : {Void, "header", "footer", "sidebar"},
             theme : {Void, "light", "dark", "sepia"}, size : Nat \cup {Void}]

(* A form counts as fresh only while it is what the row makes of it.       *)
LookInv ==
    /\ landing \in LookRows /\ landingForm \in [PageAdmins -> LookRows \cup {Void}]
    /\ resetting \in [PageAdmins -> LookRows \cup {Void}]
    /\ fresh \subseteq PageAdmins
    /\ \A a \in fresh : landingForm[a] = P!from_customization(landing)

LEMMA LookForms ==
    \A r \in LookRows : /\ P!from_customization(r) \in LookRows /\ P!into_customization(r) \in LookRows
                        /\ P!Cleared(r) \in LookRows
<1> SUFFICES ASSUME NEW r \in LookRows
             PROVE  /\ P!from_customization(r) \in LookRows /\ P!into_customization(r) \in LookRows
                    /\ P!Cleared(r) \in LookRows
  OBVIOUS
<1>1. /\ r.title \in Texts \cup {Void} /\ r.intro \in SUBSET {"pt", "en", "es", "fr", "de"}
      /\ r.search \in BOOLEAN \cup {Void} /\ r.logo \in {Void, "header", "footer", "sidebar"}
      /\ r.theme \in {Void, "light", "dark", "sepia"} /\ r.size \in Nat \cup {Void}
  BY DEF LookRows
<1>2. (r.search \in {Void, TRUE}) \in BOOLEAN \cup {Void}
  OBVIOUS
<1>3. P!from_customization(r) \in LookRows
  BY <1>1, <1>2 DEF P!from_customization, P!Languages, LookRows
<1>4. P!into_customization(r) \in LookRows
  BY <1>1 DEF P!into_customization, LookRows
<1>5. P!Cleared(r) \in LookRows
  BY <1>1 DEF P!Cleared, LookRows
<1> QED
  BY <1>3, <1>4, <1>5

LEMMA LookImports == P!Default \in LookRows /\ P!Imported \subseteq LookRows
<1>1. P!Default \in LookRows
  BY DEF P!Default, LookRows
<1>2. ASSUME NEW r \in P!Imported PROVE r \in LookRows
  <2>1. /\ r.title = Void /\ r.intro \in {{}, {"fr", "de"}} /\ r.search \in {Void, FALSE}
        /\ r.logo \in {Void, "sidebar"} /\ r.theme \in {Void, "dark", "sepia"} /\ r.size \in {Void, 100}
        /\ r = [title |-> r.title, intro |-> r.intro, search |-> r.search, logo |-> r.logo,
                theme |-> r.theme, size |-> r.size]
    BY DEF P!Imported
  <2>2. {Void, FALSE} \subseteq BOOLEAN \cup {Void} /\ {Void, 100} \subseteq Nat \cup {Void}
    OBVIOUS
  <2>3. r.search \in BOOLEAN \cup {Void} /\ r.size \in Nat \cup {Void}
    BY <2>1, <2>2, Zenon
  <2> QED
    BY <2>1, <2>3 DEF LookRows
<1> QED
  BY <1>1, <1>2

LEMMA LookStarts == P!Init => LookInv
  BY LookImports DEF P!Init, LookInv

LEMMA LookStep == LookInv /\ [P!Next]_(P!vars) => LookInv'
<1> SUFFICES ASSUME LookInv, [P!Next]_(P!vars) PROVE LookInv'
  OBVIOUS
<1> USE DEF LookInv
<1>1. CASE UNCHANGED P!vars
  BY <1>1 DEF P!vars
<1>2. ASSUME NEW a \in PageAdmins, P!Load(a) PROVE LookInv'
  BY <1>2, LookForms DEF P!Load
<1>3. ASSUME NEW a \in PageAdmins, P!Type(a) PROVE LookInv'
  <2>1. PICK f : f = landingForm[a]
    OBVIOUS
  <2>2. PICK t \in Texts \cup {Void}, s \in BOOLEAN :
           landingForm' = [landingForm EXCEPT ![a].title = t, ![a].search = s]
    BY <1>3 DEF P!Type
  <2>3. PICK g : g = [f EXCEPT !.title = t, !.search = s]
    OBVIOUS
  <2>4. f \in LookRows /\ UNCHANGED <<landing, resetting>> /\ fresh' = fresh \ {a}
    BY <1>3, <2>1 DEF P!Type
  <2>5. g \in LookRows
    BY <2>3, <2>4 DEF LookRows
  <2>6. landingForm' = [landingForm EXCEPT ![a] = g]
    BY <2>1, <2>2, <2>3
  <2> QED
    BY <2>4, <2>5, <2>6
<1>4. ASSUME NEW a \in PageAdmins, P!Save(a) PROVE LookInv'
  <2>1. PICK r : r = P!into_customization(landingForm[a])
    OBVIOUS
  <2>2. PICK f : f = P!from_customization(r)
    OBVIOUS
  <2>3. /\ landing' = r /\ landingForm' = [landingForm EXCEPT ![a] = f] /\ fresh' = {a}
        /\ resetting' = resetting /\ landingForm[a] \in LookRows
    BY <1>4, <2>1, <2>2 DEF P!Save, P!Written
  <2>4. r \in LookRows /\ f \in LookRows
    BY <2>1, <2>2, <2>3, LookForms
  <2> QED
    BY <2>2, <2>3, <2>4
<1>5. ASSUME NEW a \in PageAdmins, P!ResetRead(a) PROVE LookInv'
  BY <1>5 DEF P!ResetRead
<1>6. ASSUME NEW a \in PageAdmins, P!ResetWrite(a) PROVE LookInv'
  <2>1. PICK r : r = P!Cleared(resetting[a])
    OBVIOUS
  <2>2. PICK f : f = P!from_customization(r)
    OBVIOUS
  <2>3. /\ landing' = r /\ landingForm' = [landingForm EXCEPT ![a] = P!from_customization(landing')]
        /\ fresh' = {a} /\ resetting' = [resetting EXCEPT ![a] = Void] /\ resetting[a] \in LookRows
    BY <1>6, <2>1 DEF P!ResetWrite, P!Written
  <2>4. landingForm' = [landingForm EXCEPT ![a] = f]
    BY <2>2, <2>3
  <2>5. r \in LookRows /\ f \in LookRows
    BY <2>1, <2>2, <2>3, LookForms
  <2> QED
    BY <2>2, <2>3, <2>4, <2>5
<1>7. ASSUME NEW r \in P!Imported, P!Import(r) PROVE LookInv'
  BY <1>7, LookImports DEF P!Import, P!Written
<1> QED
  BY <1>1, <1>2, <1>3, <1>4, <1>5, <1>6, <1>7 DEF P!Next

(* The invariant of the landing page.                                      *)
THEOREM LookInvariance == P!Spec => []LookInv
  BY LookStarts, LookStep, PTL DEF P!Spec

(* A search that was never set counts as set, and stays so.                *)
LEMMA TruthValue == ASSUME NEW b, b \in BOOLEAN PROVE b = TRUE \/ b = FALSE
  OBVIOUS
LEMMA SearchShown ==
    ASSUME NEW x, NEW n, n \notin BOOLEAN
    PROVE  ((x \in {n, TRUE}) \in {n, TRUE}) = (x \in {n, TRUE})
<1>1. PICK b : b = (x \in {n, TRUE})
  OBVIOUS
<1>2. b \in BOOLEAN
  BY <1>1
<1>3. CASE b = TRUE
  <2>1. b \in {n, TRUE}
    BY <1>3
  <2> QED
    BY <1>1, <1>3, <2>1, Zenon
<1>4. CASE b = FALSE
  <2>1. b # n /\ b # TRUE
    BY <1>4
  <2>2. b \notin {n, TRUE}
    BY <2>1
  <2>3. PICK c : c = (b \in {n, TRUE})
    OBVIOUS
  <2>4. c \in BOOLEAN /\ c # TRUE
    <3>1. c \in BOOLEAN
      BY <2>3
    <3>2. c = TRUE => b \in {n, TRUE}
      BY <2>3
    <3> QED
      BY <2>2, <3>1, <3>2, Zenon
  <2>5. c = FALSE
    BY <2>4, TruthValue, Zenon
  <2> QED
    BY <1>1, <1>4, <2>3, <2>5, Zenon
<1> QED
  BY <1>2, <1>3, <1>4, TruthValue, Zenon

(* A form that nobody touched gives back what it shows.                    *)
LEMMA LookRoundTrip ==
    ASSUME NEW r \in LookRows, NEW w, w = P!into_customization(P!from_customization(r))
    PROVE  P!Shown(w) = [P!Shown(r) EXCEPT !.logo = IF r.logo = "sidebar" THEN "header" ELSE P!Shown(r).logo]
<1>1. /\ r.search \in BOOLEAN \cup {Void} /\ r.logo \in {Void, "header", "footer", "sidebar"}
      /\ r.theme \in {Void, "light", "dark", "sepia"} /\ r.size \in Nat \cup {Void}
  BY DEF LookRows
<1>2. /\ w.title = r.title /\ w.intro = r.intro \cap P!Languages
      /\ w.search = (r.search \in {Void, TRUE})
      /\ w.logo = (IF r.logo \in {Void, "footer"} THEN r.logo ELSE "header")
      /\ w.theme = (IF r.theme \in {"light", "dark"} THEN r.theme ELSE Void)
      /\ w.size = (IF r.size = Void THEN 28 ELSE r.size)
  BY DEF P!into_customization, P!from_customization
<1>3. w.intro \cap P!Languages = r.intro \cap P!Languages
  BY <1>2
<1>4. (w.search \in {Void, TRUE}) = (r.search \in {Void, TRUE})
  <2>1. ((r.search \in {Void, TRUE}) \in {Void, TRUE}) = (r.search \in {Void, TRUE})
    BY PageAssumption, SearchShown
  <2>2. PICK v : v = w.search
    OBVIOUS
  <2>3. v = (r.search \in {Void, TRUE})
    BY <1>2, <2>2, Zenon
  <2> QED
    BY <2>1, <2>2, <2>3, Zenon
<1>5. (IF w.logo = "sidebar" THEN Void ELSE w.logo)
        = (IF r.logo = "sidebar" THEN "header" ELSE IF r.logo = "sidebar" THEN Void ELSE r.logo)
  BY <1>1, <1>2, PageAssumption
<1>6. (IF w.theme \in {"light", "dark"} THEN w.theme ELSE "auto")
        = (IF r.theme \in {"light", "dark"} THEN r.theme ELSE "auto")
  BY <1>1, <1>2, PageAssumption
<1>7. (IF w.size # Void /\ w.size \in 12..64 THEN w.size ELSE 28)
        = (IF r.size # Void /\ r.size \in 12..64 THEN r.size ELSE 28)
  BY <1>1, <1>2, PageAssumption
<1> DEFINE b == w.search \in {Void, TRUE}
           d == r.search \in {Void, TRUE}
           l == IF w.logo = "sidebar" THEN Void ELSE w.logo
           m == IF r.logo = "sidebar" THEN Void ELSE r.logo
           h == IF w.theme \in {"light", "dark"} THEN w.theme ELSE "auto"
           k == IF r.theme \in {"light", "dark"} THEN r.theme ELSE "auto"
           y == IF w.size # Void /\ w.size \in 12..64 THEN w.size ELSE 28
           z == IF r.size # Void /\ r.size \in 12..64 THEN r.size ELSE 28
<1>8. P!Shown(w) = [title |-> w.title, intro |-> w.intro \cap P!Languages, search |-> b, logo |-> l,
                    theme |-> h, size |-> y]
  BY Zenon DEF P!Shown
<1>9. P!Shown(r) = [title |-> r.title, intro |-> r.intro \cap P!Languages, search |-> d, logo |-> m,
                    theme |-> k, size |-> z]
  BY Zenon DEF P!Shown
<1>10. /\ b = d /\ h = k /\ y = z
       /\ l = (IF r.logo = "sidebar" THEN "header" ELSE m)
  BY <1>4, <1>5, <1>6, <1>7, Zenon
<1> HIDE DEF b, d, l, m, h, k, y, z
<1>11. P!Shown(w) = [title |-> r.title, intro |-> r.intro \cap P!Languages, search |-> d, logo |-> l,
                     theme |-> k, size |-> z]
  BY <1>2, <1>3, <1>8, <1>10
<1>12. P!Shown(r).logo = m
  BY <1>9
<1> QED
  BY <1>9, <1>10, <1>11, <1>12

LEMMA LookResets ==
    ASSUME LookInv, NEW a \in PageAdmins, P!ResetWrite(a)
    PROVE  /\ landing'.title = resetting[a].title /\ landing'.intro = resetting[a].intro
           /\ landing'.search = resetting[a].search /\ landing'.logo = resetting[a].logo
           /\ P!Shown(landing').theme = "auto"
<1>1. PICK r : r = resetting[a]
  OBVIOUS
<1>2. r \in LookRows /\ landing' = [r EXCEPT !.theme = Void, !.size = Void]
  BY <1>1 DEF P!ResetWrite, P!Written, P!Cleared, LookInv
<1>3. /\ landing'.title = r.title /\ landing'.intro = r.intro /\ landing'.search = r.search
      /\ landing'.logo = r.logo /\ landing'.theme = Void
  BY <1>2 DEF LookRows
<1>4. P!Shown(landing').theme = "auto"
  BY <1>3, PageAssumption DEF P!Shown
<1> QED
  BY <1>1, <1>3, <1>4

(* Saving a form that nobody touched changes nothing that is shown, and a  *)
(* reset of the appearance keeps the content it read.                      *)
THEOREM LookHolds == P!Spec => P!LookStable
<1>1. ASSUME LookInv, NEW a \in PageAdmins
      PROVE  /\ P!Save(a) /\ a \in fresh =>
                  P!Shown(landing') = [P!Shown(landing) EXCEPT !.logo =
                                         IF landing.logo = "sidebar" THEN "header" ELSE @]
             /\ P!ResetWrite(a) => /\ landing'.title = resetting[a].title
                                   /\ landing'.intro = resetting[a].intro
                                   /\ landing'.search = resetting[a].search
                                   /\ landing'.logo = resetting[a].logo
                                   /\ P!Shown(landing').theme = "auto"
  <2>1. ASSUME P!Save(a), a \in fresh
        PROVE  P!Shown(landing') = [P!Shown(landing) EXCEPT !.logo =
                                      IF landing.logo = "sidebar" THEN "header" ELSE @]
    <3>1. PICK r : r = landing
      OBVIOUS
    <3>2. PICK w : w = landing'
      OBVIOUS
    <3>3. r \in LookRows /\ w = P!into_customization(P!from_customization(r))
      BY <1>1, <2>1, <3>1, <3>2 DEF LookInv, P!Save, P!Written
    <3>4. P!Shown(w) = [P!Shown(r) EXCEPT !.logo = IF r.logo = "sidebar" THEN "header" ELSE P!Shown(r).logo]
      BY <3>3, LookRoundTrip
    <3>5. P!Shown(w) = P!Shown(landing') /\ P!Shown(r) = P!Shown(landing)
      BY <3>1, <3>2
    <3> QED
      BY <3>1, <3>4, <3>5
  <2> QED
    BY <1>1, <2>1, LookResets
<1>2. LookInv /\ [P!Next]_(P!vars) =>
        [\A a \in PageAdmins :
         /\ P!Save(a) /\ a \in fresh =>
              P!Shown(landing') = [P!Shown(landing) EXCEPT !.logo =
                                     IF landing.logo = "sidebar" THEN "header" ELSE @]
         /\ P!ResetWrite(a) => /\ landing'.title = resetting[a].title /\ landing'.intro = resetting[a].intro
                               /\ landing'.search = resetting[a].search /\ landing'.logo = resetting[a].logo
                               /\ P!Shown(landing').theme = "auto"]_(P!vars)
  BY <1>1
<1>3. P!Spec => [][P!Next]_(P!vars)
  BY DEF P!Spec
<1> QED
  BY <1>2, <1>3, LookInvariance, PTL DEF P!LookStable

-----------------------------------------------------------------------------
(* The custom blocks.                                                      *)

BlockRows == [slot : Slots, pos : Nat, born : Nat]
Last == NBlocks + version
BlockTypes ==
    /\ blocks \in [B!Blocks -> BlockRows \cup {Void}] /\ version \in Nat /\ loose \subseteq Slots
    /\ \A b \in B!Blocks : blocks[b] # Void => blocks[b].pos <= Last

(* What a transaction read is still so until another commits.              *)
Placing(t) ==
    /\ t.b \in B!Blocks /\ t.slot \in Slots /\ t.pos \in Nat /\ t.at \in Nat
    /\ t.at <= version /\ t.pos <= NBlocks + t.at + 1
Beyond(t) == \A c \in B!In(blocks, t.slot) : blocks[c].pos < t.pos
ReadBlocks(t) ==
    /\ t.op \in {"insert", "update", "move"} /\ Placing(t)
    /\ t.op = "insert" /\ t.at = version => Beyond(t)
    /\ t.op = "update" /\ t.at = version =>
         (t.b \in B!In(blocks, t.slot) /\ blocks[t.b].pos = t.pos) \/ Beyond(t)
    /\ t.op = "move" => t.n \in B!Blocks /\ t.npos \in Nat /\ t.npos <= NBlocks + t.at + 1
    /\ t.op = "move" /\ t.at = version =>
         /\ t.b \in B!In(blocks, t.slot) /\ t.n \in B!In(blocks, t.slot)
         /\ blocks[t.b].pos = t.pos /\ blocks[t.n].pos = t.npos /\ t.pos # t.npos
         /\ \A c \in B!In(blocks, t.slot) : /\ ~(t.npos < blocks[c].pos /\ blocks[c].pos < t.pos)
                                            /\ ~(t.pos < blocks[c].pos /\ blocks[c].pos < t.npos)
(* A listing names blocks, each once and in one slot.                      *)
Unrepeated(list) == \A i, j \in DOMAIN list : i # j => list[i] # list[j]
CopiedBlocks ==
    /\ blockCopy \in [Slots -> B!Orders] /\ \A s \in Slots : Unrepeated(blockCopy[s])
    /\ \A s, u \in Slots : \A i \in DOMAIN blockCopy[s] : \A j \in DOMAIN blockCopy[u] :
         blockCopy[s][i] = blockCopy[u][j] => s = u
BlocksInv ==
    /\ BlockTypes
    /\ \A a \in BlockAdmins : tx[a] # Void => ReadBlocks(tx[a])
    /\ tx = [a \in BlockAdmins |-> tx[a]]
    /\ blockCopy # Void => CopiedBlocks
    /\ \A s \in Slots \ loose : B!Distinct(blocks, s)

LEMMA BlockCardinality == ASSUME NEW T PROVE B!Cardinality(T) = Cardinality(T)
  BY Zenon DEF B!Cardinality, Cardinality

LEMMA BlockNumbers ==
    /\ B!Blocks = 1..NBlocks /\ IsFiniteSet(B!Blocks) /\ Cardinality(B!Blocks) = NBlocks
    /\ \A list \in B!Orders : \E n \in 0..NBlocks : list \in [1..n -> B!Blocks]
<1>1. B!Blocks = 1..NBlocks
  BY DEF B!Blocks
<1>2. IsFiniteSet(B!Blocks) /\ Cardinality(B!Blocks) = NBlocks
  BY <1>1, BlockAssumption, FS_Interval
<1>3. B!Cardinality(B!Blocks) = NBlocks
  BY <1>2, BlockCardinality
<1> QED
  BY <1>1, <1>2, <1>3 DEF B!Orders

LEMMA BlockIn ==
    ASSUME NEW f, NEW s
    PROVE  /\ IsFiniteSet(B!In(f, s)) /\ Cardinality(B!In(f, s)) \in Nat /\ B!In(f, s) \subseteq B!Blocks
           /\ B!Cardinality(B!In(f, s)) = Cardinality(B!In(f, s))
<1>1. B!In(f, s) \in SUBSET B!Blocks
  BY DEF B!In
<1> QED
  BY <1>1, BlockNumbers, BlockCardinality, FS_Subset, FS_CardinalityType

LEMMA GreatestNumber ==
    ASSUME NEW T \in SUBSET Nat, T # {}, NEW k \in Nat, \A x \in T : x <= k
    PROVE  \E x \in T : \A y \in T : y <= x
<1>1. /\ \A x \in T : x \in Nat /\ k - x \in Nat
      /\ {k - x : x \in T} # {}
  <2>1. \A x \in T : x \in Nat /\ x <= k
    OBVIOUS
  <2>2. \A x \in T : x \in Nat /\ k - x \in Nat
    BY <2>1
  <2>3. PICK x \in T : TRUE
    OBVIOUS
  <2>4. k - x \in {k - y : y \in T}
    OBVIOUS
  <2> QED
    BY <2>2, <2>4
<1>2. {k - x : x \in T} \in SUBSET Nat
  BY <1>1
<1>3. PICK z \in {k - x : x \in T} : \A y \in {k - x : x \in T} : z <= y
  BY <1>1, <1>2, LeastNumber
<1>4. PICK x \in T : z = k - x
  BY <1>3
<1>5. ASSUME NEW y \in T PROVE y <= x
  <2>1. k - x <= k - y
    BY <1>3, <1>4
  <2> QED
    BY <2>1
<1> QED
  BY <1>5

(* A new place is beyond every block of the slot.                          *)
LEMMA NextPlace ==
    ASSUME BlockTypes, NEW s \in Slots
    PROVE  /\ B!NextPos(s) \in Nat /\ B!NextPos(s) <= NBlocks + version + 1
           /\ \A c \in B!In(blocks, s) : blocks[c].pos < B!NextPos(s)
<1>1. \A c \in B!In(blocks, s) : blocks[c].pos \in Nat /\ blocks[c].pos <= NBlocks + version
  BY DEF BlockTypes, BlockRows, Last, B!In
<1>2. NBlocks + version \in Nat
  BY BlockAssumption DEF BlockTypes
<1>3. CASE B!In(blocks, s) = {}
  BY <1>2, <1>3 DEF B!NextPos
<1>4. CASE B!In(blocks, s) # {}
  <2>1. PICK T : T = B!Positions(blocks, s)
    OBVIOUS
  <2>2. T \in SUBSET Nat /\ T # {} /\ \A x \in T : x <= NBlocks + version
    BY <1>1, <1>4, <2>1 DEF B!Positions
  <2>3. \E x \in T : \A y \in T : y <= x
    BY <1>2, <2>2, GreatestNumber
  <2>4. PICK x : x = CHOOSE m \in T : \A y \in T : y <= m
    OBVIOUS
  <2>5. x \in T /\ \A y \in T : y <= x
    BY <2>3, <2>4
  <2>6. B!NextPos(s) = 1 + x
    BY <1>4, <2>1, <2>4 DEF B!NextPos
  <2>7. \A c \in B!In(blocks, s) : blocks[c].pos \in T
    BY <2>1 DEF B!Positions
  <2> QED
    BY <1>1, <1>2, <2>2, <2>5, <2>6, <2>7
<1> QED
  BY <1>3, <1>4

(* A transaction begins.                                                   *)
LEMMA BlockBegins ==
    ASSUME BlocksInv, NEW a \in BlockAdmins, NEW t, ReadBlocks(t), B!Begun(a, t)
    PROVE  BlocksInv'
<1>1. tx' = [tx EXCEPT ![a] = t] /\ UNCHANGED <<blocks, version, blockCopy, loose>>
  BY DEF B!Begun
<1>2. tx' = [c \in BlockAdmins |-> IF c = a THEN t ELSE tx[c]]
  BY <1>1 DEF BlocksInv
<1>3. ASSUME NEW u, ReadBlocks(u) PROVE ReadBlocks(u)'
  BY <1>1, <1>3 DEF ReadBlocks, Placing, Beyond
<1>4. ASSUME NEW c \in BlockAdmins, tx'[c] # Void PROVE ReadBlocks(tx[c])'
  <2>1. PICK u : u = tx'[c]
    OBVIOUS
  <2>2. ReadBlocks(u)
    BY <1>2, <1>4, <2>1 DEF BlocksInv
  <2>3. ReadBlocks(u)'
    BY <1>3, <2>2
  <2> QED
    BY <1>1, <2>1, <2>3 DEF ReadBlocks, Placing, Beyond
<1>5. tx' = [c \in BlockAdmins |-> tx'[c]]
  BY <1>2
<1>6. BlockTypes' /\ (blockCopy' # Void => CopiedBlocks')
  BY <1>1 DEF BlocksInv, BlockTypes, Last, CopiedBlocks
<1>7. \A s \in Slots \ loose' : B!Distinct(blocks, s)'
  BY <1>1 DEF BlocksInv, B!Distinct
<1> QED
  BY <1>4, <1>5, <1>6, <1>7 DEF BlocksInv

LEMMA BlockInsert ==
    ASSUME BlocksInv, NEW a \in BlockAdmins, NEW b \in B!Blocks, NEW s \in Slots, B!BeginInsert(a, b, s)
    PROVE  BlocksInv'
<1>1. PICK t : t = [op |-> "insert", b |-> b, slot |-> s, pos |-> B!NextPos(s), at |-> version]
  OBVIOUS
<1>2. B!Begun(a, t)
  BY <1>1 DEF B!BeginInsert
<1>3. BlockTypes /\ version \in Nat
  BY DEF BlocksInv, BlockTypes
<1>4. ReadBlocks(t)
  BY <1>1, <1>3, NextPlace DEF ReadBlocks, Placing, Beyond
<1> QED
  BY <1>2, <1>4, BlockBegins

LEMMA BlockUpdate ==
    ASSUME BlocksInv, NEW a \in BlockAdmins, NEW b \in B!Blocks, NEW s \in Slots, B!BeginUpdate(a, b, s)
    PROVE  BlocksInv'
<1>1. PICK t : t = [op |-> "update", b |-> b, slot |-> s, at |-> version,
                    pos |-> IF blocks[b].slot = s THEN blocks[b].pos ELSE B!NextPos(s)]
  OBVIOUS
<1>2. B!Begun(a, t) /\ blocks[b] # Void
  BY <1>1 DEF B!BeginUpdate
<1>3. BlockTypes /\ version \in Nat /\ blocks[b].pos \in Nat /\ blocks[b].pos <= NBlocks + version
  BY <1>2 DEF BlocksInv, BlockTypes, Last, BlockRows
<1>4. t.op = "update" /\ t.b = b /\ t.slot = s /\ t.at = version
  BY <1>1
<1>5. CASE blocks[b].slot = s
  <2>1. t.pos = blocks[b].pos
    BY <1>1, <1>5
  <2> QED
    BY <1>2, <1>3, <1>4, <1>5, <2>1, BlockAssumption, BlockBegins DEF ReadBlocks, Placing, B!In
<1>6. CASE blocks[b].slot # s
  <2>1. t.pos = B!NextPos(s)
    BY <1>1, <1>6
  <2> QED
    BY <1>2, <1>3, <1>4, <2>1, NextPlace, BlockBegins DEF ReadBlocks, Placing, Beyond
<1> QED
  BY <1>5, <1>6

LEMMA BlockMove ==
    ASSUME BlocksInv, NEW a \in BlockAdmins, NEW b \in B!Blocks, NEW up \in BOOLEAN, B!BeginMove(a, b, up)
    PROVE  BlocksInv'
<1>1. blocks[b] # Void
  BY DEF B!BeginMove
<1>2. PICK n \in B!Nearest(b, up) :
        B!Begun(a, [op |-> "move", b |-> b, n |-> n, up |-> up, slot |-> blocks[b].slot,
                    pos |-> blocks[b].pos, npos |-> blocks[n].pos, at |-> version])
  BY DEF B!BeginMove
<1>3. PICK t : t = [op |-> "move", b |-> b, n |-> n, up |-> up, slot |-> blocks[b].slot,
                    pos |-> blocks[b].pos, npos |-> blocks[n].pos, at |-> version]
  OBVIOUS
<1>4. /\ n \in B!In(blocks, t.slot) /\ b \in B!In(blocks, t.slot)
      /\ (up => blocks[n].pos < blocks[b].pos) /\ (~up => blocks[n].pos > blocks[b].pos)
      /\ \A d \in B!In(blocks, t.slot) :
            /\ up => (blocks[d].pos < blocks[b].pos => blocks[d].pos <= blocks[n].pos)
            /\ ~up => (blocks[d].pos > blocks[b].pos => blocks[d].pos >= blocks[n].pos)
  BY <1>1, <1>2, <1>3 DEF B!Nearest, B!In
<1>5. /\ \A d \in B!In(blocks, t.slot) : blocks[d].pos \in Nat /\ blocks[d].pos <= NBlocks + version
      /\ t.slot \in Slots /\ version \in Nat
  BY <1>1, <1>3 DEF BlocksInv, BlockTypes, Last, BlockRows, B!In
<1>6. /\ t.op = "move" /\ t.b = b /\ t.n = n /\ t.at = version
      /\ t.pos = blocks[b].pos /\ t.npos = blocks[n].pos
  BY <1>3
<1>7. n \in B!Blocks
  BY <1>4, BlockIn
<1>8. Placing(t)
  BY <1>4, <1>5, <1>6, BlockAssumption DEF Placing
<1>9. ReadBlocks(t)
  <2>1. blocks[n].pos \in Nat /\ blocks[b].pos \in Nat /\ blocks[n].pos <= NBlocks + version + 1
    BY <1>4, <1>5, BlockAssumption
  <2>2. blocks[b].pos # blocks[n].pos
    BY <1>4, <2>1
  <2>3. ASSUME NEW c \in B!In(blocks, t.slot)
        PROVE  /\ ~(blocks[n].pos < blocks[c].pos /\ blocks[c].pos < blocks[b].pos)
               /\ ~(blocks[b].pos < blocks[c].pos /\ blocks[c].pos < blocks[n].pos)
    <3>1. blocks[c].pos \in Nat
      BY <1>5
    <3> QED
      BY <1>4, <2>1, <3>1
  <2> QED
    BY <1>4, <1>6, <1>7, <1>8, <2>1, <2>2, <2>3 DEF ReadBlocks
<1> QED
  BY <1>2, <1>3, <1>9, BlockBegins

(* A write: every other reading is overtaken by it.                        *)
LEMMA BlockWrites ==
    ASSUME BlocksInv, version' = version + 1, blocks' \in [B!Blocks -> BlockRows \cup {Void}],
           \A b \in B!Blocks : blocks'[b] # Void => blocks'[b].pos <= NBlocks + version + 1,
           tx' = [a \in BlockAdmins |-> tx'[a]],
           \A a \in BlockAdmins : tx'[a] = tx[a] \/ tx'[a] = Void,
           loose' \subseteq Slots, blockCopy' = blockCopy,
           \A s \in Slots \ loose' : B!Distinct(blocks', s)
    PROVE  BlocksInv'
<1>1. version \in Nat /\ version' \in Nat
  BY DEF BlocksInv, BlockTypes
<1>2. BlockTypes'
  <2>1. version' = version + 1
    OBVIOUS
  <2>2. NBlocks + version + 1 = NBlocks + version'
    BY <1>1, BlockAssumption
  <2> QED
    BY <1>1, <2>2 DEF BlockTypes, Last
<1>3. ASSUME NEW a \in BlockAdmins, tx'[a] # Void PROVE ReadBlocks(tx[a])'
  <2>1. PICK u : u = tx'[a]
    OBVIOUS
  <2>2. ReadBlocks(u)
    BY <1>3, <2>1 DEF BlocksInv
  <2>3. u.at \in Nat /\ u.at <= version
    BY <2>2 DEF ReadBlocks, Placing
  <2>4. u.at <= version' /\ u.at # version'
    BY <1>1, <2>3
  <2>5. Placing(u)'
    BY <2>2, <2>4 DEF ReadBlocks, Placing
  <2>6. ReadBlocks(u)'
    BY <2>2, <2>4, <2>5 DEF ReadBlocks
  <2> QED
    BY <2>1, <2>6 DEF ReadBlocks, Placing, Beyond
<1>4. blockCopy' # Void => CopiedBlocks'
  BY DEF BlocksInv, CopiedBlocks
<1>5. \A s \in Slots \ loose' : B!Distinct(blocks, s)'
  BY DEF B!Distinct
<1> QED
  BY <1>2, <1>3, <1>4, <1>5 DEF BlocksInv

InsertedBlock(f, t, b) ==
    f[b] = IF b = t.b THEN [slot |-> t.slot, pos |-> t.pos, born |-> version] ELSE blocks[b]
UpdatedBlock(f, t, b) ==
    /\ f[b] = Void <=> blocks[b] = Void
    /\ f[b] # Void => /\ f[b].slot = IF b = t.b THEN t.slot ELSE blocks[b].slot
                      /\ f[b].pos = IF b = t.b THEN t.pos ELSE blocks[b].pos
MovedBlock(f, t, b) ==
    /\ f[b] = Void <=> blocks[b] = Void
    /\ f[b] # Void =>
         /\ f[b].slot = blocks[b].slot /\ f[b].born = blocks[b].born
         /\ f[b].pos = IF b = t.b THEN t.npos ELSE IF b = t.n THEN t.pos ELSE blocks[b].pos

LEMMA BlockPlaced ==
    ASSUME BlocksInv, NEW t, ReadBlocks(t), NEW f, f = B!Placed(t)
    PROVE  /\ f \in [B!Blocks -> BlockRows \cup {Void}]
           /\ \A b \in B!Blocks : f[b] # Void => f[b].pos <= NBlocks + version + 1
           /\ t.op = "insert" => \A b \in B!Blocks : InsertedBlock(f, t, b)
           /\ t.op = "update" => \A b \in B!Blocks : UpdatedBlock(f, t, b)
           /\ t.op = "move" => \A b \in B!Blocks : MovedBlock(f, t, b)
<1>1. /\ t.b \in B!Blocks /\ t.slot \in Slots /\ t.pos \in Nat /\ t.pos <= NBlocks + version + 1
      /\ t.op = "move" => t.npos \in Nat /\ t.npos <= NBlocks + version + 1
      /\ t.op \in {"insert", "update", "move"}
  <2>1. t.at \in Nat /\ t.at <= version /\ version \in Nat
    BY DEF BlocksInv, BlockTypes, ReadBlocks, Placing
  <2>2. \A z \in Nat : z <= NBlocks + t.at + 1 => z <= NBlocks + version + 1
    BY <2>1, BlockAssumption
  <2> QED
    BY <2>2 DEF ReadBlocks, Placing
<1>2. /\ blocks \in [B!Blocks -> BlockRows \cup {Void}] /\ version \in Nat /\ Void \notin BlockRows
      /\ \A b \in B!Blocks : blocks[b] # Void => blocks[b] \in BlockRows /\ blocks[b].pos <= NBlocks + version + 1
  <2>1. \A z \in Nat : z <= NBlocks + version => z <= NBlocks + version + 1
    BY BlockAssumption DEF BlocksInv, BlockTypes
  <2> QED
    BY <2>1, BlockAssumption DEF BlocksInv, BlockTypes, BlockRows, Last
<1>3. CASE t.op = "insert"
  <2>1. f = [blocks EXCEPT ![t.b] = [slot |-> t.slot, pos |-> t.pos, born |-> version]]
    BY <1>3 DEF B!Placed
  <2>2. [slot |-> t.slot, pos |-> t.pos, born |-> version] \in BlockRows
    BY <1>1, <1>2 DEF BlockRows
  <2> QED
    BY <1>1, <1>2, <1>3, <2>1, <2>2 DEF InsertedBlock
<1>4. CASE t.op = "update"
  <2>1. f = [b \in B!Blocks |-> IF b = t.b /\ blocks[b] # Void
                                THEN [blocks[b] EXCEPT !.slot = t.slot, !.pos = t.pos] ELSE blocks[b]]
    BY <1>4 DEF B!Placed
  <2>2. ASSUME NEW r \in BlockRows, NEW z, z = [r EXCEPT !.slot = t.slot, !.pos = t.pos]
        PROVE  z \in BlockRows /\ z.slot = t.slot /\ z.pos = t.pos /\ z # Void
    <3>1. z \in BlockRows
      BY <1>1, <2>2 DEF BlockRows
    <3> QED
      BY <1>2, <2>2, <3>1 DEF BlockRows
  <2>3. ASSUME NEW b \in B!Blocks
        PROVE  /\ f[b] \in BlockRows \cup {Void} /\ (f[b] # Void => f[b].pos <= NBlocks + version + 1)
               /\ UpdatedBlock(f, t, b)
    <3>1. CASE b = t.b /\ blocks[b] # Void
      <4>1. f[b] = [blocks[b] EXCEPT !.slot = t.slot, !.pos = t.pos] /\ blocks[b] \in BlockRows
        BY <1>2, <2>1, <3>1
      <4>2. f[b] \in BlockRows /\ f[b].slot = t.slot /\ f[b].pos = t.pos /\ f[b] # Void
        BY <2>2, <4>1
      <4> QED
        BY <1>1, <3>1, <4>2 DEF UpdatedBlock
    <3>2. CASE ~(b = t.b /\ blocks[b] # Void)
      <4>1. f[b] = blocks[b]
        BY <2>1, <3>2
      <4> QED
        BY <1>2, <3>2, <4>1 DEF UpdatedBlock
    <3> QED
      BY <3>1, <3>2
  <2> QED
    BY <1>4, <2>1, <2>3
<1>5. CASE t.op = "move"
  <2>1. f = [b \in B!Blocks |-> IF blocks[b] = Void THEN Void
                                ELSE IF b = t.b THEN [blocks[b] EXCEPT !.pos = t.npos]
                                ELSE IF b = t.n THEN [blocks[b] EXCEPT !.pos = t.pos] ELSE blocks[b]]
    BY <1>5 DEF B!Placed
  <2>2. ASSUME NEW r \in BlockRows, NEW x \in Nat, NEW z, z = [r EXCEPT !.pos = x]
        PROVE  z \in BlockRows /\ z.slot = r.slot /\ z.born = r.born /\ z.pos = x /\ z # Void
    <3>1. z \in BlockRows
      BY <2>2 DEF BlockRows
    <3> QED
      BY <1>2, <2>2, <3>1 DEF BlockRows
  <2>3. ASSUME NEW b \in B!Blocks
        PROVE  /\ f[b] \in BlockRows \cup {Void} /\ (f[b] # Void => f[b].pos <= NBlocks + version + 1)
               /\ MovedBlock(f, t, b)
    <3>1. CASE blocks[b] = Void
      BY <2>1, <3>1 DEF MovedBlock
    <3>2. CASE blocks[b] # Void /\ b = t.b
      <4>1. f[b] = [blocks[b] EXCEPT !.pos = t.npos] /\ blocks[b] \in BlockRows
        BY <1>2, <2>1, <3>2
      <4>2. f[b] \in BlockRows /\ f[b].slot = blocks[b].slot /\ f[b].born = blocks[b].born
            /\ f[b].pos = t.npos /\ f[b] # Void
        BY <1>1, <1>5, <2>2, <4>1
      <4> QED
        BY <1>1, <1>5, <3>2, <4>2 DEF MovedBlock
    <3>3. CASE blocks[b] # Void /\ b # t.b /\ b = t.n
      <4>1. f[b] = [blocks[b] EXCEPT !.pos = t.pos] /\ blocks[b] \in BlockRows
        BY <1>2, <2>1, <3>3
      <4>2. f[b] \in BlockRows /\ f[b].slot = blocks[b].slot /\ f[b].born = blocks[b].born
            /\ f[b].pos = t.pos /\ f[b] # Void
        BY <1>1, <2>2, <4>1
      <4> QED
        BY <1>1, <3>3, <4>2 DEF MovedBlock
    <3>4. CASE blocks[b] # Void /\ b # t.b /\ b # t.n
      <4>1. f[b] = blocks[b]
        BY <2>1, <3>4
      <4> QED
        BY <1>2, <3>4, <4>1 DEF MovedBlock
    <3> QED
      BY <3>1, <3>2, <3>3, <3>4
  <2> QED
    BY <1>5, <2>1, <2>3
<1> QED
  BY <1>1, <1>3, <1>4, <1>5

(* Written on what it read, a place is nobody else's.                      *)
LEMMA BlockFits ==
    ASSUME BlocksInv, NEW t, ReadBlocks(t), t.at = version, NEW s \in Slots \ loose
    PROVE  B!Distinct(B!Placed(t), s)
<1>1. PICK f : f = B!Placed(t)
  OBVIOUS
<1>2. B!Distinct(blocks, s)
  BY DEF BlocksInv
<1>3. \A b \in B!Blocks : blocks[b] # Void => blocks[b] \in BlockRows /\ blocks[b].pos \in Nat
  BY DEF BlocksInv, BlockTypes, BlockRows
<1>4. t.b \in B!Blocks /\ t.pos \in Nat /\ t.op \in {"insert", "update", "move"}
  BY DEF ReadBlocks, Placing
<1> SUFFICES ASSUME NEW b \in B!In(f, s), NEW c \in B!In(f, s), b # c PROVE f[b].pos # f[c].pos
  BY <1>1 DEF B!Distinct
<1>5. b \in B!Blocks /\ c \in B!Blocks /\ f[b] # Void /\ f[c] # Void /\ f[b].slot = s /\ f[c].slot = s
  BY DEF B!In
<1>6. CASE t.op = "insert"
  <2>1. \A d \in B!Blocks : f[d] = IF d = t.b THEN [slot |-> t.slot, pos |-> t.pos, born |-> version]
                                   ELSE blocks[d]
    BY <1>1, <1>6, BlockPlaced DEF InsertedBlock
  <2>2. \A d \in B!In(blocks, t.slot) : blocks[d].pos < t.pos /\ blocks[d].pos \in Nat
    BY <1>3, <1>6 DEF ReadBlocks, Beyond, B!In
  <2>3. CASE b # t.b /\ c # t.b
    BY <1>2, <1>5, <2>1, <2>3 DEF B!Distinct, B!In
  <2>4. CASE b = t.b
    <3>1. c \in B!In(blocks, t.slot) /\ f[c] = blocks[c] /\ f[b].pos = t.pos
      BY <1>5, <2>1, <2>4 DEF B!In
    <3> QED
      BY <1>4, <2>2, <3>1
  <2>5. CASE c = t.b
    <3>1. b \in B!In(blocks, t.slot) /\ f[b] = blocks[b] /\ f[c].pos = t.pos
      BY <1>5, <2>1, <2>5 DEF B!In
    <3> QED
      BY <1>4, <2>2, <3>1
  <2> QED
    BY <2>3, <2>4, <2>5
<1>7. CASE t.op = "update"
  <2>1. \A d \in B!Blocks :
          /\ f[d] = Void <=> blocks[d] = Void
          /\ f[d] # Void => /\ f[d].slot = IF d = t.b THEN t.slot ELSE blocks[d].slot
                            /\ f[d].pos = IF d = t.b THEN t.pos ELSE blocks[d].pos
    <3>1. \A d \in B!Blocks : UpdatedBlock(f, t, d)
      BY <1>1, <1>7, BlockPlaced
    <3> QED
      BY <3>1 DEF UpdatedBlock
  <2>2. (t.b \in B!In(blocks, t.slot) /\ blocks[t.b].pos = t.pos) \/ Beyond(t)
    BY <1>7 DEF ReadBlocks
  <2>3. CASE b # t.b /\ c # t.b
    BY <1>2, <1>5, <2>1, <2>3 DEF B!Distinct, B!In
  <2>4. ASSUME NEW d \in B!In(f, s), d # t.b, t.b \in B!In(f, s) PROVE f[d].pos # t.pos
    <3>1. d \in B!In(blocks, t.slot) /\ f[d].pos = blocks[d].pos /\ t.slot = s /\ blocks[d].pos \in Nat
      BY <1>3, <2>1, <2>4 DEF B!In
    <3>2. CASE Beyond(t)
      BY <1>4, <3>1, <3>2 DEF Beyond
    <3>3. CASE t.b \in B!In(blocks, t.slot) /\ blocks[t.b].pos = t.pos
      BY <1>2, <2>4, <3>1, <3>3 DEF B!Distinct
    <3> QED
      BY <2>2, <3>2, <3>3
  <2>5. \A d \in B!In(f, s) : d = t.b => f[d].pos = t.pos
    BY <2>1 DEF B!In
  <2> QED
    BY <2>3, <2>4, <2>5
<1>8. CASE t.op = "move"
  <2>1. \A d \in B!Blocks :
          /\ f[d] = Void <=> blocks[d] = Void
          /\ f[d] # Void =>
               /\ f[d].slot = blocks[d].slot
               /\ f[d].pos = IF d = t.b THEN t.npos ELSE IF d = t.n THEN t.pos ELSE blocks[d].pos
    <3>1. \A d \in B!Blocks : MovedBlock(f, t, d)
      BY <1>1, <1>8, BlockPlaced
    <3> QED
      BY <3>1 DEF MovedBlock
  <2>2. /\ t.b \in B!In(blocks, t.slot) /\ t.n \in B!In(blocks, t.slot)
        /\ blocks[t.b].pos = t.pos /\ blocks[t.n].pos = t.npos /\ t.pos # t.npos
    BY <1>8 DEF ReadBlocks
  <2>3. b \in B!In(blocks, s) /\ c \in B!In(blocks, s)
    BY <1>5, <2>1 DEF B!In
  <2>4. \A d \in B!In(blocks, s) : d # b => blocks[d].pos # blocks[b].pos
    BY <1>2, <2>3 DEF B!Distinct
  <2>5. \A d \in B!In(blocks, s) : d # c => blocks[d].pos # blocks[c].pos
    BY <1>2, <2>3 DEF B!Distinct
  <2>6. t.b \in {b, c} \/ t.n \in {b, c} => t.b \in B!In(blocks, s) /\ t.n \in B!In(blocks, s)
    BY <2>2, <2>3 DEF B!In
  <2> QED
    BY <1>5, <2>1, <2>2, <2>3, <2>4, <2>5, <2>6
<1> QED
  BY <1>4, <1>6, <1>7, <1>8

(* Overtaken, it lands where positions may repeat.                         *)
LEMMA BlockOvertaken ==
    ASSUME BlocksInv, NEW t, ReadBlocks(t), NEW s \in Slots, s # t.slot,
           s \notin {blocks[b].slot : b \in {c \in B!Blocks : blocks[c] # Void}}
    PROVE  B!Distinct(B!Placed(t), s)
<1>1. PICK f : f = B!Placed(t)
  OBVIOUS
<1>2. t.op \in {"insert", "update", "move"}
  BY DEF ReadBlocks
<1>3. \A b \in B!Blocks : blocks[b] # Void => blocks[b].slot # s
  OBVIOUS
<1>4. ASSUME NEW b \in B!Blocks, f[b] # Void PROVE f[b].slot # s
  <2>1. CASE t.op = "insert"
    <3>1. InsertedBlock(f, t, b)
      BY <1>1, <2>1, BlockPlaced
    <3> QED
      BY <1>3, <1>4, <3>1 DEF InsertedBlock
  <2>2. CASE t.op = "update"
    <3>1. UpdatedBlock(f, t, b)
      BY <1>1, <2>2, BlockPlaced
    <3> QED
      BY <1>3, <1>4, <3>1 DEF UpdatedBlock
  <2>3. CASE t.op = "move"
    <3>1. MovedBlock(f, t, b)
      BY <1>1, <2>3, BlockPlaced
    <3> QED
      BY <1>3, <1>4, <3>1 DEF MovedBlock
  <2> QED
    BY <1>2, <2>1, <2>2, <2>3
<1> QED
  BY <1>1, <1>4 DEF B!Distinct, B!In

LEMMA BlockCommits == ASSUME BlocksInv, NEW a \in BlockAdmins, B!Commit(a) PROVE BlocksInv'
<1>1. PICK t : t = tx[a]
  OBVIOUS
<1>2. /\ t # Void /\ tx' = [tx EXCEPT ![a] = Void] /\ blockCopy' = blockCopy /\ ReadBlocks(t)
  BY <1>1 DEF B!Commit, BlocksInv
<1>3. tx' = [c \in BlockAdmins |-> IF c = a THEN Void ELSE tx[c]]
  BY <1>2 DEF BlocksInv
<1>4. tx' = [c \in BlockAdmins |-> tx'[c]] /\ \A c \in BlockAdmins : tx'[c] = tx[c] \/ tx'[c] = Void
  BY <1>3
<1>5. CASE UNCHANGED <<blocks, version, loose>>
  <2>1. ASSUME NEW c \in BlockAdmins, tx'[c] # Void PROVE ReadBlocks(tx[c])'
    <3>1. tx'[c] = tx[c] /\ ReadBlocks(tx[c])
      BY <1>4, <2>1 DEF BlocksInv
    <3> QED
      BY <1>5, <3>1 DEF ReadBlocks, Placing, Beyond
  <2>2. BlockTypes' /\ (blockCopy' # Void => CopiedBlocks')
    BY <1>2, <1>5 DEF BlocksInv, BlockTypes, Last, CopiedBlocks
  <2>3. \A s \in Slots \ loose' : B!Distinct(blocks, s)'
    BY <1>5 DEF BlocksInv, B!Distinct
  <2> QED
    BY <1>4, <2>1, <2>2, <2>3 DEF BlocksInv
<1>6. CASE ~UNCHANGED <<blocks, version, loose>>
  <2>1. /\ blocks' = B!Placed(t) /\ version' = version + 1
        /\ loose' = IF t.at = version THEN loose
                    ELSE loose \cup {t.slot} \cup {blocks[b].slot : b \in {c \in B!Blocks : blocks[c] # Void}}
    BY <1>1, <1>6 DEF B!Commit
  <2>2. /\ blocks' \in [B!Blocks -> BlockRows \cup {Void}]
        /\ \A b \in B!Blocks : blocks'[b] # Void => blocks'[b].pos <= NBlocks + version + 1
    BY <1>2, <2>1, BlockPlaced
  <2>3. loose' \subseteq Slots
    <3>1. \A b \in B!Blocks : blocks[b] # Void => blocks[b].slot \in Slots
      BY DEF BlocksInv, BlockTypes, BlockRows
    <3>2. loose \subseteq Slots /\ t.slot \in Slots
      BY <1>2 DEF BlocksInv, BlockTypes, ReadBlocks, Placing
    <3> QED
      BY <2>1, <3>1, <3>2
  <2>4. ASSUME NEW s \in Slots \ loose' PROVE B!Distinct(blocks', s)
    <3>1. CASE t.at = version
      BY <1>2, <2>1, <2>4, <3>1, BlockFits
    <3>2. CASE t.at # version
      BY <1>2, <2>1, <2>4, <3>2, BlockOvertaken
    <3> QED
      BY <3>1, <3>2
  <2> QED
    BY <1>2, <1>4, <2>1, <2>2, <2>3, <2>4, BlockWrites
<1> QED
  BY <1>5, <1>6

LEMMA BlockDeletes == ASSUME BlocksInv, NEW b \in B!Blocks, B!Delete(b) PROVE BlocksInv'
<1>1. /\ version' = version + 1 /\ blocks' = [blocks EXCEPT ![b] = Void]
      /\ UNCHANGED <<tx, blockCopy, loose>>
  BY DEF B!Delete, B!Edits
<1>2. \A c \in B!Blocks : blocks'[c] = IF c = b THEN Void ELSE blocks[c]
  BY <1>1 DEF BlocksInv, BlockTypes
<1>3. blocks' \in [B!Blocks -> BlockRows \cup {Void}]
  BY <1>1 DEF BlocksInv, BlockTypes
<1>4. ASSUME NEW c \in B!Blocks, blocks'[c] # Void PROVE blocks'[c].pos <= NBlocks + version + 1
  <2>1. blocks'[c] = blocks[c] /\ blocks[c].pos \in Nat /\ blocks[c].pos <= NBlocks + version /\ version \in Nat
    BY <1>2, <1>4 DEF BlocksInv, BlockTypes, BlockRows, Last
  <2> QED
    BY <2>1, BlockAssumption
<1>5. ASSUME NEW s \in Slots \ loose PROVE B!Distinct(blocks', s)
  <2>1. B!Distinct(blocks, s)
    BY <1>5 DEF BlocksInv
  <2>2. \A c \in B!In(blocks', s) : c \in B!In(blocks, s) /\ blocks'[c] = blocks[c]
    BY <1>2 DEF B!In
  <2> QED
    BY <2>1, <2>2 DEF B!Distinct
<1>6. tx' = [c \in BlockAdmins |-> tx'[c]] /\ loose' \subseteq Slots
  BY <1>1 DEF BlocksInv, BlockTypes
<1> QED
  BY <1>1, <1>3, <1>4, <1>5, <1>6, BlockWrites

(* A listing names the blocks of its slot, each once.                      *)
LEMMA BlockListed ==
    ASSUME NEW f, NEW s, NEW list \in B!Listings(f, s), NEW n, n = Cardinality(B!In(f, s))
    PROVE  /\ list \in B!Orders /\ n \in Nat /\ DOMAIN list = 1..n /\ {list[i] : i \in 1..n} = B!In(f, s)
           /\ Unrepeated(list) /\ list \in Bijection(1..n, B!In(f, s))
           /\ \A i, j \in 1..n : i < j => ~B!Before(f, list[j], list[i])
<1>1. /\ list \in B!Orders /\ n \in Nat /\ DOMAIN list = 1..n
      /\ {list[i] : i \in 1..n} = B!In(f, s)
      /\ \A i, j \in 1..n : i < j => ~B!Before(f, list[j], list[i])
  BY BlockIn DEF B!Listings, B!Lists
<1>2. list \in Surjection(1..n, B!In(f, s))
  <2>1. list = [i \in 1..n |-> list[i]]
    <3>1. PICK m \in 0..NBlocks : list \in [1..m -> B!Blocks]
      BY <1>1, BlockNumbers
    <3> QED
      BY <1>1, <3>1
  <2>2. \A i \in 1..n : list[i] \in B!In(f, s)
    BY <1>1
  <2>3. \A b \in B!In(f, s) : \E i \in 1..n : list[i] = b
    BY <1>1
  <2> QED
    BY <2>1, <2>2, <2>3 DEF Surjection
<1>3. IsFiniteSet(1..n) /\ Cardinality(1..n) = n
  BY <1>1, FS_Interval
<1>4. list \in Injection(1..n, B!In(f, s))
  BY <1>2, <1>3, FS_Surjection
<1>5. Unrepeated(list)
  BY <1>1, <1>4 DEF Injection, IsInjective, Unrepeated
<1> QED
  BY <1>1, <1>2, <1>4, <1>5 DEF Bijection

(* The rows and the transactions stay.                                     *)
LEMMA BlocksStay ==
    ASSUME BlocksInv, UNCHANGED <<blocks, version, tx, loose>>, blockCopy' # Void => CopiedBlocks'
    PROVE  BlocksInv'
<1>1. BlockTypes'
  BY DEF BlocksInv, BlockTypes, Last
<1>2. ASSUME NEW a \in BlockAdmins, tx'[a] # Void PROVE ReadBlocks(tx[a])'
  <2>1. ReadBlocks(tx[a])
    BY <1>2 DEF BlocksInv
  <2> QED
    BY <2>1 DEF ReadBlocks, Placing, Beyond
<1>3. \A s \in Slots \ loose' : B!Distinct(blocks, s)'
  BY DEF BlocksInv, B!Distinct
<1> QED
  BY <1>1, <1>2, <1>3 DEF BlocksInv

LEMMA BlockCopies == ASSUME BlocksInv, B!Copied PROVE BlocksInv'
<1>1. /\ blockCopy' \in [Slots -> UNION {B!Listings(blocks, s) : s \in Slots}]
      /\ \A s \in Slots : blockCopy'[s] \in B!Listings(blocks, s)
      /\ UNCHANGED <<blocks, version, tx, loose>>
  BY DEF B!Copied
<1>2. ASSUME NEW s \in Slots
      PROVE  /\ blockCopy'[s] \in B!Orders /\ Unrepeated(blockCopy'[s])
             /\ \A i \in DOMAIN blockCopy'[s] : blockCopy'[s][i] \in B!In(blocks, s)
  <2>1. PICK list : list = blockCopy'[s]
    OBVIOUS
  <2>2. PICK n : n = Cardinality(B!In(blocks, s))
    OBVIOUS
  <2>3. /\ list \in B!Orders /\ DOMAIN list = 1..n /\ {list[i] : i \in 1..n} = B!In(blocks, s)
        /\ Unrepeated(list)
    BY <1>1, <2>1, <2>2, BlockListed
  <2> QED
    BY <2>1, <2>3
<1>3. blockCopy' \in [Slots -> B!Orders]
  BY <1>1, <1>2
<1>4. ASSUME NEW s \in Slots, NEW u \in Slots, NEW i \in DOMAIN blockCopy'[s], NEW j \in DOMAIN blockCopy'[u],
             blockCopy'[s][i] = blockCopy'[u][j]
      PROVE  s = u
  <2>1. blockCopy'[s][i] \in B!In(blocks, s) /\ blockCopy'[s][i] \in B!In(blocks, u)
    BY <1>2, <1>4
  <2> QED
    BY <2>1 DEF B!In
<1>5. CopiedBlocks'
  BY <1>2, <1>3, <1>4 DEF CopiedBlocks, Unrepeated
<1> QED
  BY <1>1, <1>5, BlocksStay

(* The number of places before another.                                    *)
LEMMA BlockRank ==
    ASSUME NEW n \in Nat, NEW K \in SUBSET (1..n)
    PROVE  \A i \in K : /\ B!Cardinality({j \in K : j < i}) \in Nat /\ B!Cardinality({j \in K : j < i}) <= n
                        /\ \A k \in K : i # k => B!Cardinality({j \in K : j < i}) # B!Cardinality({j \in K : j < k})
<1>1. IsFiniteSet(1..n) /\ Cardinality(1..n) = n /\ \A i \in K : i \in Nat
  <2>1. IsFiniteSet(1..n) /\ Cardinality(1..n) = n
    BY FS_Interval
  <2>2. \A i \in K : i \in 1..n
    OBVIOUS
  <2>3. \A i \in 1..n : i \in Nat
    OBVIOUS
  <2> QED
    BY <2>1, <2>2, <2>3
<1>2. ASSUME NEW i \in K
      PROVE  IsFiniteSet({j \in K : j < i}) /\ Cardinality({j \in K : j < i}) \in Nat
             /\ Cardinality({j \in K : j < i}) <= n
  <2>1. {j \in K : j < i} \in SUBSET (1..n)
    OBVIOUS
  <2> QED
    BY <1>1, <2>1, FS_Subset, FS_CardinalityType
<1>3. ASSUME NEW i \in K, NEW k \in K, i < k
      PROVE  Cardinality({j \in K : j < i}) # Cardinality({j \in K : j < k})
  <2>1. {j \in K : j < i} \in SUBSET {j \in K : j < k}
    <3>1. ASSUME NEW j \in K, j < i PROVE j < k
      <4>1. i \in Nat /\ j \in Nat /\ k \in Nat
        BY <1>1
      <4> QED
        BY <1>3, <3>1, <4>1
    <3> QED
      BY <3>1
  <2>2. i \in {j \in K : j < k} /\ i \notin {j \in K : j < i}
    BY <1>1, <1>3
  <2> QED
    BY <1>2, <2>1, <2>2, FS_Subset
<1>4. \A i, k \in K : i # k => i < k \/ k < i
  BY <1>1
<1>5. \A i \in K : B!Cardinality({j \in K : j < i}) = Cardinality({j \in K : j < i})
  BY BlockCardinality
<1> QED
  BY <1>2, <1>3, <1>4, <1>5

LEMMA BlockReorders == ASSUME BlocksInv, NEW s \in Slots, B!Reorder(s) PROVE BlocksInv'
<1>1. PICK list \in B!Orders :
        /\ blocks' = B!Ranked(list, s)
        /\ loose' = IF {list[i] : i \in B!Kept(list, s)} = B!In(blocks, s) THEN loose \ {s} ELSE loose \cup {s}
  BY DEF B!Reorder
<1>2. version' = version + 1 /\ UNCHANGED <<tx, blockCopy>>
  BY DEF B!Reorder, B!Edits
<1>3. PICK n \in 0..NBlocks : list \in [1..n -> B!Blocks]
  BY BlockNumbers
<1>4. PICK K : K = B!Kept(list, s)
  OBVIOUS
<1>5. K \in SUBSET (1..n) /\ \A i \in K : list[i] \in B!In(blocks, s)
  BY <1>3, <1>4 DEF B!Kept
<1>6. PICK rank : rank = [i \in K |-> B!Cardinality({j \in K : j < i})]
  OBVIOUS
<1>7. n \in Nat /\ n <= NBlocks
  BY <1>3, BlockAssumption
<1>8. \A i \in K : rank[i] \in Nat /\ rank[i] <= n /\ \A k \in K : i # k => rank[i] # rank[k]
  BY <1>5, <1>6, <1>7, BlockRank
<1>9. \A b \in B!Blocks : blocks'[b] = IF \E i \in K : list[i] = b
                                       THEN [blocks[b] EXCEPT !.pos = rank[CHOOSE k \in K : list[k] = b]]
                                       ELSE blocks[b]
  <2>1. ASSUME NEW b \in B!Blocks, NEW k, k = CHOOSE j \in K : list[j] = b, \E i \in K : list[i] = b
        PROVE  blocks'[b] = [blocks[b] EXCEPT !.pos = rank[k]]
    <3>1. k \in K
      BY <2>1
    <3>2. blocks'[b] = [blocks[b] EXCEPT !.pos = B!Cardinality({j \in K : j < k})]
      BY <1>1, <1>4, <2>1 DEF B!Ranked
    <3> QED
      BY <1>6, <3>1, <3>2
  <2>2. ASSUME NEW b \in B!Blocks, ~\E i \in K : list[i] = b PROVE blocks'[b] = blocks[b]
    BY <1>1, <1>4, <2>2 DEF B!Ranked
  <2> QED
    BY <2>1, <2>2
<1>10. /\ version \in Nat /\ blocks \in [B!Blocks -> BlockRows \cup {Void}] /\ Void \notin BlockRows
       /\ \A b \in B!Blocks : blocks[b] # Void => blocks[b] \in BlockRows /\ blocks[b].pos <= NBlocks + version
  BY BlockAssumption DEF BlocksInv, BlockTypes, BlockRows, Last
<1>11. ASSUME NEW b \in B!Blocks
       PROVE  /\ blocks'[b] \in BlockRows \cup {Void}
              /\ blocks'[b] = Void <=> blocks[b] = Void
              /\ blocks'[b] # Void => blocks'[b].slot = blocks[b].slot /\ blocks'[b].pos <= NBlocks + version + 1
              /\ b \notin {list[i] : i \in K} => blocks'[b] = blocks[b]
              /\ b \in {list[i] : i \in K} => \E k \in K : list[k] = b /\ blocks'[b].pos = rank[k]
  <2>1. CASE \E i \in K : list[i] = b
    <3>1. PICK k : k = CHOOSE j \in K : list[j] = b
      OBVIOUS
    <3>2. k \in K /\ list[k] = b
      BY <2>1, <3>1
    <3>3. blocks'[b] = [blocks[b] EXCEPT !.pos = rank[k]]
      BY <1>9, <2>1, <3>1
    <3>4. blocks[b] \in BlockRows
      BY <1>5, <1>10, <3>2 DEF B!In
    <3>5. rank[k] \in Nat /\ rank[k] <= NBlocks + version + 1
      BY <1>7, <1>8, <1>10, <3>2, BlockAssumption
    <3>6. blocks'[b] \in BlockRows /\ blocks'[b].slot = blocks[b].slot /\ blocks'[b].pos = rank[k]
      BY <3>3, <3>4, <3>5 DEF BlockRows
    <3> QED
      BY <1>10, <2>1, <3>2, <3>4, <3>5, <3>6
  <2>2. CASE ~\E i \in K : list[i] = b
    <3>1. blocks'[b] = blocks[b]
      BY <1>9, <2>2
    <3>2. blocks[b] # Void => blocks[b].pos <= NBlocks + version + 1
      BY <1>10, BlockAssumption DEF BlockRows
    <3> QED
      BY <1>10, <2>2, <3>1, <3>2
  <2> QED
    BY <2>1, <2>2
<1>12. blocks' \in [B!Blocks -> BlockRows \cup {Void}]
  <2>1. blocks' = [b \in B!Blocks |-> blocks'[b]]
    BY <1>1 DEF B!Ranked
  <2> QED
    BY <1>11, <2>1
<1>13. ASSUME NEW u \in Slots \ loose' PROVE B!Distinct(blocks', u)
  <2> SUFFICES ASSUME NEW b \in B!In(blocks', u), NEW c \in B!In(blocks', u), b # c
               PROVE  blocks'[b].pos # blocks'[c].pos
    BY DEF B!Distinct
  <2>1. b \in B!In(blocks, u) /\ c \in B!In(blocks, u) /\ b \in B!Blocks /\ c \in B!Blocks
    BY <1>11 DEF B!In
  <2>2. CASE u # s
    <3>1. b \notin {list[i] : i \in K} /\ c \notin {list[i] : i \in K}
      BY <1>5, <2>1, <2>2 DEF B!In
    <3>2. B!Distinct(blocks, u)
      BY <1>1, <1>13, <2>2 DEF BlocksInv
    <3> QED
      BY <1>11, <2>1, <3>1, <3>2 DEF B!Distinct
  <2>3. CASE u = s
    <3>1. {list[i] : i \in K} = B!In(blocks, s)
      BY <1>1, <1>4, <1>13, <2>3
    <3>2. PICK i \in K : list[i] = b /\ blocks'[b].pos = rank[i]
      BY <1>11, <2>1, <2>3, <3>1
    <3>3. PICK k \in K : list[k] = c /\ blocks'[c].pos = rank[k]
      BY <1>11, <2>1, <2>3, <3>1
    <3> QED
      BY <1>8, <3>2, <3>3
  <2> QED
    BY <2>2, <2>3
<1>14. tx' = [a \in BlockAdmins |-> tx'[a]] /\ loose' \subseteq Slots
  BY <1>1, <1>2 DEF BlocksInv, BlockTypes
<1> QED
  BY <1>2, <1>11, <1>12, <1>13, <1>14, BlockWrites

(* An import numbers each slot in the order of the file.                   *)
LEMMA BlockImported ==
    ASSUME BlocksInv, B!Import
    PROVE  /\ version' = version + 1 /\ loose' = {} /\ UNCHANGED <<tx, blockCopy>> /\ CopiedBlocks
           /\ blocks' = [b \in B!Blocks |-> blocks'[b]]
           /\ \A s \in Slots : \A i \in DOMAIN blockCopy[s] :
                blocks'[blockCopy[s][i]] = [slot |-> s, pos |-> i - 1, born |-> version]
           /\ \A b \in B!Blocks : blocks'[b] # Void =>
                \E s \in Slots : \E i \in DOMAIN blockCopy[s] : blockCopy[s][i] = b
<1>1. /\ version' = version + 1 /\ loose' = {} /\ UNCHANGED <<tx, blockCopy>> /\ CopiedBlocks
      /\ blocks' = [b \in B!Blocks |->
          IF \E s \in Slots : \E i \in DOMAIN blockCopy[s] : blockCopy[s][i] = b
          THEN LET s == CHOOSE u \in Slots : \E i \in DOMAIN blockCopy[u] : blockCopy[u][i] = b
               IN [slot |-> s, pos |-> (CHOOSE i \in DOMAIN blockCopy[s] : blockCopy[s][i] = b) - 1,
                   born |-> version]
          ELSE Void]
  BY DEF BlocksInv, B!Import, B!Edits
<1>2. ASSUME NEW s \in Slots, NEW i \in DOMAIN blockCopy[s]
      PROVE  blocks'[blockCopy[s][i]] = [slot |-> s, pos |-> i - 1, born |-> version]
  <2>1. PICK b : b = blockCopy[s][i]
    OBVIOUS
  <2>2. b \in B!Blocks
    <3>1. PICK n \in 0..NBlocks : blockCopy[s] \in [1..n -> B!Blocks]
      BY <1>1, BlockNumbers DEF CopiedBlocks
    <3> QED
      BY <1>2, <2>1, <3>1
  <2>3. PICK w : w = CHOOSE u \in Slots : \E k \in DOMAIN blockCopy[u] : blockCopy[u][k] = b
    OBVIOUS
  <2>4. w \in Slots /\ \E k \in DOMAIN blockCopy[w] : blockCopy[w][k] = b
    BY <1>2, <2>1, <2>3
  <2>5. w = s
    BY <1>1, <1>2, <2>1, <2>4 DEF CopiedBlocks
  <2>6. PICK k : k = CHOOSE j \in DOMAIN blockCopy[s] : blockCopy[s][j] = b
    OBVIOUS
  <2>7. k \in DOMAIN blockCopy[s] /\ blockCopy[s][k] = b
    BY <1>2, <2>1, <2>6
  <2>8. k = i
    BY <1>1, <1>2, <2>1, <2>7 DEF CopiedBlocks, Unrepeated
  <2>9. blocks'[b] = [slot |-> w, pos |-> (CHOOSE j \in DOMAIN blockCopy[w] : blockCopy[w][j] = b) - 1,
                      born |-> version]
    BY <1>1, <1>2, <2>1, <2>2, <2>3
  <2> QED
    BY <2>1, <2>5, <2>6, <2>8, <2>9
<1>3. \A b \in B!Blocks : blocks'[b] # Void =>
        \E s \in Slots : \E i \in DOMAIN blockCopy[s] : blockCopy[s][i] = b
  BY <1>1
<1>4. blocks' = [b \in B!Blocks |-> blocks'[b]]
  BY <1>1
<1> QED
  BY <1>1, <1>2, <1>3, <1>4

LEMMA BlockSlot ==
    ASSUME BlocksInv, B!Import, NEW s \in Slots, NEW list, list = blockCopy[s]
    PROVE  \E n \in Nat :
             /\ n <= NBlocks /\ DOMAIN list = 1..n /\ list \in B!Orders /\ Unrepeated(list)
             /\ {list[i] : i \in 1..n} = B!In(blocks', s) /\ Cardinality(B!In(blocks', s)) = n
             /\ \A i \in 1..n : /\ blocks'[list[i]] \in BlockRows
                                /\ blocks'[list[i]].pos = i - 1 /\ blocks'[list[i]].born = version
<1>1. CopiedBlocks /\ list \in B!Orders /\ Unrepeated(list)
  BY BlockImported DEF CopiedBlocks
<1>2. PICK n \in 0..NBlocks : list \in [1..n -> B!Blocks]
  BY <1>1, BlockNumbers
<1>3. n \in Nat /\ n <= NBlocks /\ DOMAIN list = 1..n
  BY <1>2, BlockAssumption
<1>4. version \in Nat /\ Void \notin BlockRows
  BY BlockAssumption DEF BlocksInv, BlockTypes, BlockRows
<1>5. ASSUME NEW i \in 1..n
      PROVE  /\ blocks'[list[i]] \in BlockRows /\ blocks'[list[i]].slot = s /\ list[i] \in B!Blocks
             /\ blocks'[list[i]].pos = i - 1 /\ blocks'[list[i]].born = version
  <2>1. blocks'[list[i]] = [slot |-> s, pos |-> i - 1, born |-> version]
    BY <1>3, <1>5, BlockImported
  <2>2. i - 1 \in Nat
    BY <1>3, <1>5
  <2> QED
    BY <1>2, <1>4, <1>5, <2>1, <2>2 DEF BlockRows
<1>6. {list[i] : i \in 1..n} = B!In(blocks', s)
  <2>1. ASSUME NEW b \in B!In(blocks', s) PROVE \E i \in 1..n : list[i] = b
    <3>1. b \in B!Blocks /\ blocks'[b] # Void /\ blocks'[b].slot = s
      BY <2>1 DEF B!In
    <3>2. PICK u \in Slots : \E i \in DOMAIN blockCopy[u] : blockCopy[u][i] = b
      BY <3>1, BlockImported
    <3>3. PICK i \in DOMAIN blockCopy[u] : blockCopy[u][i] = b
      BY <3>2
    <3>4. blocks'[b] = [slot |-> u, pos |-> i - 1, born |-> version]
      BY <3>3, BlockImported
    <3>5. u = s
      BY <3>1, <3>4
    <3> QED
      BY <1>3, <3>3, <3>5
  <2>2. \A i \in 1..n : list[i] \in B!In(blocks', s)
    BY <1>4, <1>5 DEF B!In
  <2> QED
    BY <2>1, <2>2
<1>7. Cardinality(B!In(blocks', s)) = n
  <2>1. IsFiniteSet(1..n) /\ Cardinality(1..n) = n
    BY <1>3, FS_Interval
  <2>2. list \in Bijection(1..n, B!In(blocks', s))
    <3>1. list \in [1..n -> B!In(blocks', s)]
      BY <1>2, <1>6
    <3>2. IsInjective(list)
      BY <1>1, <1>3 DEF Unrepeated, IsInjective
    <3>3. \A b \in B!In(blocks', s) : \E i \in 1..n : list[i] = b
      BY <1>6
    <3> QED
      BY <3>1, <3>2, <3>3 DEF Bijection, Injection, Surjection
  <2> QED
    BY <2>1, <2>2, FS_Bijection DEF ExistsBijection
<1> QED
  BY <1>1, <1>3, <1>5, <1>6, <1>7

LEMMA BlockImports == ASSUME BlocksInv, B!Import PROVE BlocksInv'
<1>1. ASSUME NEW s \in Slots
      PROVE  \A b \in B!In(blocks', s) : blocks'[b] \in BlockRows /\ blocks'[b].pos <= NBlocks + version + 1
  <2>1. PICK list : list = blockCopy[s]
    OBVIOUS
  <2>2. PICK n \in Nat :
             /\ n <= NBlocks /\ DOMAIN list = 1..n /\ list \in B!Orders /\ Unrepeated(list)
             /\ {list[i] : i \in 1..n} = B!In(blocks', s) /\ Cardinality(B!In(blocks', s)) = n
             /\ \A i \in 1..n : /\ blocks'[list[i]] \in BlockRows
                                /\ blocks'[list[i]].pos = i - 1 /\ blocks'[list[i]].born = version
    BY <2>1, BlockSlot
  <2>3. \A i \in 1..n : i - 1 <= NBlocks + version + 1
    BY <2>2, BlockAssumption DEF BlocksInv, BlockTypes
  <2>4. ASSUME NEW b \in B!In(blocks', s)
        PROVE  blocks'[b] \in BlockRows /\ blocks'[b].pos <= NBlocks + version + 1
    <3>1. PICK i \in 1..n : list[i] = b
      BY <2>2
    <3> QED
      BY <2>2, <2>3, <3>1
  <2> QED
    BY <2>4
<1>2. ASSUME NEW b \in B!Blocks, blocks'[b] # Void
      PROVE  blocks'[b] \in BlockRows /\ blocks'[b].pos <= NBlocks + version + 1
  <2>1. PICK s \in Slots : \E i \in DOMAIN blockCopy[s] : blockCopy[s][i] = b
    BY <1>2, BlockImported
  <2>2. blocks'[b].slot = s
    <3>1. PICK i \in DOMAIN blockCopy[s] : blockCopy[s][i] = b
      BY <2>1
    <3>2. blocks'[b] = [slot |-> s, pos |-> i - 1, born |-> version]
      BY <3>1, BlockImported
    <3> QED
      BY <3>2
  <2>3. b \in B!In(blocks', s)
    BY <1>2, <2>2 DEF B!In
  <2> QED
    BY <1>1, <2>3
<1>3. blocks' \in [B!Blocks -> BlockRows \cup {Void}]
  BY <1>2, BlockImported
<1>4. ASSUME NEW s \in Slots PROVE B!Distinct(blocks', s)
  <2>1. PICK list : list = blockCopy[s]
    OBVIOUS
  <2>2. PICK n \in Nat :
             /\ n <= NBlocks /\ DOMAIN list = 1..n /\ list \in B!Orders /\ Unrepeated(list)
             /\ {list[i] : i \in 1..n} = B!In(blocks', s) /\ Cardinality(B!In(blocks', s)) = n
             /\ \A i \in 1..n : /\ blocks'[list[i]] \in BlockRows
                                /\ blocks'[list[i]].pos = i - 1 /\ blocks'[list[i]].born = version
    BY <2>1, BlockSlot
  <2> SUFFICES ASSUME NEW b \in B!In(blocks', s), NEW c \in B!In(blocks', s), b # c
               PROVE  blocks'[b].pos # blocks'[c].pos
    BY DEF B!Distinct
  <2>3. PICK i \in 1..n : list[i] = b
    BY <2>2
  <2>4. PICK k \in 1..n : list[k] = c
    BY <2>2
  <2>5. i # k /\ blocks'[b].pos = i - 1 /\ blocks'[c].pos = k - 1
    BY <2>2, <2>3, <2>4
  <2> QED
    BY <2>5
<1>5. /\ version' = version + 1 /\ loose' = {} /\ blockCopy' = blockCopy /\ tx' = tx
      /\ tx = [a \in BlockAdmins |-> tx[a]]
  BY BlockImported DEF BlocksInv
<1> QED
  BY <1>2, <1>3, <1>4, <1>5, BlockWrites

LEMMA BlocksStart == B!Init => BlocksInv
<1> SUFFICES ASSUME B!Init PROVE BlocksInv
  OBVIOUS
<1>1. PICK s \in Slots, n \in 2..NBlocks :
         blocks = [b \in B!Blocks |-> IF b <= n THEN [slot |-> s, pos |-> b - 1, born |-> 0] ELSE Void]
  BY DEF B!Init
<1>2. version = 1 /\ tx = [a \in BlockAdmins |-> Void] /\ blockCopy = Void /\ loose = {}
  BY DEF B!Init
<1>3. ASSUME NEW b \in B!Blocks
      PROVE  /\ blocks[b] \in BlockRows \cup {Void}
             /\ blocks[b] # Void => blocks[b].pos = b - 1 /\ b - 1 <= NBlocks + 1 /\ b \in Nat
  <2>1. b \in 1..NBlocks /\ b - 1 \in Nat /\ b - 1 <= NBlocks + 1
    BY BlockNumbers, BlockAssumption
  <2> QED
    BY <1>1, <2>1 DEF BlockRows
<1>4. BlockTypes
  BY <1>1, <1>2, <1>3 DEF BlockTypes, Last
<1>5. ASSUME NEW u \in Slots, NEW b \in B!In(blocks, u), NEW c \in B!In(blocks, u), b # c
      PROVE  blocks[b].pos # blocks[c].pos
  <2>1. b \in B!Blocks /\ c \in B!Blocks /\ blocks[b] # Void /\ blocks[c] # Void
    BY <1>5 DEF B!In
  <2> QED
    BY <1>3, <1>5, <2>1
<1>6. \A u \in Slots : B!Distinct(blocks, u)
  BY <1>5 DEF B!Distinct
<1> QED
  BY <1>2, <1>4, <1>6 DEF BlocksInv

LEMMA BlocksStep == BlocksInv /\ [B!Next]_(B!vars) => BlocksInv'
<1> SUFFICES ASSUME BlocksInv, [B!Next]_(B!vars) PROVE BlocksInv'
  OBVIOUS
<1>1. CASE UNCHANGED B!vars
  <2>1. UNCHANGED <<blocks, version, tx, loose, blockCopy>>
    BY <1>1 DEF B!vars
  <2>2. blockCopy' # Void => CopiedBlocks'
    BY <2>1 DEF BlocksInv, CopiedBlocks
  <2> QED
    BY <2>1, <2>2, BlocksStay
<1>2. CASE B!Next
  BY <1>2, BlockInsert, BlockUpdate, BlockMove, BlockCommits, BlockDeletes, BlockReorders, BlockCopies,
     BlockImports DEF B!Next
<1> QED
  BY <1>1, <1>2

(* The invariant of the custom blocks.                                     *)
THEOREM BlocksInvariance == B!Spec => []BlocksInv
  BY BlocksStart, BlocksStep, PTL DEF B!Spec

(* A move exchanges a block with the one listed next to it.                *)
LEMMA BlockMoves ==
    ASSUME BlocksInv, NEW a \in BlockAdmins, NEW t, t = tx[a], B!Commit(a), t.op = "move", t.at = version,
           t.slot \notin loose, NEW b \in B!In(blocks, t.slot), NEW c \in B!In(blocks, t.slot), b # c
    PROVE  B!Before(blocks', b, c) <=> IF {b, c} = {t.b, t.n} THEN B!Before(blocks, c, b)
                                       ELSE B!Before(blocks, b, c)
<1>1. t # Void /\ ReadBlocks(t) /\ blocks' = B!Placed(t)
  BY DEF B!Commit, BlocksInv
<1>2. PICK s : s = t.slot
  OBVIOUS
<1>3. s \in Slots \ loose
  BY <1>1, <1>2 DEF ReadBlocks, Placing
<1>4. \A d \in B!In(blocks, s) : /\ d \in B!Blocks /\ blocks[d] # Void /\ blocks[d].pos \in Nat
                                 /\ blocks[d].slot = s
  BY DEF BlocksInv, BlockTypes, BlockRows, B!In
<1>5. \A d, e \in B!In(blocks, s) : d # e => blocks[d].pos # blocks[e].pos
  BY <1>3 DEF BlocksInv, B!Distinct
<1>6. /\ t.b \in B!In(blocks, s) /\ t.n \in B!In(blocks, s)
      /\ blocks[t.b].pos = t.pos /\ blocks[t.n].pos = t.npos /\ t.pos # t.npos
      /\ \A d \in B!In(blocks, s) : /\ ~(t.npos < blocks[d].pos /\ blocks[d].pos < t.pos)
                                    /\ ~(t.pos < blocks[d].pos /\ blocks[d].pos < t.npos)
  BY <1>1, <1>2 DEF ReadBlocks
<1>7. \A d \in B!In(blocks, s) :
        blocks'[d].pos = IF d = t.b THEN t.npos ELSE IF d = t.n THEN t.pos ELSE blocks[d].pos
  <2>1. \A d \in B!Blocks : MovedBlock(blocks', t, d)
    BY <1>1, BlockPlaced
  <2> QED
    BY <1>4, <2>1 DEF MovedBlock
<1>8. \A d, e \in B!In(blocks, s) : d # e =>
        /\ B!Before(blocks, d, e) <=> blocks[d].pos < blocks[e].pos
        /\ B!Before(blocks', d, e) <=> blocks'[d].pos < blocks'[e].pos
  <2> SUFFICES ASSUME NEW d \in B!In(blocks, s), NEW e \in B!In(blocks, s), d # e
               PROVE  /\ B!Before(blocks, d, e) <=> blocks[d].pos < blocks[e].pos
                      /\ B!Before(blocks', d, e) <=> blocks'[d].pos < blocks'[e].pos
    OBVIOUS
  <2>1. blocks[d].pos # blocks[e].pos
    BY <1>5
  <2>2. blocks'[d].pos # blocks'[e].pos
    BY <1>5, <1>6, <1>7
  <2> QED
    BY <2>1, <2>2 DEF B!Before
<1>9. PICK x, y, z, w : x = blocks[b].pos /\ y = blocks[c].pos /\ z = blocks'[b].pos /\ w = blocks'[c].pos
  OBVIOUS
<1>10. x \in Nat /\ y \in Nat /\ t.pos \in Nat /\ t.npos \in Nat /\ x # y
  BY <1>2, <1>4, <1>5, <1>6, <1>9
<1>11. /\ ~(t.npos < x /\ x < t.pos) /\ ~(t.pos < x /\ x < t.npos)
       /\ ~(t.npos < y /\ y < t.pos) /\ ~(t.pos < y /\ y < t.npos)
       /\ b = t.b <=> x = t.pos
       /\ b = t.n <=> x = t.npos
       /\ c = t.b <=> y = t.pos
       /\ c = t.n <=> y = t.npos
  BY <1>2, <1>5, <1>6, <1>9
<1>12. /\ z = IF b = t.b THEN t.npos ELSE IF b = t.n THEN t.pos ELSE x
       /\ w = IF c = t.b THEN t.npos ELSE IF c = t.n THEN t.pos ELSE y
  BY <1>2, <1>7, <1>9
<1>13. z < w <=> IF {b, c} = {t.b, t.n} THEN y < x ELSE x < y
  <2>1. {b, c} = {t.b, t.n} <=> (b = t.b /\ c = t.n) \/ (b = t.n /\ c = t.b)
    BY <1>6
  <2> QED
    BY <1>6, <1>10, <1>11, <1>12, <2>1
<1>14. /\ B!Before(blocks', b, c) <=> z < w
       /\ B!Before(blocks, b, c) <=> x < y
       /\ B!Before(blocks, c, b) <=> y < x
  BY <1>2, <1>8, <1>9
<1> QED
  BY <1>13, <1>14

(* An order of a slot whose positions are all different is the only one.   *)
LEMMA BlockRestores ==
    ASSUME BlocksInv, B!Import, NEW s \in Slots PROVE B!Listings(blocks', s) = {blockCopy[s]}
<1>1. PICK list : list = blockCopy[s]
  OBVIOUS
<1>2. PICK n \in Nat :
         /\ n <= NBlocks /\ DOMAIN list = 1..n /\ list \in B!Orders /\ Unrepeated(list)
         /\ {list[i] : i \in 1..n} = B!In(blocks', s) /\ Cardinality(B!In(blocks', s)) = n
         /\ \A i \in 1..n : /\ blocks'[list[i]] \in BlockRows
                            /\ blocks'[list[i]].pos = i - 1 /\ blocks'[list[i]].born = version
  BY <1>1, BlockSlot
<1>3. \A i, j \in 1..n : i < j => ~B!Before(blocks', list[j], list[i])
  <2> SUFFICES ASSUME NEW i \in 1..n, NEW j \in 1..n, i < j PROVE ~B!Before(blocks', list[j], list[i])
    OBVIOUS
  <2>1. blocks'[list[i]].pos = i - 1 /\ blocks'[list[j]].pos = j - 1
    BY <1>2
  <2> QED
    BY <1>2, <2>1 DEF B!Before
<1>4. list \in B!Listings(blocks', s)
  <2>1. B!Cardinality(B!In(blocks', s)) = n
    BY <1>2, BlockCardinality
  <2> QED
    BY <1>2, <1>3, <2>1 DEF B!Listings, B!Lists
<1>5. ASSUME NEW q \in B!Listings(blocks', s) PROVE q = list
  <2>0. n = Cardinality(B!In(blocks', s))
    BY <1>2
  <2>1. /\ q \in B!Orders /\ DOMAIN q = 1..n /\ {q[i] : i \in 1..n} = B!In(blocks', s) /\ Unrepeated(q)
        /\ \A i, j \in 1..n : i < j => ~B!Before(blocks', q[j], q[i])
    BY <1>5, <2>0, BlockListed
  <2> DEFINE D == {i \in 1..n : q[i] # list[i]}
  <2>2. CASE D = {}
    <3>1. \A i \in 1..n : q[i] = list[i]
      BY <2>2
    <3>2. q = [i \in 1..n |-> q[i]] /\ list = [i \in 1..n |-> list[i]]
      <4>1. PICK m \in 0..NBlocks : q \in [1..m -> B!Blocks]
        BY <2>1, BlockNumbers
      <4>2. PICK k \in 0..NBlocks : list \in [1..k -> B!Blocks]
        BY <1>2, BlockNumbers
      <4> QED
        BY <1>2, <2>1, <4>1, <4>2
    <3> QED
      BY <3>1, <3>2
  <2>3. CASE D # {}
    <3>1. D \in SUBSET Nat
      OBVIOUS
    <3>2. PICK i \in D : \A y \in D : i <= y
      BY <2>3, <3>1, LeastNumber
    <3>3. i \in 1..n /\ q[i] # list[i] /\ \A k \in 1..n : k < i => q[k] = list[k]
      BY <3>1, <3>2
    <3>4. PICK j \in 1..n : list[j] = q[i]
      BY <1>2, <2>1, <3>3
    <3>5. PICK k \in 1..n : q[k] = list[i]
      BY <1>2, <2>1, <3>3
    <3>6. j > i
      <4>1. j # i /\ ~(j < i)
        BY <1>2, <2>1, <3>3, <3>4 DEF Unrepeated
      <4> QED
        BY <3>3, <4>1
    <3>7. k > i
      <4>1. k # i /\ ~(k < i)
        BY <1>2, <2>1, <3>3, <3>5 DEF Unrepeated
      <4> QED
        BY <3>3, <4>1
    <3>8. blocks'[q[i]].pos = j - 1 /\ blocks'[q[k]].pos = i - 1
      BY <1>2, <3>3, <3>4, <3>5
    <3>9. B!Before(blocks', q[k], q[i])
      BY <3>3, <3>6, <3>8 DEF B!Before
    <3> QED
      BY <2>1, <3>3, <3>7, <3>9
  <2> QED
    BY <2>2, <2>3
<1> QED
  BY <1>1, <1>4, <1>5

(* The page shows the order that its edits asked for.                      *)
THEOREM BlocksHold == B!Spec => B!OrderFollowsEdits
<1>1. BlocksInv => \A s \in Slots \ loose : B!Distinct(blocks, s)
  BY DEF BlocksInv
<1>2. ASSUME BlocksInv
      PROVE  /\ \A a \in BlockAdmins : LET t == tx[a] IN
                  B!Commit(a) /\ t.op = "move" /\ t.at = version /\ t.slot \notin loose =>
                     \A b, c \in B!In(blocks, t.slot) :
                        b # c => (B!Before(blocks', b, c) <=> IF {b, c} = {t.b, t.n} THEN B!Before(blocks, c, b)
                                                              ELSE B!Before(blocks, b, c))
             /\ B!Import => \A s \in Slots : B!Listings(blocks', s) = {blockCopy[s]}
  BY <1>2, BlockMoves, BlockRestores
<1>3. BlocksInv /\ [B!Next]_(B!vars) =>
        [/\ \A a \in BlockAdmins : LET t == tx[a] IN
               B!Commit(a) /\ t.op = "move" /\ t.at = version /\ t.slot \notin loose =>
                  \A b, c \in B!In(blocks, t.slot) :
                     b # c => (B!Before(blocks', b, c) <=> IF {b, c} = {t.b, t.n} THEN B!Before(blocks, c, b)
                                                           ELSE B!Before(blocks, b, c))
         /\ B!Import => \A s \in Slots : B!Listings(blocks', s) = {blockCopy[s]}]_(B!vars)
  BY <1>2
<1>4. B!Spec => [][B!Next]_(B!vars)
  BY DEF B!Spec
<1> QED
  BY <1>1, <1>3, <1>4, BlocksInvariance, PTL DEF B!OrderFollowsEdits

-----------------------------------------------------------------------------
(* The spec form.                                                          *)

LEMMA Unwrapped == ASSUME NEW d PROVE S!UnwrapOr({}, d) = d /\ \A x : S!UnwrapOr({x}, d) = x
<1>1. \A x : (CHOOSE y \in {x} : TRUE) = x
  OBVIOUS
<1>2. \A x : {x} # {}
  OBVIOUS
<1> QED
  BY <1>1, <1>2 DEF S!UnwrapOr, S!OrElse, S!None

LEMMA OptionCases ==
    ASSUME NEW T, NEW o, S!Option(o, T) PROVE o = {} \/ \E x \in T : o = {x}
<1>1. ASSUME o # {} PROVE \E x \in T : o = {x}
  <2>1. PICK x \in o : TRUE
    BY <1>1
  <2> QED
    BY <2>1 DEF S!Option
<1> QED
  BY <1>1

LEMMA NumberNames ==
    /\ S!Ints = {"container_port", "mfa_validity_days", "seats_per_container", "min_replicas",
                 "max_replicas", "concurrent_requests_per_replica", "heartbeat_timeout", "max_lifetime",
                 "container_lifetime", "container_wait_time", "scale_down_grace",
                 "scale_down_cooldown_secs", "drain_timeout"}
    /\ S!Inputs = S!Ints \cup {"api_port"}
    /\ S!Type["container_port"] = S!u16 /\ S!Type["mfa_validity_days"] = S!u16
    /\ S!Type["seats_per_container"] = S!u32 /\ S!Type["min_replicas"] = S!u32
    /\ S!Type["max_replicas"] = S!u32 /\ S!Type["max_lifetime"] = S!u64
    /\ S!Type["container_lifetime"] = S!u64 /\ S!Type["drain_timeout"] = S!u64
    /\ S!Type["container_wait_time"] = S!u64 /\ S!Type["heartbeat_timeout"] = S!i64
<1>1. S!Ints = {"container_port", "mfa_validity_days", "seats_per_container", "min_replicas",
                 "max_replicas", "concurrent_requests_per_replica", "heartbeat_timeout", "max_lifetime",
                 "container_lifetime", "container_wait_time", "scale_down_grace",
                 "scale_down_cooldown_secs", "drain_timeout"}
  BY DEF S!Ints, S!Type
<1> QED
  BY <1>1 DEF S!Type, S!Inputs

(* What a spec n made of the form f over base says.                        *)
Built(n, f, base, role, g) ==
    /\ n.display_name = f.display_name /\ n.description = f.description
    /\ n.kind_override = S!kind_override_of(f.type, base)
    /\ n.container_image = IF f.type \in {"package", "link"} THEN {} ELSE f.container_image
    /\ \A i \in S!Ints : n.int[i] = f.text[i] \cap S!Type[i]
    /\ n.up = f.up /\ n.down = f.down
    /\ \A i \in S!Flags : n.flag[i] = S!checkbox_opt(i, f.ticks)
    /\ n.size = f.size /\ n.cpu = f.cpu
    /\ n.api = IF f.type = "api" \/ S!ApiFilled(f)
               THEN {[port |-> f.text["api_port"] \cap S!u16, rate |-> f.rate, cors |-> f.cors,
                      docs |-> f.docs, health |-> f.health]}
               ELSE {}
    /\ n.routing_strategy = f.routing \cap S!RoutingStrategy
    /\ n.placement = f.placement \cap S!Placement /\ n.cmd = f.cmd /\ n.line = f.line
    /\ n.claims = (base.claims \ {"email", "setor"}) \cup f.claims
    /\ n.volumes = S!VolumesOf(f, base, role) /\ n.labels = base.labels
    /\ n.network = f.network /\ n.env = f.env
    /\ n.password = S!OrElse(f.password, base.password)
    /\ n.groups = g /\ n.users = f.users /\ n.type = {f.type}
    /\ n.props = ((base.props \ (S!Managed \cup {"icon", "locked"})) \cup f.props) \cup {"updated"}

LEMMA FormBuilds ==
    ASSUME NEW f, NEW base, NEW role, NEW g
    PROVE  /\ Built([S!into_spec(f, base, role) EXCEPT !.groups = g], f, base, role, g)
           /\ Built(S!into_spec(f, base, role), f, base, role, f.groups)
  BY DEF Built, S!into_spec, S!parse_opt, S!None

(* A form without errors has numbers that fit, and limits that are some.   *)
LEMMA NoErrors ==
    ASSUME NEW f, S!validate(f) = {}
    PROVE  /\ f.display_name # {} /\ f.network # {"bad"}
           /\ \A i \in S!Inputs : f.text[i] \subseteq S!i64
           /\ \A n \in f.text["mfa_validity_days"] \cap S!i64 : n \in 0..30
           /\ \A n \in f.text["max_replicas"] \cap S!i64 : ~(n <= 0)
           /\ \A l \in f.text["min_replicas"] \cap S!u32 : \A h \in f.text["max_replicas"] \cap S!u32 : ~(h < l)
           /\ \A i \in S!Cpus : \A v \in f.cpu[i] : ~(v <= 0)
           /\ \A i \in S!Sizes : f.size[i] # {} => S!parse_memory_string(f.size[i]) # {}
<1>1. \A name, when : S!Warn(name, when) = {} => ~when
  BY DEF S!Warn
<1>2. /\ S!Warn("name-required", f.display_name = S!None) = {}
      /\ S!NumberErrors(f) = {} /\ S!CountErrors(f) = {}
      /\ S!Warn("cpu", \E i \in S!Cpus : \E v \in f.cpu[i] : v <= 0) = {}
      /\ S!Warn("memory", \E i \in S!Sizes : f.size[i] # S!None /\ S!parse_memory_string(f.size[i]) = S!None) = {}
      /\ S!Warn("network", f.network = {"bad"}) = {}
  BY DEF S!validate
<1>3. /\ S!Warn("max-replicas-zero", \E n \in f.text["max_replicas"] \cap S!i64 : n <= 0) = {}
      /\ S!Warn("replica-range", \E l \in f.text["min_replicas"] \cap S!u32,
                                    h \in f.text["max_replicas"] \cap S!u32 : h < l) = {}
  BY <1>2 DEF S!CountErrors
<1>4. /\ S!Warn("number", \/ \E i \in S!NumberInputs(f) : ~(f.text[i] \subseteq S!i64)
                          \/ ~(f.text["container_wait_time"] \subseteq S!u64)) = {}
      /\ S!Warn("mfa-days", \E n \in f.text["mfa_validity_days"] \cap S!i64 :
                               n \notin 0..S!MAX_MFA_VALIDITY_DAYS) = {}
  BY <1>2 DEF S!NumberErrors
<1>5. f.display_name # {} /\ f.network # {"bad"}
  BY <1>1, <1>2 DEF S!None
<1>6. \A i \in S!Inputs : f.text[i] \subseteq S!i64
  BY <1>1, <1>4 DEF S!NumberInputs
<1>7. \A n \in f.text["mfa_validity_days"] \cap S!i64 : n \in 0..30
  BY <1>1, <1>4 DEF S!MAX_MFA_VALIDITY_DAYS
<1>8. /\ \A n \in f.text["max_replicas"] \cap S!i64 : ~(n <= 0)
      /\ \A l \in f.text["min_replicas"] \cap S!u32 : \A h \in f.text["max_replicas"] \cap S!u32 : ~(h < l)
  BY <1>1, <1>3
<1>9. /\ \A i \in S!Cpus : \A v \in f.cpu[i] : ~(v <= 0)
      /\ \A i \in S!Sizes : f.size[i] # {} => S!parse_memory_string(f.size[i]) # {}
  BY <1>1, <1>2 DEF S!None
<1> QED
  BY <1>5, <1>6, <1>7, <1>8, <1>9

(* Such a form makes a spec that can run.                                  *)
LEMMA BuiltRuns ==
    ASSUME NEW n, NEW f, NEW base, NEW role, NEW g, Built(n, f, base, role, g), S!validate(f) = {},
           \A i \in S!Inputs : S!Option(f.text[i], Int)
    PROVE  S!CanRun(n)
<1>1. /\ n.int["max_replicas"] = f.text["max_replicas"] \cap S!u32
      /\ n.int["min_replicas"] = f.text["min_replicas"] \cap S!u32
      /\ n.int["max_lifetime"] = f.text["max_lifetime"] \cap S!u64
      /\ n.int["container_lifetime"] = f.text["container_lifetime"] \cap S!u64
      /\ n.int["drain_timeout"] = f.text["drain_timeout"] \cap S!u64
      /\ n.int["mfa_validity_days"] = f.text["mfa_validity_days"] \cap S!u16
  BY NumberNames DEF Built
<1>2. \A i \in S!Inputs : f.text[i] = {} \/ \E x \in S!i64 : f.text[i] = {x}
  <2> SUFFICES ASSUME NEW i \in S!Inputs, f.text[i] # {} PROVE \E x \in S!i64 : f.text[i] = {x}
    OBVIOUS
  <2>1. PICK x \in Int : f.text[i] = {x}
    BY OptionCases
  <2> QED
    BY <2>1, NoErrors
<1>3. S!Runs(n) => /\ S!effective_max_replicas(n) >= 1
                   /\ S!effective_max_replicas(n) >= S!effective_min_replicas(n)
  <2> SUFFICES ASSUME S!Runs(n) PROVE /\ S!effective_max_replicas(n) >= 1
                                      /\ S!effective_max_replicas(n) >= S!effective_min_replicas(n)
    OBVIOUS
  <2>1. S!effective_min_replicas(n) \in 0..1023 /\ S!effective_min_replicas(n) \in {0} \cup n.int["min_replicas"]
    <3>1. n.int["min_replicas"] = {} \/ \E x \in S!u32 : n.int["min_replicas"] = {x}
      BY <1>1, <1>2, NumberNames
    <3>2. S!effective_min_replicas(n) = S!UnwrapOr(n.int["min_replicas"], 0)
      BY DEF S!effective_min_replicas
    <3>3. CASE n.int["min_replicas"] = {}
      BY <3>2, <3>3, Unwrapped
    <3>4. ASSUME NEW x \in S!u32, n.int["min_replicas"] = {x}
          PROVE  S!effective_min_replicas(n) = x /\ x \in 0..1023
      BY <3>2, <3>4, Unwrapped DEF S!u32
    <3> QED
      BY <3>1, <3>3, <3>4
  <2>2. CASE n.int["max_replicas"] = {}
    <3>1. S!effective_max_replicas(n) = S!Larger(S!effective_min_replicas(n), 5)
      BY <2>2, Unwrapped DEF S!effective_max_replicas, S!DEFAULT_MAX_REPLICAS
    <3> QED
      BY <2>1, <3>1 DEF S!Larger
  <2>3. CASE n.int["max_replicas"] # {}
    <3>1. PICK x \in S!u32 : n.int["max_replicas"] = {x} /\ x \in f.text["max_replicas"]
      BY <1>1, <1>2, <2>3, NumberNames
    <3>2. S!effective_max_replicas(n) = x
      BY <3>1, Unwrapped DEF S!effective_max_replicas
    <3>3. x >= 1
      <4>1. x \in S!i64
        BY <3>1 DEF S!u32, S!i64
      <4> QED
        BY <3>1, <4>1, NoErrors DEF S!u32
    <3>4. ASSUME NEW y \in n.int["min_replicas"] PROVE x >= y
      <4>1. y \in f.text["min_replicas"] \cap S!u32
        BY <1>1, <3>4
      <4>2. ~(x < y)
        BY <3>1, <4>1, NoErrors
      <4> QED
        BY <3>1, <4>1, <4>2 DEF S!u32
    <3>5. x \in Int
      BY <3>1 DEF S!u32
    <3> QED
      BY <2>1, <3>2, <3>3, <3>4, <3>5
  <2> QED
    BY <2>2, <2>3
<1>4. \A x \in S!lifetime_secs(n.int["max_lifetime"]) \cup S!lifetime_secs(n.int["container_lifetime"]) : x >= 0
  <2>1. ASSUME NEW m \in n.int["max_lifetime"] \cup n.int["container_lifetime"]
        PROVE  S!Saturate(S!Wrap(m) * 60) >= 0
    <3>1. m \in S!u64 /\ m \in S!i64
      BY <1>1, <2>1, NoErrors, NumberNames
    <3>2. S!Wrap(m) = m
      BY <3>1 DEF S!Wrap
    <3>3. m \in 0..4095
      BY <3>1 DEF S!u64
    <3> QED
      BY <3>2, <3>3 DEF S!Saturate
  <2> QED
    BY <2>1 DEF S!lifetime_secs
<1>5. S!effective_drain_timeout_secs(n) >= 0
  <2>1. CASE n.int["drain_timeout"] = {}
    <3>1. {S!Wrap(m) : m \in n.int["drain_timeout"]} = {}
      BY <2>1
    <3> QED
      BY <3>1, Unwrapped DEF S!effective_drain_timeout_secs
  <2>2. CASE n.int["drain_timeout"] # {}
    <3>1. PICK x \in S!i64 : n.int["drain_timeout"] = {x} /\ x \in S!u64
      BY <1>1, <1>2, <2>2, NumberNames
    <3>2. {S!Wrap(m) : m \in n.int["drain_timeout"]} = {x}
      BY <3>1 DEF S!Wrap
    <3>3. S!effective_drain_timeout_secs(n) = S!UnwrapOr({S!Wrap(m) : m \in n.int["drain_timeout"]}, 60)
      BY DEF S!effective_drain_timeout_secs
    <3>4. S!UnwrapOr({x}, 60) = x
      <4>1. \A y : S!UnwrapOr({y}, 60) = y
        BY Unwrapped
      <4> QED
        BY <4>1, Zenon
    <3>5. S!effective_drain_timeout_secs(n) = x
      BY <3>2, <3>3, <3>4
    <3>6. x \in 0..4095
      BY <3>1 DEF S!u64
    <3>7. x >= 0
      BY <3>6
    <3> QED
      BY <3>5, <3>7
  <2> QED
    BY <2>1, <2>2
<1>6. S!check_spec(n) \cap {"InvalidCpuLimit", "InvalidMemoryLimit", "InvalidMaxBodySize",
            "InvalidContainerNetwork", "MfaValidityOutOfRange", "EmptyDisplayName"} = {}
  <2>1. \A name, when : ~when => S!Warn(name, when) = {}
    BY DEF S!Warn
  <2>2. \A name, when : S!Warn(name, when) \subseteq {name}
    BY DEF S!Warn
  <2>3. n.display_name # {} /\ n.network # {"bad"}
    BY NoErrors DEF Built
  <2>4. ~(\E d \in n.int["mfa_validity_days"] : d > 30)
    <3> SUFFICES ASSUME NEW d \in n.int["mfa_validity_days"] PROVE ~(d > 30)
      OBVIOUS
    <3>1. d \in f.text["mfa_validity_days"] /\ d \in S!i64
      BY <1>1 DEF S!u16, S!i64
    <3> QED
      BY <3>1, NoErrors
  <2>5. ~(\E i \in S!Cpus : \E v \in n.cpu[i] : v <= 0)
    BY NoErrors DEF Built
  <2>6. \A i \in S!Sizes : n.size[i] # {} => S!parse_memory_string(n.size[i]) # {}
    BY NoErrors DEF Built
  <2>7. ~(n.size["max_body_size"] # {} /\ S!effective_max_body_bytes(n, {}) = {})
    BY <2>6 DEF S!effective_max_body_bytes, S!OrElse, S!None, S!Sizes
  <2>8. S!Warn("EmptyDisplayName", n.display_name = S!None) = {}
    BY <2>1, <2>3 DEF S!None
  <2>9. S!MfaWarnings(n) \subseteq {"MfaValidityWithoutRequire", "MfaOnExternalSpec"}
    <3>1. S!Warn("MfaValidityOutOfRange",
                 \E d \in n.int["mfa_validity_days"] : d > S!MAX_MFA_VALIDITY_DAYS) = {}
      BY <2>1, <2>4 DEF S!MAX_MFA_VALIDITY_DAYS
    <3> QED
      BY <2>2, <3>1 DEF S!MfaWarnings
  <2>10. S!ReplicaWarnings(n) \subseteq {"InvalidReplicaRange", "ReplicaCeilingZero"}
    BY <2>2 DEF S!ReplicaWarnings
  <2>11. S!ImageWarnings(n) \subseteq {"MissingContainerImage", "ExternalWithContainerImage", "ZeroSeats",
                                       "SpecLackingContainerHasContainerFields"}
    BY <2>2 DEF S!ImageWarnings
  <2>12. S!ThresholdWarnings(n) \subseteq {"InvalidScaleThreshold"}
    BY <2>2 DEF S!ThresholdWarnings
  <2>13. S!LimitWarnings(n) \subseteq {"InvalidRateLimit"}
    <3>1. S!Warn("InvalidMaxBodySize",
              n.size["max_body_size"] # S!None /\ S!effective_max_body_bytes(n, S!None) = S!None) = {}
      BY <2>1, <2>7 DEF S!None
    <3>2. S!Warn("InvalidCpuLimit", \E i \in S!Cpus : \E v \in n.cpu[i] : v <= 0) = {}
      BY <2>1, <2>5
    <3>3. S!Warn("InvalidMemoryLimit", \E i \in S!Sizes \ {"max_body_size"} :
              n.size[i] # S!None /\ S!parse_memory_string(n.size[i]) = S!None) = {}
      BY <2>1, <2>6 DEF S!None
    <3> QED
      BY <2>2, <3>1, <3>2, <3>3 DEF S!LimitWarnings
  <2>14. S!HostWarnings(n) \subseteq {"InvalidVolume", "ReservedLabelKey", "InvalidLabelKey"}
    <3>1. S!Warn("InvalidContainerNetwork", n.network = {"bad"}) = {}
      BY <2>1, <2>3
    <3>2. /\ S!Warn("InvalidVolume", "bad" \in n.volumes) \subseteq {"InvalidVolume"}
          /\ S!Warn("ReservedLabelKey", \E k \in n.labels : S!is_reserved_label_key(k)) \subseteq {"ReservedLabelKey"}
          /\ S!Warn("InvalidLabelKey", "bad" \in n.labels) \subseteq {"InvalidLabelKey"}
      BY <2>2
    <3> QED
      BY <3>1, <3>2 DEF S!HostWarnings
  <2>15. /\ S!Warn("EmptyDescription", n.description = S!None) \subseteq {"EmptyDescription"}
         /\ S!Warn("UnknownTypeProperty", \E t \in n.type : t \notin S!KNOWN_TYPES) \subseteq {"UnknownTypeProperty"}
    BY <2>2
  <2> QED
    BY <2>8, <2>9, <2>10, <2>11, <2>12, <2>13, <2>14, <2>15 DEF S!check_spec
<1> QED
  BY <1>3, <1>4, <1>5, <1>6 DEF S!CanRun

(* The numbers of a form are at most one each, its boxes are ticked or not;*)
(* it has the fields that it was opened with.                              *)
FormRecord(f) ==
    f = [id |-> f.id, display_name |-> f.display_name, description |-> f.description, type |-> f.type,
         container_image |-> f.container_image, text |-> f.text, up |-> f.up, down |-> f.down,
         ticks |-> f.ticks, cors |-> f.cors, rate |-> f.rate, docs |-> f.docs, health |-> f.health,
         size |-> f.size, cpu |-> f.cpu, routing |-> f.routing, placement |-> f.placement,
         claims |-> f.claims, volumes |-> f.volumes, network |-> f.network, env |-> f.env, cmd |-> f.cmd,
         line |-> f.line, password |-> f.password, groups |-> f.groups, users |-> f.users, props |-> f.props]
FormValues(f) ==
    /\ f.type \in S!Types /\ f.cors \in BOOLEAN
    /\ (\A x, y \in f.routing : x = y) /\ (\A x, y \in f.placement : x = y)
    /\ f.text = [i \in S!Inputs |-> f.text[i]]
    /\ \A i \in S!Inputs : S!Option(f.text[i], Int)
PageRight(f) == FormRecord(f) /\ FormValues(f)

(* The form as its page was opened.                                        *)
Opened(role) ==
    IF role = "admin" THEN S!Filled(role) ELSE [S!Filled(role) EXCEPT !.volumes = {}]

FormInv ==
    /\ S!WellTyped(spec) /\ ("updated" \in spec.props => S!CanRun(spec))
    /\ \A c \in formCopy : S!CanRun(c)
    /\ PageRight(specForm) /\ touched \in Nat
    /\ who \in {"admin", "editor"} /\ page \in {"none", "edit", "copy", "new"}
    /\ page \in {"edit", "copy"} /\ touched = 0 => specForm = Opened(who)

LEMMA NumbersAre == \A i \in S!Ints : S!Type[i] \subseteq Int
<1>1. S!u16 \subseteq Int /\ S!u32 \subseteq Int /\ S!u64 \subseteq Int /\ S!i64 \subseteq Int
  BY DEF S!u16, S!u32, S!u64, S!i64
<1>2. \A i \in S!Ints : S!Type[i] \in {S!u16, S!u32, S!u64, S!i64}
  BY DEF S!Ints, S!Type
<1> QED
  BY <1>1, <1>2

LEMMA KindsAre ==
    ASSUME NEW s, S!WellTyped(s)
    PROVE  /\ S!kind(s) \in {"shiny", "interactive", "api", "external"}
           /\ S!DisplayType(s) \in S!Types
<1>1. s.kind_override = {} \/ \E k \in S!Overrides : s.kind_override = {k}
  BY OptionCases DEF S!WellTyped
<1>2. S!kind(s) \in {"shiny", "interactive", "api", "external"}
  <2>1. CASE s.kind_override = {}
    <3>1. s.kind_override \notin {{k} : k \in S!AppFamily}
      BY <2>1
    <3> QED
      BY <2>1, <3>1 DEF S!kind, S!None
  <2>2. ASSUME NEW k \in S!Overrides, s.kind_override = {k}
        PROVE  S!kind(s) \in {"shiny", "interactive", "api", "external"}
    <3>1. CASE k \in S!AppFamily
      BY <2>2, <3>1 DEF S!kind
    <3>2. CASE k \notin S!AppFamily
      <4>1. s.kind_override \notin {{x} : x \in S!AppFamily} /\ s.kind_override # S!None
        BY <2>2, <3>2 DEF S!None
      <4>2. S!kind(s) = S!UnwrapOr({k}, "")
        BY <2>2, <4>1 DEF S!kind
      <4> QED
        BY <3>2, <4>2, Unwrapped DEF S!Overrides
    <3> QED
      BY <3>1, <3>2
  <2> QED
    BY <1>1, <2>1, <2>2
<1>3. CASE s.type \cap S!Types # {}
  <2>1. PICK t \in S!Types : s.type = {t}
    BY <1>3 DEF S!WellTyped, S!Option
  <2>2. S!DisplayType(s) = S!UnwrapOr({t}, "")
    BY <1>3, <2>1 DEF S!DisplayType
  <2> QED
    BY <1>2, <2>2, Unwrapped
<1>4. CASE s.type \cap S!Types = {}
  BY <1>2, <1>4 DEF S!DisplayType, S!Types
<1> QED
  BY <1>2, <1>3, <1>4

(* The numbers that a form shows.                                          *)
LEMMA NumbersShown ==
    ASSUME NEW s, S!WellTyped(s), NEW i \in S!Inputs PROVE S!Option(S!FromNumber(s, i), Int)
<1>1. CASE i = "api_port"
  <2>1. S!FromNumber(s, i) = UNION {a.port : a \in s.api}
    BY <1>1 DEF S!FromNumber, S!api_says
  <2>2. \A a, b \in s.api : a = b
    BY DEF S!WellTyped, S!Option
  <2>3. \A a \in s.api : a.port \subseteq S!u16 /\ \A x, y \in a.port : x = y
    BY DEF S!WellTyped, S!Option
  <2>4. S!u16 \subseteq Int
    BY DEF S!u16
  <2>5. ASSUME NEW x \in UNION {a.port : a \in s.api}, NEW y \in UNION {a.port : a \in s.api}
        PROVE  x \in Int /\ x = y
    <3>1. PICK a \in s.api : x \in a.port
      BY <2>5
    <3>2. PICK b \in s.api : y \in b.port
      BY <2>5
    <3>3. a = b
      BY <2>2
    <3> QED
      BY <2>3, <2>4, <3>1, <3>2, <3>3
  <2>6. \A x \in UNION {a.port : a \in s.api} : x \in Int
    BY <2>5
  <2> QED
    BY <2>1, <2>5, <2>6 DEF S!Option
<1>2. CASE i # "api_port"
  <2>1. i \in S!Ints
    BY <1>2, NumberNames
  <2>2. s.int[i] \subseteq Int /\ \A x, y \in s.int[i] : x = y
    BY <2>1, NumbersAre DEF S!WellTyped, S!Option
  <2>3. CASE i = "mfa_validity_days"
    <3>1. S!FromNumber(s, i) = {S!Smaller(d, 30) : d \in s.int[i]}
      BY <1>2, <2>3 DEF S!FromNumber, S!MAX_MFA_VALIDITY_DAYS
    <3>2. \A d \in Int : S!Smaller(d, 30) \in Int
      BY DEF S!Smaller
    <3> QED
      BY <2>2, <3>1, <3>2 DEF S!Option
  <2>4. CASE i # "mfa_validity_days"
    BY <1>2, <2>2, <2>4 DEF S!FromNumber, S!Option
  <2> QED
    BY <2>3, <2>4
<1> QED
  BY <1>1, <1>2

LEMMA FormOpens ==
    ASSUME S!WellTyped(spec), NEW role PROVE PageRight(Opened(role))
<1>1. PICK f : f = Opened(role)
  OBVIOUS
<1>2. FormRecord(f)
  BY <1>1 DEF FormRecord, Opened, S!Filled, S!from_spec
<1>3. /\ f.type = S!DisplayType(spec) /\ f.cors = (\E a \in spec.api : a.cors)
      /\ f.text = [i \in S!Inputs |-> S!FromNumber(spec, i)]
  BY <1>1 DEF Opened, S!Filled, S!from_spec
<1>4. f.cors \in BOOLEAN
  BY <1>3
<1>6. f.routing = spec.routing_strategy /\ f.placement = spec.placement
  BY <1>1 DEF Opened, S!Filled, S!from_spec
<1>7. (\A x, y \in f.routing : x = y) /\ (\A x, y \in f.placement : x = y)
  BY <1>6 DEF S!WellTyped, S!Option
<1>5. FormValues(f)
  BY <1>3, <1>4, <1>7, KindsAre, NumbersShown DEF FormValues
<1> QED
  BY <1>1, <1>2, <1>5 DEF PageRight

LEMMA FormBlank == PageRight(S!BlankForm)
  BY DEF PageRight, FormRecord, FormValues, S!BlankForm, S!None, S!Types, S!Option

(* What is typed or ticked leaves a form right.                            *)
LEMMA FormTyped ==
    ASSUME NEW f, PageRight(f), NEW i \in S!Inputs, NEW t, S!Option(t, Int)
    PROVE  PageRight([f EXCEPT !.text[i] = t])
<1>1. PICK n : n = [f EXCEPT !.text[i] = t]
  OBVIOUS
<1>2. FormRecord(n)
  BY <1>1 DEF PageRight, FormRecord
<1>3. /\ n.text = [f.text EXCEPT ![i] = t] /\ n.type = f.type /\ n.cors = f.cors
      /\ n.routing = f.routing /\ n.placement = f.placement
  BY <1>1 DEF PageRight, FormRecord
<1>4. FormValues(n)
  BY <1>3 DEF PageRight, FormValues
<1> QED
  BY <1>1, <1>2, <1>4 DEF PageRight

LEMMA FormOtherwise ==
    ASSUME NEW f, PageRight(f), NEW x
    PROVE  /\ x \in S!Types => PageRight([f EXCEPT !.type = x])
           /\ x \in BOOLEAN => PageRight([f EXCEPT !.cors = x])
           /\ PageRight([f EXCEPT !.id = x]) /\ PageRight([f EXCEPT !.display_name = x])
           /\ PageRight([f EXCEPT !.container_image = x]) /\ PageRight([f EXCEPT !.up = x])
           /\ PageRight([f EXCEPT !.down = x]) /\ PageRight([f EXCEPT !.rate = x])
           /\ PageRight([f EXCEPT !.volumes = x]) /\ PageRight([f EXCEPT !.network = x])
           /\ PageRight([f EXCEPT !.env = x]) /\ PageRight([f EXCEPT !.groups = x])
           /\ PageRight([f EXCEPT !.ticks = x]) /\ PageRight([f EXCEPT !.claims = x])
           /\ PageRight([f EXCEPT !.routing = {x}]) /\ PageRight([f EXCEPT !.placement = {x}])
           /\ \A i : PageRight([f EXCEPT !.size[i] = x]) /\ PageRight([f EXCEPT !.cpu[i] = x])
<1>1. FormRecord(f) /\ FormValues(f)
  BY DEF PageRight
<1>2. x \in S!Types => PageRight([f EXCEPT !.type = x])
  BY <1>1 DEF PageRight, FormRecord, FormValues
<1>3. x \in BOOLEAN => PageRight([f EXCEPT !.cors = x])
  BY <1>1 DEF PageRight, FormRecord, FormValues
<1>4. PageRight([f EXCEPT !.id = x]) /\ PageRight([f EXCEPT !.display_name = x])
  BY <1>1 DEF PageRight, FormRecord, FormValues
<1>5. PageRight([f EXCEPT !.container_image = x]) /\ PageRight([f EXCEPT !.up = x])
  BY <1>1 DEF PageRight, FormRecord, FormValues
<1>6. PageRight([f EXCEPT !.down = x]) /\ PageRight([f EXCEPT !.rate = x])
  BY <1>1 DEF PageRight, FormRecord, FormValues
<1>7. PageRight([f EXCEPT !.volumes = x]) /\ PageRight([f EXCEPT !.network = x])
  BY <1>1 DEF PageRight, FormRecord, FormValues
<1>8. PageRight([f EXCEPT !.env = x]) /\ PageRight([f EXCEPT !.groups = x])
  BY <1>1 DEF PageRight, FormRecord, FormValues
<1>9. PageRight([f EXCEPT !.ticks = x]) /\ PageRight([f EXCEPT !.claims = x])
  BY <1>1 DEF PageRight, FormRecord, FormValues
<1>10. ASSUME NEW i PROVE PageRight([f EXCEPT !.size[i] = x]) /\ PageRight([f EXCEPT !.cpu[i] = x])
  BY <1>1 DEF PageRight, FormRecord, FormValues
<1>11. PageRight([f EXCEPT !.routing = {x}]) /\ PageRight([f EXCEPT !.placement = {x}])
  BY <1>1 DEF PageRight, FormRecord, FormValues
<1> QED
  BY <1>2, <1>3, <1>4, <1>5, <1>6, <1>7, <1>8, <1>9, <1>10, <1>11

(* What is made of a form is a spec again.                                 *)
LEMMA BuiltTyped ==
    ASSUME NEW n, NEW f, NEW base, NEW role, NEW g, Built(n, f, base, role, g), PageRight(f), S!WellTyped(base)
    PROVE  S!WellTyped(n)
<1>1. /\ f.type \in S!Types /\ f.cors \in BOOLEAN
      /\ \A i \in S!Inputs : S!Option(f.text[i], Int)
  BY DEF PageRight, FormValues
<1>2. \A i \in S!Ints : S!Option(n.int[i], S!Type[i])
  BY <1>1, NumberNames DEF Built, S!Option
<1>3. \A i \in S!Flags : S!Option(n.flag[i], BOOLEAN)
  <2>1. S!Option({}, BOOLEAN) /\ S!Option({TRUE}, BOOLEAN) /\ S!Option({FALSE}, BOOLEAN)
    BY Zenon DEF S!Option
  <2>2. \A i : S!checkbox_opt(i, f.ticks) \in {{}, {TRUE}, {FALSE}}
    BY Zenon DEF S!checkbox_opt, S!None
  <2>3. \A i \in S!Flags : n.flag[i] = S!checkbox_opt(i, f.ticks)
    BY DEF Built
  <2> QED
    BY Zenon, <2>1, <2>2, <2>3
<1>4. S!Option(n.kind_override, S!Overrides)
  <2>1. S!Option(base.kind_override, S!Overrides)
    BY DEF S!WellTyped
  <2>2. \A k \in {"shiny", "external", "api"} : S!Option({k}, S!Overrides)
    BY DEF S!Option, S!Overrides
  <2>3. S!kind_override_of(f.type, base) \in {base.kind_override, {"shiny"}, {"external"}, {"api"}}
    BY <1>1 DEF S!kind_override_of, S!Types
  <2> QED
    BY <2>1, <2>2, <2>3 DEF Built
<1>5. S!Option(n.type, n.type)
  BY DEF Built, S!Option
<1>6. S!Option(n.api, n.api) /\ \A a \in n.api : S!Option(a.port, S!u16) /\ a.cors \in BOOLEAN
  <2>1. S!Option(f.text["api_port"] \cap S!u16, S!u16)
    BY <1>1, NumberNames DEF S!Option
  <2>2. \A a \in n.api : a = [port |-> f.text["api_port"] \cap S!u16, rate |-> f.rate, cors |-> f.cors,
                              docs |-> f.docs, health |-> f.health]
    BY DEF Built
  <2> QED
    BY <1>1, <2>1, <2>2 DEF S!Option
<1>7. S!Option(n.routing_strategy, S!RoutingStrategy) /\ S!Option(n.placement, S!Placement)
  <2>1. /\ \A x, y \in f.routing : x = y
        /\ \A x, y \in f.placement : x = y
    BY DEF PageRight, FormValues
  <2> QED
    BY <2>1 DEF Built, S!Option
<1> QED
  BY <1>2, <1>3, <1>4, <1>5, <1>6, <1>7 DEF S!WellTyped

LEMMA DefaultTyped == S!WellTyped(S!DefaultSpec)
  BY DEF S!WellTyped, S!DefaultSpec, S!None, S!Option

LEMMA FormStarts == S!Init => FormInv
<1>1. ASSUME S!Init PROVE FormInv
  <2>1. PageRight(specForm)
    BY <1>1, FormBlank DEF S!Init
  <2> QED
    BY <1>1, <2>1, FormAssumption DEF S!Init, FormInv, S!None
<1> QED
  BY <1>1

LEMMA FormPut ==
    ASSUME FormInv, NEW g, PageRight(g), S!Put(g)
    PROVE  FormInv'
<1>1. /\ specForm' = g /\ touched' = touched + 1 /\ page' = page /\ who' = who
      /\ spec' = spec /\ formCopy' = formCopy
  BY DEF S!Put
<1>2. touched' \in Nat /\ touched' # 0
  BY <1>1 DEF FormInv
<1>3. PageRight(specForm)'
  BY <1>1 DEF PageRight, FormRecord, FormValues
<1> QED
  BY <1>1, <1>2, <1>3 DEF FormInv

LEMMA FormShows ==
    ASSUME FormInv, NEW kindOfPage \in {"edit", "copy", "new"}, NEW role \in {"admin", "editor"}, NEW f,
           S!Show(kindOfPage, role, f), PageRight(f),
           kindOfPage # "new" => f = S!Filled(role)
    PROVE  FormInv'
<1>1. /\ specForm' = IF role = "admin" THEN f ELSE [f EXCEPT !.volumes = {}]
      /\ touched' = 0 /\ page' = kindOfPage /\ who' = role /\ spec' = spec /\ formCopy' = formCopy
  BY DEF S!Show
<1>2. PageRight(specForm)'
  <2>1. PICK n : n = IF role = "admin" THEN f ELSE [f EXCEPT !.volumes = {}]
    OBVIOUS
  <2>2. PageRight(n)
    BY <2>1, FormOtherwise
  <2> QED
    BY <1>1, <2>1, <2>2 DEF PageRight, FormRecord, FormValues
<1>3. page' \in {"edit", "copy"} => specForm' = Opened(who)'
  BY <1>1 DEF Opened, S!Filled
<1> QED
  BY <1>1, <1>2, <1>3 DEF FormInv

(* The page is gone.                                                       *)
LEMMA FormCloses ==
    ASSUME FormInv, S!Close, S!WellTyped(spec'), "updated" \in spec'.props => S!CanRun(spec'),
           \A c \in formCopy' : S!CanRun(c)
    PROVE  FormInv'
<1>1. specForm' = S!BlankForm /\ touched' = 0 /\ page' = "none" /\ who' = "admin"
  BY DEF S!Close
<1>2. PageRight(specForm)'
  BY <1>1, FormBlank DEF PageRight, FormRecord, FormValues
<1> QED
  BY <1>1, <1>2 DEF FormInv

LEMMA FormOpenings ==
    ASSUME FormInv, NEW role \in {"admin", "editor"},
           S!edit_form(role) \/ S!new_form(role) \/ S!duplicate_form(role)
    PROVE  FormInv'
<1>1. PageRight(S!Filled(role))
  <2>1. PageRight(S!Filled("admin"))
    BY FormOpens DEF FormInv, Opened
  <2>2. S!Filled(role) = [S!Filled("admin") EXCEPT !.groups = S!list_to_vec(S!Visible(role, spec.groups))]
    BY DEF S!Filled, S!from_spec
  <2>3. \A x : PageRight([S!Filled("admin") EXCEPT !.groups = x])
    BY <2>1, FormOtherwise
  <2> QED
    BY Zenon, <2>2, <2>3
<1>2. CASE S!edit_form(role)
  BY <1>1, <1>2, FormShows DEF S!edit_form
<1>3. CASE S!new_form(role)
  BY <1>3, FormShows, FormBlank DEF S!new_form
<1>4. CASE S!duplicate_form(role)
  BY <1>1, <1>4, FormShows DEF S!duplicate_form
<1> QED
  BY <1>2, <1>3, <1>4

LEMMA FormTypes ==
    ASSUME FormInv, S!TypeNumber \/ S!TypeText \/ S!Tick
    PROVE  FormInv'
<1>1. PageRight(specForm)
  BY DEF FormInv
<1>2. CASE S!TypeNumber
  <2>1. PICK i \in S!Inputs, t \in NumberTexts : S!Put([specForm EXCEPT !.text[i] = t])
    BY <1>2 DEF S!TypeNumber
  <2>2. PageRight([specForm EXCEPT !.text[i] = t])
    BY <1>1, FormTyped, FormAssumption
  <2> QED
    BY <2>1, <2>2, FormPut
<1>3. CASE S!TypeText
  <2>1. \E g : PageRight(g) /\ S!Put(g)
    BY <1>1, <1>3, FormOtherwise DEF S!TypeText
  <2> QED
    BY <2>1, FormPut
<1>4. CASE S!Tick
  <2>1. \A b : (~b) \in BOOLEAN
    OBVIOUS
  <2>2. \E g : PageRight(g) /\ S!Put(g)
    BY <1>1, <1>4, <2>1, FormOtherwise DEF S!Tick
  <2> QED
    BY <2>2, FormPut
<1> QED
  BY <1>2, <1>3, <1>4

LEMMA FormUpdates == ASSUME FormInv, S!update PROVE FormInv'
<1>1. PICK n : n = spec'
  OBVIOUS
<1>2. /\ S!validate(specForm) = {} /\ S!Close /\ formCopy' = formCopy
      /\ n = [S!into_spec(specForm, spec, who) EXCEPT !.groups = S!Merged(spec.groups, @)]
  BY <1>1 DEF S!update, S!Candidate
<1>3. PICK g : n = [S!into_spec(specForm, spec, who) EXCEPT !.groups = g]
  BY <1>2
<1>4. Built(n, specForm, spec, who, g)
  BY <1>3, FormBuilds
<1>5. PageRight(specForm) /\ \A i \in S!Inputs : S!Option(specForm.text[i], Int)
  BY DEF FormInv, PageRight, FormValues
<1>6. S!WellTyped(n) /\ S!CanRun(n)
  BY <1>2, <1>4, <1>5, BuiltTyped, BuiltRuns DEF FormInv
<1>7. \A c \in formCopy' : S!CanRun(c)
  BY <1>2 DEF FormInv
<1> QED
  BY <1>1, <1>2, <1>6, <1>7, FormCloses

LEMMA FormCreates == ASSUME FormInv, S!create PROVE FormInv'
<1>1. /\ S!validate(specForm) = {} /\ S!Close /\ spec' = spec
      /\ formCopy' = {S!into_spec(specForm, S!DefaultSpec, who)}
  BY DEF S!create, S!Created
<1>2. PICK n : n = S!into_spec(specForm, S!DefaultSpec, who)
  OBVIOUS
<1>3. Built(n, specForm, S!DefaultSpec, who, specForm.groups)
  BY <1>2, FormBuilds
<1>4. \A i \in S!Inputs : S!Option(specForm.text[i], Int)
  BY DEF FormInv, PageRight, FormValues
<1>5. S!CanRun(n)
  BY <1>1, <1>3, <1>4, BuiltRuns
<1>6. \A c \in formCopy' : S!CanRun(c)
  BY <1>1, <1>2, <1>5
<1> QED
  BY <1>1, <1>6, FormCloses DEF FormInv

LEMMA FormStep == FormInv /\ [S!Next]_(S!vars) => FormInv'
<1> SUFFICES ASSUME FormInv, [S!Next]_(S!vars) PROVE FormInv'
  OBVIOUS
<1>1. CASE S!Abandon
  BY <1>1, FormCloses DEF S!Abandon, FormInv
<1>2. CASE UNCHANGED S!vars
  BY <1>2 DEF S!vars, FormInv, PageRight, FormRecord, FormValues, Opened, S!Filled
<1> QED
  BY <1>1, <1>2, FormOpenings, FormTypes, FormUpdates, FormCreates DEF S!Next

(* The invariant of the spec form.                                         *)
THEOREM FormInvariance == S!Spec => []FormInv
  BY FormStarts, FormStep, PTL DEF S!Spec
(* The form f shows the spec s, its groups and volumes aside.              *)
Shows(f, s) ==
    /\ f.type = S!DisplayType(s) /\ f.container_image = s.container_image
    /\ \A i \in S!Inputs : f.text[i] = S!FromNumber(s, i)
    /\ f.up = s.up /\ f.down = s.down /\ f.ticks = {i \in S!Flags : S!FlagSet(s, i)}
    /\ f.size = s.size /\ f.cpu = s.cpu /\ f.claims = s.claims \cap {"email", "setor"}
    /\ f.routing = s.routing_strategy /\ f.placement = s.placement
    /\ f.rate = S!api_says(s, "rate") /\ f.cors = (\E a \in s.api : a.cors)
    /\ f.docs = S!api_says(s, "docs") /\ f.health = S!api_says(s, "health")
    /\ f.network = s.network /\ f.env = s.env /\ f.cmd = s.cmd
    /\ \A i \in S!Lines : f.line[i] = s.line[i]
    /\ f.line = [i \in S!Lines |-> f.line[i]]
    /\ f.password = {} /\ f.users = s.users
    /\ f.props = (s.props \cap S!Managed) \cup {"state"}

(* Texts that their inputs give back.                                      *)
LEMMA GivenBack ==
    /\ \A X : X \cap DOMAIN Respelt = {} => S!list_to_vec(X) = X
    /\ \A o : "" \notin o => S!empty_to_none(o) = o
<1>1. ASSUME NEW X, X \cap DOMAIN Respelt = {} PROVE S!list_to_vec(X) = X
  <2>1. {IF t \in DOMAIN Respelt THEN Respelt[t] ELSE {t} : t \in X} = {{t} : t \in X}
    BY <1>1
  <2>2. UNION {{t} : t \in X} = X
    OBVIOUS
  <2> QED
    BY <2>1, <2>2 DEF S!list_to_vec
<1> QED
  BY <1>1 DEF S!empty_to_none

LEMMA OpenedShows ==
    ASSUME S!ReadsBack(spec), NEW role PROVE
        /\ Shows(Opened(role), spec) /\ Opened(role).groups = S!Visible(role, spec.groups)
        /\ role = "admin" => Opened(role).volumes = spec.volumes
<1>1. PICK f : f = Opened(role)
  OBVIOUS
<1>2. /\ f.text = [i \in S!Inputs |-> S!FromNumber(spec, i)]
      /\ f.ticks = {i \in S!Flags : S!FlagSet(spec, i)} /\ f.claims = spec.claims \cap {"email", "setor"}
      /\ f.type = S!DisplayType(spec) /\ f.groups = S!list_to_vec(S!Visible(role, spec.groups))
      /\ role = "admin" => f.volumes = S!list_to_vec(spec.volumes)
  BY <1>1 DEF Opened, S!Filled, S!from_spec, S!effective_identity_claims
<1>3. /\ f.up = spec.up /\ f.down = spec.down /\ f.size = spec.size /\ f.cpu = spec.cpu
      /\ f.routing = spec.routing_strategy /\ f.placement = spec.placement
      /\ f.rate = S!api_says(spec, "rate") /\ f.cors = (\E a \in spec.api : a.cors)
      /\ f.password = {} /\ f.props = (spec.props \cap S!Managed) \cup {"state"}
  BY <1>1 DEF Opened, S!Filled, S!from_spec, S!None
<1>4. /\ f.container_image = S!empty_to_none(spec.container_image)
      /\ f.docs = S!empty_to_none(S!api_says(spec, "docs"))
      /\ f.health = S!empty_to_none(S!api_says(spec, "health"))
      /\ f.network = S!empty_to_none(spec.network) /\ f.env = S!list_to_vec(spec.env)
      /\ f.cmd = S!list_to_vec(spec.cmd) /\ f.users = S!list_to_vec(spec.users)
      /\ f.line = [i \in S!Lines |-> S!empty_to_none(spec.line[i])]
  BY <1>1 DEF Opened, S!Filled, S!from_spec
<1>5. \A X \in {spec.groups, spec.users, spec.env, spec.cmd, spec.volumes, S!Visible(role, spec.groups)} :
         S!list_to_vec(X) = X
  <2>1. \A X \in {spec.groups, spec.users, spec.env, spec.cmd, spec.volumes} : X \cap DOMAIN Respelt = {}
    BY DEF S!ReadsBack
  <2>2. S!Visible(role, spec.groups) \cap DOMAIN Respelt = {}
    BY <2>1 DEF S!Visible
  <2> QED
    BY <2>1, <2>2, GivenBack
<1>6. /\ S!empty_to_none(spec.container_image) = spec.container_image
      /\ S!empty_to_none(spec.network) = spec.network
      /\ S!empty_to_none(S!api_says(spec, "docs")) = S!api_says(spec, "docs")
      /\ S!empty_to_none(S!api_says(spec, "health")) = S!api_says(spec, "health")
      /\ \A i \in S!Lines : S!empty_to_none(spec.line[i]) = spec.line[i]
  <2>1. \A i \in S!Lines : "" \notin spec.line[i]
    BY DEF S!ReadsBack
  <2> QED
    BY <2>1, GivenBack DEF S!ReadsBack
<1>7. f.groups = S!Visible(role, spec.groups) /\ (role = "admin" => f.volumes = spec.volumes)
  BY <1>2, <1>5
<1>8. f.env = spec.env /\ f.cmd = spec.cmd /\ f.users = spec.users
  BY <1>4, <1>5
<1>9. /\ f.line = [i \in S!Lines |-> f.line[i]]
      /\ \A i \in S!Lines : f.line[i] = spec.line[i]
  BY <1>4, <1>6
<1>10. /\ f.container_image = spec.container_image /\ f.network = spec.network
       /\ f.docs = S!api_says(spec, "docs") /\ f.health = S!api_says(spec, "health")
  BY <1>4, <1>6
<1> QED
  BY <1>1, <1>2, <1>3, <1>7, <1>8, <1>9, <1>10 DEF Shows

(* The base a spec is rebuilt on keeps its kind: it is the spec itself, or *)
(* the spec's is one that its type alone says.                             *)
KindKept(s, base) ==
    \/ base.kind_override = s.kind_override
    \/ /\ S!DisplayType(s) \notin {"talk", "report"} /\ s.kind_override \cap S!AppFamily = {}
       /\ base.kind_override = {}

LEMMA OverrideOf ==
    ASSUME NEW s, S!WellTyped(s), S!Coherent(s), NEW base, KindKept(s, base),
           NEW o, o = S!kind_override_of(S!DisplayType(s), base)
    PROVE  \/ o = s.kind_override
           \/ o = {"shiny"} /\ s.kind_override = {} /\ s.container_image # {}
                /\ S!DisplayType(s) \notin {"package", "link"}
           \/ /\ o \in {{"api"}, {"external"}} /\ o = {S!kind(s)}
              /\ s.kind_override \cap S!AppFamily = {}
<1>1. s.kind_override = {} \/ \E k \in S!Overrides : s.kind_override = {k}
  BY OptionCases DEF S!WellTyped
<1>2. S!DisplayType(s) \in S!Types
  BY KindsAre
<1>3. s.kind_override \cap S!AppFamily # {} => S!kind(s) = "interactive"
  <2>1. ASSUME NEW k \in S!AppFamily, s.kind_override = {k} PROVE S!kind(s) = "interactive"
    <3>1. s.kind_override \in {{x} : x \in S!AppFamily}
      BY <2>1
    <3> QED
      BY <3>1 DEF S!kind, S!None
  <2>2. \A k : s.kind_override = {k} /\ s.kind_override \cap S!AppFamily # {} => k \in S!AppFamily
    OBVIOUS
  <2> QED
    BY <1>1, <2>1, <2>2
<1>4. s.kind_override = {} => S!kind(s) = IF s.container_image # {} THEN "shiny" ELSE "external"
  BY DEF S!kind, S!None
<1>5. ASSUME NEW k \in S!Overrides \ S!AppFamily, s.kind_override = {k} PROVE S!kind(s) = k
  <2>1. s.kind_override \notin {{x} : x \in S!AppFamily} /\ s.kind_override # {}
    BY <1>5
  <2> QED
    BY <1>5, <2>1, Unwrapped DEF S!kind, S!None
<1>6. CASE S!DisplayType(s) = "app"
  <2>1. S!kind(s) \in {"shiny", "interactive"}
    BY <1>6 DEF S!Coherent
  <2>2. CASE s.kind_override \cap S!AppFamily # {}
    BY <1>6, <2>2 DEF KindKept, S!kind_override_of
  <2>3. CASE s.kind_override \cap S!AppFamily = {}
    <3>1. o = {"shiny"}
      BY <1>6, <2>3 DEF KindKept, S!kind_override_of
    <3>2. s.kind_override = {} \/ s.kind_override = {"shiny"}
      BY <1>1, <1>5, <2>1, <2>3 DEF S!Overrides
    <3> QED
      BY <1>4, <1>6, <2>1, <3>1, <3>2
  <2> QED
    BY <2>2, <2>3
<1>7. CASE S!DisplayType(s) = "api"
  <2>1. o = {"api"} /\ S!kind(s) = "api"
    BY <1>7 DEF S!Coherent, S!kind_override_of
  <2> QED
    BY <1>3, <2>1
<1>8. CASE S!DisplayType(s) \in {"package", "link"}
  <2>1. o = {"external"} /\ S!kind(s) = "external"
    BY <1>8 DEF S!Coherent, S!kind_override_of, S!Runs
  <2> QED
    BY <1>3, <2>1
<1>9. CASE S!DisplayType(s) \in {"talk", "report"}
  BY <1>9 DEF KindKept, S!kind_override_of
<1> QED
  BY <1>2, <1>6, <1>7, <1>8, <1>9 DEF S!Types

(* The API block that a form brings back, if the spec had one.             *)
LEMMA ApiHeld ==
    ASSUME NEW s, S!WellTyped(s), NEW n, NEW f, NEW base, NEW role, NEW g,
           Built(n, f, base, role, g), Shows(f, s)
    PROVE  /\ \A x \in {"port", "rate", "docs", "health"} : S!api_says(n, x) = S!api_says(s, x)
           /\ (\E a \in n.api : a.cors) = (\E a \in s.api : a.cors)
<1>1. n.api = IF f.type = "api" \/ S!ApiFilled(f)
              THEN {[port |-> f.text["api_port"] \cap S!u16, rate |-> f.rate, cors |-> f.cors,
                     docs |-> f.docs, health |-> f.health]}
              ELSE {}
  BY DEF Built
<1>2. f.text["api_port"] = S!api_says(s, "port")
  BY NumberNames DEF Shows, S!FromNumber
<1>3. f.text["api_port"] \cap S!u16 = f.text["api_port"]
  <2>1. \A a \in s.api : a.port \subseteq S!u16
    BY DEF S!WellTyped, S!Option
  <2> QED
    BY <1>2, <2>1 DEF S!api_says
<1>4. /\ f.rate = S!api_says(s, "rate") /\ f.docs = S!api_says(s, "docs")
      /\ f.health = S!api_says(s, "health") /\ f.cors = (\E a \in s.api : a.cors)
  BY DEF Shows
<1>5. CASE f.type = "api" \/ S!ApiFilled(f)
  <2>1. PICK b : b = [port |-> f.text["api_port"], rate |-> f.rate, cors |-> f.cors,
                      docs |-> f.docs, health |-> f.health]
    OBVIOUS
  <2>2. n.api = {b}
    BY <1>1, <1>3, <1>5, <2>1
  <2>3. \A x : S!api_says(n, x) = b[x]
    BY <2>2 DEF S!api_says
  <2>4. /\ b["port"] = f.text["api_port"] /\ b["rate"] = f.rate /\ b["docs"] = f.docs
        /\ b["health"] = f.health /\ b.cors = f.cors
    BY <2>1
  <2>5. \A x \in {"port", "rate", "docs", "health"} : S!api_says(n, x) = S!api_says(s, x)
    BY <1>2, <1>4, <2>3, <2>4
  <2>6. (\E a \in n.api : a.cors) = b.cors
    <3>1. b.cors \in BOOLEAN
      BY <1>4, <2>4
    <3> QED
      BY <2>2, <3>1
  <2> QED
    BY <1>4, <2>4, <2>5, <2>6
<1>6. CASE ~(f.type = "api" \/ S!ApiFilled(f))
  <2>1. /\ n.api = {} /\ ~f.cors /\ f.docs = {} /\ f.health = {} /\ f.rate = {}
        /\ f.text["api_port"] = {}
    BY <1>1, <1>6 DEF S!ApiFilled, S!None
  <2>2. \A x : S!api_says(n, x) = {}
    BY <2>1 DEF S!api_says
  <2>3. (\E a \in n.api : a.cors) = FALSE
    BY <2>1
  <2> QED
    BY <1>2, <1>4, <2>1, <2>2, <2>3
<1> QED
  BY <1>5, <1>6

LEMMA KindHeld ==
    ASSUME NEW s, S!WellTyped(s), S!Coherent(s), NEW base, KindKept(s, base), NEW n, NEW f, NEW role, NEW g,
           Built(n, f, base, role, g), Shows(f, s)
    PROVE  /\ S!kind(n) = S!kind(s) /\ n.container_image = s.container_image
           /\ S!effective_inner_port(n) = S!effective_inner_port(s)
<1>1. /\ n.kind_override = S!kind_override_of(S!DisplayType(s), base)
      /\ n.container_image = IF S!DisplayType(s) \in {"package", "link"} THEN {} ELSE s.container_image
      /\ n.api = IF f.type = "api" \/ S!ApiFilled(f)
                 THEN {[port |-> f.text["api_port"] \cap S!u16, rate |-> f.rate, cors |-> f.cors,
                        docs |-> f.docs, health |-> f.health]}
                 ELSE {}
      /\ n.int["container_port"] = f.text["container_port"] \cap S!u16
  BY NumberNames DEF Built, Shows
<1>2. n.container_image = s.container_image
  BY <1>1 DEF S!Coherent, S!None
<1>3. \/ n.kind_override = s.kind_override
      \/ n.kind_override = {"shiny"} /\ s.kind_override = {} /\ s.container_image # {}
      \/ /\ n.kind_override \in {{"api"}, {"external"}} /\ n.kind_override = {S!kind(s)}
         /\ s.kind_override \cap S!AppFamily = {}
  BY <1>1, OverrideOf
<1>4. \A k \in {"shiny", "api", "external"} : {k} \notin {{x} : x \in S!AppFamily} /\ {k} # {}
  BY DEF S!AppFamily
<1>5. ASSUME NEW k \in {"shiny", "api", "external"}, n.kind_override = {k} PROVE S!kind(n) = k
  BY <1>4, <1>5, Unwrapped DEF S!kind, S!None
<1>6. S!kind(n) = S!kind(s)
  <2>1. CASE n.kind_override = s.kind_override
    BY <1>2, <2>1 DEF S!kind
  <2>2. CASE n.kind_override = {"shiny"} /\ s.kind_override = {} /\ s.container_image # {}
    <3>1. S!kind(s) = "shiny"
      BY <2>2 DEF S!kind, S!None
    <3> QED
      BY <1>5, <2>2, <3>1
  <2>3. CASE n.kind_override \in {{"api"}, {"external"}} /\ n.kind_override = {S!kind(s)}
    <3>1. S!kind(s) \in {"api", "external"}
      BY <2>3
    <3> QED
      BY <1>5, <2>3, <3>1
  <2> QED
    BY <1>3, <2>1, <2>2, <2>3
<1>7. n.int["container_port"] = s.int["container_port"]
  <2>1. f.text["container_port"] = s.int["container_port"]
    BY NumberNames DEF Shows, S!FromNumber
  <2> QED
    BY <1>1, <2>1, NumberNames DEF S!WellTyped, S!Option
<1>8. S!api_says(n, "port") = S!api_says(s, "port")
  BY ApiHeld
<1>9. \/ n.kind_override = s.kind_override
      \/ /\ n.kind_override \notin {{"streamlit"}, {"dash"}, {"voila"}}
         /\ s.kind_override \notin {{"streamlit"}, {"dash"}, {"voila"}}
  BY <1>3 DEF S!AppFamily
<1> DEFINE Own(o) == CASE o = {"streamlit"} -> {8501} [] o = {"dash"} -> {8050} [] o = {"voila"} -> {8866}
                       [] o \notin {{"streamlit"}, {"dash"}, {"voila"}} -> S!None
<1>10. Own(n.kind_override) = Own(s.kind_override)
  <2>1. CASE n.kind_override = s.kind_override
    BY <2>1
  <2>2. CASE /\ n.kind_override \notin {{"streamlit"}, {"dash"}, {"voila"}}
             /\ s.kind_override \notin {{"streamlit"}, {"dash"}, {"voila"}}
    <3>1. \A o : o \notin {{"streamlit"}, {"dash"}, {"voila"}} => Own(o) = S!None
      OBVIOUS
    <3> QED
      BY <2>2, <3>1
  <2> QED
    BY <1>9, <2>1, <2>2
<1>11. \A x : S!effective_inner_port(x) =
          S!OrElse(x.int["container_port"], S!OrElse(S!api_says(x, "port"),
          S!OrElse(Own(x.kind_override), IF S!kind(x) = "api" THEN {8080} ELSE S!None)))
  BY DEF S!effective_inner_port
<1> HIDE DEF Own
<1>12. S!effective_inner_port(n) = S!effective_inner_port(s)
  <2> DEFINE At(p, u, o, k) == S!OrElse(p, S!OrElse(u, S!OrElse(o, IF k = "api" THEN {8080} ELSE S!None)))
  <2>1. \A x : S!effective_inner_port(x) =
          At(x.int["container_port"], S!api_says(x, "port"), Own(x.kind_override), S!kind(x))
    BY Zenon, <1>11
  <2> HIDE DEF At
  <2>2. /\ S!effective_inner_port(n) =
             At(n.int["container_port"], S!api_says(n, "port"), Own(n.kind_override), S!kind(n))
        /\ S!effective_inner_port(s) =
             At(s.int["container_port"], S!api_says(s, "port"), Own(s.kind_override), S!kind(s))
    BY Zenon, <2>1
  <2> QED
    BY Zenon, <1>6, <1>7, <1>8, <1>10, <2>2
<1> QED
  BY <1>2, <1>6, <1>12

(* The numbers and boxes that a form brings back.                          *)
LEMMA NumbersHeld ==
    ASSUME NEW s, S!WellTyped(s), NEW n, NEW f, NEW base, NEW role, NEW g, Built(n, f, base, role, g), Shows(f, s)
    PROVE  /\ \A i \in S!Ints \ {"mfa_validity_days"} : n.int[i] = s.int[i]
           /\ S!effective_mfa_validity_days(n) = S!effective_mfa_validity_days(s)
           /\ \A i \in S!Flags : S!FlagSet(n, i) = S!FlagSet(s, i)
<1>1. ASSUME NEW i \in S!Ints \ {"mfa_validity_days"} PROVE n.int[i] = s.int[i]
  <2>1. n.int[i] = s.int[i] \cap S!Type[i]
    BY NumberNames DEF Built, Shows, S!FromNumber
  <2> QED
    BY <2>1 DEF S!WellTyped, S!Option
<1>2. S!effective_mfa_validity_days(n) = S!effective_mfa_validity_days(s)
  <2>1. n.int["mfa_validity_days"] = {S!Smaller(d, 30) : d \in s.int["mfa_validity_days"]} \cap S!u16
    BY NumberNames DEF Built, Shows, S!FromNumber, S!MAX_MFA_VALIDITY_DAYS
  <2>2. \A x : S!effective_mfa_validity_days(x) = S!Smaller(S!UnwrapOr(x.int["mfa_validity_days"], 7), 30)
    BY DEF S!effective_mfa_validity_days, S!DEFAULT_MFA_VALIDITY_DAYS, S!MAX_MFA_VALIDITY_DAYS
  <2>3. s.int["mfa_validity_days"] = {} \/ \E d \in S!u16 : s.int["mfa_validity_days"] = {d}
    BY OptionCases, NumberNames DEF S!WellTyped
  <2>4. CASE s.int["mfa_validity_days"] = {}
    BY <2>1, <2>2, <2>4
  <2>5. ASSUME NEW d \in S!u16, s.int["mfa_validity_days"] = {d}
        PROVE  S!effective_mfa_validity_days(n) = S!effective_mfa_validity_days(s)
    <3>1. S!Smaller(d, 30) \in S!u16 /\ S!Smaller(S!Smaller(d, 30), 30) = S!Smaller(d, 30)
      BY DEF S!Smaller, S!u16
    <3>2. n.int["mfa_validity_days"] = {S!Smaller(d, 30)}
      BY <2>1, <2>5, <3>1
    <3>5. S!UnwrapOr({d}, 7) = d
      BY Unwrapped
    <3>3. S!UnwrapOr(s.int["mfa_validity_days"], 7) = d
      BY Zenon, <2>5, <3>5
    <3>4. S!UnwrapOr(n.int["mfa_validity_days"], 7) = S!Smaller(d, 30)
      BY Zenon, <3>2, Unwrapped
    <3> QED
      BY Zenon, <2>2, <3>1, <3>3, <3>4
  <2> QED
    BY <2>3, <2>4, <2>5
<1>3. ASSUME NEW i \in S!Flags PROVE S!FlagSet(n, i) = S!FlagSet(s, i)
  <2>1. /\ S!FlagSet(n, i) = S!UnwrapOr(n.flag[i], i = "inject_base_href")
        /\ n.flag[i] = S!checkbox_opt(i, f.ticks) /\ (i \in f.ticks <=> S!FlagSet(s, i))
    BY DEF Built, Shows, S!FlagSet
  <2>2. S!FlagSet(s, i) \in BOOLEAN
    <3>1. s.flag[i] = {} \/ \E x \in BOOLEAN : s.flag[i] = {x}
      BY OptionCases DEF S!WellTyped
    <3>2. S!FlagSet(s, i) = S!UnwrapOr(s.flag[i], i = "inject_base_href")
      BY DEF S!FlagSet
    <3>3. (i = "inject_base_href") \in BOOLEAN
      OBVIOUS
    <3>4. CASE s.flag[i] = {}
      BY Zenon, <3>2, <3>3, <3>4, Unwrapped
    <3>5. ASSUME NEW x \in BOOLEAN, s.flag[i] = {x} PROVE S!FlagSet(s, i) \in BOOLEAN
      <4>1. S!UnwrapOr({x}, i = "inject_base_href") = x
        BY Unwrapped
      <4>2. S!FlagSet(s, i) = x
        BY Zenon, <3>2, <3>5, <4>1
      <4> QED
        BY Zenon, <3>5, <4>2
    <3> QED
      BY Zenon, <3>1, <3>4, <3>5
  <2>3. S!UnwrapOr({}, i = "inject_base_href") = (i = "inject_base_href")
        /\ S!UnwrapOr({TRUE}, i = "inject_base_href") = TRUE
        /\ S!UnwrapOr({FALSE}, i = "inject_base_href") = FALSE
    BY Unwrapped
  <2>4. CASE i = "inject_base_href"
    <3>1. i \in f.ticks => S!FlagSet(n, i) = TRUE
      BY <2>1, <2>3, <2>4 DEF S!checkbox_opt, S!None
    <3>2. i \notin f.ticks => S!FlagSet(n, i) = FALSE
      BY <2>1, <2>3, <2>4 DEF S!checkbox_opt, S!None
    <3> QED
      BY <2>1, <2>2, <3>1, <3>2
  <2>5. CASE i # "inject_base_href"
    <3>1. i \in f.ticks => S!FlagSet(n, i) = TRUE
      BY <2>1, <2>3, <2>5 DEF S!checkbox_opt, S!None
    <3>2. i \notin f.ticks => S!FlagSet(n, i) = FALSE
      BY <2>1, <2>3, <2>5 DEF S!checkbox_opt, S!None
    <3> QED
      BY <2>1, <2>2, <3>1, <3>2
  <2> QED
    BY <2>4, <2>5
<1> QED
  BY <1>1, <1>2, <1>3

(* Everything of a spec's meaning but what a base adds to it.              *)
LEMMA RunHeld ==
    ASSUME NEW s, S!WellTyped(s), S!Coherent(s), NEW base, KindKept(s, base), NEW n, NEW f, NEW role, NEW g,
           Built(n, f, base, role, g), Shows(f, s)
    PROVE  S!Behaviour(n) = S!Behaviour(s)
<1>1. /\ S!kind(n) = S!kind(s) /\ n.container_image = s.container_image
      /\ S!effective_inner_port(n) = S!effective_inner_port(s)
  BY KindHeld
<1>2. \A i \in S!Ints \ {"mfa_validity_days"} : n.int[i] = s.int[i]
  BY NumbersHeld
<1>3. /\ n.int["seats_per_container"] = s.int["seats_per_container"]
      /\ n.int["min_replicas"] = s.int["min_replicas"] /\ n.int["max_replicas"] = s.int["max_replicas"]
      /\ n.int["max_lifetime"] = s.int["max_lifetime"]
      /\ n.int["container_lifetime"] = s.int["container_lifetime"]
      /\ n.int["drain_timeout"] = s.int["drain_timeout"]
  BY <1>2, NumberNames
<1>14. /\ n.int["heartbeat_timeout"] = s.int["heartbeat_timeout"]
       /\ n.int["container_wait_time"] = s.int["container_wait_time"]
       /\ n.int["scale_down_grace"] = s.int["scale_down_grace"]
       /\ n.int["scale_down_cooldown_secs"] = s.int["scale_down_cooldown_secs"]
       /\ n.int["concurrent_requests_per_replica"] = s.int["concurrent_requests_per_replica"]
  BY <1>2, NumberNames
<1>4. S!effective_mfa_validity_days(n) = S!effective_mfa_validity_days(s)
  BY NumbersHeld
<1>5. {i \in S!Flags : S!FlagSet(n, i)} = {i \in S!Flags : S!FlagSet(s, i)}
  <2>1. \A i \in S!Flags : S!FlagSet(n, i) = S!FlagSet(s, i)
    BY NumbersHeld
  <2> QED
    BY <2>1
<1>6. /\ n.up = s.up /\ n.down = s.down /\ n.network = s.network /\ n.env = s.env /\ n.users = s.users
      /\ n.size = s.size /\ n.cpu = s.cpu /\ n.cmd = s.cmd
  BY DEF Built, Shows
<1>15. [i \in S!Lines |-> n.line[i]] = [i \in S!Lines |-> s.line[i]]
  BY DEF Built, Shows
<1>16. n.routing_strategy = s.routing_strategy /\ n.placement = s.placement
  BY DEF Built, Shows, S!WellTyped, S!Option
<1>7. S!effective_identity_claims(n) = S!effective_identity_claims(s)
  <2>1. n.claims = (base.claims \ {"email", "setor"}) \cup (s.claims \cap {"email", "setor"})
    BY DEF Built, Shows
  <2> QED
    BY <2>1 DEF S!effective_identity_claims
<1>8. /\ S!effective_min_replicas(n) = S!effective_min_replicas(s) /\ S!Runs(n) = S!Runs(s)
      /\ S!effective_seats(n) = S!effective_seats(s)
  BY <1>1, <1>3 DEF S!effective_min_replicas, S!Runs, S!effective_seats
<1>9. S!effective_max_replicas(n) = S!effective_max_replicas(s)
  BY <1>3, <1>8 DEF S!effective_max_replicas
<1>10. /\ S!effective_routing(n) = S!effective_routing(s)
       /\ S!needs_sticky_sessions(n) = S!needs_sticky_sessions(s)
       /\ S!effective_placement(n) = S!effective_placement(s)
  BY <1>1, <1>16 DEF S!effective_routing, S!needs_sticky_sessions, S!effective_placement
<1>11. /\ S!lifetime_secs(n.int["max_lifetime"]) = S!lifetime_secs(s.int["max_lifetime"])
       /\ S!lifetime_secs(n.int["container_lifetime"]) = S!lifetime_secs(s.int["container_lifetime"])
  BY <1>3
<1>12. /\ S!effective_drain_timeout_secs(n) = S!effective_drain_timeout_secs(s)
       /\ S!effective_scale_down_cooldown_secs(n) = S!effective_scale_down_cooldown_secs(s)
       /\ S!effective_concurrent_requests_per_replica(n) = S!effective_concurrent_requests_per_replica(s)
  BY <1>3, <1>14 DEF S!effective_drain_timeout_secs, S!effective_scale_down_cooldown_secs,
                     S!effective_concurrent_requests_per_replica
<1>13. /\ S!effective_max_body_bytes(n, S!None) = S!effective_max_body_bytes(s, S!None)
       /\ [i \in S!Sizes |-> S!parse_memory_string(n.size[i])] =
             [i \in S!Sizes |-> S!parse_memory_string(s.size[i])]
  BY <1>6 DEF S!effective_max_body_bytes
<1>17. /\ S!parse_rate_limit(S!api_says(n, "rate")) = S!parse_rate_limit(S!api_says(s, "rate"))
       /\ (\E a \in n.api : a.cors) = (\E a \in s.api : a.cors)
       /\ S!api_says(n, "docs") = S!api_says(s, "docs") /\ S!api_says(n, "health") = S!api_says(s, "health")
  BY ApiHeld
<1> QED
  BY <1>1, <1>4, <1>5, <1>6, <1>7, <1>8, <1>9, <1>10, <1>11, <1>12, <1>13, <1>14, <1>15, <1>17
     DEF S!Behaviour

(* An edit form saved as it was opened leaves the spec what it was.        *)
LEMMA EditSaved ==
    ASSUME FormInv, S!update, touched = 0, S!Coherent(spec), S!ReadsBack(spec)
    PROVE  S!Meaning(spec') = S!Meaning(spec)
<1>1. PICK n : n = spec'
  OBVIOUS
<1>2. PICK f : f = specForm
  OBVIOUS
<1>3. n = [S!into_spec(f, spec, who) EXCEPT !.groups = S!Merged(spec.groups, f.groups)]
  BY <1>1, <1>2 DEF S!update, S!Candidate, S!into_spec
<1>4. Built(n, f, spec, who, S!Merged(spec.groups, f.groups))
  BY <1>3, FormBuilds
<1>5. f = Opened(who) /\ who \in {"admin", "editor"} /\ S!WellTyped(spec)
  BY <1>2 DEF FormInv, S!update
<1>6. Shows(f, spec) /\ f.groups = S!Visible(who, spec.groups) /\ (who = "admin" => f.volumes = spec.volumes)
  BY <1>5, OpenedShows
<1>7. S!Behaviour(n) = S!Behaviour(spec)
  BY <1>4, <1>5, <1>6, RunHeld DEF KindKept
<1>8. n.groups = spec.groups
  <2>1. n.groups = S!Merged(spec.groups, f.groups)
    BY <1>4 DEF Built
  <2> QED
    BY <1>5, <1>6, <2>1 DEF S!Merged, S!Visible
<1>9. n.volumes = spec.volumes
  BY <1>4, <1>5, <1>6 DEF Built, S!VolumesOf
<1>10. n.labels = spec.labels /\ n.password = spec.password
  BY <1>4, <1>6 DEF Built, Shows, S!OrElse, S!None
<1>11. n.props \cap {"extra"} = spec.props \cap {"extra"}
  <2>1. n.props = ((spec.props \ (S!Managed \cup {"icon", "locked"})) \cup f.props) \cup {"updated"}
    BY <1>4 DEF Built
  <2>2. f.props = (spec.props \cap S!Managed) \cup {"state"}
    BY <1>6 DEF Shows
  <2> QED
    BY <2>1, <2>2 DEF S!Managed
<1>12. S!Meaning(n) = S!Meaning(spec)
  BY <1>7, <1>8, <1>9, <1>10, <1>11 DEF S!Meaning
<1> QED
  BY <1>1, <1>12

(* A copy saved as it was opened runs like its source.                     *)
LEMMA CopySaved ==
    ASSUME FormInv, S!create, page = "copy", touched = 0, S!Coherent(spec), S!ReadsBack(spec),
           S!DisplayType(spec) \notin {"talk", "report"}, spec.kind_override \cap S!AppFamily = {},
           NEW c \in formCopy'
    PROVE  S!Behaviour(c) = S!Behaviour(spec)
<1>1. PICK f : f = specForm
  OBVIOUS
<1>2. c = S!into_spec(f, S!DefaultSpec, who)
  BY <1>1 DEF S!create, S!Created
<1>3. Built(c, f, S!DefaultSpec, who, f.groups)
  BY <1>2, FormBuilds
<1>4. f = Opened(who) /\ S!WellTyped(spec)
  BY <1>1 DEF FormInv
<1>5. Shows(f, spec)
  BY <1>4, OpenedShows
<1>6. KindKept(spec, S!DefaultSpec)
  BY DEF KindKept, S!DefaultSpec, S!None
<1> QED
  BY <1>3, <1>4, <1>5, <1>6, RunHeld

(* An editor's save leaves the volumes alone.                              *)
LEMMA VolumesSaved ==
    ASSUME S!update \/ S!create, who = "editor"
    PROVE  spec'.volumes = spec.volumes /\ \A c \in formCopy' \ formCopy : c.volumes = {}
<1>1. CASE S!update
  <2>1. PICK n : n = spec'
    OBVIOUS
  <2>2. n = [S!into_spec(specForm, spec, who) EXCEPT !.groups = S!Merged(spec.groups, @)]
    BY <1>1, <2>1 DEF S!update, S!Candidate
  <2>3. n.volumes = S!VolumesOf(specForm, spec, who)
    BY <2>2 DEF S!into_spec
  <2>4. formCopy' = formCopy
    BY <1>1 DEF S!update
  <2> QED
    BY <2>1, <2>3, <2>4 DEF S!VolumesOf
<1>2. CASE S!create
  <2>1. spec' = spec /\ formCopy' = {S!into_spec(specForm, S!DefaultSpec, who)}
    BY <1>2 DEF S!create, S!Created
  <2>2. Built(S!into_spec(specForm, S!DefaultSpec, who), specForm, S!DefaultSpec, who, specForm.groups)
    BY FormBuilds
  <2>3. ASSUME NEW c \in formCopy' PROVE c.volumes = {}
    <3>1. c.volumes = S!VolumesOf(specForm, S!DefaultSpec, who)
      BY <2>1, <2>2, <2>3 DEF Built
    <3> QED
      BY <3>1 DEF S!VolumesOf, S!DefaultSpec, S!None
  <2> QED
    BY <2>1, <2>3
<1> QED
  BY <1>1, <1>2

(* A spec the form accepted can run, and a save writes what the page stood *)
(* for.                                                                    *)
THEOREM FormHolds == S!Spec => []S!FormSpecsCanRun /\ S!SavesFaithful
<1>1. FormInv => S!FormSpecsCanRun
  BY DEF FormInv, S!FormSpecsCanRun, S!Written
<1>2. FormInv /\ [S!Next]_(S!vars) =>
        [/\ S!update /\ touched = 0 /\ S!Coherent(spec) /\ S!ReadsBack(spec) =>
              S!Meaning(spec') = S!Meaning(spec)
         /\ S!create /\ page = "copy" /\ touched = 0 /\ S!Coherent(spec) /\ S!ReadsBack(spec)
              /\ S!DisplayType(spec) \notin {"talk", "report"}
              /\ spec.kind_override \cap S!AppFamily = {} =>
            \A c \in formCopy' : S!Behaviour(c) = S!Behaviour(spec)
         /\ who = "editor" /\ (S!update \/ S!create) =>
              /\ spec'.volumes = spec.volumes
              /\ \A c \in formCopy' \ formCopy : c.volumes = {}]_(S!vars)
  BY EditSaved, CopySaved, VolumesSaved
<1> QED
  BY FormInvariance, <1>1, <1>2, PTL DEF S!Spec, S!SavesFaithful

-----------------------------------------------------------------------------
(* The whole.                                                              *)

(* Every behaviour of what the panel edits is one of the catalog, of the   *)
(* spec form, of the showcase, of the landing page, of its blocks and of the media library,  *)
(* each seen alone: they share nothing, so what is proved of one holds of  *)
(* the whole.                                                              *)
THEOREM ContentParts == ContentSpec => Spec /\ S!Spec /\ W!Spec /\ P!Spec /\ B!Spec /\ M!Spec
<1>1. ContentInit => Init /\ S!Init /\ W!Init /\ P!Init /\ B!Init /\ M!Init
  BY DEF ContentInit
<1>2. [ContentNext]_contentVars => [Next]_vars
  BY DEF ContentNext, contentVars
<1>3. [ContentNext]_contentVars => [W!Next]_(W!vars)
  <2>1. [ContentNext]_contentVars => W!Next \/ UNCHANGED showcaseVars
    BY DEF ContentNext, contentVars
  <2>2. UNCHANGED showcaseVars => UNCHANGED W!vars
    BY DEF showcaseVars, W!vars
  <2> QED
    BY <2>1, <2>2
<1>4. [ContentNext]_contentVars => [P!Next]_(P!vars)
  <2>1. [ContentNext]_contentVars => P!Next \/ UNCHANGED landingVars
    BY DEF ContentNext, contentVars
  <2>2. UNCHANGED landingVars => UNCHANGED P!vars
    BY DEF landingVars, P!vars
  <2> QED
    BY <2>1, <2>2
<1>5. [ContentNext]_contentVars => [B!Next]_(B!vars)
  <2>1. [ContentNext]_contentVars => B!Next \/ UNCHANGED blocksVars
    BY DEF ContentNext, contentVars
  <2>2. UNCHANGED blocksVars => UNCHANGED B!vars
    BY DEF blocksVars, B!vars
  <2> QED
    BY <2>1, <2>2
<1>6. [ContentNext]_contentVars => [M!Next]_(M!vars)
  <2>1. [ContentNext]_contentVars => M!Next \/ UNCHANGED mediaVars
    BY DEF ContentNext, contentVars
  <2>2. UNCHANGED mediaVars => UNCHANGED M!vars
    BY DEF mediaVars, M!vars
  <2> QED
    BY <2>1, <2>2
<1>7. [ContentNext]_contentVars => [S!Next]_(S!vars)
  <2>1. [ContentNext]_contentVars => S!Next \/ UNCHANGED formVars
    BY DEF ContentNext, contentVars
  <2>2. UNCHANGED formVars => UNCHANGED S!vars
    BY DEF formVars, S!vars
  <2> QED
    BY <2>1, <2>2
<1> QED
  BY <1>1, <1>2, <1>3, <1>4, <1>5, <1>6, <1>7, PTL
     DEF ContentSpec, Spec, S!Spec, W!Spec, P!Spec, B!Spec, M!Spec

(* What the parts promise, of the whole: the history has every version and *)
(* a fresh list is the table's; no edit is lost; a spec a form accepted    *)
(* can run and a save is faithful; the samples are seeded once; the        *)
(* landing page keeps its order and its look; no image's name dangles and  *)
(* no digest is another file's, outside the named races.                   *)
THEOREM ContentHolds ==
    ContentSpec => /\ [](CatalogConsistent /\ DigestsExplained)
                   /\ EditsNotLost /\ SpecsSurviveForm /\ SeededOnce /\ LandingFaithful /\ RefsFollow
<1>1. HistoryMatches /\ CacheFresh => CatalogConsistent
  BY DEF CatalogConsistent
<1>2. M!DigestsExplained => DigestsExplained
  BY DEF DigestsExplained
<1>3. ContentSpec => EditsNotLost
  BY ContentParts, SavesAreFair, PTL
<1>4. ContentSpec => SeededOnce
  BY ContentParts, SeedHolds, PTL DEF SeededOnce
<1>5. ContentSpec => LandingFaithful
  BY ContentParts, BlocksHold, LookHolds, PTL DEF LandingFaithful
<1>6. ContentSpec => RefsFollow
  BY ContentParts, MediaHolds, PTL DEF RefsFollow
<1>7. ContentSpec => [](CatalogConsistent /\ DigestsExplained)
  BY <1>1, <1>2, ContentParts, CatalogHolds, MediaHolds, PTL
<1>8. ContentSpec => SpecsSurviveForm
  BY ContentParts, FormHolds, PTL DEF SpecsSurviveForm
<1> QED
  BY <1>3, <1>4, <1>5, <1>6, <1>7, <1>8
=============================================================================
