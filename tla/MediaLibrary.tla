---------------------------- MODULE MediaLibrary ----------------------------
(***************************************************************************)
(* The image library. Catalog entries and the landing page name its files, *)
(* so renaming or deleting one rewrites the rows that name it: the handler *)
(* reads those rows first and writes them back, whole, in the transaction  *)
(* that moves the file. Filenames are not unique in the schema: uploads    *)
(* look for a free one and then insert. Each file's digest is remembered   *)
(* by the requests this process serves, and forgotten by its handlers.     *)
(* The slots are a spec's logo and cover and a logo of the landing page;   *)
(* no handler looks at the other places that name images, og_image, the    *)
(* blocks' html and the custom CSS.                                        *)
(***************************************************************************)
EXTENDS Naturals, FiniteSets

CONSTANTS
    Admins,
    Requests,   \* requests for an image in flight
    MaxName,    \* stems of filenames, in the order unique_filename tries them
    LongNames,  \* filenames that go on where a shorter one ends
    MaxImages,  \* bound on uploads
    MaxEdits,   \* bound on renames, deletions and edits of the two rows
    None

\* A filename is a stem and how far it goes on behind it: a longer one of the
\* same stem has the shorter as its prefix. A slot may name any file.
Stems == 1..MaxName
Names == (Stems \X {0}) \cup LongNames
References == Stems \X Nat
Longer(m, n) == m # None /\ m[1] = n[1] /\ m[2] > n[2]
Images == 1..MaxImages
Spots == {"logo", "cover", "landing"}
Row(s) == IF s = "landing" THEN "landing" ELSE "spec"
Rows == {"spec", "landing"}

VARIABLES
    images,     \* each image's filename, None when it has no row
    uploaded,   \* images uploaded so far
    ref,        \* the file each slot of the catalog and the landing names
    task,       \* the handler each admin's request is in; "dirty", a ghost, holds
                \* what others wrote since the handler started
    digest,     \* IMAGE_DIGEST: the image whose hash is remembered for a name
    request,    \* the name and the image a request has read and not yet hashed;
                \* "late", a ghost, that the bytes have moved since
    raced,      \* ghost: names whose digest is of bytes that moved under a request
                \* or a rename, or with nobody here to forget it
    edits

vars == <<images, uploaded, ref, task, digest, request, raced, edits>>

Idle == [op |-> "none", at |-> "idle", id |-> None, old |-> None, new |-> None,
         ref |-> [s \in Spots |-> None], hit |-> {}, gone |-> {}, dirty |-> {}]

filename_taken(n) == \E i \in Images : images[i] = n
\* None is the default mark, an absent cover or an emptied logo.
Resolves(n) == n = None \/ filename_taken(n)

\* One image, which every slot names, or none.
Init ==
    /\ images = [i \in Images |-> IF i = 1 THEN <<1, 0>> ELSE None] /\ uploaded = 1
    /\ \E n \in {None, <<1, 0>>} : ref = [s \in Spots |-> n]
    /\ task = [a \in Admins |-> Idle]
    /\ digest = [n \in Names |-> None] /\ request = [r \in Requests |-> None]
    /\ raced = {} /\ edits = 0

Goes(a, t) == task' = [task EXCEPT ![a] = t]
At(a, ops, at) == task[a].op \in ops /\ task[a].at = at
\* A commit is seen by the handlers of the others.
Disturbed(b, what) == IF task[b].op \notin {"rename", "delete"} THEN task[b]
                      ELSE [task[b] EXCEPT !.dirty = @ \cup what]

-----------------------------------------------------------------------------
(* upload, upload_inline, and the imports: import_dir, in the process of the *)
(* command line, and import_referenced_logos, which take a file's own name   *)
(* and invalidate nothing                                                    *)

Arrives(a, op, at, n) ==
    /\ task[a] = Idle /\ uploaded < MaxImages
    /\ Goes(a, [Idle EXCEPT !.op = op, !.at = at, !.id = uploaded + 1, !.new = n])
    /\ uploaded' = uploaded + 1
    /\ UNCHANGED <<images, ref, digest, request, raced, edits>>
Upload(a) == Arrives(a, "upload", "probe", <<1, 0>>)
Import(a) == \E n \in Names : Arrives(a, "import", "begin", n)
\* One query for each candidate.
unique_filename(a) ==
    LET n == task[a].new
        tried == <<n[1] + 1, n[2]>>
    IN
    /\ At(a, {"upload"}, "probe")
    /\ Goes(a, IF ~filename_taken(n) THEN [task[a] EXCEPT !.at = "begin"]
               ELSE IF tried \in Names THEN [task[a] EXCEPT !.new = tried]
               ELSE Idle)
    /\ UNCHANGED <<images, uploaded, ref, digest, request, raced, edits>>
\* The transaction deletes the rows it can see under that name, and holds
\* them locked until it commits.
Locked(i) == \E b \in Admins : i \in task[b].gone
InsertDeletes(a) ==
    /\ At(a, {"upload", "import"}, "begin") /\ \A i \in Images : images[i] = task[a].new => ~Locked(i)
    /\ Goes(a, [task[a] EXCEPT !.at = "commit", !.gone = {i \in Images : images[i] = task[a].new}])
    /\ UNCHANGED <<images, uploaded, ref, digest, request, raced, edits>>

-----------------------------------------------------------------------------
(* rename, delete: the file's name, then the rows that name it *)

Lookup(a, i) ==
    /\ task[a] = Idle /\ images[i] # None /\ edits < MaxEdits /\ edits' = edits + 1
    /\ \/ Goes(a, [Idle EXCEPT !.op = "delete", !.at = "specs", !.id = i, !.old = images[i]])
       \/ \E n \in Names \ {images[i]} :
            Goes(a, [Idle EXCEPT !.op = "rename", !.at = "taken", !.id = i, !.old = images[i], !.new = n])
    /\ UNCHANGED <<images, uploaded, ref, digest, request, raced>>
RenameTaken(a) ==
    /\ At(a, {"rename"}, "taken")
    /\ Goes(a, IF filename_taken(task[a].new) THEN Idle ELSE [task[a] EXCEPT !.at = "specs"])
    /\ UNCHANGED <<images, uploaded, ref, digest, request, raced, edits>>

\* A reference is looked for as a substring, and rewritten by replacing it.
references_image_LogoOnly(s, n) == (ref[s] = n \/ Longer(ref[s], n)) /\ s # "cover"
references_image(s, n) == ref[s] = n \/ Longer(ref[s], n)
rewrite_reference(t, m) ==
    IF t.op = "rename" THEN <<t.new[1], t.new[2] + m[2] - t.old[2]>> ELSE None
\* The slots of a row as they will be written; a row with no hit is left out.
Read(t, row) ==
    LET hits == {s \in Spots : Row(s) = row /\ references_image(s, t.old)}
    IN IF hits = {} THEN t
       ELSE [t EXCEPT !.ref = [s \in Spots |-> IF s \in hits THEN rewrite_reference(t, ref[s])
                                               ELSE IF Row(s) = row THEN ref[s] ELSE @[s]],
                      !.hit = @ \cup {row}]
ReadSpecs(a) ==
    /\ At(a, {"rename", "delete"}, "specs")
    /\ Goes(a, [Read(task[a], "spec") EXCEPT !.at = "landing"])
    /\ UNCHANGED <<images, uploaded, ref, digest, request, raced, edits>>
ReadLanding(a) ==
    /\ At(a, {"rename", "delete"}, "landing")
    /\ Goes(a, [Read(task[a], "landing") EXCEPT !.at = IF task[a].op = "rename" THEN "begin" ELSE "commit"])
    /\ UNCHANGED <<images, uploaded, ref, digest, request, raced, edits>>
\* The transaction looks at the new name again.
RenameBegins(a) ==
    /\ At(a, {"rename"}, "begin")
    /\ Goes(a, IF \E i \in Images \ {task[a].id} : images[i] = task[a].new
               THEN Idle ELSE [task[a] EXCEPT !.at = "commit"])
    /\ UNCHANGED <<images, uploaded, ref, digest, request, raced, edits>>

-----------------------------------------------------------------------------
(* Commits. Every name whose bytes may have moved is then invalidated, if    *)
(* the handler runs here and is still there to do it: not by an import, not  *)
(* on another node, which has digests of its own, and not where the commit   *)
(* was reported as failed or the client left while it was awaited.           *)

Moved(t) == {t.old, t.new} \ {None}
Moves(n, i, rows) == i # None /\ images[i] = n /\ rows[i] # n
Ends(a, rows, t) ==
    /\ images' = rows
    /\ task' = [b \in Admins |-> IF b = a THEN t ELSE Disturbed(b, {"images"} \cup task[a].hit)]
    /\ request' = [r \in Requests |->
                      IF request[r] # None /\ Moves(request[r].name, request[r].id, rows)
                      THEN [request[r] EXCEPT !.late = TRUE] ELSE request[r]]
    /\ raced' = raced \cup {n \in Names \ Moved(t) : Moves(n, digest[n], rows)}
    /\ UNCHANGED <<uploaded, digest, edits>>
Commits(a, rows, old) ==
    \/ /\ task[a].op # "import"
       /\ Ends(a, rows, [Idle EXCEPT !.at = "invalidate", !.old = old, !.new = task[a].new])
    \/ Ends(a, rows, Idle)
insert(a) ==
    /\ At(a, {"upload", "import"}, "commit")
    /\ Commits(a, [i \in Images |-> IF i = task[a].id THEN task[a].new
                                    ELSE IF i \in task[a].gone THEN None ELSE images[i]], None)
    /\ UNCHANGED ref
\* An image without a row any more: nothing is written. The name a rename
\* invalidates is the one it looked up first; a deletion's comes from its
\* transaction.
WithRefs(a) ==
    LET t == task[a]
        now == images[t.id]
    IN
    /\ now # None
    /\ IF t.op = "rename" THEN Commits(a, [images EXCEPT ![t.id] = t.new], t.old)
                          ELSE Commits(a, [images EXCEPT ![t.id] = None], now)
    /\ ref' = [s \in Spots |-> IF Row(s) \in t.hit THEN t.ref[s] ELSE ref[s]]
Gone(a) ==
    /\ images[task[a].id] = None /\ Goes(a, Idle)
    /\ UNCHANGED <<images, uploaded, ref, digest, request, raced, edits>>
rename_with_refs(a) == /\ At(a, {"rename"}, "commit") /\ ~Locked(task[a].id)
                       /\ WithRefs(a) \/ Gone(a)
delete_with_refs(a) == /\ At(a, {"delete"}, "commit") /\ ~Locked(task[a].id)
                       /\ WithRefs(a) \/ Gone(a)

invalidate_thumb_New(t) == [n \in Names |-> IF n = t.new THEN None ELSE digest[n]]
invalidate_thumb(t) == [n \in Names |-> IF n \in Moved(t) THEN None ELSE digest[n]]
Invalidate(a) ==
    /\ task[a].at = "invalidate" /\ Goes(a, Idle)
    /\ digest' = invalidate_thumb(task[a]) /\ raced' = raced \ Moved(task[a])
    /\ UNCHANGED <<images, uploaded, ref, request, edits>>

-----------------------------------------------------------------------------
(* The editors of the rows, and the requests for the files *)

\* A save of a catalog entry or of the landing page, with one slot changed.
EditRow(s) ==
    /\ edits < MaxEdits /\ edits' = edits + 1
    /\ \E n \in Names \cup {None} : ref' = [ref EXCEPT ![s] = n]
    /\ task' = [a \in Admins |-> Disturbed(a, {Row(s)})]
    /\ UNCHANGED <<images, uploaded, digest, request, raced>>

\* A cold digest: the bytes are read, then hashed and remembered.
Fetch(r, i) ==
    /\ request[r] = None /\ images[i] # None
    /\ request' = [request EXCEPT ![r] = [name |-> images[i], id |-> i, late |-> FALSE]]
    /\ UNCHANGED <<images, uploaded, ref, task, digest, raced, edits>>
Remember(r) ==
    LET asked == request[r] IN
    /\ asked # None /\ digest' = [digest EXCEPT ![asked.name] = asked.id]
    /\ raced' = IF asked.late THEN raced \cup {asked.name} ELSE raced \ {asked.name}
    /\ request' = [request EXCEPT ![r] = None]
    /\ UNCHANGED <<images, uploaded, ref, task, edits>>

Next ==
    \/ \E a \in Admins :
         \/ Upload(a) \/ Import(a) \/ unique_filename(a) \/ InsertDeletes(a) \/ insert(a)
         \/ RenameTaken(a) \/ ReadSpecs(a) \/ ReadLanding(a) \/ RenameBegins(a)
         \/ rename_with_refs(a) \/ delete_with_refs(a) \/ Invalidate(a)
         \/ \E i \in Images : Lookup(a, i)
    \/ \E s \in Spots : EditRow(s)
    \/ \E r \in Requests : Remember(r) \/ \E i \in Images : Fetch(r, i)

Spec == Init /\ [][Next]_vars

-----------------------------------------------------------------------------
\* Renaming or deleting a file leaves no slot that resolved dangling, and
\* changes none but those that named the file, whatever else runs. Two ways
\* out: a row saved, or an image moved, between the handler's first look and
\* its commit; and a slot that names a file whose longer name has the file's
\* as its prefix, which is rewritten with the others and may dangle (rename,
\* delete, references_image, rename_with_refs, delete_with_refs).
RefsFollow ==
    [][\A a \in Admins :
         (rename_with_refs(a) \/ delete_with_refs(a)) /\ "images" \notin task[a].dirty =>
           \A s \in Spots :
             Row(s) \notin task[a].dirty =>
               \/ Longer(ref[s], task[a].old)
               \/ /\ Resolves(ref[s]) => Resolves(ref[s])'
                  /\ ref'[s] # ref[s] => ref[s] = task[a].old]_vars

\* A remembered digest is that of a file now under its name, unless a
\* handler here has yet to invalidate it, or the bytes moved between a
\* request's reading and its remembering, or the image was renamed under a
\* rename, or it was moved by an import, by another node or by a handler that
\* ended with its commit (invalidate_thumb, serve_card_image).
DigestsExplained ==
    \A n \in Names : digest[n] # None =>
        \/ images[digest[n]] = n \/ n \in raced
        \/ \E a \in Admins : task[a].at = "invalidate" /\ n \in Moved(task[a])
=============================================================================
