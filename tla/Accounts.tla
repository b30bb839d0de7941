------------------------------ MODULE Accounts ------------------------------
(***************************************************************************)
(* The accounts behind the admin panel: the users table, the panel's login *)
(* sessions (in-memory store), the forced-password-change gate, the scope  *)
(* an editor acts in, and the identity cache the proxy reads groups from.  *)
(* The login limiter is in Limiters.                                       *)
(*                                                                         *)
(* Every handler is a task that reads first (session, own groups, target   *)
(* row, number of admins), writes the table in one transaction later, and  *)
(* only then revokes the account's sessions and invalidates the identity   *)
(* cache. Each of the steps is a moment at which other handlers run, and   *)
(* at each the handler may end: a statement fails, a commit is reported as *)
(* failed, or the client is gone and the server drops the handler.         *)
(***************************************************************************)
EXTENDS Naturals, FiniteSets

CONSTANTS
    Users, Groups,
    Sids,          \* session ids, minted once each
    Reqs,          \* requests that can be in flight at a time
    Boot,          \* states to start from: [row, sess, gate]
    NewRoles,      \* roles the forms ask for
    NewGroups,     \* and sets of groups
    MaxRequests,   \* bound on requests, rows of an import included
    NoUser         \* the actor of a break-glass token session

VARIABLES
    row,       \* users: [here, role, groups, must, pw], pw counts passwords
    sess,      \* admin_sessions: [st, actor, role, pw, excused]
    gate,      \* MUST_CHANGE_CACHE, by session id
    idgen,     \* generation of the identity cache
    idcache,   \* its entries: [gen, groups], gen = 0 is no entry
    lost,      \* history: users whose outdated entry nobody is to invalidate
    task,      \* the handler each request stands in
    asked      \* requests so far

vars == <<row, sess, gate, idgen, idcache, lost, task, asked>>

Roles    == {"viewer", "editor", "admin"}
Row      == [here : BOOLEAN, role : Roles, groups : SUBSET Groups,
             must : BOOLEAN, pw : Nat]
Session  == [st : {"unused", "live", "dead"}, actor : Users \cup {NoUser},
             role : Roles, pw : Nat, excused : BOOLEAN]
Scope    == [actor : Users \cup {NoUser}, role : Roles, groups : SUBSET Groups]
Pcs      == {"idle", "verified", "setup", "resession", "password",
             "renew", "gate", "fill", "save_edit", "set_profile", "set_groups",
             "set_role", "reset_password", "delete", "create", "import",
             "rollback", "memberships", "rewrite", "revoke", "revoke_invalidate",
             "invalidate"}
NoScope  == [actor |-> NoUser, role |-> "viewer", groups |-> {}]
NoRow    == [here |-> FALSE, role |-> "viewer", groups |-> {}, must |-> FALSE,
             pw |-> 0]

TypeOK ==
    /\ row \in [Users -> Row]
    /\ sess \in [Sids -> Session]
    /\ gate \in [Sids -> {"none", "must", "free"}]
    /\ idgen \in Nat /\ asked \in 0..MaxRequests /\ lost \subseteq Users
    /\ \A u \in Users : idcache[u].gen \in 0..idgen
                        /\ idcache[u].groups \subseteq Groups
    /\ \A r \in Reqs : /\ task[r].pc \in Pcs /\ task[r].scope \in Scope
                       /\ task[r].who \in Users \cup {NoUser}
                       /\ task[r].seen \in Row
                       /\ task[r].todo \subseteq Users \X (SUBSET Groups)

----------------------------------------------------------------------------
(***************************************************************************)
(* Roles, scopes and the questions handlers ask the table.                 *)
(***************************************************************************)
Live(s)       == sess[s].st = "live"
Accounts      == {u \in Users : row[u].here}
Admins        == {u \in Accounts : row[u].role = "admin"}
AnyAdminExists == Admins # {}

\* EditorScope: an admin is unscoped; anybody else acts within the groups of
\* its own row, which a token session or a deleted account does not have.
FromEditor(s) ==
    LET u == sess[s].actor IN
    [actor |-> u, role |-> sess[s].role,
     groups |-> IF sess[s].role # "admin" /\ u \in Accounts
                THEN row[u].groups ELSE {}]
Unscoped(sc) == sc.role = "admin"
Kept(sc) == IF Unscoped(sc) THEN NoScope ELSE sc

MayTouchGroup(sc, g)   == Unscoped(sc) \/ g \in sc.groups
MayTouchUser(sc, u, ro) ==
    \/ Unscoped(sc)
    \/ ro.role # "admin" /\ ro.groups \cap sc.groups # {}
MayAssignGroups(sc, gs) == Unscoped(sc) \/ gs \subseteq sc.groups
MayAssignRole(sc, role) == Unscoped(sc) \/ role \in {"viewer", "editor"}
MergePreserving(sc, existing, requested) ==
    IF Unscoped(sc) THEN requested
    ELSE (existing \ sc.groups) \cup (requested \cap sc.groups)

\* The WHERE clause of the users page: an editor lists the non-admins that
\* share a group with it, and nobody when it has no group.
Visible(sc) ==
    IF Unscoped(sc) THEN Accounts
    ELSE {u \in Accounts : row[u].role # "admin"
                           /\ \E g \in sc.groups : g \in row[u].groups}

ScopedTarget(sc, u) == u \in Accounts /\ MayTouchUser(sc, u, row[u])
ScopedSelfEdit(sc, u) == ~Unscoped(sc) /\ sc.actor = u
WouldStripLastAdmin(u, role) ==
    u \in Admins /\ role # "admin" /\ Cardinality(Admins) <= 1

\* Who passes the extractors: the forced-change middleware first, then a
\* session that is still valid, then its role.
AdminSession(s)  == gate[s] = "free" /\ Live(s)
RequireEditor(s) == AdminSession(s) /\ sess[s].role \in {"editor", "admin"}
RequireAdmin(s)  == AdminSession(s) /\ sess[s].role = "admin"

\* What the pages show: the listing, the export of everybody that only an
\* admin gets, and the groups of the edit form that can be ticked or not.
Index(s)     == IF RequireEditor(s) THEN Visible(FromEditor(s)) ELSE {}
ExportCsv(s) == IF RequireAdmin(s) THEN Accounts ELSE {}
EditPage(sc, u) == [editable |-> MergePreserving(sc, {}, row[u].groups),
                    readonly |-> MergePreserving(sc, row[u].groups, {})]

----------------------------------------------------------------------------
(***************************************************************************)
(* Statements on the table, one transaction each. A statement that fails,  *)
(* or that finds no row to change, ends its handler (Abandon), and so does *)
(* one that was committed and is reported as failed. One that would leave  *)
(* no admin is refused by the statement itself, whatever its handler       *)
(* looked up before.                                                       *)
(***************************************************************************)
Insert(u, role, must, gs) ==
    /\ ~row[u].here
    /\ row' = [row EXCEPT ![u] = [here |-> TRUE, role |-> role, groups |-> gs,
                                  must |-> must, pw |-> @.pw + 1]]
SetPassword(u, must) ==
    /\ row[u].here
    /\ row' = [row EXCEPT ![u].must = must, ![u].pw = @ + 1]
LeavesAnAdmin_Unchecked(u, role) == TRUE
LeavesAnAdmin(u, role) ==
    row[u].role # "admin" \/ role = "admin" \/ Cardinality(Admins) > 1
UpdateAccount(u, role, gs) ==
    /\ row[u].here /\ LeavesAnAdmin(u, role)
    /\ row' = [row EXCEPT ![u].role = role, ![u].groups = gs]
SetRoleOf(u, role) ==
    /\ row[u].here /\ LeavesAnAdmin(u, role)
    /\ row' = [row EXCEPT ![u].role = role]
SetGroupsOf(u, gs) == row[u].here /\ row' = [row EXCEPT ![u].groups = gs]
UpdateProfile(u)   == row[u].here /\ UNCHANGED row
DeleteAccount(u) ==
    /\ row[u].here /\ LeavesAnAdmin(u, "viewer")
    /\ row' = [row EXCEPT ![u] = [NoRow EXCEPT !.pw = row[u].pw]]

----------------------------------------------------------------------------
(***************************************************************************)
(* Sessions. A session is stale when its account is gone or has another    *)
(* role or another password than the one it was opened with.               *)
(***************************************************************************)
Matches(role, pw, ro) == ro.here /\ ro.role = role /\ ro.pw = pw
Stale(s) ==
    /\ Live(s) /\ sess[s].actor # NoUser
    /\ ~Matches(sess[s].role, sess[s].pw, row[sess[s].actor])

\* The new session is excused when the account changed between the moment
\* the handler read it and now: nobody will revoke this session.
CreateSession(left, role, u, pw) ==
    \E s \in Sids :
        /\ left[s].st = "unused"
        /\ sess' = [left EXCEPT ![s] =
                [st |-> "live", actor |-> u, role |-> role, pw |-> pw,
                 excused |-> u # NoUser /\ ~Matches(role, pw, row[u])]]
Ended(which(_)) ==
    [s \in Sids |-> IF Live(s) /\ which(s) THEN [sess[s] EXCEPT !.st = "dead"]
                    ELSE sess[s]]
RevokeByActor(u) == Ended(LAMBDA s : sess[s].actor = u)
Excuse(u) == [s \in Sids |-> IF Live(s) /\ sess[s].actor = u
                             THEN [sess[s] EXCEPT !.excused = TRUE] ELSE sess[s]]

Idle    == [pc |-> "idle", scope |-> NoScope, who |-> NoUser, seen |-> NoRow,
            role |-> "viewer", groups |-> {}, todo |-> {}, sid |-> NoUser,
            gen |-> 0]
At(r, pc)    == task[r].pc = pc
Goto(r, pc)  == task' = [task EXCEPT ![r] = [Idle EXCEPT !.pc = pc, !.who = task[r].who]]
Ask          == asked < MaxRequests /\ asked' = asked + 1
Free(r)      == At(r, "idle") /\ asked < MaxRequests
Begin(r, t)  == Free(r) /\ Ask /\ task' = [task EXCEPT ![r] = t]
Finish(r)    == task' = [task EXCEPT ![r] = Idle]

identity == <<idgen, idcache, lost>>
Reading  == UNCHANGED <<row, sess, gate, identity>>
Writing  == {"setup", "password", "save_edit", "set_profile", "set_groups",
             "set_role", "reset_password", "delete", "create", "memberships"}
Revoking == {"revoke", "revoke_invalidate", "renew"}
Clearing == {"invalidate", "revoke_invalidate", "rewrite", "import", "rollback"}

\* Whose entry, stored or about to be, has a group that was taken away.
Servable(u) == idcache[u].gen = idgen
Outdated ==
    {u \in Users : Servable(u) /\ ~(idcache[u].groups \subseteq row[u].groups)}
    \cup {task[q].who : q \in {p \in Reqs : /\ At(p, "fill") /\ task[p].gen = idgen
                                            /\ ~(task[p].seen.groups \subseteq
                                                   row[task[p].who].groups)}}

\* The handler ends where it stands: its statement failed or was refused, its
\* commit is reported as failed, or the client has gone. What it would still
\* have revoked and invalidated stays as it is.
Abandon(r) ==
    /\ ~At(r, "idle") /\ Finish(r)
    /\ sess' = IF task[r].pc \in Revoking THEN Excuse(task[r].who) ELSE sess
    /\ lost' = IF task[r].pc \in Clearing THEN lost \cup Outdated ELSE lost
    /\ UNCHANGED <<row, gate, idgen, idcache, asked>>

----------------------------------------------------------------------------
(***************************************************************************)
(* Signing in and out.                                                     *)
(***************************************************************************)
\* A wrong password, or a failed lookup, ends a request at once; the right one
\* is checked against the row as it is.
VerifyLogin(u) == row[u].here

LoginSubmit(r) ==
    \/ Free(r) /\ \E u \in Users :
        /\ VerifyLogin(u)
        /\ Begin(r, [Idle EXCEPT !.pc = "verified", !.who = u,
                        !.seen = [NoRow EXCEPT !.role = row[u].role,
                                               !.pw = row[u].pw]])
        /\ Reading
    \/ /\ At(r, "verified")
       /\ CreateSession(sess, task[r].seen.role, task[r].who, task[r].seen.pw)
       /\ Finish(r) /\ UNCHANGED <<row, asked, gate, identity>>

\* The break-glass token: no account behind the session.
TokenLogin(r) ==
    /\ At(r, "idle") /\ Ask /\ CreateSession(sess, "admin", NoUser, 0)
    /\ UNCHANGED <<row, gate, identity, task>>

SetupSubmit(r) ==
    \/ Free(r) /\ \E s \in Sids, u \in Users :
        /\ Live(s) /\ sess[s].role = "admin" /\ ~AnyAdminExists
        /\ Begin(r, [Idle EXCEPT !.pc = "setup", !.who = u, !.sid = s])
        /\ Reading
    \/ /\ At(r, "setup") /\ Insert(task[r].who, "admin", FALSE, {})
       /\ task' = [task EXCEPT ![r].pc = "resession",
                               ![r].seen.pw = row'[task[r].who].pw]
       /\ UNCHANGED <<sess, gate, identity, asked>>
    \/ /\ At(r, "resession")
       /\ CreateSession(Ended(LAMBDA s : s = task[r].sid), "admin",
                        task[r].who, task[r].seen.pw)
       /\ Finish(r) /\ UNCHANGED <<row, asked, gate, identity>>

\* The new session keeps the role its request was authorised with.
PasswordSubmit(r) ==
    \/ Free(r) /\ \E s \in Sids : LET u == sess[s].actor IN
        /\ Live(s) /\ u # NoUser /\ VerifyLogin(u)
        /\ Begin(r, [Idle EXCEPT !.pc = "password", !.who = u,
                                 !.role = sess[s].role])
        /\ Reading
    \/ /\ At(r, "password") /\ SetPassword(task[r].who, FALSE)
       /\ task' = [task EXCEPT ![r].pc = "renew",
                               ![r].seen.pw = row'[task[r].who].pw]
       /\ UNCHANGED <<sess, gate, identity, asked>>
    \/ /\ At(r, "renew")
       /\ CreateSession(RevokeByActor(task[r].who), task[r].role,
                        task[r].who, task[r].seen.pw)
       /\ Finish(r) /\ UNCHANGED <<row, asked, gate, identity>>

\* Signing out; or the session's lifetime ended and validate drops the entry.
Logout(s) ==
    /\ Live(s) /\ Ask /\ sess' = Ended(LAMBDA x : x = s)
    /\ UNCHANGED <<row, gate, identity, task>>


\* must_change_password_guard: the answer is cached by session id until its
\* lifetime ends; a token session and an account that is gone have nothing to
\* change.
MustChangeGuard(r) ==
    \/ Free(r) /\ \E s \in Sids : LET u == sess[s].actor IN
        /\ Live(s)
        /\ Begin(r, [Idle EXCEPT !.pc = "gate", !.sid = s,
                        !.seen.must = u # NoUser /\ row[u].must])
        /\ Reading
    \/ /\ At(r, "gate")
       /\ gate' = [gate EXCEPT ![task[r].sid] =
                       IF task[r].seen.must THEN "must" ELSE "free"]
       /\ Finish(r) /\ UNCHANGED <<row, asked, sess, identity>>

----------------------------------------------------------------------------
(***************************************************************************)
(* The identity cache: the generation is read before the row, and an entry *)
(* is served only under the generation it was filled with, and refilled   *)
(* when it is missing or too old.                                          *)
(***************************************************************************)
StoreIdentity_Current(r) ==
    idcache' = [idcache EXCEPT ![task[r].who] =
                    [gen |-> idgen, groups |-> task[r].seen.groups]]
StoreIdentity(r) ==
    idcache' = [idcache EXCEPT ![task[r].who] =
                    [gen |-> task[r].gen, groups |-> task[r].seen.groups]]

ResolveIdentity(r) ==
    \/ Free(r) /\ \E s \in Sids : LET u == sess[s].actor IN
        /\ Live(s) /\ u # NoUser
        /\ Begin(r, [Idle EXCEPT !.pc = "fill", !.who = u, !.gen = idgen,
                                 !.seen.groups = row[u].groups])
        /\ Reading
    \/ /\ At(r, "fill") /\ StoreIdentity(r) /\ Finish(r)
       /\ UNCHANGED <<row, asked, sess, gate, idgen, lost>>

InvalidateIdentity ==
    /\ idgen' = idgen + 1 /\ lost' = {}
    /\ idcache' = [u \in Users |-> [gen |-> 0, groups |-> {}]]

\* The tails of the handlers below.
Revoke_Skipped(r) ==
    /\ task[r].pc \in {"revoke", "revoke_invalidate"} /\ UNCHANGED sess
    /\ IF At(r, "revoke") THEN Finish(r) ELSE Goto(r, "invalidate")
    /\ UNCHANGED <<row, asked, gate, identity>>
Revoke(r) ==
    /\ task[r].pc \in {"revoke", "revoke_invalidate"}
    /\ sess' = RevokeByActor(task[r].who)
    /\ IF At(r, "revoke") THEN Finish(r) ELSE Goto(r, "invalidate")
    /\ UNCHANGED <<row, asked, gate, identity>>
Invalidate(r) ==
    /\ At(r, "invalidate") /\ InvalidateIdentity /\ Finish(r)
    /\ UNCHANGED <<row, asked, sess, gate>>

----------------------------------------------------------------------------
(***************************************************************************)
(* The users page. A handler starts with its reads (Scoped): session, own  *)
(* groups and target, then its own conditions; it commits in a later step. *)
(***************************************************************************)
Scoped(r, s, u, t) ==
    LET sc == FromEditor(s) IN
    /\ RequireEditor(s) /\ ScopedTarget(sc, u)
    /\ Begin(r, [t EXCEPT !.scope = Kept(sc), !.who = u,
                          !.seen.role = row[u].role, !.seen.groups = row[u].groups])
    /\ Reading
Committed == UNCHANGED <<sess, gate, identity, asked>>

SaveEdit(r) ==
    \/ Free(r) /\ \E s \in Sids, u \in Users, role \in NewRoles, gs \in NewGroups :
        LET sc == FromEditor(s) IN
        /\ ~ScopedSelfEdit(sc, u)
        /\ MayAssignRole(sc, role) /\ ~WouldStripLastAdmin(u, role)
        /\ MayAssignGroups(sc, gs)
        /\ Scoped(r, s, u, [Idle EXCEPT !.pc = "save_edit", !.role = role,
                               !.groups = MergePreserving(sc, row[u].groups, gs)])
    \/ LET u == task[r].who
           judged == task[r].seen.role # task[r].role IN
       /\ At(r, "save_edit") /\ UpdateAccount(u, task[r].role, task[r].groups)
       /\ Goto(r, IF judged THEN "revoke_invalidate" ELSE "invalidate")
       \* the decision to revoke rests on the role as it was read
       /\ sess' = IF row[u].role # task[r].seen.role THEN Excuse(u) ELSE sess
       /\ UNCHANGED <<gate, identity, asked>>

SetProfile(r) ==
    \/ Free(r) /\ \E s \in Sids, u \in Users :
        Scoped(r, s, u, [Idle EXCEPT !.pc = "set_profile"])
    \/ /\ At(r, "set_profile") /\ UpdateProfile(task[r].who)
       /\ Goto(r, "invalidate") /\ Committed

SetGroups(r) ==
    \/ Free(r) /\ \E s \in Sids, u \in Users, gs \in NewGroups :
        LET sc == FromEditor(s) IN
        /\ ~ScopedSelfEdit(sc, u) /\ MayAssignGroups(sc, gs)
        /\ Scoped(r, s, u, [Idle EXCEPT !.pc = "set_groups",
                               !.groups = MergePreserving(sc, row[u].groups, gs)])
    \/ /\ At(r, "set_groups") /\ SetGroupsOf(task[r].who, task[r].groups)
       /\ Goto(r, "invalidate") /\ Committed

SetRole(r) ==
    \/ Free(r) /\ \E s \in Sids, u \in Users, role \in NewRoles :
        LET sc == FromEditor(s) IN
        /\ ~ScopedSelfEdit(sc, u)
        /\ MayAssignRole(sc, role) /\ ~WouldStripLastAdmin(u, role)
        /\ Scoped(r, s, u, [Idle EXCEPT !.pc = "set_role", !.role = role])
    \/ /\ At(r, "set_role") /\ SetRoleOf(task[r].who, task[r].role)
       /\ Goto(r, "revoke") /\ Committed

ResetPassword(r) ==
    \/ Free(r) /\ \E s \in Sids, u \in Users :
        /\ ~ScopedSelfEdit(FromEditor(s), u)
        /\ Scoped(r, s, u, [Idle EXCEPT !.pc = "reset_password"])
    \/ /\ At(r, "reset_password") /\ SetPassword(task[r].who, TRUE)
       /\ Goto(r, "revoke") /\ Committed

Delete(r) ==
    \/ Free(r) /\ \E s \in Sids, u \in Users :
        /\ RequireAdmin(s) /\ u \in Accounts /\ ~WouldStripLastAdmin(u, "viewer")
        /\ Begin(r, [Idle EXCEPT !.pc = "delete", !.who = u])
        /\ Reading
    \/ /\ At(r, "delete") /\ DeleteAccount(task[r].who)
       /\ Goto(r, "revoke_invalidate") /\ Committed

Create(r) ==
    \/ Free(r) /\ \E s \in Sids, u \in Users, role \in NewRoles, gs \in NewGroups :
        LET sc == FromEditor(s) IN
        /\ RequireEditor(s)
        /\ MayAssignRole(sc, role) /\ MayAssignGroups(sc, gs)
        /\ ~Unscoped(sc) => gs # {}
        /\ Begin(r, [Idle EXCEPT !.pc = "create", !.who = u, !.role = role,
                                 !.groups = gs, !.scope = Kept(sc)])
        /\ Reading
    \/ /\ At(r, "create")
       /\ Insert(task[r].who, task[r].role, TRUE, task[r].groups)
       /\ Finish(r) /\ Committed

\* Rows of the CSV file one by one; a row whose profile cannot be written is
\* taken out again, and nobody revokes what the account did meanwhile.
ImportConfirm(r) ==
    \/ Free(r) /\ \E s \in Sids :
        /\ RequireAdmin(s)
        /\ Begin(r, [Idle EXCEPT !.pc = "import"])
        /\ Reading
    \/ At(r, "import") /\ \E u \in Users, role \in NewRoles, gs \in NewGroups, profile \in BOOLEAN :
        /\ Ask /\ Insert(u, role, TRUE, gs)
        /\ task' = [task EXCEPT ![r].pc = IF profile THEN "import" ELSE "rollback",
                                ![r].who = u]
        /\ UNCHANGED <<sess, gate, identity>>
    \/ /\ At(r, "rollback") /\ DeleteAccount(task[r].who)
       /\ sess' = Excuse(task[r].who)
       /\ Goto(r, "import") /\ UNCHANGED <<gate, identity, asked>>
    \/ /\ At(r, "rollback")
       /\ Goto(r, "import") /\ UNCHANGED row /\ Committed
    \/ /\ At(r, "import")
       /\ Goto(r, "invalidate") /\ UNCHANGED row /\ Committed

----------------------------------------------------------------------------
(***************************************************************************)
(* The groups page. Membership edits read the user's groups and write the  *)
(* whole list back (save_memberships); a rename or removal walks a listing *)
(* of all users.                                                           *)
(***************************************************************************)
Membership(r, sc, u, gs) ==
    /\ Begin(r, [Idle EXCEPT !.pc = "memberships", !.scope = Kept(sc),
                !.who = u, !.seen.groups = row[u].groups, !.groups = gs])
    /\ Reading

CreateGroup(r) ==
    Free(r) /\ \E s \in Sids, u \in Accounts, g \in UNION NewGroups :
        /\ RequireAdmin(s)
        /\ Membership(r, FromEditor(s), u, row[u].groups \cup {g})

AddMember(r) ==
    Free(r) /\ \E s \in Sids, u \in Accounts, g \in UNION NewGroups :
        LET sc == FromEditor(s)
            held == {x \in row[u].groups : MayTouchGroup(sc, x)}
            gs == MergePreserving(sc, row[u].groups, held \cup {g}) IN
        /\ RequireEditor(s) /\ MayTouchGroup(sc, g)
        /\ MayTouchUser(sc, u, [row[u] EXCEPT !.groups = gs])
        /\ Membership(r, sc, u, gs)

RemoveMember(r) ==
    Free(r) /\ \E s \in Sids, u \in Accounts, g \in UNION NewGroups :
        LET sc == FromEditor(s)
            held == {x \in row[u].groups : x # g /\ MayTouchGroup(sc, x)} IN
        /\ RequireEditor(s) /\ MayTouchGroup(sc, g)
        /\ MayTouchUser(sc, u, row[u])
        /\ Membership(r, sc, u, MergePreserving(sc, row[u].groups, held))

SaveMemberships(r) ==
    /\ At(r, "memberships") /\ SetGroupsOf(task[r].who, task[r].groups)
    /\ Goto(r, "invalidate") /\ Committed

\* to = {} deletes the group, to = {n} renames it to n.
RewriteGroup(r) ==
    \/ Free(r) /\ \E s \in Sids, g \in UNION NewGroups, to \in {{}} \cup {{n} : n \in Groups} :
        /\ RequireAdmin(s) /\ g \notin to
        /\ Begin(r, [Idle EXCEPT !.pc = "rewrite",
                !.todo = {<<u, (row[u].groups \ {g}) \cup to>> :
                             u \in {v \in Accounts : g \in row[v].groups}}])
        /\ Reading
    \/ \E m \in task[r].todo :
        /\ At(r, "rewrite")
        /\ \/ SetGroupsOf(m[1], m[2])
           \/ UNCHANGED row
        /\ task' = [task EXCEPT ![r].todo = @ \ {m}] /\ Committed
    \/ /\ At(r, "rewrite") /\ task[r].todo = {}
       /\ Goto(r, "invalidate") /\ UNCHANGED row /\ Committed

----------------------------------------------------------------------------
Init ==
    /\ \E b \in Boot : row = b.row /\ sess = b.sess /\ gate = b.gate
    /\ idgen = 1 /\ asked = 0 /\ lost = {}
    /\ idcache = [u \in Users |-> [gen |-> 0, groups |-> {}]]
    /\ task = [r \in Reqs |-> Idle]

SignIn(r) == \/ LoginSubmit(r) \/ TokenLogin(r) \/ SetupSubmit(r)
             \/ PasswordSubmit(r) \/ MustChangeGuard(r) \/ ResolveIdentity(r)
UsersPage(r) == \/ SaveEdit(r) \/ SetProfile(r) \/ SetGroups(r) \/ SetRole(r)
                \/ ResetPassword(r) \/ Delete(r) \/ Create(r) \/ ImportConfirm(r)
GroupsPage(r) == \/ CreateGroup(r) \/ AddMember(r) \/ RemoveMember(r)
                 \/ SaveMemberships(r) \/ RewriteGroup(r)
Tail(r) == Revoke(r) \/ Invalidate(r) \/ Abandon(r)

Next ==
    \/ \E r \in Reqs : SignIn(r) \/ UsersPage(r) \/ GroupsPage(r) \/ Tail(r)
    \/ \E s \in Sids : Logout(s)

Spec == Init /\ [][Next]_vars

----------------------------------------------------------------------------
\* The users page, its export and its edit form agree with the handlers: an
\* editor lists exactly the accounts its handlers let it open, nobody exports
\* another, and a form saved as it was shown asks for groups the editor may
\* assign and leaves the account's groups as they are.
PagesMatchHandlers == \A s \in {x \in Sids : RequireEditor(x)} :
    LET sc == FromEditor(s) IN
    /\ Index(s) = {u \in Users : ScopedTarget(sc, u)}
    /\ ExportCsv(s) \subseteq Index(s)
    /\ \A u \in Index(s) :
        /\ MayAssignGroups(sc, EditPage(sc, u).editable)
        /\ MergePreserving(sc, row[u].groups, EditPage(sc, u).editable) = row[u].groups

\* A write by a scoped editor makes nobody an admin, and leaves the target's
\* groups outside the editor's own as the editor's request had read them.
EditorsStayInScope == \A r \in Reqs :
    LET t == task[r] IN
    t.pc \in Writing /\ t.scope.role = "editor" /\ row' # row /\ task'[r] # t
        => /\ row'[t.who].role = "admin" => row[t.who].role = "admin"
           /\ row'[t.who].groups \ t.scope.groups = t.seen.groups \ t.scope.groups
              \/ t.pc \in {"reset_password", "set_role"}

\* Demotions, edits and deletions that run concurrently, each having seen
\* another admin, never leave the panel without one: once an admin account
\* exists there is always one (update_account, set_role and delete re-check
\* inside their statement). Editors stay within their scope, and their pages
\* show what their handlers allow.
RolesGuarded == [][/\ AnyAdminExists => AnyAdminExists'
                   /\ EditorsStayInScope /\ PagesMatchHandlers]_vars

RevokePending(u) == \E r \in Reqs : task[r].who = u /\ task[r].pc \in Revoking

\* A session that outlives a change of its account's role or password, or its
\* deletion, is one a handler is still about to revoke, or one of four races:
\* it was opened from a row read before the change, save_edit judged from a
\* role that had changed, an import took its account back, or the handler
\* ended between its commit and its revocation (the client gone, the commit
\* reported as failed). And the cached answer of the forced-change gate is
\* never stale for a session that matches its account: nobody passes on an
\* answer from before a reset, and nobody stays locked in after choosing a
\* new password.
SessionsExplained ==
    /\ \A s \in Sids : Stale(s) => sess[s].excused \/ RevokePending(sess[s].actor)
    /\ \A s \in Sids :
        Live(s) /\ sess[s].actor # NoUser /\ ~sess[s].excused /\ gate[s] # "none"
        /\ ~RevokePending(sess[s].actor)
            => (gate[s] = "must") = row[sess[s].actor].must

\* A group taken from a user is not served from the identity cache once the
\* handler that took it is through, even when the entry was filled from a read
\* that overlapped the change: an entry is never of a later generation. The
\* exception is a handler that ended between its commit and its invalidation:
\* an entry outdated at that moment is served until the next invalidation, or
\* until it is too old.
NoRevokedGroupServed ==
    /\ TypeOK
    /\ \A u \in Users :
        Servable(u) /\ ~(idcache[u].groups \subseteq row[u].groups)
            => u \in lost \/ \E r \in Reqs : task[r].pc \in Clearing
====
