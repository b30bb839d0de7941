------------------------------ MODULE Identity ------------------------------
(***************************************************************************)
(* What tells who somebody is: the accounts and their panel sessions, the  *)
(* second factor, and the sign-in sessions that several nodes share. They  *)
(* share no state with each other, so a behaviour is about one of them,    *)
(* its subject; the others stay in an initial state.                       *)
(***************************************************************************)
EXTENDS Integers, SharedLogins

CONSTANTS
    Reqs,                             \* requests in flight, on either page
    \* the accounts and the panel
    Users, Groups, PanelSids, PanelBoot, NewRoles, NewGroups, MaxPanelRequests,
    \* the second factor
    FactorUsers, Browsers, LoginSids, Of, BrowserOf, CodesPerSet, Days, FactorBoot, MaxStep,
    MaxFactorRequests,
    Quiet                             \* the users of a behaviour about others

VARIABLE subject

VARIABLES users, sess, gate, idgen, idcache, lost, accountTask, accountAsked
A == INSTANCE Accounts WITH
       Sids <- PanelSids, Boot <- PanelBoot, MaxRequests <- MaxPanelRequests, NoUser <- None,
       row <- users, task <- accountTask, asked <- accountAsked
accountsVars == <<users, sess, gate, idgen, idcache, lost, accountTask, accountAsked>>

VARIABLES fac, codes, grant, device, ceremony, step, factorTask, minted, era, earned, factorAsked
F == INSTANCE SecondFactor WITH
       Users <- FactorUsers, Sids <- LoginSids, At <- BrowserOf, Boot <- FactorBoot,
       MaxRequests <- MaxFactorRequests,
       now <- step, task <- factorTask, asked <- factorAsked
factorVars == <<fac, codes, grant, device, ceremony, step, factorTask, minted, era, earned,
                factorAsked>>

(* A factor that is there at boot has a secret of its own, was confirmed     *)
(* with it and has its set of codes, none of them used yet.                  *)
FactorRows == [st : {"none", "pending", "confirmed"}, secret : Nat, gen : Nat,
               last : 0..MaxStep + 1, epoch : Nat, proven : Nat]
ASSUME FactorAssumption ==
    /\ {CodesPerSet, MaxStep, MaxFactorRequests} \subseteq Nat /\ MaxStep # 0
    /\ LoginSids # {}
    /\ Of \in [LoginSids -> FactorUsers] /\ BrowserOf \in [LoginSids -> Browsers]
    /\ \A b \in FactorBoot :
         /\ b.minted \in Nat /\ b.fac \in [FactorUsers -> FactorRows]
         /\ b.codes \in [FactorUsers -> [gen : 0..b.minted, used : {{}}]]
         /\ \A u \in FactorUsers :
              /\ b.fac[u].secret <= b.minted
              /\ IF b.fac[u].st = "none" THEN b.fac[u] = F!NoFactor ELSE b.fac[u].secret # 0
              /\ IF b.fac[u].st = "confirmed"
                 THEN /\ b.fac[u].proven = b.fac[u].secret
                      /\ b.codes[u].gen = b.fac[u].gen /\ b.fac[u].gen # 0
                 ELSE b.codes[u] = F!NoCodes
         /\ \A u, v \in FactorUsers :
              u # v => /\ b.fac[u].secret = b.fac[v].secret => b.fac[u].secret = 0
                       /\ b.codes[u].gen = b.codes[v].gen => b.codes[u].gen = 0

(* At boot everybody who is signed in is an account as it was when they      *)
(* signed in, and the gate has an answer for sessions only.                  *)
ASSUME PanelAssumption ==
    /\ MaxPanelRequests \in Nat
    /\ NewRoles \subseteq A!Roles /\ NewGroups \subseteq SUBSET Groups
    /\ \A b \in PanelBoot :
         /\ b.row \in [Users -> A!Row] /\ b.sess \in [PanelSids -> A!Session]
         /\ b.gate \in [PanelSids -> {"none", "must", "free"}]
         /\ \A u \in Users : ~b.row[u].here => b.row[u].groups = {}
         /\ \A s \in PanelSids :
              /\ b.sess[s].st = "unused" => b.gate[s] = "none"
              /\ b.sess[s].st = "live" /\ b.sess[s].actor # None =>
                   /\ A!Matches(b.sess[s].role, b.sess[s].pw, b.row[b.sess[s].actor])
                   /\ b.gate[s] # "none" =>
                        (b.gate[s] = "must" <=> b.row[b.sess[s].actor].must)

(* The shared logins are this module's own: SharedLogins is extended.        *)
-----------------------------------------------------------------------------
identityVars == <<subject, accountsVars, factorVars, vars>>

IdentityInit ==
    /\ subject \in {"accounts", "factor", "logins"}
    /\ A!Init /\ F!Init /\ Init
    \* which initial state the others are in does not matter
    /\ subject # "accounts" => users = Quiet
    /\ subject # "factor" => minted = 0

IdentityNext ==
    \/ subject = "accounts" /\ A!Next
       /\ UNCHANGED <<subject, factorVars, vars>>
    \/ subject = "factor" /\ F!Next
       /\ UNCHANGED <<subject, accountsVars, vars>>
    \/ subject = "logins" /\ Next
       /\ UNCHANGED <<subject, accountsVars, factorVars>>

IdentitySpec == IdentityInit /\ [][IdentityNext]_identityVars

-----------------------------------------------------------------------------
\* Concurrent demotions, edits and deletions leave an admin, and a scoped
\* editor makes nobody one and keeps the groups outside its own (Accounts).
RolesGuarded == A!RolesGuarded

\* A session that outlives a change of its account is one being revoked or one
\* of four named races, and the forced-change gate answers the account as it
\* is (Accounts).
SessionsExplained == A!SessionsExplained

\* A revoked group is served from the identity cache only where the handler
\* that took it ended before it invalidated (Accounts).
NoRevokedGroupServed == A!NoRevokedGroupServed

\* A trusted device rests on a proof of the factor in force (SecondFactor).
NoStaleTrust == F!NoStaleTrust

\* A code earns one grant and is used up only by one, and a confirmed secret
\* was proven (SecondFactor).
ProofsCountOnce == F!CodesEarnOnce /\ F!ConfirmedIsProven

\* ImplementsSignIn, the shared store with its caches implements SignIn, is
\* SharedLogins' own.
=============================================================================
