---------------------------- MODULE SecondFactor ----------------------------
(***************************************************************************)
(* The second factor: one TOTP factor per account (pending, then           *)
(* confirmed), its recovery codes, and the device grants that let a        *)
(* browser skip the challenge. A login session belongs to one account and  *)
(* one browser; browsers keep a device cookie and an enrollment cookie.    *)
(*                                                                         *)
(* Handlers read the factor, verify a code against what they read, and     *)
(* write in a later transaction. What they read may have been reset,       *)
(* enrolled again or revoked meanwhile. The attempt limiters refuse        *)
(* requests at will here (a request may simply not come); they are         *)
(* counted in Limiters.                                                    *)
(*                                                                         *)
(* Every secret is drawn once and confirmed at most once, so its number    *)
(* stands for the enrollment's ceremony id and for confirmed_at too.       *)
(***************************************************************************)
EXTENDS Naturals, FiniteSets

CONSTANTS
    Users, Browsers, Sids,
    Of,            \* Of[s], the account signed in with session s
    At,            \* At[s], the browser that has the session cookie
    Reqs,          \* requests that can be in flight at a time
    CodesPerSet,   \* recovery codes drawn at a time
    Days,          \* mfa-validity-days of the specs asked for
    Boot,          \* states to start from: [fac, codes, minted]
    MaxStep,       \* bound on the TOTP clock
    MaxRequests    \* bound on requests

VARIABLES
    fac,       \* user_mfa: [st, secret, gen, last, epoch, proven]
    codes,     \* user_mfa_recovery: [gen, used], codes 1..CodesPerSet of a set
    grant,     \* user_mfa_grants by session: [id, factor, epoch, age, ...]
    device,    \* the grant id in each browser's device cookie, 0 for none
    ceremony,  \* the secret in each browser's enrollment cookie, 0 for none
    now,       \* the current TOTP step
    task,      \* what each request is about to do
    minted,    \* secrets, generations and grant ids drawn so far
    era,       \* revocations so far, by account
    earned,    \* proofs accepted, what for, and whether for the factor in force
    asked      \* requests so far

vars == <<fac, codes, grant, device, ceremony, now, task, minted, era, earned,
          asked>>

NoProof  == <<"none", 0, 0>>
Totp(secret, step)  == <<"totp", secret, step>>
Recovery(gen, i)    == <<"recovery", gen, i>>

\* last = 0 stands for NULL: steps are counted from 1.
NoFactor == [st |-> "none", secret |-> 0, gen |-> 0, last |-> 0, epoch |-> 0,
             proven |-> 0]
NoCodes  == [gen |-> 0, used |-> {}]
\* era: revocations when the row behind the grant was read; proven: the secret
\* the browser proved; late: revoked between the proof and that reading.
NoGrant  == [id |-> 0, factor |-> 0, epoch |-> 0, age |-> 0, era |-> 0,
             proven |-> 0, late |-> FALSE]
Idle     == [pc |-> "idle", s |-> CHOOSE s \in Sids : TRUE, row |-> NoFactor,
             proof |-> NoProof, era |-> 0, grant |-> NoGrant,
             from |-> CHOOSE s \in Sids : TRUE]

TypeOK ==
    /\ \A u \in Users :
          /\ fac[u].st \in {"none", "pending", "confirmed"}
          /\ fac[u].last \in 0..MaxStep + 1
          /\ fac[u].st = "none" => fac[u] = NoFactor
          /\ codes[u].used \subseteq 1..CodesPerSet
          /\ codes[u].gen \in 0..minted /\ fac[u].secret \in 0..minted
    /\ \A b \in Browsers : device[b] \in 0..minted /\ ceremony[b] \in 0..minted
    /\ \A s, t \in Sids : grant[s].id = grant[t].id /\ s # t => grant[s].id = 0
    /\ now \in 1..MaxStep /\ asked \in 0..MaxRequests

Confirmed(u) == fac[u].st = "confirmed"
User(r)      == Of[task[r].s]
Browser(r)   == At[task[r].s]

----------------------------------------------------------------------------
(***************************************************************************)
(* Codes and grants.                                                       *)
(***************************************************************************)
\* verify_totp_step: a code of the current step or of a neighbouring one.
VerifyTotpStep(step) == step \in {now - 1, now, now + 1} \ {0}

\* record_used_step: the account's row takes a step later than its last.
FreshStep(u, step) == fac[u].st # "none" /\ fac[u].last < step

Unused(u) == IF codes[u].gen = 0 THEN {} ELSE (1..CodesPerSet) \ codes[u].used
FreshCodes(u, gen) == codes' = [codes EXCEPT ![u] = [gen |-> gen, used |-> {}]]

\* evaluate, once the grant g of session o and the factor f are read: does a
\* spec that asks for a proof every d days (0: every session) trust session s?
Satisfied(g, o, f, s, d) ==
    /\ Of[o] = Of[s] /\ g.id # 0 /\ g.age < 2
    /\ f.st = "confirmed" /\ g.factor = f.secret /\ g.epoch = f.epoch
    /\ IF d = 0 THEN o = s ELSE g.age = 0

\* delete_all: no grant, and no challenge in flight, survives.
DeleteAll_KeepsEpoch(u) ==
    /\ grant' = [s \in Sids |-> IF Of[s] = u THEN NoGrant ELSE grant[s]]
    /\ UNCHANGED fac
    /\ era' = [era EXCEPT ![u] = @ + 1]
DeleteAll(u) ==
    /\ grant' = [s \in Sids |-> IF Of[s] = u THEN NoGrant ELSE grant[s]]
    /\ fac' = [fac EXCEPT ![u].epoch = IF fac[u].st = "none" THEN @ ELSE @ + 1]
    /\ era' = [era EXCEPT ![u] = @ + 1]

----------------------------------------------------------------------------
(***************************************************************************)
(* Requests. Ask is a request's arrival, Then its next step and End its    *)
(* answer.                                                                 *)
(***************************************************************************)
Ask(r, t) == /\ task[r].pc = "idle"
             /\ asked < MaxRequests /\ asked' = asked + 1
             /\ task' = [task EXCEPT ![r] = t]
Then(r, t) == task' = [task EXCEPT ![r] = t] /\ UNCHANGED asked
End(r) == Then(r, Idle)
Instant == asked < MaxRequests /\ asked' = asked + 1 /\ UNCHANGED task

\* start: with the password given again, an account without a confirmed
\* factor draws a secret. begin_enrollment replaces a pending row only.
Start(r, s) ==
    /\ ~Confirmed(Of[s])
    /\ Ask(r, [Idle EXCEPT !.pc = "begin", !.s = s])
    /\ UNCHANGED <<fac, codes, grant, device, ceremony, now, minted, era, earned>>
BeginEnrollment(r) ==
    /\ task[r].pc = "begin" /\ ~Confirmed(User(r))
    /\ minted' = minted + 1
    /\ fac' = [fac EXCEPT ![User(r)] =
                 [st |-> "pending", secret |-> minted', gen |-> minted',
                  last |-> 0, epoch |-> @.epoch, proven |-> 0]]
    /\ ceremony' = [ceremony EXCEPT ![Browser(r)] = minted']
    /\ End(r)
    /\ UNCHANGED <<codes, grant, device, now, era, earned>>

\* confirm: the pending row, the cookie of the browser that began it, a code
\* of its secret; then four transactions, none of which trusts the one before.
Confirm(r, s) ==
    /\ fac[Of[s]].st = "pending"
    /\ ceremony[At[s]] = fac[Of[s]].secret
    /\ \E step \in 1..MaxStep + 1 :
          /\ VerifyTotpStep(step)
          /\ Ask(r, [Idle EXCEPT !.pc = "record", !.s = s, !.row = fac[Of[s]],
                     !.proof = Totp(fac[Of[s]].secret, step)])
    /\ UNCHANGED <<fac, codes, grant, device, ceremony, now, minted, era, earned>>
RecordUsedStep(r) ==
    /\ task[r].pc = "record" /\ FreshStep(User(r), task[r].proof[3])
    /\ fac' = [fac EXCEPT ![User(r)].last = task[r].proof[3]]
    /\ Then(r, [task[r] EXCEPT !.pc = "confirm"])
    /\ UNCHANGED <<codes, grant, device, ceremony, now, minted, era, earned>>
ConfirmCas_AnyCeremony(u, secret) == fac[u].st = "pending"
ConfirmCas(u, secret) == fac[u].st = "pending" /\ fac[u].secret = secret
ConfirmWithRecoveryCodes(r) ==
    LET u == User(r) IN
    /\ task[r].pc = "confirm" /\ ConfirmCas(u, task[r].row.secret)
    /\ minted' = minted + 1
    /\ fac' = [fac EXCEPT ![u].st = "confirmed", ![u].gen = minted',
                          ![u].proven = task[r].proof[2]]
    /\ FreshCodes(u, minted')
    /\ ceremony' = [ceremony EXCEPT ![Browser(r)] = 0]
    /\ earned' = earned \cup {<<task[r].proof, minted', TRUE>>}
    /\ Then(r, [task[r] EXCEPT !.pc = "reread", !.era = era[u]])
    /\ UNCHANGED <<grant, device, now, era>>
\* The browser's first grant: for whatever factor is confirmed by now.
RereadFactor(r) ==
    LET u == User(r) IN
    /\ task[r].pc = "reread" /\ Confirmed(u)
    /\ Then(r, [task[r] EXCEPT !.pc = "issue", !.row = fac[u], !.proof = NoProof,
                !.era = era[u],
                !.grant = [NoGrant EXCEPT !.proven = task[r].proof[2],
                                          !.late = era[u] # task[r].era]])
    /\ UNCHANGED <<fac, codes, grant, device, ceremony, now, minted, era, earned>>

\* challenge_submit: the factor is read first, so is the epoch that issue
\* will insist on. A recovery code is looked up in a second query.
ChallengeSubmit(r, s) ==
    LET u == Of[s]
        t == [Idle EXCEPT !.s = s, !.row = fac[u], !.era = era[u]] IN
    /\ Confirmed(u)
    /\ \/ \E step \in 1..MaxStep + 1 :
            /\ VerifyTotpStep(step)
            /\ Ask(r, [t EXCEPT !.pc = "issue", !.grant.proven = fac[u].secret,
                                !.proof = Totp(fac[u].secret, step)])
       \/ Ask(r, [t EXCEPT !.pc = "match"])
    /\ UNCHANGED <<fac, codes, grant, device, ceremony, now, minted, era, earned>>
FindRecoveryCandidate(r) ==
    LET u == User(r) IN
    /\ task[r].pc = "match"
    /\ \E i \in Unused(u) :
          Then(r, [task[r] EXCEPT !.pc = "issue", !.grant.proven = fac[u].secret,
                                  !.proof = Recovery(codes[u].gen, i)])
    /\ UNCHANGED <<fac, codes, grant, device, ceremony, now, minted, era, earned>>

IssueDeviceCookie(b, id) == device' = [device EXCEPT ![b] = id]

\* issue: one transaction. A stale epoch, a step already used or a code
\* already spent refuses it and leaves every table as it was.
EpochOk(u, row) == fac[u].st # "none" /\ fac[u].epoch = row.epoch
Unspent(u, gen, i) == codes[u].gen = gen /\ i \in Unused(u)
Spendable(u, proof) ==
    CASE proof[1] = "totp"     -> FreshStep(u, proof[3])
      [] proof[1] = "recovery" -> Unspent(u, proof[2], proof[3])
      [] OTHER                 -> TRUE
\* What a refused transaction leaves behind: nothing.
RolledBack(u, proof) == UNCHANGED codes
Issue(r) ==
    LET u == User(r)  p == task[r].proof IN
    /\ task[r].pc = "issue"
    /\ EpochOk(u, task[r].row) /\ Spendable(u, p)
    /\ minted' = minted + 1
    /\ fac' = [fac EXCEPT ![u].last = IF p[1] = "totp" THEN p[3] ELSE @]
    /\ codes' = [codes EXCEPT ![u].used = IF p[1] = "recovery"
                                          THEN @ \cup {p[3]} ELSE @]
    /\ grant' = [s \in Sids |->
                    IF s = task[r].s
                    THEN [task[r].grant EXCEPT !.id = minted', !.era = task[r].era,
                            !.factor = task[r].row.secret,
                            !.epoch = task[r].row.epoch]
                    ELSE IF Of[s] = u /\ grant[s].age = 2 THEN NoGrant
                    ELSE grant[s]]
    /\ IssueDeviceCookie(Browser(r), minted')
    /\ earned' = IF p = NoProof THEN earned ELSE
                 earned \cup {<<p, minted', task[r].row.secret = fac[u].secret>>}
    /\ End(r)
    /\ UNCHANGED <<ceremony, now, era>>
IssueRefused(r) ==
    LET u == User(r)  p == task[r].proof IN
    /\ task[r].pc = "issue"
    /\ ~(EpochOk(u, task[r].row) /\ Spendable(u, p))
    /\ RolledBack(u, p)
    /\ End(r)
    /\ UNCHANGED <<fac, grant, device, ceremony, now, minted, era, earned>>

\* The proxy's gate: evaluate reads the grant of the cookie, then the factor.
Evaluate(r, s) ==
    /\ \E o \in Sids :
          /\ grant[o].id # 0 /\ grant[o].id = device[At[s]] /\ grant[o].age < 2
          /\ Ask(r, [Idle EXCEPT !.pc = "decide", !.s = s, !.grant = grant[o],
                     !.from = o])
    /\ UNCHANGED <<fac, codes, grant, device, ceremony, now, minted, era, earned>>
Decide(r) ==
    /\ task[r].pc = "decide" /\ End(r)
    /\ UNCHANGED <<fac, codes, grant, device, ceremony, now, minted, era, earned>>

\* A query fails, or finds what its handler turns away.
GiveUp(r) ==
    /\ task[r].pc \in {"begin", "record", "confirm", "reread", "issue", "match",
                       "regenerate"}
    /\ End(r)
    /\ UNCHANGED <<fac, codes, grant, device, ceremony, now, minted, era, earned>>

\* The status page carries the factor's generation; the form that replaces the
\* recovery codes posts it back, and is refused when it is not current.
Status(r, s) ==
    /\ Confirmed(Of[s])
    /\ Ask(r, [Idle EXCEPT !.pc = "regenerate", !.s = s, !.row = fac[Of[s]]])
    /\ UNCHANGED <<fac, codes, grant, device, ceremony, now, minted, era, earned>>
RegenerateCas(u, gen) == Confirmed(u) /\ fac[u].gen = gen
RegenerateRecovery(r) ==
    LET u == User(r) IN
    /\ task[r].pc = "regenerate" /\ RegenerateCas(u, task[r].row.gen)
    /\ minted' = minted + 1
    /\ fac' = [fac EXCEPT ![u].gen = minted']
    /\ FreshCodes(u, minted')
    /\ End(r)
    /\ UNCHANGED <<grant, device, ceremony, now, era, earned>>

\* Single transactions: forget this device, revoke all, change the password,
\* an administrator's reset.
ForgetDevice(s) ==
    /\ Instant /\ device[At[s]] # 0
    /\ grant' = [o \in Sids |-> IF grant[o].id = device[At[s]] /\ Of[o] = Of[s]
                                THEN NoGrant ELSE grant[o]]
    /\ IssueDeviceCookie(At[s], 0)
    /\ UNCHANGED <<fac, codes, ceremony, now, minted, era, earned>>
RevokeDevices(s) ==
    /\ Instant /\ DeleteAll(Of[s])
    /\ IssueDeviceCookie(At[s], 0)
    /\ UNCHANGED <<codes, ceremony, now, minted, earned>>
SetPassword(u) ==
    /\ Instant /\ DeleteAll(u)
    /\ UNCHANGED <<codes, device, ceremony, now, minted, earned>>
ResetCodes(u) == codes' = [codes EXCEPT ![u] = NoCodes]
ResetMfa(u) ==
    /\ Instant
    /\ fac' = [fac EXCEPT ![u] = NoFactor]
    /\ ResetCodes(u)
    /\ grant' = [s \in Sids |-> IF Of[s] = u THEN NoGrant ELSE grant[s]]
    /\ era' = [era EXCEPT ![u] = @ + 1]
    /\ UNCHANGED <<device, ceremony, now, minted, earned>>

\* Time: the next step; a grant grows older than a spec's days, then expires.
NextStep ==
    /\ now < MaxStep /\ now' = now + 1
    /\ UNCHANGED <<fac, codes, grant, device, ceremony, task, minted, era, earned,
                   asked>>
Age(s) ==
    /\ grant[s].id # 0 /\ grant[s].age < 2
    /\ grant' = [grant EXCEPT ![s].age = @ + 1]
    /\ UNCHANGED <<fac, codes, device, ceremony, now, task, minted, era, earned,
                   asked>>

Init ==
    /\ \E b \in Boot : fac = b.fac /\ codes = b.codes /\ minted = b.minted
    /\ grant = [s \in Sids |-> NoGrant]
    /\ device = [b \in Browsers |-> 0] /\ ceremony = [b \in Browsers |-> 0]
    /\ now = 1 /\ asked = 0
    /\ task = [r \in Reqs |-> Idle]
    /\ era = [u \in Users |-> 0] /\ earned = {}

Arrive(r) ==
    /\ task[r].pc = "idle" /\ asked < MaxRequests
    /\ \E s \in Sids : \/ Start(r, s) \/ Confirm(r, s) \/ ChallengeSubmit(r, s)
                       \/ Status(r, s) \/ Evaluate(r, s)
Proceed(r) ==
    \/ BeginEnrollment(r) \/ RecordUsedStep(r) \/ ConfirmWithRecoveryCodes(r)
    \/ RereadFactor(r) \/ FindRecoveryCandidate(r) \/ Issue(r) \/ IssueRefused(r)
    \/ Decide(r) \/ RegenerateRecovery(r) \/ GiveUp(r)
Next ==
    \/ \E r \in Reqs : Arrive(r) \/ Proceed(r)
    \/ \E s \in Sids : ForgetDevice(s) \/ RevokeDevices(s) \/ Age(s)
    \/ \E u \in Users : SetPassword(u) \/ ResetMfa(u)
    \/ NextStep

Spec == Init /\ [][Next]_vars

----------------------------------------------------------------------------
(***************************************************************************)
(* Properties.                                                             *)
(***************************************************************************)
\* A device the proxy trusts rests on a proof of the factor that is confirmed
\* now, and no password change, revocation or reset has come since the row
\* behind that proof was read ("revocations racing a challenge win",
\* db/mfa.rs:28), although epochs start at 0 again after a reset and evaluate
\* reads the grant and the factor in two queries. One exception: the grant
\* given on enrollment is for the factor found by a later query, and if a
\* revocation came in between, the proof is older than it (late).
NoStaleTrust ==
    \A r \in Reqs : task[r].pc = "decide" =>
        LET g == task[r].grant  u == User(r) IN
        (\E d \in Days : Satisfied(g, task[r].from, fac[u], task[r].s, d))
            => /\ g.era = era[u]
               /\ g.proven = fac[u].secret \/ g.late

\* A code is a proof once: no TOTP step of a secret and no recovery code earns
\* two grants for the factor in force, or the enrollment and a grant. (A
\* challenge that a reset and a new enrollment overtake may still store a grant
\* for the old factor, which evaluate turns away.) A recovery code of the
\* current set is marked as used exactly when a grant was stored for it ("a
\* finite code is never burned without a grant", db/mfa_grants.rs:323).
CodesEarnOnce ==
    /\ \A x, y \in earned : x[3] /\ y[3] /\ x[1] = y[1] => x = y
    /\ \A u \in Users : codes[u].gen # 0 =>
          codes[u].used = {i \in 1..CodesPerSet :
                              \E x \in earned : x[1] = Recovery(codes[u].gen, i)}

\* A confirmed secret is the one that a code has been checked against, also
\* when two browsers enroll the same account at once: the confirmation names
\* the ceremony it verified. The recovery codes are those of the factor: none
\* without a confirmed one, and the set a status page was rendered with is the
\* set its form replaces.
ConfirmedIsProven ==
    /\ TypeOK
    /\ \A u \in Users : IF Confirmed(u)
                        THEN fac[u].proven = fac[u].secret /\ codes[u].gen = fac[u].gen
                        ELSE codes[u] = NoCodes
=============================================================================
