-------------------------------- MODULE Edge ---------------------------------
(***************************************************************************)
(* What a request passes on its way and what it leaves behind: the proxy,  *)
(* the rate limiters, the alert and activity queues, the audit of          *)
(* bypasses, and the disk page. They share no state with each other here,  *)
(* so a behaviour is about one of them, its subject; the others stay in an *)
(* initial state.                                                          *)
(***************************************************************************)
EXTENDS Integers, ProxyRequest

CONSTANTS
    \* the rate limiters
    Clients, LimitTasks, Limit, Window, SweepEvery, Skew, LimitTime,
    \* the alerts
    Keys, AlertCooldown, UrlTtl, AlertDepth, Attempts, AlertTime, MaxTests,
    \* the activity log
    ActivityDepth, BatchMax, MaxAttempts, MaxEvents,
    \* the audit of bypasses
    Bypasses, AuditCooldown, AuditTime,
    \* the disk page
    Hosts, Ids, Tags, Containers, Volumes, None, InFile, MaxEnv

VARIABLE subject

VARIABLES kind, limitNow, hits, since, limitTask, passed
R == INSTANCE Limiters WITH
       Tasks <- LimitTasks, MaxTime <- LimitTime,
       now <- limitNow, task <- limitTask
limitsVars == <<kind, limitNow, hits, since, limitTask, passed>>

VARIABLES alertNow, recent, alertQueue, sender, cached, setting, posts, tests, notified
E == INSTANCE AlertQueue WITH
       Cooldown <- AlertCooldown, QueueDepth <- AlertDepth, MaxTime <- AlertTime,
       now <- alertNow, queue <- alertQueue
alertsVars == <<alertNow, recent, alertQueue, sender, cached, setting, posts, tests,
                notified>>

VARIABLES key, activityQueue, buf, attempt, rows, dropped, lost
Q == INSTANCE ActivityQueue WITH
       QueueDepth <- ActivityDepth, queue <- activityQueue
activityVars == <<key, activityQueue, buf, attempt, rows, dropped, lost>>

VARIABLES auditNow, entry, bypass, ended
G == INSTANCE BypassAudit WITH
       Cooldown <- AuditCooldown, MaxTime <- AuditTime, now <- auditNow
bypassesVars == <<auditNow, entry, bypass, ended>>

VARIABLES hosts, tagged, present, cont, volume, catalog, former, prov, req, truth, env
K == INSTANCE DiskCleanup
diskVars == <<hosts, tagged, present, cont, volume, catalog, former, prov, req, truth, env>>

(* A limiter has a client and a task; the test button's alert has no key;    *)
(* what is no image id is none; the file's specs name tags and volumes.      *)
ASSUME LimitersAssumption ==
    /\ Clients # {} /\ LimitTasks # {} /\ IsFiniteSet(LimitTasks)
    /\ Limit \in Nat /\ Window \in Nat /\ Skew \in Nat
ASSUME QueuesAssumption ==
    /\ "test" \notin Keys /\ AlertCooldown \in Nat /\ Attempts \in Nat \ {0}
    /\ BatchMax \in Nat /\ AuditCooldown \in Nat
ASSUME DiskAssumption == None \notin Ids \cup Tags
ASSUME FileAssumption == InFile \in [tags : SUBSET Tags, volumes : SUBSET Volumes]

(* The proxy is this module's own: ProxyRequest is extended.                 *)
-----------------------------------------------------------------------------
edgeVars == <<subject, vars, limitsVars, alertsVars, activityVars, bypassesVars, diskVars>>

EdgeInit ==
    /\ subject \in {"proxy", "limits", "alerts", "activity", "bypasses", "disk"}
    /\ Init /\ R!Init /\ E!Init /\ Q!Init /\ G!Init /\ K!Init
    \* which initial state the others are in does not matter
    /\ subject # "proxy" => db = CHOOSE v \in Specs : TRUE
    /\ subject # "limits" => kind = "api"
    /\ subject # "alerts" => setting = E!NoUrl
    /\ subject # "disk" => /\ hosts = Hosts /\ prov = {}
                           /\ present = [h \in Hosts |-> {CHOOSE i \in Ids : TRUE}]

EdgeNext ==
    \/ subject = "proxy" /\ Next
       /\ UNCHANGED <<subject, limitsVars, alertsVars, activityVars, bypassesVars, diskVars>>
    \/ subject = "limits" /\ R!Next
       /\ UNCHANGED <<subject, vars, alertsVars, activityVars, bypassesVars, diskVars>>
    \/ subject = "alerts" /\ E!Next
       /\ UNCHANGED <<subject, vars, limitsVars, activityVars, bypassesVars, diskVars>>
    \/ subject = "activity" /\ Q!Next
       /\ UNCHANGED <<subject, vars, limitsVars, alertsVars, bypassesVars, diskVars>>
    \/ subject = "bypasses" /\ G!Next
       /\ UNCHANGED <<subject, vars, limitsVars, alertsVars, activityVars, diskVars>>
    \/ subject = "disk" /\ K!Next
       /\ UNCHANGED <<subject, vars, limitsVars, alertsVars, activityVars, bypassesVars>>

EdgeSpec == EdgeInit /\ [][EdgeNext]_edgeVars

-----------------------------------------------------------------------------
\* RequestsJudged and InflightSound, about the proxy, are ProxyRequest's own.

\* No limiter lets more through in a window than its limit and what was in
\* flight (Limiters).
WindowRespected == R!WindowRespected

\* What is suppressed, dropped or not audited is accounted for (AlertQueue,
\* ActivityQueue, BypassAudit).
SilenceAccounted == E!AlertsSpaced /\ Q!ActivityKept /\ G!SilenceVouchedFor

\* What the disk page removes was not needed when it looked (DiskCleanup).
CleanupJustified == K!CleanupJustified
=============================================================================
