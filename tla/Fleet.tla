-------------------------------- MODULE Fleet --------------------------------
(***************************************************************************)
(* The multi-host Docker backend: which host a spawn goes to, the map from *)
(* replicas to hosts by which everything else finds them, and the listings *)
(* that rebuild it while spawns and stops are in flight and hosts come and *)
(* go.                                                                     *)
(*                                                                         *)
(* Hosts answer a listing one by one, each of its two queries on its own.  *)
(* The containers and the daemons are external.                            *)
(***************************************************************************)
EXTENDS Naturals, FiniteSets, FiniteSetsExt

CONSTANTS
    N,              \* hosts are 1..N, in the order of the configuration
    MaxContainers,  \* [1..N -> Nat], the cap of each host
    Weight,         \* [1..N -> Nat \ {0}]
    Replicas,       \* replica ids that spawns may mint
    SpecOf,         \* [Replicas -> specs]
    Placement,      \* "spread" or "bin-pack"
    AntiAffinity,   \* BOOLEAN
    Tasks,          \* spawns and stops under way
    Passes,         \* listings under way
    MaxFaults,      \* bound on faults: of hosts, containers, calls
    NoReplica

Hosts  == 1..N
NoHost == 0

VARIABLES
    ctr,        \* containers: [st, host], of every replica id
    placement,  \* replica -> host, NoHost when there is no entry
    rows,       \* replicas of the registry; a row knows its host
    task,       \* spawns and stops: [pc, r, hosts]
    pass,       \* listings: [pc, known, managed, listed, failed]
    down,       \* hosts that do not answer
    booted,     \* whether the boot's listing is over
    faults

vars == <<ctr, placement, rows, task, pass, down, booted, faults>>

NoTask == [pc |-> "idle", r |-> NoReplica, hosts |-> {}]
\* managed, listed: <<host, replicas>> of the hosts that answered each query.
NoPass == [pc |-> "idle", known |-> {}, managed |-> {}, listed |-> {}, failed |-> {}]

TypeOK ==
    /\ \A r \in Replicas : /\ ctr[r].st \in {"new", "up", "stopped", "gone"}
                           /\ placement[r] \in Hosts \cup {NoHost}
    /\ rows \subseteq Replicas /\ down \subseteq Hosts
    /\ \A t \in Tasks : task[t].hosts \subseteq Hosts
    /\ \A p \in Passes : pass[p].failed \subseteq Hosts

On(h) == {r \in Replicas : ctr[r].host = h /\ ctr[r].st \in {"up", "stopped"}}

----------------------------------------------------------------------------
(***************************************************************************)
(* choose_host.                                                            *)
(***************************************************************************)
Count(h)       == Cardinality({r \in Replicas : placement[r] = h})
RunsSpec(h, s) == \E r \in Replicas : placement[r] = h /\ SpecOf[r] = s
Eligible       == {h \in Hosts : Count(h) < MaxContainers[h]}
Pool(s) ==
    LET free == {h \in Eligible : ~RunsSpec(h, s)} IN
    IF AntiAffinity /\ free # {} THEN free ELSE Eligible
\* a comes before b: fewer containers by weight, or, packing, more of them;
\* the first in the configuration breaks ties.
Before(a, b) ==
    LET l == Count(a) * Weight[b]
        r == Count(b) * Weight[a] IN
    IF Placement = "spread" THEN l < r \/ (l = r /\ a <= b)
    ELSE Count(a) > Count(b) \/ (Count(a) = Count(b) /\ a <= b)
ChooseHost(s) == {h \in Pool(s) : \A g \in Pool(s) : Before(h, g)}

----------------------------------------------------------------------------
(***************************************************************************)
(* Spawns. A host is picked, the container is created and started there,   *)
(* and once it is ready the map and the registry learn of it.              *)
(***************************************************************************)
Idle(t) == task[t].pc = "idle" /\ booted
To(t, x) == task' = [task EXCEPT ![t] = x]
Fault == faults < MaxFaults /\ faults' = faults + 1

PickHost(t, r) ==
    /\ Idle(t) /\ ctr[r].st = "new" /\ \A u \in Tasks : task[u].r # r
    /\ \E h \in ChooseHost(SpecOf[r]) : To(t, [pc |-> "create", r |-> r, hosts |-> {h}])
    /\ UNCHANGED <<ctr, placement, rows, pass, down, booted, faults>>
CreateAndStart(t) ==
    /\ task[t].pc = "create" /\ task[t].hosts \cap down = {}
    /\ ctr' = [ctr EXCEPT ![task[t].r] = [st |-> "up", host |-> Min(task[t].hosts)]]
    /\ To(t, [task[t] EXCEPT !.pc = "ready"])
    /\ UNCHANGED <<placement, rows, pass, down, booted, faults>>
InsertPlacement(t) ==
    LET r == task[t].r IN
    /\ task[t].pc = "ready"
    /\ placement' = [placement EXCEPT ![r] = Min(task[t].hosts)]
    /\ rows' = rows \cup {r}
    /\ To(t, NoTask)
    /\ UNCHANGED <<ctr, pass, down, booted, faults>>
\* The host does not answer, or the container is not ready in time and is
\* removed, if the host lets it.
SpawnFails(t) ==
    LET r == task[t].r IN
    /\ \/ task[t].pc = "create" /\ task[t].hosts \cap down # {} /\ UNCHANGED <<ctr, faults>>
       \/ /\ task[t].pc = "ready" /\ Fault
          /\ ctr' = IF task[t].hosts \cap down = {} THEN [ctr EXCEPT ![r].st = "gone"] ELSE ctr
    /\ To(t, NoTask)
    /\ UNCHANGED <<placement, rows, pass, down, booted>>

----------------------------------------------------------------------------
(***************************************************************************)
(* Stops. A replica with an entry is stopped at its host, and loses the    *)
(* entry whatever comes of it. Without one, the hosts are tried in order   *)
(* until one says Ok; a host that has no such container does. The caller   *)
(* then drops the row.                                                     *)
(***************************************************************************)
Stop(t, r) ==
    /\ Idle(t) /\ r \in rows /\ \A u \in Tasks : task[u].r # r
    /\ To(t, IF placement[r] # NoHost
             THEN [pc |-> "stop", r |-> r, hosts |-> {placement[r]}]
             ELSE [pc |-> "try", r |-> r, hosts |-> Hosts])
    /\ UNCHANGED <<ctr, placement, rows, pass, down, booted, faults>>
\* LocalDockerBackend::stop on one host that answers.
StopAt(r, h) == IF r \in On(h) THEN [ctr EXCEPT ![r].st = "gone"] ELSE ctr
Stopped(t) ==
    /\ placement' = [placement EXCEPT ![task[t].r] = NoHost]
    /\ rows' = rows \ {task[t].r}
    /\ To(t, NoTask)
StopOk(t) ==
    LET h == Min(task[t].hosts) IN
    /\ task[t].pc \in {"stop", "try"} /\ task[t].hosts # {} /\ h \notin down
    /\ ctr' = StopAt(task[t].r, h)
    /\ Stopped(t)
    /\ UNCHANGED <<pass, down, booted, faults>>
\* The host is down or the removal fails: a stop by the map ends there, a
\* search goes on, and ends as if the container were gone.
StopFails(t) ==
    LET h == Min(task[t].hosts) IN
    /\ task[t].pc \in {"stop", "try"} /\ task[t].hosts # {}
    /\ \/ h \in down /\ UNCHANGED faults
       \/ task[t].r \in On(h) /\ Fault
    /\ IF task[t].pc = "try" /\ task[t].hosts # {h}
       THEN To(t, [task[t] EXCEPT !.hosts = @ \ {h}]) /\ UNCHANGED <<placement, rows>>
       ELSE Stopped(t)
    /\ UNCHANGED <<ctr, pass, down, booted>>
\* remove_container and prune_stopped of the disk page, and the collection of
\* orphans: a search that ends only where the container is.
RemoveContainer(r) ==
    /\ booted /\ \E h \in Hosts \ down : r \in On(h)
    /\ ctr' = [ctr EXCEPT ![r].st = "gone"]
    /\ UNCHANGED <<placement, rows, task, pass, down, booted, faults>>

----------------------------------------------------------------------------
(***************************************************************************)
(* Listings: replica_liveness by the reconciliation, list by /readyz and   *)
(* at boot. list leaves out containers without a port, the stopped ones.   *)
(***************************************************************************)
Begin(p) ==
    /\ pass[p].pc = "idle"
    /\ \E kind \in IF booted THEN {"liveness", "list"} ELSE {"boot"} :
         pass' = [pass EXCEPT ![p] = [NoPass EXCEPT !.pc = kind,
                     !.known = IF kind = "liveness" THEN rows ELSE {}]]
    /\ UNCHANGED <<ctr, placement, rows, task, down, booted, faults>>
Answered(answers) == {a[1] : a \in answers}
Seen(answers)     == UNION {a[2] : a \in answers}
ListManaged(p, h) ==
    /\ pass[p].pc = "liveness"
    /\ h \notin Answered(pass[p].managed) \cup pass[p].failed
    /\ h \notin down
    /\ pass' = [pass EXCEPT ![p].managed = @ \cup {<<h, On(h)>>}]
    /\ UNCHANGED <<ctr, placement, rows, task, down, booted, faults>>
ListReplicas(p, h) ==
    /\ pass[p].pc # "idle" /\ h \notin Answered(pass[p].listed) \cup pass[p].failed
    /\ h \notin down
    /\ pass' = [pass EXCEPT ![p].listed =
                   @ \cup {<<h, {r \in On(h) : ctr[r].st = "up"}>>}]
    /\ UNCHANGED <<ctr, placement, rows, task, down, booted, faults>>
Complete(p) == IF pass[p].pc = "liveness"
               THEN Answered(pass[p].listed) \cap Answered(pass[p].managed)
               ELSE Answered(pass[p].listed)
\* An error, or the host's ten seconds are over: it is wholly failed.
Without(answers, h) == {a \in answers : a[1] # h}
HostFails(p, h) ==
    /\ pass[p].pc # "idle" /\ h \notin Complete(p) \cup pass[p].failed
    /\ IF h \in down THEN UNCHANGED faults ELSE Fault
    /\ pass' = [pass EXCEPT ![p].failed = @ \cup {h},
                            ![p].managed = Without(@, h), ![p].listed = Without(@, h)]
    /\ UNCHANGED <<ctr, placement, rows, task, down, booted>>

\* retain_confirmed_or_unknown_placements, after the listed were inserted.
Retain_Unknown(x) == [r \in Replicas |-> IF r \in Seen(x.listed) THEN ctr[r].host
                                         ELSE placement[r]]
Retain(x) ==
    [r \in Replicas |-> IF r \in Seen(x.listed) THEN ctr[r].host
                        ELSE IF placement[r] \in x.failed THEN placement[r] ELSE NoHost]
\* classify_multihost_liveness: missing from a host that answered.
Missing_Anywhere(x) == x.known \ Seen(x.managed)
Missing(x) == {r \in x.known : /\ ctr[r].host \in Answered(x.managed)
                               /\ r \notin Seen(x.managed)}
\* The reconciliation then prunes the missing rows and may re-adopt what runs
\* without one; the boot adopts all that runs.
EndPass(p) ==
    LET x == pass[p] IN
    /\ x.pc # "idle" /\ Hosts = Complete(p) \cup x.failed
    /\ IF x.failed = Hosts THEN UNCHANGED <<placement, rows>>
       ELSE /\ placement' = Retain(x)
            /\ \/ x.pc = "list" /\ UNCHANGED rows
               \/ x.pc = "boot" /\ rows' = Seen(x.listed)
               \/ /\ x.pc = "liveness"
                  /\ \E new \in SUBSET {r \in Seen(x.listed) : ctr[r].st = "up"} :
                        /\ \A t \in Tasks : task[t].pc = "ready" => task[t].r \notin new
                        /\ rows' = (rows \ Missing(x)) \cup new
    /\ booted' = TRUE
    /\ pass' = [pass EXCEPT ![p] = NoPass]
    /\ UNCHANGED <<ctr, task, down, faults>>

----------------------------------------------------------------------------
(***************************************************************************)
(* The environment.                                                        *)
(***************************************************************************)
HostDown(h) ==
    /\ h \notin down /\ Fault /\ down' = down \cup {h}
    /\ UNCHANGED <<ctr, placement, rows, task, pass, booted>>
HostUp(h) ==
    /\ h \in down /\ down' = down \ {h}
    /\ UNCHANGED <<ctr, placement, rows, task, pass, booted, faults>>
\* A container exits, is started again by Docker, or removed by hand.
ContainerChanges(r) ==
    /\ Fault
    /\ \/ ctr[r].st = "up" /\ ctr' = [ctr EXCEPT ![r].st = "stopped"]
       \/ ctr[r].st = "stopped" /\ ctr' = [ctr EXCEPT ![r].st = "up"]
       \/ ctr[r].st \in {"up", "stopped"} /\ ctr' = [ctr EXCEPT ![r].st = "gone"]
    /\ UNCHANGED <<placement, rows, task, pass, down, booted>>
\* The process dies; its successor knows nothing until its boot has listed.
Restart ==
    /\ booted /\ Fault
    /\ rows' = {} /\ placement' = [r \in Replicas |-> NoHost]
    /\ task' = [t \in Tasks |-> NoTask] /\ pass' = [p \in Passes |-> NoPass]
    /\ booted' = FALSE
    /\ UNCHANGED <<ctr, down>>

Init ==
    /\ ctr = [r \in Replicas |-> [st |-> "new", host |-> NoHost]]
    /\ placement = [r \in Replicas |-> NoHost]
    /\ rows = {} /\ down = {} /\ booted = FALSE /\ faults = 0
    /\ task = [t \in Tasks |-> NoTask] /\ pass = [p \in Passes |-> NoPass]

PassStep(p) ==
    \/ EndPass(p)
    \/ \E h \in Hosts : ListManaged(p, h) \/ ListReplicas(p, h)
    \/ \E h \in down : HostFails(p, h)
Next ==
    \/ \E t \in Tasks : \/ CreateAndStart(t) \/ InsertPlacement(t) \/ SpawnFails(t)
                        \/ StopOk(t) \/ StopFails(t)
                        \/ \E r \in Replicas : PickHost(t, r) \/ Stop(t, r)
    \/ \E p \in Passes : \/ Begin(p) \/ PassStep(p)
                         \/ \E h \in Hosts : HostFails(p, h)
    \/ \E r \in Replicas : RemoveContainer(r) \/ ContainerChanges(r)
    \/ \E h \in Hosts : HostDown(h) \/ HostUp(h)
    \/ Restart

Spec == Init /\ [][Next]_vars
\* The scaler's tick reconciles every ten seconds and a listing always ends:
\* each host has ten seconds.
FairSpec ==
    /\ Spec
    /\ \A p \in Passes : WF_vars(PassStep(p)) /\ WF_vars(Begin(p))

----------------------------------------------------------------------------
(***************************************************************************)
(* Properties.                                                             *)
(***************************************************************************)
\* A row is pruned as missing only when its container is gone: a host that
\* failed, or timed out half way through its two queries, proves nothing.
NoFalseMissing ==
    [][\A p \in Passes : pass[p].pc = "liveness" /\ pass'[p].pc = "idle" /\ booted'
         => \A r \in rows \ rows' : ctr[r].st = "gone"]_vars

\* The map recovers what races lost: the entry of a replica that a listing,
\* begun before its container was there, removed again; and entries of
\* containers that are gone, put back by a listing that still saw them, do not
\* count against their host for ever.
PlacementHeals ==
    \A r \in Replicas :
        /\ r \in rows /\ ctr[r].st = "up"
             ~> \/ placement[r] = ctr[r].host \/ r \notin rows
                \/ ctr[r].st # "up" \/ ctr[r].host \in down
        /\ placement[r] # NoHost /\ ctr[r].st = "gone"
             ~> placement[r] = NoHost \/ placement[r] \in down

\* The comment at the search of stop: "Placement miss (never listed, or its
\* host left the config): try every host" (multihost.rs:507). With every host
\* up, a stop that ends has removed the container.
StopSearchesEveryHost ==
    [][\A t \in Tasks : task[t].pc = "try" /\ task'[t].pc = "idle" /\ booted'
                        /\ down = {} /\ faults' = faults
         => ctr'[task[t].r].st = "gone"]_vars
=============================================================================
