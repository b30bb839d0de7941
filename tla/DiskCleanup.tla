----------------------------- MODULE DiskCleanup -----------------------------
(***************************************************************************)
(* The disk page: removing images, volumes and stopped containers from the *)
(* Docker hosts while spawns, pulls and catalog edits go on. Every request *)
(* checks what it is about to remove against several readings (the image   *)
(* list, the containers' references, the catalog, the record of what       *)
(* Ruscker pulled) taken one after the other, and removes afterwards.      *)
(* One cleanup request at a time; the rest of the system is the            *)
(* environment. The tags of the model share one repository, so Docker      *)
(* removes an image by id together with all of its tags.                   *)
(***************************************************************************)
EXTENDS Naturals, FiniteSets

CONSTANTS
    Hosts,        \* Docker hosts; a single one is the plain local backend
    Ids,          \* image ids
    Tags,         \* image references
    Containers,   \* container ids
    Volumes,      \* volume names
    None,
    InFile,       \* what the YAML file's specs name: [tags, volumes]
    MaxEnv        \* bound on the environment's steps

VARIABLES
    hosts,      \* the configured hosts, fixed at start
    tagged,     \* on each host, the image id a tag names, or None
    present,    \* on each host, the image ids it stores
    cont,       \* each container, or None
    volume,     \* each volume: "none", "ours" (labelled) or "foreign"
    catalog,    \* what the specs name: [tags, volumes]
    former,     \* what they named before they changed last
    prov,       \* ruscker_images: references pulled through the panel
    req,        \* the cleanup request in progress
    truth,      \* ghost: what was so at each of its readings
    env         \* environment steps so far

catalogs == <<catalog, former>>
world == <<tagged, present, cont, volume, catalogs, prov>>
vars == <<hosts, world, req, truth, env>>

Live == {c \in Containers : cont[c] # None}
UsedOn(h) == {cont[c].image : c \in {d \in Live : cont[d].host = h}}
Mounted == {cont[c].volume : c \in Live}
TagsAt(h, i) == {t \in Tags : tagged[h][t] = i}

Idle == [kind |-> "idle", target |-> None, pc |-> "idle"]
NoTruth == [used |-> {}, tags |-> [i \in Ids |-> {}], catalog |-> [tags |-> {}, volumes |-> {}],
            misled |-> FALSE, mounted |-> {}, stopped |-> {}]

Init ==
    /\ hosts \in {H \in SUBSET Hosts : H = Hosts \/ Cardinality(H) = 1}
    /\ \E i \in Ids : present = [h \in Hosts |-> {i}]
                      /\ tagged = [h \in Hosts |-> [t \in Tags |-> i]]
    /\ cont = [c \in Containers |-> None]
    /\ volume = [v \in Volumes |-> "none"]
    /\ catalog = [tags |-> Tags, volumes |-> {}] /\ former = catalog
    /\ prov \in {{}, Tags}
    /\ req = Idle /\ truth = NoTruth /\ env = 0

-----------------------------------------------------------------------------
(* The environment. *)

Happens == env < MaxEnv /\ env' = env + 1 /\ UNCHANGED <<hosts, req, truth>>

\* Docker moves the tag to the image it fetched; the old image keeps its id.
Fetched(h, t, i) ==
    /\ tagged' = [tagged EXCEPT ![h][t] = i]
    /\ present' = [present EXCEPT ![h] = @ \cup {i}]

\* The Pull button: the reference is recorded when the pull starts, whether
\* or not an image ever arrives.
Remembered(t) == prov \cup {t}
PullStarts(t) ==
    /\ Happens /\ prov' = Remembered(t)
    /\ UNCHANGED <<tagged, present, cont, volume, catalogs>>
PullLands(h, t, i) ==
    /\ Happens /\ h \in hosts /\ t \in prov /\ Fetched(h, t, i)
    /\ UNCHANGED <<cont, volume, catalogs, prov>>

\* Docker gives every container an id of its own: one of the model's is
\* used again only when no request has it on its list.
Free(c) == cont[c] = None /\ (req.pc = "prune" => c \notin req.left)

\* A replica: the image is fetched unless the host has the tag; a volume the
\* spec names is made by Docker, without Ruscker's label.
Spawn(c, h, t, v) ==
    /\ Happens /\ h \in hosts /\ t \in catalog.tags /\ Free(c)
    /\ v \in catalog.volumes \cup {None}
    /\ \/ tagged[h][t] # None /\ UNCHANGED <<tagged, present>>
       \/ tagged[h][t] = None /\ \E i \in Ids : Fetched(h, t, i)
    /\ cont' = [cont EXCEPT ![c] = [host |-> h, image |-> tagged'[h][t], ref |-> t,
                    running |-> TRUE, ours |-> TRUE, volume |-> v]]
    /\ volume' = [u \in Volumes |-> IF u = v /\ volume[u] = "none" THEN "foreign" ELSE volume[u]]
    /\ UNCHANGED <<catalogs, prov>>
Neighbour(c, h, i) ==
    /\ Happens /\ h \in hosts /\ i \in present[h] /\ Free(c)
    /\ cont' = [cont EXCEPT ![c] = [host |-> h, image |-> i, ref |-> None,
                    running |-> TRUE, ours |-> FALSE, volume |-> None]]
    /\ UNCHANGED <<tagged, present, volume, catalogs, prov>>
Exits(c) ==      \* it stops, restarts by its policy, or is removed
    /\ Happens /\ cont[c] # None
    /\ cont' \in {[cont EXCEPT ![c] = None], [cont EXCEPT ![c].running = ~@]}
    /\ UNCHANGED <<tagged, present, volume, catalogs, prov>>
SpecsChange ==
    /\ Happens /\ former' = catalog
    /\ \/ \E t \in Tags : catalog' = [catalog EXCEPT !.tags =
              IF t \in @ THEN @ \ {t} ELSE @ \cup {t}]
       \/ \E v \in Volumes : catalog' = [catalog EXCEPT !.volumes =
              IF v \in @ THEN @ \ {v} ELSE @ \cup {v}]
    /\ UNCHANGED <<tagged, present, cont, volume, prov>>

-----------------------------------------------------------------------------
(* Images. *)

\* What a request goes on with and has read, if it goes on.
Goes(r, t) == req' = r /\ truth' = IF r = Idle THEN NoTruth ELSE t
Go(pc) == [req EXCEPT !.pc = pc]
\* remove_image(id) reads containers, catalog, record; prune_images reads the
\* containers last.
After(pc) == IF req.kind = "remove"
             THEN CASE pc = "list" -> "refs" [] pc = "refs" -> "catalog"
                    [] pc = "catalog" -> "prov" [] pc = "prov" -> "check"
             ELSE CASE pc = "list" -> "catalog" [] pc = "catalog" -> "prov"
                    [] pc = "prov" -> "refs" [] pc = "refs" -> "check"

StartImages ==
    /\ req = Idle
    /\ \E k \in {"remove", "prune"}, i \in Ids :
         req' = [kind |-> k, target |-> IF k = "remove" THEN i ELSE None, pc |-> "list",
                 tags |-> [j \in Ids |-> {}], listed |-> {}, used |-> {}, specs |-> {}, prov |-> {},
                 left |-> {}]
    /\ truth' = NoTruth /\ UNCHANGED <<hosts, world, env>>

\* Merged by id over the hosts that answered; a lone host that does not
\* answer fails the request.
ListImages(H) ==
    /\ req.pc = "list" /\ H \subseteq hosts
    /\ LET merged == [i \in Ids |-> UNION {TagsAt(h, i) : h \in H}] IN
       Goes(IF H = {} /\ Cardinality(hosts) = 1 THEN Idle
            ELSE [Go(After("list")) EXCEPT !.tags = merged,
                                          !.listed = UNION {present[h] : h \in H}],
            [truth EXCEPT !.tags = merged])
    /\ UNCHANGED <<hosts, world, env>>

\* Every container's image id and reference, on every host: one host that
\* does not answer fails the reading, and the request with it.
RefsOf(H) == {r \in UNION {{cont[c].image, cont[c].ref} :
                           c \in {d \in Live : cont[d].host \in H}} : r # None}
Answered_Some(H) == TRUE
Answered(H) == H = hosts
ReadRefs(H) ==
    /\ req.pc = "refs" /\ H \subseteq hosts
    /\ Goes(IF Answered(H) THEN [Go(After("refs")) EXCEPT !.used = RefsOf(H)] ELSE Idle,
            [truth EXCEPT !.used = {cont[c].image : c \in Live}])
    /\ UNCHANGED <<hosts, world, env>>
\* effective_specs_cached never fails: the list may be the file's alone, when
\* the database did not answer (now, or when the list was cached), or one
\* that the cache keeps past a change.
Listings == {catalog, former, InFile}
Told(C) == [truth EXCEPT !.misled = C # catalog,
                         !.catalog = IF C = catalog THEN catalog ELSE NoTruth.catalog]
ReadCatalog(C) ==
    /\ req.pc = "catalog" /\ C \in Listings
    /\ Goes([Go(After("catalog")) EXCEPT !.specs = C.tags], Told(C))
    /\ UNCHANGED <<hosts, world, env>>
ReadProvenance ==      \* an error reads as nothing recorded
    /\ req.pc = "prov"
    /\ \E P \in {prov, {}} : req' = [Go(After("prov")) EXCEPT !.prov = P]
    /\ UNCHANGED <<hosts, world, truth, env>>

image_used_by_container(i) == i \in req.used \/ req.tags[i] \cap req.used # {}
image_is_ruscker(i) == req.tags[i] \cap req.prov # {}
image_removable(i) == /\ ~image_used_by_container(i)
                      /\ req.tags[i] \cap req.specs = {}
                      /\ image_is_ruscker(i)

Check ==
    /\ req.pc = "check"
    /\ LET ids == {i \in req.listed : image_removable(i) /\ req.target \in {None, i}}
       IN Goes(IF ids = {} THEN Idle ELSE [Go("removing") EXCEPT !.left = ids \X hosts], truth)
    /\ UNCHANGED <<hosts, world, env>>

\* Never forced: Docker refuses an image that a container of the host uses.
RemoveImage(i, h) ==
    /\ req.pc = "removing" /\ <<i, h>> \in req.left
    /\ LET left == req.left \ {<<i, h>>}
       IN Goes(IF left = {} THEN Idle ELSE [req EXCEPT !.left = left], truth)
    /\ \/ /\ i \in present[h] \ UsedOn(h)
          /\ present' = [present EXCEPT ![h] = @ \ {i}]
          /\ tagged' = [tagged EXCEPT ![h] = [t \in Tags |-> IF @[t] = i THEN None ELSE @[t]]]
       \/ UNCHANGED <<present, tagged>>     \* refused, absent or unreachable
    /\ UNCHANGED <<hosts, cont, volume, catalogs, prov, env>>

\* Reclaim: Docker drops the images without a tag that no container uses.
Reclaim(h) ==
    /\ req = Idle /\ h \in hosts
    /\ present' = [present EXCEPT ![h] = {i \in @ : TagsAt(h, i) # {} \/ i \in UsedOn(h)}]
    /\ UNCHANGED <<hosts, tagged, cont, volume, catalogs, prov, req, truth, env>>

-----------------------------------------------------------------------------
(* Volumes, which only the local backend supports, and containers. *)

CreateVolume(v) ==     \* Docker leaves an existing volume as it is
    /\ req = Idle /\ Cardinality(hosts) = 1
    /\ volume' = [volume EXCEPT ![v] = IF @ = "none" THEN "ours" ELSE @]
    /\ UNCHANGED <<hosts, tagged, present, cont, catalogs, prov, req, truth, env>>

\* The containers are listed before the volumes.
ListMounts(v) ==
    /\ req = Idle /\ Cardinality(hosts) = 1
    /\ req' = [kind |-> "volume", target |-> v, pc |-> "volumes", mounted |-> Mounted]
    /\ truth' = [NoTruth EXCEPT !.mounted = Mounted]
    /\ UNCHANGED <<hosts, world, env>>
ListVolumes ==
    /\ req.pc = "volumes"
    /\ Goes(IF volume[req.target] = "ours" /\ req.target \notin req.mounted
            THEN Go("named") ELSE Idle, truth)
    /\ UNCHANGED <<hosts, world, env>>
named_volume_refs(C) == C.volumes
NamedVolumes(C) ==
    /\ req.pc = "named" /\ C \in Listings
    /\ Goes(IF req.target \in named_volume_refs(C) THEN Idle ELSE Go("drop"), Told(C))
    /\ UNCHANGED <<hosts, world, env>>
RemoveVolume ==        \* Docker refuses a volume that a container mounts
    /\ req.pc = "drop" /\ Goes(Idle, truth)
    /\ volume' = [volume EXCEPT ![req.target] = IF req.target \in Mounted THEN @ ELSE "none"]
    /\ UNCHANGED <<hosts, tagged, present, cont, catalogs, prov, env>>

\* prune_stopped: the containers Ruscker labelled that were stopped when
\* listed, host by host, each removed by force.
ListStopped(h) ==
    /\ req = Idle /\ h \in hosts
    /\ LET s == {c \in Live : cont[c].host = h /\ cont[c].ours /\ ~cont[c].running} IN
       /\ s # {}
       /\ req' = [kind |-> "stopped", target |-> None, pc |-> "prune", left |-> s]
       /\ truth' = [NoTruth EXCEPT !.stopped = s]
    /\ UNCHANGED <<hosts, world, env>>
Gone(c) == cont' = [cont EXCEPT ![c] = None]
PruneStopped(c) ==
    /\ req.pc = "prune" /\ c \in req.left
    /\ Goes(IF req.left = {c} THEN Idle ELSE [req EXCEPT !.left = @ \ {c}], truth)
    /\ Gone(c)
    /\ UNCHANGED <<hosts, tagged, present, volume, catalogs, prov, env>>
\* remove_container: only one that carries Ruscker's label, running or not.
RemoveContainer(c) ==
    /\ req = Idle /\ c \in Live /\ cont[c].ours /\ Gone(c)
    /\ UNCHANGED <<hosts, tagged, present, volume, catalogs, prov, req, truth, env>>

Next ==
    \/ \E t \in Tags : PullStarts(t)
    \/ \E h \in Hosts, t \in Tags, i \in Ids : PullLands(h, t, i)
    \/ \E c \in Containers, h \in Hosts, t \in Tags, v \in Volumes \cup {None} : Spawn(c, h, t, v)
    \/ \E c \in Containers, h \in Hosts, i \in Ids : Neighbour(c, h, i)
    \/ \E c \in Containers : Exits(c) \/ PruneStopped(c) \/ RemoveContainer(c)
    \/ SpecsChange \/ StartImages \/ ReadProvenance \/ Check
    \/ \E C \in Listings : ReadCatalog(C) \/ NamedVolumes(C)
    \/ \E H \in SUBSET Hosts : ListImages(H) \/ ReadRefs(H)
    \/ \E i \in Ids, h \in Hosts : RemoveImage(i, h)
    \/ \E h \in Hosts : Reclaim(h) \/ ListStopped(h)
    \/ \E v \in Volumes : CreateVolume(v) \/ ListMounts(v)
    \/ ListVolumes \/ RemoveVolume

Spec == Init /\ [][Next]_vars

-----------------------------------------------------------------------------
\* What the disk page removes was not needed when it looked: an image is used
\* by no container of any host since before the containers were read, no tag
\* it was listed with was named by a spec when it asked, and one was pulled
\* through Ruscker; a volume was unmounted and unnamed; a pruned container was
\* stopped. Two things are not protected: what a spec names, when the page was
\* misled about the specs (the database failed, or the cached list was not
\* the latest), where disk.rs fails open although containers fail closed; and
\* what came to be needed between the reading and the removal, except that
\* nothing in use on its own host goes.
CleanupStep ==
    /\ \A h \in Hosts : \A i \in present[h] \ present'[h] :
          /\ i \notin UsedOn(h)
          /\ req.pc = "removing" =>
               /\ i \notin truth.used
               /\ truth.misled \/ truth.tags[i] \cap truth.catalog.tags = {}
               /\ truth.tags[i] \cap prov # {}
    /\ \A v \in Volumes : volume[v] # "none" /\ volume'[v] = "none" =>
          /\ v \notin truth.mounted \cup Mounted
          /\ truth.misled \/ v \notin truth.catalog.volumes
    /\ \A c \in Live : cont'[c] = None /\ req.kind = "stopped" /\ env' = env =>
          c \in truth.stopped /\ cont[c].ours
CleanupJustified == [][CleanupStep]_vars
=============================================================================
