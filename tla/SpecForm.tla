------------------------------ MODULE SpecForm ------------------------------
(***************************************************************************)
(* The spec form: a page filled from a spec (or from none, or from one to  *)
(* be duplicated), what is typed into it, its validation, and the spec it  *)
(* is turned back into on top of the one it replaces. Who else writes the  *)
(* row meanwhile is in Catalog; here one page is open at a time.           *)
(*                                                                         *)
(* The text of an empty input is {}, that of a number n is {n}; a text     *)
(* that is no number behaves like a number no type holds. The text of a    *)
(* list is the set of entries it will be split into: their order and blank *)
(* edges are left out.                                                     *)
(***************************************************************************)
EXTENDS SpecConfig

CONSTANTS
    FileSpecs,     \* specs the page may start from, as a YAML file has them
    Respelt,       \* entries of a list that their input does not give back:
                   \* a name with a comma, a value of two lines, an empty one;
                   \* each with the entries it comes back as
    NumberTexts,   \* what is typed into a number input
    EditorGroups,  \* groups of the editor
    MaxTyped,      \* bound on inputs changed
    MaxPages       \* bound on pages opened

VARIABLES
    spec,    \* the stored spec
    copy,    \* the spec made by duplicating it: {} or one
    page,    \* "none", "edit", "copy" or "new"
    who,     \* role of the open page's user
    form,
    touched, \* inputs changed since the page opened
    typed,   \* ... in all
    pages    \* pages opened

vars == <<spec, copy, page, who, form, touched, typed, pages>>

Types   == {"app", "talk", "report", "package", "api", "link"}
Inputs  == Ints \cup {"api_port"}
Managed == {"state", "updated", "subject"}    \* properties the form renders

\* The form of new_form: an app, active, with the base-href box ticked.
BlankForm ==
    [id |-> "", display_name |-> None, description |-> None, type |-> "app",
     container_image |-> None, text |-> [f \in Inputs |-> None],
     up |-> None, down |-> None, ticks |-> {"inject_base_href"}, cors |-> FALSE,
     rate |-> None, docs |-> None, health |-> None, size |-> [f \in Sizes |-> None],
     cpu |-> [f \in Cpus |-> None], routing |-> None, placement |-> None, claims |-> {},
     volumes |-> {}, network |-> None, env |-> {}, cmd |-> {},
     line |-> [f \in Lines |-> None], password |-> None, groups |-> {}, users |-> {},
     props |-> {"state"}]

----------------------------------------------------------------------------
(***************************************************************************)
(* From a spec to a form and back.                                         *)
(***************************************************************************)
DisplayType(s) ==
    IF s.type \cap Types # {} THEN UnwrapOr(s.type, "")
    ELSE CASE kind(s) = "api" -> "api" [] kind(s) = "external" -> "link"
           [] kind(s) \in {"shiny", "interactive"} -> "app"
FromNumber(s, f) ==
    IF f = "api_port" THEN api_says(s, "port")
    ELSE IF f = "mfa_validity_days"
         THEN {Smaller(d, MAX_MFA_VALIDITY_DAYS) : d \in s.int[f]}
    ELSE s.int[f]
\* A list's entries are joined, with commas or line breaks, and split there
\* and trimmed when the form is read back (list_to_vec, lines_to_vec,
\* parse_env): a break inside an entry splits it, an empty entry is dropped.
list_to_vec(texts) ==
    UNION {IF t \in DOMAIN Respelt THEN Respelt[t] ELSE {t} : t \in texts}
\* An empty text fills no input, and comes back as none.
empty_to_none(o) == o \ {""}
\* A password is never shown, a label has no input.
from_spec(s) ==
    [id |-> "good", display_name |-> empty_to_none(s.display_name),
     description |-> empty_to_none(s.description),
     type |-> DisplayType(s), container_image |-> empty_to_none(s.container_image),
     text |-> [f \in Inputs |-> FromNumber(s, f)], up |-> s.up, down |-> s.down,
     ticks |-> {f \in Flags : FlagSet(s, f)},
     cors |-> \E a \in s.api : a.cors, rate |-> api_says(s, "rate"),
     docs |-> empty_to_none(api_says(s, "docs")),
     health |-> empty_to_none(api_says(s, "health")), size |-> s.size, cpu |-> s.cpu,
     routing |-> s.routing_strategy, placement |-> s.placement,
     claims |-> effective_identity_claims(s), volumes |-> list_to_vec(s.volumes),
     network |-> empty_to_none(s.network), env |-> list_to_vec(s.env),
     cmd |-> list_to_vec(s.cmd), line |-> [f \in Lines |-> empty_to_none(s.line[f])],
     password |-> None, groups |-> list_to_vec(s.groups), users |-> list_to_vec(s.users),
     props |-> (s.props \cap Managed) \cup {"state"}]

kind_override_of_Plain(t, base) ==
    CASE t \in {"app", "talk", "report"} -> {"shiny"}
      [] t \in {"package", "link"} -> {"external"}
      [] t = "api" -> {"api"}
kind_override_of(t, base) ==
    CASE t = "app" -> IF base.kind_override \cap AppFamily # {} THEN base.kind_override
                      ELSE {"shiny"}
      [] t \in {"talk", "report"} -> base.kind_override
      [] t \in {"package", "link"} -> {"external"}
      [] t = "api" -> {"api"}
\* Some(true) or None; the box whose default is true is Some(false) or None.
checkbox_opt(f, ticks) ==
    IF f = "inject_base_href" THEN IF f \in ticks THEN None ELSE {FALSE}
    ELSE IF f \in ticks THEN {TRUE} ELSE None
parse_opt(text, type) == text \cap type
ApiFilled(f) == \/ f.cors \/ f.docs # None \/ f.health # None
                \/ f.rate # None \/ f.text.api_port # None
\* What an editor posts does not touch the volumes; what no input shows (other
\* properties, labels, other claims, a password left blank) is the base's.
VolumesOf(f, base, role) == IF role = "admin" THEN f.volumes ELSE base.volumes
into_spec(f, base, role) ==
    [display_name |-> f.display_name, description |-> f.description,
     kind_override |-> kind_override_of(f.type, base),
     container_image |-> IF f.type \in {"package", "link"} THEN None
                         ELSE f.container_image,
     int |-> [i \in Ints |-> parse_opt(f.text[i], Type[i])],
     up |-> f.up, down |-> f.down,
     flag |-> [i \in Flags |-> checkbox_opt(i, f.ticks)], size |-> f.size, cpu |-> f.cpu,
     api |-> IF f.type = "api" \/ ApiFilled(f)
             THEN {[port |-> parse_opt(f.text.api_port, u16), rate |-> f.rate,
                    cors |-> f.cors, docs |-> f.docs, health |-> f.health]}
             ELSE None,
     routing_strategy |-> f.routing \cap RoutingStrategy,
     placement |-> f.placement \cap Placement,
     claims |-> (base.claims \ {"email", "setor"}) \cup f.claims,
     volumes |-> VolumesOf(f, base, role), labels |-> base.labels,
     network |-> f.network, env |-> f.env, cmd |-> f.cmd, line |-> f.line,
     password |-> OrElse(f.password, base.password),
     groups |-> f.groups, users |-> f.users, type |-> {f.type},
     props |-> ((base.props \ (Managed \cup {"icon", "locked"})) \cup f.props)
               \cup {"updated"}]

\* is_kebab_id, is_valid_env_key, is_valid_volume_bind and
\* is_valid_network_name decide what is "bad".
CountErrors(f) ==
    Warn("max-replicas-zero", \E n \in f.text.max_replicas \cap i64 : n <= 0)
    \cup Warn("replica-range", \E min \in f.text.min_replicas \cap u32,
                                  max \in f.text.max_replicas \cap u32 : max < min)
NumberInputs(f) == Inputs
NumberErrors(f) ==
    Warn("number", \/ \E i \in NumberInputs(f) : ~(f.text[i] \subseteq i64)
                   \/ ~(f.text.container_wait_time \subseteq u64))
    \cup Warn("mfa-days", \E n \in f.text.mfa_validity_days \cap i64 :
                             n \notin 0..MAX_MFA_VALIDITY_DAYS)
    \cup Warn("port", \E i \in {"container_port", "api_port"} :
                          ~(f.text[i] \subseteq u16 \ {0}))
validate(f) ==
    Warn("id", f.id # "good") \cup Warn("name-required", f.display_name = None)
    \cup NumberErrors(f) \cup CountErrors(f)
    \cup Warn("cpu", \E i \in Cpus : \E v \in f.cpu[i] : v <= 0)
    \cup Warn("memory", \E i \in Sizes : f.size[i] # None /\ parse_memory_string(f.size[i]) = None)
    \cup Warn("threshold", \E v \in f.up \cup f.down : v \notin 1..4)
    \cup Warn("volume", "bad" \in f.volumes) \cup Warn("network", f.network = {"bad"})
    \cup Warn("env", "bad" \in f.env)

----------------------------------------------------------------------------
(***************************************************************************)
(* The scope of the page's user (scope.rs).                                *)
(***************************************************************************)
Visible(role, gs) == IF role = "editor" THEN gs \cap EditorGroups ELSE gs
may_assign_groups(gs) == who = "editor" => gs \subseteq EditorGroups
may_touch_spec(role, s) ==
    role = "editor" => is_open(s) \/ s.groups \cap EditorGroups # {}
Merged(existing, gs) ==
    IF who = "editor" THEN (existing \ EditorGroups) \cup gs ELSE gs

----------------------------------------------------------------------------
(***************************************************************************)
(* Pages.                                                                  *)
(***************************************************************************)
Init ==
    /\ spec \in FileSpecs
    /\ copy = None /\ page = "none" /\ who = "admin" /\ form = BlankForm
    /\ touched = 0 /\ typed = 0 /\ pages = 0

\* The groups shown are the ones the user may see, of those there are. The
\* volumes have an input on an admin's page only.
Filled(role) == [from_spec(spec) EXCEPT !.groups = list_to_vec(Visible(role, spec.groups))]
Show(kindOfPage, role, f) ==
    /\ page = "none" /\ pages < MaxPages /\ pages' = pages + 1
    /\ page' = kindOfPage /\ who' = role /\ touched' = 0
    /\ form' = IF role = "admin" THEN f ELSE [f EXCEPT !.volumes = {}]
    /\ UNCHANGED <<spec, copy, typed>>
edit_form(role) ==
    /\ may_touch_spec(role, spec)
    /\ Show("edit", role, Filled(role))
new_form(role) == copy = None /\ Show("new", role, BlankForm)
duplicate_form(role) ==
    /\ copy = None /\ may_touch_spec(role, spec)
    /\ Show("copy", role, Filled(role))

Put(f) == /\ page # "none" /\ typed < MaxTyped /\ f # form
          /\ form' = f /\ touched' = touched + 1 /\ typed' = typed + 1
          /\ UNCHANGED <<spec, copy, page, who, pages>>
TypeNumber == \E i \in Inputs, t \in NumberTexts : Put([form EXCEPT !.text[i] = t])
TypeText ==
    \/ \E t \in Types : Put([form EXCEPT !.type = t])
    \/ \E i \in {"", "good"} : page # "edit" /\ Put([form EXCEPT !.id = i])
    \/ \E n \in {None, {"name"}} : Put([form EXCEPT !.display_name = n])
    \/ \E n \in {None, {"image"}} : Put([form EXCEPT !.container_image = n])
    \/ \E n \in {None, {1}, {4}, {5}} : Put([form EXCEPT !.up = n]) \/ Put([form EXCEPT !.down = n])
    \/ \E x \in {<<0, "m">>, <<1, "day">>} : Put([form EXCEPT !.rate = {x}])
    \/ \E x \in RoutingStrategy : Put([form EXCEPT !.routing = {x}])
    \/ \E x \in Placement : Put([form EXCEPT !.placement = {x}])
    \/ \E i \in Sizes, x \in {<<-1, "m">>, <<1, "x">>, <<4, "g">>} : Put([form EXCEPT !.size[i] = {x}])
    \/ \E i \in Cpus, n \in {0, 1} : Put([form EXCEPT !.cpu[i] = {n}])
    \/ \E v \in SUBSET {"good", "bad"} : Put([form EXCEPT !.volumes = v])
    \/ \E n \in {None, {"good"}, {"bad"}} : Put([form EXCEPT !.network = n])
    \/ \E v \in {"good", "bad"} : Put([form EXCEPT !.env = {v}])
    \/ \E gs \in SUBSET EditorGroups : Put([form EXCEPT !.groups = gs])
Tick ==
    \/ \E f \in Flags : Put([form EXCEPT !.ticks = (@ \ {f}) \cup ({f} \ @)])
    \/ \E c \in {"email", "setor"} : Put([form EXCEPT !.claims = (@ \ {c}) \cup ({c} \ @)])
    \/ Put([form EXCEPT !.cors = ~@])

Close == /\ page' = "none" /\ form' = BlankForm /\ touched' = 0 /\ who' = "admin"
         /\ UNCHANGED <<typed, pages>>
Abandon == page # "none" /\ Close /\ UNCHANGED <<spec, copy>>

\* update: validate, build the candidate on the stored spec, then the scope on
\* what was asked for and on the outcome.
Candidate == [into_spec(form, spec, who) EXCEPT !.groups = Merged(spec.groups, @)]
update ==
    /\ page = "edit" /\ validate(form) = {}
    /\ may_assign_groups(form.groups) /\ may_touch_spec(who, Candidate)
    /\ spec' = Candidate
    /\ Close /\ UNCHANGED copy
\* create: no base. The id of a copy is fresh.
Created == into_spec(form, DefaultSpec, who)
create ==
    /\ page \in {"copy", "new"} /\ validate(form) = {}
    /\ may_assign_groups(Created.groups) /\ may_touch_spec(who, Created)
    /\ copy' = {Created}
    /\ Close /\ UNCHANGED spec

Next == \/ \E role \in {"admin", "editor"} :
              edit_form(role) \/ new_form(role) \/ duplicate_form(role)
        \/ TypeNumber \/ TypeText \/ Tick \/ Abandon \/ update \/ create
Spec == Init /\ [][Next]_vars

----------------------------------------------------------------------------
(***************************************************************************)
(* Properties.                                                             *)
(***************************************************************************)
\* What a running Ruscker can tell about a spec, of what a page shows whoever
\* opened it: how the proxy routes and admits, when the scaler adds, keeps,
\* drains and reaps, what container the backend makes and where.
Behaviour(s) ==
    [kind |-> kind(s), port |-> effective_inner_port(s),
     routing |-> effective_routing(s), sticky |-> needs_sticky_sessions(s),
     flags |-> {f \in Flags : FlagSet(s, f)}, users |-> s.users,
     mfa |-> effective_mfa_validity_days(s), claims |-> effective_identity_claims(s),
     rate |-> parse_rate_limit(api_says(s, "rate")), cors |-> \E a \in s.api : a.cors,
     docs |-> api_says(s, "docs"), health |-> api_says(s, "health"),
     body |-> effective_max_body_bytes(s, None),
     seats |-> effective_seats(s), min |-> effective_min_replicas(s),
     max |-> effective_max_replicas(s), up |-> s.up, down |-> s.down,
     requests |-> effective_concurrent_requests_per_replica(s),
     heartbeat |-> s.int.heartbeat_timeout, wait |-> s.int.container_wait_time,
     grace |-> s.int.scale_down_grace, cooldown |-> effective_scale_down_cooldown_secs(s),
     life |-> lifetime_secs(s.int.max_lifetime),
     age |-> lifetime_secs(s.int.container_lifetime),
     drain |-> effective_drain_timeout_secs(s),
     image |-> s.container_image, cmd |-> s.cmd, env |-> s.env, network |-> s.network,
     line |-> [f \in Lines |-> s.line[f]], cpu |-> s.cpu, placement |-> effective_placement(s),
     memory |-> [f \in Sizes |-> parse_memory_string(s.size[f])]]
\* And of what depends on who opened it, or has no input.
Meaning(s) ==
    [behaviour |-> Behaviour(s), groups |-> s.groups, volumes |-> s.volumes,
     labels |-> s.labels, password |-> s.password, extra |-> s.props \cap {"extra"}]
\* Every text of the spec is one its input gives back.
ReadsBack(s) ==
    /\ (s.groups \cup s.users \cup s.env \cup s.cmd \cup s.volumes) \cap DOMAIN Respelt = {}
    /\ "" \notin s.container_image \cup s.network \cup UNION {s.line[f] : f \in Lines}
    /\ "" \notin api_says(s, "docs") \cup api_says(s, "health")
\* The type shown is one the spec's kind has.
Coherent(s) ==
    CASE DisplayType(s) = "app" -> kind(s) \in {"shiny", "interactive"}
      [] DisplayType(s) = "api" -> kind(s) = "api"
      [] DisplayType(s) \in {"package", "link"} -> ~Runs(s) /\ s.container_image = None
      [] DisplayType(s) \in {"talk", "report"} -> TRUE

\* A save writes what the page stood for. "An untouched field round-trips"
\* (spec_form.rs:847), and what has no input passes through: an edit form
\* saved as it was opened leaves everything the proxy, the scaler and the
\* access check go by, if the spec's type agrees with its kind and its texts
\* are ones their inputs give back. (A group whose name has a comma does not
\* round-trip: its spec is saved with two groups in its place.) A copy saved
\* as it was opened runs like its source, unless that is a talk, a report or
\* an app of a kind of its own; groups, volumes, labels and the password are
\* not its source's. And an editor's save brings no volume to a
\* spec and takes none from it, whatever it posts: the field is hidden from
\* its page, so the posted value would empty every spec an editor saves.
SavesFaithful ==
    [][/\ update /\ touched = 0 /\ Coherent(spec) /\ ReadsBack(spec) =>
            Meaning(spec') = Meaning(spec)
       /\ create /\ page = "copy" /\ touched = 0 /\ Coherent(spec) /\ ReadsBack(spec)
            /\ DisplayType(spec) \notin {"talk", "report"}
            /\ spec.kind_override \cap AppFamily = {} =>
          \A c \in copy' : Behaviour(c) = Behaviour(spec)
       /\ who = "editor" /\ (update \/ create) =>
            /\ spec'.volumes = spec.volumes
            /\ \A c \in copy' \ copy : c.volumes = {}]_vars

\* The specs a form has written.
Written == copy \cup (IF "updated" \in spec.props THEN {spec} ELSE {})

\* A spec the form accepted can run: its ceiling lets a replica start and is
\* not under its floor, its ages are not in the past (the scaler would reap a
\* fresh replica at once), and its limits, network and trust window are ones
\* the rest of Ruscker takes.
CanRun(s) ==
    /\ Runs(s) => /\ effective_max_replicas(s) >= 1
                  /\ effective_max_replicas(s) >= effective_min_replicas(s)
    /\ \A n \in lifetime_secs(s.int.max_lifetime) \cup lifetime_secs(s.int.container_lifetime)
                \cup {effective_drain_timeout_secs(s)} : n >= 0
    /\ check_spec(s) \cap {"InvalidCpuLimit", "InvalidMemoryLimit", "InvalidMaxBodySize",
            "InvalidContainerNetwork", "MfaValidityOutOfRange", "EmptyDisplayName"} = {}
FormSpecsCanRun == \A s \in Written : CanRun(s)
=============================================================================
