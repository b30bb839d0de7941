----------------------------- MODULE SpecConfig -----------------------------
(***************************************************************************)
(* What a spec says and what Ruscker makes of it: the effective_* values   *)
(* the proxy and the scaler act on, and the warnings of check_spec.        *)
(*                                                                         *)
(* An Option is a set of at most one element. The integer types are scaled *)
(* down, their order and their wrap-around kept: what one type holds and   *)
(* another does not is a number of the model too.                          *)
(***************************************************************************)
EXTENDS Integers, FiniteSets

None == {}
OrElse(o, d) == IF o = None THEN d ELSE o
UnwrapOr(o, d) == CHOOSE x \in OrElse(o, {d}) : TRUE

u16 == 0..255
u32 == 0..1023
i64 == -2048..2047
u64 == 0..4095
Wrap(n) == IF n \in i64 THEN n ELSE n - 4096                \* u64 as i64
Saturate(n) == IF n > 2047 THEN 2047 ELSE IF n < -2048 THEN -2048 ELSE n

DEFAULT_MAX_REPLICAS == 5
DEFAULT_SEATS_PER_APP == 10
DEFAULT_SCALE_DOWN_COOLDOWN_SECS == 60
DEFAULT_MFA_VALIDITY_DAYS == 7
MAX_MFA_VALIDITY_DAYS == 30

Type == [container_port |-> u16, mfa_validity_days |-> u16, seats_per_container |-> u32,
         min_replicas |-> u32, max_replicas |-> u32,
         concurrent_requests_per_replica |-> u32, heartbeat_timeout |-> i64,
         max_lifetime |-> u64, container_lifetime |-> u64, container_wait_time |-> u64,
         scale_down_grace |-> u64, scale_down_cooldown_secs |-> u64,
         drain_timeout |-> u64]
Ints  == DOMAIN Type
Flags == {"featured", "stop_on_logout", "require_mfa", "add_default_http_headers",
          "anti_affinity", "inject_base_href"}
Sizes == {"container_memory_limit", "container_memory_request", "max_body_size"}
Cpus  == {"container_cpu_limit", "container_cpu_request"}
Lines == {"platform", "docker_registry_domain", "docker_registry_username",
          "docker_registry_credential"}
RoutingStrategy == {"least-connections", "round-robin", "weighted-random", "resource-aware"}
Placement == {"spread", "bin-pack"}
AppFamily == {"app", "streamlit", "dash", "voila"}
Overrides == AppFamily \cup {"shiny", "api", "external"}

\* What Rust's types let a spec say.
Option(o, T) == o \subseteq T /\ \A x, y \in o : x = y
WellTyped(s) ==
    /\ \A f \in Ints : Option(s.int[f], Type[f])
    /\ \A f \in Flags : Option(s.flag[f], BOOLEAN)
    /\ Option(s.kind_override, Overrides) /\ Option(s.type, s.type) /\ Option(s.api, s.api)
    /\ Option(s.routing_strategy, RoutingStrategy) /\ Option(s.placement, Placement)
    /\ \A a \in s.api : Option(a.port, u16) /\ a.cors \in BOOLEAN

\* Spec::default: nothing is said.
DefaultSpec ==
    [display_name |-> None, description |-> None, kind_override |-> None,
     container_image |-> None, int |-> [f \in Ints |-> None],
     up |-> None, down |-> None,               \* thresholds, in quarters
     flag |-> [f \in Flags |-> None], size |-> [f \in Sizes |-> None],
     cpu |-> [f \in Cpus |-> None], api |-> None, claims |-> {},
     routing_strategy |-> None, placement |-> None,
     volumes |-> {}, labels |-> {}, network |-> None, env |-> {}, cmd |-> {},
     line |-> [f \in Lines |-> None],
     password |-> None, groups |-> {}, users |-> {},
     type |-> None, props |-> {}]              \* template-properties

----------------------------------------------------------------------------
(***************************************************************************)
(* Effective values.                                                       *)
(***************************************************************************)
kind(s) ==
    CASE s.kind_override \in {{k} : k \in AppFamily} -> "interactive"
      [] s.kind_override # None /\ s.kind_override \notin {{k} : k \in AppFamily} ->
           UnwrapOr(s.kind_override, "")
      [] s.kind_override = None ->
           IF s.container_image # None THEN "shiny" ELSE "external"
Runs(s) == kind(s) # "external"
effective_seats(s) ==
    UnwrapOr(s.int.seats_per_container,
             CASE kind(s) = "api" -> 100 [] kind(s) = "external" -> 0
               [] kind(s) \in {"shiny", "interactive"} -> DEFAULT_SEATS_PER_APP)
is_open(s) == s.groups = {} /\ s.users = {}
Smaller(a, b) == IF a < b THEN a ELSE b
Larger(a, b)  == IF a < b THEN b ELSE a
effective_mfa_validity_days(s) ==
    Smaller(UnwrapOr(s.int.mfa_validity_days, DEFAULT_MFA_VALIDITY_DAYS),
            MAX_MFA_VALIDITY_DAYS)
effective_identity_claims(s) == s.claims \cap {"email", "setor"}
effective_min_replicas(s) == UnwrapOr(s.int.min_replicas, 0)
effective_max_replicas(s) ==
    UnwrapOr(s.int.max_replicas,
             IF Runs(s) THEN Larger(effective_min_replicas(s), DEFAULT_MAX_REPLICAS)
             ELSE 0)
\* Minutes to seconds, after a cast that a large number does not survive.
lifetime_secs(o) == {Saturate(Wrap(m) * 60) : m \in o}
effective_drain_timeout_secs(s) == UnwrapOr({Wrap(n) : n \in s.int.drain_timeout}, 60)
\* An unset flag is false, except the base-href rewriting.
FlagSet(s, f) == UnwrapOr(s.flag[f], f = "inject_base_href")
effective_routing(s) ==
    UnwrapOr(s.routing_strategy, IF kind(s) = "api" THEN "round-robin" ELSE "least-connections")
effective_placement(s) == UnwrapOr(s.placement, "spread")
effective_scale_down_cooldown_secs(s) ==
    UnwrapOr(s.int.scale_down_cooldown_secs, DEFAULT_SCALE_DOWN_COOLDOWN_SECS)
effective_concurrent_requests_per_replica(s) ==
    UnwrapOr(s.int.concurrent_requests_per_replica, 100)
\* What the API block says of one thing, if there is a block.
api_says(s, f) == UNION {a[f] : a \in s.api}
needs_sticky_sessions(s) == kind(s) \in {"shiny", "interactive"}
effective_inner_port(s) ==
    OrElse(s.int.container_port,
    OrElse(api_says(s, "port"),
    OrElse(CASE s.kind_override = {"streamlit"} -> {8501}
             [] s.kind_override = {"dash"} -> {8050}
             [] s.kind_override = {"voila"} -> {8866}
             [] s.kind_override \notin {{"streamlit"}, {"dash"}, {"voila"}} -> None,
           IF kind(s) = "api" THEN {8080} ELSE None)))
\* A size is <<number, suffix>>; the product is cast from a float, which
\* stops at the largest i64.
Multiplier == [b |-> 1, k |-> 1024, m |-> 2048, g |-> 4096, none |-> 1]
parse_memory_string(o) ==
    {Saturate(x[1] * Multiplier[x[2]]) :
        x \in {y \in o : y[2] \in DOMAIN Multiplier /\ y[1] >= 0}}
effective_max_body_bytes(s, global) ==
    OrElse(parse_memory_string(s.size.max_body_size), global)
\* <<count, unit>>; 0 is no limit that can be meant.
parse_rate_limit(o) ==
    {x \in o : x[1] \in u32 \ {0} /\ x[2] \in {"s", "m", "h"}}

----------------------------------------------------------------------------
(***************************************************************************)
(* check_spec, each warning by its name.                                   *)
(***************************************************************************)
KNOWN_TYPES == {"app", "package", "talk", "report", "api"}
is_reserved_label_key(k) == k = "ruscker."
Warn(name, when) == IF when THEN {name} ELSE {}
MfaWarnings(s) ==
    LET days == s.int.mfa_validity_days IN
    Warn("MfaValidityOutOfRange", \E d \in days : d > MAX_MFA_VALIDITY_DAYS)
    \cup Warn("MfaValidityWithoutRequire", days # None /\ ~FlagSet(s, "require_mfa"))
    \cup Warn("MfaOnExternalSpec", FlagSet(s, "require_mfa") /\ ~Runs(s))
ReplicaWarnings(s) ==
    LET min == effective_min_replicas(s)
        max == effective_max_replicas(s) IN
    Warn("InvalidReplicaRange", max < min)
    \cup Warn("ReplicaCeilingZero", Runs(s) /\ max = 0 /\ max >= min)
ImageWarnings(s) ==
    Warn("MissingContainerImage", Runs(s) /\ s.container_image = None)
    \cup Warn("ExternalWithContainerImage", ~Runs(s) /\ s.container_image # None)
    \cup Warn("ZeroSeats", Runs(s) /\ s.int.seats_per_container = {0})
    \cup Warn("SpecLackingContainerHasContainerFields",
              /\ s.container_image = None
              /\ \/ s.int.seats_per_container # None \/ s.password # None
                 \/ s.int.max_lifetime # None)
\* The defaults here, .8 and .3, are in quarters rounded to 3 and 1.
ThresholdWarnings(s) ==
    LET up == UnwrapOr(s.up, 3)
        down == UnwrapOr(s.down, 1) IN
    Warn("InvalidScaleThreshold",
         (s.up # None \/ s.down # None) /\ (up <= down \/ up > 4 \/ down < 0))
LimitWarnings(s) ==
    Warn("InvalidRateLimit", \E a \in s.api : a.rate # None /\ parse_rate_limit(a.rate) = None)
    \cup Warn("InvalidMaxBodySize",
              s.size.max_body_size # None /\ effective_max_body_bytes(s, None) = None)
    \cup Warn("InvalidCpuLimit", \E f \in Cpus : \E v \in s.cpu[f] : v <= 0)
    \cup Warn("InvalidMemoryLimit", \E f \in Sizes \ {"max_body_size"} :
              s.size[f] # None /\ parse_memory_string(s.size[f]) = None)
HostWarnings(s) ==
    Warn("InvalidVolume", "bad" \in s.volumes)
    \cup Warn("ReservedLabelKey", \E k \in s.labels : is_reserved_label_key(k))
    \cup Warn("InvalidLabelKey", "bad" \in s.labels)
    \cup Warn("InvalidContainerNetwork", s.network = {"bad"})
check_spec(s) ==
    Warn("EmptyDisplayName", s.display_name = None)
    \cup Warn("EmptyDescription", s.description = None)
    \cup MfaWarnings(s)
    \cup Warn("UnknownTypeProperty", \E t \in s.type : t \notin KNOWN_TYPES)
    \cup ReplicaWarnings(s) \cup ImageWarnings(s) \cup ThresholdWarnings(s)
    \cup LimitWarnings(s) \cup HostWarnings(s)
=============================================================================
