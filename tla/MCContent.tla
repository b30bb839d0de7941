----------------------------- MODULE MCContent ------------------------------
(***************************************************************************)
(* Values for the constants of Content.                                    *)
(***************************************************************************)
EXTENDS Content, TLC

CONSTANTS g, h, r1, r2, p, q, i1

(* Catalog: a spec of two groups, alone or beside an open one; the file has  *)
(* it too, as it was before it got its groups.                               *)
Plain  == [groups |-> {}, active |-> TRUE, featured |-> FALSE, dated |-> TRUE, body |-> 1]
Shared == [Plain EXCEPT !.groups = {g, h}, !.dated = FALSE]
At2(c, n) == [here |-> TRUE, content |-> c, version |-> 2, updated |-> n]
Absent == [here |-> FALSE, content |-> Plain, version |-> 0, updated |-> 0]
Histories == (p :> {<<1, Plain>>, <<2, Shared>>})
Tables == { [row  |-> (p :> At2(Shared, 1)) @@ (q :> Absent),
             hist |-> Histories @@ (q :> {})],
            [row  |-> (p :> At2(Shared, 1)) @@ (q :> [At2(Plain, 0) EXCEPT !.version = 1]),
             hist |-> Histories @@ (q :> {<<1, Plain>>})] }
InFile == p :> Plain

(* Spec form: one spec of every kind. *)
Config == INSTANCE SpecConfig
App     == [Config!DefaultSpec EXCEPT !.display_name = {"name"}, !.container_image = {"image"},
               !.env = {"good"}, !.cmd = {"run"}, !.routing_strategy = {"weighted-random"},
               !.placement = {"bin-pack"}, !.line = [@ EXCEPT !["platform"] = {"arm"}],
               !.cpu = [@ EXCEPT !["container_cpu_limit"] = {1}],
               !.size = [@ EXCEPT !["container_memory_limit"] = {<<4, "g">>}],
               !.groups = {"mine", "theirs"}, !.labels = {"good"}, !.password = {"secret"},
               !.volumes = {"good"}, !.claims = {"email", "other"},
               !.props = {"extra", "icon", "locked"},
               !.flag = [@ EXCEPT !["inject_base_href"] = {FALSE}, !["require_mfa"] = {TRUE}]]
Voila   == [App EXCEPT !.kind_override = {"voila"}, !.groups = {}, !.volumes = {"bad"}]
Plumber == [Config!DefaultSpec EXCEPT !.display_name = {"name"}, !.container_image = {"image"},
               !.kind_override = {"api"}, !.users = {"ana"},
               !.api = {[port |-> {80}, rate |-> {<<9, "s">>}, cors |-> TRUE,
                         docs |-> {"/docs"}, health |-> {}]},
               !.int = [@ EXCEPT !.mfa_validity_days = {90}, !.min_replicas = {7},
                                 !.heartbeat_timeout = {-1}, !.container_wait_time = {0},
                                 !.scale_down_grace = {5}, !.scale_down_cooldown_secs = {0},
                                 !.concurrent_requests_per_replica = {3}]]
Talk    == [App EXCEPT !.type = {"talk"}, !.users = {"ana"}]
Doc     == [Config!DefaultSpec EXCEPT !.display_name = {"name"}, !.type = {"package"},
               !.int = [@ EXCEPT !.max_lifetime = {4000}]]
Odd     == [Plumber EXCEPT !.type = {"app"}, !.size = [@ EXCEPT !.max_body_size = {<<1, "x">>}],
               !.groups = {"mine, theirs"}, !.users = {""}, !.env = {"two lines"}]
Spellings == ("mine, theirs" :> {"mine", "theirs"}) @@ ("two lines" :> {"good", "bad"})
             @@ ("" :> {})
Samples == {App, Voila, Plumber, Talk, Doc, Odd}
Numbers == {{}} \cup {{n} : n \in {-1, 0, 6, 256, 1024, 2048, 4096}}

(* Media library: the first name, and one it is a prefix of. *)
Longs == {<<1, 1>>}

Symmetry == Permutations({r1, r2})
=============================================================================
