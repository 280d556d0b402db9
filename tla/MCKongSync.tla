------------------------------- MODULE MCKongSync -------------------------------
(***************************************************************************)
(* Small instances of KongSync: two microservices, /flows and /nexus, each *)
(* with a handful of views, and Kongs as deployments find them.            *)
(***************************************************************************)
EXTENDS KongSync

FlowsPrefix == <<"flows">>
NexusPrefix == <<"nexus">>

\* the paths of the views and Kongs below
MCPath == {<<>>, FlowsPrefix, NexusPrefix, <<"a-pk">>, <<"a", "{pk}">>, <<"flows", "a-pk">>,
           <<"flows", "a", "{pk}">>, <<"flows", "v1", "a">>, <<"flows", "v1", "b", "{pk}">>,
           <<"a", "pk">>, <<"nexus", "a", "pk">>, <<"v1", "a">>, <<"v1", "b", "{pk}">>,
           <<"flows", "reports">>, <<"nexus", "flows", "reports">>}
MCMethod == {"GET", "POST"}
MCTag == {RouteTag, PrefixTag(FlowsPrefix), PrefixTag(NexusPrefix)}
MCPluginName == Rewriter \cup {"request-termination", "rate-limiting"}
MCConfig == [kind : {"replace_uri", "strip_prefix", "captures", "terminate", "other"},
             uri : MCPath, prefix : MCPath]
MCService == {"flows-service", "nexus-service"}
MCUrl == {"http://flows", "http://nexus"}

MCPrefix == [c \in Sync |-> IF c = "nexus" THEN NexusPrefix ELSE FlowsPrefix]
MCTarget == [c \in Sync |-> IF c = "nexus" THEN "nexus-service" ELSE "flows-service"]

-----------------------------------------------------------------------------
(* Views as discover_routes() reports them. *)

View(name, paths, service, upstream, params, mode) ==
    [name |-> name, paths |-> paths, methods |-> {"GET"}, service |-> service,
     upstream |-> upstream, params |-> params, mode |-> mode]

\* The flat alias "a-pk" of /v1/a; later the alias "a/{pk}", which has the same
\* route name and another rewrite mode.
ViewA == View("allow-a-pk", {<<"a-pk">>, <<"flows", "a-pk">>, <<"flows", "v1", "a">>},
              Absent, <<"v1", "a">>, FALSE, "static_uri")
ViewAParam ==
    [View("allow-a-pk", {<<"a", "{pk}">>, <<"flows", "a", "{pk}">>, <<"flows", "v1", "a">>},
          Absent, <<"v1", "a">>, FALSE, "alias_captures") EXCEPT !.methods = {"GET", "POST"}]

\* /v1/b/{pk} without an alias; later with service="nexus-service".
ViewB == View("allow-v1-b-pk", {<<"flows", "v1", "b", "{pk}">>}, "flows-service",
              <<"v1", "b", "{pk}">>, TRUE, "strip_prefix")
ViewBMoved == [ViewB EXCEPT !.service = "nexus-service"]

\* nexus claims the alias "a/pk", again the same route name.
NexusA == View("allow-a-pk", {<<"a", "pk">>, <<"nexus", "a", "pk">>}, Absent,
               <<"v1", "a">>, FALSE, "static_uri")
\* nexus publishes the alias "flows/reports" on the service of flows.
NexusReports == View("allow-flows-reports",
                     {<<"flows", "reports">>, <<"nexus", "flows", "reports">>},
                     "flows-service", <<"v1", "a">>, FALSE, "static_uri")

Real == [prune |-> TRUE, force |-> FALSE, dry |-> FALSE]
NoPrune == [Real EXCEPT !.prune = FALSE]
Dry == [Real EXCEPT !.dry = TRUE]
Force == [Real EXCEPT !.force = TRUE]

-----------------------------------------------------------------------------
(* Kongs. *)

OnRoute(id, route, name, kind, uri, prefix) ==
    [id |-> id, route |-> route, name |-> name,
     config |-> [kind |-> kind, uri |-> uri, prefix |-> prefix]]

LiveRoute(id, service, paths, tags) ==
    [id |-> id, service |-> service, paths |-> paths, methods |-> {"GET"},
     strip_path |-> FALSE, tags |-> tags]

NoRoutes == [n \in RouteName |-> Absent]

BothServices == [s \in Service |->
                    IF s = "flows-service" THEN "http://flows" ELSE "http://nexus"]
FlowsOnly == [BothServices EXCEPT !["nexus-service"] = Absent]

\* kong_ensure_service has just run: the default block and nothing else.
FreshKong ==
    [routes |-> [NoRoutes EXCEPT !["flows-default-block"] =
                    LiveRoute(1, "flows-service", {FlowsPrefix}, {})],
     plugins |-> {OnRoute(2, 1, "request-termination", "terminate", <<>>, <<>>)},
     services |-> BothServices, nextId |-> 3]

\* Routes written before tagging, one with both rewriters and a hand-made
\* plugin, one whose view is gone; "allow-v1-b-pk" is on nexus.
LegacyKong ==
    [routes |-> [NoRoutes EXCEPT
        !["flows-default-block"] = LiveRoute(1, "flows-service", {FlowsPrefix}, {}),
        !["allow-a-pk"] = LiveRoute(2, "flows-service", {<<"flows", "a-pk">>}, {}),
        !["allow-v1-b-pk"] = LiveRoute(3, "nexus-service", {<<"a", "pk">>}, {RouteTag, PrefixTag(NexusPrefix)}),
        !["allow-old"] = LiveRoute(4, "flows-service", {<<"flows", "v1", "a">>}, {})],
     plugins |-> {OnRoute(5, 1, "request-termination", "terminate", <<>>, <<>>),
                  OnRoute(6, 2, "request-transformer", "replace_uri", <<"v1", "a">>, <<>>),
                  OnRoute(7, 2, "pre-function", "strip_prefix", <<>>, FlowsPrefix),
                  OnRoute(8, 2, "rate-limiting", "other", <<>>, <<>>),
                  OnRoute(9, 4, "request-transformer", "replace_uri", <<"v1", "a">>, <<>>)},
     services |-> BothServices, nextId |-> 10]

\* nexus was never onboarded.
HalfKong == [LegacyKong EXCEPT !.services = FlowsOnly,
                               !.routes["allow-v1-b-pk"] = Absent]

-----------------------------------------------------------------------------
(* One service, deployed again and again, dying anywhere. *)

OneJob == {"flows"}
OneJobImages == [c \in Sync |-> {<<ViewA, ViewB>>, <<ViewAParam>>, <<ViewBMoved, ViewA>>, <<>>}]
OneJobOptions == {Real, NoPrune, Dry}
OneJobRoutes == {"flows-default-block", "allow-a-pk", "allow-v1-b-pk", "allow-old"}
OneJobAllow == OneJobRoutes \ {"flows-default-block"}
OneJobKongs == {FreshKong, LegacyKong, HalfKong}
-----------------------------------------------------------------------------
(* Two services that claim the same alias, deployed at the same time. *)

TwoJobs == {"flows", "nexus"}
TwoJobsImages ==
    [c \in Sync |-> IF c = "nexus" THEN {<<NexusA>>} ELSE {<<ViewB, ViewAParam>>, <<ViewB>>}]
TwoJobsOptions == {Real}
TwoJobsRoutes == {"flows-default-block", "allow-a-pk", "allow-v1-b-pk"}
TwoJobsAllow == TwoJobsRoutes \ {"flows-default-block"}

\* What an earlier image of flows left: its alias, in the static mode.
EarlierKong ==
    [FreshKong EXCEPT
        !.routes["allow-a-pk"] = LiveRoute(3, "flows-service", ViewA.paths,
                                           {RouteTag, PrefixTag(FlowsPrefix)}),
        !.plugins = @ \cup {OnRoute(4, 3, "request-transformer", "replace_uri",
                                    <<"v1", "a">>, <<>>)},
        !.nextId = 5]
TwoJobsKongs == {FreshKong, EarlierKong}

\* flows was another prefix once, and four of its views are gone: too many to
\* prune at once.
GoneAllow == {"allow-1", "allow-2", "allow-3", "allow-4"}
CrowdedKong ==
    [FreshKong EXCEPT
        !.routes = [n \in RouteName |->
            CASE n \in GoneAllow ->
                    LiveRoute(10 + (CHOOSE i \in 1..4 : n = "allow-" \o ToString(i)),
                              "flows-service", ViewA.paths, {RouteTag, PrefixTag(FlowsPrefix)})
              [] n = "allow-v1-b-pk" -> LiveRoute(3, "flows-service", ViewB.paths, {RouteTag})
              [] OTHER -> @[n]],
        !.plugins = @ \cup {OnRoute(4, 3, "pre-function", "strip_prefix", <<>>, NexusPrefix)},
        !.nextId = 15]

RaceRoutes == TwoJobsRoutes \cup GoneAllow
RaceAllow == TwoJobsAllow \cup GoneAllow
RaceKongs == TwoJobsKongs \cup {CrowdedKong}

-----------------------------------------------------------------------------
(* nexus puts a route of its own on the service of flows. *)

GuestImages == [c \in Sync |-> IF c = "nexus" THEN {<<NexusReports>>} ELSE {<<ViewA>>}]
GuestRoutes == {"flows-default-block", "allow-a-pk", "allow-flows-reports"}
GuestAllow == GuestRoutes \ {"flows-default-block"}
=============================================================================
