------------------------------- MODULE KongAdmin -------------------------------
(***************************************************************************)
(* The Kong Admin API as src/weni_commons/kong uses it.  Kong itself is    *)
(* not in this repository, so the entities and the status codes below are  *)
(* modelled from the requests the code sends and the answers it checks.    *)
(*                                                                         *)
(* Every request is atomic and every sequence of requests is not: that is  *)
(* the whole difficulty of the clients built on this module.               *)
(*                                                                         *)
(* Data abstraction: a path is the sequence of its segments (the regex     *)
(* marker and the slashes carry no control), a tag is a sequence whose     *)
(* first word is the kind of tag, a plugin configuration keeps only what   *)
(* the code compares.  Services are never deleted by the code, so a        *)
(* service's id is its name.                                               *)
(***************************************************************************)
EXTENDS Integers, FiniteSets, Sequences

CONSTANTS
    RouteName,  \* names of routes (unique in a Kong workspace)
    AllowName,  \* those that start with ROUTE_NAME_PREFIX ("allow-")
    Service,    \* names of services
    Url,        \* upstream urls of services
    Path,       \* gateway paths, sequences of segments
    Method,     \* HTTP methods
    Tag,        \* tags
    PluginName, \* names of plugins
    Config,     \* plugin configurations
    Client,     \* processes that write to the Admin API
    Absent      \* what a lookup that finds nothing returns (404, None)

VARIABLES
    routes,     \* RouteName -> the route of that name, or Absent
    plugins,    \* the route-scoped plugins
    services,   \* Service -> its upstream url, or Absent
    nextId,     \* the id Kong gives to the next route or plugin
    quiet       \* history: clients no other client has written behind since they began

kong == <<routes, plugins, services, nextId, quiet>>

Route == [id : Nat, service : Service \cup {Absent}, paths : SUBSET Path,
          methods : SUBSET Method, strip_path : BOOLEAN, tags : SUBSET Tag]

Plugin == [id : Nat, route : Nat, name : PluginName, config : Config]

ASSUME AdminAssumption ==
    /\ IsFiniteSet(RouteName)
    /\ AllowName \subseteq RouteName
    /\ Absent \notin Route
    /\ Absent \notin Service
    /\ Absent \notin Url

KongTypeOK ==
    /\ routes \in [RouteName -> Route \cup {Absent}]
    /\ plugins \in SUBSET Plugin
    /\ services \in [Service -> Url \cup {Absent}]
    /\ nextId \in Nat
    /\ quiet \in SUBSET Client

\* A whole Kong, as it may be found when the model starts.
Kong == [routes : [RouteName -> Route \cup {Absent}], plugins : SUBSET Plugin,
         services : [Service -> Url \cup {Absent}], nextId : Nat]

\* What Kong's own constraints guarantee of its routes and plugins.
WellFormed(rs, ps, next) ==
    /\ \A n \in RouteName : rs[n] # Absent => rs[n].id < next
    /\ \A m, n \in RouteName :
          rs[m] # Absent /\ rs[n] # Absent /\ rs[m].id = rs[n].id => m = n
    /\ \A p \in ps :
          /\ p.id < next
          /\ \E n \in RouteName : rs[n] # Absent /\ rs[n].id = p.route
    /\ \A p, q \in ps : p.id = q.id \/ (p.route = q.route /\ p.name = q.name) => p = q

StartsAs(k) ==
    /\ routes = k.routes
    /\ plugins = k.plugins
    /\ services = k.services
    /\ nextId = k.nextId
    /\ quiet = {}

-----------------------------------------------------------------------------
(* What Kong holds. *)

Live == {n \in RouteName : routes[n] # Absent}

Registered(s) == s \in Service /\ services[s] # Absent

PluginsOf(n) == {p \in plugins : routes[n] # Absent /\ p.route = routes[n].id}

\* Kong refuses a second plugin of one name on the same route (409).
Carries(id, name) == \E p \in plugins : p.route = id /\ p.name = name

-----------------------------------------------------------------------------
(* The history of interference: client c writes, so nobody else is         *)
(* undisturbed any more.                                                   *)

Wrote(c) == quiet' = quiet \cap {c}

Began(c) == quiet' = quiet \cup {c}

-----------------------------------------------------------------------------
(* Requests.  Each is the successful case; the predicate before it says    *)
(* when Kong accepts the request, and a client whose request is refused    *)
(* takes an error path of its own.                                         *)

\* POST /services/{s}/routes: 404 without the service, 409 when the name is taken
CanPostRoute(n, s) == Registered(s) /\ routes[n] = Absent

PostRoute(c, n, r) ==
    /\ CanPostRoute(n, r.service)
    /\ routes' = [routes EXCEPT ![n] =
                    [id |-> nextId, service |-> r.service, paths |-> r.paths,
                     methods |-> r.methods, strip_path |-> r.strip_path, tags |-> r.tags]]
    /\ nextId' = nextId + 1
    /\ Wrote(c)
    /\ UNCHANGED <<plugins, services>>

\* PATCH /routes/{n}: 404 without the route, 400 when the service it names is missing
CanPatchRoute(n, s) == routes[n] # Absent /\ (s = Absent \/ Registered(s))

PatchRoute(c, n, r) ==
    /\ CanPatchRoute(n, r.service)
    /\ routes' = [routes EXCEPT ![n] =
                    [id |-> @.id, service |-> r.service, paths |-> r.paths,
                     methods |-> r.methods, strip_path |-> r.strip_path, tags |-> r.tags]]
    /\ Wrote(c)
    /\ UNCHANGED <<plugins, services, nextId>>

\* DELETE /routes/{n}: 204 whether or not the route is there; its plugins go with it
DeleteRoute(c, n) ==
    /\ routes' = [routes EXCEPT ![n] = Absent]
    /\ plugins' = plugins \ PluginsOf(n)
    /\ Wrote(c)
    /\ UNCHANGED <<services, nextId>>

\* POST /routes/{n}/plugins: 404 without the route, 409 for a second one of that name
CanPostPlugin(n, name) == routes[n] # Absent /\ ~Carries(routes[n].id, name)

PostPlugin(c, n, name, config) ==
    /\ CanPostPlugin(n, name)
    /\ plugins' = plugins \cup
         {[id |-> nextId, route |-> routes[n].id, name |-> name, config |-> config]}
    /\ nextId' = nextId + 1
    /\ Wrote(c)
    /\ UNCHANGED <<routes, services>>

\* PATCH /plugins/{id}: 404 once the plugin, or the route it was on, is deleted
CanPatchPlugin(id) == \E p \in plugins : p.id = id

PatchPlugin(c, id, config) ==
    /\ CanPatchPlugin(id)
    /\ plugins' = {IF p.id = id THEN [p EXCEPT !.config = config] ELSE p : p \in plugins}
    /\ Wrote(c)
    /\ UNCHANGED <<routes, services, nextId>>

\* DELETE /plugins/{id}: 204 whether or not the plugin is there
DeletePlugin(c, id) ==
    /\ plugins' = {p \in plugins : p.id # id}
    /\ Wrote(c)
    /\ UNCHANGED <<routes, services, nextId>>

\* POST /services and PATCH /services/{s}
PutService(c, s, url) ==
    /\ services' = [services EXCEPT ![s] = url]
    /\ Wrote(c)
    /\ UNCHANGED <<routes, plugins, nextId>>
=============================================================================
