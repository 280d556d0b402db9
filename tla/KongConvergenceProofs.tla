-------------------------- MODULE KongConvergenceProofs --------------------------
(***************************************************************************)
(* That a run of kong_sync nobody writes behind does what it says, with    *)
(* any number of jobs, routes, images, starts, deaths and late requests:   *)
(* theorems about KongLate, checked by TLAPS.                              *)
(***************************************************************************)
EXTENDS KongLate, KongSyncProofs

-----------------------------------------------------------------------------
(* What of Kong a route is made of, and what leaves it alone. *)

\* Nothing on the route of name n changes.
Untouched(n) == routes'[n] = routes[n] /\ PluginsOf(n)' = PluginsOf(n)

LEMMA ServedFrame ==
    ASSUME NEW c \in Sync, NEW r, Untouched(r.name)
    PROVE  ServedAsDeclared(c, r)' = ServedAsDeclared(c, r)
BY DEF ServedAsDeclared, Rewriters, Untouched, Payload, TargetOf

LEMMA FieldByField ==
    ASSUME NEW live \in Route, NEW c \in Sync, NEW r \in Desired
    PROVE  (\A f \in DOMAIN Payload(c, r) : live[f] = Payload(c, r)[f]) <=>
              /\ live.service = TargetOf(c, r)
              /\ live.paths = r.paths
              /\ live.methods = r.methods
              /\ live.strip_path = FALSE
              /\ live.tags = RouteTags(c)
<1>1. DOMAIN Payload(c, r) = {"service", "paths", "methods", "strip_path", "tags"}
  BY DEF Payload
<1>2. /\ Payload(c, r)["service"] = TargetOf(c, r)
      /\ Payload(c, r)["paths"] = r.paths
      /\ Payload(c, r)["methods"] = r.methods
      /\ Payload(c, r)["strip_path"] = FALSE
      /\ Payload(c, r)["tags"] = RouteTags(c)
  BY DEF Payload
<1> QED
  BY <1>1, <1>2

-----------------------------------------------------------------------------
(* The effect of each request on the routes and their plugins. *)

\* Kong keeps its own constraints.
Sound == WellFormed(routes, plugins, nextId)

\* One route is written, the others and the services are left alone.
Only(n) == UNCHANGED services /\ \A m \in RouteName \ {n} : Untouched(m)

LEMMA PostRouteEffect ==
    ASSUME KongTypeOK, Sound, NEW c, NEW n \in RouteName, NEW r \in RouteFields, PostRoute(c, n, r)
    PROVE  /\ Sound' /\ Only(n)
           /\ routes'[n] \in Route /\ \A f \in DOMAIN r : routes'[n][f] = r[f]
           /\ PluginsOf(n)' = {}
<1> DEFINE new == [id |-> nextId, service |-> r.service, paths |-> r.paths,
                   methods |-> r.methods, strip_path |-> r.strip_path, tags |-> r.tags]
<1>1. /\ routes' = [routes EXCEPT ![n] = new] /\ routes[n] = Absent
      /\ UNCHANGED <<plugins, services>> /\ nextId' = nextId + 1
  BY DEF PostRoute, CanPostRoute
<1>2. new \in Route /\ new.id = nextId /\ \A f \in DOMAIN r : new[f] = r[f]
  BY DEF RouteFields, Route, KongTypeOK
<1> HIDE DEF new
<1>3. routes'[n] = new /\ \A m \in RouteName \ {n} : routes'[m] = routes[m]
  BY <1>1 DEF KongTypeOK
<1>4. /\ \A m \in RouteName : routes[m] # Absent => routes[m].id \in Nat /\ routes[m].id < nextId
      /\ \A p \in plugins : p.id \in Nat /\ p.id < nextId /\ p.route \in Nat /\ p.route < nextId
  BY DEF KongTypeOK, Sound, WellFormed, Route, Plugin
<1>5. new # Absent /\ nextId \in Nat
  BY <1>2, AdminAssumption DEF KongTypeOK
<1>6. Sound'
  <2>1. \A m \in RouteName : routes'[m] # Absent => routes'[m].id < nextId'
    BY <1>1, <1>2, <1>3, <1>4, <1>5
  <2>2. \A l, m \in RouteName :
           routes'[l] # Absent /\ routes'[m] # Absent /\ routes'[l].id = routes'[m].id => l = m
    BY <1>2, <1>3, <1>4, <1>5 DEF Sound, WellFormed
  <2>3. \A p \in plugins' :
           p.id < nextId' /\ \E m \in RouteName : routes'[m] # Absent /\ routes'[m].id = p.route
    BY <1>1, <1>3, <1>4, <1>5 DEF Sound, WellFormed
  <2> QED
    BY <1>1, <2>1, <2>2, <2>3 DEF Sound, WellFormed
<1>7. PluginsOf(n)' = {}
  BY <1>1, <1>2, <1>3, <1>4, <1>5 DEF PluginsOf
<1>8. Only(n)
  BY <1>1, <1>3 DEF Only, Untouched, PluginsOf
<1> QED
  BY <1>2, <1>3, <1>6, <1>7, <1>8

LEMMA PatchRouteEffect ==
    ASSUME KongTypeOK, Sound, NEW c, NEW n \in RouteName, NEW r \in RouteFields, PatchRoute(c, n, r)
    PROVE  /\ Sound' /\ Only(n)
           /\ routes'[n] \in Route /\ \A f \in DOMAIN r : routes'[n][f] = r[f]
           /\ PluginsOf(n)' = PluginsOf(n)
<1> DEFINE new == [id |-> routes[n].id, service |-> r.service, paths |-> r.paths,
                   methods |-> r.methods, strip_path |-> r.strip_path, tags |-> r.tags]
<1>1. /\ routes' = [routes EXCEPT ![n] = new] /\ routes[n] # Absent
      /\ UNCHANGED <<plugins, services, nextId>>
  BY DEF PatchRoute, CanPatchRoute
<1>2. routes[n] \in Route
  BY <1>1 DEF KongTypeOK
<1>3. new \in Route /\ new.id = routes[n].id /\ \A f \in DOMAIN r : new[f] = r[f]
  BY <1>2 DEF RouteFields, Route
<1> HIDE DEF new
<1>4. routes'[n] = new /\ new # Absent /\ \A m \in RouteName \ {n} : routes'[m] = routes[m]
  BY <1>1, <1>3, AdminAssumption DEF KongTypeOK
<1>5. \A m \in RouteName : (routes'[m] # Absent <=> routes[m] # Absent)
                           /\ (routes[m] # Absent => routes'[m].id = routes[m].id)
  BY <1>1, <1>3, <1>4
<1>6. Sound'
  BY <1>1, <1>5 DEF Sound, WellFormed
<1>7. \A m \in RouteName : PluginsOf(m)' = PluginsOf(m)
  BY <1>1, <1>5 DEF PluginsOf
<1> QED
  BY <1>1, <1>3, <1>4, <1>6, <1>7 DEF Only, Untouched

LEMMA DeleteRouteEffect ==
    ASSUME KongTypeOK, Sound, NEW c, NEW n \in RouteName, DeleteRoute(c, n)
    PROVE  Sound' /\ Only(n) /\ routes'[n] = Absent
<1>1. /\ routes'[n] = Absent /\ \A m \in RouteName \ {n} : routes'[m] = routes[m]
      /\ plugins' = plugins \ PluginsOf(n) /\ UNCHANGED <<services, nextId>>
  BY DEF DeleteRoute, KongTypeOK
<1>2. Sound'
  BY <1>1 DEF Sound, WellFormed, PluginsOf
<1>3. \A m \in RouteName \ {n} : PluginsOf(m)' = PluginsOf(m)
  BY <1>1 DEF Sound, WellFormed, PluginsOf
<1> QED
  BY <1>1, <1>2, <1>3 DEF Only, Untouched

LEMMA PostPluginEffect ==
    ASSUME KongTypeOK, Sound, NEW c, NEW n \in RouteName, NEW name, NEW config,
           PostPlugin(c, n, name, config)
    PROVE  /\ Sound' /\ Only(n) /\ routes' = routes /\ routes[n] # Absent
           /\ \E new : PluginsOf(n)' = PluginsOf(n) \cup {new}
                       /\ new.name = name /\ new.config = config
<1> DEFINE new == [id |-> nextId, route |-> routes[n].id, name |-> name, config |-> config]
<1>1. /\ plugins' = plugins \cup {new} /\ routes' = routes /\ services' = services
      /\ routes[n] # Absent /\ nextId' = nextId + 1 /\ ~Carries(routes[n].id, name)
  BY DEF PostPlugin, CanPostPlugin
<1>2. new.id = nextId /\ new.route = routes[n].id /\ new.name = name /\ new.config = config
  OBVIOUS
<1> HIDE DEF new
<1>3. nextId \in Nat /\ \A p \in plugins : p.id \in Nat /\ p.id < nextId
  BY DEF KongTypeOK, Plugin, Sound, WellFormed
<1>4. \A m \in RouteName : routes[m] # Absent => routes[m].id \in Nat /\ routes[m].id < nextId
  BY DEF KongTypeOK, Route, Sound, WellFormed
<1>5. Sound'
  <2>1. \A m \in RouteName : routes'[m] # Absent => routes'[m].id < nextId'
    BY <1>1, <1>3, <1>4
  <2>2. \A p \in plugins' :
           p.id < nextId' /\ \E m \in RouteName : routes'[m] # Absent /\ routes'[m].id = p.route
    BY <1>1, <1>2, <1>3 DEF Sound, WellFormed
  <2>3. \A p, q \in plugins' : p.id = q.id \/ (p.route = q.route /\ p.name = q.name) => p = q
    BY <1>1, <1>2, <1>3 DEF Sound, WellFormed, Carries
  <2> QED
    BY <1>1, <2>1, <2>2, <2>3 DEF Sound, WellFormed
<1>6. PluginsOf(n)' = PluginsOf(n) \cup {new}
  BY <1>1, <1>2 DEF PluginsOf
<1>7. Only(n)
  BY <1>1, <1>2 DEF Only, Untouched, PluginsOf, Sound, WellFormed
<1> QED
  BY <1>1, <1>2, <1>5, <1>6, <1>7

LEMMA PatchPluginSound ==
    ASSUME KongTypeOK, Sound, NEW c, NEW id, NEW config, PatchPlugin(c, id, config)
    PROVE  Sound' /\ UNCHANGED <<routes, services, nextId>>
<1> DEFINE patched(p) == IF p.id = id THEN [p EXCEPT !.config = config] ELSE p
<1>1. plugins' = {patched(p) : p \in plugins} /\ UNCHANGED <<routes, services, nextId>>
  BY DEF PatchPlugin
<1>2. \A p \in plugins : patched(p).id = p.id /\ patched(p).route = p.route
                         /\ patched(p).name = p.name
  BY DEF KongTypeOK, Plugin
<1> HIDE DEF patched
<1> QED
  BY <1>1, <1>2 DEF Sound, WellFormed

Patched(p, config) == [p EXCEPT !.config = config]

LEMMA PatchedFields ==
    ASSUME NEW p \in Plugin, NEW config
    PROVE  Patched(p, config).name = p.name /\ Patched(p, config).config = config
BY DEF Patched, Plugin

LEMMA PatchPluginEffect ==
    ASSUME KongTypeOK, Sound, NEW c, NEW n \in RouteName, NEW p \in PluginsOf(n), NEW config,
           PatchPlugin(c, p.id, config)
    PROVE  /\ Only(n)
           /\ Patched(p, config) \in PluginsOf(n)'
           /\ PluginsOf(n)' \subseteq PluginsOf(n) \cup {Patched(p, config)}
<1> DEFINE patched(q) == IF q.id = p.id THEN [q EXCEPT !.config = config] ELSE q
<1>1. plugins' = {patched(q) : q \in plugins} /\ UNCHANGED <<routes, services, nextId>>
  BY DEF PatchPlugin
<1>2. p \in plugins /\ p.route = routes[n].id /\ routes[n] # Absent
  BY DEF PluginsOf
<1>3. patched(p).route = p.route /\ patched(p).name = p.name /\ patched(p).config = config
  BY <1>2 DEF KongTypeOK, Plugin
<1>4. patched(p) = Patched(p, config) /\ \A q \in plugins \ {p} : patched(q) = q
  BY <1>2 DEF Sound, WellFormed, Patched
<1> HIDE DEF patched
<1>5. plugins' = (plugins \ {p}) \cup {patched(p)}
  BY <1>1, <1>2, <1>4
<1>6. PluginsOf(n)' = (PluginsOf(n) \ {p}) \cup {patched(p)}
  BY <1>1, <1>2, <1>3, <1>5 DEF PluginsOf
<1>7. \A m \in RouteName \ {n} : routes[m] # Absent => routes[m].id # p.route
  BY <1>2 DEF Sound, WellFormed
<1>8. Only(n)
  BY <1>1, <1>3, <1>5, <1>7 DEF Only, Untouched, PluginsOf
<1> QED
  BY <1>3, <1>4, <1>6, <1>8

LEMMA DeletePluginSound ==
    ASSUME KongTypeOK, Sound, NEW c, NEW id, DeletePlugin(c, id)
    PROVE  Sound' /\ UNCHANGED <<routes, services, nextId>>
BY DEF DeletePlugin, Sound, WellFormed

LEMMA DeletePluginEffect ==
    ASSUME KongTypeOK, Sound, NEW c, NEW n \in RouteName, NEW p \in PluginsOf(n),
           DeletePlugin(c, p.id)
    PROVE  Only(n) /\ PluginsOf(n)' = PluginsOf(n) \ {p}
<1>1. plugins' = plugins \ {p} /\ UNCHANGED <<routes, services, nextId>>
  BY DEF DeletePlugin, PluginsOf, Sound, WellFormed
<1>2. p \in plugins /\ p.route = routes[n].id /\ routes[n] # Absent
  BY DEF PluginsOf
<1>3. \A m \in RouteName \ {n} : routes[m] # Absent => routes[m].id # p.route
  BY <1>2 DEF Sound, WellFormed
<1> QED
  BY <1>1, <1>2, <1>3 DEF Only, Untouched, PluginsOf

-----------------------------------------------------------------------------
(* Every step is at most one request, about an allow-route or a plugin.    *)

Request ==
    \E c \in Client \cup {Absent} :
        \/ \E n \in AllowName, r \in RouteFields : PostRoute(c, n, r) \/ PatchRoute(c, n, r)
        \/ \E n \in AllowName : DeleteRoute(c, n)
        \/ \E n \in AllowName, name \in PluginName, config \in Config : PostPlugin(c, n, name, config)
        \/ \E config \in Config : \E id : PatchPlugin(c, id, config)
        \/ \E id : DeletePlugin(c, id)

LEMMA StepRequests ==
    ASSUME TypeOK, [Next]_vars
    PROVE  Request \/ UNCHANGED <<routes, plugins, services, nextId>>
<1>1. CASE UNCHANGED vars
  BY <1>1 DEF vars, kong
<1>2. ASSUME NEW c \in Sync,
             \/ Start(c) \/ ListRoutes(c) \/ ListPlugins(c) \/ ExamineMissing(c)
             \/ ExamineInSync(c) \/ ExamineDrift(c) \/ KeepRewrite(c) \/ SkipPrune(c)
             \/ PlanPrune(c) \/ BeginPrune(c) \/ EndPrune(c) \/ Fail(c)
      PROVE  UNCHANGED <<routes, plugins, services, nextId>>
  BY <1>2 DEF Start, ListRoutes, ListPlugins, ExamineMissing, ExamineInSync, ExamineDrift,
              KeepRewrite, SkipPrune, PlanPrune, BeginPrune, EndPrune, Fail, Finish, kong
<1>3. ASSUME NEW c \in Sync, CreateRoute(c) \/ UpdateRoute(c) PROVE Request
  <2>1. at[c] \in DOMAIN image[c] /\ c \in Client
    BY <1>3, SyncAssumption DEF CreateRoute, UpdateRoute, TypeOK
  <2>2. Cur(c).name \in AllowName /\ Payload(c, Cur(c)) \in RouteFields
    BY <2>1, CurTyped DEF Desired
  <2> QED
    BY <1>3, <2>1, <2>2 DEF CreateRoute, UpdateRoute, Request
<1>4. ASSUME NEW c \in Sync, DropObsolete(c) PROVE Request
  BY <1>4, SyncAssumption DEF DropObsolete, Request
<1>5. ASSUME NEW c \in Sync, UpdateRewrite(c) \/ CreateRewrite(c) PROVE Request
  <2>1. at[c] \in DOMAIN image[c] /\ c \in Client
    BY <1>5, SyncAssumption DEF UpdateRewrite, CreateRewrite, ReadyToWrite, TypeOK
  <2>2. Cur(c).name \in AllowName /\ Want(c).name \in PluginName /\ Want(c).config \in Config
    BY <2>1, CurTyped DEF Desired
  <2>3. CASE UpdateRewrite(c)
    <3>1. PICK p \in SameHeld(c) : PatchPlugin(c, p.id, Want(c).config)
      BY <2>3 DEF UpdateRewrite
    <3> QED
      BY <2>1, <2>2, <3>1 DEF Request
  <2>4. CASE CreateRewrite(c)
    BY <2>1, <2>2, <2>4 DEF CreateRewrite, Request
  <2> QED
    BY <1>5, <2>3, <2>4
<1>6. ASSUME NEW c \in Sync, DeleteOrphan(c) PROVE Request
  BY <1>6, SyncAssumption DEF DeleteOrphan, TypeOK, Request
<1> QED
  BY <1>1, <1>2, <1>3, <1>4, <1>5, <1>6 DEF Next, Step, RefusePrune, Refused, Crash

LEMMA RequestSound ==
    ASSUME KongTypeOK, Sound, Request
    PROVE  KongTypeOK' /\ Sound' /\ UNCHANGED services
<1>1. PICK c \in Client \cup {Absent} :
        \/ \E n \in AllowName, r \in RouteFields : PostRoute(c, n, r) \/ PatchRoute(c, n, r)
        \/ \E n \in AllowName : DeleteRoute(c, n)
        \/ \E n \in AllowName, name \in PluginName, config \in Config : PostPlugin(c, n, name, config)
        \/ \E config \in Config : \E id : PatchPlugin(c, id, config)
        \/ \E id : DeletePlugin(c, id)
  BY DEF Request
<1>2. AllowName \subseteq RouteName
  BY AdminAssumption
<1>3. CASE \E n \in AllowName, r \in RouteFields : PostRoute(c, n, r)
  BY <1>2, <1>3, PostRouteTyped, PostRouteEffect DEF Only
<1>4. CASE \E n \in AllowName, r \in RouteFields : PatchRoute(c, n, r)
  BY <1>2, <1>4, PatchRouteTyped, PatchRouteEffect DEF Only
<1>5. CASE \E n \in AllowName : DeleteRoute(c, n)
  BY <1>2, <1>5, DeleteRouteTyped, DeleteRouteEffect DEF Only
<1>6. CASE \E n \in AllowName, name \in PluginName, config \in Config : PostPlugin(c, n, name, config)
  BY <1>2, <1>6, PostPluginTyped, PostPluginEffect DEF Only
<1>7. CASE \E config \in Config : \E id : PatchPlugin(c, id, config)
  BY <1>7, PatchPluginTyped, PatchPluginSound
<1>8. CASE \E id : DeletePlugin(c, id)
  BY <1>8, DeletePluginTyped, DeletePluginSound
<1> QED
  BY <1>1, <1>3, <1>4, <1>5, <1>6, <1>7, <1>8

LEMMA RequestStable ==
    ASSUME TypeOK, Stable, HoldsLess, Request
    PROVE  Stable'
<1>1. AllowName \subseteq RouteName
  BY AdminAssumption
<1> QED
  BY <1>1, StableUnderPostRoute, StableUnderPatchRoute, StableUnderDeleteRoute,
     StableUnderPostPlugin, StableUnderPatchPlugin, StableUnderDeletePlugin DEF Request

-----------------------------------------------------------------------------
(* Requests that arrive when their run is over. *)

\* A request about the plugin of this id finds a rewriter of an allow-route, if
\* it finds anything.
IdHarmless(id) ==
    /\ id \in Nat /\ id < nextId
    /\ \A q \in plugins : q.id = id =>
          q.name \in Rewriter /\ \A n \in RouteName : q \in PluginsOf(n) => n \in AllowName

Harmless(w) ==
    \/ w.verb \in {"post route", "patch route"} /\ w.name \in AllowName /\ w.route \in RouteFields
    \/ w.verb = "delete route" /\ w.name \in AllowName
    \/ w.verb = "post plugin" /\ w.name \in AllowName /\ w.plugin \in PluginName /\ w.config \in Config
    \/ w.verb = "patch plugin" /\ w.config \in Config /\ IdHarmless(w.id)
    \/ w.verb = "delete plugin" /\ IdHarmless(w.id)

LateHarmless == \A w \in late : Harmless(w)

LEMMA SentHarmless ==
    ASSUME TypeOK, Stable, NEW c \in Sync, NEW w \in Sent(c)
    PROVE  Harmless(w)
<1>1. pc[c] \in {"create", "patch", "plugin"} => at[c] \in DOMAIN image[c]
  BY DEF TypeOK
<1>2. ASSUME at[c] \in DOMAIN image[c], NEW p \in Held(c), p.name \in Rewriter
      PROVE  IdHarmless(p.id)
  <2>1. p.id \in Nat /\ p.id < nextId
    BY DEF Held, TypeOK, Plugin, Stable, PluggedStable
  <2> QED
    BY <1>2, <2>1, HeldIsOnAllowRoute DEF IdHarmless
<1>3. CASE pc[c] = "create" \/ pc[c] = "patch"
  <2>1. Cur(c).name \in AllowName /\ Payload(c, Cur(c)) \in RouteFields
    BY <1>1, <1>3, CurTyped DEF Desired
  <2>2. PICK verb \in {"post route", "patch route"} :
           w = OnRouteNamed(verb, Cur(c).name, Payload(c, Cur(c)))
    BY <1>3 DEF Sent
  <2>3. w.verb = verb /\ w.name = Cur(c).name /\ w.route = Payload(c, Cur(c))
    BY <2>2 DEF OnRouteNamed
  <2> QED
    BY <2>1, <2>3 DEF Harmless
<1>4. CASE pc[c] = "prune"
  <2>1. PICK n \in orphans[c] : w = [verb |-> "delete route", name |-> n]
    BY <1>4 DEF Sent
  <2> QED
    BY <2>1 DEF Harmless, TypeOK
<1>5. CASE pc[c] = "plugin"
  <2>1. /\ Want(c).name \in Rewriter /\ ObsoleteName(Want(c).name) \in Rewriter
        /\ Cur(c).name \in AllowName
        /\ Want(c).name \in PluginName /\ Want(c).config \in Config
    BY <1>1, <1>5, WantsRewriter, CurTyped DEF Desired
  <2>2. CASE ObsoleteHeld(c) # {}
    <3>1. PICK p \in ObsoleteHeld(c) : w = [verb |-> "delete plugin", id |-> p.id]
      BY <1>5, <2>2 DEF Sent
    <3>2. IdHarmless(p.id)
      BY <1>1, <1>2, <1>5, <2>1 DEF ObsoleteHeld
    <3> QED
      BY <3>1, <3>2 DEF Harmless
  <2>3. CASE ObsoleteHeld(c) = {} /\ SameHeld(c) # {}
    <3>1. PICK p \in SameHeld(c) :
             w = OnPlugin("patch plugin", Cur(c).name, p.id, p.name, Want(c).config)
      BY <1>5, <2>3 DEF Sent
    <3>2. IdHarmless(p.id)
      BY <1>1, <1>2, <1>5, <2>1 DEF SameHeld
    <3> QED
      BY <2>1, <3>1, <3>2 DEF Harmless, OnPlugin
  <2>4. CASE ObsoleteHeld(c) = {} /\ SameHeld(c) = {}
    <3>1. w = OnPlugin("post plugin", Cur(c).name, 0, Want(c).name, Want(c).config)
      BY <1>5, <2>4 DEF Sent
    <3> QED
      BY <2>1, <3>1 DEF Harmless, OnPlugin
  <2> QED
    BY <2>2, <2>3, <2>4
<1> QED
  BY <1>3, <1>4, <1>5 DEF Sent

\* No request gives an old id to another route or plugin.
LEMMA RequestKeepsIds ==
    ASSUME KongTypeOK, Sound, Request
    PROVE  /\ nextId' \in Nat /\ nextId <= nextId'
           /\ \A n \in RouteName : routes'[n] # Absent =>
                 routes'[n].id = nextId \/ (routes[n] # Absent /\ routes[n].id = routes'[n].id)
           /\ \A q \in plugins' : q.id = nextId \/
                 \E p \in plugins : p.id = q.id /\ p.name = q.name /\ p.route = q.route
<1>1. PICK c \in Client \cup {Absent} :
        \/ \E n \in AllowName, r \in RouteFields : PostRoute(c, n, r) \/ PatchRoute(c, n, r)
        \/ \E n \in AllowName : DeleteRoute(c, n)
        \/ \E n \in AllowName, name \in PluginName, config \in Config : PostPlugin(c, n, name, config)
        \/ \E config \in Config : \E id : PatchPlugin(c, id, config)
        \/ \E id : DeletePlugin(c, id)
  BY DEF Request
<1>2. AllowName \subseteq RouteName
  BY AdminAssumption
<1>3. CASE \E n \in AllowName, r \in RouteFields : PostRoute(c, n, r)
  BY <1>2, <1>3 DEF PostRoute, KongTypeOK
<1>4. CASE \E n \in AllowName, r \in RouteFields : PatchRoute(c, n, r)
  BY <1>2, <1>4 DEF PatchRoute, CanPatchRoute, KongTypeOK
<1>5. CASE \E n \in AllowName : DeleteRoute(c, n)
  BY <1>2, <1>5 DEF DeleteRoute, KongTypeOK
<1>6. CASE \E n \in AllowName, name \in PluginName, config \in Config : PostPlugin(c, n, name, config)
  BY <1>6 DEF PostPlugin, KongTypeOK
<1>7. CASE \E config \in Config : \E id : PatchPlugin(c, id, config)
  <2>1. PICK config \in Config : \E id : PatchPlugin(c, id, config)
    BY <1>7
  <2>2. PICK id : PatchPlugin(c, id, config)
    BY <2>1
  <2> DEFINE patched(p) == IF p.id = id THEN [p EXCEPT !.config = config] ELSE p
  <2>3. plugins' = {patched(p) : p \in plugins} /\ UNCHANGED <<routes, nextId>>
    BY <2>2 DEF PatchPlugin
  <2>4. \A p \in plugins : patched(p).id = p.id /\ patched(p).name = p.name
                           /\ patched(p).route = p.route
    BY DEF KongTypeOK, Plugin
  <2> HIDE DEF patched
  <2> QED
    BY <2>3, <2>4 DEF KongTypeOK
<1>8. CASE \E id : DeletePlugin(c, id)
  BY <1>8 DEF DeletePlugin, KongTypeOK
<1> QED
  BY <1>1, <1>3, <1>4, <1>5, <1>6, <1>7, <1>8

LEMMA HarmlessStays ==
    ASSUME KongTypeOK, Sound, Request, NEW w, Harmless(w)
    PROVE  Harmless(w)'
<1>1. ASSUME NEW id, IdHarmless(id) PROVE IdHarmless(id)'
  <2>1. id \in Nat /\ id < nextId' /\ nextId \in Nat
    BY <1>1, RequestKeepsIds DEF IdHarmless, KongTypeOK
  <2>2. SUFFICES ASSUME NEW q \in plugins', q.id = id
                 PROVE  q.name \in Rewriter /\ \A n \in RouteName :
                          routes'[n] # Absent /\ q.route = routes'[n].id => n \in AllowName
    BY <2>1 DEF IdHarmless, PluginsOf
  <2>3. q.id # nextId
    BY <1>1, <2>1, <2>2 DEF IdHarmless
  <2>4. PICK p \in plugins : p.id = q.id /\ p.name = q.name /\ p.route = q.route
    BY <2>3, RequestKeepsIds
  <2>5. \A n \in RouteName : routes[n] # Absent /\ p.route = routes[n].id => n \in AllowName
    BY <1>1, <2>2, <2>4 DEF IdHarmless, PluginsOf
  <2>6. p.route # nextId
    BY <2>1 DEF KongTypeOK, Sound, WellFormed, Route, Plugin
  <2>7. p.name \in Rewriter
    BY <1>1, <2>2, <2>4 DEF IdHarmless
  <2> QED
    BY <2>4, <2>5, <2>6, <2>7, RequestKeepsIds
<1> QED
  BY <1>1 DEF Harmless

LEMMA HarmlessUnwritten ==
    ASSUME UNCHANGED <<routes, plugins, services, nextId>>, NEW w, Harmless(w)
    PROVE  Harmless(w)'
BY DEF Harmless, IdHarmless, PluginsOf

\* What arrives late is a request as good as any, and disturbs every run.
LEMMA ArriveRequests ==
    ASSUME LateHarmless, Arrive
    PROVE  Request /\ quiet' = quiet \cap {Absent}
<1>1. PICK w \in late : Apply(w) /\ Harmless(w)
  BY DEF Arrive, LateHarmless
<1>2. CASE w.verb = "post route" /\ w.name \in AllowName /\ w.route \in RouteFields
  BY <1>1, <1>2 DEF Apply, Request, PostRoute, Wrote
<1>3. CASE w.verb = "patch route" /\ w.name \in AllowName /\ w.route \in RouteFields
  BY <1>1, <1>3 DEF Apply, Request, PatchRoute, Wrote
<1>4. CASE w.verb = "delete route" /\ w.name \in AllowName
  BY <1>1, <1>4 DEF Apply, Request, DeleteRoute, Wrote
<1>5. CASE w.verb = "post plugin" /\ w.name \in AllowName /\ w.plugin \in PluginName /\ w.config \in Config
  BY <1>1, <1>5 DEF Apply, Request, PostPlugin, Wrote
<1>6. CASE w.verb = "patch plugin" /\ w.config \in Config
  <2>1. PatchPlugin(Absent, w.id, w.config)
    BY <1>1, <1>6 DEF Apply
  <2> QED
    BY <1>6, <2>1 DEF Request, PatchPlugin, Wrote
<1>7. CASE w.verb = "delete plugin"
  BY <1>1, <1>7 DEF Apply, Request, DeletePlugin, Wrote
<1> QED
  BY <1>1, <1>2, <1>3, <1>4, <1>5, <1>6, <1>7 DEF Harmless

\* Every step is one of KongSync's, seen from its variables, or an arrival.
LEMMA LateSteps ==
    ASSUME [LateNext]_lateVars
    PROVE  \/ [Next]_vars /\ late' \subseteq late
           \/ \E c \in Sync : \E w \in Sent(c) : Crash(c) /\ late' = late \cup {w}
           \/ Arrive
BY DEF LateNext, TimeOut, Vanish, lateVars

-----------------------------------------------------------------------------
(* What holds of every run, disturbed or not. *)

\* A run begins at its first route with an empty report.
Fresh ==
    \A c \in Sync :
        /\ pc[c] \in Rest \cup {"list_routes", "list_plugins"} => at[c] = 1
        /\ pc[c] \in {"list_routes", "list_plugins"} => report[c] = NoReport

Basics == TypeOK /\ Stable /\ Sound /\ Fresh /\ DryRunWritesNothing /\ PruneInv

\* The memo of a run tells what Kong would answer now.
MemoTrue(c) ==
    \A s \in Service : sids[c][s] \in {Unread, IF Registered(s) THEN s ELSE Absent}

LEMMA ServiceIdTrue ==
    ASSUME NEW c \in Sync, MemoTrue(c), NEW s \in Service
    PROVE  ServiceId(c, s) = IF Registered(s) THEN s ELSE Absent
BY DEF MemoTrue, ServiceId

LEMMA FreshNext ==
    ASSUME TypeOK, Fresh, [Next]_vars
    PROVE  Fresh'
<1>1. CASE UNCHANGED vars
  BY <1>1 DEF vars, local, Fresh
<1>2. ASSUME NEW c \in Sync, Start(c) PROVE Fresh'
  BY <1>2 DEF Start, Goto, TypeOK, Fresh, Rest
<1>3. ASSUME NEW c \in Sync, ListRoutes(c) \/ ListPlugins(c) \/ BeginPrune(c)
                             \/ CreateRoute(c) \/ DropObsolete(c)
      PROVE  Fresh'
  BY <1>3 DEF ListRoutes, ListPlugins, BeginPrune, CreateRoute, DropObsolete, Goto, TypeOK,
              Fresh, Rest
<1>4. ASSUME NEW c \in Sync, ExamineMissing(c) \/ ExamineInSync(c) \/ ExamineDrift(c)
      PROVE  Fresh'
  BY <1>4 DEF ExamineMissing, ExamineInSync, ExamineDrift, NextRoute, Report, Goto, TypeOK,
              Fresh, Rest
<1>5. ASSUME NEW c \in Sync, UpdateRoute(c) \/ KeepRewrite(c) \/ UpdateRewrite(c) \/ CreateRewrite(c)
      PROVE  Fresh'
  BY <1>5 DEF UpdateRoute, KeepRewrite, UpdateRewrite, CreateRewrite, NextRoute, Report, Goto,
              TypeOK, Fresh, Rest
<1>6. ASSUME NEW c \in Sync, SkipPrune(c) \/ PlanPrune(c) \/ EndPrune(c) \/ Fail(c)
      PROVE  Fresh'
  BY <1>6 DEF SkipPrune, PlanPrune, EndPrune, Fail, Finish, Forgotten, Goto, TypeOK, Fresh, Rest
<1>7. ASSUME NEW c \in Sync, DeleteOrphan(c) PROVE Fresh'
  BY <1>7 DEF DeleteOrphan, Report, TypeOK, Fresh, Rest
<1> QED
  BY <1>1, <1>2, <1>3, <1>4, <1>5, <1>6, <1>7 DEF Next, Step, RefusePrune, Refused, Crash

\* It stays true as long as no service is registered meanwhile.
LEMMA MemoNext ==
    ASSUME TypeOK, [Next]_vars, UNCHANGED services, NEW d \in Sync, MemoTrue(d)
    PROVE  MemoTrue(d)'
<1>1. \A s \in Service : Registered(s)' = Registered(s)
  BY DEF Registered
<1>2. CASE UNCHANGED sids
  BY <1>1, <1>2 DEF MemoTrue
<1>3. ASSUME NEW c \in Sync, at[c] \in DOMAIN image[c], Memoized(c, TargetOf(c, Cur(c)))
      PROVE  MemoTrue(d)'
  <2>1. TargetOf(c, Cur(c)) \in Service
    BY <1>3, CurTyped, SyncAssumption DEF TargetOf, Desired
  <2>2. CASE d = c
    BY <1>1, <1>3, <2>1, <2>2, ServiceIdTrue DEF Memoized, MemoTrue, TypeOK
  <2>3. CASE d # c
    BY <1>1, <1>3, <2>3 DEF Memoized, MemoTrue, TypeOK
  <2> QED
    BY <2>2, <2>3
<1>4. ASSUME NEW c \in Sync, Forgotten(c) PROVE MemoTrue(d)'
  BY <1>1, <1>4 DEF Forgotten, NoMemo, MemoTrue, TypeOK
<1>5. ASSUME NEW c \in Sync, ExamineInSync(c) \/ ExamineDrift(c) PROVE MemoTrue(d)'
  BY <1>3, <1>5, ExaminingInLoop DEF ExamineInSync, ExamineDrift
<1>6. ASSUME NEW c \in Sync, SkipPrune(c) \/ PlanPrune(c) \/ EndPrune(c) \/ Fail(c)
      PROVE  MemoTrue(d)'
  BY <1>4, <1>6 DEF SkipPrune, PlanPrune, EndPrune, Fail, Finish
<1>7. ASSUME NEW c \in Sync,
             \/ Start(c) \/ ListRoutes(c) \/ ListPlugins(c) \/ ExamineMissing(c) \/ CreateRoute(c)
             \/ UpdateRoute(c) \/ DropObsolete(c) \/ KeepRewrite(c) \/ UpdateRewrite(c)
             \/ CreateRewrite(c) \/ BeginPrune(c) \/ DeleteOrphan(c)
      PROVE  UNCHANGED sids
  BY <1>7 DEF Start, ListRoutes, ListPlugins, ExamineMissing, CreateRoute, UpdateRoute,
              DropObsolete, KeepRewrite, UpdateRewrite, CreateRewrite, BeginPrune, DeleteOrphan
<1> QED
  BY <1>2, <1>5, <1>6, <1>7 DEF vars, local, Next, Step, RefusePrune, Refused, Crash

\* The jobs register no service, so among themselves every memo is true.
Memories == \A c \in Sync : MemoTrue(c)

LEMMA BasicsInit ==
    ASSUME Init
    PROVE  Basics /\ Memories
<1>1. TypeOK /\ Stable
  BY TypeInit, StableInit
<1>2. Sound
  BY SyncAssumption DEF Init, StartsAs, Sound
<1>3. Fresh /\ Memories /\ DryRunWritesNothing /\ PruneInv
  BY DEF Init, Fresh, Memories, MemoTrue, NoMemo, DryRunWritesNothing, PruneInv, Rest
<1> QED
  BY <1>1, <1>2, <1>3 DEF Basics

LEMMA BasicsNext ==
    ASSUME Basics, [Next]_vars
    PROVE  /\ Basics' /\ UNCHANGED services
           /\ \A c \in Sync : MemoTrue(c) => MemoTrue(c)'
           /\ \A w : Harmless(w) => Harmless(w)'
<1>1. TypeOK' /\ Stable' /\ Fresh' /\ DryRunWritesNothing' /\ PruneInv'
  BY TypeNext, StableNext, FreshNext, DryNext, PruneInvInductive DEF Basics
<1>2. Sound' /\ UNCHANGED services /\ \A w : Harmless(w) => Harmless(w)'
  <2>1. CASE Request
    BY <2>1, RequestSound, HarmlessStays DEF Basics, TypeOK
  <2>2. CASE UNCHANGED <<routes, plugins, services, nextId>>
    BY <2>2, HarmlessUnwritten DEF Basics, Sound, WellFormed
  <2> QED
    BY <2>1, <2>2, StepRequests DEF Basics
<1> QED
  BY <1>1, <1>2, MemoNext DEF Basics

LEMMA LateBasicsNext ==
    ASSUME Basics, Memories, LateHarmless, [LateNext]_lateVars
    PROVE  Basics' /\ Memories' /\ LateHarmless'
<1>1. CASE [Next]_vars /\ late' \subseteq late
  BY <1>1, BasicsNext DEF LateHarmless, Memories
<1>2. CASE \E c \in Sync : \E w \in Sent(c) : Crash(c) /\ late' = late \cup {w}
  <2>1. PICK c \in Sync : \E w \in Sent(c) : Crash(c) /\ late' = late \cup {w}
    BY <1>2
  <2>2. PICK w \in Sent(c) : Crash(c) /\ late' = late \cup {w}
    BY <2>1
  <2>3. Harmless(w) /\ [Next]_vars
    BY <2>2, SentHarmless DEF Basics, Next
  <2> QED
    BY <2>2, <2>3, BasicsNext DEF LateHarmless, Memories
<1>3. CASE Arrive
  <2>1. Request /\ UNCHANGED local /\ late' \subseteq late
    BY <1>3, ArriveRequests DEF Arrive
  <2>2. KongTypeOK' /\ Sound' /\ UNCHANGED services
    BY <2>1, RequestSound DEF Basics, TypeOK
  <2>3. TypeOK'
    BY <2>1, <2>2 DEF Basics, TypeOK, local
  <2>4. Stable'
    BY <2>1, RequestStable DEF Basics, HoldsLess, local
  <2>5. Fresh' /\ DryRunWritesNothing'
    BY <2>1 DEF Basics, Fresh, DryRunWritesNothing, local
  <2>6. Memories'
    BY <2>1, <2>2 DEF Memories, MemoTrue, Registered, local
  <2>7. PruneInv'
    BY <2>1, PruneNamesFixed DEF Basics, PruneInv, local
  <2>8. LateHarmless'
    BY <2>1, HarmlessStays DEF Basics, LateHarmless, TypeOK
  <2> QED
    BY <2>2, <2>3, <2>4, <2>5, <2>6, <2>7, <2>8 DEF Basics
<1> QED
  BY <1>1, <1>2, <1>3, LateSteps

-----------------------------------------------------------------------------
(* What a run knows of a route nobody else writes.                         *)

Loop == {"examine", "create", "patch", "plugin"}

\* The plugins the run holds for a route of its snapshot.
HeldOn(c, n) == {p \in plugged[c] : snap[c][n] # Absent /\ p.route = snap[c][n].id}

\* The snapshot is still right about this route.
AsRead(c, n) == routes[n] = snap[c][n] /\ PluginsOf(n) = HeldOn(c, n)

\* The declared routes the run is through with, and the names it has not touched.
Settled(c) == IF pc[c] \in {"prune", "done"} THEN DOMAIN image[c]
              ELSE {j \in DOMAIN image[c] : j < at[c]}

Pending(c) == RouteName \ {image[c][j].name : j \in Settled(c)}

\* The route itself is as declared; its plugins may not be yet.
FieldsAsDeclared(c, r) ==
    /\ routes[r.name] # Absent
    /\ Registered(TargetOf(c, r)) =>
          \A f \in DOMAIN Payload(c, r) : routes[r.name][f] = Payload(c, r)[f]

Reading(c, n) == pc[c] = "list_plugins" => snap[c][n] = routes[n]

Ahead(c, n) ==
    pc[c] \in Loop /\ n \in Pending(c) => (pc[c] = "plugin" /\ n = Cur(c).name) \/ AsRead(c, n)

Writing(c, n) ==
    Cur(c).name = n =>
        /\ pc[c] = "create" => Prior(c) = Absent
        /\ pc[c] = "patch" => Prior(c) # Absent /\ RouteDiverged(c)
        /\ pc[c] = "plugin" => FieldsAsDeclared(c, Cur(c)) /\ PluginsOf(n) = Held(c)

Behind(c, n) ==
    pc[c] \in Loop \cup {"prune", "done"} /\ ~opts[c].dry =>
        \A i \in Settled(c) :
            image[c][i].name = n /\ Registered(TargetOf(c, image[c][i]))
                => ServedAsDeclared(c, image[c][i])

KnowsRoute(c, n) == Reading(c, n) /\ Ahead(c, n) /\ Writing(c, n) /\ Behind(c, n)

\* What a run has in its memory.
MemoryKept(c) == UNCHANGED <<pc[c], image[c], opts[c], snap[c], plugged[c], sids[c], at[c],
                             orphans[c], report[c]>>

LEMMA OthersLeaveMemory ==
    ASSUME TypeOK, NEW c \in Sync, NEW d \in Sync \ {c}, Start(d) \/ Step(d) \/ Crash(d)
    PROVE  MemoryKept(c)
<1>1. CASE ListRoutes(d) \/ ListPlugins(d) \/ CreateRoute(d) \/ DropObsolete(d) \/ BeginPrune(d)
  BY <1>1 DEF ListRoutes, ListPlugins, CreateRoute, DropObsolete, BeginPrune, Goto, TypeOK, MemoryKept
<1>2. CASE ExamineMissing(d) \/ ExamineInSync(d) \/ ExamineDrift(d)
  BY <1>2 DEF ExamineMissing, ExamineInSync, ExamineDrift, NextRoute, Report, Memoized, Goto,
              TypeOK, MemoryKept
<1>3. CASE UpdateRoute(d) \/ KeepRewrite(d) \/ UpdateRewrite(d) \/ CreateRewrite(d)
  BY <1>3 DEF UpdateRoute, KeepRewrite, UpdateRewrite, CreateRewrite, NextRoute, Report, Goto,
              TypeOK, MemoryKept
<1>4. CASE SkipPrune(d) \/ EndPrune(d)
  BY <1>4 DEF SkipPrune, EndPrune, Finish, Forgotten, Goto, TypeOK, MemoryKept
<1>5. CASE PlanPrune(d)
  BY <1>5 DEF PlanPrune, Finish, Forgotten, Goto, TypeOK, MemoryKept
<1>6. CASE Fail(d)
  BY <1>6 DEF Fail, Forgotten, Goto, TypeOK, MemoryKept
<1>7. CASE DeleteOrphan(d)
  BY <1>7 DEF DeleteOrphan, Report, TypeOK, MemoryKept
<1>8. CASE Start(d)
  <2>1. PICK im \in Images[d], o \in Options :
           image' = [image EXCEPT ![d] = im] /\ opts' = [opts EXCEPT ![d] = o]
    BY <1>8 DEF Start
  <2> QED
    BY <1>8, <2>1 DEF Start, Goto, TypeOK, MemoryKept
<1> QED
  BY <1>1, <1>2, <1>3, <1>4, <1>5, <1>6, <1>7, <1>8 DEF Step, RefusePrune, Refused, Crash

\* A run knows what it knew of a route as long as neither changes.
LEMMA RouteFrame ==
    ASSUME NEW c \in Sync, NEW n, KnowsRoute(c, n), MemoryKept(c), Untouched(n), UNCHANGED services
    PROVE  KnowsRoute(c, n)'
<1> USE DEF MemoryKept
<1>1. /\ PluginsOf(n)' = PluginsOf(n) /\ routes'[n] = routes[n]
      /\ \A s : Registered(s)' = Registered(s)
      /\ HeldOn(c, n)' = HeldOn(c, n)
      /\ Cur(c)' = Cur(c) /\ Prior(c)' = Prior(c) /\ Held(c)' = Held(c)
      /\ Settled(c)' = Settled(c)
      /\ \A r : TargetOf(c, r)' = TargetOf(c, r) /\ Payload(c, r)' = Payload(c, r)
  BY DEF Untouched, Registered, HeldOn, Cur, Prior, Held, Settled, TargetOf, Payload
<1>2. Pending(c)' = Pending(c) /\ AsRead(c, n)' = AsRead(c, n)
  BY <1>1 DEF Pending, AsRead
<1>3. \A r : r.name = n => ServedAsDeclared(c, r)' = ServedAsDeclared(c, r)
  BY ServedFrame
<1>4. \A r : r.name = n => FieldsAsDeclared(c, r)' = FieldsAsDeclared(c, r)
  BY <1>1 DEF FieldsAsDeclared
<1>5. RouteDiverged(c)' = RouteDiverged(c)
  BY <1>1 DEF RouteDiverged, ServiceId
<1>6. Reading(c, n)' /\ Ahead(c, n)'
  BY <1>1, <1>2 DEF KnowsRoute, Reading, Ahead
<1>7. Writing(c, n)'
  BY <1>1, <1>4, <1>5 DEF KnowsRoute, Writing
<1>8. Behind(c, n)'
  BY <1>1, <1>3 DEF KnowsRoute, Behind
<1> QED
  BY <1>6, <1>7, <1>8 DEF KnowsRoute

-----------------------------------------------------------------------------
(* What the comparisons of _sync_route mean for a run that knows Kong. *)

\* Of two rewriters the one that is not obsolete is the wanted one.
LEMMA OneRewriter ==
    ASSUME NEW P, \A p, q \in P : p.name = q.name => p = q,
           NEW name \in Rewriter, \A p \in P : p.name # ObsoleteName(name),
           NEW p \in P, p.name = name
    PROVE  {q \in P : q.name \in Rewriter} = {p}
<1>1. \A m \in Rewriter : m # name => m = ObsoleteName(name)
  BY DEF Rewriter, ObsoleteName
<1> QED
  BY <1>1

LEMMA DeclaredTyped ==
    ASSUME TypeOK, NEW c \in Sync, NEW i \in DOMAIN image[c]
    PROVE  /\ image[c][i] \in Desired
           /\ image[c][i].name \in AllowName /\ image[c][i].name \in RouteName
           /\ TargetOf(c, image[c][i]) \in Service
           /\ \A j \in DOMAIN image[c] : image[c][j].name = image[c][i].name => j = i
<1>1. image[c] \in Images[c] /\ image[c] \in Seq(Desired)
  BY SyncAssumption DEF TypeOK
<1>2. image[c][i] \in Desired
  BY <1>1
<1> QED
  BY <1>1, <1>2, SyncAssumption, NamesAssumption, AdminAssumption DEF Desired, TargetOf

\* The current route is none of the settled ones.
LEMMA CurPending ==
    ASSUME TypeOK, NEW c \in Sync, pc[c] \in Loop, at[c] \in DOMAIN image[c]
    PROVE  /\ Cur(c).name \in Pending(c)
           /\ Settled(c) = {j \in DOMAIN image[c] : j < at[c]}
           /\ \A i \in Settled(c) : image[c][i].name \in RouteName /\ image[c][i].name # Cur(c).name
<1>1. Settled(c) = {j \in DOMAIN image[c] : j < at[c]}
  BY DEF Settled, Loop
<1>2. \A i \in Settled(c) : image[c][i].name \in RouteName /\ image[c][i].name # Cur(c).name
  <2> TAKE i \in Settled(c)
  <2>1. i \in DOMAIN image[c] /\ i < at[c] /\ at[c] \in Nat
    BY <1>1 DEF TypeOK
  <2>2. i # at[c]
    BY <2>1
  <2> QED
    BY <2>1, <2>2, DeclaredTyped DEF Cur
<1>3. Cur(c).name \in RouteName
  BY DeclaredTyped DEF Cur
<1> QED
  BY <1>1, <1>2, <1>3 DEF Pending

\* PATCH is skipped exactly when the route's fields are the declared ones.
LEMMA RouteCompared ==
    ASSUME TypeOK, NEW c \in Sync, MemoTrue(c), at[c] \in DOMAIN image[c],
           Prior(c) # Absent, routes[Cur(c).name] = Prior(c), Registered(TargetOf(c, Cur(c)))
    PROVE  RouteDiverged(c) <=>
             ~\A f \in DOMAIN Payload(c, Cur(c)) : routes[Cur(c).name][f] = Payload(c, Cur(c))[f]
<1> DEFINE r == Cur(c)
           old == Prior(c)
<1>1. r \in Desired /\ r.name \in RouteName /\ TargetOf(c, r) \in Service
  BY DeclaredTyped DEF Cur
<1>2. ServiceId(c, TargetOf(c, r)) = TargetOf(c, r) /\ TargetOf(c, r) # Absent
  BY <1>1, ServiceIdTrue, AdminAssumption
<1>3. old \in Route
  BY <1>1 DEF TypeOK, Prior
<1>4. RouteDiverged(c) <=>
        \/ r.paths # old.paths \/ r.methods # old.methods \/ FALSE # old.strip_path
        \/ RouteTags(c) # old.tags \/ old.service # TargetOf(c, r)
  BY <1>2 DEF RouteDiverged, NeedsPatch, Payload
<1> HIDE DEF r, old
<1>5. (\A f \in DOMAIN Payload(c, r) : old[f] = Payload(c, r)[f]) <=>
              /\ old.service = TargetOf(c, r)
              /\ old.paths = r.paths
              /\ old.methods = r.methods
              /\ old.strip_path = FALSE
              /\ old.tags = RouteTags(c)
  BY <1>1, <1>3, FieldByField
<1> QED
  BY <1>4, <1>5 DEF r, old

\* Without its service nothing is said about the service field.
LEMMA FieldsCompared ==
    ASSUME TypeOK, NEW c \in Sync, MemoTrue(c), at[c] \in DOMAIN image[c],
           Prior(c) # Absent, routes[Cur(c).name] = Prior(c), ~RouteDiverged(c)
    PROVE  FieldsAsDeclared(c, Cur(c))
BY RouteCompared DEF FieldsAsDeclared

\* The plugins are in sync exactly when the declared rewriter is the only one.
LEMMA PluginsCompared ==
    ASSUME TypeOK, Sound, NEW c \in Sync, at[c] \in DOMAIN image[c],
           PluginsOf(Cur(c).name) = Held(c)
    PROVE  ~PluginDiverged(c) <=>
             \E p \in Rewriters(Cur(c).name) :
                 /\ Rewriters(Cur(c).name) = {p}
                 /\ p.name = Want(c).name /\ p.config = Want(c).config
<1> DEFINE P == PluginsOf(Cur(c).name)
<1>1. Want(c).name \in Rewriter /\ ObsoleteName(Want(c).name) \in Rewriter
      /\ ObsoleteName(Want(c).name) # Want(c).name
  BY WantsRewriter DEF Rewriter, ObsoleteName
<1>2. \A p, q \in P : p.name = q.name => p = q
  BY DEF PluginsOf, Sound, WellFormed
<1>3. ~PluginDiverged(c) <=> /\ \A p \in P : p.name # ObsoleteName(Want(c).name)
                             /\ \E p \in P : p.name = Want(c).name /\ p.config = Want(c).config
  BY DEF PluginDiverged, RewriteInSync
<1>4. Rewriters(Cur(c).name) = {p \in P : p.name \in Rewriter}
  BY DEF Rewriters
<1> HIDE DEF P
<1>5. ASSUME ~PluginDiverged(c)
      PROVE  \E p \in Rewriters(Cur(c).name) :
                 /\ Rewriters(Cur(c).name) = {p}
                 /\ p.name = Want(c).name /\ p.config = Want(c).config
  <2>1. PICK p \in P : p.name = Want(c).name /\ p.config = Want(c).config
    BY <1>3, <1>5
  <2>2. Rewriters(Cur(c).name) = {p}
    BY <1>1, <1>2, <1>3, <1>4, <1>5, <2>1, OneRewriter
  <2> QED
    BY <2>1, <2>2
<1>6. ASSUME NEW p \in Rewriters(Cur(c).name), Rewriters(Cur(c).name) = {p},
             p.name = Want(c).name, p.config = Want(c).config
      PROVE  ~PluginDiverged(c)
  BY <1>1, <1>3, <1>4, <1>6
<1> QED
  BY <1>5, <1>6

\* "skipped" is exactly what Kong serves as declared.
LEMMA Compared ==
    ASSUME TypeOK, Sound, NEW c \in Sync, MemoTrue(c), at[c] \in DOMAIN image[c],
           Prior(c) # Absent, AsRead(c, Cur(c).name), Registered(TargetOf(c, Cur(c)))
    PROVE  (~RouteDiverged(c) /\ ~PluginDiverged(c)) <=> ServedAsDeclared(c, Cur(c))
<1>1. routes[Cur(c).name] = Prior(c) /\ PluginsOf(Cur(c).name) = Held(c)
  BY DEF AsRead, HeldOn, Held, Prior
<1> QED
  BY <1>1, RouteCompared, PluginsCompared DEF ServedAsDeclared, Want

-----------------------------------------------------------------------------
-----------------------------------------------------------------------------
(* The body of the loop and the routes it is not at.                       *)

LoopStep(c) ==
    \/ ExamineMissing(c) \/ ExamineInSync(c) \/ ExamineDrift(c)
    \/ CreateRoute(c) \/ UpdateRoute(c)
    \/ DropObsolete(c) \/ KeepRewrite(c) \/ UpdateRewrite(c) \/ CreateRewrite(c)

\* What the body reads and keeps, and where it goes.
LEMMA InLoop ==
    ASSUME Basics, NEW c \in Sync, LoopStep(c)
    PROVE  /\ TypeOK /\ KongTypeOK /\ Sound /\ Stable
           /\ pc[c] \in Loop /\ at[c] \in DOMAIN image[c] /\ Cur(c).name \in RouteName
           /\ pc[c] \in Loop \ {"examine"} => ~opts[c].dry
           /\ pc'[c] \in Loop
           /\ at'[c] = at[c] \/ (at'[c] = at[c] + 1 /\ pc'[c] = "examine")
           /\ UNCHANGED <<image, opts, snap>>
           /\ plugged' = plugged \/ DropObsolete(c)
<1>1. TypeOK /\ KongTypeOK /\ Sound /\ Stable
  BY DEF Basics, TypeOK
<1>2. pc[c] \in Loop /\ at[c] \in DOMAIN image[c]
  BY <1>1, ExaminingInLoop
  DEF LoopStep, ExamineMissing, ExamineInSync, ExamineDrift, CreateRoute, UpdateRoute,
      DropObsolete, KeepRewrite, UpdateRewrite, CreateRewrite, ReadyToWrite, Loop, TypeOK, Examining
<1>3. Cur(c).name \in RouteName
  BY <1>1, <1>2, DeclaredTyped DEF Cur
<1>4. pc[c] \in Loop \ {"examine"} => ~opts[c].dry
  BY DEF Basics, DryRunWritesNothing, Loop
<1>5. CASE ExamineMissing(c) \/ ExamineInSync(c) \/ ExamineDrift(c)
  BY <1>1, <1>2, <1>3, <1>4, <1>5
  DEF ExamineMissing, ExamineInSync, ExamineDrift, NextRoute, Goto, Loop, TypeOK
<1>6. CASE CreateRoute(c) \/ UpdateRoute(c) \/ DropObsolete(c)
  BY <1>1, <1>2, <1>3, <1>4, <1>6 DEF CreateRoute, UpdateRoute, DropObsolete, NextRoute, Goto, Loop, TypeOK
<1>7. CASE KeepRewrite(c) \/ UpdateRewrite(c) \/ CreateRewrite(c)
  BY <1>1, <1>2, <1>3, <1>4, <1>7 DEF KeepRewrite, UpdateRewrite, CreateRewrite, NextRoute, Goto, Loop, TypeOK
<1> QED
  BY <1>5, <1>6, <1>7 DEF LoopStep

\* A plugin the run holds is on the route it is at, or on none.
LEMMA HeldNowhereElse ==
    ASSUME TypeOK, Stable, NEW c \in Sync, Cur(c).name \in RouteName, NEW p \in Held(c),
           NEW m \in RouteName, m # Cur(c).name
    PROVE  /\ routes[m] # Absent => routes[m].id # p.route
           /\ \A q \in PluginsOf(m) : q.id # p.id
<1>1. p \in plugged[c] /\ snap[c][Cur(c).name] # Absent /\ p.route = snap[c][Cur(c).name].id
  BY DEF Held, Prior
<1>2. routes[m] # Absent => routes[m].id # p.route
  BY <1>1 DEF Stable, SnapStable
<1>3. \A q \in plugins : q.id = p.id => q.route = p.route
  BY <1>1 DEF Stable, PluggedStable
<1> QED
  BY <1>2, <1>3 DEF PluginsOf

LEMMA BodyWritesOnly ==
    ASSUME Basics, NEW c \in Sync, LoopStep(c)
    PROVE  Only(Cur(c).name)
<1>1. /\ TypeOK /\ KongTypeOK /\ Sound /\ Stable /\ at[c] \in DOMAIN image[c]
      /\ Cur(c).name \in RouteName
  BY InLoop
<1>2. CASE CreateRoute(c) \/ UpdateRoute(c)
  BY <1>1, <1>2, CurTyped, PostRouteEffect, PatchRouteEffect DEF CreateRoute, UpdateRoute
<1>3. CASE CreateRewrite(c)
  BY <1>1, <1>3, PostPluginEffect DEF CreateRewrite
<1>4. CASE DropObsolete(c)
  <2>1. PICK p \in Held(c) : DeletePlugin(c, p.id)
    BY <1>4 DEF DropObsolete, ObsoleteHeld
  <2>2. plugins' = {q \in plugins : q.id # p.id} /\ UNCHANGED <<routes, services>>
    BY <2>1 DEF DeletePlugin
  <2> QED
    BY <1>1, <2>2, HeldNowhereElse DEF Only, Untouched, PluginsOf
<1>5. CASE UpdateRewrite(c)
  <2>1. PICK p \in Held(c) : PatchPlugin(c, p.id, Want(c).config)
    BY <1>5 DEF UpdateRewrite, SameHeld
  <2> DEFINE patched(q) == IF q.id = p.id THEN [q EXCEPT !.config = Want(c).config] ELSE q
  <2>2. plugins' = {patched(q) : q \in plugins} /\ UNCHANGED <<routes, services>>
    BY <2>1 DEF PatchPlugin
  <2>3. \A q \in plugins : (q.id # p.id => patched(q) = q) /\ patched(q).route = q.route
    BY <1>1 DEF KongTypeOK, Plugin
  <2> HIDE DEF patched
  <2>4. ASSUME NEW m \in RouteName \ {Cur(c).name} PROVE PluginsOf(m)' = PluginsOf(m)
    <3>1. \A q \in PluginsOf(m) : q.id # p.id
      BY <1>1, HeldNowhereElse
    <3>2. \A q \in plugins : patched(q).route = routes[m].id /\ routes[m] # Absent => patched(q) = q
      BY <2>3, <3>1 DEF PluginsOf
    <3> QED
      BY <2>2, <2>3, <3>1, <3>2 DEF PluginsOf
  <2> QED
    BY <2>2, <2>4 DEF Only, Untouched
<1>6. CASE UNCHANGED <<routes, plugins, services>>
  BY <1>6 DEF Only, Untouched, PluginsOf
<1>7. CASE ExamineMissing(c) \/ ExamineInSync(c) \/ ExamineDrift(c) \/ KeepRewrite(c)
  BY <1>6, <1>7 DEF ExamineMissing, ExamineInSync, ExamineDrift, KeepRewrite, kong
<1> QED
  BY <1>2, <1>3, <1>4, <1>5, <1>7 DEF LoopStep

\* What the run knows of the other routes.
LEMMA BodyElsewhere ==
    ASSUME Basics, NEW c \in Sync, NEW n \in RouteName, KnowsRoute(c, n), LoopStep(c),
           n # Cur(c).name
    PROVE  KnowsRoute(c, n)'
<1>1. /\ TypeOK /\ Stable /\ pc[c] \in Loop /\ at[c] \in DOMAIN image[c] /\ pc'[c] \in Loop
      /\ Cur(c).name \in RouteName
      /\ at'[c] = at[c] \/ (at'[c] = at[c] + 1 /\ pc'[c] = "examine")
      /\ UNCHANGED <<image, opts, snap>>
  BY InLoop
<1>2. Untouched(n) /\ UNCHANGED services
  BY BodyWritesOnly DEF Only
<1>3. \A j \in DOMAIN image[c] : image[c][j].name = n => (j \in Settled(c)' <=> j \in Settled(c))
  <2>1. image[c] \in Seq(Desired) /\ at[c] \in Nat
    BY <1>1, SyncAssumption DEF TypeOK
  <2>2. \A j \in DOMAIN image[c] : image[c][j].name = n => j # at[c] /\ j \in Nat
    BY <2>1 DEF Cur
  <2>3. Settled(c) = {j \in DOMAIN image[c] : j < at[c]}
    BY <1>1 DEF Settled, Loop
  <2>4. Settled(c)' = {j \in DOMAIN image[c] : j < at'[c]}
    BY <1>1 DEF Settled, Loop
  <2> QED
    BY <1>1, <2>1, <2>2, <2>3, <2>4
<1>4. Settled(c) \subseteq DOMAIN image[c] /\ Settled(c)' \subseteq DOMAIN image[c]
  BY <1>1 DEF Settled
<1>5. Ahead(c, n)'
  <2> SUFFICES ASSUME n \in Pending(c)' PROVE AsRead(c, n)'
    BY DEF Ahead
  <2>1. n \in Pending(c)
    BY <1>1, <1>3, <1>4 DEF Pending
  <2>2. AsRead(c, n)
    BY <1>1, <2>1 DEF KnowsRoute, Ahead
  <2>3. HeldOn(c, n)' = HeldOn(c, n)
    <3>1. CASE plugged' = plugged
      BY <1>1, <3>1 DEF HeldOn
    <3>2. CASE DropObsolete(c)
      <4>1. PICK p \in Held(c) : plugged' = [plugged EXCEPT ![c] = @ \ {p}]
        BY <3>2 DEF DropObsolete, ObsoleteHeld
      <4>2. plugged'[c] = plugged[c] \ {p}
        BY <1>1, <4>1 DEF TypeOK
      <4>3. snap[c][n] # Absent => snap[c][n].id # p.route
        BY <1>1, <2>2, HeldNowhereElse DEF AsRead
      <4> QED
        BY <1>1, <4>2, <4>3 DEF HeldOn
    <3> QED
      BY <3>1, <3>2, InLoop
  <2> QED
    BY <1>1, <1>2, <2>2, <2>3 DEF AsRead, Untouched
<1>6. Behind(c, n)'
  <2> SUFFICES ASSUME ~opts[c].dry, NEW i \in Settled(c)', image[c][i].name = n,
                      Registered(TargetOf(c, image[c][i]))
               PROVE  ServedAsDeclared(c, image[c][i])'
    BY <1>1, <1>2 DEF Behind, Registered, TargetOf
  <2>1. PICK r : r = image[c][i]
    OBVIOUS
  <2>2. ServedAsDeclared(c, r)
    BY <1>1, <1>3, <1>4, <2>1 DEF KnowsRoute, Behind
  <2>3. ServedAsDeclared(c, r)'
    BY <1>2, <2>1, <2>2, ServedFrame
  <2> QED
    BY <1>1, <2>1, <2>3
<1>7. Reading(c, n)' /\ Writing(c, n)'
  BY <1>1 DEF Reading, Writing, Loop, Cur
<1> QED
  BY <1>5, <1>6, <1>7 DEF KnowsRoute

-----------------------------------------------------------------------------
(* The body of the loop and the route it is at.                            *)

\* A run that stays at its route.
LEMMA BodyGoesOn ==
    ASSUME Basics, NEW c \in Sync, NEW n, n = Cur(c).name, LoopStep(c), UNCHANGED at,
           pc'[c] = "plugin" \/ AsRead(c, n)',
           Writing(c, n)'
    PROVE  KnowsRoute(c, n)'
<1>1. /\ TypeOK /\ pc[c] \in Loop /\ at[c] \in DOMAIN image[c] /\ pc'[c] \in Loop
      /\ UNCHANGED <<image, opts, snap>>
  BY InLoop
<1>2. Settled(c)' = Settled(c) /\ Cur(c)' = Cur(c)
  BY <1>1 DEF Settled, Cur, Loop
<1>3. \A i \in Settled(c) : image[c][i].name # n
  BY <1>1, CurPending
<1> QED
  BY <1>1, <1>2, <1>3 DEF KnowsRoute, Reading, Ahead, Behind, Loop

\* A run that goes to the next route.
LEMMA BodyEnds ==
    ASSUME Basics, NEW c \in Sync, NEW n, n = Cur(c).name, LoopStep(c),
           NEW list, NextRoute(c, list), NEW r, r = Cur(c),
           ~opts[c].dry /\ Registered(TargetOf(c, r)) => ServedAsDeclared(c, r)'
    PROVE  KnowsRoute(c, n)'
<1>1. /\ TypeOK /\ pc[c] \in Loop /\ at[c] \in DOMAIN image[c]
      /\ UNCHANGED <<image, opts, snap>> /\ UNCHANGED services
  BY InLoop, BodyWritesOnly DEF Only
<1>2. pc'[c] = "examine" /\ at'[c] = at[c] + 1 /\ at[c] \in Nat
  BY <1>1 DEF NextRoute, Goto, TypeOK
<1>3. Settled(c)' = Settled(c) \cup {at[c]}
  <2>1. image[c] \in Seq(Desired)
    BY <1>1, SyncAssumption DEF TypeOK
  <2>2. \A j \in DOMAIN image[c] : j < at[c] + 1 <=> j < at[c] \/ j = at[c]
    BY <1>2, <2>1
  <2> QED
    BY <1>1, <1>2, <2>2 DEF Settled, Loop
<1>4. n \notin Pending(c)'
  BY <1>1, <1>3 DEF Pending, Cur
<1>5. Behind(c, n)'
  <2> SUFFICES ASSUME ~opts[c].dry, NEW i \in Settled(c) \cup {at[c]}, image[c][i].name = n,
                      Registered(TargetOf(c, image[c][i]))
               PROVE  ServedAsDeclared(c, image[c][i])'
    BY <1>1, <1>3 DEF Behind, Registered, TargetOf
  <2>1. i = at[c]
    BY <1>1, CurPending
  <2>2. image'[c][i] = r /\ image[c][i] = r
    BY <1>1, <2>1 DEF Cur
  <2> QED
    BY <2>2
<1> QED
  BY <1>2, <1>4, <1>5 DEF KnowsRoute, Reading, Ahead, Writing

LEMMA AtExamineMissing ==
    ASSUME Basics, NEW c \in Sync, NEW n, n = Cur(c).name, KnowsRoute(c, n), ExamineMissing(c)
    PROVE  KnowsRoute(c, n)'
<1>1. LoopStep(c) /\ pc[c] = "examine" /\ Prior(c) = Absent
      /\ UNCHANGED <<routes, plugins, services, image, opts, snap, plugged>>
  BY DEF ExamineMissing, Examining, LoopStep, kong
<1>2. TypeOK /\ n \in RouteName /\ AsRead(c, n)
  BY <1>1, InLoop, CurPending DEF KnowsRoute, Ahead
<1>3. CASE opts[c].dry
  BY <1>1, <1>3, BodyEnds DEF ExamineMissing
<1>4. CASE ~opts[c].dry
  <2>1. pc'[c] = "create" /\ UNCHANGED at
    BY <1>2, <1>4 DEF ExamineMissing, Goto, TypeOK
  <2>2. AsRead(c, n)' /\ Prior(c)' = Absent
    BY <1>1, <1>2, <2>1 DEF PluginsOf, HeldOn, AsRead, Prior, Cur
  <2>3. Writing(c, n)'
    BY <2>1, <2>2 DEF Writing
  <2> QED
    BY <1>1, <2>1, <2>2, <2>3, BodyGoesOn
<1> QED
  BY <1>3, <1>4

LEMMA AtExamineInSync ==
    ASSUME Basics, NEW c \in Sync, MemoTrue(c), NEW n, n = Cur(c).name, KnowsRoute(c, n), ExamineInSync(c)
    PROVE  KnowsRoute(c, n)'
<1>1. /\ LoopStep(c) /\ pc[c] = "examine" /\ Prior(c) # Absent
      /\ ~RouteDiverged(c) /\ ~PluginDiverged(c) /\ NextRoute(c, "skipped")
      /\ UNCHANGED <<routes, plugins, services>>
  BY DEF ExamineInSync, Examining, LoopStep, kong
<1>2. AsRead(c, n)
  BY <1>1, InLoop, CurPending DEF KnowsRoute, Ahead
<1>3. Registered(TargetOf(c, Cur(c))) => ServedAsDeclared(c, Cur(c))
  BY <1>1, <1>2, InLoop, Compared
<1>4. PICK r : r = Cur(c)
  OBVIOUS
<1>5. Untouched(r.name)
  BY <1>1 DEF Untouched, PluginsOf
<1>6. Registered(TargetOf(c, r)) => ServedAsDeclared(c, r)'
  BY <1>1, <1>3, <1>4, <1>5, ServedFrame
<1> QED
  BY <1>1, <1>4, <1>6, BodyEnds

LEMMA AtExamineDrift ==
    ASSUME Basics, NEW c \in Sync, MemoTrue(c), NEW n, n = Cur(c).name, KnowsRoute(c, n), ExamineDrift(c)
    PROVE  KnowsRoute(c, n)'
<1>1. /\ LoopStep(c) /\ pc[c] = "examine" /\ Prior(c) # Absent
      /\ UNCHANGED <<routes, plugins, services, image, opts, snap, plugged>>
  BY DEF ExamineDrift, Examining, LoopStep, kong
<1>2. TypeOK /\ at[c] \in DOMAIN image[c] /\ n \in RouteName /\ AsRead(c, n)
  BY <1>1, InLoop, CurPending DEF KnowsRoute, Ahead
<1>3. routes[n] = Prior(c) /\ PluginsOf(n) = Held(c)
  BY <1>2 DEF AsRead, Prior, HeldOn, Held
<1>4. CASE opts[c].dry
  <2>1. NextRoute(c, "updated")
    BY <1>4 DEF ExamineDrift
  <2>2. PICK r : r = Cur(c)
    OBVIOUS
  <2> QED
    BY <1>1, <1>4, <2>1, <2>2, BodyEnds
<1>5. CASE ~opts[c].dry
  <2>1. /\ pc'[c] = (IF RouteDiverged(c) THEN "patch" ELSE "plugin")
        /\ UNCHANGED at /\ Memoized(c, TargetOf(c, Cur(c)))
    BY <1>2, <1>5 DEF ExamineDrift, Goto, TypeOK
  <2>2. /\ AsRead(c, n)' /\ Cur(c)' = Cur(c) /\ Prior(c)' = Prior(c)
        /\ Held(c)' = Held(c) /\ PluginsOf(n)' = PluginsOf(n)
    BY <1>1, <1>2, <2>1 DEF PluginsOf, HeldOn, AsRead, Prior, Cur, Held
  <2>3. RouteDiverged(c)' = RouteDiverged(c)
    <3>1. TargetOf(c, Cur(c)) \in Service
      BY <1>2, DeclaredTyped DEF Cur
    <3>2. ServiceId(c, TargetOf(c, Cur(c)))' = ServiceId(c, TargetOf(c, Cur(c)))
      <4>1. Cur(c)' = Cur(c) /\ TargetOf(c, Cur(c))' = TargetOf(c, Cur(c))
        BY <2>2 DEF TargetOf
      <4>2. sids'[c][TargetOf(c, Cur(c))] = ServiceId(c, TargetOf(c, Cur(c)))
        BY <1>2, <2>1, <3>1 DEF Memoized, TypeOK
      <4>3. ServiceId(c, TargetOf(c, Cur(c))) # Unread
        BY <1>2, <3>1, ServiceIdTrue, SyncAssumption
      <4> QED
        BY <4>1, <4>2, <4>3 DEF ServiceId
    <3> QED
      BY <2>2, <3>2 DEF RouteDiverged, Payload, TargetOf
  <2>4. ~RouteDiverged(c) => FieldsAsDeclared(c, Cur(c))
    BY <1>1, <1>2, <1>3, FieldsCompared
  <2>5. FieldsAsDeclared(c, Cur(c))' = FieldsAsDeclared(c, Cur(c))
    BY <1>1, <2>2 DEF FieldsAsDeclared, Payload, TargetOf, Registered
  <2>6. Writing(c, n)'
    BY <1>1, <1>3, <2>1, <2>2, <2>3, <2>4, <2>5 DEF Writing
  <2> QED
    BY <1>1, <2>1, <2>2, <2>6, BodyGoesOn
<1> QED
  BY <1>4, <1>5

LEMMA AtCreateRoute ==
    ASSUME Basics, NEW c \in Sync, NEW n, n = Cur(c).name, KnowsRoute(c, n), CreateRoute(c)
    PROVE  KnowsRoute(c, n)'
<1>1. /\ LoopStep(c) /\ pc[c] = "create" /\ UNCHANGED <<image, opts, snap, plugged, at>>
  BY DEF CreateRoute, LoopStep
<1>2. TypeOK /\ KongTypeOK /\ Sound /\ at[c] \in DOMAIN image[c] /\ n \in RouteName
  BY <1>1, InLoop
<1>3. PICK r : r = Cur(c)
  OBVIOUS
<1>4. Payload(c, r) \in RouteFields
  BY <1>2, <1>3, CurTyped
<1>5. /\ routes'[n] \in Route /\ PluginsOf(n)' = {}
      /\ \A f \in DOMAIN Payload(c, r) : routes'[n][f] = Payload(c, r)[f]
  BY <1>2, <1>3, <1>4, PostRouteEffect DEF CreateRoute
<1>6. Cur(c)' = r /\ Prior(c)' = Absent /\ pc'[c] = "plugin"
  BY <1>1, <1>2, <1>3 DEF Cur, Prior, KnowsRoute, Writing, CreateRoute, Goto, TypeOK
<1>7. Writing(c, n)'
  <2>1. FieldsAsDeclared(c, r)'
    BY <1>3, <1>5, AdminAssumption DEF FieldsAsDeclared, Payload, TargetOf
  <2>2. Held(c)' = {}
    BY <1>6 DEF Held
  <2> QED
    BY <1>5, <1>6, <2>1, <2>2 DEF Writing
<1> QED
  BY <1>1, <1>6, <1>7, BodyGoesOn

LEMMA AtUpdateRoute ==
    ASSUME Basics, NEW c \in Sync, NEW n, n = Cur(c).name, KnowsRoute(c, n), UpdateRoute(c)
    PROVE  KnowsRoute(c, n)'
<1>1. /\ LoopStep(c) /\ pc[c] = "patch" /\ UNCHANGED <<image, opts, snap, plugged>>
  BY DEF UpdateRoute, LoopStep
<1>2. TypeOK /\ KongTypeOK /\ Sound /\ at[c] \in DOMAIN image[c] /\ n \in RouteName /\ AsRead(c, n)
  BY <1>1, InLoop, CurPending DEF KnowsRoute, Ahead
<1>3. PICK r : r = Cur(c)
  OBVIOUS
<1>4. Payload(c, r) \in RouteFields
  BY <1>2, <1>3, CurTyped
<1>5. /\ routes'[n] \in Route /\ PluginsOf(n)' = PluginsOf(n)
      /\ \A f \in DOMAIN Payload(c, r) : routes'[n][f] = Payload(c, r)[f]
  BY <1>2, <1>3, <1>4, PatchRouteEffect DEF UpdateRoute
<1>6. PluginsOf(n) = Held(c)
  BY <1>2 DEF AsRead, HeldOn, Held, Prior
<1>7. CASE PluginDiverged(c)
  <2>1. pc'[c] = "plugin" /\ UNCHANGED at
    BY <1>2, <1>7 DEF UpdateRoute, Goto, TypeOK
  <2>2. Cur(c)' = r /\ Held(c)' = Held(c)
    BY <1>1, <1>3, <2>1 DEF Cur, Prior, Held
  <2>3. FieldsAsDeclared(c, r)'
    BY <1>3, <1>5, AdminAssumption DEF FieldsAsDeclared, Payload, TargetOf
  <2>4. Writing(c, n)'
    BY <1>5, <1>6, <2>1, <2>2, <2>3 DEF Writing
  <2> QED
    BY <1>1, <2>1, <2>4, BodyGoesOn
<1>8. CASE ~PluginDiverged(c)
  <2>1. NextRoute(c, "updated")
    BY <1>8 DEF UpdateRoute
  <2>2. PICK p \in Rewriters(r.name) :
           /\ Rewriters(r.name) = {p}
           /\ p.name = Want(c).name /\ p.config = Want(c).config
    BY <1>2, <1>3, <1>6, <1>8, PluginsCompared
  <2>3. ServedAsDeclared(c, r)'
    BY <1>3, <1>5, <2>2, AdminAssumption
    DEF ServedAsDeclared, Rewriters, Want, Payload, TargetOf
  <2> QED
    BY <1>1, <1>3, <2>1, <2>3, BodyEnds
<1> QED
  BY <1>7, <1>8

\* At its plugins, the run holds those of the live route and no others.
LEMMA AtPlugins ==
    ASSUME Basics, NEW c \in Sync, NEW n, n = Cur(c).name, KnowsRoute(c, n), pc[c] = "plugin"
    PROVE  /\ TypeOK /\ KongTypeOK /\ Sound /\ at[c] \in DOMAIN image[c] /\ n \in RouteName
           /\ FieldsAsDeclared(c, Cur(c)) /\ PluginsOf(n) = Held(c)
           /\ Want(c).name \in Rewriter
           /\ Want(c) = DesiredRewrite(Cur(c), SyncPrefix[c])
           /\ Want(c).name # ObsoleteName(Want(c).name)
<1>1. TypeOK /\ KongTypeOK /\ Sound /\ at[c] \in DOMAIN image[c]
  BY DEF Basics, TypeOK
<1>2. FieldsAsDeclared(c, Cur(c)) /\ PluginsOf(n) = Held(c)
  BY DEF KnowsRoute, Writing
<1>3. n \in RouteName /\ Want(c).name \in Rewriter
  BY <1>1, DeclaredTyped, WantsRewriter DEF Cur
<1> QED
  BY <1>1, <1>2, <1>3 DEF Want, ObsoleteName

\* The last write of a route: its only rewriter is the declared one.
LEMMA PluginsWritten ==
    ASSUME Basics, NEW c \in Sync, NEW n, n = Cur(c).name, KnowsRoute(c, n), LoopStep(c),
           pc[c] = "plugin", NEW list, NextRoute(c, list), routes' = routes, Sound',
           \A p \in PluginsOf(n)' : p.name # ObsoleteName(Want(c).name),
           NEW p \in PluginsOf(n)', p.name = Want(c).name, p.config = Want(c).config
    PROVE  KnowsRoute(c, n)'
<1>1. PICK r : r = Cur(c)
  OBVIOUS
<1>2. /\ Want(c).name \in Rewriter
      /\ FieldsAsDeclared(c, r) /\ Want(c) = DesiredRewrite(r, SyncPrefix[c])
  BY <1>1, AtPlugins
<1>3. Registered(TargetOf(c, r)) => ServedAsDeclared(c, r)'
  <2>1. \A x, y \in PluginsOf(n)' : x.name = y.name => x = y
    BY DEF PluginsOf, Sound, WellFormed
  <2>2. Rewriters(n)' = {p}
    <3>1. PICK P : P = PluginsOf(n)'
      OBVIOUS
    <3>2. {q \in P : q.name \in Rewriter} = {p}
      BY <1>2, <2>1, <3>1, OneRewriter
    <3> QED
      BY <3>1, <3>2 DEF Rewriters
  <2> QED
    BY <1>1, <1>2, <2>2 DEF FieldsAsDeclared, ServedAsDeclared, Payload, TargetOf
<1> QED
  BY <1>1, <1>3, BodyEnds

LEMMA AtDropObsolete ==
    ASSUME Basics, NEW c \in Sync, NEW n, n = Cur(c).name, KnowsRoute(c, n), DropObsolete(c)
    PROVE  KnowsRoute(c, n)'
<1>1. PICK p \in ObsoleteHeld(c) :
         DeletePlugin(c, p.id) /\ plugged' = [plugged EXCEPT ![c] = @ \ {p}]
  BY DEF DropObsolete
<1>2. pc[c] = "plugin" /\ UNCHANGED <<pc, image, opts, snap, at>>
  BY DEF DropObsolete
<1>3. /\ TypeOK /\ KongTypeOK /\ Sound /\ n \in RouteName
      /\ FieldsAsDeclared(c, Cur(c)) /\ PluginsOf(n) = Held(c)
  BY <1>2, AtPlugins
<1>4. p \in Held(c) /\ p \in PluginsOf(n)
  BY <1>1, <1>3 DEF ObsoleteHeld
<1>5. Only(n) /\ PluginsOf(n)' = PluginsOf(n) \ {p} /\ routes' = routes
  BY <1>1, <1>3, <1>4, DeletePluginEffect DEF DeletePlugin
<1>6. plugged'[c] = plugged[c] \ {p} /\ Cur(c)' = Cur(c) /\ Prior(c)' = Prior(c)
  BY <1>1, <1>2, <1>3 DEF TypeOK, Cur, Prior
<1>7. Held(c)' = Held(c) \ {p}
  BY <1>6 DEF Held
<1>8. FieldsAsDeclared(c, Cur(c))'
  BY <1>2, <1>3, <1>5, <1>6 DEF FieldsAsDeclared, Payload, TargetOf, Only, Registered
<1>9. Writing(c, n)'
  BY <1>2, <1>3, <1>5, <1>6, <1>7, <1>8 DEF Writing
<1> QED
  BY <1>2, <1>9, BodyGoesOn DEF LoopStep

LEMMA AtKeepRewrite ==
    ASSUME Basics, NEW c \in Sync, NEW n, n = Cur(c).name, KnowsRoute(c, n), KeepRewrite(c)
    PROVE  KnowsRoute(c, n)'
<1>1. /\ pc[c] = "plugin" /\ ObsoleteHeld(c) = {} /\ NextRoute(c, Outcome(c))
      /\ UNCHANGED <<routes, plugins, nextId>> /\ LoopStep(c)
  BY DEF KeepRewrite, ReadyToWrite, kong, LoopStep
<1>2. PICK p \in SameHeld(c) : p.config = Want(c).config
  BY DEF KeepRewrite
<1>3. Sound' /\ PluginsOf(n)' = Held(c)
  BY <1>1, AtPlugins DEF PluginsOf, Sound, WellFormed
<1>4. p \in Held(c) /\ p.name = Want(c).name
  BY DEF SameHeld
<1>5. \A q \in Held(c) : q.name # ObsoleteName(Want(c).name)
  BY <1>1 DEF ObsoleteHeld
<1>6. PICK list : list = Outcome(c)
  OBVIOUS
<1> QED
  BY <1>1, <1>2, <1>3, <1>4, <1>5, <1>6, PluginsWritten

LEMMA AtUpdateRewrite ==
    ASSUME Basics, NEW c \in Sync, NEW n, n = Cur(c).name, KnowsRoute(c, n), UpdateRewrite(c)
    PROVE  KnowsRoute(c, n)'
<1>1. pc[c] = "plugin" /\ ObsoleteHeld(c) = {} /\ NextRoute(c, Outcome(c)) /\ LoopStep(c)
  BY DEF UpdateRewrite, ReadyToWrite, LoopStep
<1>2. PICK p \in SameHeld(c) : PatchPlugin(c, p.id, Want(c).config)
  BY DEF UpdateRewrite
<1>3. /\ KongTypeOK /\ Sound /\ n \in RouteName /\ p \in PluginsOf(n) /\ p.name = Want(c).name
      /\ Want(c).name # ObsoleteName(Want(c).name)
  BY <1>1, AtPlugins DEF SameHeld
<1>4. Sound' /\ routes' = routes
  BY <1>2, <1>3, PatchPluginSound
<1> DEFINE new == Patched(p, Want(c).config)
<1>5. new \in PluginsOf(n)' /\ PluginsOf(n)' \subseteq PluginsOf(n) \cup {new}
  BY <1>2, <1>3, PatchPluginEffect
<1>6. new.name = p.name /\ new.config = Want(c).config
  BY <1>3, PatchedFields DEF KongTypeOK, PluginsOf
<1> HIDE DEF new
<1>7. \A q \in PluginsOf(n) : q.name # ObsoleteName(Want(c).name)
  BY <1>1, AtPlugins DEF ObsoleteHeld
<1>8. PICK list : list = Outcome(c)
  OBVIOUS
<1> QED
  BY <1>1, <1>3, <1>4, <1>5, <1>6, <1>7, <1>8, PluginsWritten

LEMMA AtCreateRewrite ==
    ASSUME Basics, NEW c \in Sync, NEW n, n = Cur(c).name, KnowsRoute(c, n), CreateRewrite(c)
    PROVE  KnowsRoute(c, n)'
<1>1. /\ pc[c] = "plugin" /\ ObsoleteHeld(c) = {} /\ NextRoute(c, Outcome(c)) /\ LoopStep(c)
      /\ PostPlugin(c, n, Want(c).name, Want(c).config)
  BY DEF CreateRewrite, ReadyToWrite, LoopStep
<1>2. /\ KongTypeOK /\ Sound /\ n \in RouteName /\ Want(c).name # ObsoleteName(Want(c).name)
      /\ \A q \in PluginsOf(n) : q.name # ObsoleteName(Want(c).name)
  BY <1>1, AtPlugins DEF ObsoleteHeld
<1>3. Sound' /\ routes' = routes
  BY <1>1, <1>2, PostPluginEffect
<1>4. PICK new : PluginsOf(n)' = PluginsOf(n) \cup {new}
                 /\ new.name = Want(c).name /\ new.config = Want(c).config
  BY <1>1, <1>2, PostPluginEffect
<1>5. PICK list : list = Outcome(c)
  OBVIOUS
<1> QED
  BY <1>1, <1>2, <1>3, <1>4, <1>5, PluginsWritten

LEMMA BodyKnows ==
    ASSUME Basics, NEW c \in Sync, MemoTrue(c), NEW n \in RouteName, KnowsRoute(c, n), LoopStep(c)
    PROVE  KnowsRoute(c, n)'
<1>1. CASE n # Cur(c).name
  BY <1>1, BodyElsewhere
<1>2. CASE n = Cur(c).name
  BY <1>2, AtExamineMissing, AtExamineInSync, AtExamineDrift, AtCreateRoute, AtUpdateRoute,
     AtDropObsolete, AtKeepRewrite, AtUpdateRewrite, AtCreateRewrite DEF LoopStep
<1> QED
  BY <1>1, <1>2

-----------------------------------------------------------------------------
(* The other steps of the run, and one route.                              *)

LEMMA ListedNone ==
    ASSUME TypeOK, Fresh, NEW c \in Sync, ListPlugins(c)
    PROVE  Settled(c)' = {}
<1>1. at[c] = 1 /\ pc'[c] = "examine" /\ UNCHANGED <<image, at>>
  BY DEF Fresh, ListPlugins, Goto, TypeOK
<1>2. image[c] \in Images[c] \cup {<<>>} /\ Images[c] \in SUBSET Seq(Desired)
  BY SyncAssumption DEF TypeOK
<1>3. \A j \in DOMAIN image[c] : j \in Nat /\ j >= 1
  BY <1>2
<1> QED
  BY <1>1, <1>3 DEF Settled

LEMMA ListedRoute ==
    ASSUME TypeOK, Fresh, NEW c \in Sync, NEW n \in RouteName, KnowsRoute(c, n),
           ListRoutes(c) \/ ListPlugins(c)
    PROVE  KnowsRoute(c, n)'
<1>1. CASE ListRoutes(c)
  <2>1. pc'[c] = "list_plugins" /\ snap'[c] = routes /\ routes' = routes
    BY <1>1 DEF ListRoutes, Goto, TypeOK, kong
  <2> QED
    BY <2>1 DEF KnowsRoute, Reading, Ahead, Writing, Behind, Loop
<1>2. CASE ListPlugins(c)
  <2>1. /\ pc[c] = "list_plugins" /\ pc'[c] = "examine" /\ plugged'[c] = plugins
        /\ UNCHANGED <<routes, plugins, image, opts, snap, at>>
    BY <1>2 DEF ListPlugins, Goto, TypeOK, kong
  <2>2. snap[c][n] = routes[n]
    BY <2>1 DEF KnowsRoute, Reading
  <2>3. AsRead(c, n)'
    BY <2>1, <2>2 DEF AsRead, HeldOn, PluginsOf
  <2>4. Settled(c)' = {}
    BY <1>2, ListedNone
  <2> QED
    BY <2>1, <2>3, <2>4 DEF KnowsRoute, Reading, Ahead, Writing, Behind
<1> QED
  BY <1>1, <1>2

\* After its last route the run has settled every declared name.
LEMMA AllSettled ==
    ASSUME TypeOK, NEW c \in Sync, Upserted(c)
    PROVE  Settled(c) = DOMAIN image[c] /\ (Names(c) = {} <=> image[c] = <<>>)
<1>1. image[c] \in Images[c] \cup {<<>>} /\ Images[c] \in SUBSET Seq(Desired)
  BY SyncAssumption DEF TypeOK
<1>2. <<>> \in Seq(Desired)
  OBVIOUS
<1>3. image[c] \in Seq(Desired)
  BY <1>1, <1>2
<1>4. \A j \in DOMAIN image[c] : j < at[c]
  BY <1>3 DEF TypeOK, Upserted
<1>5. Settled(c) = DOMAIN image[c]
  BY <1>4 DEF Settled, Upserted
<1>6. CASE image[c] = <<>>
  BY <1>5, <1>6 DEF Names
<1>7. CASE image[c] # <<>>
  <2>1. 1 \in DOMAIN image[c]
    BY <1>3, <1>7
  <2> QED
    BY <1>5, <1>7, <2>1 DEF Names
<1> QED
  BY <1>5, <1>6, <1>7

\* The end of a run, or the beginning of its prune, leaves Kong alone.
LEMMA PastLoop ==
    ASSUME Basics, NEW c \in Sync, NEW n \in RouteName, KnowsRoute(c, n),
           SkipPrune(c) \/ PlanPrune(c) \/ BeginPrune(c) \/ EndPrune(c)
    PROVE  KnowsRoute(c, n)'
<1>1. /\ TypeOK /\ UNCHANGED <<routes, plugins, services, image, opts>>
      /\ Upserted(c) \/ pc[c] = "prune"
      /\ pc'[c] \in {"prune", "done"}
  BY DEF Basics, TypeOK, SkipPrune, PlanPrune, BeginPrune, EndPrune, Finish, Goto, kong
<1>2. Settled(c) = DOMAIN image[c] /\ Settled(c)' = DOMAIN image[c]
  BY <1>1, AllSettled DEF Settled
<1>3. \A r : ServedAsDeclared(c, r)' = ServedAsDeclared(c, r)
  <2> TAKE r
  <2>1. Untouched(r.name)
    BY <1>1 DEF Untouched, PluginsOf
  <2> QED
    BY <1>1, <2>1, ServedFrame
<1>4. /\ \A s : Registered(s)' = Registered(s)
      /\ \A r : TargetOf(c, r)' = TargetOf(c, r)
  BY <1>1 DEF Registered, TargetOf
<1>5. Behind(c, n)'
  BY <1>1, <1>2, <1>3, <1>4 DEF KnowsRoute, Behind, Upserted, Loop
<1> QED
  BY <1>1, <1>5 DEF KnowsRoute, Reading, Ahead, Writing, Loop

\* What prune deletes is not declared.
LEMMA OrphanUndeclared ==
    ASSUME Basics, NEW c \in Sync, pc[c] = "prune", NEW n \in orphans[c]
    PROVE  n \in RouteName /\ n \notin Names(c)
BY AdminAssumption DEF Basics, PruneInv, PruneNames, TypeOK

LEMMA PrunedRoute ==
    ASSUME Basics, NEW c \in Sync, NEW n \in RouteName, KnowsRoute(c, n), DeleteOrphan(c)
    PROVE  KnowsRoute(c, n)'
<1>1. PICK m \in orphans[c] : DeleteRoute(c, m)
  BY DEF DeleteOrphan
<1>2. pc[c] = "prune" /\ KongTypeOK /\ Sound /\ UNCHANGED <<pc, image, opts>>
  BY DEF DeleteOrphan, Basics, TypeOK
<1>3. Only(m) /\ m \notin Names(c)
  BY <1>1, <1>2, OrphanUndeclared, DeleteRouteEffect
<1>4. Behind(c, n)'
  <2> SUFFICES ASSUME ~opts[c].dry, NEW i \in DOMAIN image[c], image[c][i].name = n,
                      Registered(TargetOf(c, image[c][i]))
               PROVE  ServedAsDeclared(c, image[c][i])'
    BY <1>2, <1>3 DEF Behind, Settled, Only, Registered, TargetOf
  <2>1. PICK r : r = image[c][i]
    OBVIOUS
  <2>2. Untouched(r.name) /\ UNCHANGED services
    BY <1>3, <2>1 DEF Names, Only
  <2>3. ServedAsDeclared(c, r)
    BY <1>2, <2>1 DEF KnowsRoute, Behind, Settled
  <2>4. ServedAsDeclared(c, r)'
    BY <2>1, <2>2, <2>3, ServedFrame
  <2> QED
    BY <1>2, <2>1, <2>4
<1> QED
  BY <1>2, <1>4 DEF KnowsRoute, Reading, Ahead, Writing, Loop

\* A run that stops or begins knows nothing yet, and need not.
LEMMA RouteAtRest ==
    ASSUME TypeOK, NEW c \in Sync, NEW n, Start(c) \/ Fail(c)
    PROVE  KnowsRoute(c, n)'
<1>1. pc'[c] \in {"list_routes", "failed"}
  BY DEF Start, Fail, Goto, TypeOK
<1> QED
  BY <1>1 DEF KnowsRoute, Reading, Ahead, Writing, Behind, Loop

\* Whatever the run does itself, it keeps knowing a route.
LEMMA RouteKnown ==
    ASSUME Basics, NEW c \in Sync, MemoTrue(c), NEW n \in RouteName, KnowsRoute(c, n),
           Start(c) \/ Step(c) \/ Crash(c)
    PROVE  KnowsRoute(c, n)'
<1>1. TypeOK /\ Fresh
  BY DEF Basics
<1>2. CASE LoopStep(c)
  BY <1>2, BodyKnows
<1>3. CASE ListRoutes(c) \/ ListPlugins(c)
  BY <1>1, <1>3, ListedRoute
<1>4. CASE SkipPrune(c) \/ PlanPrune(c) \/ BeginPrune(c) \/ EndPrune(c)
  BY <1>4, PastLoop
<1>5. CASE DeleteOrphan(c)
  BY <1>5, PrunedRoute
<1>6. CASE Start(c) \/ Fail(c)
  BY <1>1, <1>6, RouteAtRest
<1> QED
  BY <1>2, <1>3, <1>4, <1>5, <1>6 DEF Step, LoopStep, RefusePrune, Refused, Crash

-----------------------------------------------------------------------------
(* What a run nobody writes behind knows of all of Kong.                   *)

Pruning(c) ==
    /\ pc[c] = "prune" => LiveOrphans(c) = orphans[c]
    /\ pc[c] = "done" =>
          (~opts[c].dry /\ opts[c].prune /\ image[c] # <<>> /\ Registered(SyncService[c])
             => LiveOrphans(c) = {})

\* The lists of a dry run partition the names it is through with.
Planned(c) ==
    /\ report[c].created \cup report[c].skipped \cup report[c].updated
          = {image[c][i].name : i \in Settled(c)}
    /\ report[c].skipped \cap report[c].updated = {}
    /\ \A i \in Settled(c) :
          /\ image[c][i].name \in report[c].created <=> routes[image[c][i].name] = Absent
          /\ image[c][i].name \in report[c].created =>
                image[c][i].name \notin report[c].skipped \cup report[c].updated
          /\ Registered(TargetOf(c, image[c][i])) =>
                (image[c][i].name \in report[c].skipped <=> ServedAsDeclared(c, image[c][i]))

Planning(c) ==
    pc[c] \in {"examine", "done"} /\ opts[c].dry =>
        /\ Planned(c)
        /\ pc[c] = "examine" => \A n \in RouteName : AsRead(c, n)
        /\ pc[c] = "done" /\ Registered(SyncService[c]) =>
              report[c].deleted = IF opts[c].prune /\ image[c] # <<>> THEN LiveOrphans(c) ELSE {}

Knows(c) == (\A n \in RouteName : KnowsRoute(c, n)) /\ Pruning(c) /\ Planning(c)

\* A run knows what it knew as long as neither Kong nor its memory changes.
LEMMA KnowsFrame ==
    ASSUME NEW c \in Sync, Knows(c), MemoryKept(c), UNCHANGED <<routes, plugins, services>>
    PROVE  Knows(c)'
<1> USE DEF MemoryKept
<1>1. /\ \A n : PluginsOf(n)' = PluginsOf(n) /\ Untouched(n)
      /\ \A s : Registered(s)' = Registered(s)
      /\ Settled(c)' = Settled(c)
      /\ \A r : TargetOf(c, r)' = TargetOf(c, r)
  BY DEF PluginsOf, Untouched, Registered, Settled, TargetOf
<1>2. \A n \in RouteName : KnowsRoute(c, n)'
  BY <1>1, RouteFrame DEF Knows
<1>3. \A n : AsRead(c, n)' = AsRead(c, n)
  BY <1>1 DEF AsRead, HeldOn
<1>4. \A r : ServedAsDeclared(c, r)' = ServedAsDeclared(c, r)
  BY <1>1, ServedFrame
<1>5. LiveOrphans(c)' = LiveOrphans(c)
  BY DEF LiveOrphans, Names
<1>6. Pruning(c)'
  BY <1>1, <1>5 DEF Knows, Pruning
<1>7. Planned(c)' = Planned(c)
  BY <1>1, <1>4 DEF Planned
<1>8. Planning(c)'
  BY <1>1, <1>3, <1>5, <1>7 DEF Knows, Planning
<1> QED
  BY <1>2, <1>6, <1>8 DEF Knows

-----------------------------------------------------------------------------
(* The plan of a dry run.                                                  *)

\* A dry run that has put its route on one of its lists.
LEMMA DryBodyEnds ==
    ASSUME TypeOK, NEW c \in Sync, Planning(c), opts[c].dry,
           pc[c] = "examine", at[c] \in DOMAIN image[c],
           NEW list \in {"created", "skipped", "updated"}, NextRoute(c, list),
           UNCHANGED <<routes, plugins, services, image[c], opts[c], snap[c], plugged[c]>>,
           list = "created" <=> routes[Cur(c).name] = Absent,
           Registered(TargetOf(c, Cur(c))) =>
              (list = "skipped" <=> ServedAsDeclared(c, Cur(c)))
    PROVE  Planning(c)'
<1> DEFINE n == Cur(c).name
<1>1. pc'[c] = "examine" /\ at'[c] = at[c] + 1 /\ at[c] \in Nat
  BY DEF NextRoute, Goto, TypeOK
<1>2. Settled(c)' = Settled(c) \cup {at[c]}
  <2>1. image[c] \in Seq(Desired)
    BY SyncAssumption DEF TypeOK
  <2>2. \A j \in DOMAIN image[c] : j < at[c] + 1 <=> j < at[c] \/ j = at[c]
    BY <1>1, <2>1
  <2> QED
    BY <1>1, <2>2 DEF Settled
<1>3. \A m : PluginsOf(m)' = PluginsOf(m)
  BY DEF PluginsOf
<1>4. \A m \in RouteName : AsRead(c, m)'
  BY <1>3 DEF Planning, AsRead, HeldOn
<1>5. \A r : ServedAsDeclared(c, r)' = ServedAsDeclared(c, r)
  <2> TAKE r
  <2>1. Untouched(r.name)
    BY <1>3 DEF Untouched
  <2> QED
    BY <2>1, ServedFrame
<1>6. /\ report'[c].created = report[c].created \cup (IF list = "created" THEN {n} ELSE {})
      /\ report'[c].skipped = report[c].skipped \cup (IF list = "skipped" THEN {n} ELSE {})
      /\ report'[c].updated = report[c].updated \cup (IF list = "updated" THEN {n} ELSE {})
  <2>1. report'[c] = [report[c] EXCEPT ![list] = @ \cup {n}] /\ report[c] \in ReportType
    BY DEF NextRoute, Report, TypeOK, ReportType
  <2> HIDE DEF n
  <2> QED
    BY <2>1 DEF ReportType
<1>7. Planned(c)
  BY DEF Planning
<1>8. \A i \in Settled(c) : image[c][i].name # n
  BY CurPending DEF Loop
<1>9. n \notin report[c].created \cup report[c].skipped \cup report[c].updated
  BY <1>7, <1>8 DEF Planned
<1>10. image[c][at[c]].name = n
  BY DEF Cur
<1> HIDE DEF n
<1>11. Planned(c)'
  <2>1. report'[c].created \cup report'[c].skipped \cup report'[c].updated
          = {image[c][i].name : i \in Settled(c) \cup {at[c]}}
    BY <1>6, <1>7, <1>10 DEF Planned
  <2>2. report'[c].skipped \cap report'[c].updated = {}
    BY <1>6, <1>7, <1>9 DEF Planned
  <2>3. ASSUME NEW i \in Settled(c)
        PROVE  /\ image[c][i].name \in report'[c].created <=> routes[image[c][i].name] = Absent
               /\ image[c][i].name \in report'[c].created =>
                     image[c][i].name \notin report'[c].skipped \cup report'[c].updated
               /\ Registered(TargetOf(c, image[c][i])) =>
                     (image[c][i].name \in report'[c].skipped <=> ServedAsDeclared(c, image[c][i]))
    BY <1>6, <1>7, <1>8 DEF Planned
  <2>4. /\ n \in report'[c].created <=> routes[n] = Absent
        /\ n \in report'[c].created => n \notin report'[c].skipped \cup report'[c].updated
        /\ Registered(TargetOf(c, image[c][at[c]])) =>
              (n \in report'[c].skipped <=> ServedAsDeclared(c, image[c][at[c]]))
    BY <1>6, <1>9 DEF n, Cur
  <2>5. \A s : Registered(s)' = Registered(s)
    BY DEF Registered
  <2>6. \A r : TargetOf(c, r)' = TargetOf(c, r)
    BY DEF TargetOf
  <2> QED
    BY <1>2, <1>5, <1>10, <2>1, <2>2, <2>3, <2>4, <2>5, <2>6 DEF Planned
<1> QED
  BY <1>1, <1>4, <1>11 DEF Planning

LEMMA PlanGoesOn ==
    ASSUME Basics, NEW c \in Sync, MemoTrue(c), Planning(c), LoopStep(c)
    PROVE  Planning(c)'
<1>1. /\ TypeOK /\ Sound /\ at[c] \in DOMAIN image[c] /\ Cur(c).name \in RouteName
      /\ pc[c] \in Loop /\ (pc[c] \in Loop \ {"examine"} => ~opts[c].dry)
      /\ UNCHANGED <<image, opts, snap>>
  BY InLoop
<1>2. CASE ~opts[c].dry
  BY <1>1, <1>2 DEF Planning
<1>3. CASE opts[c].dry
  <2>1. /\ pc[c] = "examine"
        /\ ExamineMissing(c) \/ ExamineInSync(c) \/ ExamineDrift(c)
        /\ UNCHANGED <<routes, plugins, services, plugged>>
    BY <1>1, <1>3
    DEF LoopStep, CreateRoute, UpdateRoute, DropObsolete, KeepRewrite, UpdateRewrite,
        CreateRewrite, ReadyToWrite, ExamineMissing, ExamineInSync, ExamineDrift, Loop, kong
  <2>2. AsRead(c, Cur(c).name)
    BY <1>1, <1>3, <2>1 DEF Planning
  <2>3. routes[Cur(c).name] = Prior(c)
    BY <2>2 DEF AsRead, Prior
  <2>4. CASE ExamineMissing(c)
    <3>1. NextRoute(c, "created") /\ routes[Cur(c).name] = Absent
      BY <1>3, <2>3, <2>4 DEF ExamineMissing
    <3>2. ~ServedAsDeclared(c, Cur(c))
      BY <3>1 DEF ServedAsDeclared
    <3> QED
      BY <1>1, <1>3, <2>1, <3>1, <3>2, DryBodyEnds
  <2>5. CASE ExamineInSync(c)
    <3>1. NextRoute(c, "skipped") /\ Prior(c) # Absent
      BY <2>5 DEF ExamineInSync
    <3>2. Registered(TargetOf(c, Cur(c))) => ServedAsDeclared(c, Cur(c))
      BY <1>1, <2>2, <2>5, Compared DEF ExamineInSync
    <3> QED
      BY <1>1, <1>3, <2>1, <2>3, <3>1, <3>2, DryBodyEnds
  <2>6. CASE ExamineDrift(c)
    <3>1. NextRoute(c, "updated") /\ Prior(c) # Absent
      BY <1>3, <2>6 DEF ExamineDrift
    <3>2. Registered(TargetOf(c, Cur(c))) => ~ServedAsDeclared(c, Cur(c))
      BY <1>1, <2>2, <2>6, Compared DEF ExamineDrift
    <3> QED
      BY <1>1, <1>3, <2>1, <2>3, <3>1, <3>2, DryBodyEnds
  <2> QED
    BY <2>1, <2>4, <2>5, <2>6
<1> QED
  BY <1>2, <1>3

LEMMA PlanBegins ==
    ASSUME TypeOK, Fresh, NEW c \in Sync, Knows(c), ListPlugins(c)
    PROVE  Planning(c)'
<1>1. /\ pc[c] = "list_plugins" /\ pc'[c] = "examine" /\ plugged'[c] = plugins
      /\ UNCHANGED <<routes, plugins, snap, image, report>>
  BY DEF ListPlugins, Goto, TypeOK, kong
<1>2. \A n \in RouteName : snap[c][n] = routes[n]
  BY <1>1 DEF Knows, KnowsRoute, Reading
<1>3. \A n \in RouteName : AsRead(c, n)'
  BY <1>1, <1>2 DEF AsRead, HeldOn, PluginsOf
<1>4. report[c] = NoReport
  BY <1>1 DEF Fresh
<1>5. Settled(c)' = {}
  BY ListedNone
<1>6. Planned(c)'
  BY <1>1, <1>4, <1>5 DEF Planned, NoReport
<1> QED
  BY <1>1, <1>3, <1>6 DEF Planning

-----------------------------------------------------------------------------
(* Prune and the end.                                                      *)

\* What it takes for orphans are the orphans of the live Kong.
LEMMA OrphansKnown ==
    ASSUME TypeOK, NEW c \in Sync, Knows(c), Upserted(c)
    PROVE  PruneNames(c) = LiveOrphans(c)
<1>1. Pending(c) = RouteName \ Names(c)
  BY AllSettled DEF Pending, Names
<1>2. \A n \in RouteName \ Names(c) : routes[n] = snap[c][n]
  BY <1>1 DEF Knows, KnowsRoute, Ahead, AsRead, Upserted, Loop
<1> QED
  BY <1>2 DEF PruneNames, Owned, LiveOrphans

\* A run that is through: its plan stays right.
LEMMA RunEnds ==
    ASSUME TypeOK, NEW c \in Sync, Knows(c), Finish(c),
           Upserted(c) \/ (pc[c] = "prune" /\ ~opts[c].dry),
           /\ report'[c].created = report[c].created
           /\ report'[c].skipped = report[c].skipped
           /\ report'[c].updated = report[c].updated,
           opts[c].dry /\ Registered(SyncService[c]) =>
              report'[c].deleted =
                IF opts[c].prune /\ image[c] # <<>> THEN LiveOrphans(c) ELSE {},
           ~opts[c].dry /\ opts[c].prune /\ image[c] # <<>> /\ Registered(SyncService[c]) =>
              LiveOrphans(c) = {}
    PROVE  Pruning(c)' /\ Planning(c)'
<1>1. /\ pc'[c] = "done"
      /\ UNCHANGED <<routes, plugins, services, image, opts>>
  BY DEF Finish, Goto, TypeOK, kong
<1>2. Settled(c)' = DOMAIN image[c]
  BY <1>1 DEF Settled
<1>3. \A r : ServedAsDeclared(c, r)' = ServedAsDeclared(c, r)
  <2> TAKE r
  <2>1. Untouched(r.name)
    BY <1>1 DEF Untouched, PluginsOf
  <2> QED
    BY <1>1, <2>1, ServedFrame
<1>4. /\ \A s : Registered(s)' = Registered(s)
      /\ \A r : TargetOf(c, r)' = TargetOf(c, r)
      /\ LiveOrphans(c)' = LiveOrphans(c)
  BY <1>1 DEF Registered, TargetOf, LiveOrphans, Names
<1>5. Pruning(c)'
  BY <1>1, <1>4 DEF Pruning
<1>6. ASSUME opts[c].dry PROVE Planned(c)'
  <2>1. Planned(c) /\ Settled(c) = DOMAIN image[c]
    BY <1>6, AllSettled DEF Knows, Planning, Upserted
  <2> QED
    BY <1>1, <1>2, <1>3, <1>4, <2>1 DEF Planned
<1>7. Planning(c)'
  BY <1>1, <1>4, <1>6 DEF Planning
<1> QED
  BY <1>5, <1>7

\* The service prune looks up is the one that is there.
LEMMA OwnServiceFound ==
    ASSUME Basics, NEW c \in Sync, MemoTrue(c), Registered(SyncService[c])
    PROVE  ServiceId(c, SyncService[c]) # Absent
BY ServiceIdTrue, SyncAssumption, AdminAssumption DEF Basics

LEMMA EndsUnpruned ==
    ASSUME Basics, NEW c \in Sync, MemoTrue(c), Knows(c), SkipPrune(c)
    PROVE  Pruning(c)' /\ Planning(c)'
<1>1. TypeOK /\ Upserted(c) /\ ~MayPrune(c) /\ Finish(c) /\ UNCHANGED report
  BY DEF Basics, SkipPrune
<1>2. Names(c) = {} <=> image[c] = <<>>
  BY <1>1, AllSettled
<1>3. opts[c].prune /\ image[c] # <<>> /\ Registered(SyncService[c]) => LiveOrphans(c) = {}
  BY <1>1, <1>2, OwnServiceFound, OrphansKnown DEF MayPrune
<1>4. report[c].deleted = {}
  BY <1>1 DEF Basics, PruneInv, Upserted, Rest
<1> QED
  BY <1>1, <1>3, <1>4, RunEnds

LEMMA EndsPlanned ==
    ASSUME Basics, NEW c \in Sync, Knows(c), PlanPrune(c)
    PROVE  Pruning(c)' /\ Planning(c)'
<1>1. TypeOK /\ Upserted(c) /\ MayPrune(c) /\ opts[c].dry /\ Finish(c)
  BY DEF Basics, PlanPrune
<1>2. image[c] # <<>> /\ opts[c].prune
  BY <1>1, AllSettled DEF MayPrune
<1>3. /\ report'[c].created = report[c].created
      /\ report'[c].skipped = report[c].skipped
      /\ report'[c].updated = report[c].updated
      /\ report'[c].deleted = PruneNames(c)
  <2>1. report' = [report EXCEPT ![c] = [report[c] EXCEPT !.deleted = PruneNames(c)]]
    BY DEF PlanPrune
  <2>2. report[c] \in ReportType /\ report \in [Sync -> ReportType]
    BY <1>1 DEF TypeOK, ReportType
  <2> QED
    BY <2>1, <2>2 DEF ReportType
<1> QED
  BY <1>1, <1>2, <1>3, OrphansKnown, RunEnds

LEMMA EndsPruned ==
    ASSUME Basics, NEW c \in Sync, Knows(c), EndPrune(c)
    PROVE  Pruning(c)' /\ Planning(c)'
<1>1. TypeOK /\ pc[c] = "prune" /\ ~opts[c].dry /\ orphans[c] = {} /\ Finish(c) /\ UNCHANGED report
  BY DEF Basics, EndPrune, DryRunWritesNothing
<1>2. LiveOrphans(c) = {}
  BY <1>1 DEF Knows, Pruning
<1> QED
  BY <1>1, <1>2, RunEnds

LEMMA PruneBegins ==
    ASSUME Basics, NEW c \in Sync, Knows(c), BeginPrune(c)
    PROVE  Pruning(c)' /\ Planning(c)'
<1>1. /\ TypeOK /\ Upserted(c) /\ pc'[c] = "prune" /\ orphans'[c] = PruneNames(c)
      /\ UNCHANGED <<routes, image>>
  BY DEF Basics, BeginPrune, Goto, TypeOK, kong
<1>2. LiveOrphans(c)' = orphans'[c]
  BY <1>1, OrphansKnown DEF LiveOrphans, Names
<1> QED
  BY <1>1, <1>2 DEF Pruning, Planning

LEMMA PruneGoesOn ==
    ASSUME Basics, NEW c \in Sync, Knows(c), DeleteOrphan(c)
    PROVE  Pruning(c)' /\ Planning(c)'
<1>1. PICK n \in orphans[c] : DeleteRoute(c, n) /\ orphans' = [orphans EXCEPT ![c] = @ \ {n}]
  BY DEF DeleteOrphan
<1>2. /\ TypeOK /\ KongTypeOK /\ Sound /\ pc[c] = "prune" /\ UNCHANGED <<pc, image>>
      /\ n \in RouteName
  BY <1>1, OrphanUndeclared DEF Basics, TypeOK, DeleteOrphan
<1>3. routes'[n] = Absent /\ \A m \in RouteName \ {n} : routes'[m] = routes[m]
  BY <1>1, <1>2, DeleteRouteEffect DEF Only, Untouched
<1>4. orphans'[c] = orphans[c] \ {n} /\ LiveOrphans(c) = orphans[c]
  BY <1>1, <1>2 DEF TypeOK, Knows, Pruning
<1>5. LiveOrphans(c)' = LiveOrphans(c) \ {n}
  BY <1>2, <1>3 DEF LiveOrphans, IsManaged, Names
<1> QED
  BY <1>2, <1>4, <1>5 DEF Pruning, Planning

LEMMA OwnStepsKnow ==
    ASSUME Basics, NEW c \in Sync, MemoTrue(c), Knows(c), Step(c)
    PROVE  Knows(c)'
<1>1. TypeOK /\ Fresh
  BY DEF Basics
<1>2. \A n \in RouteName : KnowsRoute(c, n)'
  BY RouteKnown DEF Knows
<1>3. CASE LoopStep(c)
  <2>1. pc'[c] \in Loop
    BY <1>3, InLoop
  <2> QED
    BY <1>2, <1>3, <2>1, PlanGoesOn DEF Knows, Pruning, Loop
<1>4. CASE ListRoutes(c)
  <2>1. pc'[c] = "list_plugins"
    BY <1>1, <1>4 DEF ListRoutes, Goto, TypeOK
  <2> QED
    BY <1>2, <2>1 DEF Knows, Pruning, Planning
<1>5. CASE ListPlugins(c)
  <2>1. pc'[c] = "examine"
    BY <1>1, <1>5 DEF ListPlugins, Goto, TypeOK
  <2> QED
    BY <1>1, <1>2, <1>5, <2>1, PlanBegins DEF Knows, Pruning
<1>6. CASE SkipPrune(c) \/ PlanPrune(c) \/ BeginPrune(c) \/ DeleteOrphan(c) \/ EndPrune(c)
  BY <1>2, <1>6, EndsUnpruned, EndsPlanned, PruneBegins, PruneGoesOn, EndsPruned DEF Knows
<1>7. CASE Fail(c)
  <2>1. pc'[c] = "failed"
    BY <1>1, <1>7 DEF Fail, Goto, TypeOK
  <2> QED
    BY <1>2, <2>1 DEF Knows, Pruning, Planning
<1> QED
  BY <1>3, <1>4, <1>5, <1>6, <1>7 DEF Step, LoopStep, RefusePrune, Refused

LEMMA KnowsAtRest ==
    ASSUME TypeOK, NEW c \in Sync, Start(c) \/ Crash(c)
    PROVE  Knows(c)'
<1>1. pc'[c] \in {"list_routes", "failed"}
  BY DEF Start, Crash, Fail, Goto, TypeOK
<1> QED
  BY <1>1, RouteAtRest DEF Knows, Pruning, Planning, Crash

-----------------------------------------------------------------------------
(* The inductive invariant of the runs nobody writes behind.               *)

\* A step of d leaves Kong as it is, or leaves nobody but d undisturbed.
LEMMA WritersDisturb ==
    ASSUME NEW d \in Sync, Start(d) \/ Step(d) \/ Crash(d)
    PROVE  \/ quiet' = quiet \cap {d}
           \/ /\ UNCHANGED <<routes, plugins, services>>
              /\ quiet' = quiet \/ (Start(d) /\ quiet' = quiet \cup {d})
<1>1. CASE CreateRoute(d) \/ UpdateRoute(d) \/ DropObsolete(d) \/ UpdateRewrite(d)
           \/ CreateRewrite(d) \/ DeleteOrphan(d)
  BY <1>1 DEF CreateRoute, UpdateRoute, DropObsolete, UpdateRewrite, CreateRewrite, DeleteOrphan,
              PostRoute, PatchRoute, DeletePlugin, PatchPlugin, PostPlugin, DeleteRoute, Wrote
<1>2. CASE ListRoutes(d) \/ ListPlugins(d) \/ ExamineMissing(d) \/ ExamineInSync(d)
           \/ ExamineDrift(d) \/ KeepRewrite(d) \/ SkipPrune(d) \/ PlanPrune(d) \/ BeginPrune(d)
           \/ EndPrune(d) \/ Fail(d)
  BY <1>2 DEF ListRoutes, ListPlugins, ExamineMissing, ExamineInSync, ExamineDrift,
              KeepRewrite, SkipPrune, PlanPrune, BeginPrune, EndPrune, Fail, Finish, kong
<1>3. CASE Start(d)
  BY <1>3 DEF Start, Began
<1> QED
  BY <1>1, <1>2, <1>3 DEF Step, RefusePrune, Refused, Crash

QuietRunsKnow == \A c \in Sync \cap quiet : Knows(c)

\* A run that nobody writes behind keeps knowing Kong, whichever job moves.
LEMMA QuietStepsKnow ==
    ASSUME Basics, QuietRunsKnow, \A c \in Sync \cap quiet : MemoTrue(c),
           NEW d \in Sync, Start(d) \/ Step(d) \/ Crash(d)
    PROVE  QuietRunsKnow'
<1>1. TypeOK
  BY DEF Basics
<1>2. ASSUME NEW c \in Sync \cap quiet', c # d PROVE Knows(c)'
  <2>1. UNCHANGED <<routes, plugins, services>> /\ c \in quiet
    BY <1>2, WritersDisturb
  <2>2. Knows(c) /\ MemoryKept(c)
    BY <1>1, <1>2, <2>1, OthersLeaveMemory DEF QuietRunsKnow
  <2> QED
    BY <2>1, <2>2, KnowsFrame
<1>3. ASSUME d \in quiet' PROVE Knows(d)'
  <2>1. CASE Start(d) \/ Crash(d)
    BY <1>1, <2>1, KnowsAtRest
  <2>2. CASE Step(d) /\ ~Start(d)
    <3>1. d \in quiet
      BY <1>3, <2>2, WritersDisturb
    <3> QED
      BY <2>2, <3>1, OwnStepsKnow DEF QuietRunsKnow
  <2> QED
    BY <2>1, <2>2
<1> QED
  BY <1>2, <1>3 DEF QuietRunsKnow

KnowingInv == Basics /\ Memories /\ LateHarmless /\ quiet \subseteq Sync /\ QuietRunsKnow

LEMMA KnowingInit ==
    ASSUME LateInit
    PROVE  KnowingInv
<1>1. Init /\ quiet = {} /\ late = {}
  BY DEF LateInit, Init, StartsAs
<1> QED
  BY <1>1, BasicsInit DEF KnowingInv, QuietRunsKnow, LateHarmless

LEMMA KnowingNext ==
    ASSUME KnowingInv, [LateNext]_lateVars
    PROVE  KnowingInv'
<1>1. Basics /\ Memories /\ LateHarmless /\ TypeOK /\ quiet \subseteq Sync
  BY DEF KnowingInv, Basics
<1>2. Basics' /\ Memories' /\ LateHarmless'
  BY <1>1, LateBasicsNext
<1>3. ASSUME NEW d \in Sync, Start(d) \/ Step(d) \/ Crash(d)
      PROVE  quiet' \subseteq Sync /\ QuietRunsKnow'
  BY <1>1, <1>3, WritersDisturb, QuietStepsKnow DEF KnowingInv, Memories
<1>4. CASE [Next]_vars
  <2>1. CASE UNCHANGED vars
    <3>1. \A c \in Sync : MemoryKept(c)
      BY <2>1 DEF vars, local, MemoryKept
    <3> QED
      BY <1>1, <1>2, <2>1, <3>1, KnowsFrame DEF vars, kong, KnowingInv, QuietRunsKnow
  <2>2. CASE Next
    BY <1>2, <1>3, <2>2 DEF Next, KnowingInv, QuietRunsKnow
  <2> QED
    BY <1>4, <2>1, <2>2
<1>5. CASE Arrive
  <2>1. quiet' = quiet \cap {Absent}
    BY <1>1, <1>5, ArriveRequests
  <2>2. quiet' = {}
    BY <1>1, <2>1, SyncAssumption, LateAssumption
  <2> QED
    BY <1>2, <2>2 DEF KnowingInv, QuietRunsKnow
<1> QED
  BY <1>4, <1>5, LateSteps DEF Next

\* Every run nobody has written behind knows Kong: what it has read and not yet
\* written is what Kong holds, and what it has settled is served as declared.
THEOREM QuietRunsKnowKong == LateSpec => []KnowingInv
<1>1. LateInit => KnowingInv
  BY KnowingInit
<1>2. KnowingInv /\ [LateNext]_lateVars => KnowingInv'
  BY KnowingNext
<1> QED
  BY <1>1, <1>2, PTL DEF LateSpec

-----------------------------------------------------------------------------
(* What follows from it. *)

\* What a run that knows Kong has settled, converged.
LEMMA ConvergedFromKnowing ==
    ASSUME Basics, QuietRunsKnow
    PROVE  Converged
<1> SUFFICES ASSUME NEW c \in Sync, Undisturbed(c), ~opts[c].dry
             PROVE  /\ \A i \in DOMAIN image[c] : ServedAsDeclared(c, image[c][i])
                    /\ opts[c].prune /\ image[c] # <<>> => LiveOrphans(c) = {}
  BY DEF Converged
<1>1. Knows(c) /\ pc[c] = "done" /\ \A s \in Targets(c) : Registered(s)
  BY DEF Undisturbed, QuietRunsKnow
<1> QED
  BY <1>1, DeclaredTyped DEF Knows, KnowsRoute, Behind, Settled, Pruning, Targets, Basics

\* What a dry run that knows Kong has planned is what differs.
LEMMA PredictedFromKnowing ==
    ASSUME Basics, QuietRunsKnow
    PROVE  DryRunPredicts
<1> SUFFICES ASSUME NEW c \in Sync, Undisturbed(c), opts[c].dry
             PROVE  LET declared == {image[c][i] : i \in DOMAIN image[c]}
                        names(S) == {r.name : r \in S}
                    IN  /\ report[c].created = names({r \in declared : routes[r.name] = Absent})
                        /\ report[c].skipped = names({r \in declared : ServedAsDeclared(c, r)})
                        /\ report[c].updated =
                              Names(c) \ (report[c].created \cup report[c].skipped)
                        /\ report[c].deleted =
                              IF opts[c].prune /\ image[c] # <<>> THEN LiveOrphans(c) ELSE {}
  BY DEF DryRunPredicts
<1>1. Knows(c) /\ pc[c] = "done" /\ \A s \in Targets(c) : Registered(s)
  BY DEF Undisturbed, QuietRunsKnow
<1>2. Settled(c) = DOMAIN image[c] /\ Planned(c)
  BY <1>1 DEF Settled, Knows, Planning
<1>3. \A i \in DOMAIN image[c] : Registered(TargetOf(c, image[c][i]))
  BY <1>1 DEF Targets
<1>4. /\ report[c].created \cup report[c].skipped \cup report[c].updated = Names(c)
      /\ report[c].skipped \cap report[c].updated = {}
      /\ \A i \in DOMAIN image[c] :
            /\ image[c][i].name \in report[c].created <=> routes[image[c][i].name] = Absent
            /\ image[c][i].name \in report[c].created =>
                  image[c][i].name \notin report[c].skipped \cup report[c].updated
            /\ image[c][i].name \in report[c].skipped <=> ServedAsDeclared(c, image[c][i])
  BY <1>2, <1>3 DEF Planned, Names
<1>5. \A n \in Names(c) : \E i \in DOMAIN image[c] : n = image[c][i].name
  BY DEF Names
<1> DEFINE declared == {image[c][i] : i \in DOMAIN image[c]}
<1>6. report[c].created = {r.name : r \in {q \in declared : routes[q.name] = Absent}}
  BY <1>4, <1>5
<1>7. report[c].skipped = {r.name : r \in {q \in declared : ServedAsDeclared(c, q)}}
  BY <1>4, <1>5
<1>8. report[c].updated = Names(c) \ (report[c].created \cup report[c].skipped)
  BY <1>4, <1>5
<1>9. report[c].deleted = IF opts[c].prune /\ image[c] # <<>> THEN LiveOrphans(c) ELSE {}
  BY <1>1 DEF Knows, Planning, Targets
<1> QED
  BY <1>6, <1>7, <1>8, <1>9

\* After a run that wrote and that nobody disturbed, Kong serves every declared
\* route as declared and holds no orphan of the service: for any initial Kong,
\* any earlier deaths and any late requests (sync_to_kong, prune_routes).
THEOREM RunsConverge == LateSpec => []Converged
<1>1. KnowingInv => Converged
  BY ConvergedFromKnowing DEF KnowingInv
<1> QED
  BY <1>1, QuietRunsKnowKong, PTL

\* The plan an undisturbed --dry-run prints is what differs from Kong, route by
\* route and orphan by orphan (sync_to_kong, prune_routes with dry_run).
THEOREM PlansPredict == LateSpec => []DryRunPredicts
<1>1. KnowingInv => DryRunPredicts
  BY PredictedFromKnowing DEF KnowingInv
<1> QED
  BY <1>1, QuietRunsKnowKong, PTL

\* Every variable keeps its type and the loop index stays in the loop when late
\* requests arrive as well.
THEOREM TypesSurviveLateRequests == LateSpec => []TypeOK
<1>1. KnowingInv => TypeOK
  BY DEF KnowingInv, Basics
<1> QED
  BY <1>1, QuietRunsKnowKong, PTL

\* No late request brings a run past its volume limit.
THEOREM LimitSurvivesLateRequests == LateSpec => []PruneWithinLimit
<1>1. KnowingInv => PruneWithinLimit
  BY LimitFromPruneInv DEF KnowingInv, Basics
<1> QED
  BY <1>1, QuietRunsKnowKong, PTL

-----------------------------------------------------------------------------
(* What each write of an undisturbed run changes. *)

LEMMA PatchChanges ==
    ASSUME Basics, NEW c \in Sync, MemoTrue(c), NEW n, n = Cur(c).name, KnowsRoute(c, n), UpdateRoute(c)
    PROVE  routes' # routes
<1>1. LoopStep(c) /\ pc[c] = "patch"
  BY DEF UpdateRoute, LoopStep
<1>2. /\ TypeOK /\ KongTypeOK /\ Sound /\ at[c] \in DOMAIN image[c] /\ n \in RouteName
      /\ Prior(c) # Absent /\ RouteDiverged(c) /\ AsRead(c, n)
  BY <1>1, InLoop, CurPending DEF KnowsRoute, Writing, Ahead
<1>3. PICK r : r = Cur(c)
  OBVIOUS
<1>4. Payload(c, r) \in RouteFields /\ TargetOf(c, r) \in Service
  BY <1>2, <1>3, CurTyped, DeclaredTyped DEF Cur
<1>5. routes[n] = Prior(c)
  BY <1>2 DEF AsRead, Prior
<1>6. \A f \in DOMAIN Payload(c, r) : routes'[n][f] = Payload(c, r)[f]
  BY <1>2, <1>3, <1>4, PatchRouteEffect DEF UpdateRoute
<1>7. Registered(TargetOf(c, r))
  BY <1>3, <1>4, AdminAssumption DEF UpdateRoute, PatchRoute, CanPatchRoute, Payload
<1> QED
  BY <1>2, <1>3, <1>5, <1>6, <1>7, RouteCompared

LEMMA DropChanges ==
    ASSUME Basics, NEW c \in Sync, NEW n, n = Cur(c).name, KnowsRoute(c, n), DropObsolete(c)
    PROVE  plugins' # plugins
<1>1. PICK p \in ObsoleteHeld(c) : DeletePlugin(c, p.id)
  BY DEF DropObsolete
<1>2. p \in plugins
  BY AtPlugins DEF DropObsolete, ObsoleteHeld, PluginsOf
<1> QED
  BY <1>1, <1>2 DEF DeletePlugin

LEMMA PatchPluginChanges ==
    ASSUME Basics, NEW c \in Sync, NEW n, n = Cur(c).name, KnowsRoute(c, n), UpdateRewrite(c)
    PROVE  <<routes, plugins>>' # <<routes, plugins>>
<1> SUFFICES ASSUME UNCHANGED <<routes, plugins>> PROVE FALSE
  OBVIOUS
<1>1. PICK p \in SameHeld(c) : p.config # Want(c).config /\ PatchPlugin(c, p.id, Want(c).config)
  BY DEF UpdateRewrite
<1>2. p \in PluginsOf(n) /\ n \in RouteName /\ KongTypeOK /\ Sound
  BY AtPlugins DEF SameHeld, UpdateRewrite, ReadyToWrite
<1> DEFINE new == Patched(p, Want(c).config)
<1>3. new \in PluginsOf(n)'
  BY <1>1, <1>2, PatchPluginEffect
<1>4. new.name = p.name /\ new.config = Want(c).config
  BY <1>2, PatchedFields DEF KongTypeOK, PluginsOf
<1> HIDE DEF new
<1>5. new = p
  BY <1>2, <1>3, <1>4 DEF PluginsOf, Sound, WellFormed
<1> QED
  BY <1>1, <1>4, <1>5

LEMMA DeleteChanges ==
    ASSUME Basics, NEW c \in Sync, Knows(c), DeleteOrphan(c)
    PROVE  /\ routes' # routes
           /\ \A n \in RouteName : routes'[n] # routes[n] => n \in LiveOrphans(c)
<1>1. PICK n \in orphans[c] : DeleteRoute(c, n)
  BY DEF DeleteOrphan
<1>2. KongTypeOK /\ Sound /\ n \in LiveOrphans(c) /\ n \in RouteName /\ routes[n] # Absent
  BY <1>1 DEF Basics, TypeOK, DeleteOrphan, Knows, Pruning, LiveOrphans, IsManaged
<1>3. routes'[n] = Absent /\ \A m \in RouteName \ {n} : routes'[m] = routes[m]
  BY <1>1, <1>2, DeleteRouteEffect DEF Only, Untouched
<1> QED
  BY <1>2, <1>3

LEMMA CreateAddsOne ==
    ASSUME Basics, NEW c \in Sync, Knows(c), CreateRewrite(c), NEW n \in RouteName
    PROVE  Rewriters(n)' \subseteq Rewriters(n) \/ Cardinality(Rewriters(n)') = 1
<1>1. /\ pc[c] = "plugin" /\ ObsoleteHeld(c) = {} /\ SameHeld(c) = {}
      /\ PostPlugin(c, Cur(c).name, Want(c).name, Want(c).config)
  BY DEF CreateRewrite, ReadyToWrite
<1>2. PICK m : m = Cur(c).name
  OBVIOUS
<1>3. KongTypeOK /\ Sound /\ m \in RouteName /\ PluginsOf(m) = Held(c) /\ Want(c).name \in Rewriter
  BY <1>1, <1>2, AtPlugins, InLoop DEF Knows, LoopStep
<1>4. Only(m)
  BY <1>1, <1>2, <1>3, PostPluginEffect
<1>5. CASE n # m
  BY <1>4, <1>5 DEF Only, Untouched, Rewriters
<1>6. CASE n = m
  <2>1. PICK new : PluginsOf(m)' = PluginsOf(m) \cup {new} /\ new.name = Want(c).name
    BY <1>1, <1>2, <1>3, PostPluginEffect
  <2>2. \A p \in PluginsOf(m) : p.name \notin Rewriter
    BY <1>1, <1>3 DEF ObsoleteHeld, SameHeld, Rewriter, ObsoleteName
  <2>3. Rewriters(m)' = {new}
    BY <1>3, <2>1, <2>2 DEF Rewriters
  <2> QED
    BY <1>6, <2>3, FS_Singleton
<1> QED
  BY <1>5, <1>6

\* An undisturbed run writes to something that exists only when it differs from
\* what the image declares (_sync_route, _apply_rewrite_plugin, prune_routes).
THEOREM UndisturbedWritesChange == LateSpec => WritesOnlyDrift
<1>1. KnowingInv =>
        [\A c \in quiet : UpdateRoute(c) \/ DropObsolete(c) \/ UpdateRewrite(c) \/ DeleteOrphan(c)
           => <<routes, plugins>>' # <<routes, plugins>>]_vars
  <2> SUFFICES ASSUME KnowingInv, NEW c \in quiet,
                      UpdateRoute(c) \/ DropObsolete(c) \/ UpdateRewrite(c) \/ DeleteOrphan(c)
               PROVE  <<routes, plugins>>' # <<routes, plugins>>
    OBVIOUS
  <2>1. Basics /\ c \in Sync /\ MemoTrue(c) /\ Knows(c)
    BY DEF KnowingInv, Memories, QuietRunsKnow
  <2>2. CASE UpdateRoute(c) \/ DropObsolete(c) \/ UpdateRewrite(c)
    <3>1. PICK n \in RouteName : n = Cur(c).name
      BY <2>1, <2>2, InLoop DEF LoopStep
    <3> QED
      BY <2>1, <2>2, <3>1, PatchChanges, DropChanges, PatchPluginChanges DEF Knows
  <2> QED
    BY <2>1, <2>2, DeleteChanges
<1> QED
  BY <1>1, QuietRunsKnowKong, PTL DEF WritesOnlyDrift

\* What an undisturbed run deletes is, at that moment, a route it manages and its
\* image does not declare (_is_managed_route, prune_routes).
THEOREM PrunedRoutesAreOrphans == LateSpec => PruneSparesDeclared
<1>1. KnowingInv =>
        [\A c \in quiet : DeleteOrphan(c) =>
           \A n \in RouteName : routes'[n] # routes[n] => n \in LiveOrphans(c)]_vars
  BY DeleteChanges DEF KnowingInv, QuietRunsKnow
<1> QED
  BY <1>1, QuietRunsKnowKong, PTL DEF PruneSparesDeclared

\* An undisturbed run never gives a route a second plugin that rewrites its path
\* (_apply_rewrite_plugin deletes the obsolete one first).
THEOREM OneRewriterAdded == LateSpec => NeverAddsSecondRewriter
<1>1. KnowingInv =>
        [\A c \in quiet : CreateRewrite(c) =>
           \A n \in RouteName : Rewriters(n)' \subseteq Rewriters(n)
                                \/ Cardinality(Rewriters(n)') = 1]_vars
  BY CreateAddsOne DEF KnowingInv, QuietRunsKnow
<1> QED
  BY <1>1, QuietRunsKnowKong, PTL DEF NeverAddsSecondRewriter

-----------------------------------------------------------------------------
(* Hand-made routes and late requests.                                     *)

LEMMA KeptUnderPostPlugin ==
    ASSUME TypeOK, Sound, NEW c, NEW m \in AllowName, NEW name, NEW config,
           PostPlugin(c, m, name, config)
    PROVE  Kept
<1>1. Only(m) /\ routes' = routes /\ plugins \subseteq plugins'
  BY PostPluginEffect, AdminAssumption DEF TypeOK, PostPlugin
<1> QED
  BY <1>1 DEF Only, Untouched, Kept, PluginsOf

\* A request about a rewriter of an allow-route touches nothing else.
LEMMA KeptUnderPluginWrite ==
    ASSUME TypeOK, NEW id, IdHarmless(id), routes' = routes,
           \A q \in plugins : q.id # id => q \in plugins',
           \A q \in plugins' : q \in plugins \/ \E p \in plugins : p.id = id /\ p.route = q.route
    PROVE  Kept
<1>1. \A n \in RouteName \ AllowName : \A q \in PluginsOf(n) : q.id # id
  BY DEF IdHarmless, PluginsOf
<1>2. \A n \in RouteName \ AllowName : PluginsOf(n)' = PluginsOf(n)
  BY <1>1 DEF PluginsOf
<1>3. \A n \in RouteName : \A q \in PluginsOf(n) : q.name \notin Rewriter => q \in plugins'
  BY DEF IdHarmless, PluginsOf
<1> QED
  BY <1>2, <1>3 DEF Kept

LEMMA KeptUnderArrival ==
    ASSUME TypeOK, Stable, Sound, LateHarmless, Arrive
    PROVE  Kept
<1>1. PICK w \in late : Apply(w) /\ Harmless(w)
  BY DEF Arrive, LateHarmless
<1>2. CASE w.verb = "post route" /\ w.name \in AllowName
  BY <1>1, <1>2, KeptUnderRouteWrite DEF Apply, PostRoute, TypeOK, KongTypeOK
<1>3. CASE w.verb = "patch route" /\ w.name \in AllowName
  BY <1>1, <1>3, KeptUnderRouteWrite DEF Apply, PatchRoute, TypeOK, KongTypeOK
<1>4. CASE w.verb = "delete route" /\ w.name \in AllowName
  BY <1>1, <1>4, KeptUnderDeleteRoute DEF Apply
<1>5. CASE w.verb = "post plugin" /\ w.name \in AllowName
  BY <1>1, <1>5, KeptUnderPostPlugin DEF Apply
<1>6. CASE w.verb = "patch plugin" /\ IdHarmless(w.id)
  <2> DEFINE patched(q) == IF q.id = w.id THEN [q EXCEPT !.config = w.config] ELSE q
  <2>1. plugins' = {patched(q) : q \in plugins} /\ routes' = routes
    BY <1>1, <1>6 DEF Apply, PatchPlugin
  <2>2. \A q \in plugins : (q.id # w.id => patched(q) = q) /\ patched(q).route = q.route
    BY DEF TypeOK, KongTypeOK, Plugin
  <2> HIDE DEF patched
  <2>3. \A q \in plugins : q.id # w.id => q \in plugins'
    BY <2>1, <2>2
  <2>4. \A q \in plugins' : q \in plugins \/ \E p \in plugins : p.id = w.id /\ p.route = q.route
    BY <2>1, <2>2
  <2> QED
    BY <1>6, <2>1, <2>3, <2>4, KeptUnderPluginWrite
<1>7. CASE w.verb = "delete plugin" /\ IdHarmless(w.id)
  <2>1. plugins' = {q \in plugins : q.id # w.id} /\ routes' = routes
    BY <1>1, <1>7 DEF Apply, DeletePlugin
  <2> QED
    BY <1>7, <2>1, KeptUnderPluginWrite
<1> QED
  BY <1>1, <1>2, <1>3, <1>4, <1>5, <1>6, <1>7 DEF Harmless

\* The default block and every hand-made route keep their fields and plugins even
\* from the requests of runs that are over (_is_managed_route).
THEOREM HandMadeSurvivesLateRequests == LateSpec => HandMadeKept
<1>1. KnowingInv /\ [LateNext]_lateVars => Kept
  <2> SUFFICES ASSUME KnowingInv, [LateNext]_lateVars PROVE Kept
    OBVIOUS
  <2>1. TypeOK /\ Stable /\ Sound /\ LateHarmless
    BY DEF KnowingInv, Basics
  <2> QED
    BY <2>1, KeptNext, KeptUnderArrival, LateSteps DEF Next
<1>2. KnowingInv /\ [LateNext]_lateVars =>
        [/\ \A n \in RouteName \ AllowName :
              routes'[n] = routes[n] /\ PluginsOf(n)' = PluginsOf(n)
         /\ \A n \in RouteName : routes[n] # Absent /\ routes'[n] # Absent =>
              {p \in PluginsOf(n) : p.name \notin Rewriter} \subseteq plugins']_vars
  BY <1>1 DEF Kept
<1> QED
  BY <1>2, QuietRunsKnowKong, PTL DEF LateSpec, HandMadeKept

-----------------------------------------------------------------------------
(* Runs that share Kong.  A route that is private to a job is known to its *)
(* run whatever the other jobs do, because none of them ever has it in its *)
(* image or among its orphans.                                             *)

Apart ==
    \A c \in Sync, n \in RouteName : Private(c, n) => \A d \in Sync \ {c} :
        /\ ~IsManaged(n, routes[n], SyncService[d], SyncPrefix[d])
        /\ ~IsManaged(n, snap[d][n], SyncService[d], SyncPrefix[d])
        /\ n \notin orphans[d]

PrivateKnown == \A c \in Sync, n \in RouteName : Private(c, n) => KnowsRoute(c, n)

LEMMA OthersSpare ==
    ASSUME Basics, Apart, NEW c \in Sync, NEW n \in RouteName, Private(c, n),
           NEW e \in Sync \ {c}, Start(e) \/ Step(e) \/ Crash(e)
    PROVE  Untouched(n)
<1>1. CASE LoopStep(e)
  <2>1. TypeOK /\ at[e] \in DOMAIN image[e]
    BY <1>1, InLoop
  <2>2. image[e] \in Images[e]
    BY <2>1 DEF TypeOK
  <2>3. Cur(e).name # n
    BY <2>1, <2>2 DEF Private, Cur
  <2> QED
    BY <1>1, <2>3, BodyWritesOnly DEF Only
<1>2. CASE DeleteOrphan(e)
  <2>1. PICK m \in orphans[e] : DeleteRoute(e, m)
    BY <1>2 DEF DeleteOrphan
  <2>2. m \in RouteName /\ m # n /\ KongTypeOK /\ Sound
    BY <1>2, <2>1, OrphanUndeclared DEF DeleteOrphan, Apart, Basics, TypeOK
  <2> QED
    BY <2>1, <2>2, DeleteRouteEffect DEF Only
<1>3. CASE UNCHANGED <<routes, plugins>>
  BY <1>3 DEF Untouched, PluginsOf
<1>4. CASE Start(e) \/ ListRoutes(e) \/ ListPlugins(e) \/ SkipPrune(e) \/ PlanPrune(e)
           \/ BeginPrune(e) \/ EndPrune(e) \/ Fail(e)
  BY <1>3, <1>4 DEF Start, ListRoutes, ListPlugins, SkipPrune, PlanPrune, BeginPrune, EndPrune,
                    Fail, Finish, kong
<1> QED
  BY <1>1, <1>2, <1>4 DEF Step, LoopStep, RefusePrune, Refused, Crash

\* What its own job makes of a private route is on no service another job prunes.
LEMMA OwnerKeepsApart ==
    ASSUME Basics, NEW c \in Sync, NEW n \in RouteName, Private(c, n), NEW d \in Sync \ {c},
           ~IsManaged(n, routes[n], SyncService[d], SyncPrefix[d]),
           Start(c) \/ Step(c) \/ Crash(c)
    PROVE  ~IsManaged(n, routes'[n], SyncService[d], SyncPrefix[d])
<1>1. CASE CreateRoute(c) \/ UpdateRoute(c)
  <2>1. LoopStep(c)
    BY <1>1 DEF LoopStep
  <2>2. TypeOK /\ KongTypeOK /\ Sound /\ at[c] \in DOMAIN image[c] /\ Cur(c).name \in RouteName
    BY <2>1, InLoop
  <2>3. CASE n # Cur(c).name
    BY <2>1, <2>3, BodyWritesOnly DEF Only, Untouched
  <2>4. CASE n = Cur(c).name
    <3>1. PICK r : r = Cur(c)
      OBVIOUS
    <3>2. Payload(c, r) \in RouteFields
      BY <2>2, <3>1, CurTyped
    <3>3. \A f \in DOMAIN Payload(c, r) : routes'[n][f] = Payload(c, r)[f]
      BY <1>1, <2>2, <2>4, <3>1, <3>2, PostRouteEffect, PatchRouteEffect DEF CreateRoute, UpdateRoute
    <3>4. routes'[n].service = TargetOf(c, r)
      BY <3>3 DEF Payload
    <3>5. image[c] \in Images[c] /\ image[c][at[c]].name = n
      BY <2>2, <2>4 DEF TypeOK, Cur
    <3>6. TargetOf(c, image[c][at[c]]) # SyncService[d]
      BY <2>2, <3>5 DEF Private
    <3>7. TargetOf(c, r) # SyncService[d]
      BY <3>1, <3>6 DEF Cur
    <3> QED
      BY <3>4, <3>7 DEF IsManaged
  <2> QED
    BY <2>3, <2>4
<1>2. CASE DeleteOrphan(c)
  <2>1. PICK m \in orphans[c] : DeleteRoute(c, m)
    BY <1>2 DEF DeleteOrphan
  <2>2. routes'[n] = routes[n] \/ routes'[n] = Absent
    BY <2>1 DEF DeleteRoute, Basics, TypeOK, KongTypeOK
  <2> QED
    BY <2>2 DEF IsManaged
<1>3. CASE ~(CreateRoute(c) \/ UpdateRoute(c) \/ DeleteOrphan(c))
  <2>1. routes' = routes
    BY <1>3 DEF Step, Start, ListRoutes, ListPlugins, ExamineMissing, ExamineInSync, ExamineDrift,
                DropObsolete, KeepRewrite, UpdateRewrite, CreateRewrite, SkipPrune, PlanPrune,
                BeginPrune, EndPrune, RefusePrune, Refused, Crash, Fail, Finish, DeletePlugin,
                PatchPlugin, PostPlugin, kong
  <2> QED
    BY <2>1
<1> QED
  BY <1>1, <1>2, <1>3

\* What the other jobs read, and mean to delete, stays apart as well.
LEMMA OthersStayApart ==
    ASSUME Basics, Apart, NEW c \in Sync, NEW n \in RouteName, Private(c, n), NEW d \in Sync \ {c},
           Start(d) \/ Step(d) \/ Crash(d)
    PROVE  ~IsManaged(n, snap'[d][n], SyncService[d], SyncPrefix[d]) /\ n \notin orphans'[d]
<1>1. /\ TypeOK
      /\ ~IsManaged(n, routes[n], SyncService[d], SyncPrefix[d])
      /\ ~IsManaged(n, snap[d][n], SyncService[d], SyncPrefix[d])
      /\ n \notin orphans[d]
  BY DEF Basics, Apart
<1>2. CASE ListRoutes(d)
  BY <1>1, <1>2 DEF ListRoutes, TypeOK
<1>3. CASE BeginPrune(d)
  BY <1>1, <1>3 DEF BeginPrune, PruneNames, Owned, TypeOK
<1>4. CASE DeleteOrphan(d)
  BY <1>1, <1>4 DEF DeleteOrphan, TypeOK
<1>5. CASE Forgotten(d)
  BY <1>1, <1>5 DEF Forgotten, IsManaged, TypeOK
<1>6. CASE SkipPrune(d) \/ PlanPrune(d) \/ EndPrune(d) \/ Fail(d)
  BY <1>5, <1>6 DEF SkipPrune, PlanPrune, EndPrune, Fail, Finish
<1>7. CASE LoopStep(d) \/ Start(d) \/ ListPlugins(d)
  BY <1>1, <1>7
  DEF LoopStep, ExamineMissing, ExamineInSync, ExamineDrift, CreateRoute, UpdateRoute, DropObsolete,
      KeepRewrite, UpdateRewrite, CreateRewrite, Start, ListPlugins
<1> QED
  BY <1>2, <1>3, <1>4, <1>6, <1>7 DEF Step, LoopStep, RefusePrune, Refused, Crash

\* Whichever job moves, the owner of a private route keeps knowing it ...
LEMMA PrivateStaysKnown ==
    ASSUME Basics, Apart, NEW e \in Sync, Start(e) \/ Step(e) \/ Crash(e),
           NEW c \in Sync, MemoTrue(c), NEW n \in RouteName, Private(c, n), KnowsRoute(c, n)
    PROVE  KnowsRoute(c, n)'
<1>1. CASE e = c
  BY <1>1, RouteKnown
<1>2. CASE e # c
  <2>1. TypeOK /\ UNCHANGED services
    BY BasicsNext DEF Basics, Next
  <2> QED
    BY <1>2, <2>1, OthersLeaveMemory, OthersSpare, RouteFrame
<1> QED
  BY <1>1, <1>2

\* ... and the other jobs stay apart from it.
LEMMA ApartNext ==
    ASSUME Basics, Apart, [Next]_vars
    PROVE  Apart'
<1>1. ASSUME NEW e \in Sync, Start(e) \/ Step(e) \/ Crash(e),
             NEW c \in Sync, NEW n \in RouteName, Private(c, n), NEW d \in Sync \ {c}
      PROVE  /\ ~IsManaged(n, routes'[n], SyncService[d], SyncPrefix[d])
             /\ ~IsManaged(n, snap'[d][n], SyncService[d], SyncPrefix[d])
             /\ n \notin orphans'[d]
  <2>1. /\ ~IsManaged(n, routes[n], SyncService[d], SyncPrefix[d])
        /\ ~IsManaged(n, snap[d][n], SyncService[d], SyncPrefix[d])
        /\ n \notin orphans[d] /\ TypeOK
    BY <1>1 DEF Apart, Basics
  <2>2. ~IsManaged(n, routes'[n], SyncService[d], SyncPrefix[d])
    <3>1. CASE e = c
      BY <1>1, <2>1, <3>1, OwnerKeepsApart
    <3>2. CASE e # c
      <4>1. Untouched(n)
        BY <1>1, <3>2, OthersSpare
      <4> QED
        BY <2>1, <4>1 DEF Untouched
    <3> QED
      BY <3>1, <3>2
  <2>3. ~IsManaged(n, snap'[d][n], SyncService[d], SyncPrefix[d]) /\ n \notin orphans'[d]
    <3>1. CASE e = d
      BY <1>1, <3>1, OthersStayApart
    <3>2. CASE e # d
      BY <1>1, <2>1, <3>2, OthersLeaveMemory DEF MemoryKept
    <3> QED
      BY <3>1, <3>2
  <2> QED
    BY <2>2, <2>3
<1>2. CASE UNCHANGED vars
  BY <1>2 DEF vars, local, kong, Apart
<1>3. CASE Next
  BY <1>1, <1>3 DEF Next, Apart, Private, TargetOf
<1> QED
  BY <1>2, <1>3

PrivateInv == Basics /\ Memories /\ Apart /\ PrivateKnown

LEMMA PrivateInit ==
    ASSUME Init
    PROVE  PrivateInv
<1>1. Apart
  BY DEF Init, StartsAs, Apart, Private, IsManaged
<1>2. PrivateKnown
  BY DEF Init, PrivateKnown, KnowsRoute, Reading, Ahead, Writing, Behind, Loop
<1> QED
  BY <1>1, <1>2, BasicsInit DEF PrivateInv

LEMMA PrivateNext ==
    ASSUME PrivateInv, [Next]_vars
    PROVE  PrivateInv'
<1>1. /\ Basics /\ Memories /\ Apart /\ Basics' /\ Memories' /\ UNCHANGED services
  BY BasicsNext DEF PrivateInv, Memories
<1>2. Apart'
  BY <1>1, ApartNext
<1>3. PrivateKnown'
  <2>1. CASE UNCHANGED vars
    <3>1. \A c \in Sync : MemoryKept(c)
      BY <2>1 DEF vars, local, MemoryKept
    <3>2. \A n \in RouteName : Untouched(n)
      BY <2>1 DEF vars, kong, Untouched, PluginsOf
    <3> QED
      BY <1>1, <3>1, <3>2, RouteFrame DEF PrivateInv, PrivateKnown, Private, TargetOf
  <2>2. CASE Next
    BY <1>1, <2>2, PrivateStaysKnown DEF Next, PrivateInv, PrivateKnown, Memories, Private, TargetOf
  <2> QED
    BY <2>1, <2>2
<1> QED
  BY <1>1, <1>2, <1>3 DEF PrivateInv

\* Whatever the jobs of the other services do meanwhile, a run that reports success
\* leaves every route only its service declares served as declared, for any number
\* of services, images and interleavings (sync_to_kong, prune_routes).
THEOREM PrivateRoutesConverge == Spec => []PrivateConverged
<1>1. PrivateInv => PrivateConverged
  BY DeclaredTyped
  DEF PrivateInv, PrivateKnown, Basics, PrivateConverged, KnowsRoute, Behind, Settled, Targets
<1>2. Init => PrivateInv
  BY PrivateInit
<1>3. PrivateInv /\ [Next]_vars => PrivateInv'
  BY PrivateNext
<1> QED
  BY <1>1, <1>2, <1>3, PTL DEF Spec

-----------------------------------------------------------------------------
(* A run is finite.  That it ends is a matter of fairness and left to TLC; *)
(* that it can take only so many steps, whoever writes meanwhile, is not.  *)

RoutesLeft(c) == IF at[c] <= Len(image[c]) THEN Len(image[c]) + 1 - at[c] ELSE 0

Deletable == Cardinality(AllowName)

\* The steps a run can still take: four for each route (the comparison, its write,
\* an obsolete plugin and the declared one), one for each name it may delete.
StepsLeft(c) ==
    CASE pc[c] \in Rest -> 0
      [] pc[c] = "list_routes" -> 4 * Len(image[c]) + Deletable + 4
      [] pc[c] = "list_plugins" -> 4 * Len(image[c]) + Deletable + 3
      [] pc[c] = "examine" -> 4 * RoutesLeft(c) + Deletable + 2
      [] pc[c] \in {"create", "patch"} -> 4 * RoutesLeft(c) + Deletable + 1
      [] pc[c] = "plugin" ->
            4 * RoutesLeft(c) + Deletable - (IF ObsoleteHeld(c) = {} THEN 1 ELSE 0)
      [] pc[c] = "prune" -> Cardinality(orphans[c]) + 1

\* A route has one plugin of a name, and so has the run's list of them.
HeldOnce ==
    \A c \in Sync : \A p, q \in plugged[c] : p.route = q.route /\ p.name = q.name => p = q

\* Kong keeps one plugin of a name for a route; a run only forgets what it listed.
LEMMA HeldOnceNext ==
    ASSUME TypeOK, Sound, HeldOnce, [Next]_vars
    PROVE  HeldOnce'
<1>1. ASSUME NEW c \in Sync, ListPlugins(c) PROVE HeldOnce'
  BY <1>1 DEF ListPlugins, TypeOK, HeldOnce, Sound, WellFormed
<1>2. ASSUME NEW c \in Sync, DropObsolete(c) PROVE HeldOnce'
  BY <1>2 DEF DropObsolete, TypeOK, HeldOnce
<1>3. ASSUME NEW c \in Sync, SkipPrune(c) \/ PlanPrune(c) \/ EndPrune(c) \/ Fail(c) PROVE HeldOnce'
  BY <1>3 DEF SkipPrune, PlanPrune, EndPrune, Fail, Finish, Forgotten, TypeOK, HeldOnce
<1>4. ASSUME NEW c \in Sync,
             \/ Start(c) \/ ListRoutes(c) \/ ExamineMissing(c) \/ ExamineInSync(c)
             \/ ExamineDrift(c) \/ CreateRoute(c) \/ UpdateRoute(c) \/ KeepRewrite(c)
             \/ UpdateRewrite(c) \/ CreateRewrite(c) \/ BeginPrune(c) \/ DeleteOrphan(c)
      PROVE  HeldOnce'
  BY <1>4 DEF Start, ListRoutes, ExamineMissing, ExamineInSync, ExamineDrift, CreateRoute,
              UpdateRoute, KeepRewrite, UpdateRewrite, CreateRewrite, BeginPrune, DeleteOrphan,
              HeldOnce
<1>5. CASE UNCHANGED vars
  BY <1>5 DEF vars, local, HeldOnce
<1> QED
  BY <1>1, <1>2, <1>3, <1>4, <1>5 DEF Next, Step, RefusePrune, Refused, Crash

\* The measure is a number within the bound, and no run under way has none left.
LEMMA MeasureTyped ==
    ASSUME TypeOK, NEW c \in Sync
    PROVE  /\ Len(image[c]) \in Nat /\ Deletable \in Nat /\ at[c] \in Nat \ {0}
           /\ RoutesLeft(c) \in 0..Len(image[c])
           /\ IsFiniteSet(orphans[c]) /\ Cardinality(orphans[c]) \in 0..Deletable
           /\ StepsLeft(c) \in 0..(4 * Len(image[c]) + Deletable + 4)
           /\ pc[c] \notin Rest => StepsLeft(c) > 0
<1>1. image[c] \in Seq(Desired) /\ at[c] \in Nat \ {0}
  <2>1. image[c] \in Images[c] \cup {<<>>} /\ Images[c] \in SUBSET Seq(Desired)
    BY SyncAssumption DEF TypeOK
  <2>2. <<>> \in Seq(Desired)
    OBVIOUS
  <2> QED
    BY <2>1, <2>2 DEF TypeOK
<1>2. PICK len \in Nat : len = Len(image[c])
  BY <1>1
<1>3. RoutesLeft(c) \in 0..len
  BY <1>1, <1>2 DEF RoutesLeft
<1>4. IsFiniteSet(AllowName) /\ Deletable \in Nat
  BY AdminAssumption, FS_Subset, FS_CardinalityType DEF Deletable
<1>5. IsFiniteSet(orphans[c]) /\ Cardinality(orphans[c]) \in 0..Deletable
  BY <1>4, FS_Subset, FS_CardinalityType DEF TypeOK, Deletable
<1>6. pc[c] \in {"create", "patch", "plugin"} => RoutesLeft(c) > 0
  <2>1. at[c] \in DOMAIN image[c] => at[c] <= len
    BY <1>1, <1>2
  <2> QED
    BY <1>1, <1>2, <2>1 DEF TypeOK, RoutesLeft
<1>7. pc[c] \in Rest \cup {"list_routes", "list_plugins", "examine", "create", "patch", "plugin",
                           "prune"}
  BY DEF TypeOK
<1>8. StepsLeft(c) \in 0..(4 * len + Deletable + 4) /\ (pc[c] \notin Rest => StepsLeft(c) > 0)
  <2>1. PICK left \in 0..len : left = RoutesLeft(c)
    BY <1>3
  <2>2. PICK doomed \in 0..Deletable : doomed = Cardinality(orphans[c])
    BY <1>5
  <2>3. CASE pc[c] \in Rest
    <3>1. StepsLeft(c) = 0
      BY <2>3 DEF StepsLeft, Rest
    <3> QED
      BY <1>2, <1>4, <2>3, <3>1
  <2>4. CASE pc[c] \in {"list_routes", "list_plugins"}
    <3>1. StepsLeft(c) \in {4 * len + Deletable + 4, 4 * len + Deletable + 3}
      BY <1>2, <2>4 DEF StepsLeft, Rest
    <3> QED
      BY <1>2, <1>4, <3>1
  <2>5. CASE pc[c] \in {"examine", "create", "patch"}
    BY <1>2, <1>4, <2>1, <2>5 DEF StepsLeft, Rest
  <2>6. CASE pc[c] = "plugin"
    BY <1>2, <1>4, <1>6, <2>1, <2>6 DEF StepsLeft, Rest
  <2>7. CASE pc[c] = "prune"
    BY <1>2, <1>4, <2>2, <2>7 DEF StepsLeft, Rest
  <2> QED
    BY <1>7, <2>3, <2>4, <2>5, <2>6, <2>7
<1> QED
  BY <1>1, <1>2, <1>3, <1>4, <1>5, <1>8

Measured ==
    \A c \in Sync : /\ StepsLeft(c) \in Nat
                   /\ Cardinality(orphans[c]) \in 0..Deletable

\* The same of the state after a step.
LEMMA MeasuredNext == TypeOK' => Measured'
<1>1. TypeOK => Measured
  BY MeasureTyped DEF Measured
<1> QED
  BY <1>1, PTL

\* Where an iteration of the loop goes: on to the next route, or on with this one.
LEMMA LoopMoves ==
    ASSUME Basics, NEW c \in Sync, LoopStep(c)
    PROVE  \/ pc'[c] = "examine" /\ at'[c] = at[c] + 1
              /\ (pc[c] = "plugin" => ObsoleteHeld(c) = {})
           \/ pc[c] = "examine" /\ pc'[c] \in {"create", "patch", "plugin"} /\ at'[c] = at[c]
           \/ pc[c] \in {"create", "patch"} /\ pc'[c] = "plugin" /\ at'[c] = at[c]
           \/ DropObsolete(c) /\ pc'[c] = "plugin" /\ at'[c] = at[c]
<1>1. TypeOK
  BY DEF Basics
<1>2. CASE ExamineMissing(c) \/ ExamineInSync(c) \/ ExamineDrift(c)
  BY <1>1, <1>2
  DEF ExamineMissing, ExamineInSync, ExamineDrift, Examining, NextRoute, Goto, TypeOK
<1>3. CASE CreateRoute(c) \/ UpdateRoute(c) \/ DropObsolete(c)
  BY <1>1, <1>3 DEF CreateRoute, UpdateRoute, DropObsolete, NextRoute, Goto, TypeOK
<1>4. CASE KeepRewrite(c) \/ UpdateRewrite(c) \/ CreateRewrite(c)
  BY <1>1, <1>4 DEF KeepRewrite, UpdateRewrite, CreateRewrite, ReadyToWrite, NextRoute, Goto, TypeOK
<1> QED
  BY <1>2, <1>3, <1>4 DEF LoopStep

\* The obsolete plugin that is deleted was the only one.
LEMMA ObsoleteOnce ==
    ASSUME TypeOK, HeldOnce, NEW c \in Sync, DropObsolete(c)
    PROVE  ObsoleteHeld(c) # {} /\ ObsoleteHeld(c)' = {}
<1>1. PICK p \in ObsoleteHeld(c) : plugged' = [plugged EXCEPT ![c] = @ \ {p}]
  BY DEF DropObsolete
<1>2. \A q \in ObsoleteHeld(c) : q = p
  BY <1>1 DEF ObsoleteHeld, Held, HeldOnce
<1>3. plugged'[c] = plugged[c] \ {p} /\ Want(c)' = Want(c) /\ Prior(c)' = Prior(c)
  BY <1>1 DEF DropObsolete, TypeOK, Want, Prior, Cur
<1>4. ObsoleteHeld(c)' = ObsoleteHeld(c) \ {p}
  BY <1>3 DEF ObsoleteHeld, Held
<1> QED
  BY <1>1, <1>2, <1>4

\* A route costs at most four steps, then the next has its turn.
LEMMA LoopShrinks ==
    ASSUME Basics, TypeOK', HeldOnce, NEW c \in Sync, LoopStep(c)
    PROVE  StepsLeft(c)' < StepsLeft(c)
<1>1. TypeOK /\ at[c] \in DOMAIN image[c] /\ image' = image
  BY InLoop
<1>2. PICK len \in Nat : len = Len(image[c])
  BY <1>1, MeasureTyped
<1>3. Deletable \in Nat /\ at[c] \in Nat \ {0} /\ at[c] <= len
  <2>1. image[c] \in Seq(Desired)
    BY <1>1, SyncAssumption DEF TypeOK
  <2> QED
    BY <1>1, <1>2, <2>1, MeasureTyped
<1>4. PICK left \in Nat : left = len + 1 - at[c] /\ left > 0
  BY <1>2, <1>3
<1>5. /\ RoutesLeft(c) = left
      /\ at'[c] = at[c] => RoutesLeft(c)' = left
      /\ at'[c] = at[c] + 1 => RoutesLeft(c)' = left - 1
  BY <1>1, <1>2, <1>3, <1>4 DEF RoutesLeft
<1>6. CASE /\ pc'[c] = "examine" /\ at'[c] = at[c] + 1
           /\ pc[c] = "plugin" => ObsoleteHeld(c) = {}
  <2>1. StepsLeft(c)' = 4 * (left - 1) + Deletable + 2
    BY <1>5, <1>6 DEF StepsLeft, Rest, Deletable
  <2>2. pc[c] \in {"examine", "create", "patch", "plugin"}
    BY InLoop DEF Loop
  <2>3. StepsLeft(c) \in {4 * left + Deletable + 2, 4 * left + Deletable + 1,
                          4 * left + Deletable, 4 * left + Deletable - 1}
    BY <1>3, <1>5, <2>2 DEF StepsLeft, Rest
  <2> QED
    BY <1>3, <1>4, <2>1, <2>3
<1>7. CASE pc[c] = "examine" /\ pc'[c] \in {"create", "patch", "plugin"} /\ at'[c] = at[c]
  <2>1. StepsLeft(c) = 4 * left + Deletable + 2
    BY <1>5, <1>7 DEF StepsLeft, Rest
  <2>2. StepsLeft(c)' \in {4 * left + Deletable + 1, 4 * left + Deletable,
                           4 * left + Deletable - 1}
    BY <1>3, <1>4, <1>5, <1>7 DEF StepsLeft, Rest, Deletable
  <2> QED
    BY <1>3, <1>4, <2>1, <2>2
<1>8. CASE pc[c] \in {"create", "patch"} /\ pc'[c] = "plugin" /\ at'[c] = at[c]
  <2>1. StepsLeft(c) = 4 * left + Deletable + 1
    BY <1>5, <1>8 DEF StepsLeft, Rest
  <2>2. StepsLeft(c)' \in {4 * left + Deletable, 4 * left + Deletable - 1}
    BY <1>3, <1>4, <1>5, <1>8 DEF StepsLeft, Rest, Deletable
  <2> QED
    BY <1>3, <1>4, <2>1, <2>2
<1>9. CASE DropObsolete(c) /\ pc'[c] = "plugin" /\ at'[c] = at[c]
  <2>1. pc[c] = "plugin" /\ ObsoleteHeld(c) # {} /\ ObsoleteHeld(c)' = {}
    BY <1>1, <1>9, ObsoleteOnce DEF DropObsolete
  <2>2. StepsLeft(c) = 4 * left + Deletable
    BY <1>3, <1>4, <1>5, <2>1 DEF StepsLeft, Rest
  <2>3. StepsLeft(c)' = 4 * left + Deletable - 1
    BY <1>5, <1>9, <2>1 DEF StepsLeft, Rest, Deletable
  <2> QED
    BY <1>3, <1>4, <2>2, <2>3
<1> QED
  BY <1>6, <1>7, <1>8, <1>9, LoopMoves

\* Each step of a run, and its death, brings it closer to its end ...
LEMMA RunShrinks ==
    ASSUME Basics, TypeOK', HeldOnce, NEW c \in Sync, Step(c) \/ Crash(c)
    PROVE  StepsLeft(c)' < StepsLeft(c)
<1>1. TypeOK /\ Fresh
  BY DEF Basics
<1>2. PICK len \in Nat : len = Len(image[c])
  BY <1>1, MeasureTyped
<1>3. Deletable \in Nat /\ at[c] \in Nat \ {0}
  BY <1>1, MeasureTyped
<1>4. CASE LoopStep(c)
  BY <1>4, LoopShrinks
<1>5. CASE ListRoutes(c)
  <2>1. pc[c] = "list_routes" /\ pc'[c] = "list_plugins" /\ image' = image
    BY <1>1, <1>5 DEF ListRoutes, Goto, TypeOK
  <2>2. StepsLeft(c) = 4 * len + Deletable + 4 /\ StepsLeft(c)' = 4 * len + Deletable + 3
    BY <1>2, <2>1 DEF StepsLeft, Rest, Deletable
  <2> QED
    BY <1>3, <2>2
<1>6. CASE ListPlugins(c)
  <2>1. /\ pc[c] = "list_plugins" /\ pc'[c] = "examine" /\ image' = image
        /\ at[c] = 1 /\ at' = at
    BY <1>1, <1>6 DEF ListPlugins, Goto, TypeOK, Fresh
  <2>2. RoutesLeft(c)' = len
    BY <1>2, <2>1 DEF RoutesLeft
  <2>3. StepsLeft(c) = 4 * len + Deletable + 3 /\ StepsLeft(c)' = 4 * len + Deletable + 2
    BY <1>2, <2>1, <2>2 DEF StepsLeft, Rest, Deletable
  <2> QED
    BY <1>3, <2>3
<1>7. CASE SkipPrune(c) \/ PlanPrune(c) \/ EndPrune(c) \/ RefusePrune(c) \/ Refused(c) \/ Crash(c)
  <2>1. pc[c] \notin Rest /\ pc'[c] \in Rest
    BY <1>1, <1>7 DEF SkipPrune, PlanPrune, EndPrune, RefusePrune, Refused, Crash, Finish, Fail,
                      Upserted, ReadyToWrite, Goto, TypeOK, Rest
  <2>2. StepsLeft(c)' = 0
    BY <2>1 DEF StepsLeft, Rest
  <2>3. StepsLeft(c) > 0
    BY <1>1, <2>1, MeasureTyped
  <2> QED
    BY <2>2, <2>3
<1>8. CASE BeginPrune(c)
  <2>1. pc[c] = "examine" /\ pc'[c] = "prune" /\ at[c] > len
    BY <1>1, <1>2, <1>8 DEF BeginPrune, Upserted, Goto, TypeOK
  <2>2. RoutesLeft(c) = 0
    BY <1>2, <1>3, <2>1 DEF RoutesLeft
  <2>3. StepsLeft(c) = Deletable + 2
    BY <1>3, <2>1, <2>2 DEF StepsLeft, Rest
  <2>4. PICK doomed \in 0..Deletable : doomed = Cardinality(orphans'[c])
    BY MeasuredNext DEF Measured, Deletable
  <2>5. StepsLeft(c)' = doomed + 1
    BY <2>1, <2>4 DEF StepsLeft, Rest
  <2> QED
    BY <1>3, <2>3, <2>4, <2>5
<1>9. CASE DeleteOrphan(c)
  <2>1. PICK n \in orphans[c] : orphans' = [orphans EXCEPT ![c] = @ \ {n}]
    BY <1>9 DEF DeleteOrphan
  <2>2. pc[c] = "prune" /\ pc'[c] = "prune" /\ orphans'[c] = orphans[c] \ {n}
    BY <1>1, <1>9, <2>1 DEF DeleteOrphan, TypeOK
  <2>3. PICK doomed \in Nat : doomed = Cardinality(orphans[c])
    BY <1>1, MeasureTyped
  <2>4. Cardinality(orphans'[c]) = doomed - 1
    BY <1>1, <2>1, <2>2, <2>3, MeasureTyped, FS_RemoveElement
  <2>5. StepsLeft(c) = doomed + 1 /\ StepsLeft(c)' = doomed - 1 + 1
    BY <2>2, <2>3, <2>4 DEF StepsLeft, Rest
  <2> QED
    BY <2>3, <2>5
<1> QED
  BY <1>4, <1>5, <1>6, <1>7, <1>8, <1>9 DEF Step, LoopStep

\* ... and the steps of the others leave it where it is.
LEMMA MeasureFrame ==
    ASSUME NEW c \in Sync, MemoryKept(c)
    PROVE  StepsLeft(c)' = StepsLeft(c)
<1> USE DEF MemoryKept
<1>1. RoutesLeft(c)' = RoutesLeft(c) /\ ObsoleteHeld(c)' = ObsoleteHeld(c)
  BY DEF RoutesLeft, ObsoleteHeld, Held, Want, Cur, Prior
<1> QED
  BY <1>1 DEF StepsLeft, Deletable

\* Whatever the other jobs and late requests do, a run takes at most four steps for
\* each route of its image, one for each name it may delete and four more, and only
\* a new deployment begins another: no retry, no loop (sync_to_kong, prune_routes).
THEOREM RunsAreBounded ==
    LateSpec =>
        [][\A c \in Sync :
              /\ StepsLeft(c) \in 0..(4 * Len(image[c]) + Deletable + 4)
              /\ pc[c] \in Rest <=> StepsLeft(c) = 0
              /\ Step(c) \/ Crash(c) => StepsLeft(c)' < StepsLeft(c)
              /\ StepsLeft(c)' > StepsLeft(c) => Start(c)]_lateVars
<1> DEFINE Counted == KnowingInv /\ HeldOnce
<1>1. LateInit => Counted
  BY KnowingInit DEF LateInit, Init, HeldOnce
<1>2. Counted /\ [LateNext]_lateVars => Counted'
  <2> SUFFICES ASSUME Counted, [LateNext]_lateVars PROVE HeldOnce'
    BY KnowingNext
  <2>1. TypeOK /\ Sound
    BY DEF KnowingInv, Basics
  <2>2. CASE [Next]_vars
    BY <2>1, <2>2, HeldOnceNext
  <2>3. CASE Arrive
    BY <2>3 DEF Arrive, local, HeldOnce
  <2> QED
    BY <2>2, <2>3, LateSteps DEF Next
<1>3. Counted /\ Counted' /\ [LateNext]_lateVars =>
        \A c \in Sync :
           /\ StepsLeft(c) \in 0..(4 * Len(image[c]) + Deletable + 4)
           /\ pc[c] \in Rest <=> StepsLeft(c) = 0
           /\ Step(c) \/ Crash(c) => StepsLeft(c)' < StepsLeft(c)
           /\ StepsLeft(c)' > StepsLeft(c) => Start(c)
  <2> SUFFICES ASSUME Counted, Counted', [LateNext]_lateVars, NEW c \in Sync
               PROVE  /\ StepsLeft(c) \in 0..(4 * Len(image[c]) + Deletable + 4)
                      /\ pc[c] \in Rest <=> StepsLeft(c) = 0
                      /\ Step(c) \/ Crash(c) => StepsLeft(c)' < StepsLeft(c)
                      /\ StepsLeft(c)' > StepsLeft(c) => Start(c)
    OBVIOUS
  <2>1. Basics /\ TypeOK /\ TypeOK' /\ HeldOnce
    BY DEF KnowingInv, Basics
  <2>2. PICK n \in Nat : n = StepsLeft(c)
    BY <2>1, MeasureTyped
  <2>3. /\ n \in 0..(4 * Len(image[c]) + Deletable + 4) /\ (pc[c] \notin Rest => n > 0)
        /\ StepsLeft(c)' \in Int
    <3>1. StepsLeft(c)' \in Nat
      BY <2>1, MeasuredNext DEF Measured
    <3> QED
      BY <2>1, <2>2, <3>1, MeasureTyped
  <2>4. pc[c] \in Rest => n = 0
    BY <2>2 DEF StepsLeft, Rest
  <2>5. Step(c) \/ Crash(c) => StepsLeft(c)' < n
    BY <2>1, <2>2, RunShrinks
  <2>6. Start(c) \/ Step(c) \/ Crash(c) \/ MemoryKept(c)
    <3>1. UNCHANGED local => MemoryKept(c)
      BY DEF local, MemoryKept
    <3>2. UNCHANGED vars => UNCHANGED local
      BY DEF vars
    <3> QED
      BY <2>1, <3>1, <3>2, OthersLeaveMemory, LateSteps DEF Next, Arrive
  <2>7. MemoryKept(c) => StepsLeft(c)' = n
    BY <2>2, MeasureFrame
  <2> QED
    BY <2>2, <2>3, <2>4, <2>5, <2>6, <2>7
<1> HIDE DEF Counted
<1> QED
  BY <1>1, <1>2, <1>3, PTL DEF LateSpec
=============================================================================
