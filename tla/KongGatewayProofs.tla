--------------------------- MODULE KongGatewayProofs ---------------------------
(***************************************************************************)
(* Theorems about the gateway, for any number of replicas that onboard     *)
(* services and of jobs that deploy them, checked by TLAPS.  What they     *)
(* say of kong_sync is proved of KongLate; its late requests play no part  *)
(* in GatewaySpec.                                                         *)
(***************************************************************************)
EXTENDS KongConvergenceProofs, KongGateway

-----------------------------------------------------------------------------
(* What a command has achieved when it reaches a step. *)

\* Past ensure_service the service is registered, on the url of e unless another
\* process has written since.
ServiceReady(e) ==
    /\ Registered(EnsureService[e])
    /\ e \in quiet => services[EnsureService[e]] = EnsureUrl[e]

\* Past the route the prefix has its block.
Blocked(e) ==
    /\ routes[BlockName[e]] # Absent
    /\ routes[BlockName[e]].paths = {EnsurePrefix[e]}
    /\ ~routes[BlockName[e]].strip_path

AtBlock == {"get_block", "post_block", "patch_block"}
AtPlugin == {"get_plugins", "post_plugin", "patch_plugin"}

Achieved(e) ==
    /\ epc[e] \in AtBlock \cup AtPlugin \cup {"done"} => ServiceReady(e)
    /\ epc[e] \in AtPlugin \cup {"done"} => Blocked(e)
    /\ epc[e] = "patch_plugin" => \E p \in Terminations(e) : p.id = found[e]
    /\ epc[e] = "done" => Closed(e)

GatewayInv == TypeOK /\ Stable /\ EnsureTypeOK /\ \A e \in Ensure : Achieved(e)

-----------------------------------------------------------------------------
(* What a command computes from well-typed state is well typed. *)

LEMMA EnsureConstants ==
    ASSUME NEW e \in Ensure
    PROVE  /\ e \in Client /\ e \notin Sync
           /\ EnsureService[e] \in Service /\ EnsureUrl[e] \in Url
           /\ EnsureUrl[e] # Absent /\ EnsurePrefix[e] \in Path
           /\ BlockName[e] \in RouteName /\ BlockName[e] \notin AllowName
           /\ TerminationPlugin \in PluginName /\ BlockConfig \in Config
BY EnsureAssumption, GatewayAssumption, AdminAssumption

\* Nobody but e changes where e is and what it has found.
LEMMA EnsureStepLocal ==
    ASSUME EnsureTypeOK, NEW e \in Ensure, EnsureStart(e) \/ EnsureStep(e) \/ EnsureCrash(e),
           NEW d \in Ensure \ {e}
    PROVE  epc'[d] = epc[d] /\ found'[d] = found[d]
<1>1. CASE EnsureStart(e) \/ CheckService(e) \/ CreateService(e) \/ UpdateService(e)
  BY <1>1 DEF EnsureStart, CheckService, CreateService, UpdateService, EnsureGoto, EnsureTypeOK
<1>2. CASE CheckBlock(e) \/ CreateBlock(e) \/ UpdateBlock(e)
  BY <1>2 DEF CheckBlock, CreateBlock, UpdateBlock, EnsureGoto, EnsureTypeOK
<1>3. CASE CheckPlugin(e)
  BY <1>3 DEF CheckPlugin, EnsureGoto, EnsureTypeOK
<1>4. CASE CreatePlugin(e) \/ UpdatePlugin(e) \/ LostRace(e) \/ EnsureCrash(e)
  BY <1>4 DEF CreatePlugin, UpdatePlugin, LostRace, EnsureCrash, EnsureGoto, EnsureTypeOK
<1> QED
  BY <1>1, <1>2, <1>3, <1>4 DEF EnsureStep

-----------------------------------------------------------------------------
(* Each request of a command leaves Kong well typed and ids meaningful. *)

\* The fields UpdateBlock sends, and those it leaves as they are.
LEMMA BlockFields ==
    ASSUME KongTypeOK, NEW e \in Ensure
    PROVE  /\ [service |-> EnsureService[e], paths |-> {EnsurePrefix[e]}, methods |-> {},
               strip_path |-> FALSE, tags |-> {}] \in RouteFields
           /\ \A r \in Route : LET s == [r EXCEPT !.paths = {EnsurePrefix[e]}, !.strip_path = FALSE]
                               IN  s \in Route
BY EnsureConstants DEF RouteFields, Route

\* PATCH takes the fields of a whole route as well.
LEMMA PatchBlockTyped ==
    ASSUME KongTypeOK, NEW c, NEW n \in RouteName, NEW r \in Route, PatchRoute(c, n, r)
    PROVE  KongTypeOK'
<1>1. routes[n] \in Route
  BY DEF KongTypeOK, PatchRoute, CanPatchRoute
<1> QED
  BY <1>1 DEF KongTypeOK, PatchRoute, Route, Wrote

LEMMA PutServiceTyped ==
    ASSUME KongTypeOK, NEW c, NEW s, NEW url \in Url, PutService(c, s, url)
    PROVE  KongTypeOK'
BY DEF KongTypeOK, PutService, Wrote

LEMMA EnsureKeepsKong ==
    ASSUME TypeOK, EnsureTypeOK, Stable, UNCHANGED local, NEW e \in Ensure,
           EnsureStart(e) \/ EnsureStep(e) \/ EnsureCrash(e)
    PROVE  KongTypeOK' /\ Stable'
<1>1. HoldsLess
  BY DEF HoldsLess, local
<1>2. KongTypeOK
  BY DEF TypeOK
<1>3. CASE EnsureStart(e)
  <2>1. KongTypeOK'
    BY <1>2, <1>3, EnsureConstants DEF EnsureStart, Began, KongTypeOK
  <2> QED
    BY <1>1, <1>3, <2>1, StableIfUnwritten DEF EnsureStart
<1>4. CASE CreateService(e) \/ UpdateService(e)
  <2>1. PutService(e, EnsureService[e], EnsureUrl[e])
    BY <1>4 DEF CreateService, UpdateService
  <2>2. KongTypeOK'
    BY <1>2, <2>1, EnsureConstants, PutServiceTyped
  <2> QED
    BY <1>1, <2>1, <2>2, StableIfUnwritten DEF PutService
<1>5. CASE CreateBlock(e)
  BY <1>1, <1>2, <1>5, EnsureConstants, BlockFields, PostRouteTyped, StableUnderPostRoute
  DEF CreateBlock
<1>6. CASE UpdateBlock(e)
  <2>1. routes[BlockName[e]] \in Route
    BY <1>2, <1>6, EnsureConstants DEF UpdateBlock, KongTypeOK
  <2> QED
    BY <1>1, <1>2, <1>6, <2>1, EnsureConstants, BlockFields, PatchBlockTyped,
       StableUnderPatchRoute
    DEF UpdateBlock
<1>7. CASE CreatePlugin(e)
  BY <1>1, <1>2, <1>7, EnsureConstants, PostPluginTyped, StableUnderPostPlugin
  DEF CreatePlugin
<1>8. CASE UpdatePlugin(e)
  BY <1>1, <1>2, <1>8, EnsureConstants, PatchPluginTyped, StableUnderPatchPlugin
  DEF UpdatePlugin
<1>9. CASE CheckService(e) \/ CheckBlock(e) \/ CheckPlugin(e) \/ LostRace(e) \/ EnsureCrash(e)
  <2>1. UNCHANGED kong
    BY <1>9 DEF CheckService, CheckBlock, CheckPlugin, LostRace, EnsureCrash
  <2> QED
    BY <1>1, <1>2, <2>1, StableIfUnwritten DEF kong, KongTypeOK
<1> QED
  BY <1>3, <1>4, <1>5, <1>6, <1>7, <1>8, <1>9 DEF EnsureStep

LEMMA FoundTyped ==
    ASSUME EnsureTypeOK, UNCHANGED local, NEW e \in Ensure, KongTypeOK',
           EnsureStart(e) \/ EnsureStep(e) \/ EnsureCrash(e)
    PROVE  EnsureTypeOK'
<1>1. CASE EnsureStart(e)
  BY <1>1 DEF EnsureStart, EnsureGoto, EnsureTypeOK, EnsureRest
<1>2. CASE CheckService(e) \/ CreateService(e) \/ UpdateService(e)
  BY <1>2 DEF CheckService, CreateService, UpdateService, EnsureGoto, EnsureTypeOK, EnsureRest
<1>3. CASE CheckBlock(e) \/ CreateBlock(e) \/ UpdateBlock(e)
  BY <1>3 DEF CheckBlock, CreateBlock, UpdateBlock, EnsureGoto, EnsureTypeOK, EnsureRest
<1>4. CASE CheckPlugin(e)
  <2>1. \A p \in Terminations(e) : p.id \in Nat
    BY DEF EnsureTypeOK, KongTypeOK, Terminations, PluginsOf, Plugin
  <2> QED
    BY <1>4, <2>1 DEF CheckPlugin, EnsureGoto, EnsureTypeOK, EnsureRest
<1>5. CASE CreatePlugin(e) \/ UpdatePlugin(e) \/ LostRace(e) \/ EnsureCrash(e)
  BY <1>5 DEF CreatePlugin, UpdatePlugin, LostRace, EnsureCrash, EnsureGoto, EnsureTypeOK, EnsureRest
<1> QED
  BY <1>1, <1>2, <1>3, <1>4, <1>5 DEF EnsureStep
-----------------------------------------------------------------------------
(* What e has achieved, no step of another process undoes.                 *)

KeepsService(e) == ServiceReady(e) => ServiceReady(e)'

\* The block stays, and so does each of its termination plugins: it may be
\* updated, but only to the configuration of the command.
KeepsBlock(e) ==
    /\ Blocked(e) => Blocked(e)'
    /\ \A p \in Terminations(e) : \E q \in Terminations(e)' :
          q.id = p.id /\ (p.config = BlockConfig => q.config = BlockConfig)

LEMMA ClosedIsBlocked ==
    ASSUME NEW e \in Ensure
    PROVE  /\ Closed(e) <=> Blocked(e) /\ \E p \in Terminations(e) : p.config = BlockConfig
           /\ Closed(e)' <=> Blocked(e)' /\ \E p \in Terminations(e)' : p.config = BlockConfig
BY DEF Closed, Blocked

LEMMA KeepsIfUnwritten ==
    ASSUME NEW e \in Ensure, UNCHANGED <<routes, plugins>>
    PROVE  KeepsBlock(e)
BY DEF KeepsBlock, Blocked, Terminations, PluginsOf

\* A job writes no service, and only its own start makes it undisturbed.
LEMMA SyncKeepsServices ==
    ASSUME [Next]_vars
    PROVE  services' = services /\ quiet' \subseteq quiet \cup Sync
<1>1. CASE UNCHANGED vars
  BY <1>1 DEF vars, kong
<1>2. ASSUME NEW c \in Sync, Start(c) PROVE services' = services /\ quiet' \subseteq quiet \cup Sync
  BY <1>2 DEF Start, Began
<1>3. ASSUME NEW c \in Sync,
             CreateRoute(c) \/ UpdateRoute(c) \/ DropObsolete(c) \/ UpdateRewrite(c)
               \/ CreateRewrite(c) \/ DeleteOrphan(c)
      PROVE  services' = services /\ quiet' \subseteq quiet
  BY <1>3 DEF CreateRoute, UpdateRoute, DropObsolete, UpdateRewrite, CreateRewrite, DeleteOrphan,
              PostRoute, PatchRoute, DeletePlugin, PatchPlugin, PostPlugin, DeleteRoute, Wrote
<1>4. ASSUME NEW c \in Sync,
             \/ ListRoutes(c) \/ ListPlugins(c) \/ ExamineMissing(c) \/ ExamineInSync(c)
             \/ ExamineDrift(c) \/ KeepRewrite(c) \/ SkipPrune(c) \/ PlanPrune(c)
             \/ BeginPrune(c) \/ EndPrune(c) \/ Fail(c)
      PROVE  services' = services /\ quiet' = quiet
  BY <1>4 DEF ListRoutes, ListPlugins, ExamineMissing, ExamineInSync, ExamineDrift, KeepRewrite,
              SkipPrune, PlanPrune, BeginPrune, EndPrune, Fail, Finish, kong
<1> QED
  BY <1>1, <1>2, <1>3, <1>4 DEF Next, Step, RefusePrune, Refused, Crash

LEMMA SyncKeeps ==
    ASSUME TypeOK, Stable, [Next]_vars, NEW e \in Ensure
    PROVE  KeepsService(e) /\ KeepsBlock(e)
<1>1. services' = services /\ (e \in quiet' => e \in quiet)
  BY SyncKeepsServices, EnsureConstants
<1>2. KeepsService(e)
  BY <1>1 DEF KeepsService, ServiceReady, Registered
<1>3. routes'[BlockName[e]] = routes[BlockName[e]] /\ PluginsOf(BlockName[e])' = PluginsOf(BlockName[e])
  BY KeptNext, EnsureConstants DEF Kept
<1>4. KeepsBlock(e)
  BY <1>3 DEF KeepsBlock, Blocked, Terminations
<1> QED
  BY <1>2, <1>4

\* What another command does, creating, patching or configuring, keeps it too.
LEMMA EnsureKeepsBlock ==
    ASSUME TypeOK, NEW f \in Ensure, EnsureStart(f) \/ EnsureStep(f) \/ EnsureCrash(f),
           NEW e \in Ensure
    PROVE  KeepsBlock(e)
<1>1. CASE CreateBlock(f)
  <2>1. /\ routes[BlockName[f]] = Absent /\ plugins' = plugins
        /\ \A n \in RouteName : n # BlockName[f] => routes'[n] = routes[n]
    BY <1>1 DEF CreateBlock, PostRoute, CanPostRoute, TypeOK, KongTypeOK
  <2>2. CASE BlockName[e] = BlockName[f]
    BY <2>1, <2>2 DEF KeepsBlock, Blocked, Terminations, PluginsOf
  <2>3. CASE BlockName[e] # BlockName[f]
    BY <2>1, <2>3, EnsureConstants DEF KeepsBlock, Blocked, Terminations, PluginsOf
  <2> QED
    BY <2>2, <2>3
<1>2. CASE UpdateBlock(f)
  <2>1. /\ plugins' = plugins /\ routes[BlockName[f]] # Absent
        /\ \A n \in RouteName : n # BlockName[f] => routes'[n] = routes[n]
    BY <1>2 DEF UpdateBlock, PatchRoute, TypeOK, KongTypeOK
  <2>2. routes[BlockName[f]] \in Route
    BY <2>1, EnsureConstants DEF TypeOK, KongTypeOK
  <2>3. /\ routes'[BlockName[f]] \in Route /\ routes'[BlockName[f]].id = routes[BlockName[f]].id
        /\ routes'[BlockName[f]].paths = {EnsurePrefix[f]}
        /\ ~routes'[BlockName[f]].strip_path
    BY <1>2, <2>2, EnsureConstants DEF UpdateBlock, PatchRoute, TypeOK, KongTypeOK, Route
  <2>4. routes'[BlockName[f]] # Absent
    BY <2>3, AdminAssumption
  <2>5. CASE BlockName[e] = BlockName[f]
    <3>1. EnsurePrefix[e] = EnsurePrefix[f]
      BY <2>5, GatewayAssumption
    <3> QED
      BY <2>1, <2>3, <2>4, <2>5, <3>1 DEF KeepsBlock, Blocked, Terminations, PluginsOf
  <2>6. CASE BlockName[e] # BlockName[f]
    BY <2>1, <2>6, EnsureConstants DEF KeepsBlock, Blocked, Terminations, PluginsOf
  <2> QED
    BY <2>5, <2>6
<1>3. CASE CreatePlugin(f)
  <2>1. routes' = routes /\ plugins \subseteq plugins'
    BY <1>3 DEF CreatePlugin, PostPlugin
  <2> QED
    BY <2>1 DEF KeepsBlock, Blocked, Terminations, PluginsOf
<1>4. CASE UpdatePlugin(f)
  <2> DEFINE patched(p) == IF p.id = found[f] THEN [p EXCEPT !.config = BlockConfig] ELSE p
  <2>1. routes' = routes /\ plugins' = {patched(p) : p \in plugins}
    BY <1>4 DEF UpdatePlugin, PatchPlugin
  <2>2. \A p \in plugins : /\ patched(p).id = p.id /\ patched(p).route = p.route
                           /\ patched(p).name = p.name
                           /\ p.config = BlockConfig => patched(p).config = BlockConfig
    BY DEF TypeOK, KongTypeOK, Plugin
  <2> HIDE DEF patched
  <2>3. \A p \in Terminations(e) : patched(p) \in Terminations(e)'
    BY <2>1, <2>2 DEF Terminations, PluginsOf
  <2>4. Blocked(e) => Blocked(e)'
    BY <2>1 DEF Blocked
  <2> QED
    BY <2>2, <2>3, <2>4 DEF KeepsBlock, Terminations, PluginsOf
<1>5. CASE \/ EnsureStart(f) \/ CreateService(f) \/ UpdateService(f) \/ CheckService(f)
           \/ CheckBlock(f) \/ CheckPlugin(f) \/ LostRace(f) \/ EnsureCrash(f)
  <2>1. UNCHANGED <<routes, plugins>>
    BY <1>5 DEF EnsureStart, CreateService, UpdateService, PutService, CheckService, CheckBlock,
                CheckPlugin, LostRace, EnsureCrash, kong
  <2> QED
    BY <2>1, KeepsIfUnwritten
<1> QED
  BY <1>1, <1>2, <1>3, <1>4, <1>5 DEF EnsureStep
\* What another command writes meanwhile, disturbs e; what it only reads, does not.
LEMMA OthersKeepService ==
    ASSUME TypeOK, NEW f \in Ensure, EnsureStart(f) \/ EnsureStep(f) \/ EnsureCrash(f),
           NEW e \in Ensure \ {f}
    PROVE  KeepsService(e)
<1>1. CASE CreateService(f) \/ UpdateService(f)
  <2>1. /\ services' = [services EXCEPT ![EnsureService[f]] = EnsureUrl[f]] /\ e \notin quiet'
    BY <1>1 DEF CreateService, UpdateService, PutService, Wrote
  <2>2. \A s \in Service : services[s] # Absent => services'[s] # Absent
    BY <2>1, EnsureConstants DEF TypeOK, KongTypeOK
  <2> QED
    BY <2>1, <2>2 DEF KeepsService, ServiceReady, Registered
<1>2. CASE \/ EnsureStart(f) \/ CheckService(f) \/ CheckBlock(f) \/ CreateBlock(f)
           \/ UpdateBlock(f) \/ CheckPlugin(f) \/ CreatePlugin(f) \/ UpdatePlugin(f)
           \/ LostRace(f) \/ EnsureCrash(f)
  <2>1. services' = services /\ quiet' \subseteq quiet \cup {f}
    BY <1>2 DEF EnsureStart, Began, CheckService, CheckBlock, CreateBlock, PostRoute, UpdateBlock,
                PatchRoute, CheckPlugin, CreatePlugin, PostPlugin, UpdatePlugin, PatchPlugin,
                LostRace, EnsureCrash, Wrote, kong
  <2> QED
    BY <2>1 DEF KeepsService, ServiceReady, Registered
<1> QED
  BY <1>1, <1>2 DEF EnsureStep

\* What is achieved stays so while the process itself does not move.
LEMMA AchievedStays ==
    ASSUME NEW e \in Ensure, Achieved(e), KeepsService(e), KeepsBlock(e),
           epc'[e] = epc[e], found'[e] = found[e]
    PROVE  Achieved(e)'
<1>1. epc[e] = "patch_plugin" => \E p \in Terminations(e)' : p.id = found'[e]
  BY DEF Achieved, KeepsBlock
<1>2. epc[e] = "done" => Closed(e)'
  BY ClosedIsBlocked DEF Achieved, KeepsBlock
<1> QED
  BY <1>1, <1>2 DEF Achieved, KeepsService, KeepsBlock

-----------------------------------------------------------------------------
(* Each step of a command achieves what the next step starts from.         *)

LEMMA OwnStepAchieves ==
    ASSUME TypeOK, EnsureTypeOK, NEW e \in Ensure, Achieved(e),
           EnsureStart(e) \/ EnsureStep(e) \/ EnsureCrash(e)
    PROVE  Achieved(e)'
<1>1. CASE EnsureStart(e) \/ LostRace(e) \/ EnsureCrash(e)
  BY <1>1 DEF EnsureStart, LostRace, EnsureCrash, EnsureGoto, EnsureTypeOK, Achieved,
              AtBlock, AtPlugin
<1>2. CASE CheckService(e)
  <2>1. UNCHANGED <<services, quiet>>
    BY <1>2 DEF CheckService, kong
  <2>2. CASE services[EnsureService[e]] = Absent
    <3>1. epc'[e] = "post_service"
      BY <1>2, <2>2, EnsureConstants DEF CheckService, EnsureGoto, EnsureTypeOK
    <3> QED
      BY <3>1 DEF Achieved, AtBlock, AtPlugin
  <2>3. CASE services[EnsureService[e]] = EnsureUrl[e]
    BY <1>2, <2>1, <2>3, EnsureConstants
    DEF CheckService, EnsureGoto, EnsureTypeOK, Achieved, AtBlock, AtPlugin, ServiceReady, Registered
  <2>4. CASE services[EnsureService[e]] \notin {Absent, EnsureUrl[e]}
    BY <1>2, <2>4 DEF CheckService, EnsureGoto, EnsureTypeOK, Achieved, AtBlock, AtPlugin
  <2> QED
    BY <2>2, <2>3, <2>4
<1>3. CASE CreateService(e) \/ UpdateService(e)
  <2>1. services'[EnsureService[e]] = EnsureUrl[e] /\ epc'[e] = "get_block"
    BY <1>3, EnsureConstants
    DEF CreateService, UpdateService, PutService, EnsureGoto, EnsureTypeOK, TypeOK, KongTypeOK
  <2> QED
    BY <2>1, EnsureConstants DEF Achieved, ServiceReady, Registered, AtPlugin
<1>4. CASE CheckBlock(e)
  <2>1. UNCHANGED kong /\ epc[e] = "get_block" /\ epc'[e] \in {"post_block", "patch_block"}
    BY <1>4 DEF CheckBlock, EnsureGoto, EnsureTypeOK
  <2> QED
    BY <2>1 DEF Achieved, ServiceReady, Registered, AtBlock, AtPlugin, kong
<1>5. CASE CreateBlock(e)
  <2>1. /\ services' = services /\ quiet' \subseteq quiet
        /\ epc[e] = "post_block" /\ epc'[e] = "get_plugins"
    BY <1>5 DEF CreateBlock, PostRoute, Wrote, EnsureGoto, EnsureTypeOK
  <2>2. routes'[BlockName[e]] =
          [id |-> nextId, service |-> EnsureService[e], paths |-> {EnsurePrefix[e]},
           methods |-> {}, strip_path |-> FALSE, tags |-> {}]
    BY <1>5, EnsureConstants DEF CreateBlock, PostRoute, TypeOK, KongTypeOK
  <2>3. routes'[BlockName[e]] \in Route
    BY <2>2, EnsureConstants DEF Route, TypeOK, KongTypeOK
  <2>4. Blocked(e)'
    <3>1. /\ routes'[BlockName[e]].paths = {EnsurePrefix[e]}
          /\ ~routes'[BlockName[e]].strip_path
      BY <2>2
    <3> QED
      BY <2>3, <3>1, AdminAssumption DEF Blocked
  <2> QED
    BY <2>1, <2>4 DEF Achieved, ServiceReady, Registered, AtBlock
<1>6. CASE UpdateBlock(e)
  <2>1. /\ services' = services /\ quiet' \subseteq quiet
        /\ epc[e] = "patch_block" /\ epc'[e] = "get_plugins"
    BY <1>6 DEF UpdateBlock, PatchRoute, Wrote, EnsureGoto, EnsureTypeOK
  <2>2. routes[BlockName[e]] \in Route
    BY <1>6, EnsureConstants DEF UpdateBlock, TypeOK, KongTypeOK
  <2>3. /\ routes'[BlockName[e]] \in Route
        /\ routes'[BlockName[e]].paths = {EnsurePrefix[e]}
        /\ ~routes'[BlockName[e]].strip_path
    BY <1>6, <2>2, EnsureConstants DEF UpdateBlock, PatchRoute, TypeOK, KongTypeOK, Route
  <2>4. Blocked(e)'
    BY <2>3, AdminAssumption DEF Blocked
  <2> QED
    BY <2>1, <2>4 DEF Achieved, ServiceReady, Registered, AtBlock
<1>7. CASE CheckPlugin(e)
  <2>1. UNCHANGED kong /\ epc[e] = "get_plugins" /\ Blocked(e) /\ ServiceReady(e)
    BY <1>7 DEF CheckPlugin, Achieved, AtPlugin
  <2>2. Blocked(e)' /\ ServiceReady(e)' /\ Terminations(e)' = Terminations(e)
    BY <2>1 DEF kong, Blocked, ServiceReady, Registered, Terminations, PluginsOf
  <2>3. CASE epc'[e] = "post_plugin"
    BY <2>2, <2>3 DEF Achieved
  <2>4. ASSUME NEW p \in Terminations(e), found' = [found EXCEPT ![e] = p.id],
               EnsureGoto(e, IF p.config = BlockConfig THEN "done" ELSE "patch_plugin")
        PROVE  Achieved(e)'
    <3>1. found'[e] = p.id
      BY <2>4 DEF EnsureTypeOK
    <3>2. CASE p.config = BlockConfig /\ epc'[e] = "done"
      BY <2>2, <3>2, ClosedIsBlocked DEF Achieved
    <3>3. CASE epc'[e] = "patch_plugin"
      BY <2>2, <3>1, <3>3 DEF Achieved
    <3> QED
      BY <2>4, <3>2, <3>3 DEF EnsureGoto, EnsureTypeOK
  <2> QED
    BY <1>7, <2>3, <2>4 DEF CheckPlugin, EnsureGoto, EnsureTypeOK
<1>8. CASE CreatePlugin(e)
  <2> DEFINE new == [id |-> nextId, route |-> routes[BlockName[e]].id,
                     name |-> TerminationPlugin, config |-> BlockConfig]
  <2>1. /\ services' = services /\ quiet' \subseteq quiet /\ routes' = routes
        /\ new \in plugins' /\ epc'[e] = "done" /\ epc[e] = "post_plugin"
    BY <1>8 DEF CreatePlugin, PostPlugin, Wrote, EnsureGoto, EnsureTypeOK
  <2>2. Blocked(e)' /\ ServiceReady(e)'
    BY <2>1 DEF Achieved, AtPlugin, Blocked, ServiceReady, Registered
  <2>3. new \in Terminations(e)'
    BY <2>1, <2>2 DEF Terminations, PluginsOf, Blocked
  <2> QED
    BY <2>1, <2>2, <2>3, ClosedIsBlocked DEF Achieved
<1>9. CASE UpdatePlugin(e)
  <2> DEFINE patched(p) == IF p.id = found[e] THEN [p EXCEPT !.config = BlockConfig] ELSE p
  <2>1. /\ services' = services /\ quiet' \subseteq quiet /\ routes' = routes
        /\ plugins' = {patched(p) : p \in plugins}
        /\ epc'[e] = "done" /\ epc[e] = "patch_plugin"
    BY <1>9 DEF UpdatePlugin, PatchPlugin, Wrote, EnsureGoto, EnsureTypeOK
  <2>2. PICK p \in Terminations(e) : p.id = found[e]
    BY <2>1 DEF Achieved
  <2>3. p \in Plugin /\ p \in PluginsOf(BlockName[e]) /\ p.name = TerminationPlugin
    BY <2>2 DEF Terminations, PluginsOf, TypeOK, KongTypeOK
  <2>4. /\ patched(p).config = BlockConfig /\ patched(p).name = TerminationPlugin
        /\ patched(p).route = p.route
    BY <2>2, <2>3 DEF Plugin
  <2> HIDE DEF patched
  <2>5. patched(p) \in Terminations(e)'
    BY <2>1, <2>3, <2>4 DEF Terminations, PluginsOf
  <2>6. Blocked(e)' /\ ServiceReady(e)'
    BY <2>1 DEF Achieved, AtPlugin, Blocked, ServiceReady, Registered
  <2> QED
    BY <2>1, <2>4, <2>5, <2>6, ClosedIsBlocked DEF Achieved
<1> QED
  BY <1>1, <1>2, <1>3, <1>4, <1>5, <1>6, <1>7, <1>8, <1>9 DEF EnsureStep
-----------------------------------------------------------------------------
LEMMA GatewayInvInit == GatewayInit => GatewayInv
<1> SUFFICES ASSUME GatewayInit PROVE GatewayInv
  OBVIOUS
<1>1. TypeOK /\ Stable
  BY TypeInit, StableInit DEF GatewayInit
<1>2. EnsureTypeOK
  BY <1>1 DEF GatewayInit, EnsureLocalInit, EnsureTypeOK, EnsureRest, TypeOK
<1>3. \A e \in Ensure : Achieved(e)
  BY DEF GatewayInit, EnsureLocalInit, Achieved, AtBlock, AtPlugin
<1> QED
  BY <1>1, <1>2, <1>3 DEF GatewayInv

LEMMA GatewayInvNext ==
    ASSUME GatewayInv, [GatewayNext]_gvars
    PROVE  GatewayInv' /\ \A e \in Ensure : KeepsBlock(e)
<1> USE DEF GatewayInv
<1>1. CASE [Next]_vars /\ UNCHANGED elocal
  <2>1. TypeOK' /\ Stable'
    BY <1>1, TypeNext, StableNext
  <2>2. \A e \in Ensure : KeepsService(e) /\ KeepsBlock(e)
    BY <1>1, SyncKeeps
  <2>3. UNCHANGED <<epc, found, estarts>>
    BY <1>1 DEF elocal
  <2>4. \A e \in Ensure : Achieved(e)'
    BY <2>2, <2>3, AchievedStays
  <2>5. EnsureTypeOK'
    BY <2>1, <2>3 DEF EnsureTypeOK, TypeOK
  <2> QED
    BY <2>1, <2>2, <2>4, <2>5
<1>2. ASSUME NEW e \in Ensure, EnsureStart(e) \/ EnsureStep(e) \/ EnsureCrash(e), UNCHANGED local
      PROVE  GatewayInv' /\ \A d \in Ensure : KeepsBlock(d)
  <2>1. KongTypeOK' /\ Stable'
    BY <1>2, EnsureKeepsKong
  <2>2. TypeOK'
    BY <1>2, <2>1 DEF TypeOK, local
  <2>3. EnsureTypeOK'
    BY <1>2, <2>1, FoundTyped
  <2>4. \A d \in Ensure : KeepsBlock(d)
    BY <1>2, EnsureKeepsBlock
  <2>5. ASSUME NEW d \in Ensure PROVE Achieved(d)'
    <3>1. CASE d = e
      BY <1>2, <3>1, OwnStepAchieves
    <3>2. CASE d # e
      <4>1. epc'[d] = epc[d] /\ found'[d] = found[d]
        BY <1>2, <3>2, EnsureStepLocal
      <4>2. KeepsService(d)
        BY <1>2, <3>2, OthersKeepService
      <4> QED
        BY <2>4, <4>1, <4>2, AchievedStays
    <3> QED
      BY <3>1, <3>2
  <2> QED
    BY <2>1, <2>2, <2>3, <2>4, <2>5
<1>3. CASE UNCHANGED gvars
  BY <1>1, <1>3 DEF gvars, vars
<1> QED
  BY <1>1, <1>2, <1>3 DEF GatewayNext, EnsureNext

-----------------------------------------------------------------------------
(* Theorems. *)

\* The command's variables keep their types however many replicas, jobs and
\* crashes there are; with them Kong's and the jobs' (kong_ensure_service).
THEOREM EnsureTypeCorrect == GatewaySpec => []EnsureTypeOK
<1>1. GatewayInv => EnsureTypeOK
  BY DEF GatewayInv
<1> QED
  BY <1>1, GatewayInvInit, GatewayInvNext, PTL DEF GatewaySpec

\* A command that reports success has registered its service and closed its
\* prefix, whatever other replicas and any number of jobs did between its checks
\* and its writes (ensure_service, ensure_default_block).
THEOREM SuccessMeansClosed == GatewaySpec => []EnsuredClosed
<1>1. GatewayInv => EnsuredClosed
  BY DEF GatewayInv, Achieved, EnsuredClosed, ServiceReady
<1> QED
  BY <1>1, GatewayInvInit, GatewayInvNext, PTL DEF GatewaySpec

\* No step of a replica or of a job opens a prefix that answers 403, and no
\* crash between two requests does.
THEOREM ClosedForGood == GatewaySpec => StaysClosed
<1>1. GatewayInv /\ [GatewayNext]_gvars => [\A e \in Ensure : Closed(e) => Closed(e)']_evars
  <2> SUFFICES ASSUME GatewayInv, [GatewayNext]_gvars, NEW e \in Ensure, Closed(e)
               PROVE  Closed(e)'
    OBVIOUS
  <2>1. KeepsBlock(e)
    BY GatewayInvNext
  <2> QED
    BY <2>1, ClosedIsBlocked DEF KeepsBlock
<1> QED
  BY <1>1, GatewayInvInit, GatewayInvNext, PTL DEF GatewaySpec, StaysClosed
-----------------------------------------------------------------------------
(* A race between replicas has a winner.  Each refused creation hands the  *)
(* work to the process that was faster, so as long as a prefix is open     *)
(* some command on it still has a step to take that will be accepted.      *)

SameBlock(e, f) == BlockName[e] = BlockName[f]

\* Services are named after prefixes unless KONG_SERVICE says otherwise
\* (config.py, resolved_kong_service).
OneBlockPerService ==
    \A e, f \in Ensure : EnsureService[e] = EnsureService[f] => SameBlock(e, f)

\* A command that Kong is going to accept, or that died and may be started again.
Working(f) ==
    \/ epc[f] \in {"crashed", "get_service", "patch_service", "get_block", "patch_block",
                   "get_plugins", "post_plugin", "patch_plugin"}
    \/ epc[f] = "post_service" /\ ~Registered(EnsureService[f])
    \/ epc[f] = "post_block" /\ CanPostRoute(BlockName[f], EnsureService[f])

\* The plugin that makes a creation fail is one that closes the prefix.
LosesToClosed(e) == epc[e] = "post_plugin" /\ Terminations(e) # {} => Closed(e)

InProgress(e) == Closed(e) \/ \E f \in Ensure : SameBlock(e, f) /\ Working(f)

RaceInv ==
    /\ GatewayInv
    /\ \A e \in Ensure : LosesToClosed(e)
    /\ OneBlockPerService => \A e \in Ensure : estarts[e] > 0 => InProgress(e)

\* Once nobody is on a prefix any more, and nobody died on it, it is closed if
\* the command was ever started: of several replicas one has got through.
ReplicasFinish ==
    \A e \in Ensure :
        /\ estarts[e] > 0
        /\ \A f \in Ensure : SameBlock(e, f) => epc[f] \in {"idle", "done", "refused"}
        => Closed(e)

\* Commands of one prefix close one and the same block.
LEMMA ClosedTogether ==
    ASSUME NEW e \in Ensure, NEW f \in Ensure, SameBlock(e, f)
    PROVE  /\ Closed(e) <=> Closed(f)
           /\ Closed(e)' <=> Closed(f)'
BY GatewayAssumption DEF SameBlock, Closed, Terminations, PluginsOf

LEMMA ClosedKept ==
    ASSUME NEW e \in Ensure, KeepsBlock(e), Closed(e)
    PROVE  Closed(e)'
BY ClosedIsBlocked DEF KeepsBlock

\* A termination plugin appears on a block only as a command of it creates it,
\* with the configuration that closes it.
LEMMA PluginsAppearClosed ==
    ASSUME GatewayInv, NEW g \in Ensure, EnsureStart(g) \/ EnsureStep(g) \/ EnsureCrash(g),
           NEW e \in Ensure, Blocked(e), Terminations(e) = {}, Terminations(e)' # {}
    PROVE  \E p \in Terminations(e)' : p.config = BlockConfig
<1> USE DEF GatewayInv
<1>1. routes[BlockName[e]] # Absent /\ BlockName[e] \in RouteName /\ BlockName[g] \in RouteName
  BY EnsureConstants DEF Blocked
<1>2. CASE CreatePlugin(g)
  BY <1>2 DEF CreatePlugin, PostPlugin, Terminations, PluginsOf
<1>3. CASE CreateBlock(g)
  <2>1. routes'[BlockName[e]] = routes[BlockName[e]] /\ plugins' = plugins
    BY <1>1, <1>3 DEF CreateBlock, PostRoute, CanPostRoute, TypeOK, KongTypeOK
  <2> QED
    BY <2>1 DEF Terminations, PluginsOf
<1>4. CASE UpdateBlock(g)
  <2>1. plugins' = plugins /\ routes'[BlockName[e]].id = routes[BlockName[e]].id
    BY <1>1, <1>4 DEF UpdateBlock, PatchRoute, TypeOK, KongTypeOK
  <2> QED
    BY <1>1, <2>1 DEF Terminations, PluginsOf
<1>5. CASE UpdatePlugin(g)
  <2> DEFINE patched(p) == IF p.id = found[g] THEN [p EXCEPT !.config = BlockConfig] ELSE p
  <2>1. routes' = routes /\ plugins' = {patched(p) : p \in plugins}
    BY <1>5 DEF UpdatePlugin, PatchPlugin
  <2>2. \A p \in plugins : patched(p).route = p.route /\ patched(p).name = p.name
    BY DEF TypeOK, KongTypeOK, Plugin
  <2> HIDE DEF patched
  <2>3. \A p \in plugins : patched(p) \in Terminations(e)' => p \in Terminations(e)
    BY <2>1, <2>2 DEF Terminations, PluginsOf
  <2> QED
    BY <2>1, <2>3 DEF Terminations, PluginsOf
<1>6. CASE \/ EnsureStart(g) \/ CreateService(g) \/ UpdateService(g) \/ CheckService(g)
           \/ CheckBlock(g) \/ CheckPlugin(g) \/ LostRace(g) \/ EnsureCrash(g)
  <2>1. UNCHANGED <<routes, plugins>>
    BY <1>6 DEF EnsureStart, CreateService, UpdateService, PutService, CheckService, CheckBlock,
                CheckPlugin, LostRace, EnsureCrash, kong
  <2> QED
    BY <2>1 DEF Terminations, PluginsOf
<1> QED
  BY <1>2, <1>3, <1>4, <1>5, <1>6 DEF EnsureStep

\* A command goes on to create the plugin only when it has listed none.
LEMMA PostsWhenNone ==
    ASSUME EnsureTypeOK, NEW e \in Ensure, EnsureStart(e) \/ EnsureStep(e) \/ EnsureCrash(e),
           epc'[e] = "post_plugin"
    PROVE  Terminations(e)' = {}
<1>1. CASE CheckPlugin(e)
  <2>1. UNCHANGED <<routes, plugins>>
    BY <1>1 DEF CheckPlugin, kong
  <2>2. Terminations(e) = {}
    BY <1>1 DEF CheckPlugin, EnsureGoto, EnsureTypeOK
  <2> QED
    BY <2>1, <2>2 DEF Terminations, PluginsOf
<1>2. CASE EnsureStart(e) \/ CheckService(e) \/ CreateService(e) \/ UpdateService(e)
  BY <1>2 DEF EnsureStart, CheckService, CreateService, UpdateService, EnsureGoto, EnsureTypeOK
<1>3. CASE CheckBlock(e) \/ CreateBlock(e) \/ UpdateBlock(e)
  BY <1>3 DEF CheckBlock, CreateBlock, UpdateBlock, EnsureGoto, EnsureTypeOK
<1>4. CASE CreatePlugin(e) \/ UpdatePlugin(e) \/ LostRace(e) \/ EnsureCrash(e)
  BY <1>4 DEF CreatePlugin, UpdatePlugin, LostRace, EnsureCrash, EnsureGoto, EnsureTypeOK
<1> QED
  BY <1>1, <1>2, <1>3, <1>4 DEF EnsureStep

\* A plugin that appears before a command's own creation closes the prefix.
LEMMA StillLosesToClosed ==
    ASSUME GatewayInv, NEW g \in Ensure, EnsureStart(g) \/ EnsureStep(g) \/ EnsureCrash(g),
           UNCHANGED local, GatewayInv', NEW e \in Ensure, LosesToClosed(e), KeepsBlock(e)
    PROVE  LosesToClosed(e)'
<1> SUFFICES ASSUME epc'[e] = "post_plugin", Terminations(e)' # {}
             PROVE  Closed(e)'
  BY DEF LosesToClosed
<1>1. e # g
  BY PostsWhenNone DEF GatewayInv
<1>2. epc[e] = "post_plugin"
  BY <1>1, EnsureStepLocal DEF GatewayInv
<1>3. Blocked(e)
  BY <1>2 DEF GatewayInv, Achieved, AtPlugin
<1>4. CASE Terminations(e) # {}
  BY <1>2, <1>4, ClosedKept DEF LosesToClosed
<1>5. CASE Terminations(e) = {}
  <2>1. \E p \in Terminations(e)' : p.config = BlockConfig
    BY <1>3, <1>5, PluginsAppearClosed
  <2> QED
    BY <1>3, <2>1, ClosedIsBlocked DEF KeepsBlock
<1> QED
  BY <1>4, <1>5

\* A command that is at work stays so or ends on a closed prefix.
LEMMA OwnWork ==
    ASSUME GatewayInv, GatewayInv', NEW g \in Ensure, LosesToClosed(g), KeepsBlock(g),
           EnsureStart(g) \/ EnsureStep(g) \/ EnsureCrash(g), Working(g)
    PROVE  Working(g)' \/ Closed(g)'
<1> USE DEF GatewayInv
<1>1. CASE EnsureStart(g) \/ EnsureCrash(g)
  BY <1>1 DEF EnsureStart, EnsureCrash, EnsureGoto, EnsureTypeOK, Working
<1>2. CASE CheckService(g)
  <2>1. services' = services
    BY <1>2 DEF CheckService, kong
  <2>2. epc'[g] \in {"get_block", "patch_service"} \/
        (epc'[g] = "post_service" /\ services[EnsureService[g]] = Absent)
    BY <1>2 DEF CheckService, EnsureGoto, EnsureTypeOK
  <2> QED
    BY <2>1, <2>2 DEF Working, Registered
<1>3. CASE CreateService(g) \/ UpdateService(g) \/ CreateBlock(g) \/ UpdateBlock(g)
  BY <1>3 DEF CreateService, UpdateService, CreateBlock, UpdateBlock, EnsureGoto, EnsureTypeOK,
              Working
<1>4. CASE CheckBlock(g)
  <2>1. UNCHANGED <<routes, services>> /\ Registered(EnsureService[g])
    BY <1>4 DEF CheckBlock, kong, Achieved, AtBlock, ServiceReady
  <2>2. epc'[g] = "patch_block" \/ (epc'[g] = "post_block" /\ routes[BlockName[g]] = Absent)
    BY <1>4 DEF CheckBlock, EnsureGoto, EnsureTypeOK
  <2> QED
    BY <2>1, <2>2 DEF Working, CanPostRoute, Registered
<1>5. CASE CheckPlugin(g) \/ CreatePlugin(g) \/ UpdatePlugin(g)
  <2>1. epc'[g] \in {"post_plugin", "patch_plugin", "done"}
    BY <1>5 DEF CheckPlugin, CreatePlugin, UpdatePlugin, EnsureGoto, EnsureTypeOK
  <2> QED
    BY <2>1 DEF Achieved, Working
<1>6. CASE LostRace(g)
  <2>1. epc[g] = "post_plugin" /\ ~CanPostPlugin(BlockName[g], TerminationPlugin)
    BY <1>6 DEF LostRace, Working
  <2>2. routes[BlockName[g]] # Absent
    BY <2>1 DEF Achieved, AtPlugin, Blocked
  <2>3. Terminations(g) # {}
    BY <2>1, <2>2 DEF CanPostPlugin, Carries, Terminations, PluginsOf
  <2> QED
    BY <2>1, <2>3, ClosedKept DEF LosesToClosed
<1> QED
  BY <1>1, <1>2, <1>3, <1>4, <1>5, <1>6 DEF EnsureStep

\* What a command is about to create, only a command of the same prefix can
\* create first, and that one is then at work itself.
LEMMA OthersWork ==
    ASSUME GatewayInv, OneBlockPerService, NEW g \in Ensure,
           EnsureStart(g) \/ EnsureStep(g) \/ EnsureCrash(g),
           NEW f \in Ensure \ {g}, Working(f)
    PROVE  Working(f)' \/ (SameBlock(f, g) /\ Working(g)')
<1> USE DEF GatewayInv
<1>1. epc'[f] = epc[f]
  BY EnsureStepLocal
<1>2. CASE CreateService(g) \/ UpdateService(g)
  <2>1. /\ epc'[g] = "get_block" /\ routes' = routes
        /\ services' = [services EXCEPT ![EnsureService[g]] = EnsureUrl[g]]
    BY <1>2 DEF CreateService, UpdateService, PutService, EnsureGoto, EnsureTypeOK
  <2>2. CASE EnsureService[f] = EnsureService[g]
    BY <2>1, <2>2 DEF OneBlockPerService, SameBlock, Working
  <2>3. CASE EnsureService[f] # EnsureService[g]
    <3>1. services'[EnsureService[f]] = services[EnsureService[f]]
      BY <2>1, <2>3, EnsureConstants DEF TypeOK, KongTypeOK
    <3> QED
      BY <1>1, <2>1, <3>1 DEF Working, CanPostRoute, Registered
  <2> QED
    BY <2>2, <2>3
<1>3. CASE CreateBlock(g) \/ UpdateBlock(g)
  <2>1. /\ epc'[g] = "get_plugins" /\ services' = services
        /\ \A n \in RouteName : n # BlockName[g] => routes'[n] = routes[n]
    BY <1>3 DEF CreateBlock, PostRoute, UpdateBlock, PatchRoute, EnsureGoto, EnsureTypeOK,
                TypeOK, KongTypeOK
  <2>2. CASE BlockName[f] = BlockName[g]
    BY <2>1, <2>2 DEF SameBlock, Working
  <2>3. CASE BlockName[f] # BlockName[g]
    <3>1. routes'[BlockName[f]] = routes[BlockName[f]]
      BY <2>1, <2>3, EnsureConstants
    <3> QED
      BY <1>1, <2>1, <3>1 DEF Working, CanPostRoute, Registered
  <2> QED
    BY <2>2, <2>3
<1>4. CASE \/ EnsureStart(g) \/ CheckService(g) \/ CheckBlock(g) \/ CheckPlugin(g)
           \/ CreatePlugin(g) \/ UpdatePlugin(g) \/ LostRace(g) \/ EnsureCrash(g)
  <2>1. UNCHANGED <<routes, services>>
    BY <1>4 DEF EnsureStart, CheckService, CheckBlock, CheckPlugin, CreatePlugin, PostPlugin,
                UpdatePlugin, PatchPlugin, LostRace, EnsureCrash, kong
  <2> QED
    BY <1>1, <2>1 DEF Working, CanPostRoute, Registered
<1> QED
  BY <1>2, <1>3, <1>4 DEF EnsureStep

\* Whoever moves, somebody on the prefix is still going to be accepted.
LEMMA StillInProgress ==
    ASSUME RaceInv, OneBlockPerService, GatewayInv', UNCHANGED local, NEW g \in Ensure,
           EnsureStart(g) \/ EnsureStep(g) \/ EnsureCrash(g),
           NEW e \in Ensure, KeepsBlock(e), KeepsBlock(g), estarts'[e] > 0
    PROVE  InProgress(e)'
<1> USE DEF RaceInv, GatewayInv
<1>1. CASE Closed(e)
  BY <1>1, ClosedKept DEF InProgress
<1>2. ASSUME NEW f \in Ensure, SameBlock(e, f), Working(f) PROVE InProgress(e)'
  <2>1. CASE f = g
    <3>1. Working(g)' \/ Closed(g)'
      BY <1>2, <2>1, OwnWork
    <3> QED
      BY <1>2, <2>1, <3>1, ClosedTogether DEF InProgress
  <2>2. CASE f # g
    <3>1. Working(f)' \/ (SameBlock(f, g) /\ Working(g)')
      BY <1>2, <2>2, OthersWork
    <3> QED
      BY <1>2, <3>1 DEF InProgress, SameBlock
  <2> QED
    BY <2>1, <2>2
<1>3. CASE estarts[e] > 0
  BY <1>1, <1>2, <1>3 DEF InProgress
<1>4. CASE ~(estarts[e] > 0)
  <2>1. EnsureStart(g)
    BY <1>4 DEF EnsureStep, CheckService, CreateService, UpdateService, CheckBlock, CreateBlock,
                UpdateBlock, CheckPlugin, CreatePlugin, UpdatePlugin, LostRace, EnsureCrash
  <2>2. e = g /\ epc'[g] = "get_service"
    BY <1>4, <2>1 DEF EnsureStart, EnsureGoto, EnsureTypeOK
  <2> QED
    BY <2>2 DEF InProgress, Working, SameBlock
<1> QED
  BY <1>3, <1>4

LEMMA RaceInvInit == GatewayInit => RaceInv
<1> SUFFICES ASSUME GatewayInit PROVE RaceInv
  OBVIOUS
<1>1. \A e \in Ensure : epc[e] = "idle" /\ ~(estarts[e] > 0)
  BY DEF GatewayInit, EnsureLocalInit
<1> QED
  BY <1>1, GatewayInvInit DEF RaceInv, LosesToClosed

LEMMA RaceInvNext == RaceInv /\ [GatewayNext]_gvars => RaceInv'
<1> SUFFICES ASSUME RaceInv, [GatewayNext]_gvars PROVE RaceInv'
  OBVIOUS
<1>0. GatewayInv' /\ \A e \in Ensure : KeepsBlock(e)
  BY GatewayInvNext DEF RaceInv
<1>1. CASE [Next]_vars /\ UNCHANGED elocal
  <2>1. services' = services
    BY <1>1, SyncKeepsServices
  <2>2. \A e \in Ensure : /\ routes'[BlockName[e]] = routes[BlockName[e]]
                          /\ PluginsOf(BlockName[e])' = PluginsOf(BlockName[e])
    BY <1>1, KeptNext, EnsureConstants DEF Kept, RaceInv, GatewayInv
  <2>3. UNCHANGED <<epc, found, estarts>>
    BY <1>1 DEF elocal
  <2>4. \A e \in Ensure : /\ Terminations(e)' = Terminations(e)
                          /\ Closed(e) => Closed(e)'
                          /\ Working(e) => Working(e)'
    BY <1>0, <2>1, <2>2, <2>3, ClosedKept DEF Terminations, Working, CanPostRoute, Registered
  <2> QED
    BY <1>0, <2>3, <2>4 DEF RaceInv, LosesToClosed, InProgress, SameBlock, OneBlockPerService
<1>2. ASSUME NEW g \in Ensure, EnsureStart(g) \/ EnsureStep(g) \/ EnsureCrash(g), UNCHANGED local
      PROVE  RaceInv'
  <2>1. \A e \in Ensure : LosesToClosed(e)'
    BY <1>0, <1>2, StillLosesToClosed DEF RaceInv
  <2>2. OneBlockPerService => \A e \in Ensure : estarts'[e] > 0 => InProgress(e)'
    BY <1>0, <1>2, StillInProgress
  <2> QED
    BY <1>0, <2>1, <2>2 DEF RaceInv, OneBlockPerService, SameBlock
<1>3. CASE UNCHANGED gvars
  BY <1>1, <1>3 DEF gvars, vars
<1> QED
  BY <1>1, <1>2, <1>3 DEF GatewayNext, EnsureNext

\* The safety half of RaceOnboards: however many replicas of a service race, and
\* however Kong refuses them, they cannot all end refused with the prefix open.
\* Once none is under way and none has died, the prefix is closed.
THEOREM RaceHasWinner == GatewaySpec => [](OneBlockPerService => ReplicasFinish)
<1>1. RaceInv => (OneBlockPerService => ReplicasFinish)
  BY DEF RaceInv, InProgress, Working, ReplicasFinish
<1> QED
  BY <1>1, RaceInvInit, RaceInvNext, PTL DEF GatewaySpec
-----------------------------------------------------------------------------
(* Deployments beside onboardings.  A command writes services, its block   *)
(* and the plugin of its block: what a run of kong_sync knows of the       *)
(* allow-routes stays true.                                                *)

EnsureMoves(e) == EnsureStart(e) \/ EnsureStep(e) \/ EnsureCrash(e)

SyncMoves(c) == Start(c) \/ Step(c) \/ Crash(c)

\* The request a command sends reaches no route but its block.
LEMMA EnsureWritesBlock ==
    ASSUME GatewayInv, Sound, NEW e \in Ensure, EnsureMoves(e)
    PROVE  /\ Sound'
           /\ \A n \in RouteName \ {BlockName[e]} : Untouched(n)
           /\ \A n \in AllowName : Untouched(n)
<1> USE DEF GatewayInv, EnsureMoves
<1>1. /\ KongTypeOK /\ BlockName[e] \in RouteName /\ BlockName[e] \notin AllowName
      /\ AllowName \subseteq RouteName
  BY EnsureConstants, AdminAssumption DEF TypeOK
<1> SUFFICES Sound' /\ \A n \in RouteName \ {BlockName[e]} : Untouched(n)
  BY <1>1
<1>2. ASSUME Only(BlockName[e]) PROVE \A n \in RouteName \ {BlockName[e]} : Untouched(n)
  BY <1>2 DEF Only
<1>3. CASE CreateBlock(e)
  BY <1>1, <1>2, <1>3, BlockFields, PostRouteEffect DEF CreateBlock
<1>4. CASE UpdateBlock(e)
  <2>1. routes[BlockName[e]] \in Route
    BY <1>1, <1>4 DEF UpdateBlock, KongTypeOK
  <2>2. /\ UNCHANGED <<plugins, nextId>>
        /\ \A m \in RouteName \ {BlockName[e]} : routes'[m] = routes[m]
        /\ routes'[BlockName[e]] \in Route /\ routes'[BlockName[e]].id = routes[BlockName[e]].id
    BY <1>1, <1>4, <2>1, EnsureConstants DEF UpdateBlock, PatchRoute, KongTypeOK, Route
  <2>3. \A m \in RouteName : /\ routes'[m] # Absent <=> routes[m] # Absent
                             /\ routes[m] # Absent => routes'[m].id = routes[m].id
    BY <2>1, <2>2, AdminAssumption
  <2>4. Sound'
    BY <2>2, <2>3 DEF Sound, WellFormed
  <2>5. \A n \in RouteName \ {BlockName[e]} : Untouched(n)
    BY <2>2 DEF Untouched, PluginsOf
  <2> QED
    BY <2>4, <2>5
<1>5. CASE CreatePlugin(e)
  BY <1>1, <1>2, <1>5, PostPluginEffect DEF CreatePlugin
<1>6. CASE UpdatePlugin(e)
  <2>1. PICK p \in PluginsOf(BlockName[e]) : p.id = found[e]
    BY <1>6 DEF UpdatePlugin, Achieved, Terminations
  <2> QED
    BY <1>1, <1>2, <1>6, <2>1, PatchPluginEffect, PatchPluginSound DEF UpdatePlugin
<1>7. CASE \/ EnsureStart(e) \/ CreateService(e) \/ UpdateService(e) \/ CheckService(e)
           \/ CheckBlock(e) \/ CheckPlugin(e) \/ LostRace(e) \/ EnsureCrash(e)
  <2>1. UNCHANGED <<routes, plugins, nextId>>
    BY <1>7 DEF EnsureStart, CreateService, UpdateService, PutService, CheckService, CheckBlock,
                CheckPlugin, LostRace, EnsureCrash, kong
  <2> QED
    BY <2>1 DEF Sound, WellFormed, Untouched, PluginsOf
<1> QED
  BY <1>3, <1>4, <1>5, <1>6, <1>7 DEF EnsureStep

\* A command registers services and takes none away.
LEMMA EnsureKeepsServices ==
    ASSUME GatewayInv, NEW e \in Ensure, EnsureMoves(e), NEW s, Registered(s)
    PROVE  Registered(s)'
<1>1. CASE CreateService(e) \/ UpdateService(e)
  <2>1. services' = [services EXCEPT ![EnsureService[e]] = EnsureUrl[e]]
    BY <1>1 DEF CreateService, UpdateService, PutService
  <2> QED
    BY <2>1, EnsureConstants DEF GatewayInv, TypeOK, KongTypeOK, Registered
<1>2. CASE \/ EnsureStart(e) \/ CheckService(e) \/ CheckBlock(e) \/ CreateBlock(e)
           \/ UpdateBlock(e) \/ CheckPlugin(e) \/ CreatePlugin(e) \/ UpdatePlugin(e)
           \/ LostRace(e) \/ EnsureCrash(e)
  <2>1. services' = services
    BY <1>2 DEF EnsureStart, CheckService, CheckBlock, CreateBlock, PostRoute, UpdateBlock,
                PatchRoute, CheckPlugin, CreatePlugin, PostPlugin, UpdatePlugin, PatchPlugin,
                LostRace, EnsureCrash, kong
  <2> QED
    BY <2>1 DEF Registered
<1> QED
  BY <1>1, <1>2 DEF EnsureMoves, EnsureStep

\* Behind a run a command either reads or ends that the run is undisturbed.
LEMMA EnsureDisturbs ==
    ASSUME NEW e \in Ensure, EnsureMoves(e)
    PROVE  \/ quiet' = quiet \cap {e}
           \/ UNCHANGED <<routes, plugins, services>> /\ quiet' \subseteq quiet \cup {e}
<1>1. CASE CreateService(e) \/ UpdateService(e) \/ CreateBlock(e) \/ UpdateBlock(e)
           \/ CreatePlugin(e) \/ UpdatePlugin(e)
  BY <1>1 DEF CreateService, UpdateService, PutService, CreateBlock, PostRoute, UpdateBlock,
              PatchRoute, CreatePlugin, PostPlugin, UpdatePlugin, PatchPlugin, Wrote
<1>2. CASE EnsureStart(e) \/ CheckService(e) \/ CheckBlock(e) \/ CheckPlugin(e)
           \/ LostRace(e) \/ EnsureCrash(e)
  BY <1>2 DEF EnsureStart, Began, CheckService, CheckBlock, CheckPlugin, LostRace, EnsureCrash, kong
<1> QED
  BY <1>1, <1>2 DEF EnsureMoves, EnsureStep

\* A command sends no request that confuses ids, and moves no loop.
LEMMA EnsureKeepsBasics ==
    ASSUME GatewayInv, GatewayInv', Basics, NEW e \in Ensure, EnsureMoves(e), UNCHANGED local
    PROVE  Basics'
<1>1. Sound' /\ TypeOK' /\ Stable'
  BY EnsureWritesBlock DEF Basics, GatewayInv
<1>2. Fresh' /\ DryRunWritesNothing'
  BY DEF Basics, Fresh, DryRunWritesNothing, local
<1>3. PruneInv'
  BY PruneNamesFixed DEF Basics, PruneInv, local
<1> QED
  BY <1>1, <1>2, <1>3 DEF Basics

-----------------------------------------------------------------------------
(* A run nobody writes behind, replicas included.                          *)

\* service_ids dies with its run, so every run begins without a memo.
ForgetsAtRest == \A c \in Sync : pc[c] \in Rest => \A s \in Service : sids[c][s] = Unread

\* Who registers a service meanwhile writes, and the run is not undisturbed.
QuietMemories == \A c \in Sync \cap quiet : MemoTrue(c)

DeployInv == GatewayInv /\ Basics /\ ForgetsAtRest /\ QuietMemories /\ QuietRunsKnow

\* A run that is over, whether it ended or died, has no memo of services left.
LEMMA ForgetsNext ==
    ASSUME TypeOK, ForgetsAtRest, NEW c \in Sync, SyncMoves(c)
    PROVE  ForgetsAtRest'
<1> USE DEF SyncMoves
<1>1. ASSUME NEW d \in Sync \ {c} PROVE pc'[d] = pc[d] /\ sids'[d] = sids[d]
  BY <1>1, OthersLeaveMemory DEF MemoryKept
<1>2. CASE Forgotten(c)
  <2>1. sids'[c] = NoMemo
    BY <1>2 DEF Forgotten, TypeOK
  <2> QED
    BY <1>1, <2>1 DEF ForgetsAtRest, NoMemo
<1>3. CASE pc'[c] \notin Rest
  BY <1>1, <1>3 DEF ForgetsAtRest
<1>4. CASE SkipPrune(c) \/ PlanPrune(c) \/ EndPrune(c) \/ Fail(c)
  BY <1>2, <1>4 DEF SkipPrune, PlanPrune, EndPrune, Fail, Finish
<1>5. CASE \/ Start(c) \/ ListRoutes(c) \/ ListPlugins(c) \/ ExamineMissing(c) \/ ExamineInSync(c)
           \/ ExamineDrift(c) \/ CreateRoute(c) \/ UpdateRoute(c) \/ DropObsolete(c)
           \/ KeepRewrite(c) \/ UpdateRewrite(c) \/ CreateRewrite(c) \/ BeginPrune(c)
           \/ DeleteOrphan(c)
  <2>1. pc'[c] \notin Rest
    BY <1>5 DEF Start, ListRoutes, ListPlugins, ExamineMissing, ExamineInSync, ExamineDrift,
                CreateRoute, UpdateRoute, DropObsolete, KeepRewrite, UpdateRewrite, CreateRewrite,
                ReadyToWrite, BeginPrune, DeleteOrphan, NextRoute, Goto, Rest, TypeOK
  <2> QED
    BY <1>3, <2>1
<1> QED
  BY <1>4, <1>5 DEF Step, RefusePrune, Refused, Crash

\* No job registers a service, and a run that becomes quiet has just begun.
LEMMA QuietMemoriesNext ==
    ASSUME Basics, ForgetsAtRest, QuietMemories, NEW c \in Sync, SyncMoves(c)
    PROVE  QuietMemories'
<1> SUFFICES ASSUME NEW d \in Sync \cap quiet' PROVE MemoTrue(d)'
  BY DEF QuietMemories
<1>1. MemoTrue(d) => MemoTrue(d)'
  BY BasicsNext DEF SyncMoves, Next
<1>2. CASE d \in quiet
  BY <1>1, <1>2 DEF QuietMemories
<1>3. CASE d \notin quiet
  <2>1. d = c /\ Start(c)
    BY <1>3, WritersDisturb DEF SyncMoves
  <2>2. \A s \in Service : sids[c][s] = Unread
    BY <2>1 DEF Start, ForgetsAtRest
  <2> QED
    BY <1>1, <2>1, <2>2 DEF MemoTrue
<1> QED
  BY <1>2, <1>3

LEMMA DeployInvInit == GatewayInit => DeployInv
<1> SUFFICES ASSUME GatewayInit PROVE DeployInv
  OBVIOUS
<1>1. Init /\ quiet = {} /\ \A c \in Sync : sids[c] = NoMemo
  BY DEF GatewayInit, Init, StartsAs
<1> QED
  BY <1>1, GatewayInvInit, BasicsInit
  DEF DeployInv, ForgetsAtRest, NoMemo, QuietMemories, QuietRunsKnow

\* A job's steps keep it as they do without onboardings; a command's leave quiet only
\* the runs it writes nothing behind.
LEMMA DeployInvNext == DeployInv /\ [GatewayNext]_gvars => DeployInv'
<1> SUFFICES ASSUME DeployInv, [GatewayNext]_gvars PROVE DeployInv'
  OBVIOUS
<1> USE DEF DeployInv
<1>1. GatewayInv' /\ TypeOK
  BY GatewayInvNext DEF GatewayInv
<1>2. ASSUME NEW c \in Sync, SyncMoves(c) PROVE DeployInv'
  <2>1. Basics'
    BY <1>2, BasicsNext DEF Next, SyncMoves
  <2>2. QuietRunsKnow'
    BY <1>2, QuietStepsKnow DEF QuietMemories, SyncMoves
  <2> QED
    BY <1>1, <1>2, <2>1, <2>2, ForgetsNext, QuietMemoriesNext
<1>3. ASSUME UNCHANGED local, UNCHANGED <<routes, plugins, services>>, Basics',
             \A c \in Sync \cap quiet' : c \in quiet
      PROVE  DeployInv'
  <2>1. ForgetsAtRest'
    BY <1>3 DEF ForgetsAtRest, local
  <2>2. QuietMemories'
    BY <1>3 DEF QuietMemories, MemoTrue, Registered, local
  <2>3. \A c \in Sync : MemoryKept(c)
    BY <1>3 DEF local, MemoryKept
  <2>4. QuietRunsKnow'
    BY <1>3, <2>3, KnowsFrame DEF QuietRunsKnow
  <2> QED
    BY <1>1, <1>3, <2>1, <2>2, <2>4
<1>4. ASSUME NEW e \in Ensure, EnsureMoves(e), UNCHANGED local PROVE DeployInv'
  <2>1. Basics' /\ e \notin Sync
    BY <1>1, <1>4, EnsureKeepsBasics, EnsureConstants
  <2>2. CASE quiet' = quiet \cap {e}
    BY <1>1, <1>4, <2>1, <2>2 DEF ForgetsAtRest, QuietMemories, QuietRunsKnow, local
  <2>3. CASE UNCHANGED <<routes, plugins, services>> /\ quiet' \subseteq quiet \cup {e}
    BY <1>3, <1>4, <2>1, <2>3
  <2> QED
    BY <1>4, <2>2, <2>3, EnsureDisturbs
<1>5. CASE UNCHANGED gvars
  <2>1. UNCHANGED vars
    BY <1>5 DEF gvars
  <2>2. Basics'
    BY <2>1, BasicsNext
  <2> QED
    BY <1>3, <2>1, <2>2 DEF vars, kong
<1> QED
  BY <1>2, <1>4, <1>5 DEF GatewayNext, Next, EnsureNext, SyncMoves, EnsureMoves

\* Every run nobody has written behind, onboardings included, knows Kong.
THEOREM QuietDeploysKnowKong == GatewaySpec => []DeployInv
BY DeployInvInit, DeployInvNext, PTL DEF GatewaySpec

\* An undisturbed deployment leaves every declared route served as declared and no
\* orphan of its service, whatever services were onboarded before or between runs
\* (sync_to_kong beside ensure_service).
THEOREM DeploysConverge == GatewaySpec => []Converged
<1>1. DeployInv => Converged
  BY ConvergedFromKnowing DEF DeployInv
<1> QED
  BY <1>1, QuietDeploysKnowKong, PTL

\* The plan an undisturbed --dry-run prints on a gateway that is being onboarded is
\* what differs from Kong.
THEOREM GatewayPlansPredict == GatewaySpec => []DryRunPredicts
<1>1. DeployInv => DryRunPredicts
  BY PredictedFromKnowing DEF DeployInv
<1> QED
  BY <1>1, QuietDeploysKnowKong, PTL

\* On such a gateway a dry run reaches no request that writes, and a run that was
\* not forced deletes no more than its limit (sync_to_kong, prune_routes).
THEOREM GatewayRunsStayInBounds == GatewaySpec => [](DryRunWritesNothing /\ PruneWithinLimit)
<1>1. DeployInv => DryRunWritesNothing /\ PruneWithinLimit
  BY LimitFromPruneInv DEF DeployInv, Basics
<1> QED
  BY <1>1, QuietDeploysKnowKong, PTL

\* What WritesOnlyDrift, PruneSparesDeclared and NeverAddsSecondRewriter of KongLate
\* say of one run.
DriftOnly(c) ==
    /\ UpdateRoute(c) \/ DropObsolete(c) \/ UpdateRewrite(c) \/ DeleteOrphan(c)
          => <<routes, plugins>>' # <<routes, plugins>>
    /\ DeleteOrphan(c)
          => \A n \in RouteName : routes'[n] # routes[n] => n \in LiveOrphans(c)
    /\ CreateRewrite(c)
          => \A n \in RouteName : \/ Rewriters(n)' \subseteq Rewriters(n)
                                  \/ Cardinality(Rewriters(n)') = 1

\* A deployment on a gateway that is being onboarded writes to something that
\* exists only when it differs from its image, deletes only what is an orphan of
\* its service at that moment, and gives no route a second plugin that rewrites its
\* path, as long as nobody has written behind it (_sync_route,
\* _apply_rewrite_plugin, prune_routes).
THEOREM DeploysWriteOnlyDrift ==
    GatewaySpec => [][\A c \in quiet \cap Sync : DriftOnly(c)]_gvars
<1>1. DeployInv => [\A c \in quiet \cap Sync : DriftOnly(c)]_gvars
  <2> SUFFICES ASSUME DeployInv, NEW c \in Sync, c \in quiet PROVE DriftOnly(c)
    OBVIOUS
  <2>1. Basics /\ MemoTrue(c) /\ Knows(c)
    BY DEF DeployInv, QuietMemories, QuietRunsKnow
  <2>2. UpdateRoute(c) \/ DropObsolete(c) \/ UpdateRewrite(c)
           => <<routes, plugins>>' # <<routes, plugins>>
    <3> SUFFICES ASSUME UpdateRoute(c) \/ DropObsolete(c) \/ UpdateRewrite(c)
                 PROVE  <<routes, plugins>>' # <<routes, plugins>>
      OBVIOUS
    <3>1. PICK n \in RouteName : n = Cur(c).name
      BY <2>1, InLoop DEF LoopStep
    <3> QED
      BY <2>1, <3>1, PatchChanges, DropChanges, PatchPluginChanges DEF Knows
  <2>3. DeleteOrphan(c) =>
           /\ routes' # routes
           /\ \A n \in RouteName : routes'[n] # routes[n] => n \in LiveOrphans(c)
    BY <2>1, DeleteChanges
  <2>4. CreateRewrite(c)
          => \A n \in RouteName : \/ Rewriters(n)' \subseteq Rewriters(n)
                                  \/ Cardinality(Rewriters(n)') = 1
    BY <2>1, CreateAddsOne
  <2> QED
    BY <2>2, <2>3, <2>4 DEF DriftOnly
<1> QED
  BY <1>1, QuietDeploysKnowKong, PTL DEF GatewaySpec

-----------------------------------------------------------------------------
(* Runs that share a gateway.  The memo of missing services is the one     *)
(* thing an onboarding can make untrue behind a run, so the job has to be  *)
(* onboarded before it is deployed.                                        *)

\* A service some image of the job sends a route to, or its own.
Aimed(c, s) ==
    \/ s = SyncService[c]
    \/ \E im \in Images[c] : \E i \in DOMAIN im : s = TargetOf(c, im[i])

Onboarded(c) == \A k \in Initially : \A s \in Service : Aimed(c, s) => k.services[s] # Absent

\* What a job that was onboarded knows of its own routes.
KnowsItsOwn(c) ==
    /\ \A s \in Service : Aimed(c, s) => Registered(s)
    /\ \A s \in Service : sids[c][s] # Unread => Aimed(c, s)
    /\ MemoTrue(c)
    /\ \A n \in AllowName : Private(c, n) => KnowsRoute(c, n)

SharedInv == DeployInv /\ Apart /\ \A c \in Sync : Onboarded(c) => KnowsItsOwn(c)

\* The services a run sends its routes to are known before it starts.
LEMMA DeclaredAimed ==
    ASSUME TypeOK, NEW c \in Sync, NEW i \in DOMAIN image[c]
    PROVE  Aimed(c, TargetOf(c, image[c][i])) /\ TargetOf(c, image[c][i]) \in Service
<1>1. image[c] \in Images[c]
  BY DEF TypeOK
<1> QED
  BY <1>1, DeclaredTyped DEF Aimed

\* A run looks up no service but those its image names.
LEMMA LooksUpAimed ==
    ASSUME TypeOK, NEW c \in Sync, \A s \in Service : sids[c][s] # Unread => Aimed(c, s),
           NEW d \in Sync, SyncMoves(d)
    PROVE  \A s \in Service : sids'[c][s] # Unread => Aimed(c, s)
<1> USE DEF SyncMoves
<1>1. CASE c # d
  <2>1. sids'[c] = sids[c]
    BY <1>1, OthersLeaveMemory DEF MemoryKept
  <2> QED
    BY <2>1
<1>2. ASSUME c = d, at[c] \in DOMAIN image[c], Memoized(c, TargetOf(c, Cur(c)))
      PROVE  \A s \in Service : sids'[c][s] # Unread => Aimed(c, s)
  <2>1. Aimed(c, TargetOf(c, Cur(c)))
    BY <1>2, DeclaredAimed DEF Cur
  <2>2. \A s \in Service : s # TargetOf(c, Cur(c)) => sids'[c][s] = sids[c][s]
    BY <1>2 DEF Memoized, TypeOK
  <2> QED
    BY <2>1, <2>2
<1>3. ASSUME c = d, ExamineInSync(c) \/ ExamineDrift(c)
      PROVE  \A s \in Service : sids'[c][s] # Unread => Aimed(c, s)
  BY <1>2, <1>3, ExaminingInLoop DEF ExamineInSync, ExamineDrift
<1>4. ASSUME c = d, SkipPrune(c) \/ PlanPrune(c) \/ EndPrune(c) \/ Fail(c)
      PROVE  \A s \in Service : sids'[c][s] # Unread => Aimed(c, s)
  <2>1. Forgotten(c)
    BY <1>4 DEF SkipPrune, PlanPrune, EndPrune, Fail, Finish
  <2> QED
    BY <2>1 DEF Forgotten, NoMemo, TypeOK
<1>5. ASSUME c = d,
             \/ Start(c) \/ ListRoutes(c) \/ ListPlugins(c) \/ ExamineMissing(c) \/ CreateRoute(c)
             \/ UpdateRoute(c) \/ DropObsolete(c) \/ KeepRewrite(c) \/ UpdateRewrite(c)
             \/ CreateRewrite(c) \/ BeginPrune(c) \/ DeleteOrphan(c)
      PROVE  UNCHANGED sids
  BY <1>5 DEF Start, ListRoutes, ListPlugins, ExamineMissing, CreateRoute, UpdateRoute,
              DropObsolete, KeepRewrite, UpdateRewrite, CreateRewrite, BeginPrune, DeleteOrphan
<1> QED
  BY <1>1, <1>3, <1>4, <1>5 DEF Step, RefusePrune, Refused, Crash

\* A run knows what it knew of a route when others register services, so long as
\* its own were registered before.
LEMMA RouteFrameOnboarding ==
    ASSUME TypeOK, NEW c \in Sync, NEW n, KnowsRoute(c, n), MemoryKept(c), Untouched(n),
           \A i \in DOMAIN image[c] :
              Registered(TargetOf(c, image[c][i])) /\ Registered(TargetOf(c, image[c][i]))'
    PROVE  KnowsRoute(c, n)'
<1> USE DEF MemoryKept
<1>1. /\ PluginsOf(n)' = PluginsOf(n) /\ routes'[n] = routes[n]
      /\ HeldOn(c, n)' = HeldOn(c, n)
      /\ Cur(c)' = Cur(c) /\ Prior(c)' = Prior(c) /\ Held(c)' = Held(c)
      /\ Settled(c)' = Settled(c)
      /\ \A r : TargetOf(c, r)' = TargetOf(c, r) /\ Payload(c, r)' = Payload(c, r)
  BY DEF Untouched, HeldOn, Cur, Prior, Held, Settled, TargetOf, Payload
<1>2. Pending(c)' = Pending(c) /\ AsRead(c, n)' = AsRead(c, n)
  BY <1>1 DEF Pending, AsRead
<1>3. \A r : r.name = n => ServedAsDeclared(c, r)' = ServedAsDeclared(c, r)
  BY ServedFrame
<1>4. ASSUME pc[c] \in {"patch", "plugin"}
      PROVE  /\ Registered(TargetOf(c, Cur(c))) /\ Registered(TargetOf(c, Cur(c)))'
             /\ RouteDiverged(c)' = RouteDiverged(c)
             /\ Cur(c).name = n => FieldsAsDeclared(c, Cur(c))' = FieldsAsDeclared(c, Cur(c))
  <2>1. at[c] \in DOMAIN image[c]
    BY <1>4 DEF TypeOK
  <2>2. Registered(TargetOf(c, Cur(c))) /\ Registered(TargetOf(c, Cur(c)))'
    BY <2>1 DEF Cur
  <2>3. ServiceId(c, TargetOf(c, Cur(c)))' = ServiceId(c, TargetOf(c, Cur(c)))
    BY <1>1, <2>2 DEF ServiceId
  <2> QED
    BY <1>1, <2>2, <2>3 DEF RouteDiverged, FieldsAsDeclared
<1>5. Reading(c, n)' /\ Ahead(c, n)'
  BY <1>1, <1>2 DEF KnowsRoute, Reading, Ahead
<1>6. Writing(c, n)'
  BY <1>1, <1>4 DEF KnowsRoute, Writing
<1>7. Behind(c, n)'
  <2>1. Settled(c) \subseteq DOMAIN image[c]
    BY DEF Settled
  <2> QED
    BY <1>1, <1>3, <2>1 DEF KnowsRoute, Behind
<1> QED
  BY <1>5, <1>6, <1>7 DEF KnowsRoute

\* An onboarding writes no route a job declares, and the services of an onboarded job
\* are registered before and after it.
LEMMA OnboardingKeepsItsOwn ==
    ASSUME DeployInv, NEW c \in Sync, KnowsItsOwn(c), NEW e \in Ensure, EnsureMoves(e),
           UNCHANGED local
    PROVE  KnowsItsOwn(c)'
<1>1. TypeOK /\ Sound /\ GatewayInv
  BY DEF DeployInv, GatewayInv, Basics
<1>2. \A s \in Service : Aimed(c, s) => Registered(s) /\ Registered(s)'
  BY <1>1, EnsureKeepsServices DEF KnowsItsOwn
<1>3. \A s \in Service : sids'[c][s] # Unread => Aimed(c, s)
  BY DEF KnowsItsOwn, local
<1>4. MemoTrue(c)'
  <2> SUFFICES ASSUME NEW s \in Service
               PROVE  sids'[c][s] \in {Unread, IF Registered(s)' THEN s ELSE Absent}
    BY DEF MemoTrue
  <2>1. sids' = sids /\ sids[c][s] \in {Unread, IF Registered(s) THEN s ELSE Absent}
    BY DEF local, KnowsItsOwn, MemoTrue
  <2>2. sids[c][s] # Unread => Registered(s) /\ Registered(s)'
    BY <1>2, <1>3, <2>1
  <2> QED
    BY <2>1, <2>2
<1>5. \A i \in DOMAIN image[c] :
         Registered(TargetOf(c, image[c][i])) /\ Registered(TargetOf(c, image[c][i]))'
  <2> SUFFICES ASSUME NEW i \in DOMAIN image[c]
               PROVE  /\ Registered(TargetOf(c, image[c][i]))
                      /\ Registered(TargetOf(c, image[c][i]))'
    OBVIOUS
  <2>1. image' = image /\ \A r : TargetOf(c, r)' = TargetOf(c, r)
    BY DEF local, TargetOf
  <2>2. PICK s \in Service : s = TargetOf(c, image[c][i]) /\ Aimed(c, s)
    BY <1>1, DeclaredAimed
  <2>3. Registered(s) /\ services'[s] # Absent
    BY <1>2, <2>2 DEF Registered
  <2> QED
    BY <2>1, <2>2, <2>3 DEF Registered
<1>6. MemoryKept(c)
  BY DEF local, MemoryKept
<1>7. ASSUME NEW n \in AllowName, Private(c, n) PROVE KnowsRoute(c, n)'
  <2>1. Untouched(n) /\ KnowsRoute(c, n)
    BY <1>1, <1>7, EnsureWritesBlock DEF KnowsItsOwn
  <2> QED
    BY <1>1, <1>5, <1>6, <2>1, RouteFrameOnboarding
<1> QED
  BY <1>2, <1>3, <1>4, <1>7 DEF KnowsItsOwn, Aimed, Private, TargetOf

\* No job unregisters a service or writes another's private routes.
LEMMA DeploymentKeepsItsOwn ==
    ASSUME DeployInv, Apart, NEW c \in Sync, KnowsItsOwn(c), NEW d \in Sync, SyncMoves(d)
    PROVE  KnowsItsOwn(c)'
<1>1. Basics /\ TypeOK /\ [Next]_vars
  BY DEF DeployInv, Basics, SyncMoves, Next
<1>2. UNCHANGED services /\ MemoTrue(c)'
  BY <1>1, BasicsNext DEF KnowsItsOwn
<1>3. \A s \in Service : Aimed(c, s) => Registered(s)'
  BY <1>2 DEF KnowsItsOwn, Registered
<1>4. \A s \in Service : sids'[c][s] # Unread => Aimed(c, s)
  BY <1>1, LooksUpAimed DEF KnowsItsOwn
<1>5. ASSUME NEW n \in AllowName, Private(c, n) PROVE KnowsRoute(c, n)'
  BY <1>1, <1>5, PrivateStaysKnown, AdminAssumption DEF KnowsItsOwn, SyncMoves
<1> QED
  BY <1>2, <1>3, <1>4, <1>5 DEF KnowsItsOwn, Aimed, Private, TargetOf

\* An onboarding makes nobody hold a private route: blocks are no allow-routes.
LEMMA OnboardingStaysApart ==
    ASSUME DeployInv, Apart, NEW e \in Ensure, EnsureMoves(e), UNCHANGED local
    PROVE  Apart'
<1>1. GatewayInv /\ Sound
  BY DEF DeployInv, Basics
<1>2. \A n \in AllowName : routes'[n] = routes[n]
  BY <1>1, EnsureWritesBlock DEF Untouched
<1>3. \A n \in RouteName, d \in Sync :
         IsManaged(n, routes'[n], SyncService[d], SyncPrefix[d]) <=>
         IsManaged(n, routes[n], SyncService[d], SyncPrefix[d])
  BY <1>2 DEF IsManaged
<1> QED
  BY <1>3 DEF Apart, Private, TargetOf, local

\* No Kong a job may find misses a service an onboarded job needs.
LEMMA SharedInvInit == GatewayInit => SharedInv
<1> SUFFICES ASSUME GatewayInit PROVE SharedInv
  OBVIOUS
<1>1. /\ Init /\ \A c \in Sync : sids[c] = NoMemo
      /\ \E k \in Initially : services = k.services
  BY DEF GatewayInit, Init, StartsAs
<1>2. PrivateInv
  BY <1>1, PrivateInit
<1>3. ASSUME NEW c \in Sync, Onboarded(c) PROVE KnowsItsOwn(c)
  <2>1. \A s \in Service : Aimed(c, s) => Registered(s)
    BY <1>1, <1>3 DEF Onboarded, Registered
  <2> QED
    BY <1>1, <1>2, <2>1, AdminAssumption
    DEF PrivateInv, PrivateKnown, Memories, KnowsItsOwn, NoMemo
<1> QED
  BY <1>2, <1>3, DeployInvInit DEF SharedInv, PrivateInv

LEMMA SharedInvNext == SharedInv /\ [GatewayNext]_gvars => SharedInv'
<1> SUFFICES ASSUME SharedInv, [GatewayNext]_gvars PROVE SharedInv'
  OBVIOUS
<1>1. DeployInv /\ Apart /\ DeployInv'
  BY DeployInvNext DEF SharedInv
<1>2. \A c \in Sync : Onboarded(c)' => Onboarded(c)
  BY DEF Onboarded, Aimed, TargetOf
<1>3. ASSUME NEW d \in Sync, SyncMoves(d) PROVE SharedInv'
  <2>1. Apart'
    BY <1>1, <1>3, ApartNext DEF DeployInv, SyncMoves, Next
  <2> QED
    BY <1>1, <1>2, <1>3, <2>1, DeploymentKeepsItsOwn DEF SharedInv
<1>4. ASSUME NEW e \in Ensure, EnsureMoves(e), UNCHANGED local PROVE SharedInv'
  BY <1>1, <1>2, <1>4, OnboardingKeepsItsOwn, OnboardingStaysApart DEF SharedInv
<1>5. CASE UNCHANGED gvars
  <2>1. UNCHANGED vars /\ UNCHANGED services /\ UNCHANGED sids /\ Basics
    BY <1>1, <1>5 DEF gvars, vars, kong, local, DeployInv
  <2>2. Apart' /\ \A c \in Sync : MemoTrue(c) => MemoTrue(c)'
    BY <1>1, <2>1, ApartNext, BasicsNext
  <2>3. ASSUME NEW c \in Sync, KnowsItsOwn(c) PROVE KnowsItsOwn(c)'
    <3>1. MemoryKept(c) /\ \A n : Untouched(n)
      BY <2>1 DEF vars, kong, local, MemoryKept, Untouched, PluginsOf
    <3>2. \A n \in AllowName : Private(c, n) => KnowsRoute(c, n)'
      BY <2>1, <2>3, <3>1, RouteFrame DEF KnowsItsOwn
    <3> QED
      BY <2>1, <2>2, <2>3, <3>2 DEF KnowsItsOwn, Aimed, Private, TargetOf, Registered
  <2> QED
    BY <1>1, <1>2, <2>2, <2>3 DEF SharedInv
<1> QED
  BY <1>3, <1>4, <1>5 DEF GatewayNext, Next, EnsureNext, SyncMoves, EnsureMoves

\* The deployments of an onboarded service leave the routes only it declares served
\* as declared, whatever is deployed and onboarded beside them on the gateway
\* (sync_to_kong, ensure_service and ensure_default_block).
THEOREM OnboardedRoutesConverge ==
    GatewaySpec =>
        [](\A c \in Sync : Onboarded(c) /\ pc[c] = "done" /\ ~opts[c].dry =>
              \A i \in DOMAIN image[c] :
                 Private(c, image[c][i].name) => ServedAsDeclared(c, image[c][i]))
<1> DEFINE Deployed == \A c \in Sync : Onboarded(c) /\ pc[c] = "done" /\ ~opts[c].dry =>
              \A i \in DOMAIN image[c] :
                 Private(c, image[c][i].name) => ServedAsDeclared(c, image[c][i])
<1>1. SharedInv => Deployed
  <2> SUFFICES ASSUME SharedInv, NEW c \in Sync, Onboarded(c), pc[c] = "done", ~opts[c].dry,
                      NEW i \in DOMAIN image[c], Private(c, image[c][i].name)
               PROVE  ServedAsDeclared(c, image[c][i])
    OBVIOUS
  <2>1. TypeOK /\ KnowsItsOwn(c)
    BY DEF SharedInv, DeployInv, Basics
  <2>2. /\ Registered(TargetOf(c, image[c][i])) /\ image[c][i].name \in AllowName
    BY <2>1, DeclaredAimed, DeclaredTyped DEF KnowsItsOwn
  <2>3. KnowsRoute(c, image[c][i].name)
    BY <2>1, <2>2 DEF KnowsItsOwn
  <2> QED
    BY <2>2, <2>3 DEF KnowsRoute, Behind, Settled
<1> HIDE DEF Deployed
<1>2. GatewaySpec => []Deployed
  BY <1>1, SharedInvInit, SharedInvNext, PTL DEF GatewaySpec
<1> QED
  BY <1>2 DEF Deployed

-----------------------------------------------------------------------------
(* Who writes what.                                                        *)

\* Only the jobs change the allow-routes, and leave the plugins on them that
\* rewrite nothing; of the other routes only the blocks change, by their commands,
\* and so do the services.
WritesItsOwn ==
    /\ \A n \in RouteName : ~Untouched(n) =>
          IF n \in AllowName THEN UNCHANGED elocal
          ELSE UNCHANGED local /\ \E e \in Ensure : n = BlockName[e]
    /\ \A n \in AllowName : routes[n] # Absent /\ routes'[n] # Absent =>
          {p \in PluginsOf(n) : p.name \notin Rewriter} \subseteq plugins'
    /\ services' # services => UNCHANGED local

\* Whatever the interleaving, no job touches a default block or a hand-made route,
\* and no command touches a route a service declares (_is_managed_route,
\* ensure_default_block).
THEOREM EachWritesItsOwn == GatewaySpec => [][WritesItsOwn]_gvars
<1>1. DeployInv /\ [GatewayNext]_gvars => WritesItsOwn
  <2> SUFFICES ASSUME DeployInv, [GatewayNext]_gvars PROVE WritesItsOwn
    OBVIOUS
  <2>1. TypeOK /\ Stable /\ Sound /\ GatewayInv /\ AllowName \subseteq RouteName
    BY AdminAssumption DEF DeployInv, Basics
  <2>2. CASE [Next]_vars /\ UNCHANGED elocal
    <3>1. Kept /\ services' = services
      BY <2>1, <2>2, KeptNext, SyncKeepsServices
    <3> QED
      BY <2>1, <2>2, <3>1 DEF Kept, WritesItsOwn, Untouched
  <2>3. ASSUME NEW e \in Ensure, EnsureMoves(e), UNCHANGED local PROVE WritesItsOwn
    <3>1. /\ \A n \in RouteName \ {BlockName[e]} : Untouched(n)
          /\ \A n \in AllowName : Untouched(n)
      BY <2>1, <2>3, EnsureWritesBlock
    <3>2. \A n \in AllowName : PluginsOf(n) \subseteq plugins'
      BY <3>1 DEF Untouched, PluginsOf
    <3> QED
      BY <2>3, <3>1, <3>2 DEF WritesItsOwn
  <2>4. CASE UNCHANGED gvars
    BY <2>2, <2>4 DEF gvars
  <2> QED
    BY <2>2, <2>3, <2>4 DEF GatewayNext, EnsureNext, EnsureMoves
<1> QED
  BY <1>1, QuietDeploysKnowKong, PTL DEF GatewaySpec
=============================================================================
