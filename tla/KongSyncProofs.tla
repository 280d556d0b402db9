----------------------------- MODULE KongSyncProofs -----------------------------
(***************************************************************************)
(* Theorems about KongSync for any number of jobs, routes, images and      *)
(* starts, checked by TLAPS.                                               *)
(***************************************************************************)
EXTENDS KongSync, FiniteSetTheorems, TLAPS

-----------------------------------------------------------------------------
(* Kong stays well typed under every request. *)

RouteFields == [service : Service \cup {Absent}, paths : SUBSET Path,
                methods : SUBSET Method, strip_path : BOOLEAN, tags : SUBSET Tag]

LEMMA PostRouteTyped ==
    ASSUME KongTypeOK, NEW c, NEW n \in RouteName, NEW r \in RouteFields, PostRoute(c, n, r)
    PROVE  KongTypeOK'
BY DEF KongTypeOK, PostRoute, RouteFields, Route, Wrote

LEMMA PatchRouteTyped ==
    ASSUME KongTypeOK, NEW c, NEW n \in RouteName, NEW r \in RouteFields, PatchRoute(c, n, r)
    PROVE  KongTypeOK'
<1>1. routes[n] \in Route
  BY DEF KongTypeOK, PatchRoute, CanPatchRoute
<1> QED
  BY <1>1 DEF KongTypeOK, PatchRoute, RouteFields, Route, Wrote

LEMMA DeleteRouteTyped ==
    ASSUME KongTypeOK, NEW c, NEW n \in RouteName, DeleteRoute(c, n)
    PROVE  KongTypeOK'
BY DEF KongTypeOK, DeleteRoute, PluginsOf, Wrote

LEMMA PostPluginTyped ==
    ASSUME KongTypeOK, NEW c, NEW n \in RouteName, NEW name \in PluginName,
           NEW config \in Config, PostPlugin(c, n, name, config)
    PROVE  KongTypeOK'
<1>1. routes[n] \in Route
  BY DEF KongTypeOK, PostPlugin, CanPostPlugin
<1> QED
  BY <1>1 DEF KongTypeOK, PostPlugin, Plugin, Route, Wrote

LEMMA PatchPluginTyped ==
    ASSUME KongTypeOK, NEW c, NEW id, NEW config \in Config, PatchPlugin(c, id, config)
    PROVE  KongTypeOK'
<1>1. \A p \in Plugin : [p EXCEPT !.config = config] \in Plugin
  BY DEF Plugin
<1> QED
  BY <1>1 DEF KongTypeOK, PatchPlugin, Wrote

LEMMA DeletePluginTyped ==
    ASSUME KongTypeOK, NEW c, NEW id, DeletePlugin(c, id)
    PROVE  KongTypeOK'
BY DEF KongTypeOK, DeletePlugin, Wrote

-----------------------------------------------------------------------------
(* What a job computes from well-typed state is well typed. *)

LEMMA CurTyped ==
    ASSUME TypeOK, NEW c \in Sync, at[c] \in DOMAIN image[c]
    PROVE  /\ Cur(c) \in Desired
           /\ Payload(c, Cur(c)) \in RouteFields
           /\ Want(c).name \in PluginName
           /\ Want(c).config \in Config
<1>1. image[c] \in Images[c] /\ image[c] \in Seq(Desired)
  BY SyncAssumption DEF TypeOK
<1>2. Cur(c) \in Desired
  BY <1>1 DEF Cur
<1>3. Payload(c, Cur(c)) \in RouteFields
  BY <1>2, SyncAssumption, VocabularyAssumption
  DEF Payload, RouteFields, Desired, TargetOf
<1>4. Want(c).config \in Config
  BY <1>1, VocabularyAssumption DEF Want, Cur
<1>5. Want(c).name \in PluginName
  <2>1. Cur(c).mode \in {"static_uri", "strip_prefix", "alias_captures"} /\ Cur(c).params \in BOOLEAN
    BY <1>2 DEF Desired
  <2> QED
    BY <2>1, SyncAssumption
    DEF Want, DesiredRewrite, ReplaceUri, StripPrefix, CaptureRewrite, Rewriter
<1> QED
  BY <1>2, <1>3, <1>4, <1>5

LEMMA ServiceIdTyped ==
    ASSUME TypeOK, NEW c \in Sync, NEW s \in Service
    PROVE  ServiceId(c, s) \in Service \cup {Absent}
BY DEF TypeOK, ServiceId, Registered

LEMMA PruneNamesTyped ==
    ASSUME NEW c \in Sync
    PROVE  PruneNames(c) \subseteq AllowName
BY DEF PruneNames, Owned, IsManaged

ReportType == [created : SUBSET AllowName, updated : SUBSET AllowName,
               skipped : SUBSET AllowName, deleted : SUBSET AllowName]

LEMMA ReportTyped ==
    ASSUME TypeOK, NEW c \in Sync, NEW n \in AllowName,
           NEW list \in {"created", "updated", "skipped", "deleted"}, Report(c, list, n)
    PROVE  report' \in [Sync -> ReportType]
<1>1. report \in [Sync -> ReportType] /\ report[c] \in ReportType
  BY DEF TypeOK, ReportType
<1>2. [report[c] EXCEPT ![list] = @ \cup {n}] \in ReportType
  BY <1>1 DEF ReportType
<1>3. report' = [report EXCEPT ![c] = [report[c] EXCEPT ![list] = @ \cup {n}]]
  BY DEF Report
<1> QED
  BY <1>1, <1>2, <1>3

Place == Rest \cup {"list_routes", "list_plugins", "examine", "create", "patch",
                    "plugin", "prune"}

\* The end of a loop body keeps the types of what it changes.
LEMMA NextRouteTyped ==
    ASSUME TypeOK, NEW c \in Sync, at[c] \in DOMAIN image[c],
           NEW list \in {"created", "updated", "skipped"}, NextRoute(c, list)
    PROVE  /\ pc' = [pc EXCEPT ![c] = "examine"]
           /\ pc' \in [Sync -> Place]
           /\ at' \in [Sync -> Nat \ {0}]
           /\ at' = [at EXCEPT ![c] = @ + 1]
           /\ report' \in [Sync -> ReportType]
<1>1. Cur(c).name \in AllowName
  BY CurTyped DEF Desired
<1>2. report' \in [Sync -> ReportType]
  BY <1>1, ReportTyped DEF NextRoute
<1>3. pc' = [pc EXCEPT ![c] = "examine"] /\ pc' \in [Sync -> Place]
  BY DEF NextRoute, Goto, TypeOK, Place
<1>4. at' = [at EXCEPT ![c] = @ + 1] /\ at' \in [Sync -> Nat \ {0}]
  BY DEF NextRoute, TypeOK
<1> QED
  BY <1>2, <1>3, <1>4

LEMMA ExaminingInLoop ==
    ASSUME TypeOK, NEW c \in Sync, Examining(c)
    PROVE  at[c] \in DOMAIN image[c]
<1>1. image[c] \in Images[c] \cup {<<>>} /\ Images[c] \in SUBSET Seq(Desired)
  BY SyncAssumption DEF TypeOK
<1>2. <<>> \in Seq(Desired)
  OBVIOUS
<1>3. image[c] \in Seq(Desired)
  BY <1>1, <1>2
<1>4. at[c] \in Nat \ {0} /\ at[c] <= Len(image[c])
  BY DEF Examining, TypeOK
<1> QED
  BY <1>3, <1>4

LEMMA MemoizedTyped ==
    ASSUME TypeOK, NEW c \in Sync, at[c] \in DOMAIN image[c], Memoized(c, TargetOf(c, Cur(c)))
    PROVE  sids' \in [Sync -> [Service -> Service \cup {Absent, Unread}]]
<1>1. TargetOf(c, Cur(c)) \in Service
  BY CurTyped, SyncAssumption DEF TargetOf, Desired
<1> QED
  BY <1>1, ServiceIdTyped DEF Memoized, TypeOK

\* The locals of a run that ends are well typed again.
LEMMA FinishTyped ==
    ASSUME TypeOK, NEW c \in Sync, Finish(c), report' \in [Sync -> ReportType]
    PROVE  TypeOK'
<1>1. KongTypeOK'
  BY DEF Finish, TypeOK, KongTypeOK, kong
<1>2. /\ pc' = [pc EXCEPT ![c] = "done"] /\ at' = [at EXCEPT ![c] = 1]
      /\ pc' \in [Sync -> Place] /\ at' \in [Sync -> Nat \ {0}]
  BY DEF Finish, Forgotten, Goto, TypeOK, Place, Rest
<1>3. /\ snap' \in [Sync -> [RouteName -> Route \cup {Absent}]]
      /\ plugged' \in [Sync -> SUBSET Plugin]
      /\ sids' \in [Sync -> [Service -> Service \cup {Absent, Unread}]]
      /\ orphans' \in [Sync -> SUBSET AllowName]
  BY DEF Finish, Forgotten, TypeOK, NoMemo
<1> QED
  BY <1>1, <1>2, <1>3 DEF Finish, TypeOK, Place, ReportType

-----------------------------------------------------------------------------
(* Type correctness. *)

LEMMA TypeInit ==
    ASSUME Init
    PROVE  TypeOK
<1>1. KongTypeOK
  BY SyncAssumption DEF Init, StartsAs, KongTypeOK, Kong
<1> QED
  BY <1>1, SyncAssumption DEF Init, TypeOK, Rest, Option, NoMemo, NoReport

LEMMA TypeNext ==
    ASSUME TypeOK, [Next]_vars
    PROVE  TypeOK'
<1>1. CASE UNCHANGED vars
  BY <1>1 DEF vars, local, kong, TypeOK, KongTypeOK
<1>2. ASSUME NEW c \in Sync, Start(c) PROVE TypeOK'
  <2>1. Images[c] \in SUBSET Seq(Desired) /\ Options \subseteq Option /\ c \in Client
    BY SyncAssumption
  <2> QED
    BY <1>2, <2>1 DEF Start, TypeOK, KongTypeOK, Rest, Goto, Began, NoReport
<1>3. ASSUME NEW c \in Sync, ListRoutes(c) PROVE TypeOK'
  BY <1>3 DEF ListRoutes, Goto, TypeOK, KongTypeOK, kong, Rest
<1>4. ASSUME NEW c \in Sync, ListPlugins(c) PROVE TypeOK'
  BY <1>4 DEF ListPlugins, Goto, TypeOK, KongTypeOK, kong, Rest
<1>5. ASSUME NEW c \in Sync, ExamineMissing(c) PROVE TypeOK'
  <2>1. at[c] \in DOMAIN image[c]
    BY <1>5, ExaminingInLoop DEF ExamineMissing
  <2>2. CASE opts[c].dry
    BY <1>5, <2>1, <2>2, NextRouteTyped
    DEF ExamineMissing, TypeOK, KongTypeOK, kong, Place, ReportType
  <2>3. CASE ~opts[c].dry
    BY <1>5, <2>1, <2>3 DEF ExamineMissing, Goto, TypeOK, KongTypeOK, kong, Rest
  <2> QED
    BY <2>2, <2>3
<1>6. ASSUME NEW c \in Sync, ExamineInSync(c) PROVE TypeOK'
  <2>1. at[c] \in DOMAIN image[c]
    BY <1>6, ExaminingInLoop DEF ExamineInSync
  <2>2. sids' \in [Sync -> [Service -> Service \cup {Absent, Unread}]]
    BY <1>6, <2>1, MemoizedTyped DEF ExamineInSync
  <2> QED
    BY <1>6, <2>1, <2>2, NextRouteTyped
    DEF ExamineInSync, TypeOK, KongTypeOK, kong, Place, ReportType
<1>7. ASSUME NEW c \in Sync, ExamineDrift(c) PROVE TypeOK'
  <2>1. at[c] \in DOMAIN image[c]
    BY <1>7, ExaminingInLoop DEF ExamineDrift
  <2>2. sids' \in [Sync -> [Service -> Service \cup {Absent, Unread}]]
    BY <1>7, <2>1, MemoizedTyped DEF ExamineDrift
  <2>3. CASE opts[c].dry
    BY <1>7, <2>1, <2>2, <2>3, NextRouteTyped
    DEF ExamineDrift, TypeOK, KongTypeOK, kong, Place, ReportType
  <2>4. CASE ~opts[c].dry
    BY <1>7, <2>1, <2>2, <2>4 DEF ExamineDrift, Goto, TypeOK, KongTypeOK, kong, Rest
  <2> QED
    BY <2>3, <2>4
<1>8. ASSUME NEW c \in Sync, CreateRoute(c) PROVE TypeOK'
  <2>1. at[c] \in DOMAIN image[c]
    BY <1>8 DEF CreateRoute, TypeOK
  <2>2. KongTypeOK'
    BY <1>8, <2>1, CurTyped, PostRouteTyped, SyncAssumption, AdminAssumption
    DEF CreateRoute, TypeOK, Desired
  <2> QED
    BY <1>8, <2>1, <2>2 DEF CreateRoute, Goto, TypeOK, Rest
<1>9. ASSUME NEW c \in Sync, UpdateRoute(c) PROVE TypeOK'
  <2>1. at[c] \in DOMAIN image[c]
    BY <1>9 DEF UpdateRoute, TypeOK
  <2>2. KongTypeOK'
    BY <1>9, <2>1, CurTyped, PatchRouteTyped, SyncAssumption, AdminAssumption
    DEF UpdateRoute, TypeOK, Desired
  <2>3. CASE PluginDiverged(c)
    BY <1>9, <2>1, <2>2, <2>3 DEF UpdateRoute, Goto, TypeOK, Rest
  <2>4. CASE ~PluginDiverged(c)
    BY <1>9, <2>1, <2>2, <2>4, NextRouteTyped
    DEF UpdateRoute, TypeOK, Place, ReportType
  <2> QED
    BY <2>3, <2>4
<1>10. ASSUME NEW c \in Sync, DropObsolete(c) PROVE TypeOK'
  <2>1. KongTypeOK'
    BY <1>10, DeletePluginTyped DEF DropObsolete, TypeOK
  <2> QED
    BY <1>10, <2>1 DEF DropObsolete, TypeOK, Rest
<1>11. ASSUME NEW c \in Sync, KeepRewrite(c) PROVE TypeOK'
  <2>1. at[c] \in DOMAIN image[c] /\ Outcome(c) \in {"created", "updated", "skipped"}
    BY <1>11 DEF KeepRewrite, ReadyToWrite, TypeOK, Outcome
  <2>2. /\ pc' = [pc EXCEPT ![c] = "examine"] /\ pc' \in [Sync -> Place]
        /\ at' = [at EXCEPT ![c] = @ + 1] /\ at' \in [Sync -> Nat \ {0}]
        /\ report' \in [Sync -> ReportType]
    BY <1>11, <2>1, NextRouteTyped DEF KeepRewrite
  <2> QED
    BY <1>11, <2>1, <2>2 DEF KeepRewrite, TypeOK, KongTypeOK, kong, Place, ReportType
<1>12. ASSUME NEW c \in Sync, UpdateRewrite(c) PROVE TypeOK'
  <2>1. at[c] \in DOMAIN image[c] /\ Outcome(c) \in {"created", "updated", "skipped"}
    BY <1>12 DEF UpdateRewrite, ReadyToWrite, TypeOK, Outcome
  <2>2. KongTypeOK'
    BY <1>12, <2>1, CurTyped, PatchPluginTyped DEF UpdateRewrite, TypeOK
  <2>3. /\ pc' = [pc EXCEPT ![c] = "examine"] /\ pc' \in [Sync -> Place]
        /\ at' = [at EXCEPT ![c] = @ + 1] /\ at' \in [Sync -> Nat \ {0}]
        /\ report' \in [Sync -> ReportType]
    BY <1>12, <2>1, NextRouteTyped DEF UpdateRewrite
  <2> QED
    BY <1>12, <2>1, <2>2, <2>3 DEF UpdateRewrite, TypeOK, Place, ReportType
<1>13. ASSUME NEW c \in Sync, CreateRewrite(c) PROVE TypeOK'
  <2>1. at[c] \in DOMAIN image[c] /\ Outcome(c) \in {"created", "updated", "skipped"}
    BY <1>13 DEF CreateRewrite, ReadyToWrite, TypeOK, Outcome
  <2>2. KongTypeOK'
    BY <1>13, <2>1, CurTyped, PostPluginTyped, AdminAssumption
    DEF CreateRewrite, TypeOK, Desired
  <2>3. /\ pc' = [pc EXCEPT ![c] = "examine"] /\ pc' \in [Sync -> Place]
        /\ at' = [at EXCEPT ![c] = @ + 1] /\ at' \in [Sync -> Nat \ {0}]
        /\ report' \in [Sync -> ReportType]
    BY <1>13, <2>1, NextRouteTyped DEF CreateRewrite
  <2> QED
    BY <1>13, <2>1, <2>2, <2>3 DEF CreateRewrite, TypeOK, Place, ReportType
<1>14. ASSUME NEW c \in Sync, SkipPrune(c) PROVE TypeOK'
  BY <1>14, FinishTyped DEF SkipPrune, TypeOK, Finish, ReportType
<1>15. ASSUME NEW c \in Sync, PlanPrune(c) PROVE TypeOK'
  <2>1. report' \in [Sync -> ReportType]
    BY <1>15, PruneNamesTyped DEF PlanPrune, TypeOK, ReportType
  <2> QED
    BY <1>15, <2>1, FinishTyped DEF PlanPrune
<1>16. ASSUME NEW c \in Sync, BeginPrune(c) PROVE TypeOK'
  BY <1>16, PruneNamesTyped DEF BeginPrune, Goto, TypeOK, KongTypeOK, kong, Rest
<1>17. ASSUME NEW c \in Sync, DeleteOrphan(c) PROVE TypeOK'
  <2>1. PICK n \in orphans[c] : DeleteRoute(c, n) /\ Report(c, "deleted", n)
                                /\ orphans' = [orphans EXCEPT ![c] = @ \ {n}]
    BY <1>17 DEF DeleteOrphan
  <2>2. n \in AllowName /\ n \in RouteName
    BY <2>1, AdminAssumption DEF TypeOK
  <2>3. KongTypeOK' /\ report' \in [Sync -> ReportType]
    BY <2>1, <2>2, DeleteRouteTyped, ReportTyped DEF TypeOK
  <2> QED
    BY <1>17, <2>1, <2>3 DEF DeleteOrphan, TypeOK, ReportType, Rest
<1>18. ASSUME NEW c \in Sync, EndPrune(c) PROVE TypeOK'
  BY <1>18, FinishTyped DEF EndPrune, TypeOK, ReportType
<1>19. ASSUME NEW c \in Sync, Fail(c) PROVE TypeOK'
  BY <1>19 DEF Fail, Forgotten, Goto, TypeOK, KongTypeOK, kong, Rest, NoMemo, NoReport
<1> QED
  BY <1>1, <1>2, <1>3, <1>4, <1>5, <1>6, <1>7, <1>8, <1>9, <1>10, <1>11, <1>12, <1>13,
     <1>14, <1>15, <1>16, <1>17, <1>18, <1>19
  DEF Next, Step, RefusePrune, Refused, Crash

\* Every variable keeps its type and the loop index stays in the loop, for any
\* number of jobs, images and starts (sync_to_kong, prune_routes).
THEOREM TypeCorrect == Spec => []TypeOK
<1>1. Init => TypeOK
  BY TypeInit
<1>2. TypeOK /\ [Next]_vars => TypeOK'
  BY TypeNext
<1> QED
  BY <1>1, <1>2, PTL DEF Spec

-----------------------------------------------------------------------------
(* The identity of what a run has read.  A run works for minutes from ids  *)
(* and names it read at its beginning; what makes this safe for the routes *)
(* it does not own is that an id never comes to mean something else.       *)

\* Ids are given once, and no two live routes or plugins share one.
IdsUnique ==
    /\ \A n \in RouteName : routes[n] # Absent => routes[n].id < nextId
    /\ \A p \in plugins : p.id < nextId
    /\ \A m, n \in RouteName :
          routes[m] # Absent /\ routes[n] # Absent /\ routes[m].id = routes[n].id => m = n
    /\ \A p, q \in plugins : p.id = q.id => p = q

\* A route id a run has read belongs to the route of that name or to none.
SnapStable ==
    \A c \in Sync, n \in RouteName : snap[c][n] # Absent =>
        /\ snap[c][n].id < nextId
        /\ \A m \in RouteName : routes[m] # Absent /\ routes[m].id = snap[c][n].id => m = n

\* A plugin id a run has read is on the route, and of the kind, it was read with.
PluggedStable ==
    \A c \in Sync : \A p \in plugged[c] :
        /\ p.id < nextId
        /\ \A q \in plugins : q.id = p.id => q.route = p.route /\ q.name = p.name

Stable == IdsUnique /\ SnapStable /\ PluggedStable

\* What a run holds is what it held, or less.
HoldsLess ==
    \A c \in Sync :
        /\ \A n \in RouteName : snap'[c][n] # Absent => snap'[c][n] = snap[c][n]
        /\ plugged'[c] \subseteq plugged[c]

LEMMA StableIfUnwritten ==
    ASSUME Stable, HoldsLess, UNCHANGED <<routes, plugins, nextId>>
    PROVE  Stable'
BY DEF Stable, IdsUnique, SnapStable, PluggedStable, HoldsLess

LEMMA StableUnderPostRoute ==
    ASSUME Stable, TypeOK, HoldsLess, NEW c, NEW n \in RouteName, NEW r, PostRoute(c, n, r)
    PROVE  Stable'
<1>1. /\ \A m \in RouteName : m # n => routes'[m] = routes[m]
      /\ routes[n] = Absent /\ routes'[n].id = nextId
      /\ nextId' = nextId + 1 /\ nextId \in Nat /\ plugins' = plugins
  BY DEF PostRoute, CanPostRoute, TypeOK, KongTypeOK
<1>2. IdsUnique'
  <2>1. \A m \in RouteName : routes[m] # Absent => routes[m].id \in Nat
    BY DEF TypeOK, KongTypeOK, Route
  <2>2. \A p \in plugins : p.id \in Nat
    BY DEF TypeOK, KongTypeOK, Plugin
  <2> QED
    BY <1>1, <2>1, <2>2 DEF Stable, IdsUnique
<1>3. SnapStable'
  <2>1. \A d \in Sync, m \in RouteName : snap[d][m] # Absent => snap[d][m].id \in Nat
    BY DEF TypeOK, Route
  <2> QED
    BY <1>1, <2>1 DEF Stable, SnapStable, HoldsLess
<1>4. PluggedStable'
  <2>1. \A d \in Sync : \A p \in plugged[d] : p.id \in Nat
    BY DEF TypeOK, Plugin
  <2> QED
    BY <1>1, <2>1 DEF Stable, PluggedStable, HoldsLess
<1> QED
  BY <1>2, <1>3, <1>4 DEF Stable

LEMMA StableUnderPatchRoute ==
    ASSUME Stable, TypeOK, HoldsLess, NEW c, NEW n \in RouteName, NEW r, PatchRoute(c, n, r)
    PROVE  Stable'
<1>1. /\ \A m \in RouteName : m # n => routes'[m] = routes[m]
      /\ routes'[n].id = routes[n].id /\ routes[n] # Absent
      /\ UNCHANGED <<plugins, nextId>>
  BY DEF PatchRoute, CanPatchRoute, TypeOK, KongTypeOK
<1>2. IdsUnique'
  BY <1>1 DEF Stable, IdsUnique
<1>3. SnapStable'
  BY <1>1 DEF Stable, SnapStable, HoldsLess
<1>4. PluggedStable'
  BY <1>1 DEF Stable, PluggedStable, HoldsLess
<1> QED
  BY <1>2, <1>3, <1>4 DEF Stable

LEMMA StableUnderDeleteRoute ==
    ASSUME Stable, TypeOK, HoldsLess, NEW c, NEW n \in RouteName, DeleteRoute(c, n)
    PROVE  Stable'
<1>1. routes' = [routes EXCEPT ![n] = Absent] /\ plugins' \subseteq plugins /\ nextId' = nextId
  BY DEF DeleteRoute
<1>2. IdsUnique' /\ SnapStable' /\ PluggedStable'
  BY <1>1 DEF Stable, IdsUnique, SnapStable, PluggedStable, HoldsLess, TypeOK, KongTypeOK
<1> QED
  BY <1>2 DEF Stable

LEMMA StableUnderPostPlugin ==
    ASSUME Stable, TypeOK, HoldsLess, NEW c, NEW n \in RouteName, NEW name, NEW config,
           PostPlugin(c, n, name, config)
    PROVE  Stable'
<1> DEFINE new == [id |-> nextId, route |-> routes[n].id, name |-> name, config |-> config]
<1>1. /\ plugins' = plugins \cup {new} /\ new.id = nextId
      /\ nextId' = nextId + 1 /\ nextId \in Nat /\ routes' = routes
  BY DEF PostPlugin, TypeOK, KongTypeOK
<1>2. \A m \in RouteName : routes[m] # Absent => routes[m].id \in Nat
  BY DEF TypeOK, KongTypeOK, Route
<1>3. \A p \in plugins : p.id \in Nat
  BY DEF TypeOK, KongTypeOK, Plugin
<1>4. \A d \in Sync : \A p \in plugged[d] : p.id \in Nat
  BY DEF TypeOK, Plugin
<1>5. \A d \in Sync, m \in RouteName : snap[d][m] # Absent => snap[d][m].id \in Nat
  BY DEF TypeOK, Route
<1> HIDE DEF new
<1>6. IdsUnique'
  BY <1>1, <1>2, <1>3 DEF Stable, IdsUnique
<1>7. SnapStable'
  BY <1>1, <1>5 DEF Stable, SnapStable, HoldsLess
<1>8. PluggedStable'
  BY <1>1, <1>4 DEF Stable, PluggedStable, HoldsLess
<1> QED
  BY <1>6, <1>7, <1>8 DEF Stable

LEMMA StableUnderPatchPlugin ==
    ASSUME Stable, TypeOK, HoldsLess, NEW c, NEW id, NEW config, PatchPlugin(c, id, config)
    PROVE  Stable'
<1> DEFINE patched(p) == IF p.id = id THEN [p EXCEPT !.config = config] ELSE p
<1>1. plugins' = {patched(p) : p \in plugins} /\ UNCHANGED <<routes, nextId>>
  BY DEF PatchPlugin
<1>2. \A p \in plugins : patched(p).id = p.id /\ patched(p).route = p.route
                         /\ patched(p).name = p.name
  BY DEF TypeOK, KongTypeOK, Plugin
<1> HIDE DEF patched
<1>3. IdsUnique'
  BY <1>1, <1>2 DEF Stable, IdsUnique
<1>4. SnapStable' /\ PluggedStable'
  BY <1>1, <1>2 DEF Stable, SnapStable, PluggedStable, HoldsLess
<1> QED
  BY <1>3, <1>4 DEF Stable

LEMMA StableUnderDeletePlugin ==
    ASSUME Stable, TypeOK, HoldsLess, NEW c, NEW id, DeletePlugin(c, id)
    PROVE  Stable'
<1>1. plugins' \subseteq plugins /\ UNCHANGED <<routes, nextId>>
  BY DEF DeletePlugin
<1> QED
  BY <1>1 DEF Stable, IdsUnique, SnapStable, PluggedStable, HoldsLess

LEMMA StableInit ==
    ASSUME Init
    PROVE  Stable
<1>1. PICK k \in Initially : StartsAs(k)
  BY DEF Init
<1>2. WellFormed(k.routes, k.plugins, k.nextId)
  BY SyncAssumption
<1> QED
  BY <1>1, <1>2
  DEF Init, StartsAs, WellFormed, Stable, IdsUnique, SnapStable, PluggedStable

LEMMA StableNext ==
    ASSUME TypeOK, Stable, [Next]_vars
    PROVE  Stable'
<1>1. CASE UNCHANGED vars
  BY <1>1, StableIfUnwritten DEF vars, local, kong, HoldsLess
<1>2. ASSUME NEW c \in Sync, Start(c) PROVE Stable'
  BY <1>2, StableIfUnwritten DEF Start, HoldsLess
<1>3. ASSUME NEW c \in Sync, ListRoutes(c) PROVE Stable'
  <2>1. \A d \in Sync : snap'[d] = IF d = c THEN routes ELSE snap[d]
    BY <1>3 DEF ListRoutes, TypeOK
  <2> QED
    BY <1>3, <2>1
    DEF ListRoutes, kong, Stable, IdsUnique, SnapStable, PluggedStable
<1>4. ASSUME NEW c \in Sync, ListPlugins(c) PROVE Stable'
  <2>1. \A d \in Sync : plugged'[d] = IF d = c THEN plugins ELSE plugged[d]
    BY <1>4 DEF ListPlugins, TypeOK
  <2> QED
    BY <1>4, <2>1
    DEF ListPlugins, kong, Stable, IdsUnique, SnapStable, PluggedStable
<1>5. ASSUME NEW c \in Sync,
             ExamineMissing(c) \/ ExamineInSync(c) \/ ExamineDrift(c) \/ KeepRewrite(c)
               \/ BeginPrune(c)
      PROVE Stable'
  BY <1>5, StableIfUnwritten
  DEF ExamineMissing, ExamineInSync, ExamineDrift, KeepRewrite, BeginPrune, kong, HoldsLess
<1>6. ASSUME NEW c \in Sync, CreateRoute(c) PROVE Stable'
  <2>1. Cur(c).name \in RouteName
    BY <1>6, CurTyped, AdminAssumption DEF CreateRoute, TypeOK, Desired
  <2> QED
    BY <1>6, <2>1, StableUnderPostRoute DEF CreateRoute, HoldsLess
<1>7. ASSUME NEW c \in Sync, UpdateRoute(c) PROVE Stable'
  <2>1. Cur(c).name \in RouteName
    BY <1>7, CurTyped, AdminAssumption DEF UpdateRoute, TypeOK, Desired
  <2> QED
    BY <1>7, <2>1, StableUnderPatchRoute DEF UpdateRoute, HoldsLess
<1>8. ASSUME NEW c \in Sync, DropObsolete(c) PROVE Stable'
  <2>1. HoldsLess
    BY <1>8 DEF DropObsolete, HoldsLess, TypeOK
  <2> QED
    BY <1>8, <2>1, StableUnderDeletePlugin DEF DropObsolete
<1>9. ASSUME NEW c \in Sync, UpdateRewrite(c) PROVE Stable'
  BY <1>9, StableUnderPatchPlugin DEF UpdateRewrite, HoldsLess
<1>10. ASSUME NEW c \in Sync, CreateRewrite(c) PROVE Stable'
  <2>1. Cur(c).name \in RouteName
    BY <1>10, CurTyped, AdminAssumption DEF CreateRewrite, ReadyToWrite, TypeOK, Desired
  <2> QED
    BY <1>10, <2>1, StableUnderPostPlugin DEF CreateRewrite, HoldsLess
<1>11. ASSUME NEW c \in Sync, DeleteOrphan(c) PROVE Stable'
  <2>1. PICK n \in orphans[c] : DeleteRoute(c, n)
    BY <1>11 DEF DeleteOrphan
  <2>2. n \in RouteName
    BY AdminAssumption DEF TypeOK
  <2> QED
    BY <1>11, <2>1, <2>2, StableUnderDeleteRoute DEF DeleteOrphan, HoldsLess
<1>12. ASSUME NEW c \in Sync, Forgotten(c), UNCHANGED kong PROVE Stable'
  BY <1>12, StableIfUnwritten DEF Forgotten, kong, HoldsLess, TypeOK
<1>13. ASSUME NEW c \in Sync,
              SkipPrune(c) \/ PlanPrune(c) \/ EndPrune(c) \/ Fail(c)
       PROVE Stable'
  BY <1>12, <1>13 DEF SkipPrune, PlanPrune, EndPrune, Fail, Finish
<1> QED
  BY <1>1, <1>2, <1>3, <1>4, <1>5, <1>6, <1>7, <1>8, <1>9, <1>10, <1>11, <1>13
  DEF Next, Step, RefusePrune, Refused, Crash

\* No interleaving of jobs, crashes and restarts makes an id a run has read from
\* Kong come to mean another route or another plugin.
THEOREM SnapshotsStayMeaningful == Spec => []Stable
<1>1. Init => Stable
  BY StableInit
<1>2. TypeOK /\ Stable /\ [Next]_vars => Stable'
  BY StableNext
<1> QED
  BY <1>1, <1>2, TypeCorrect, PTL DEF Spec

-----------------------------------------------------------------------------
(* What prune and the plugin rewrite may not touch. *)

\* The body of HandMadeKept.
Kept ==
    /\ \A n \in RouteName \ AllowName :
          routes'[n] = routes[n] /\ PluginsOf(n)' = PluginsOf(n)
    /\ \A n \in RouteName : routes[n] # Absent /\ routes'[n] # Absent =>
          {p \in PluginsOf(n) : p.name \notin Rewriter} \subseteq plugins'

LEMMA KeptIfUnwritten ==
    ASSUME UNCHANGED <<routes, plugins>>
    PROVE  Kept
BY DEF Kept, PluginsOf

\* Writing the fields of an allow-route keeps what Kept protects.
LEMMA KeptUnderRouteWrite ==
    ASSUME NEW n \in AllowName, UNCHANGED plugins,
           \A m \in RouteName : m # n => routes'[m] = routes[m]
    PROVE  Kept
BY DEF Kept, PluginsOf

\* Deleting an allow-route takes the plugins of that route and no others.
LEMMA KeptUnderDeleteRoute ==
    ASSUME TypeOK, Stable, NEW c, NEW n \in AllowName, DeleteRoute(c, n)
    PROVE  Kept
<1>1. /\ \A m \in RouteName : m # n => routes'[m] = routes[m]
      /\ routes'[n] = Absent
      /\ plugins' = plugins \ PluginsOf(n)
  BY AdminAssumption DEF DeleteRoute, TypeOK, KongTypeOK
<1>2. \A m \in RouteName : m # n => PluginsOf(m) \cap PluginsOf(n) = {}
  BY AdminAssumption DEF Stable, IdsUnique, PluginsOf
<1>3. \A m \in RouteName : m # n => PluginsOf(m)' = PluginsOf(m)
  BY <1>1, <1>2 DEF PluginsOf
<1>4. \A m \in RouteName : m # n => PluginsOf(m) \subseteq plugins'
  BY <1>1, <1>2 DEF PluginsOf
<1> QED
  BY <1>1, <1>3, <1>4 DEF Kept

\* A plugin the job holds is a plugin it read on the allow-route it examines, so
\* no plugin of that id is on a route without the prefix or is no rewriter.
LEMMA HeldIsOnAllowRoute ==
    ASSUME TypeOK, Stable, NEW c \in Sync, at[c] \in DOMAIN image[c],
           NEW p \in Held(c), p.name \in Rewriter, NEW q \in plugins, q.id = p.id
    PROVE  /\ q.name \in Rewriter
           /\ \A n \in RouteName \ AllowName : q \notin PluginsOf(n)
<1>1. Cur(c).name \in AllowName /\ Cur(c).name \in RouteName
  BY CurTyped, AdminAssumption DEF Desired
<1>2. /\ p \in plugged[c] /\ p.route = snap[c][Cur(c).name].id
      /\ snap[c][Cur(c).name] # Absent
  BY DEF Held, Prior
<1>3. q.route = p.route /\ q.name = p.name
  BY <1>2 DEF Stable, PluggedStable
<1>4. \A n \in RouteName : routes[n] # Absent /\ routes[n].id = q.route => n = Cur(c).name
  BY <1>1, <1>2, <1>3 DEF Stable, SnapStable
<1> QED
  BY <1>1, <1>3, <1>4 DEF PluginsOf

LEMMA WantsRewriter ==
    ASSUME TypeOK, NEW c \in Sync, at[c] \in DOMAIN image[c]
    PROVE  Want(c).name \in Rewriter /\ ObsoleteName(Want(c).name) \in Rewriter
<1>1. Cur(c).mode \in {"static_uri", "strip_prefix", "alias_captures"} /\ Cur(c).params \in BOOLEAN
  BY CurTyped DEF Desired
<1> QED
  BY <1>1 DEF Want, DesiredRewrite, ReplaceUri, StripPrefix, CaptureRewrite, Rewriter, ObsoleteName

LEMMA KeptUnderDropObsolete ==
    ASSUME TypeOK, Stable, NEW c \in Sync, DropObsolete(c)
    PROVE  Kept
<1>1. at[c] \in DOMAIN image[c]
  BY DEF DropObsolete, TypeOK
<1>2. PICK p \in ObsoleteHeld(c) : DeletePlugin(c, p.id)
  BY DEF DropObsolete
<1>3. p \in Held(c) /\ p.name \in Rewriter
  BY <1>1, WantsRewriter DEF ObsoleteHeld
<1>4. \A q \in plugins : q.id = p.id =>
         q.name \in Rewriter /\ \A n \in RouteName \ AllowName : q \notin PluginsOf(n)
  BY <1>1, <1>3, HeldIsOnAllowRoute
<1>5. plugins' = {q \in plugins : q.id # p.id} /\ routes' = routes
  BY <1>2 DEF DeletePlugin
<1>6. \A n \in RouteName : \A q \in PluginsOf(n) : q.name \notin Rewriter => q \in plugins'
  BY <1>4, <1>5 DEF PluginsOf
<1>7. \A n \in RouteName \ AllowName : PluginsOf(n)' = PluginsOf(n)
  BY <1>4, <1>5 DEF PluginsOf
<1> QED
  BY <1>5, <1>6, <1>7 DEF Kept

LEMMA KeptUnderUpdateRewrite ==
    ASSUME TypeOK, Stable, NEW c \in Sync, UpdateRewrite(c)
    PROVE  Kept
<1>1. at[c] \in DOMAIN image[c]
  BY DEF UpdateRewrite, ReadyToWrite, TypeOK
<1>2. PICK p \in SameHeld(c) : PatchPlugin(c, p.id, Want(c).config)
  BY DEF UpdateRewrite
<1>3. p \in Held(c) /\ p.name \in Rewriter
  BY <1>1, WantsRewriter DEF SameHeld
<1>4. \A q \in plugins : q.id = p.id =>
         q.name \in Rewriter /\ \A n \in RouteName \ AllowName : q \notin PluginsOf(n)
  BY <1>1, <1>3, HeldIsOnAllowRoute
<1> DEFINE patched(q) == IF q.id = p.id THEN [q EXCEPT !.config = Want(c).config] ELSE q
<1>5. plugins' = {patched(q) : q \in plugins} /\ routes' = routes
  BY <1>2 DEF PatchPlugin
<1>6. \A q \in plugins : /\ q.id # p.id => patched(q) = q
                         /\ patched(q).route = q.route
  BY DEF TypeOK, KongTypeOK, Plugin
<1> HIDE DEF patched
<1>7. \A n \in RouteName : \A q \in PluginsOf(n) : q.name \notin Rewriter => q \in plugins'
  BY <1>4, <1>5, <1>6 DEF PluginsOf
<1>8. \A n \in RouteName \ AllowName : PluginsOf(n)' = PluginsOf(n)
  BY <1>4, <1>5, <1>6 DEF PluginsOf
<1> QED
  BY <1>5, <1>7, <1>8 DEF Kept

LEMMA KeptUnderCreateRewrite ==
    ASSUME TypeOK, Stable, NEW c \in Sync, CreateRewrite(c)
    PROVE  Kept
<1>1. at[c] \in DOMAIN image[c]
  BY DEF CreateRewrite, ReadyToWrite, TypeOK
<1>2. Cur(c).name \in AllowName /\ Cur(c).name \in RouteName
  BY <1>1, CurTyped, AdminAssumption DEF Desired
<1> DEFINE new == [id |-> nextId, route |-> routes[Cur(c).name].id,
                   name |-> Want(c).name, config |-> Want(c).config]
<1>3. /\ routes[Cur(c).name] # Absent /\ routes' = routes
      /\ plugins' = plugins \cup {new} /\ new.route = routes[Cur(c).name].id
  BY DEF CreateRewrite, PostPlugin, CanPostPlugin
<1> HIDE DEF new
<1>4. \A n \in RouteName \ AllowName : PluginsOf(n)' = PluginsOf(n)
  BY <1>2, <1>3 DEF PluginsOf, Stable, IdsUnique
<1> QED
  BY <1>3, <1>4 DEF Kept, PluginsOf

LEMMA KeptNext ==
    ASSUME TypeOK, Stable, [Next]_vars
    PROVE  Kept
<1>1. ASSUME NEW c \in Sync, CreateRoute(c) PROVE Kept
  <2>1. Cur(c).name \in AllowName
    BY <1>1, CurTyped DEF CreateRoute, TypeOK, Desired
  <2>2. UNCHANGED plugins /\ \A m \in RouteName : m # Cur(c).name => routes'[m] = routes[m]
    BY <1>1 DEF CreateRoute, PostRoute, TypeOK, KongTypeOK
  <2> QED
    BY <2>1, <2>2, KeptUnderRouteWrite
<1>2. ASSUME NEW c \in Sync, UpdateRoute(c) PROVE Kept
  <2>1. Cur(c).name \in AllowName
    BY <1>2, CurTyped DEF UpdateRoute, TypeOK, Desired
  <2>2. UNCHANGED plugins /\ \A m \in RouteName : m # Cur(c).name => routes'[m] = routes[m]
    BY <1>2 DEF UpdateRoute, PatchRoute, TypeOK, KongTypeOK
  <2> QED
    BY <2>1, <2>2, KeptUnderRouteWrite
<1>3. ASSUME NEW c \in Sync, DeleteOrphan(c) PROVE Kept
  BY <1>3, KeptUnderDeleteRoute DEF DeleteOrphan, TypeOK
<1>4. ASSUME NEW c \in Sync,
             DropObsolete(c) \/ UpdateRewrite(c) \/ CreateRewrite(c)
      PROVE Kept
  BY <1>4, KeptUnderDropObsolete, KeptUnderUpdateRewrite, KeptUnderCreateRewrite
<1>5. ASSUME UNCHANGED <<routes, plugins>> PROVE Kept
  BY <1>5, KeptIfUnwritten
<1>6. CASE UNCHANGED vars
  BY <1>5, <1>6 DEF vars, kong
<1>7. ASSUME NEW c \in Sync,
             \/ Start(c) \/ ListRoutes(c) \/ ListPlugins(c) \/ ExamineMissing(c)
             \/ ExamineInSync(c) \/ ExamineDrift(c) \/ KeepRewrite(c) \/ SkipPrune(c)
             \/ PlanPrune(c) \/ BeginPrune(c) \/ EndPrune(c) \/ Fail(c)
      PROVE UNCHANGED <<routes, plugins>>
  BY <1>7 DEF Start, ListRoutes, ListPlugins, ExamineMissing, ExamineInSync, ExamineDrift,
              KeepRewrite, SkipPrune, PlanPrune, BeginPrune, EndPrune, Fail, Finish, kong
<1> QED
  BY <1>1, <1>2, <1>3, <1>4, <1>5, <1>6, <1>7
  DEF Next, Step, RefusePrune, Refused, Crash

\* The default block and every hand-made route keep their fields and plugins,
\* and every route its plugins that are no rewriters, under all interleavings of
\* any number of jobs (_is_managed_route, _delete_plugins_named).
THEOREM HandMadeRoutesKept == Spec => HandMadeKept
<1>1. TypeOK /\ Stable /\ [Next]_vars => Kept
  BY KeptNext
<1>2. TypeOK /\ Stable /\ [Next]_vars =>
        [/\ \A n \in RouteName \ AllowName :
              routes'[n] = routes[n] /\ PluginsOf(n)' = PluginsOf(n)
         /\ \A n \in RouteName : routes[n] # Absent /\ routes'[n] # Absent =>
              {p \in PluginsOf(n) : p.name \notin Rewriter} \subseteq plugins']_vars
  BY <1>1 DEF Kept
<1> QED
  BY <1>2, TypeCorrect, SnapshotsStayMeaningful, PTL DEF Spec, HandMadeKept

-----------------------------------------------------------------------------
(* Dry runs. *)

LEMMA DryNext ==
    ASSUME TypeOK, DryRunWritesNothing, [Next]_vars
    PROVE  DryRunWritesNothing'
<1>1. CASE UNCHANGED vars
  BY <1>1 DEF vars, local, DryRunWritesNothing
<1>2. ASSUME NEW c \in Sync,
             \/ Start(c) \/ ListRoutes(c) \/ ListPlugins(c)
             \/ SkipPrune(c) \/ PlanPrune(c) \/ EndPrune(c) \/ Fail(c)
      PROVE DryRunWritesNothing'
  BY <1>2 DEF Start, ListRoutes, ListPlugins, SkipPrune, PlanPrune, EndPrune, Fail, Finish,
              Goto, TypeOK, DryRunWritesNothing
<1>3. ASSUME NEW c \in Sync,
             ExamineMissing(c) \/ ExamineInSync(c) \/ ExamineDrift(c) \/ BeginPrune(c)
      PROVE DryRunWritesNothing'
  BY <1>3 DEF ExamineMissing, ExamineInSync, ExamineDrift, BeginPrune, NextRoute, Goto,
              TypeOK, DryRunWritesNothing
<1>4. ASSUME NEW c \in Sync,
             \/ CreateRoute(c) \/ UpdateRoute(c) \/ DropObsolete(c) \/ KeepRewrite(c)
             \/ UpdateRewrite(c) \/ CreateRewrite(c) \/ DeleteOrphan(c)
      PROVE DryRunWritesNothing'
  BY <1>4 DEF CreateRoute, UpdateRoute, DropObsolete, KeepRewrite, UpdateRewrite,
              CreateRewrite, DeleteOrphan, NextRoute, Goto, TypeOK, DryRunWritesNothing
<1> QED
  BY <1>1, <1>2, <1>3, <1>4 DEF Next, Step, RefusePrune, Refused, Crash

\* No interleaving brings a run started with --dry-run to a request that writes.
THEOREM DryRunsWriteNothing == Spec => []DryRunWritesNothing
<1>1. Init => DryRunWritesNothing
  BY DEF Init, DryRunWritesNothing
<1> QED
  BY <1>1, DryNext, TypeCorrect, PTL DEF Spec

-----------------------------------------------------------------------------
(* The volume limit of prune. *)

\* Before prune nothing is deleted, and what prune deletes, all told, is what it
\* found when it passed the limit.
PruneInv ==
    \A c \in Sync :
        /\ pc[c] \notin Rest \cup {"prune"} => report[c].deleted = {}
        /\ pc[c] = "prune" => /\ report[c].deleted \cup orphans[c] \subseteq PruneNames(c)
                              /\ Confirmed(c)

\* One loop body leaves the deleted names alone.
LEMMA NextRouteDeletesNone ==
    ASSUME TypeOK, NEW c \in Sync, NEW list \in {"created", "updated", "skipped"},
           NextRoute(c, list)
    PROVE  /\ pc' = [pc EXCEPT ![c] = "examine"]
           /\ report'[c].deleted = report[c].deleted
           /\ \A d \in Sync \ {c} : report'[d] = report[d]
<1>1. report' = [report EXCEPT ![c] = [report[c] EXCEPT ![list] = @ \cup {Cur(c).name}]]
  BY DEF NextRoute, Report
<1>2. report[c] \in ReportType /\ report \in [Sync -> ReportType]
  BY DEF TypeOK, ReportType
<1>3. [report[c] EXCEPT ![list] = @ \cup {Cur(c).name}].deleted = report[c].deleted
  BY <1>2 DEF ReportType
<1> QED
  BY <1>1, <1>2, <1>3 DEF NextRoute, Goto

\* What a run computes for prune depends on what it holds only.
LEMMA PruneNamesFixed ==
    ASSUME NEW c \in Sync, image'[c] = image[c], snap'[c] = snap[c], opts'[c] = opts[c]
    PROVE  /\ PruneNames(c)' = PruneNames(c)
           /\ Owned(c)' = Owned(c)
           /\ Confirmed(c)' = Confirmed(c)
BY DEF PruneNames, Owned, Names, Confirmed, OverLimit

LEMMA PruneInvInductive ==
    ASSUME TypeOK, PruneInv, [Next]_vars
    PROVE  PruneInv'
<1> DEFINE Of(c) == /\ pc[c] \notin Rest \cup {"prune"} => report[c].deleted = {}
                    /\ pc[c] = "prune" =>
                         /\ report[c].deleted \cup orphans[c] \subseteq PruneNames(c)
                         /\ Confirmed(c)
<1>1. ASSUME NEW d \in Sync, UNCHANGED <<pc[d], image[d], opts[d], snap[d], orphans[d], report[d]>>
      PROVE  Of(d)'
  BY <1>1, PruneNamesFixed DEF PruneInv
<1>2. CASE UNCHANGED vars
  BY <1>1, <1>2 DEF vars, local, PruneInv
<1>3. ASSUME NEW c \in Sync, Start(c) \/ Step(c) \/ Crash(c),
             NEW d \in Sync \ {c}
      PROVE  UNCHANGED <<pc[d], image[d], opts[d], snap[d], orphans[d], report[d]>>
  <2>1. CASE ListRoutes(c) \/ ListPlugins(c) \/ CreateRoute(c) \/ DropObsolete(c) \/ BeginPrune(c)
    BY <1>3, <2>1
    DEF ListRoutes, ListPlugins, CreateRoute, DropObsolete, BeginPrune, Goto, TypeOK
  <2>2. CASE ExamineMissing(c) \/ ExamineInSync(c) \/ ExamineDrift(c)
    BY <1>3, <2>2
    DEF ExamineMissing, ExamineInSync, ExamineDrift, NextRoute, Report, Goto, TypeOK
  <2>3. CASE UpdateRoute(c) \/ KeepRewrite(c) \/ UpdateRewrite(c) \/ CreateRewrite(c)
    BY <1>3, <2>3
    DEF UpdateRoute, KeepRewrite, UpdateRewrite, CreateRewrite, NextRoute, Report, Goto, TypeOK
  <2>4. CASE SkipPrune(c) \/ EndPrune(c)
    BY <1>3, <2>4 DEF SkipPrune, EndPrune, Finish, Forgotten, Goto, TypeOK
  <2>5. CASE PlanPrune(c)
    BY <1>3, <2>5 DEF PlanPrune, Finish, Forgotten, Goto, TypeOK
  <2>6. CASE Fail(c)
    BY <1>3, <2>6 DEF Fail, Forgotten, Goto, TypeOK
  <2>7. CASE DeleteOrphan(c)
    BY <1>3, <2>7 DEF DeleteOrphan, Report, TypeOK
  <2>8. CASE Start(c)
    <3>1. PICK im \in Images[c], o \in Options :
             image' = [image EXCEPT ![c] = im] /\ opts' = [opts EXCEPT ![c] = o]
      BY <2>8 DEF Start
    <3> QED
      BY <1>3, <2>8, <3>1 DEF Start, Goto, TypeOK
  <2> QED
    BY <1>3, <2>1, <2>2, <2>3, <2>4, <2>5, <2>6, <2>7, <2>8 DEF Step, RefusePrune, Refused, Crash
<1>4. ASSUME NEW c \in Sync, Start(c) \/ Step(c) \/ Crash(c)
      PROVE  Of(c)'
  <2>1. CASE Start(c)
    BY <2>1 DEF Start, Goto, NoReport, TypeOK, Rest
  <2>2. CASE ListRoutes(c) \/ ListPlugins(c) \/ CreateRoute(c) \/ DropObsolete(c)
    BY <2>2 DEF ListRoutes, ListPlugins, CreateRoute, DropObsolete, Goto, TypeOK, PruneInv, Rest
  <2>3. CASE ExamineMissing(c) \/ ExamineInSync(c) \/ ExamineDrift(c)
    <3>1. pc[c] = "examine"
      BY <2>3 DEF ExamineMissing, ExamineInSync, ExamineDrift, Examining
    <3>2. report'[c].deleted = report[c].deleted /\ pc'[c] \in {"examine", "create", "patch", "plugin"}
      BY <2>3, NextRouteDeletesNone
      DEF ExamineMissing, ExamineInSync, ExamineDrift, Goto, TypeOK
    <3> QED
      BY <3>1, <3>2 DEF PruneInv, Rest
  <2>4. CASE UpdateRoute(c) \/ KeepRewrite(c) \/ UpdateRewrite(c) \/ CreateRewrite(c)
    <3>1. pc[c] \in {"patch", "plugin"} /\ Outcome(c) \in {"created", "updated", "skipped"}
      BY <2>4 DEF UpdateRoute, KeepRewrite, UpdateRewrite, CreateRewrite, ReadyToWrite, Outcome
    <3>2. report'[c].deleted = report[c].deleted /\ pc'[c] \in {"examine", "plugin"}
      BY <2>4, <3>1, NextRouteDeletesNone
      DEF UpdateRoute, KeepRewrite, UpdateRewrite, CreateRewrite, Goto, TypeOK
    <3> QED
      BY <3>1, <3>2 DEF PruneInv, Rest
  <2>5. CASE SkipPrune(c) \/ PlanPrune(c) \/ EndPrune(c) \/ Fail(c)
    BY <2>5 DEF SkipPrune, PlanPrune, EndPrune, Fail, Finish, Goto, TypeOK, Rest
  <2>6. CASE BeginPrune(c)
    <3>1. pc[c] = "examine" /\ pc'[c] = "prune" /\ Confirmed(c) /\ orphans'[c] = PruneNames(c)
          /\ UNCHANGED <<image, snap, opts, report>>
      BY <2>6 DEF BeginPrune, Upserted, Goto, TypeOK
    <3>2. report[c].deleted = {}
      BY <3>1 DEF PruneInv, Rest
    <3> QED
      BY <3>1, <3>2, PruneNamesFixed DEF Rest
  <2>7. CASE DeleteOrphan(c)
    <3>1. PICK n \in orphans[c] : Report(c, "deleted", n)
                                  /\ orphans' = [orphans EXCEPT ![c] = @ \ {n}]
      BY <2>7 DEF DeleteOrphan
    <3>2. pc[c] = "prune" /\ UNCHANGED <<pc, image, snap, opts>>
      BY <2>7 DEF DeleteOrphan
    <3>3. report'[c].deleted = report[c].deleted \cup {n}
      BY <3>1 DEF Report, TypeOK
    <3>4. report'[c].deleted \cup orphans'[c] = report[c].deleted \cup orphans[c]
      BY <3>1, <3>3 DEF TypeOK
    <3> QED
      BY <3>2, <3>4, PruneNamesFixed DEF PruneInv, Rest
  <2> QED
    BY <1>4, <2>1, <2>2, <2>3, <2>4, <2>5, <2>6, <2>7 DEF Step, RefusePrune, Refused, Crash
<1>5. ASSUME NEW c \in Sync, Start(c) \/ Step(c) \/ Crash(c), NEW d \in Sync
      PROVE  Of(d)'
  BY <1>1, <1>3, <1>4, <1>5
<1>6. \A d \in Sync : Of(d)'
  BY <1>2, <1>5 DEF Next, PruneInv
<1> QED
  BY <1>6 DEF PruneInv

LEMMA LimitFromPruneInv ==
    ASSUME PruneInv
    PROVE  PruneWithinLimit
<1> SUFFICES ASSUME NEW c \in Sync, pc[c] = "prune", ~opts[c].force
             PROVE  2 * Cardinality(report[c].deleted \cup orphans[c])
                      <= IF Cardinality(Owned(c)) > 6 THEN Cardinality(Owned(c)) ELSE 6
  BY DEF PruneWithinLimit
<1> DEFINE gone == report[c].deleted \cup orphans[c]
           owned == Cardinality(Owned(c))
           many == Cardinality(PruneNames(c))
<1>1. IsFiniteSet(Owned(c)) /\ owned \in Nat
  <2>1. Owned(c) \subseteq RouteName
    BY DEF Owned
  <2> QED
    BY <2>1, AdminAssumption, FS_Subset, FS_CardinalityType
<1>2. IsFiniteSet(PruneNames(c)) /\ many \in Nat
  <2>1. PruneNames(c) \subseteq Owned(c)
    BY DEF PruneNames
  <2> QED
    BY <1>1, <2>1, FS_Subset, FS_CardinalityType
<1>3. gone \subseteq PruneNames(c)
  BY DEF PruneInv
<1>4. Cardinality(gone) \in Nat /\ Cardinality(gone) <= many
  BY <1>2, <1>3, FS_Subset, FS_CardinalityType
<1>5. many <= PruneLimit(owned)
  <2>1. ~(many > PruneLimit(owned))
    BY DEF PruneInv, Confirmed, OverLimit
  <2> QED
    BY <1>1, <1>2, <2>1 DEF PruneLimit
<1> HIDE DEF gone, owned, many
<1>6. 2 * Cardinality(gone) <= IF owned > 6 THEN owned ELSE 6
  BY <1>1, <1>2, <1>4, <1>5 DEF PruneLimit
<1> QED
  BY <1>6 DEF gone, owned

\* A run without --force-prune deletes, all told, at most the larger of three and
\* half of the routes it owned when it read Kong, for any number of routes.
THEOREM PruneStaysWithinLimit == Spec => []PruneWithinLimit
<1>1. Init => PruneInv
  BY DEF Init, PruneInv, Rest
<1> QED
  BY <1>1, LimitFromPruneInv, PruneInvInductive, TypeCorrect, PTL DEF Spec
=============================================================================
