-------------------------------- MODULE KongSync --------------------------------
(***************************************************************************)
(* kong_sync: the deployment job of each microservice reconciles the       *)
(* routes its image declares with Kong (src/weni_commons/kong/sync.py).    *)
(* A job reads the routes and the plugins once, then works from that       *)
(* snapshot, one request at a time, while the jobs of the other services   *)
(* do the same.  A job may stop at any point (an HTTP error, a timeout     *)
(* after 10 s, a killed pod) and is started again by a later deployment.   *)
(***************************************************************************)
EXTENDS KongAdmin, SequencesExt

CONSTANTS
    Sync,         \* the jobs
    SyncPrefix,   \* job -> KONG_URL_PREFIX
    SyncService,  \* job -> the Kong service of the microservice
    Images,       \* job -> what discover_routes() may return, a set of sequences
    Options,      \* command line options the jobs are started with
    Initially,    \* the Kongs the jobs may find
    Unread,       \* no memo yet for a service id
    MaxStarts     \* bound: how often each job is started

VARIABLES
    pc,       \* where the job is
    image,    \* the routes its image declares
    opts,     \* its options: prune, force and dry
    snap,     \* existing_routes, read once
    plugged,  \* plugins_by_route, read once
    sids,     \* service_ids, the memo of _resolve_service_id
    at,       \* index of the route the loop examines
    orphans,  \* names prune has still to delete
    report,   \* the lists the run returns, as sets of names
    starts    \* number of times the job was started

local == <<pc, image, opts, snap, plugged, sids, at, orphans, report, starts>>
vars  == <<kong, local>>

\* kong_route_name always returns allow-..., and discover_routes keys by name.
Desired == [name : AllowName, paths : SUBSET Path, methods : SUBSET Method,
            service : Service \cup {Absent}, upstream : Path, params : BOOLEAN,
            mode : {"static_uri", "strip_prefix", "alias_captures"}]

Option == [prune : BOOLEAN, force : BOOLEAN, dry : BOOLEAN]

RouteTag == <<"kong-sync">>
PrefixTag(prefix) == <<"prefix">> \o prefix
RouteTags(c) == {RouteTag, PrefixTag(SyncPrefix[c])}

-----------------------------------------------------------------------------
(* The rewrite plugin of a route. *)

Rewriter == {"request-transformer", "pre-function"}

ReplaceUri(uri) ==
    [name |-> "request-transformer",
     config |-> [kind |-> "replace_uri", uri |-> uri, prefix |-> <<>>]]

StripPrefix(prefix) ==
    [name |-> "pre-function",
     config |-> [kind |-> "strip_prefix", uri |-> <<>>, prefix |-> prefix]]

CaptureRewrite(uri, prefix) ==
    [name |-> "pre-function",
     config |-> [kind |-> "captures", uri |-> uri, prefix |-> prefix]]

DesiredRewrite(r, prefix) ==
    CASE r.mode = "strip_prefix"              -> StripPrefix(prefix)
      [] r.mode = "alias_captures"            -> CaptureRewrite(r.upstream, prefix)
      [] r.mode = "static_uri" /\ r.params    -> StripPrefix(prefix)
      [] r.mode = "static_uri" /\ ~r.params   -> ReplaceUri(r.upstream)

ObsoleteName(name) ==
    IF name = "request-transformer" THEN "pre-function" ELSE "request-transformer"

\* wrong: forgets that a rewriter of the other kind may be there as well
RewriteInSyncAlone(want, held) ==
    \E p \in held : p.name = want.name /\ p.config = want.config

RewriteInSync(want, held) ==
    /\ \A p \in held : p.name # ObsoleteName(want.name)
    /\ \E p \in held : p.name = want.name /\ p.config = want.config

-----------------------------------------------------------------------------
ASSUME SyncAssumption ==
    /\ Sync \subseteq Client
    /\ SyncPrefix \in [Sync -> Path]
    /\ SyncService \in [Sync -> Service]
    /\ Images \in [Sync -> SUBSET Seq(Desired)]
    /\ Options \subseteq Option
    /\ \A k \in Initially : k \in Kong /\ WellFormed(k.routes, k.plugins, k.nextId)
    /\ Path \subseteq Seq(STRING)
    /\ Rewriter \subseteq PluginName
    /\ Unread \notin Service \cup {Absent}
    /\ MaxStarts \in Nat

\* Tag and Config are large enough for what the jobs write.
ASSUME VocabularyAssumption ==
    \A c \in Sync :
        /\ RouteTags(c) \subseteq Tag
        /\ \A im \in Images[c] : \A i \in DOMAIN im :
              DesiredRewrite(im[i], SyncPrefix[c]).config \in Config

\* discover_routes keys the routes by name, so no image has two of one name.
ASSUME NamesAssumption ==
    \A c \in Sync : \A im \in Images[c] : \A i, j \in DOMAIN im :
        im[i].name = im[j].name => i = j

-----------------------------------------------------------------------------
(* What a job computes from what it holds. *)

Rest == {"idle", "done", "failed"}

Names(c) == {image[c][i].name : i \in DOMAIN image[c]}

Cur(c) == image[c][at[c]]

\* route.get("service") or service
TargetOf(c, r) == IF r.service = Absent THEN SyncService[c] ELSE r.service

Payload(c, r) ==
    [service |-> TargetOf(c, r), paths |-> r.paths, methods |-> r.methods,
     strip_path |-> FALSE, tags |-> RouteTags(c)]

Prior(c) == snap[c][Cur(c).name]

Held(c) == {p \in plugged[c] : Prior(c) # Absent /\ p.route = Prior(c).id}

Want(c) == DesiredRewrite(Cur(c), SyncPrefix[c])

\* The id of a service: what the memo says, else what Kong answers now.
ServiceId(c, s) ==
    IF sids[c][s] # Unread THEN sids[c][s]
    ELSE IF Registered(s) THEN s ELSE Absent

\* wrong: compares a service name with a service object, which always differ
NeedsPatchAlways(want, old, sid) == sid # Absent

NeedsPatch(want, old, sid) ==
    \/ want.paths # old.paths
    \/ want.methods # old.methods
    \/ want.strip_path # old.strip_path
    \/ want.tags # old.tags
    \/ sid # Absent /\ old.service # sid

RouteDiverged(c) ==
    NeedsPatch(Payload(c, Cur(c)), Prior(c), ServiceId(c, TargetOf(c, Cur(c))))

PluginDiverged(c) == ~RewriteInSync(Want(c), Held(c))

UnderPrefix(path, prefix) == prefix # <<>> /\ IsPrefix(prefix, path)

\* wrong: trusts the path under the prefix without the allow- name
IsManagedByPath(n, r, service, prefix) ==
    /\ r # Absent
    /\ r.service = service
    /\ \/ PrefixTag(prefix) \in r.tags
       \/ \E p \in r.paths : UnderPrefix(p, prefix)

\* _is_managed_route
IsManaged(n, r, service, prefix) ==
    /\ n \in AllowName
    /\ r # Absent
    /\ r.service = service
    /\ \/ PrefixTag(prefix) \in r.tags
       \/ \E p \in r.paths : UnderPrefix(p, prefix)

Owned(c) == {n \in RouteName : IsManaged(n, snap[c][n], SyncService[c], SyncPrefix[c])}

\* wrong: names that target another service do not count as declared
PruneNamesOfService(c) ==
    Owned(c) \ {image[c][i].name : i \in {j \in DOMAIN image[c] :
                                            TargetOf(c, image[c][j]) = SyncService[c]}}

\* wrong: everything undeclared is an orphan, whoever owns it
PruneNamesOfAll(c) == {n \in AllowName : snap[c][n] # Absent} \ Names(c)

PruneNames(c) == Owned(c) \ Names(c)

PruneLimit(owned) == IF owned \div 2 > 3 THEN owned \div 2 ELSE 3

\* wrong: half of all routes instead of half of the owned ones
OverLimitOfAll(c) ==
    Cardinality(PruneNames(c)) >
        PruneLimit(Cardinality({n \in RouteName : snap[c][n] # Absent}))

OverLimit(c) == Cardinality(PruneNames(c)) > PruneLimit(Cardinality(Owned(c)))
-----------------------------------------------------------------------------
(* Control. *)

NoReport == [created |-> {}, updated |-> {}, skipped |-> {}, deleted |-> {}]

NoMemo == [s \in Service |-> Unread]

\* A run's local variables die with it.
Forgotten(c) ==
    /\ snap' = [snap EXCEPT ![c] = [n \in RouteName |-> Absent]]
    /\ plugged' = [plugged EXCEPT ![c] = {}]
    /\ sids' = [sids EXCEPT ![c] = NoMemo]
    /\ at' = [at EXCEPT ![c] = 1]
    /\ orphans' = [orphans EXCEPT ![c] = {}]

Goto(c, where) == pc' = [pc EXCEPT ![c] = where]

Report(c, list, n) == report' = [report EXCEPT ![c][list] = @ \cup {n}]

\* the end of the loop body for the current route
NextRoute(c, list) ==
    /\ Report(c, list, Cur(c).name)
    /\ at' = [at EXCEPT ![c] = @ + 1]
    /\ Goto(c, "examine")

\* The route the loop is at; its service id is looked up only when it exists.
Examining(c) == pc[c] = "examine" /\ at[c] <= Len(image[c])

Memoized(c, s) == sids' = [sids EXCEPT ![c][s] = ServiceId(c, s)]

\* A deployment starts the job.
Start(c) ==
    /\ pc[c] \in Rest
    /\ starts[c] < MaxStarts
    /\ \E im \in Images[c], o \in Options :
          /\ image' = [image EXCEPT ![c] = im]
          /\ opts' = [opts EXCEPT ![c] = o]
    /\ report' = [report EXCEPT ![c] = NoReport]
    /\ starts' = [starts EXCEPT ![c] = @ + 1]
    /\ Goto(c, "list_routes")
    /\ Began(c)
    /\ UNCHANGED <<routes, plugins, services, nextId, snap, plugged, sids, at, orphans>>

\* GET /routes
ListRoutes(c) ==
    /\ pc[c] = "list_routes"
    /\ snap' = [snap EXCEPT ![c] = routes]
    /\ Goto(c, "list_plugins")
    /\ UNCHANGED <<kong, image, opts, plugged, sids, at, orphans, report, starts>>

\* GET /plugins
ListPlugins(c) ==
    /\ pc[c] = "list_plugins"
    /\ plugged' = [plugged EXCEPT ![c] = plugins]
    /\ Goto(c, "examine")
    /\ UNCHANGED <<kong, image, opts, snap, sids, at, orphans, report, starts>>

\* The snapshot has no route of that name.
ExamineMissing(c) ==
    /\ Examining(c)
    /\ Prior(c) = Absent
    /\ IF opts[c].dry
         THEN NextRoute(c, "created")
         ELSE Goto(c, "create") /\ UNCHANGED <<at, report>>
    /\ UNCHANGED <<kong, image, opts, snap, plugged, sids, orphans, starts>>

\* Route and rewrite plugin are as declared.
ExamineInSync(c) ==
    /\ Examining(c)
    /\ Prior(c) # Absent
    /\ ~RouteDiverged(c) /\ ~PluginDiverged(c)
    /\ Memoized(c, TargetOf(c, Cur(c)))
    /\ NextRoute(c, "skipped")
    /\ UNCHANGED <<kong, image, opts, snap, plugged, orphans, starts>>

\* wrong: the dry-run test guards the route's PATCH, not the plugin's writes
ExamineDriftDryRoute(c) ==
    /\ Examining(c)
    /\ Prior(c) # Absent
    /\ RouteDiverged(c) \/ PluginDiverged(c)
    /\ Memoized(c, TargetOf(c, Cur(c)))
    /\ IF opts[c].dry /\ ~PluginDiverged(c)
         THEN NextRoute(c, "updated")
         ELSE /\ Goto(c, IF RouteDiverged(c) /\ ~opts[c].dry THEN "patch" ELSE "plugin")
              /\ UNCHANGED <<at, report>>
    /\ UNCHANGED <<kong, image, opts, snap, plugged, orphans, starts>>

\* Something differs: patch the route if it is the route, else go to its plugin.
ExamineDrift(c) ==
    /\ Examining(c)
    /\ Prior(c) # Absent
    /\ RouteDiverged(c) \/ PluginDiverged(c)
    /\ Memoized(c, TargetOf(c, Cur(c)))
    /\ IF opts[c].dry
         THEN NextRoute(c, "updated")
         ELSE /\ Goto(c, IF RouteDiverged(c) THEN "patch" ELSE "plugin")
              /\ UNCHANGED <<at, report>>
    /\ UNCHANGED <<kong, image, opts, snap, plugged, orphans, starts>>

CreateRoute(c) ==
    /\ pc[c] = "create"
    /\ PostRoute(c, Cur(c).name, Payload(c, Cur(c)))
    /\ Goto(c, "plugin")
    /\ UNCHANGED <<image, opts, snap, plugged, sids, at, orphans, report, starts>>

\* wrong: counts the route before its plugin is written
UpdateRouteCounting(c) ==
    /\ pc[c] = "patch"
    /\ PatchRoute(c, Cur(c).name, Payload(c, Cur(c)))
    /\ Report(c, "updated", Cur(c).name)
    /\ at' = [at EXCEPT ![c] = @ + 1]
    /\ Goto(c, IF PluginDiverged(c) THEN "plugin" ELSE "examine")
    /\ UNCHANGED <<image, opts, snap, plugged, sids, orphans, starts>>

UpdateRoute(c) ==
    /\ pc[c] = "patch"
    /\ PatchRoute(c, Cur(c).name, Payload(c, Cur(c)))
    /\ IF PluginDiverged(c)
         THEN Goto(c, "plugin") /\ UNCHANGED <<at, report>>
         ELSE NextRoute(c, "updated")
    /\ UNCHANGED <<image, opts, snap, plugged, sids, orphans, starts>>

-----------------------------------------------------------------------------
(* _apply_rewrite_plugin, over the plugins of the snapshot. *)

\* wrong: every plugin but the desired one is obsolete
ObsoleteHeldAll(c) == {p \in Held(c) : p.name # Want(c).name}

ObsoleteHeld(c) == {p \in Held(c) : p.name = ObsoleteName(Want(c).name)}

SameHeld(c) == {p \in Held(c) : p.name = Want(c).name}

Outcome(c) == IF Prior(c) = Absent THEN "created" ELSE "updated"

\* wrong: the deleted plugin stays in the list
DropObsoleteAgain(c) ==
    /\ pc[c] = "plugin"
    /\ \E p \in ObsoleteHeld(c) : DeletePlugin(c, p.id)
    /\ UNCHANGED local

DropObsolete(c) ==
    /\ pc[c] = "plugin"
    /\ \E p \in ObsoleteHeld(c) :
          /\ DeletePlugin(c, p.id)
          /\ plugged' = [plugged EXCEPT ![c] = @ \ {p}]
    /\ UNCHANGED <<pc, image, opts, snap, sids, at, orphans, report, starts>>

\* wrong: the new rewriter may be written before the old one is gone
ReadyToWriteEarly(c) == pc[c] = "plugin"

ReadyToWrite(c) == pc[c] = "plugin" /\ ObsoleteHeld(c) = {}

KeepRewrite(c) ==
    /\ ReadyToWrite(c)
    /\ \E p \in SameHeld(c) : p.config = Want(c).config
    /\ NextRoute(c, Outcome(c))
    /\ UNCHANGED <<kong, image, opts, snap, plugged, sids, orphans, starts>>

UpdateRewrite(c) ==
    /\ ReadyToWrite(c)
    /\ \E p \in SameHeld(c) :
          p.config # Want(c).config /\ PatchPlugin(c, p.id, Want(c).config)
    /\ NextRoute(c, Outcome(c))
    /\ UNCHANGED <<image, opts, snap, plugged, sids, orphans, starts>>

CreateRewrite(c) ==
    /\ ReadyToWrite(c)
    /\ SameHeld(c) = {}
    /\ PostPlugin(c, Cur(c).name, Want(c).name, Want(c).config)
    /\ NextRoute(c, Outcome(c))
    /\ UNCHANGED <<image, opts, snap, plugged, sids, orphans, starts>>

-----------------------------------------------------------------------------
(* prune_routes, after the last route. *)

Upserted(c) == pc[c] = "examine" /\ at[c] > Len(image[c])

MayPrune(c) ==
    /\ opts[c].prune
    /\ Names(c) # {}
    /\ ServiceId(c, SyncService[c]) # Absent
    /\ PruneNames(c) # {}

Confirmed(c) == opts[c].force \/ ~OverLimit(c)

Finish(c) ==
    /\ Goto(c, "done")
    /\ Forgotten(c)
    /\ UNCHANGED <<kong, image, opts, starts>>

SkipPrune(c) ==
    /\ Upserted(c)
    /\ ~MayPrune(c)
    /\ Finish(c)
    /\ UNCHANGED report

\* wrong: the plan lists every owned route
PlanPruneOwned(c) ==
    /\ Upserted(c)
    /\ MayPrune(c) /\ Confirmed(c) /\ opts[c].dry
    /\ report' = [report EXCEPT ![c].deleted = Owned(c)]
    /\ Finish(c)

\* --dry-run: the deletions are reported, none is sent.
PlanPrune(c) ==
    /\ Upserted(c)
    /\ MayPrune(c) /\ Confirmed(c) /\ opts[c].dry
    /\ report' = [report EXCEPT ![c].deleted = PruneNames(c)]
    /\ Finish(c)

BeginPrune(c) ==
    /\ Upserted(c)
    /\ MayPrune(c) /\ Confirmed(c) /\ ~opts[c].dry
    /\ orphans' = [orphans EXCEPT ![c] = PruneNames(c)]
    /\ Goto(c, "prune")
    /\ UNCHANGED <<kong, image, opts, snap, plugged, sids, at, report, starts>>

\* DELETE /routes/{name}, whatever that name has become since the snapshot
DeleteOrphan(c) ==
    /\ pc[c] = "prune"
    /\ \E n \in orphans[c] :
          /\ DeleteRoute(c, n)
          /\ orphans' = [orphans EXCEPT ![c] = @ \ {n}]
          /\ Report(c, "deleted", n)
    /\ UNCHANGED <<pc, image, opts, snap, plugged, sids, at, starts>>

EndPrune(c) ==
    /\ pc[c] = "prune"
    /\ orphans[c] = {}
    /\ Finish(c)
    /\ UNCHANGED report

-----------------------------------------------------------------------------
(* Failure.  No handler anywhere: an exception ends the run where it is.   *)

Fail(c) ==
    /\ Goto(c, "failed")
    /\ Forgotten(c)
    /\ image' = [image EXCEPT ![c] = <<>>]
    /\ report' = [report EXCEPT ![c] = NoReport]
    /\ UNCHANGED <<kong, opts, starts>>

\* PruneLimitExceeded: everything was upserted, nothing is pruned.
RefusePrune(c) ==
    /\ Upserted(c)
    /\ MayPrune(c) /\ ~Confirmed(c)
    /\ Fail(c)

\* Kong answers 4xx to the write the run is about to make.
Refused(c) ==
    /\ \/ /\ pc[c] = "create"
          /\ ~CanPostRoute(Cur(c).name, TargetOf(c, Cur(c)))
       \/ /\ pc[c] = "patch"
          /\ ~CanPatchRoute(Cur(c).name, TargetOf(c, Cur(c)))
       \/ /\ ReadyToWrite(c)
          /\ SameHeld(c) = {}
          /\ ~CanPostPlugin(Cur(c).name, Want(c).name)
       \/ /\ ReadyToWrite(c)
          /\ \E p \in SameHeld(c) : p.config # Want(c).config /\ ~CanPatchPlugin(p.id)
    /\ Fail(c)

\* A timeout, a 5xx, a lost answer or a killed process, between any two steps.
Crash(c) ==
    /\ pc[c] \notin Rest
    /\ Fail(c)
-----------------------------------------------------------------------------
Init ==
    /\ \E k \in Initially : StartsAs(k)
    /\ pc = [c \in Sync |-> "idle"]
    /\ image = [c \in Sync |-> <<>>]
    /\ opts = [c \in Sync |-> [prune |-> TRUE, force |-> FALSE, dry |-> FALSE]]
    /\ snap = [c \in Sync |-> [n \in RouteName |-> Absent]]
    /\ plugged = [c \in Sync |-> {}]
    /\ sids = [c \in Sync |-> NoMemo]
    /\ at = [c \in Sync |-> 1]
    /\ orphans = [c \in Sync |-> {}]
    /\ report = [c \in Sync |-> NoReport]
    /\ starts = [c \in Sync |-> 0]

\* The steps the process takes by itself once it is started.
Step(c) ==
    \/ ListRoutes(c) \/ ListPlugins(c)
    \/ ExamineMissing(c) \/ ExamineInSync(c) \/ ExamineDrift(c)
    \/ CreateRoute(c) \/ UpdateRoute(c)
    \/ DropObsolete(c) \/ KeepRewrite(c) \/ UpdateRewrite(c) \/ CreateRewrite(c)
    \/ SkipPrune(c) \/ PlanPrune(c) \/ BeginPrune(c) \/ DeleteOrphan(c) \/ EndPrune(c)
    \/ RefusePrune(c) \/ Refused(c)

Next == \E c \in Sync : Start(c) \/ Step(c) \/ Crash(c)

Spec == Init /\ [][Next]_vars

\* Every request has a timeout, so a started run always takes its next step.
FairSpec == Spec /\ \A c \in Sync : WF_vars(Step(c))

-----------------------------------------------------------------------------
(* Properties. *)

\* Every variable has the type its comment gives it, and the index stays in
\* the loop of sync_to_kong.
TypeOK ==
    /\ KongTypeOK
    /\ pc \in [Sync -> Rest \cup {"list_routes", "list_plugins", "examine", "create",
                                  "patch", "plugin", "prune"}]
    /\ \A c \in Sync : image[c] \in Images[c] \cup {<<>>}
    /\ opts \in [Sync -> Option]
    /\ snap \in [Sync -> [RouteName -> Route \cup {Absent}]]
    /\ plugged \in [Sync -> SUBSET Plugin]
    /\ sids \in [Sync -> [Service -> Service \cup {Absent, Unread}]]
    /\ at \in [Sync -> Nat \ {0}]
    /\ \A c \in Sync : pc[c] \in {"create", "patch", "plugin"} => at[c] \in DOMAIN image[c]
    /\ orphans \in [Sync -> SUBSET AllowName]
    /\ report \in [Sync -> [created : SUBSET AllowName, updated : SUBSET AllowName,
                            skipped : SUBSET AllowName, deleted : SUBSET AllowName]]
    /\ starts \in [Sync -> Nat]

Rewriters(n) == {p \in PluginsOf(n) : p.name \in Rewriter}

\* Kong serves r exactly as job c declares it.
ServedAsDeclared(c, r) ==
    LET live == routes[r.name]
        want == DesiredRewrite(r, SyncPrefix[c])
    IN  /\ live # Absent
        /\ \A f \in DOMAIN Payload(c, r) : live[f] = Payload(c, r)[f]
        /\ \E p \in Rewriters(r.name) :
              /\ Rewriters(r.name) = {p}
              /\ p.name = want.name /\ p.config = want.config

\* The routes prune has to remove from the live Kong.
LiveOrphans(c) ==
    {n \in RouteName : IsManaged(n, routes[n], SyncService[c], SyncPrefix[c])} \ Names(c)

Targets(c) == {SyncService[c]} \cup {TargetOf(c, image[c][i]) : i \in DOMAIN image[c]}

\* A run that is done, saw no other writer since it began, and whose services exist.
Undisturbed(c) ==
    pc[c] = "done" /\ c \in quiet /\ \A s \in Targets(c) : Registered(s)

\* sync_to_kong "reconciles discovered routes with Kong": after an undisturbed
\* run that wrote, whatever Kong held before and wherever earlier runs died,
\* every declared route is served field by field as declared with exactly its
\* rewrite plugin, and with prune on no managed route is left undeclared.
Converged ==
    \A c \in Sync : Undisturbed(c) /\ ~opts[c].dry =>
        /\ \A i \in DOMAIN image[c] : ServedAsDeclared(c, image[c][i])
        /\ opts[c].prune /\ image[c] # <<>> => LiveOrphans(c) = {}

\* --dry-run "reports the plan against the live Kong state without writing": the
\* plan of an undisturbed dry run names exactly the routes that differ from it.
DryRunPredicts ==
    \A c \in Sync : Undisturbed(c) /\ opts[c].dry =>
        LET declared == {image[c][i] : i \in DOMAIN image[c]}
            names(S) == {r.name : r \in S}
        IN  /\ report[c].created = names({r \in declared : routes[r.name] = Absent})
            /\ report[c].skipped = names({r \in declared : ServedAsDeclared(c, r)})
            /\ report[c].updated = Names(c) \ (report[c].created \cup report[c].skipped)
            /\ report[c].deleted =
                 IF opts[c].prune /\ image[c] # <<>> THEN LiveOrphans(c) ELSE {}

\* ... and no interleaving brings a dry run to a request that writes.
DryRunWritesNothing ==
    \A c \in Sync : pc[c] \in {"create", "patch", "plugin", "prune"} => ~opts[c].dry

\* "patches only when they diverge", "leaves it untouched otherwise": a write of
\* an undisturbed run to something that exists always changes Kong.
WritesOnlyDrift ==
    [][\A c \in quiet :
          UpdateRoute(c) \/ DropObsolete(c) \/ UpdateRewrite(c) \/ DeleteOrphan(c)
             => <<routes, plugins>>' # <<routes, plugins>>]_vars

\* "the default-block and hand-made routes are never touched": whatever the
\* jobs' interleaving, a route without the allow- prefix keeps its fields and
\* its plugins, and a route that survives a step keeps its other plugins.
HandMadeKept ==
    [][/\ \A n \in RouteName \ AllowName :
             routes'[n] = routes[n] /\ PluginsOf(n)' = PluginsOf(n)
       /\ \A n \in RouteName : routes[n] # Absent /\ routes'[n] # Absent =>
             {p \in PluginsOf(n) : p.name \notin Rewriter} \subseteq plugins']_vars

\* An undisturbed run deletes only routes it manages in Kong's present state and
\* its image no longer declares, under any service ("so a route moving across
\* services in this same run is not mistaken for an orphan").
PruneSparesDeclared ==
    [][\A c \in quiet : DeleteOrphan(c) =>
          \A n \in RouteName : routes'[n] # routes[n] => n \in LiveOrphans(c)]_vars

\* The volume limit is decided once, for all deletions of a run: a run without
\* --force-prune deletes all orphans or none, never more than the larger of
\* three and half of the routes it owned when it read Kong.
PruneWithinLimit ==
    \A c \in Sync : pc[c] = "prune" /\ ~opts[c].force =>
        2 * Cardinality(report[c].deleted \cup orphans[c])
            <= IF Cardinality(Owned(c)) > 6 THEN Cardinality(Owned(c)) ELSE 6

\* _apply_rewrite_plugin removes the obsolete rewriter before it writes the new
\* one: an undisturbed run, even one that dies half way, never adds a second
\* plugin that rewrites the same route.
NeverAddsSecondRewriter ==
    [][\A c \in quiet : CreateRewrite(c) =>
          \A n \in RouteName : Rewriters(n)' \subseteq Rewriters(n)
                               \/ Cardinality(Rewriters(n)') = 1]_vars

\* A route name only job c ever declares, never on a service another job prunes.
Private(c, n) ==
    \A d \in Sync \ {c} :
        /\ \A im \in Images[d] : \A i \in DOMAIN im : im[i].name # n
        /\ \A im \in Images[c] : \A i \in DOMAIN im :
              im[i].name = n => TargetOf(c, im[i]) # SyncService[d]
        /\ \A k \in Initially : ~IsManaged(n, k.routes[n], SyncService[d], SyncPrefix[d])

\* Services share Kong, not their routes: whatever the other jobs do meanwhile
\* (deploy, prune from old snapshots, die), a run that reports success leaves
\* every route only its service declares served as declared.
PrivateConverged ==
    \A c \in Sync : pc[c] = "done" /\ ~opts[c].dry /\ (\A s \in Targets(c) : Registered(s)) =>
        \A i \in DOMAIN image[c] :
            Private(c, image[c][i].name) => ServedAsDeclared(c, image[c][i])

\* A run that is started ends.
Termination == \A c \in Sync : pc[c] \notin Rest ~> pc[c] \in Rest

-----------------------------------------------------------------------------
(* What the documents say and the code does not do (see README, Findings). *)

\* docs/api_gateway/en/04-weni-commons-reference.md: prune deletes only routes whose
\* `service.id` matches the service being synced.
PruneStaysOnService ==
    [][\A c \in Sync : DeleteOrphan(c) =>
          \A n \in RouteName : routes'[n] # routes[n] =>
              routes[n].service = SyncService[c]]_vars

\* _is_managed_route: a route that carries another prefix's tag is not ours.
PruneStaysOnPrefix ==
    [][\A c \in quiet : DeleteOrphan(c) =>
          \A n \in RouteName : routes'[n] # routes[n] /\ RouteTag \in routes[n].tags =>
              PrefixTag(SyncPrefix[c]) \in routes[n].tags]_vars
=============================================================================
