# A TLA+ model of weni-commons

`weni-commons` is the library the Weni microservices share. It publishes the services of a
platform on one Kong API gateway, documents what is published, and tells who calls a service, for
which tenant and with which role. This directory holds models of these parts
in TLA+, the configurations that model-check them with TLC, and theorems about them proved with
TLAPS.

- Check a model: `tlc -config <cfg> <MC module>`, as listed under *Runs*.
- Check the proofs: `tlapm <module>Proofs.tla`.
- `PROJECT.json` relates every definition to the lines of the source it models, lists the hazards
  of the code line by line, and names for every property a change to the code that would break it.

Paths in this file are relative to `src/weni_commons/`; `merge.py` is
`src/plugins/weni-api-gateway/skills/weni-openapi/scripts/merge.py`.

## 1. The system

### Components

| Component | State | Operations | Interacts with | Model |
|---|---|---|---|---|
| **Reconciliation** `kong/sync.py`, `management/commands/kong_sync.py` | the snapshot a run reads from Kong; nothing persists but Kong itself | `kong_sync` with `--dry-run`, `--no-prune`, `--force-prune`: list, upsert each route and its rewrite plugin, prune | Kong's Admin API, one request at a time, while the deployments of other services do the same | `KongSync`, `KongLate` |
| **Onboarding** `kong/service.py`, `management/commands/kong_ensure_service.py` | none but Kong | `kong_ensure_service`: service, catch-all route, termination plugin | Kong's Admin API; other replicas of itself; `kong_sync` | `KongEnsure`, `KongGateway` |
| **Kong** (external) | routes, plugins, services | the requests both make | | `KongAdmin` |
| **Discovery** `kong/decorator.py`, `discovery.py`, `paths.py`, `config.py` | none | from decorated views to the declared routes | feeds the reconciliation and the inventory | `KongDiscovery` |
| **Inventory** `openapi/inventory.py`, `api_gateway_inventory` | none | from decorated views to the documentation's input | must agree with the reconciliation | `KongDiscovery` (names, paths, methods, services, warnings), `OpenApiSerializers` (payloads) |
| **OpenAPI merge** `merge.py` | a document and a manifest, two files | merge, remove, reindex | many repositories, and people, write one document | `OpenApiMerge` |
| **Session tokens** `auth/session.py`, `auth/dynamodb.py`, `auth/authentication.py`, `auth/resolve.py` | a Redis cache per service, one table shared by all | authenticate a request; Connect issues and invalidates tokens | Redis, DynamoDB, Connect | `SessionToken`, `SessionContract` |
| **Callers** `auth/authenticators.py`, `token.py`, `resolvers.py`, `context.py`, `helpers.py`, `mixins.py` | none but the request | which user, of which tenant, a JWT or a Keycloak token stands for | Keycloak, the host's database | `WeniAuth` |
| **Permissions** `auth/permissions.py`, `connect.py` | none but the request | whether the caller may go on | the permissions service, Connect, the host's database | `WeniAccess` |
| **Change history** `change_history/` | none | publishes an event and forgets it | an external producer | not modelled: no behaviour of its own |
| **Shell and JavaScript tooling** of the plugin | none | call the commands, lint a document | | not modelled: no logic of the system |

### What is hard

* **Runs work from a snapshot.** `sync_to_kong` reads all routes and all plugins once and then
  decides everything, the prune included, on what it read. Other services deploy meanwhile.
* **There is no transaction.** A route and its rewrite plugin are two requests, a mode change is
  three. A run may die between any two of them (each request has a timeout of 10 s and no handler
  around it), and the next deployment has to repair what it finds.
* **Prune deletes.** It must not delete what is still declared (also under another service),
  hand-made, or another service's, and not more than its volume limit.
* **Check-then-write.** Onboarding looks before each of its three writes; two replicas look at the
  same time.
* **Default-deny has an order.** The catch-all route exists before the plugin that makes it a wall.
* **A cache beside a table beside its replicas.** A session token stays in each service's Redis when the table
  forgets it, and `get_item` (`auth/dynamodb.py:58`) asks for no consistent read: it may return what the table
  held a moment ago, an item that is gone or none where one was just put.
* **A request asks three services in a row.** Who calls, what it may do and what the view then does
  are read one after the other, each call may fail, and two authenticators share one request.
* **Serializers contain each other.** Reading their fields runs code of the project, and a field may be
  cut off by a limit or by an exception; what is not described has to be said.
* **Two readings of one URL conf.** The gateway and its documentation are computed apart, and names
  of routes are not injective: `a-pk` and `a/{pk}` are one name.
* **Two files, no lock.** The document is written before the manifest that says whose it is, each
  truncated first, and people edit the document.

The full list, line by line, is in `PROJECT.json` under `hazards`.

### What makes each component correct

* Reconciliation: a run nobody disturbs converges from whatever Kong it finds; a dry run is
  a true prediction and writes nothing; writes happen only where something differs; hand-made
  routes, plugins and blocks are untouched under every interleaving; routes only one service
  declares are right whatever the other deployments do; prune stays within its limit; runs end.
* Onboarding: success means closed; closed stays closed; racing replicas end closed.
* Session tokens: an accepted token was valid not long ago; a refused one was not valid, was issued only a moment
  ago, or a store failed; the cache never overruns expiry, nor an invalidation by more than its ceiling, the
  lag of the replicas and one request.
* Callers and permissions: a tenant comes from the token; nobody acts as another; nothing is granted
  that did not hold during the request; the user that is checked is the one that acts; the status
  tells why.
* Discovery and inventory: the documentation describes the routes the gateway publishes; an endpoint
  that loses its name to another is reported; a request reaches the view with its parameters; every position of a
  payload is described as what it is, or the gap is reported.
* Merge: a document never loses another repository's endpoints, a component is never settled in
  silence, a repeated merge changes nothing, and a merge that died is completed by the next.

## 2. The models

`KongSync` and `KongEnsure` extend `KongAdmin`; `KongGateway` composes them on one Kong, and `KongLate`
composes `KongSync` with a network that delivers late. `SessionToken` implements `SessionContract`;
`WeniAccess` continues where `WeniAuth` ends. `OpenApiSerializers`, `KongDiscovery` and
`OpenApiMerge` stand alone: what discovery returns is the constant `Images` of `KongSync`, so the reconciliation is checked for
images, also undesirable ones (the empty one, two of different services that claim one name), without rebuilding them.

The `MC...` modules give the constants of a run. Definitions marked `\* wrong:` belong to no
specification: they are the slips of the pen that `PROJECT.json` lists under `mutants`, one for
every checked property, and the property fails when the definition is replaced by its slip.

### KongAdmin — Kong, from outside

Kong is not in the repository; its entities and refusals come from the requests the code sends and
the status codes it handles. One request is one atomic step. `routes` is keyed by name (names are
unique), `plugins` holds the route-scoped plugins with the id of their route, deleting a route takes
its plugins with it, a second plugin of one name on a route is refused (409), and ids are never
reused. `quiet` is a history variable: the clients behind which no other client has written since
they began. A path is the sequence of its segments: that a path with a parameter is written as a
regex changes nothing about which route has it.

### KongSync — `sync_to_kong`, `prune_routes`

One process per deployment job, one action per request or branch, in the order of the code.

| Code (`kong/sync.py`) | Actions |
|---|---|
| the two listings at the start of `sync_to_kong` | `ListRoutes`, `ListPlugins` |
| the loop body, as far as its decision | `ExamineMissing`, `ExamineInSync`, `ExamineDrift`, with `NeedsPatch` (`_route_needs_patch`) and `RewriteInSync` |
| the POST or PATCH of a route | `CreateRoute`, `UpdateRoute` |
| `_apply_rewrite_plugin` | `DropObsolete`, then `KeepRewrite`, `UpdateRewrite` or `CreateRewrite` |
| `prune_routes` | `SkipPrune`, `PlanPrune`, `BeginPrune`, `DeleteOrphan`, `EndPrune`, `RefusePrune` |
| `raise_for_status`, the request timeout, a killed pod | `Refused`, `Crash` |

`snap` and `plugged` are what the run read at its start and are never refreshed, `sids` is its memo
of service ids, `report` the lists it returns. `Start` chooses an image and options; a failed run is
started again only by a later deployment, up to `MaxStarts`. `DeleteOrphan` deletes by *name*, as
the code does, whatever that name has become.

### KongLate — a request that arrives after its run

`raise_for_status` and the timeout of 10 s end a run at whatever request it waits for; they do not call
the request back. `TimeOut` is a `Crash` that leaves the request of the present step (`Sent`) under
way, `Arrive` lets Kong apply it at any later moment, also between the listings and the writes of the
next run, and `Vanish` loses it. `KongSync.Crash` alone covers the request that was applied, or not,
before the run ended.

### KongEnsure — `ensure_service`, `ensure_default_block`

`CheckService`/`CreateService`/`UpdateService`, `CheckBlock`/`CreateBlock`/`UpdateBlock`,
`CheckPlugin`/`CreatePlugin`/`UpdatePlugin` are the three checks and their writes; `LostRace` is a
creation Kong refuses because another process was faster, `EnsureCrash` anything else that ends the
command. The answers 404 to its PATCH requests are not modelled as refusals: nothing in the code
deletes a service, a block route or its plugin, which `HandMadeKept` confirms of the sync.

### SessionToken and SessionContract

The contract has no cache: it says when an answer is *excusable*. A token may be accepted while
it has not expired and for at most `MaxTtl` seconds after its invalidation, give or take the lag of the
table's replicas (`Lag`) and the time two requests are under way (one that puts the token in the cache, one
that finds it there); it may be refused only when it does not last another second, or was issued no longer ago
than that lag. `SessionToken` has the table, one Redis per
service, a clock, and one step per store call: `Hit`/`Miss` (`_from_redis`), `ReadItem`/`NoItem`
(`get_item`, which returns one of the answers in `Readable`: what the table holds, or held at some moment of the
last `Lag` ticks; `young` and `gone` remember when a token came and went), `ComputeTtl` (`compute_redis_ttl` and the early return on a ttl of zero), `WarmCache`
(SETEX), `Resolve`. `GiveUp` is any exception in between. The clock ticks between any two of them,
as long as a request is not under way for more than `Flight`.

### WeniAuth and WeniAccess — one request

`req` is what one request carries: two headers that may hold a token, four places where it may name a
project, a VTEX account or a user, the authenticators, the permission and the field its view
requires. `facts` is the world: which tokens are valid, who is internal, a member, of which level; it
changes up to `MaxChanges` times while the request is handled, and `was` remembers all of it.

| Code (`auth/`) | Actions |
|---|---|
| `WeniAuthentication.authenticate`, the JWT | `NoToken`, `AcceptJwt`, `RejectJwt`, `NotJwt` |
| `_authenticate_with_keycloak` | `GetOrCreateUser`, `ExtractClaims` (verified, decoded without verification, or from the Django user), `AcceptKeycloak` with `KeycloakContext` and `ActingUser`; `RejectKeycloak`, `FlagQueryRaises` |
| `SessionTokenAuthentication`, `resolve_session_user` | `ValidateSession`, `LookupOrg`, `FindUser`, `FallbackUser`, `NoSession`, `SessionUserFails` |
| DRF between and after them | `TryNext`, `Anonymous`, `Denied` |
| `IsWeniAuthenticated`, `CanCommunicateInternally` | `CheckContext`, `CheckInternal`, `QueryInternal` |
| `HasProjectPermission` | `AskService`, `AskNobody`, `ServiceGrants`, `ServiceDenies`, `CallRaises` |
| `ConnectProjectAuthorization`, `ConnectAuthorizationClient` | `AskConnect`, `AskConnectNothing`, `ConnectGrants`, `ConnectDenies` |
| `WeniAuthViewMixin`, the properties of `WeniAuthContext` | `View` |

A token is a value whose kind, owner and claims `Holds` gives; what a signature or Keycloak says of it
is the fact `live`. That a session token is live is what `SessionToken` is about.

### OpenApiMerge — `merge.py`

A run reads both files when it begins, computes what it will write (`MergedDoc`, `MergedManifest`,
`RemovedDoc`, `IndexOf`), and then truncates and fills the document and the manifest: four steps,
between which it may die (`Die`), leaving a file that does not parse. `Restore` is what a person does
about it, `Edit` what people do to the document anyway. `author`, `last`, `dead` and `lost` are
history: whose merge documented a path, which command made the files what they are, which run died,
and whose died run was followed by something else than its repetition. The manifest is lenient
where the code is: a torn manifest refuses a merge, a missing one is empty.

### KongDiscovery — `discover_routes` and `build_inventory`

A step is one URL pattern of the resolver, read by both: `Route` is what the sync makes of it,
`Entry` what the inventory does, each from its own lines of code. `routes` and `inventory` are the
two dictionaries as they stand after the walk so far; that every prefix of a resolver is a resolver
makes the invariants hold for the finished ones. A path is its segments and an extension, a segment
is words separated by `-`. A name is the words and what stands after the last dot: `kong_route_name` turns `/` and
`-` into `-` and drops braces, and turns the dot of a path into `-` too but keeps that of an alias. So names are
as ambiguous as in the code, as far as a dot stands only before an extension. `Rewritten` is what Kong's plugin makes of the path of
a request, from the configuration `_desired_rewrite_plugin` gives it.

### OpenApiSerializers — `serializers.py`

A step describes one field, in the order of the recursion; `stack` is what that recursion has still to
do, with the depth and the classes seen on the way down that `describe_field` passes as arguments.
`DescribeTyped`, `LeaveUnresolved`, `DescribeContainer`, `Truncate`, `Expand` are the branches of
`describe_field` and `_describe_nested_serializer`; `Raise` is the exception nobody catches. A serializer
class lists fields or raises, and `BoundFields` falls back on the declared ones. Constraints, choices
and help texts of a field are left out: they are attributes read off it. `Payload` is the reference:
what the payload really consists of, with no limit of depth and no memory of the way.

## 3. Runs

All bounds are constants in the `.cfg` files. Counts are distinct states.

| Run | States | Instance and bounds | What it shows |
|---|---|---|---|
| `sync_restarts` | 197,986 | one job, started 3 times, 4 images (two views; a view whose rewrite mode changed; a view moved to another service; the empty image), real, `--no-prune` and dry runs, from a fresh, a legacy (untagged, both rewriters, a route on another service) and a half-onboarded Kong; a crash anywhere, up to 2 requests that arrive after their run (`KongLate`). Also one run on a Kong with 5, 7 and 8 owned of 9 routes, 1 to 7 orphans, with and without `--force-prune` | runs that complete converge wherever earlier ones died and whatever of theirs came late; plans are true; writes only repair drift; prune spares what is declared and keeps its limit at, below and above the boundary of both of its arms |
| `gateway` | 234,710 | two jobs that share an alias, 2 starts each, from a fresh Kong, one with an earlier image's alias, and one with four abandoned routes (more than a run prunes at once) and a route rewritten for another prefix; and 2 replicas of the onboarding, 2 runs each, beside one run of their service's job, from a Kong without the service and from one with another url, prefix and message | the routes one job alone declares converge under every interleaving; success means closed, closed stays closed, racing replicas end closed; runs end |
| `session_tokens` | 2,682,309 | one token, two services, three workers; `MaxTtl` 2 s, 2 ticks a second, `Flight` 1, `Lag` 1, clock up to 8; expiries at an odd and an even tick, none, unreadable | the cache bounds and the refinement of the contract |
| `weni_access` | 381,472 | one request out of 504 (10 tokens of all kinds, with and without tenant, user, internal flag and readable claims; 4 ways to name others; 4 permissions; one or two authenticators; headers that disagree), 2 worlds, 2 of 9 facts change meanwhile | tenants, users, grants and statuses |
| `openapi_merge` | 1,234,576 | 2 aliases, 3 paths, 5 fragments (rewording, moving, sharing a tag, claiming a path, forking a component), 4 runs, one edit | nothing of others is lost, components and tags resolve, repetition is a no-op and repairs |
| `discovery` | 46,980 | every resolver of up to 3 of 17 patterns, two of them aliases with an extension and the path they look like, 3 values of each `--service` | the two readings agree, losses are reported, requests arrive, the url customers are told is one route's alone |
| `serializers` | 705,677 | 3 classes that list each other directly, in lists and in dictionaries, or raise; `MaxDepth` 2; payload paths of up to 6 names | gaps are reported, no class is expanded twice |
| `prune_stale_name`, `prune_guest`, `merge_claim`, `capture_names`, `refusal_status` | | as above, or smaller | violated on purpose: section 4 |

Why these bounds are enough. A run of `kong_sync` remembers nothing but Kong, so what an earlier one
can do to a later one is in the Kong it leaves: two starts give every residue of a crash, the third
one the residue of a crash on a residue; two late requests are one of each of the runs before the last. Two jobs are as many as can disagree on a name. Three
patterns are two that collide and one that is caught between. In the sessions the
clock reaches both ends of what the contract excuses: the later expiry (6) plus two flights, and an
early invalidation plus the ceiling (4 ticks), the lag and two flights, are not beyond `Horizon` (8). Tokens do
not interact, so one is enough, and two workers of one service beside one of Connect's give a stale
write against every other step. In `merge.py` a repair takes
two runs, and four allow another alias in between and one after it. A request meets at most five calls,
and a fact that matters to two of them can come and go with two changes. With three classes and a
`MaxDepth` of 2 (the code has 4) a cycle is cut by the memory of the way and a chain by the depth, and
both below a list, which counts as a level of its own; 6 names reach past either.

`CHECK_DEADLOCK FALSE` is in every configuration since the number of starts, runs, patterns and
ticks is bounded: the model stops where the bound is reached. The constraints `Scenario` of `MCKongLate` and
`MCKongGateway` part the instances of one run; what they cut off is starts of runs and commands, for which no
fairness is assumed, and late requests.

### Fairness

Only liveness properties need any, and it is weak fairness of one job's (`Step(c)`) or one command's
(`EnsureStep(e)`) next step. The code justifies it: each request has a timeout (10 s), there are no
locks and no waiting for another process, so a started run takes its next step or ends; `Crash` is
always possible and never required. Deployments are not fair: nobody has to start anything.
`RaceOnboards` is therefore conditional on no replica dying. The other modules have no
fairness, since everything they promise is safety; that a request is worked on by its worker is DRF's matter.

## 4. Findings

Six statements of the documentation or the comments that the code does not keep. Each but the last has a
run that TLC ends with a counterexample; the last is the action `Raise` of `OpenApiSerializers`.

1. **Prune deletes another service's route** (`prune_stale_name`, `kong/sync.py:555`). Ownership is
   decided on the snapshot and the DELETE goes to the name. *flows* no longer declares `allow-a-pk`;
   after it has listed the routes, *nexus* deploys the same name and moves the route to its own
   service; *flows* deletes it. The reference documentation says the `service.id` check "prevents
   reaching another service's routes".
2. **Prune deletes a route another prefix has tagged** (`prune_guest`, `kong/sync.py:494`). The path
   fallback, which "exists for routes created before tagging was introduced", also applies to tagged
   routes: *nexus* publishes the alias `flows/reports` with `service="flows-service"`, and the next sync
   of *flows* deletes it although nobody interfered.
3. **A merge overwrites another alias's endpoint** (`merge_claim`, `merge.py:413`). The owner of a path
   is looked up in the manifest alone and the manifest is written second: after a run that died between
   the two, another alias that claims the path is not refused.
4. **A parameter with an underscore is not substituted** (`capture_names`, `kong/sync.py:345`). The Lua
   that rewrites an alias with captures replaces `{(%w+)}`, and `%w` has no underscore; the rest of the
   code, and Kong, accept `\w`. Behind `alias="things/{thing_id}"` Django is asked for
   `/things/{thing_id}`, braces included.
5. **Whoever is not authenticated is answered 401** (`refusal_status`, `auth/authentication.py:79`).
   `authenticate_header` returns a challenge, and DRF then answers 401. `docs/api_gateway/en/03-authentication.md:86`
   and `07-troubleshooting.md:10`, `:24` and `:85` say that a missing, invalid or expired token and an outage of the
   stores show as a 403, and the plugin's `reference.md:117` that a missing or unknown token does.
   `tests/test_authentication.py:130` expects the 401, and `StatusTellsWhy` is its side.
6. **A serializer can end the inventory** (`openapi/serializers.py:107`). `hasattr` lets every
   exception but an AttributeError of a nested serializer's `fields` through, for instance that of a
   ModelSerializer with wrong options; the `try` meant for it (`:280`) comes later. "Introspection is always
   best-effort and never fails the command" (`08-openapi-documentation.md:72`), and the module says "Nothing here may
   raise". `GapsReported` is about inventories that are finished.

### What the code does not promise

What follows has no run of its own, but a reader of the properties should know it. Where a sentence of the
documentation or a comment promises more, it is quoted.

* A route declared with `service=` on another service is pruned by nobody once its view is gone.
* Twins: of two patterns with one view and one path the inventory keeps the first
  (`inventory.py:334`), whatever their methods, and the sync the second. The docstring
  (`inventory.py:260`) promises "the same last-writer-wins rule". `InventoryAgrees` excludes twins of
  different methods.
* A truncated field is marked but has no warning, so `--fail-on-warnings` passes; `many=True` costs two
  levels of depth; a MultipleChoiceField is described as an array without items.
* `HasProjectPermission` reads the user of an internal caller from the query parameter `user_email`
  alone, authentication from four places and two spellings. An internal caller that names its user
  otherwise is denied, and one that names two is checked for one and acts as the other: `OneSubject`
  exempts it.
* `request.project_uuid` stays on the request when the session's organization or user cannot be
  resolved and another authenticator takes over; `ConnectProjectAuthorization` then asks for that
  project. Connect decides by the forwarded token, so nothing is granted in vain (`GrantHeld`).
* A service that was never registered is remembered as missing, and a route that should move to it
  is then reported as *skipped*. `Converged` and `DryRunPredicts` assume the services exist.
* Two services with one alias overwrite each other's route at each deployment; two runs that write
  one route at the same time in different modes can leave both rewriters on it, although
  `docs/api_gateway/en/02-architecture.md` says the two never coexist. `NeverAddsSecondRewriter` and
  `Converged` speak of undisturbed runs for that reason, and `PrivateConverged` of routes one job
  alone declares and no other prunes.
* Between the POST of the catch-all route and the POST of its plugin the prefix is forwarded to the
  service without a wall, and stays so if the command dies there until it runs again. `EnsuredClosed`
  is about commands that report success.
* A command or a run that loses a race fails (409); a deployment has to be repeated.
* `kong_sync --service` with another service than the prefix's is unknown to the inventory, and a
  filtered inventory does not see that another service has taken a name: `Undisputed` excludes both.
* Conflicts are looked for among names, not paths. Behind `alias="people/{pk}"` on `dash/{pk}` and
  `alias="dash/{pk}"` on another view, two routes claim the compatible path `/flows/dash/{pk}`, neither
  is reported, and Kong decides. An alias that begins with the service's own prefix can even claim the
  documented url of another route. `PublicPathIsOwn` excludes the latter (`Spaced`) and speaks of the
  documented url alone.
* The dot of an alias is not turned into a dash: the alias `events.json` and another view at `/events.json` are two
  routes, `allow-events.json` and `allow-events-json`, and `/flows/events.json`, which customers are told of one of
  them, is a path of both. Nothing reports it; `Spaced` excludes this as well.
* A token that was issued a moment ago may be refused, and one that was invalidated may be read from a replica
  that lags behind and cached for its whole ttl again. The documentation gives the window after an invalidation as
  the ceiling of the cache; the contract adds the lag and the requests under way.
* An alias that captures only some of the parameters leaves empty segments in the upstream path.
* `WENI_SESSION_TOKEN_MAX_REDIS_TTL = 0` makes every token be refused; the models assume more.
* A merge that repeats one that died after the document keeps the timestamp of the content before;
  the tags of an endpoint that is reworded in place are not pruned; a run that died and is never
  repeated may leave a path no alias accounts for (`NoOrphans` exempts exactly these aliases).

## 5. Proofs

TLAPS proves the following for every value of the constants, under the assumptions the modules name
(`AdminAssumption`, `SyncAssumption`, `VocabularyAssumption`, `NamesAssumption`, `LateAssumption`, `EnsureAssumption`,
`GatewayAssumption`, `SessionAssumption`, `AuthAssumption`, `StoreAssumption`, `RoleAssumption`,
`MergeAssumption`, `SerializerAssumption`, `DiscoveryAssumption`; TLC evaluates each of them in the
runs above).

### `KongSyncProofs`

* `TypeCorrect`: `Spec => []TypeOK`.
* `SnapshotsStayMeaningful`: `[]Stable`. An id a run has read from Kong never comes to mean another
  route or plugin: ids are below `nextId` and unique, a plugin that still has the id is on the route
  and of the kind it was listed with. This is the strengthening everything else about a run's stale
  view rests on; one lemma for each request shows it is kept, whoever sends the request.
* `HandMadeRoutesKept`: `Spec => HandMadeKept`. With `Stable`, a plugin the run deletes or patches by id
  is gone or is a rewriter on the `allow-` route it examines (`HeldIsOnAllowRoute`), so no step touches
  anything hand-made, however many jobs interleave.
* `DryRunsWriteNothing`: `Spec => []DryRunWritesNothing`, inductive by itself with the types.
* `PruneStaysWithinLimit`: `Spec => []PruneWithinLimit`. `PruneInv` says that what a run has deleted and
  has still to delete is among `PruneNames` of its snapshot and that the prune was confirmed, and that
  nothing was deleted before; the limit follows by monotonicity of cardinality.

### `KongConvergenceProofs`

About `KongLate`, and so about any initial Kong, any images, any deaths and any requests that arrive after
their run. A run is *quiet* while no other client has written since it began.

* `QuietRunsKnowKong`: `LateSpec => []KnowingInv`. None of the properties below is inductive, since they
  speak of the end of a run, or of one of its steps, and a run decides on what it read long before. What
  has to be carried along is what a quiet run *knows* (`Knows`): while it loops, of every route of its
  image that is still ahead, that Kong has it and its plugins as they were read, of the one it is writing,
  how far that is, and of every one that is behind, that it is served as declared (`KnowsRoute`); when
  it prunes, that what is planned is what is orphaned, and that what is left of the plan is what is left
  of the orphans. This rests on `Basics` (types, `Stable`, the range of the loop) and on `LateHarmless`
  (a request under way is about `allow-` routes only). A route is known by itself: the steps of the
  loop write only the route they examine (`BodyWritesOnly`), and names are unique in an image
  (`NamesAssumption`: `discover_routes` keys the routes by name).
* `RunsConverge`, `PlansPredict`, `UndisturbedWritesChange`, `PrunedRoutesAreOrphans`,
  `OneRewriterAdded` follow from it.
* `PrivateRoutesConverge`: `Spec => []PrivateConverged`, for any number of jobs that are *not* quiet.
  `PrivateInv` is the same knowledge of single routes, and `Apart`: no other job holds a private route in
  its snapshot, or among what it means to delete, as one it manages. Why `Private` says as much as it
  does: not only must no other image declare the name, the job itself must not put it on a service another
  job prunes, and no Kong the jobs find may hold it where another job would prune it.
* `TypesSurviveLateRequests`, `LimitSurvivesLateRequests`, `HandMadeSurvivesLateRequests`: the theorems of
  `KongSyncProofs` where requests arrive late. `LateHarmless` is what the last of them needs.
* `RunsAreBounded`, the safety half of `Termination`: `StepsLeft` of a run is at most four for each route
  of its image (comparison, write, obsolete plugin, declared plugin), one for each name it may delete and
  four more; every step of the run and its death lower it, no step of anyone else raises it, and it is 0
  exactly when the run is over. The loop over the plugins of a route would have no such bound if a run
  could hold two obsolete ones: `HeldOnce`, which rests on Kong's unique (name, route), excludes it.

The knowledge is split by what can make it untrue, so that it can be used where other processes run:
what an iteration does to one route (`KnowsRoute`), the memo of service ids of one job (`MemoTrue`,
`Memories`), and what a quiet run derives from both (`QuietStepsKnow`).

### `KongGatewayProofs`

`GatewayInv` adds to `TypeOK` and `Stable` what each onboarding command has *achieved* where it stands:
past `ensure_service` the service is registered, past the catch-all route the prefix has it, at `done`
it is closed. Others undo none of it: no step of a job writes a route outside `allow-` or a service,
and a replica that writes the same block has the same prefix (`GatewayAssumption`:
`ensure_default_block`, `kong/service.py:112`, makes the name of the prefix).

* `EnsureTypeCorrect`, `SuccessMeansClosed`, `ClosedForGood`: for any number of replicas and jobs.
* `RaceHasWinner`, the safety half of `RaceOnboards`: once no command is under way on a prefix that was
  begun, and none has died there, the prefix is closed, however many were refused. `RaceInv`: as long as
  the prefix is open, some command on it has a step Kong is going to accept, or died (`Working`), because
  each refusal hands the work to whoever was faster. It needs `OneBlockPerService`, a hypothesis and not
  an assumption: with `KONG_SERVICE` set (`kong/config.py`, `resolved_kong_service`) two prefixes may
  share a service, and the one refused at the service never gets to its block. The run
  `gateway` onboards one prefix.

The remaining ones carry the knowledge of `KongConvergenceProofs` to a gateway that is being onboarded at
the same time. An onboarding command writes services, its block and the plugin on it
(`EnsureWritesBlock`), and no `allow-` route. The one thing of a run it can make untrue is the memo of
services: what `_resolve_service_id` (`kong/sync.py:244`) found missing stays missing for the run
although it has been registered since.

* `QuietDeploysKnowKong`: `[]DeployInv`. Registering a service is a write, so a run whose memo has become
  untrue is not quiet; the memo dies with its run (`ForgetsAtRest`), so the next is quiet with a true one.
  `DeploysConverge`, `GatewayPlansPredict`, `GatewayRunsStayInBounds` and `DeploysWriteOnlyDrift` follow:
  `Converged`, `DryRunPredicts`, `PruneWithinLimit` and the action properties of `KongLate` under
  `GatewaySpec`.
* `OnboardedRoutesConverge` is about runs that are *not* quiet: `PrivateConverged` beside onboardings.
  It needs the job to be `Onboarded`, that the services its images name are registered in every Kong the
  jobs may find. Without it the theorem is false: a service that is registered in the middle of a run
  leaves its routes skipped in a run that reports success (section 4).
* `EachWritesItsOwn`: no job ever writes a default block, a hand-made route or a service, and no command an
  `allow-` route.

### `SessionTokenProofs`

`SessionInv` is inductive: the *ledger* (an item in the table is what was issued and was not
invalidated; a token that vanished otherwise has expired), *freshness* of the caches (an entry lies in
the future by at most the ceiling), `CacheBounded`, and for each worker what it is *under way* with:
that it is on time, that what it read some replica held after its request began (`Lag` before that at the earliest), that the ttl it holds
fits the expiry, and that what it is about to accept is excusable. Why `CacheBounded` alone is not
inductive: `WarmCache` writes what was read before an invalidation, and only the time the request began
bounds the entry.

* `SessionTypeCorrect`, `CachesStayBounded`: the type invariant and `CacheBounded`.
* `CachesImplementContract`: `Spec => Contract!Spec`. Each action of `SessionToken` is mapped to one of
  the contract or to a stutter; `Resolve` to `Accept`, by the excusability in `SessionInv`; `NoItem` and
  `ComputeTtl` to `Refuse`, by the ledger, the youth of a token a replica does not have yet, and the arithmetic
  of whole seconds. Both theorems hold for every `Lag`.

### `WeniAccessProofs`

`AccessInv` is `WeniTypeOK` with `KnownSoFar` (what each step of authentication has learned so far, and
that `was` holds it), `Recognized` (a context is one of those its token can give) and `Checked` (a
request behind a permission satisfied it at some moment). One lemma shows that authentication keeps
it, one that the permissions do, one that the world does, since `was` only grows.

* `WeniTypeCorrect`, `TenantsComeFromTokens`, `NobodyImpersonates`, `NothingGrantedInVain`,
  `SubjectIsActor`, `StatusesTellWhy`.
* `WorkIsBounded`, no request is worked on for ever: a worker takes at most four steps for each authenticator
  of the view and four more, none is left exactly when the request is answered, and nothing that changes
  in the world gives it one more. `AtHead`: an authenticator at work is the head of the chain, so
  that giving up on it shortens the chain.

### `OpenApiMergeProofs`

* `MergeInv` is about one run. `FilesInv`: whatever parses is well formed, its index and tags fit its
  paths, and no two aliases have one path; `RunInv`: what a run is to write is *planned* (it keeps what
  it does not name, resolves its components, and is *settled*: the command would not change it) and how
  far it is; `LastInv`: the last command is one the files are settled under. `MergeTypeCorrect`,
  `NoPathHasTwoAliases`, `RunsKeepTheRest`, `ComponentsResolve`, `NoTagIsLost` and `RerunsAreNoops`
  follow.
* `DeadInv` relates two runs: between a death and its repetition the files are between what the dead
  run read and what it was to write (`Between`), and a command makes the same of a document it has
  already written (`Makes`, `MakesAgain`). `RetriesRepair` follows.
* `AuthorInv` carries `NothingIsOrphaned` through the steps in which document and manifest disagree:
  while one of them is ahead, the authors are those of the old or of the new manifest (`OwnedBy`).

### `OpenApiSerializersProofs`

* `WalkIsBounded`: `[]ExpandsOnce`. `WalkInv` adds that the classes seen on the way to a pending field are
  at most one more than its depth, which lists increase as well.
* `DescriptionIsComplete`: `[]GapsReported`. The walk keeps neither the fields it has described nor the
  way it came, and without them nothing connects the finished description with the fields of the
  serializers. `GapInv` says that a function from paths to fields *exists* which accounts for what was
  described so far (`Account`): each described path has one of the two roles and a mark that fits its
  field (`Placed`, `Marked`), it was reached from a described container (`Origins`, `Rooted`), every
  field below a described container is described or on the stack (`Contained`), and what a pending field
  has seen is what lies above it (`Remembered`). When the stack is empty this covers
  every level of the reference `Payload`, by induction over the levels. The library's induction theorem
  takes an operator; the lemma `Induction` states it for a set and follows from the least element
  (`WFMin`, `NatLessThanWellFounded`).

### `KongDiscoveryProofs`

* `DiscoveryTypeCorrect`: both dictionaries hold, under its name, what a walked pattern declares.
* `NothingLostSilently`: `[]OverwritesReported`. `ReportInv`: of every exposed pattern that is not
  filtered away the inventory has its name, and either holds its endpoint or has reported the name.
* `InventoryAgreesWithSync`: `[]InventoryAgrees`. The lemma `ReadAlike` shows that the two functions
  agree on one pattern; the invariant carries this through the different rules of overwriting.
* `RequestsReach`: `[]RewriteReaches`, and `DocumentedPathsAreOwn`: `[]PublicPathIsOwn`. Both are facts
  about one route, or two, that follow from the types: what a dictionary holds is what a pattern declares.
  The second has its hypotheses in the
  property (`Spaced`: no alias begins with the prefix, none with an extension is the path of another view). They rest on
  `PrefixComesOff`, that taking the prefix off is the inverse of `join_prefix`, and
  `CapturedAreSubstituted`, what the Lua makes of a template.

### Model-checked only

Every invariant and action property the runs check is stated by a theorem. The liveness properties
(`Termination`, `RaceOnboards`) need fairness and ENABLED and are left to TLC; what is proved
of them is their safety half (`RunsAreBounded`, `RaceHasWinner`): only that a step that
is left is possible and will be taken is not. Out of the prover's reach is also induction with an
operator for a predicate; the one induction the project needs is made over a set. The modules use no
RECURSIVE operators.

## 6. Assumptions and omissions

* *Flight*: a worker handles a request in bounded time (the worker timeout of the deployment). The
  bounds of the session tokens are stated in it; without it a stale write has no bound at all.
* *Lag*: a replica of the session table is behind by a bounded time. The code makes eventually consistent reads and
  DynamoDB names no bound for them; without one an invalidated token could be cached again for ever.
* One clock for all services, and whole-second SETEX: clock skew adds to `Flight`.
* A listing of Kong's entities is one step. The code reads pages of 1000.
* A late request may arrive at any time but is applied once, and a run sends no other after it.
* Processes that onboard one block name have one prefix (`GatewayAssumption`); an image names a route once
  (`NamesAssumption`: `discover_routes` keys them by name).
* `JWT_PUBLIC_KEY` unset is the case without tokens of kind `jwt`; a body that cannot be read names
  nothing; a session token is live or not as the stores say when they are asked; the host configures a
  permissions service.
* Not modelled of the reconciliation: `resolve_config` and the parsing of options. Of discovery: a
  prefix of several segments (the code refuses it), a `{format}` in a pattern without a name, a dot
  elsewhere than before an extension, Kong's matching of longer urls by prefix. Of the inventory: filters, pagination, throttles, and the constraints of a field. A serializer
  class fails to list its fields always or never.
* Not modelled of the sessions: a cached payload that does not parse (it counts as a miss), an item
  without a project or user (it is refused).
* Not modelled of `merge.py`: validation of the shape of a fragment (an error before anything is
  read), the informative fields of the manifest, `extract` and `list`, which only read.
* Not modelled at all: change history (one publish, no state), the shell and JavaScript tooling.
* Hazards in `PROJECT.json` without a property carry a note that says why.

## 7. Plan

Done, in this order: `KongAdmin`, `KongSync`, `KongEnsure`, `KongGateway`; `SessionContract`,
`SessionToken`; `OpenApiMerge`; `KongDiscovery`; `WeniAuth`, `WeniAccess`; `KongLate`;
`OpenApiSerializers`; and the proofs of section 5. Left:

1. Listings of several pages, with writes between them (`kong/sync.py:197`).
2. As theorems: that a run or a command under way always has a step whose guard holds, for each program
   counter, which is what is missing between the safety halves of the liveness properties and the
   properties themselves, fairness apart.
