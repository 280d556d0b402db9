----------------------------- MODULE KongDiscovery -----------------------------
(***************************************************************************)
(* From decorated views to gateway routes.  discover_routes (kong/sync.py) *)
(* and build_inventory (openapi/inventory.py) walk the same URL resolver   *)
(* (kong/discovery.py), one pattern after the other; the first decides     *)
(* what the gateway publishes, the second what the documentation promises. *)
(* A step of this module is one pattern of the walk, taken by both.        *)
(*                                                                         *)
(* A path is a sequence of segments and the extension of the last one.  A  *)
(* segment is the words a "-" separates and whether it is a parameter, as  *)
(* in {pk}; a route name is words and an extension, "allow-" left out.     *)
(* Words and extensions have no "-", "/" or "." of their own.              *)
(***************************************************************************)
EXTENDS Naturals, Sequences, SequencesExt

CONSTANTS
    Pattern,       \* the URL patterns a resolver may hold
    ClassMark,     \* view -> its decorator, or None
    ActionMark,    \* <<view, action>> -> the decorator of the action, or None
    Implemented,   \* view -> methods an APIView implements
    Prefix,        \* the segment of KONG_URL_PREFIX
    PrefixService, \* kong_service_name(KONG_URL_PREFIX)
    Suffix,        \* the extension in --suffix
    Service,
    LuaName,       \* names of parameters that match Lua's %w+
    None,
    MaxPatterns    \* bound: patterns of a resolver

VARIABLES
    default,    \* --service of kong_sync, or None
    filter,     \* --service of api_gateway_inventory, or None
    walked,     \* the patterns walked so far
    routes,     \* routes_by_name of discover_routes
    inventory,  \* routes of build_inventory, by name
    conflicts   \* names reported as duplicate_route_name

input == <<default, filter>>
dvars == <<input, walked, routes, inventory, conflicts>>

HasParams(t) == \E i \in DOMAIN t.segs : t.segs[i].param
Params(t) == {t.segs[i] : i \in {j \in DOMAIN t.segs : t.segs[j].param}}

Segment == [text : Seq(STRING), param : BOOLEAN]
Template == [segs : Seq(Segment), ext : {None} \cup STRING]
Mark == [methods : SUBSET STRING, service : Service \cup {None}, alias : Template \cup {None}]
ActionOf == [method : STRING, name : STRING]

ASSUME DiscoveryAssumption ==
    /\ \A v \in DOMAIN ClassMark : ClassMark[v] \in Mark \cup {None}
    /\ \A a \in DOMAIN ActionMark : ActionMark[a] \in Mark \cup {None}
    /\ Prefix \in Segment
    /\ Suffix \in STRING
    /\ \A p \in Pattern :
          /\ p.route \in Template
          /\ p.actions \in Seq(ActionOf)
          /\ p.view \in DOMAIN ClassMark \cap DOMAIN Implemented
          /\ \A i \in DOMAIN p.actions : <<p.view, p.actions[i].name>> \in DOMAIN ActionMark
    /\ PrefixService \in Service
    /\ None \notin Service \cup Template \cup Mark
    /\ MaxPatterns \in Nat

-----------------------------------------------------------------------------
(* kong/discovery.py *)

MarkOf(p, i) == ActionMark[p.view, p.actions[i].name]
Marked(p) == {i \in DOMAIN p.actions : MarkOf(p, i) # None}
MethodsAt(p, indices) == {p.actions[i].method : i \in indices}

\* The mark of the first marked action, else the mark of the class.
exposure_for_pattern(p) ==
    IF Marked(p) # {}
    THEN [MarkOf(p, Min(Marked(p))) EXCEPT !.methods = MethodsAt(p, Marked(p))]
    ELSE IF ClassMark[p.view] # None /\ p.actions # <<>>
    THEN [ClassMark[p.view] EXCEPT !.methods = MethodsAt(p, DOMAIN p.actions)]
    ELSE ClassMark[p.view]

\* reverse() with the format when the name of the pattern takes one; a suffix is
\* never invented for a parameter or after an extension.
django_path_template(p) ==
    IF (p.named /\ p.format) \/ (~HasParams(p.route) /\ p.route.ext = None)
    THEN [p.route EXCEPT !.ext = Suffix]
    ELSE p.route

Words(t) == FoldLeft(LAMBDA words, seg : words \o seg.text, <<>>, t.segs)

\* "/" becomes "-" and braces go; so does the "." of a path become "-", but an
\* alias keeps it: x.json is another name as an alias than as a path.
kong_route_name(upstream, alias) ==
    IF alias # None
    THEN [words |-> Words(alias), ext |-> alias.ext]
    ELSE [words |-> IF upstream.ext = None THEN Words(upstream)
                    ELSE Append(Words(upstream), upstream.ext),
          ext |-> None]

-----------------------------------------------------------------------------
(* kong/paths.py, kong/config.py *)

\* wrong: a flat alias is published for a path with parameters too
rewrite_mode_flat(upstream, alias) ==
    [mode |-> CASE alias # None /\ HasParams(alias) -> "alias_captures"
                [] (alias = None \/ ~HasParams(alias)) /\ HasParams(upstream) -> "strip_prefix"
                [] OTHER -> "static_uri",
     alias |-> alias]

\* A flat alias cannot carry the parameters of the path: it is dropped.
rewrite_mode_for(upstream, alias) ==
    LET captures == alias # None /\ HasParams(alias)
    IN  [mode |-> IF captures THEN "alias_captures"
                  ELSE IF HasParams(upstream) THEN "strip_prefix" ELSE "static_uri",
         alias |-> IF HasParams(upstream) /\ ~captures THEN None ELSE alias]

join_prefix(t) == [t EXCEPT !.segs = <<Prefix>> \o @]

resolved_kong_service(s) == IF s = None THEN PrefixService ELSE s

-----------------------------------------------------------------------------
(* kong/sync.py, discover_routes *)

\* a path with parameters becomes a regex, which says nothing more about it
_gateway_paths(upstream, alias) ==
    {join_prefix(upstream)}
        \cup (IF alias = None THEN {} ELSE {alias, join_prefix(alias)})

\* wrong: named after an alias that is not published
RouteNameAsDeclared(upstream, alias) == kong_route_name(upstream, alias)

\* named after the alias that is published
RouteName(upstream, alias) == kong_route_name(upstream, rewrite_mode_for(upstream, alias).alias)

Route(p) ==
    LET exposed == exposure_for_pattern(p)
        upstream == django_path_template(p)
        rewrite == rewrite_mode_for(upstream, exposed.alias)
    IN  [name |-> RouteName(upstream, exposed.alias),
         paths |-> _gateway_paths(upstream, rewrite.alias),
         methods |-> exposed.methods,
         service |-> resolved_kong_service(
                        IF exposed.service = None THEN default ELSE exposed.service),
         upstream |-> upstream,
         mode |-> rewrite.mode]

\* _desired_rewrite_plugin: a fixed uri cannot carry parameters
Rewriting(r) ==
    IF r.mode = "static_uri" /\ HasParams(r.upstream) THEN "strip_prefix" ELSE r.mode

\* _capture_rewrite_lua substitutes {(%w+)}: another name stays as it is written,
\* and one the gateway path g did not capture becomes empty.
Substituted(seg, g) ==
    CASE ~seg.param -> seg
      [] seg.param /\ seg.text \notin LuaName -> [seg EXCEPT !.param = FALSE]
      [] seg.param /\ seg.text \in LuaName ->
            IF seg \in Params(g) THEN seg ELSE [text |-> <<>>, param |-> FALSE]

\* What Django is asked for when a request matches the gateway path g; a
\* parameter stands for the value it has in the request.
Rewritten(r, g) ==
    CASE Rewriting(r) = "static_uri" -> r.upstream
      [] Rewriting(r) = "strip_prefix" ->
            IF Head(g.segs) = Prefix THEN [g EXCEPT !.segs = Tail(@)] ELSE g
      [] Rewriting(r) = "alias_captures" ->
            [r.upstream EXCEPT !.segs = [i \in DOMAIN @ |-> Substituted(@[i], g)]]

-----------------------------------------------------------------------------
(* openapi/inventory.py *)

\* wrong: the name is built from the alias as declared
EntryNameAsDeclared(upstream, alias) == kong_route_name(upstream, alias)

EntryName(upstream, alias) == kong_route_name(upstream, rewrite_mode_for(upstream, alias).alias)

Entry(p) ==
    LET exposed == exposure_for_pattern(p)
        upstream == django_path_template(p)
        rewrite == rewrite_mode_for(upstream, exposed.alias)
    IN  [name |-> EntryName(upstream, exposed.alias),
         public |-> IF rewrite.alias = None THEN join_prefix(upstream) ELSE rewrite.alias,
         compat |-> IF rewrite.alias = None THEN {}
                    ELSE {join_prefix(rewrite.alias), join_prefix(upstream)},
         methods |-> exposed.methods,
         implemented |-> IF p.actions # <<>> THEN MethodsAt(p, DOMAIN p.actions)
                        ELSE Implemented[p.view],
         service |-> resolved_kong_service(exposed.service),
         upstream |-> upstream,
         mode |-> rewrite.mode,
         view |-> p.view]

\* wrong: two views behind one path count as one endpoint
SamePath(e, f) == e.upstream = f.upstream

_is_same_endpoint(e, f) == e.upstream = f.upstream /\ e.view = f.view

\* The codes of _route_warnings that do not depend on serializers.
Warnings(e) ==
    (IF e.compat = {} THEN {"missing_alias"} ELSE {})
        \cup (IF e.implemented \subseteq e.methods THEN {} ELSE {"method_mismatch"})

Filtered(e) == filter # None /\ e.service # filter

-----------------------------------------------------------------------------
(* The walk. *)

\* a dictionary with one more entry, or another one, under its name
With(dict, x) ==
    [n \in DOMAIN dict \cup {x.name} |-> IF n = x.name THEN x ELSE dict[n]]

Walk(p) ==
    /\ Len(walked) < MaxPatterns
    /\ walked' = Append(walked, p)
    /\ UNCHANGED input

\* The view is not exposed.
Pass(p) ==
    /\ Walk(p)
    /\ exposure_for_pattern(p) = None
    /\ UNCHANGED <<routes, inventory, conflicts>>

\* Last writer wins.
Publish(p) ==
    /\ Walk(p)
    /\ exposure_for_pattern(p) # None
    /\ routes' = With(routes, Route(p))

\* wrong: looks for conflicts before it looks at the service
OmitReporting(p) ==
    /\ Publish(p)
    /\ LET e == Entry(p)
       IN  /\ \/ Filtered(e)
              \/ e.name \in DOMAIN inventory /\ _is_same_endpoint(inventory[e.name], e)
           /\ conflicts' = conflicts \cup (IF Filtered(e) THEN {e.name} ELSE {})
    /\ UNCHANGED inventory

\* The inventory leaves another service's route out, and an endpoint it has.
Omit(p) ==
    /\ Publish(p)
    /\ LET e == Entry(p)
       IN  \/ Filtered(e)
           \/ e.name \in DOMAIN inventory /\ _is_same_endpoint(inventory[e.name], e)
    /\ UNCHANGED <<inventory, conflicts>>

Document(p) ==
    /\ Publish(p)
    /\ LET e == Entry(p)
           known == e.name \in DOMAIN inventory
       IN  /\ ~Filtered(e)
           /\ ~(known /\ _is_same_endpoint(inventory[e.name], e))
           /\ inventory' = With(inventory, e)
           /\ conflicts' = conflicts \cup (IF known THEN {e.name} ELSE {})

DiscoveryInit ==
    /\ default \in Service \cup {None}
    /\ filter \in Service \cup {None}
    /\ walked = <<>>
    /\ routes = <<>>
    /\ inventory = <<>>
    /\ conflicts = {}

DiscoveryNext == \E p \in Pattern : Pass(p) \/ Omit(p) \/ Document(p)

DiscoverySpec == DiscoveryInit /\ [][DiscoveryNext]_dvars

-----------------------------------------------------------------------------
(* Properties. *)

Exposed == {p \in {walked[i] : i \in DOMAIN walked} : exposure_for_pattern(p) # None}

\* Both dictionaries are keyed by name, and hold what some walked pattern declares.
DiscoveryTypeOK ==
    /\ default \in Service \cup {None}
    /\ filter \in Service \cup {None}
    /\ walked \in Seq(Pattern)
    /\ \A n \in DOMAIN routes : \E p \in Exposed : routes[n] = Route(p) /\ n = Route(p).name
    /\ \A n \in DOMAIN inventory : \E p \in Exposed : inventory[n] = Entry(p) /\ n = Entry(p).name
    /\ conflicts \subseteq DOMAIN inventory

\* What the inventory says of a route is what the gateway has: paths, methods,
\* service, upstream, whether customers have a url of their own for it, and
\* whether the gateway blocks methods the view has.
Matches(e, r) ==
    /\ {e.public} \cup e.compat = r.paths
    /\ <<e.methods, e.service, e.upstream, e.mode>> =
          <<r.methods, r.service, r.upstream, r.mode>>
    /\ "missing_alias" \in Warnings(e) <=> r.paths = {join_prefix(r.upstream)}
    /\ "method_mismatch" \in Warnings(e) <=> ~(e.implemented \subseteq r.methods)

\* The inventory has the routes it is asked for, and describes each of them.
Describes ==
    /\ DOMAIN inventory = {n \in DOMAIN routes : ~Filtered(routes[n])}
    /\ \A n \in DOMAIN inventory : Matches(inventory[n], routes[n])

\* kong_sync is not told another service than the one its prefix names; one view
\* does not declare one path twice with different marks; and when the inventory
\* is filtered, no two services compete for a name.
Undisputed ==
    /\ default \in {None, PrefixService}
    /\ \A p, q \in Exposed :
          Route(p).name = Route(q).name =>
              /\ _is_same_endpoint(Entry(p), Entry(q)) => Route(p) = Route(q)
              /\ filter # None => Route(p).service = Route(q).service

\* "They must never disagree, otherwise the gateway would serve routes the
\* documentation does not describe (or vice versa)" (kong/discovery.py): they do
\* not, whatever aliases and views collide, as long as nothing is disputed.
InventoryAgrees == Undisputed => Describes

\* An endpoint that loses its route name to another view is reported, so nothing
\* disappears silently.
OverwritesReported ==
    \A p, q \in Exposed :
        /\ Entry(p).name = Entry(q).name
        /\ <<Entry(p).upstream, Entry(p).view>> # <<Entry(q).upstream, Entry(q).view>>
        /\ ~Filtered(Entry(p)) /\ ~Filtered(Entry(q))
        => Entry(p).name \in conflicts

\* A request that matches a path of a route reaches the view behind it with the
\* values of its parameters, if the alias of the route captures all of them
\* under names Lua reads.
RewriteReaches ==
    \A n \in DOMAIN routes : \A g \in routes[n].paths :
        (routes[n].mode = "alias_captures" =>
            \A seg \in Params(routes[n].upstream) : seg \in Params(g) /\ seg.text \in LuaName)
        => Rewritten(routes[n], g) = routes[n].upstream

\* No alias begins with the prefix, none with an extension is the path of another
\* view, and two views on one path have one name.
Spaced ==
    \A p, q \in Exposed :
        /\ LET alias == exposure_for_pattern(p).alias
           IN  alias # None => /\ Head(alias.segs) # Prefix
                               /\ alias.ext # None /\ alias = Route(q).upstream => p = q
        /\ Route(p).upstream = Route(q).upstream => Route(p).name = Route(q).name

\* The url the documentation tells customers to call is a path of one route of the
\* gateway alone, whatever names, aliases and paths collide in a Spaced resolver:
\* an alias that is the path of another view has its name, and one of the two
\* routes, if only it has no extension.  Of the compatible paths beside an alias
\* this is not true.
PublicPathIsOwn ==
    Spaced => \A n \in DOMAIN inventory, m \in DOMAIN routes :
                  inventory[n].public \in routes[m].paths => m = n

-----------------------------------------------------------------------------
(* What the documents say and the code does not do (see README, Findings). *)

\* docs/api_gateway/en/02-architecture.md: alias_captures "reads the named URI
\* captures and substitutes them into the internal path template".
CapturesReach ==
    \A n \in DOMAIN routes : \A g \in routes[n].paths :
        Params(routes[n].upstream) \subseteq Params(g) =>
            Rewritten(routes[n], g) = routes[n].upstream
=============================================================================
