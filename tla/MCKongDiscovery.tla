---------------------------- MODULE MCKongDiscovery ----------------------------
(***************************************************************************)
(* Resolvers of the patterns real projects have: twins of                  *)
(* format_suffix_patterns, ViewSets with marked actions, flat aliases of   *)
(* detail routes, aliases and paths whose names collide, an alias with an  *)
(* extension that is the path of another view.                             *)
(***************************************************************************)
EXTENDS KongDiscovery

W(word) == [text |-> <<word>>, param |-> FALSE]
P(name) == [text |-> <<name>>, param |-> TRUE]
Path(segs) == [segs |-> segs, ext |-> None]

MCPrefix == W("flows")
MCService == {"flows-service", "nexus-service"}
MCLuaName == {<<"pk">>, <<"id">>}

Marking(methods, service, alias) == [methods |-> methods, service |-> service, alias |-> alias]
Get(alias) == Marking({"GET"}, None, alias)

MCClassMark ==
    [Contacts   |-> Get(Path(<<W("contacts")>>)),
     ContactsV2 |-> Get(Path(<<W("contacts")>>)),
     Nexus      |-> Marking({"GET", "POST"}, "nexus-service", Path(<<W("contacts")>>)),
     Dash       |-> Get(None),
     Widgets    |-> None,
     Flat       |-> Get(Path(<<W("flat")>>)),
     Detail     |-> Get(None),
     Hyphen     |-> Get(Path(<<[text |-> <<"dash", "pk">>, param |-> FALSE]>>)),
     Things     |-> Get(Path(<<W("things"), P("thing_id")>>)),
     Partial    |-> Get(Path(<<W("q"), P("pk")>>)),
     Renamed    |-> Get(Path(<<W("people"), P("pk")>>)),
     Export     |-> Get([Path(<<W("events")>>) EXCEPT !.ext = "json"]),
     Digest     |-> Get(Path(<<[text |-> <<"events", "json">>, param |-> FALSE]>>)),
     Events     |-> Get(None),
     Plain      |-> None]

MCActionMark ==
    [a \in {<<"Dash", "list">>, <<"Dash", "create">>, <<"Widgets", "retrieve">>, <<"Widgets", "destroy">>} |->
        IF a = <<"Widgets", "retrieve">>
        THEN Get(Path(<<W("dash"), P("pk")>>)) ELSE None]

MCImplemented == [v \in DOMAIN MCClassMark |-> {"GET", "POST"}]

Url(view, segs) ==
    [view |-> view, actions |-> <<>>, route |-> Path(segs), named |-> TRUE, format |-> FALSE]
Does(method, name) == [method |-> method, name |-> name]

MCPatterns ==
    {[Url("Contacts", <<W("contacts")>>) EXCEPT !.format = TRUE],
     Url("ContactsV2", <<W("v2"), W("contacts")>>),
     Url("Nexus", <<W("v2"), W("contacts")>>),
     [Url("Dash", <<W("dash")>>) EXCEPT !.actions = <<Does("GET", "list")>>, !.named = FALSE],
     [Url("Dash", <<W("dash")>>) EXCEPT !.actions = <<Does("POST", "create")>>, !.named = FALSE],
     [Url("Widgets", <<W("dash"), P("pk"), W("widgets")>>) EXCEPT
        !.actions = <<Does("DELETE", "destroy"), Does("GET", "retrieve")>>],
     Url("Flat", <<W("flat"), P("pk")>>),
     Url("Detail", <<W("flat"), P("pk")>>),
     [Url("Detail", <<W("dash"), P("pk")>>) EXCEPT !.format = TRUE],
     Url("Hyphen", <<W("hyphen")>>),
     Url("Things", <<W("things"), P("thing_id")>>),
     Url("Partial", <<W("p"), P("pk"), P("id")>>),
     Url("Renamed", <<W("dash"), P("pk")>>),
     Url("Export", <<W("export")>>),
     Url("Digest", <<W("digest")>>),
     Url("Events", <<W("events")>>),
     Url("Plain", <<W("plain")>>)}
=============================================================================
