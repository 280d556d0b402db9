----------------------------- MODULE MCOpenApiMerge -----------------------------
(***************************************************************************)
(* Two repositories with an endpoint each.  The endpoint of flows is       *)
(* reworded, moves and comes back; that of nexus shares a tag with it and, *)
(* in a later release, its path; a third fragment forks a shared part.     *)
(***************************************************************************)
EXTENDS OpenApiMerge

MCItem == {"send", "send reworded", "list"}

MCTagsOf == [i \in MCItem |-> IF i = "list" THEN {"Contacts", "Messages"} ELSE {"Messages"}]
MCHeadline == [i \in MCItem |-> i]

MCShared == [n \in Part |-> IF n = "security" THEN "weni" ELSE None]

Own(schema) == [n \in Part |-> IF n = "Cursor" THEN schema ELSE None]

Fragment(alias, path, item, schema) ==
    [alias |-> alias, path |-> path, item |-> item, parts |-> Own(schema)]

MCFragments ==
    {Fragment("flows", "/a", "send", None),
     Fragment("flows", "/a", "send reworded", None),
     Fragment("flows", "/b", "send", None),
     Fragment("nexus", "/b", "list", "weni"),
     Fragment("nexus", "/c", "list", "other")}
=============================================================================
