------------------------------ MODULE MCWeniAccess ------------------------------
(***************************************************************************)
(* Requests with every kind of token, that name themselves, each other or  *)
(* nobody, in worlds where two facts change under way.                     *)
(***************************************************************************)
EXTENDS WeniAccess, TLC

Bearer(kind, owner, said, decodes) ==
    [kind |-> kind, owner |-> owner, claims |-> said, decodes |-> decodes]

MCHolds ==
    [t \in Token |->
        CASE t = "jwt-ann"   -> Bearer("jwt", "ann", [NoClaims EXCEPT !.project = "p1", !.user = "ann"], TRUE)
          [] t = "jwt-store" -> Bearer("jwt", "ann", [NoClaims EXCEPT !.vtex = "store", !.account = "acc"], TRUE)
          [] t = "jwt-bare"  -> Bearer("jwt", "ann", [NoClaims EXCEPT !.user = "ann"], TRUE)
          [] t = "jwt-svc"   -> Bearer("jwt", "svc", [NoClaims EXCEPT !.project = "p1", !.internal = TRUE], TRUE)
          [] t = "kc-ann"    -> Bearer("keycloak", "ann", [NoClaims EXCEPT !.user = "ann"], TRUE)
          [] t = "kc-p1"     -> Bearer("keycloak", "ann", [NoClaims EXCEPT !.project = "p1", !.account = "acc"], TRUE)
          [] t = "kc-svc"    -> Bearer("keycloak", "svc", [NoClaims EXCEPT !.user = "svc"], TRUE)
          [] t = "kc-opaque" -> Bearer("keycloak", "svc", [NoClaims EXCEPT !.internal = TRUE], FALSE)
          [] t = "se-ann"    -> Bearer("session", "ann", [NoClaims EXCEPT !.project = "p1", !.user = "ann"], FALSE)
          [] t = "noise"     -> Bearer("other", "ann", NoClaims, FALSE)]

MCToken == {"jwt-ann", "jwt-store", "jwt-bare", "jwt-svc", "kc-ann", "kc-p1", "kc-svc",
            "kc-opaque", "se-ann", "noise"}

Nothing == [project |-> None, vtex |-> None, user |-> None]
Naming(p, v, u) == [project |-> p, vtex |-> v, user |-> u]

\* Where the request names what: url, query, headers, body, user_email spelled out.
Named4(url, query, headers, body, spelled) ==
    [url |-> url, query |-> query, headers |-> headers, body |-> body, spelled |-> spelled]

MCPlaces ==
    {Named4(Nothing, Nothing, Nothing, Nothing, FALSE),
     Named4(Naming("p2", None, None), Naming(None, None, "bob"), Nothing, Naming("p1", "store", None), TRUE),
     Named4(Nothing, Naming("p1", None, "bob"), Nothing, Nothing, FALSE),
     Named4(Naming(None, None, "ann"), Naming("p1", None, "bob"), Naming(None, "store", None), Nothing, TRUE)}

Arriving(weni, authz, at, order, permission, needs) ==
    [weni |-> weni, authz |-> authz, chain |-> order, permission |-> permission, needs |-> needs] @@ at

\* Views behind WeniAuthentication, with the token in either header.
WeniRequests ==
    {Arriving(IF Holds[t].kind = "jwt" THEN t ELSE None, IF Holds[t].kind = "jwt" THEN None ELSE t,
              at, <<"weni">>, permission, needs) :
        t \in Token, at \in MCPlaces, permission \in {"authenticated", "internal", "project"},
        needs \in {None, "project", "account"}}

\* Views behind both authenticators, or behind session tokens alone; a header
\* may be missing, and two may disagree.
SessionRequests ==
    {Arriving(weni, authz, at, order, permission, None) :
        weni \in {None, "jwt-store"}, authz \in {None, "se-ann", "kc-ann"}, at \in MCPlaces,
        order \in {<<"session">>, <<"session", "weni">>}, permission \in {"connect", "internal", "project"}}

MCCarried == WeniRequests \cup SessionRequests

AllLive == {<<"live", t>> : t \in Token}
MCInitially ==
    {AllLive \cup {<<"internal", "svc">>, <<"org", "p1">>, <<"member", "ann", "p1">>,
                   <<"level", "ann", "p1", 3>>, <<"level", "bob", "p2", 2>>},
     AllLive \cup {<<"org", "p1">>, <<"level", "ann", "p1", 4>>, <<"level", "bob", "p1", 4>>}}

\* A token expires; an internal caller, a membership, a role comes or goes.
MCMutable ==
    {<<"live", "jwt-ann">>, <<"live", "kc-ann">>, <<"live", "se-ann">>,
     <<"internal", "svc">>, <<"internal", "ann">>, <<"member", "ann", "p1">>,
     <<"level", "ann", "p1", 1>>, <<"level", "ann", "p1", 2>>, <<"level", "bob", "p1", 3>>}
=============================================================================
