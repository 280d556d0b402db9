-------------------------------- MODULE WeniAuth --------------------------------
(***************************************************************************)
(* One request on its way through the authenticators of a view             *)
(* (src/weni_commons/auth/): WeniAuthentication, which takes a Weni JWT or *)
(* else a Keycloak token, and SessionTokenAuthentication, whose token      *)
(* lookup is SessionToken and whose search for a Django user is here.      *)
(* Each call to Keycloak or to the database is a step of its own and may   *)
(* fail, and the world the calls ask about changes between them.           *)
(*                                                                         *)
(* A user stands for its email.  A request's values are looked up by       *)
(* field: the spellings of a key and an unreadable body do not matter.     *)
(***************************************************************************)
EXTENDS Integers, Sequences

CONSTANTS
    User, Project, Account,
    Vtex,       \* VTEX accounts
    Token,      \* what an authentication header may hold
    Holds,      \* token -> its kind, its owner, its claims, whether it decodes
    Carried,    \* the requests that may arrive
    StandIn,    \* users _resolve_fallback_user may find for an organization
    Mutable,    \* bound: the facts that may change during a request
    MaxChanges, \* bound: how often the world changes during a request
    None

VARIABLES
    facts,    \* what is true in the world
    was,      \* history: what has been true since the request arrived
    changes,  \* number of changes of the world
    req,      \* what the request carries
    pc,       \* where its worker is
    chain,    \* authenticators not tried yet
    claims,   \* claims of the Keycloak token, as far as they could be read
    user,     \* request.user
    ctx,      \* request.auth
    project   \* request.project_uuid

world == <<facts, was, changes>>
identity == <<claims, user, ctx, project>>

-----------------------------------------------------------------------------
\* PermissionLevel
Levels == 0..5

\* Facts: a token is valid (unexpired, not revoked); a user holds the Django
\* permission can_communicate_internally; a user is a member of the
\* organization of a project; a project has an organization; a user's level.
Fact == ({"live"} \X Token) \cup ({"internal"} \X User) \cup ({"member"} \X User \X Project)
        \cup ({"org"} \X Project) \cup ({"level"} \X User \X Project \X Levels)

\* One of the four places of a request where values are looked up.
Source == [project : Project \cup {None}, vtex : Vtex \cup {None}, user : User \cup {None}]

Claims == [project : Project \cup {None}, vtex : Vtex \cup {None}, user : User \cup {None},
           account : Account \cup {None}, internal : BOOLEAN]
NoClaims == [project |-> None, vtex |-> None, user |-> None, account |-> None, internal |-> FALSE]

\* request.user, request.auth and the status of the answer
Principal == [email : User \cup {None}, django : BOOLEAN]
Context == [type : {"jwt", "keycloak", "session"}, project : Project \cup {None},
            vtex : Vtex \cup {None}, user : User \cup {None}, internal : BOOLEAN,
            account : Account \cup {None}]
Status == {200, 400, 401, 403, 500}

\* spelled: the query names the user by the key user_email, not by user
Requests == [weni : Token \cup {None}, authz : Token \cup {None},
             url : Source, query : Source, headers : Source, body : Source, spelled : BOOLEAN,
             chain : Seq({"session", "weni"}),
             permission : {"authenticated", "internal", "project", "connect"},
             needs : {None, "project", "vtex", "account"}]

ASSUME AuthAssumption ==
    /\ Holds \in [Token -> [kind : {"jwt", "keycloak", "session", "other"}, owner : User,
                            claims : Claims, decodes : BOOLEAN]]
    /\ Carried \subseteq Requests
    /\ StandIn \subseteq User
    /\ Mutable \subseteq Fact
    /\ MaxChanges \in Nat
    /\ None \notin Token \cup User \cup Project \cup Vtex \cup Account
    /\ None \notin Principal \cup Context \cup Status

\* The repository reads no session token without a project and a user.
ASSUME StoreAssumption ==
    \A t \in Token : Holds[t].kind = "session" =>
        Holds[t].claims.project # None /\ Holds[t].claims.user = Holds[t].owner

-----------------------------------------------------------------------------
\* Python's "a or b"
Or(a, b) == IF a # None THEN a ELSE b

Kind(t) == IF t = None THEN "none" ELSE Holds[t].kind

True(f) == f \in facts

\* extract_token: X-Weni-Auth before Authorization
ExtractToken == Or(req.weni, req.authz)

\* resolve_from_request
Named(f) == Or(req.url[f], Or(req.query[f], Or(req.headers[f], req.body[f])))

Goto(where) == pc' = where

\* The next authenticator of the view has its turn.
TryNext == chain' = Tail(chain) /\ Goto("authenticate")

Trying(authenticator) == pc = "authenticate" /\ chain # <<>> /\ Head(chain) = authenticator

\* DRF takes the pair an authenticator returns and asks no other.
Authenticated(who, django, auth) ==
    /\ user' = [email |-> who, django |-> django]
    /\ ctx' = auth
    /\ Goto("permission")

-----------------------------------------------------------------------------
(* The world. *)

\* A user has one level in a project.
Rivals(f) == {g \in facts : f[1] = "level" /\ g[1] = "level" /\ f[2] = g[2] /\ f[3] = g[3]}

WorldChanges ==
    /\ changes < MaxChanges
    /\ pc # "done"
    /\ \/ \E f \in Mutable \ facts : facts' = (facts \ Rivals(f)) \cup {f}
       \/ \E f \in Mutable \cap facts : facts' = facts \ {f}
    /\ was' = was \cup facts'
    /\ changes' = changes + 1

-----------------------------------------------------------------------------
(* WeniAuthentication: the Weni JWT. *)

\* No header: DRF tries the next authenticator.
NoToken ==
    /\ Trying("weni")
    /\ ExtractToken = None
    /\ TryNext
    /\ UNCHANGED identity

\* wrong: tenant fields the token leaves open are taken from the request
JwtContextOpen(c) ==
    [type |-> "jwt", project |-> Or(c.project, Named("project")), vtex |-> Or(c.vtex, Named("vtex")),
     user |-> c.user, internal |-> c.internal, account |-> c.account]

\* _build_jwt_auth_context
JwtContext(c) ==
    [type |-> "jwt", project |-> c.project, vtex |-> c.vtex,
     user |-> c.user, internal |-> c.internal, account |-> c.account]

HasTenant(c) == c.project # None \/ c.vtex # None

AcceptJwt ==
    /\ Trying("weni")
    /\ Kind(ExtractToken) = "jwt" /\ True(<<"live", ExtractToken>>)
    /\ LET c == Holds[ExtractToken].claims
       IN  HasTenant(c) /\ Authenticated(c.user, FALSE, JwtContext(c))
    /\ UNCHANGED <<chain, claims, project>>

\* Expired, or no tenant: AuthenticationFailed, without the Keycloak fallback.
RejectJwt ==
    /\ Trying("weni")
    /\ Kind(ExtractToken) = "jwt"
    /\ ~True(<<"live", ExtractToken>>) \/ ~HasTenant(Holds[ExtractToken].claims)

\* The key does not verify it (or there is none): Keycloak's turn.
NotJwt ==
    /\ Trying("weni")
    /\ ExtractToken # None /\ Kind(ExtractToken) # "jwt"
    /\ Goto("oidc")
    /\ UNCHANGED <<chain, identity>>

-----------------------------------------------------------------------------
(* WeniAuthentication: Keycloak. *)

Owner == Holds[ExtractToken].owner

\* backend.get_or_create_user
GetOrCreateUser ==
    /\ pc = "oidc"
    /\ Kind(ExtractToken) = "keycloak" /\ True(<<"live", ExtractToken>>)
    /\ Goto("claims")
    /\ UNCHANGED <<chain, identity>>

\* It raises or returns no user, or no backend is configured: AuthenticationFailed.
RejectKeycloak == pc = "oidc"

\* verify_token, else what the token says by itself, else the Django user
ExtractClaims ==
    /\ pc = "claims"
    /\ \E verified \in BOOLEAN :
          /\ verified => True(<<"live", ExtractToken>>)
          /\ claims' = IF verified \/ Holds[ExtractToken].decodes THEN Holds[ExtractToken].claims
                       ELSE [NoClaims EXCEPT !.user = Owner]
    /\ Goto("flag")
    /\ UNCHANGED <<chain, user, ctx, project>>

\* wrong: whoever calls, the user is the one the request names
NamedUser(internal) == Or(Named("user"), Or(claims.user, Owner))

\* _resolve_keycloak_user_email
ActingUser(internal) ==
    Or(IF internal THEN Named("user") ELSE None, Or(claims.user, Owner))

\* _build_keycloak_auth_context
KeycloakContext(internal) ==
    [type |-> "keycloak",
     project |-> Or(claims.project, Named("project")), vtex |-> Or(claims.vtex, Named("vtex")),
     user |-> ActingUser(internal), internal |-> internal, account |-> claims.account]

\* _resolve_keycloak_is_internal: the claim, or the user's row as it is now
AcceptKeycloak ==
    /\ pc = "flag"
    /\ Authenticated(Owner, TRUE, KeycloakContext(claims.internal \/ True(<<"internal", Owner>>)))
    /\ UNCHANGED <<chain, claims, project>>

\* The query for the row raises, and nothing catches it.
FlagQueryRaises == pc = "flag" /\ ~claims.internal

-----------------------------------------------------------------------------
(* SessionTokenAuthentication and resolve_session_user. *)

Session == Holds[req.authz].claims

\* The stores know the token: its project lands on the request.
ValidateSession ==
    /\ Trying("session")
    /\ Kind(req.authz) = "session" /\ True(<<"live", req.authz>>)
    /\ project' = Session.project
    /\ Goto("org")
    /\ UNCHANGED <<chain, claims, user, ctx>>

\* No bearer token, an unknown one, or a store that fails: None.
NoSession ==
    /\ Trying("session")
    /\ TryNext
    /\ UNCHANGED identity

SessionContext ==
    [type |-> "session", project |-> Session.project, vtex |-> None, user |-> Session.user,
     internal |-> FALSE, account |-> None]

\* _lookup_org finds none, or no model is configured: a bare SessionUser.
LookupOrg ==
    /\ pc = "org"
    /\ IF True(<<"org", project>>)
         THEN Goto("member") /\ UNCHANGED <<user, ctx>>
         ELSE Authenticated(Session.user, FALSE, SessionContext)
    /\ UNCHANGED <<chain, claims, project>>

\* The Django user of the session, if _org_has_user
FindUser ==
    /\ pc = "member"
    /\ IF True(<<"member", Session.user, project>>)
         THEN Authenticated(Session.user, TRUE, SessionContext)
         ELSE Goto("fallback") /\ UNCHANGED <<user, ctx>>
    /\ UNCHANGED <<chain, claims, project>>

\* _resolve_fallback_user: the internal user, the organization's creator, or none
FallbackUser ==
    /\ pc = "fallback"
    /\ \/ \E u \in StandIn : Authenticated(u, TRUE, SessionContext)
       \/ Authenticated(Session.user, FALSE, SessionContext)
    /\ UNCHANGED <<chain, claims, project>>

\* Any exception on the way: None, and what was set on the request stays.
SessionUserFails ==
    /\ pc \in {"org", "member", "fallback"}
    /\ TryNext
    /\ UNCHANGED identity

-----------------------------------------------------------------------------
\* Nobody authenticated the request: request.user is AnonymousUser.
Anonymous ==
    /\ pc = "authenticate"
    /\ chain = <<>>
    /\ Goto("permission")
    /\ UNCHANGED <<chain, identity>>

Authenticate ==
    \/ NoToken \/ AcceptJwt \/ NotJwt
    \/ GetOrCreateUser \/ ExtractClaims \/ AcceptKeycloak
    \/ ValidateSession \/ NoSession \/ LookupOrg \/ FindUser \/ FallbackUser \/ SessionUserFails
    \/ Anonymous

AuthenticationFails == RejectJwt \/ RejectKeycloak
=============================================================================
