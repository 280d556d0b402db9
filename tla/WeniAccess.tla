------------------------------- MODULE WeniAccess -------------------------------
(***************************************************************************)
(* What follows authentication: the permission class of the view asks the  *)
(* permissions service, Connect or the database for what it needs, and the *)
(* view reads the context.                                                 *)
(***************************************************************************)
EXTENDS WeniAuth

CONSTANTS
    Initially,  \* the worlds a request may arrive in
    Required    \* roles that has_required_role of the host's subclass accepts

VARIABLES
    subject,  \* the user whose level is asked for
    answer    \* status of the answer, None while there is none

vars == <<world, req, pc, chain, identity, subject, answer>>

ASSUME RoleAssumption == Initially \subseteq SUBSET Fact /\ Required \subseteq Levels

-----------------------------------------------------------------------------
\* isinstance(request.auth, WeniAuthContext)
HasWeniContext == ctx # None /\ ctx.type \in {"jwt", "keycloak"}

\* get_user_email, what a view acts as
UserEmail ==
    IF HasWeniContext /\ ctx.user # None THEN ctx.user
    ELSE IF user # None THEN user.email ELSE None

Respond(code) ==
    /\ answer' = code
    /\ Goto("done")

\* wrong: DRF's answer to a principal without permission, for everybody
DeniedAlways == Respond(403)

\* permission_denied: 401 when no authenticator recognized the caller, which
\* authenticate_header keeps from becoming a 403
Denied == Respond(IF user = None THEN 401 ELSE 403)

Checking(permission) == pc = "permission" /\ req.permission = permission

\* The permission holds and the view runs.
Granted == Goto("view") /\ UNCHANGED <<subject, answer>>

-----------------------------------------------------------------------------
(* IsWeniAuthenticated *)

CheckContext ==
    /\ Checking("authenticated")
    /\ IF HasWeniContext THEN Granted ELSE Denied /\ UNCHANGED subject

-----------------------------------------------------------------------------
(* CanCommunicateInternally *)

\* What the context says of the caller, else the row of a Django user
CheckInternal ==
    /\ Checking("internal")
    /\ IF HasWeniContext /\ ctx.internal THEN Granted
       ELSE IF user # None /\ user.django THEN Goto("internal") /\ UNCHANGED <<subject, answer>>
       ELSE Denied /\ UNCHANGED subject

QueryInternal ==
    /\ pc = "internal"
    /\ IF True(<<"internal", user.email>>) THEN Granted ELSE Denied /\ UNCHANGED subject

-----------------------------------------------------------------------------
(* HasProjectPermission *)

\* wrong: asks about the caller's user unless the query names one
AskedByRequest == Or(IF req.spelled THEN req.query.user ELSE None, UserEmail)

\* The user to ask about: an internal caller's is the user_email of the query,
\* anybody else's its own.
Asked ==
    IF ctx.internal THEN (IF req.spelled THEN req.query.user ELSE None)
    ELSE Or(ctx.user, user.email)

\* wrong: lets a request through that names nobody to ask about
MayAskAnyone == HasWeniContext /\ ctx.project # None

MayAsk == HasWeniContext /\ ctx.project # None /\ Asked # None

AskService ==
    /\ Checking("project")
    /\ MayAsk
    /\ subject' = Asked
    /\ Goto("service")
    /\ UNCHANGED answer

AskNobody ==
    /\ Checking("project")
    /\ ~MayAsk
    /\ Denied
    /\ UNCHANGED subject

\* wrong: a minimum instead of a list
AllowedFrom == {l \in Levels : l >= 2}

\* ALLOWED_LEVELS: contributor and moderator
Allowed == {2, 3}

\* permissions_service.get_user_permissions, answered 200
ServiceGrants ==
    /\ pc = "service"
    /\ \E l \in Allowed : True(<<"level", subject, ctx.project, l>>)
    /\ Granted

\* another level, or another status
ServiceDenies ==
    /\ pc = "service"
    /\ Denied
    /\ UNCHANGED subject

\* A service that raises ends the request, like a query that does.
CallRaises ==
    /\ pc \in {"service", "internal"} \/ FlagQueryRaises
    /\ Respond(500)
    /\ UNCHANGED subject

-----------------------------------------------------------------------------
(* ConnectProjectAuthorization and ConnectAuthorizationClient *)

AskConnect ==
    /\ Checking("connect")
    /\ user # None /\ project # None /\ req.authz # None
    /\ Goto("connect")
    /\ UNCHANGED <<subject, answer>>

AskConnectNothing ==
    /\ Checking("connect")
    /\ user = None \/ project = None \/ req.authz = None
    /\ Denied
    /\ UNCHANGED subject

\* Connect knows the caller by the forwarded header, and answers its role.
ConnectGrants ==
    /\ pc = "connect"
    /\ True(<<"live", req.authz>>)
    /\ \E role \in Required : True(<<"level", Holds[req.authz].owner, project, role>>)
    /\ Granted

\* Another role, another status, no JSON, no answer in time.
ConnectDenies ==
    /\ pc = "connect"
    /\ Denied
    /\ UNCHANGED subject

-----------------------------------------------------------------------------
(* The view. *)

\* WeniAuthViewMixin.auth and the field the view requires of it
View ==
    /\ pc = "view"
    /\ IF req.needs = None THEN Respond(200)
       ELSE IF HasWeniContext /\ ctx[req.needs] # None THEN Respond(200)
       ELSE IF HasWeniContext /\ req.needs = "account" THEN Respond(400)
       ELSE Respond(403)
    /\ UNCHANGED subject

Init ==
    /\ facts \in Initially /\ was = facts /\ changes = 0
    /\ req \in Carried
    /\ pc = "authenticate" /\ chain = req.chain
    /\ claims = NoClaims /\ user = None /\ ctx = None /\ project = None
    /\ subject = None /\ answer = None

Authorize ==
    \/ CheckContext \/ CheckInternal \/ QueryInternal
    \/ AskService \/ AskNobody \/ ServiceGrants \/ ServiceDenies \/ CallRaises
    \/ AskConnect \/ AskConnectNothing \/ ConnectGrants \/ ConnectDenies
    \/ View

\* The worker's next step.
Proceed ==
    /\ \/ Authenticate /\ UNCHANGED <<subject, answer>>
       \/ AuthenticationFails /\ Respond(401) /\ UNCHANGED <<chain, identity, subject>>
       \/ Authorize /\ UNCHANGED <<chain, identity>>
    /\ UNCHANGED <<world, req>>

Next ==
    \/ Proceed
    \/ WorldChanges /\ UNCHANGED <<req, pc, chain, identity, subject, answer>>

Spec == Init /\ [][Next]_vars

-----------------------------------------------------------------------------
(* Properties. *)

\* Every variable has the type its comment gives it; who the caller is and what
\* its context says are settled together, and nothing is asked before.
WeniTypeOK ==
    /\ facts \subseteq was /\ was \subseteq Fact /\ changes \in 0..MaxChanges
    /\ req \in Carried
    /\ pc \in {"authenticate", "oidc", "claims", "flag", "org", "member", "fallback",
              "permission", "internal", "service", "connect", "view", "done"}
    /\ chain \in Seq({"session", "weni"})
    /\ claims \in Claims
    /\ user \in Principal \cup {None}
    /\ ctx \in Context \cup {None}
    /\ project \in Project \cup {None}
    /\ subject \in User \cup {None}
    /\ answer \in Status \cup {None}
    /\ (pc = "done") <=> (answer # None)
    /\ (user = None) <=> (ctx = None)
    /\ pc \in {"authenticate", "oidc", "claims", "flag", "org", "member", "fallback"} => ctx = None
    /\ pc = "service" => HasWeniContext /\ subject # None

Sources == {req.url, req.query, req.headers, req.body}

\* The tenant claims of a JWT "are immutable - request values never
\* override them": whatever the request names and whichever calls
\* failed, a JWT caller's tenant is its token's, also where the token says
\* nothing; a Keycloak caller's is its token's if the token can be read, else
\* one the request names, the URL first; the account is never the request's.
TenantFromToken ==
    HasWeniContext =>
        LET t == Holds[ExtractToken]
        IN  /\ ctx.account \in {t.claims.account, None}
            /\ \A f \in {"project", "vtex"} :
                  /\ ctx.type = "jwt" \/ (t.decodes /\ t.claims[f] # None) => ctx[f] = t.claims[f]
                  /\ ctx[f] \in {t.claims[f], None} \cup {s[f] : s \in Sources}
                  /\ ctx.type = "keycloak" /\ t.claims[f] = None /\ req.url[f] # None
                        => ctx[f] = req.url[f]

\* "An end user cannot impersonate another by passing a different user": nobody but an internal Keycloak
\* caller acts as a user its token does not stand for, and internal is only who
\* a claim or a row made so while the request was handled.  A session acts as
\* its own user or as the stand-in of an organization that exists.
NoImpersonation ==
    ctx # None =>
        LET t == Holds[IF HasWeniContext THEN ExtractToken ELSE req.authz]
        IN  /\ HasWeniContext /\ ctx.user \notin {t.claims.user, None} =>
                  /\ ctx.type = "keycloak"
                  /\ ctx.user = t.owner \/ (ctx.internal /\ \E s \in Sources : s.user = ctx.user)
            /\ ctx.internal => t.claims.internal
                               \/ (ctx.type = "keycloak" /\ <<"internal", t.owner>> \in was)
            /\ ctx.type = "session" /\ user.email # t.claims.user =>
                  user.email \in StandIn /\ <<"org", t.claims.project>> \in was
            /\ subject # None /\ ~ctx.internal => subject \in {t.claims.user, t.owner}

\* The permission held.
Passed == pc = "view" \/ answer \in {200, 400}

\* No request passes its permission, whichever calls fail or repeat and however
\* the world moves meanwhile, unless at some moment since its arrival the token
\* was valid and the very user and project asked about had a role that allows it.
GrantHeld ==
    Passed =>
        /\ ctx # None
        /\ <<"live", IF HasWeniContext THEN ExtractToken ELSE req.authz>> \in was
        /\ req.permission = "authenticated" => HasWeniContext
        /\ req.permission = "internal" => ctx.internal \/ <<"internal", user.email>> \in was
        /\ req.permission = "project" =>
              \E l \in {2, 3} : <<"level", subject, ctx.project, l>> \in was
        /\ req.permission = "connect" =>
              /\ Kind(req.authz) = "session" /\ project = Session.project
              /\ \E l \in Required : <<"level", Session.user, project, l>> \in was

\* The user whose level was checked is the user the view acts as: for everyone
\* who is not internal, and for internal Keycloak callers that name one user.
OneSubject ==
    Passed /\ req.permission = "project" =>
        \/ subject = UserEmail
        \/ ctx.internal /\ (ctx.type = "keycloak" => \E s \in Sources : s.user \notin {subject, None})

\* test_authenticators, "401-vs-403": 401 says that no credential was accepted,
\* 403 and 400 that one was, and only a call that raised is a 500.
StatusTellsWhy ==
    /\ answer = 401 => ctx = None
    /\ answer \in {200, 400, 403} => ctx # None
    /\ answer = 400 => req.needs = "account" /\ ctx.account = None
    /\ answer = 500 => ctx = None \/ req.permission \in {"internal", "project"}

-----------------------------------------------------------------------------
(* What the documents say and the code does not do (see README, Findings). *)

\* docs/api_gateway/en/07-troubleshooting.md: where session tokens alone
\* authenticate, a request whose token is missing, invalid or expired, or whose
\* store cannot be reached, is "not authenticated" and refused with a 403 by DRF.
UnauthenticatedIsForbidden ==
    req.chain = <<"session">> /\ ctx = None /\ answer \in {401, 403} => answer = 403

=============================================================================
