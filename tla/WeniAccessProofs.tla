---------------------------- MODULE WeniAccessProofs ----------------------------
(***************************************************************************)
(* Theorems about WeniAccess for any tokens, requests, facts and roles,    *)
(* and any number of changes of the world, checked by TLAPS.               *)
(***************************************************************************)
EXTENDS WeniAccess, SequenceTheorems, TLAPS

-----------------------------------------------------------------------------
(* The inductive invariant. *)

Live(t) == <<"live", t>> \in was

\* What a worker knows at each step of the authentication.
KnownSoFar ==
    /\ pc \in {"claims", "flag"} => Kind(ExtractToken) = "keycloak" /\ Live(ExtractToken)
    /\ pc = "flag" =>
          \/ claims = Holds[ExtractToken].claims
          \/ ~Holds[ExtractToken].decodes /\ claims = [NoClaims EXCEPT !.user = Owner]
    /\ project # None =>
          Kind(req.authz) = "session" /\ Live(req.authz) /\ project = Session.project
    /\ pc \in {"org", "member", "fallback"} => project # None
    /\ pc \in {"member", "fallback"} => <<"org", project>> \in was

FromJwt ==
    /\ Kind(ExtractToken) = "jwt" /\ Live(ExtractToken)
    /\ ctx = JwtContext(Holds[ExtractToken].claims)
    /\ user = [email |-> Holds[ExtractToken].claims.user, django |-> FALSE]

FromKeycloak ==
    /\ Kind(ExtractToken) = "keycloak" /\ Live(ExtractToken)
    /\ \/ claims = Holds[ExtractToken].claims
       \/ ~Holds[ExtractToken].decodes /\ claims = [NoClaims EXCEPT !.user = Owner]
    /\ \E internal \in BOOLEAN :
          /\ ctx = KeycloakContext(internal)
          /\ internal => claims.internal \/ <<"internal", Owner>> \in was
    /\ user = [email |-> Owner, django |-> TRUE]

FromSession ==
    /\ Kind(req.authz) = "session" /\ Live(req.authz) /\ project = Session.project
    /\ ctx = SessionContext
    /\ user.email = Session.user \/ (user.email \in StandIn /\ <<"org", project>> \in was)

\* Where the context of a recognized caller comes from.
Recognized == ctx # None => FromJwt \/ FromKeycloak \/ FromSession

\* What the permission classes have established when they ask, and when the
\* view runs.
Checked ==
    /\ pc \in {"internal", "service", "connect", "view"} => ctx # None
    /\ pc = "internal" => req.permission = "internal"
    /\ pc = "service" => req.permission = "project" /\ MayAsk /\ subject = Asked
    /\ pc = "connect" => req.permission = "connect" /\ project # None
    /\ subject # None => MayAsk /\ subject = Asked
    /\ answer \in {200, 400} => ctx # None
    /\ Passed => GrantHeld

AccessInv == WeniTypeOK /\ KnownSoFar /\ Recognized /\ Checked

-----------------------------------------------------------------------------
(* Types. *)

LEMMA OrTypes ==
    ASSUME NEW S, NEW a \in S \cup {None}, NEW b \in S \cup {None}
    PROVE  Or(a, b) \in S \cup {None}
BY DEF Or

LEMMA TokenTypes ==
    ASSUME req \in Requests
    PROVE  /\ ExtractToken \in Token \cup {None} /\ req.authz \in Token \cup {None}
           /\ \A t \in Token \cup {None} : Kind(t) # "none" =>
                 /\ t \in Token
                 /\ Kind(t) = Holds[t].kind
                 /\ Holds[t].claims \in Claims
                 /\ Holds[t].owner \in User /\ Holds[t].decodes \in BOOLEAN
<1>1. req.weni \in Token \cup {None} /\ req.authz \in Token \cup {None}
  BY DEF Requests
<1>2. ExtractToken \in Token \cup {None}
  BY <1>1, OrTypes DEF ExtractToken
<1>3. ASSUME NEW t \in Token \cup {None}, Kind(t) # "none"
      PROVE  /\ t \in Token /\ Kind(t) = Holds[t].kind
             /\ Holds[t].claims \in Claims
             /\ Holds[t].owner \in User /\ Holds[t].decodes \in BOOLEAN
  BY <1>3, AuthAssumption DEF Kind
<1> QED
  BY <1>1, <1>2, <1>3

LEMMA NamedTypes ==
    ASSUME req \in Requests
    PROVE  /\ Named("project") \in Project \cup {None}
           /\ Named("vtex") \in Vtex \cup {None}
           /\ Named("user") \in User \cup {None}
<1>1. req.url \in Source /\ req.query \in Source /\ req.headers \in Source /\ req.body \in Source
  BY DEF Requests
<1>2. Named("project") \in Project \cup {None}
  BY <1>1, OrTypes DEF Named, Source
<1>3. Named("vtex") \in Vtex \cup {None}
  BY <1>1, OrTypes DEF Named, Source
<1>4. Named("user") \in User \cup {None}
  BY <1>1, OrTypes DEF Named, Source
<1> QED
  BY <1>2, <1>3, <1>4

\* The contexts the authenticators build are contexts.
LEMMA ContextTypes ==
    ASSUME req \in Requests, claims \in Claims
    PROVE  /\ \A c \in Claims : JwtContext(c) \in Context
           /\ Owner \in User => \A internal \in BOOLEAN : KeycloakContext(internal) \in Context
           /\ Session \in Claims => SessionContext \in Context
<1>1. \A c \in Claims : JwtContext(c) \in Context
  BY DEF JwtContext, Context, Claims
<1>2. ASSUME Owner \in User, NEW internal \in BOOLEAN
      PROVE  KeycloakContext(internal) \in Context
  <2>1. /\ claims.project \in Project \cup {None} /\ claims.vtex \in Vtex \cup {None}
        /\ claims.user \in User \cup {None} /\ claims.account \in Account \cup {None}
    BY DEF Claims
  <2>2. /\ Or(claims.project, Named("project")) \in Project \cup {None}
        /\ Or(claims.vtex, Named("vtex")) \in Vtex \cup {None}
    BY <2>1, NamedTypes, OrTypes
  <2>3. ActingUser(internal) \in User \cup {None}
    <3>1. (IF internal THEN Named("user") ELSE None) \in User \cup {None}
      BY NamedTypes
    <3>2. Or(claims.user, Owner) \in User \cup {None}
      BY <1>2, <2>1, OrTypes
    <3> QED
      BY <3>1, <3>2, OrTypes DEF ActingUser
  <2> QED
    BY <2>1, <2>2, <2>3 DEF KeycloakContext, Context
<1>3. Session \in Claims => SessionContext \in Context
  BY DEF SessionContext, Context, Claims
<1> QED
  BY <1>1, <1>2, <1>3

LEMMA ClaimsTypes ==
    NoClaims \in Claims /\ \A u \in User : [NoClaims EXCEPT !.user = u] \in Claims
BY DEF NoClaims, Claims

\* An authenticator that succeeds leaves a principal and its context.
LEMMA AuthenticatedTypes ==
    ASSUME NEW who \in User \cup {None}, NEW django \in BOOLEAN, NEW auth \in Context,
           WeniTypeOK, Authenticated(who, django, auth),
           UNCHANGED <<world, req, chain, claims, project, subject, answer>>, answer = None
    PROVE  WeniTypeOK' /\ ctx' # None /\ user' # None
<1>1. [email |-> who, django |-> django] \in Principal
  BY DEF Principal
<1> QED
  BY <1>1, AuthAssumption DEF WeniTypeOK, Authenticated, Goto, world

\* A step of a worker that only moves it on, asks or answers.
LEMMA MovedTypes ==
    ASSUME WeniTypeOK, UNCHANGED <<world, req, identity>>, chain' \in {chain, Tail(chain)},
           chain' = chain \/ chain # <<>>,
           subject' \in User \cup {None}, answer' \in Status \cup {None},
           pc' \in {"authenticate", "oidc", "claims", "flag", "org", "member", "fallback",
                   "permission", "internal", "service", "connect", "view", "done"},
           (pc' = "done") <=> (answer' # None),
           pc' \in {"authenticate", "oidc", "claims", "flag", "org", "member", "fallback"} =>
               pc \in {"authenticate", "oidc", "claims", "flag", "org", "member", "fallback"},
           pc' = "service" => HasWeniContext /\ subject' # None
    PROVE  WeniTypeOK'
<1>1. chain' \in Seq({"session", "weni"})
  BY HeadTailProperties DEF WeniTypeOK
<1> QED
  BY <1>1 DEF WeniTypeOK, world, identity, HasWeniContext

\* The types survive every step of the authenticators.
LEMMA AuthenticateTypes ==
    ASSUME AccessInv, Authenticate, UNCHANGED <<subject, answer, world, req>>
    PROVE  WeniTypeOK'
<1>1. WeniTypeOK /\ req \in Requests /\ claims \in Claims /\ project \in Project \cup {None}
  BY AuthAssumption DEF AccessInv, WeniTypeOK
<1>2. pc # "done" /\ answer = None
  BY DEF AccessInv, WeniTypeOK, Authenticate, NoToken, AcceptJwt, NotJwt, GetOrCreateUser,
         ExtractClaims, AcceptKeycloak, ValidateSession, NoSession, LookupOrg, FindUser,
         FallbackUser, SessionUserFails, Anonymous, Trying
<1>3. subject \in User \cup {None} /\ answer \in Status \cup {None}
  BY DEF AccessInv, WeniTypeOK
<1>4. project # None => Session \in Claims /\ Session.user \in User
  BY <1>1, TokenTypes, StoreAssumption DEF AccessInv, KnownSoFar, Session
<1>5. Kind(ExtractToken) = "keycloak" => Owner \in User /\ Holds[ExtractToken].claims \in Claims
  BY <1>1, TokenTypes DEF Owner
<1>6. CASE NoToken \/ NoSession \/ SessionUserFails
  <2>1. /\ UNCHANGED identity /\ chain' = Tail(chain) /\ pc' = "authenticate"
        /\ pc \in {"authenticate", "org", "member", "fallback"}
    BY <1>6 DEF NoToken, NoSession, SessionUserFails, TryNext, Goto, Trying
  <2>2. CASE chain # <<>>
    BY <1>1, <1>2, <1>3, <2>1, <2>2, MovedTypes
  <2>3. CASE chain = <<>>
    <3>1. chain' \in Seq({"session", "weni"})
      BY <2>1, <2>3 
    <3> QED
      BY <1>1, <1>2, <1>3, <2>1, <3>1 DEF WeniTypeOK, identity, world, HasWeniContext
  <2> QED
    BY <2>2, <2>3
<1>7. CASE NotJwt \/ GetOrCreateUser \/ Anonymous
  BY <1>1, <1>2, <1>3, <1>7, MovedTypes
     DEF NotJwt, GetOrCreateUser, Anonymous, Goto, Trying, identity
<1>8. CASE AcceptJwt
  <2> DEFINE c == Holds[ExtractToken].claims
  <2>1. c \in Claims
    BY <1>1, <1>8, TokenTypes DEF AcceptJwt
  <2>2. JwtContext(c) \in Context /\ c.user \in User \cup {None}
    BY <1>1, <2>1, ContextTypes DEF Claims
  <2>3. Authenticated(c.user, FALSE, JwtContext(c))
    BY <1>8 DEF AcceptJwt
  <2> HIDE DEF c
  <2> QED
    BY <1>1, <1>2, <1>8, <2>2, <2>3, AuthenticatedTypes DEF AcceptJwt
<1>9. CASE ExtractClaims
  <2>1. claims' \in Claims
    BY <1>5, <1>9, ClaimsTypes DEF ExtractClaims, AccessInv, KnownSoFar
  <2> QED
    BY <1>1, <1>2, <1>9, <2>1 DEF ExtractClaims, WeniTypeOK, Goto, world, HasWeniContext
<1>10. CASE AcceptKeycloak
  <2> DEFINE internal == claims.internal \/ True(<<"internal", Owner>>)
  <2>1. internal \in BOOLEAN
    BY <1>1 DEF Claims, True
  <2>2. Owner \in User
    BY <1>5, <1>10 DEF AcceptKeycloak, AccessInv, KnownSoFar
  <2>3. KeycloakContext(internal) \in Context
    BY <1>1, <2>1, <2>2, ContextTypes
  <2>4. Authenticated(Owner, TRUE, KeycloakContext(internal))
    BY <1>10 DEF AcceptKeycloak
  <2> HIDE DEF internal
  <2> QED
    BY <1>1, <1>2, <1>10, <2>2, <2>3, <2>4, AuthenticatedTypes DEF AcceptKeycloak
<1>11. CASE ValidateSession
  <2>1. project' \in Project \cup {None}
    BY <1>1, <1>11, TokenTypes DEF ValidateSession, Session, Claims
  <2> QED
    BY <1>1, <1>2, <1>11, <2>1 DEF ValidateSession, WeniTypeOK, Goto, Trying, world, HasWeniContext
<1>12. CASE LookupOrg \/ FindUser \/ FallbackUser
  <2>1. project # None /\ pc \in {"org", "member", "fallback"}
    BY <1>12 DEF LookupOrg, FindUser, FallbackUser, AccessInv, KnownSoFar
  <2>2. SessionContext \in Context /\ Session.user \in User
    BY <1>1, <1>4, <2>1, ContextTypes
  <2>3. CASE \E who \in User, django \in BOOLEAN : Authenticated(who, django, SessionContext)
    BY <1>1, <1>2, <1>12, <2>2, <2>3, AuthenticatedTypes DEF LookupOrg, FindUser, FallbackUser
  <2>4. CASE pc' \in {"member", "fallback"} /\ UNCHANGED <<user, ctx>>
    BY <1>1, <1>2, <1>3, <1>12, <2>1, <2>4, MovedTypes
       DEF LookupOrg, FindUser, FallbackUser, identity
  <2> QED
    BY <1>12, <2>2, <2>3, <2>4, AuthAssumption DEF LookupOrg, FindUser, FallbackUser, Goto
<1> QED
  BY <1>6, <1>7, <1>8, <1>9, <1>10, <1>11, <1>12 DEF Authenticate

-----------------------------------------------------------------------------
(* Where the context of a caller comes from. *)

\* What is read off the request does not change with it.
LEMMA RequestStays ==
    ASSUME req' = req
    PROVE  /\ ExtractToken' = ExtractToken /\ Owner' = Owner /\ Session' = Session
           /\ SessionContext' = SessionContext
           /\ claims' = claims =>
                 \A internal \in BOOLEAN : KeycloakContext(internal)' = KeycloakContext(internal)
           /\ ctx' = ctx /\ user' = user => MayAsk' = MayAsk /\ Asked' = Asked
           /\ ctx' = ctx => HasWeniContext' = HasWeniContext
<1>1. ExtractToken' = ExtractToken /\ Owner' = Owner /\ Session' = Session
  BY DEF ExtractToken, Owner, Session
<1>2. SessionContext' = SessionContext
  BY <1>1 DEF SessionContext
<1>3. claims' = claims =>
         \A internal \in BOOLEAN : KeycloakContext(internal)' = KeycloakContext(internal)
  BY <1>1 DEF KeycloakContext, ActingUser, Named
<1>4. ctx' = ctx /\ user' = user => MayAsk' = MayAsk /\ Asked' = Asked
  BY DEF MayAsk, Asked, HasWeniContext
<1>5. ctx' = ctx => HasWeniContext' = HasWeniContext
  BY DEF HasWeniContext
<1> QED
  BY <1>1, <1>2, <1>3, <1>4, <1>5

\* A caller once recognized stays who it is.
LEMMA RecognizedStays ==
    ASSUME Recognized, UNCHANGED <<req, identity>>, was \subseteq was'
    PROVE  Recognized'
<1>1. FromJwt => FromJwt'
  BY RequestStays DEF FromJwt, identity, Live
<1>2. FromKeycloak => FromKeycloak'
  BY RequestStays DEF FromKeycloak, identity, Live
<1>3. FromSession => FromSession'
  BY RequestStays DEF FromSession, identity, Live
<1> QED
  BY <1>1, <1>2, <1>3 DEF Recognized, identity

\* What a worker knows holds on, unless it learns a project or moves to a step
\* that rests on more.
LEMMA KnownStays ==
    ASSUME KnownSoFar, req' = req, was \subseteq was', project' = project,
           pc' \in {"claims", "flag"} => pc' = pc /\ claims' = claims,
           pc' \in {"org", "member", "fallback"} => pc' = pc
    PROVE  KnownSoFar'
BY RequestStays DEF KnownSoFar, Live

\* The same for a permission class that has not asked yet.
LEMMA CheckedStays ==
    ASSUME WeniTypeOK, Checked, pc \in {"authenticate", "oidc", "claims", "flag", "org", "member", "fallback"},
           UNCHANGED <<subject, answer>>,
           pc' \in {"authenticate", "oidc", "claims", "flag", "org", "member", "fallback", "permission"}
    PROVE  Checked'
<1>1. subject = None /\ answer = None /\ ctx = None
  BY AuthAssumption DEF WeniTypeOK, Checked, MayAsk, HasWeniContext
<1> QED
  BY <1>1, AuthAssumption DEF Checked, Passed, Status

\* No step of the authenticators takes a caller for what its token is not.
LEMMA AuthenticateKeeps ==
    ASSUME AccessInv, Authenticate, UNCHANGED <<subject, answer, world, req>>
    PROVE  AccessInv'
<1> DEFINE Before == {"authenticate", "oidc", "claims", "flag", "org", "member", "fallback"}
<1>1. /\ WeniTypeOK /\ KnownSoFar /\ Recognized /\ Checked /\ facts \subseteq was
      /\ req' = req /\ was' = was
  BY DEF AccessInv, WeniTypeOK, world
<1>2. WeniTypeOK'
  BY AuthenticateTypes
<1>3. pc \in Before /\ ctx = None
  BY DEF AccessInv, WeniTypeOK, Authenticate, NoToken, AcceptJwt, NotJwt, GetOrCreateUser,
         ExtractClaims, AcceptKeycloak, ValidateSession, NoSession, LookupOrg, FindUser,
         FallbackUser, SessionUserFails, Anonymous, Trying
<1>4. pc' \in Before \cup {"permission"}
  BY DEF Authenticate, NoToken, AcceptJwt, NotJwt, GetOrCreateUser, ExtractClaims,
         AcceptKeycloak, ValidateSession, NoSession, LookupOrg, FindUser, FallbackUser,
         SessionUserFails, Anonymous, Goto, TryNext, Authenticated
<1>5. Checked'
  BY <1>1, <1>3, <1>4, CheckedStays
<1>6. CASE NoToken \/ NoSession \/ SessionUserFails \/ NotJwt \/ GetOrCreateUser \/ Anonymous
  <2>1. UNCHANGED identity
    BY <1>6 DEF NoToken, NoSession, SessionUserFails, NotJwt, GetOrCreateUser, Anonymous, identity
  <2>2. pc' \notin {"flag", "org", "member", "fallback"}
    BY <1>6 DEF NoToken, NoSession, SessionUserFails, NotJwt, GetOrCreateUser, Anonymous,
                TryNext, Goto
  <2>3. pc' = "claims" => Kind(ExtractToken) = "keycloak" /\ Live(ExtractToken)
    BY <1>1, <1>6 DEF NoToken, NoSession, SessionUserFails, NotJwt, GetOrCreateUser, Anonymous,
                      TryNext, Goto, True, Live
  <2>4. KnownSoFar'
    BY <1>1, <2>1, <2>2, <2>3, RequestStays DEF KnownSoFar, Live, identity
  <2> QED
    BY <1>1, <1>2, <1>5, <2>1, <2>4, RecognizedStays DEF AccessInv
<1>7. CASE AcceptJwt
  <2>1. /\ Kind(ExtractToken) = "jwt" /\ Live(ExtractToken)
        /\ ctx' = JwtContext(Holds[ExtractToken].claims)
        /\ user' = [email |-> Holds[ExtractToken].claims.user, django |-> FALSE]
        /\ pc' = "permission" /\ UNCHANGED <<claims, project>>
    BY <1>1, <1>7 DEF AcceptJwt, Authenticated, Goto, True, Live
  <2>2. KnownSoFar'
    BY <1>1, <2>1, KnownStays
  <2>3. FromJwt'
    BY <1>1, <2>1, RequestStays DEF FromJwt, Live
  <2> QED
    BY <1>2, <1>5, <2>2, <2>3 DEF AccessInv, Recognized
<1>8. CASE ExtractClaims
  <2>1. /\ pc = "claims" /\ pc' = "flag" /\ UNCHANGED <<user, ctx, project>>
        /\ \/ claims' = Holds[ExtractToken].claims
           \/ ~Holds[ExtractToken].decodes /\ claims' = [NoClaims EXCEPT !.user = Owner]
    BY <1>8 DEF ExtractClaims, Goto
  <2>2. KnownSoFar'
    BY <1>1, <2>1, RequestStays DEF KnownSoFar, Live
  <2>3. Recognized'
    BY <1>3, <2>1 DEF Recognized
  <2> QED
    BY <1>2, <1>5, <2>2, <2>3 DEF AccessInv
<1>9. CASE AcceptKeycloak
  <2> DEFINE internal == claims.internal \/ True(<<"internal", Owner>>)
  <2>1. /\ pc = "flag" /\ pc' = "permission" /\ UNCHANGED <<claims, project>>
        /\ ctx' = KeycloakContext(internal) /\ user' = [email |-> Owner, django |-> TRUE]
    BY <1>9 DEF AcceptKeycloak, Authenticated, Goto
  <2>2. internal \in BOOLEAN /\ (internal => claims.internal \/ <<"internal", Owner>> \in was)
    BY <1>1 DEF WeniTypeOK, Claims, True
  <2> HIDE DEF internal
  <2>3. KnownSoFar'
    BY <1>1, <2>1, KnownStays
  <2>4. FromKeycloak'
    BY <1>1, <2>1, <2>2, RequestStays DEF FromKeycloak, KnownSoFar, Live
  <2> QED
    BY <1>2, <1>5, <2>3, <2>4 DEF AccessInv, Recognized
<1>10. CASE ValidateSession
  <2>1. /\ Kind(req.authz) = "session" /\ Live(req.authz) /\ project' = Session.project
        /\ pc' = "org" /\ UNCHANGED <<claims, user, ctx>>
    BY <1>1, <1>10 DEF ValidateSession, Goto, True, Live
  <2>2. Session.project # None
    BY <1>1, <2>1, AuthAssumption, TokenTypes, StoreAssumption DEF Session, WeniTypeOK
  <2>3. KnownSoFar'
    BY <1>1, <2>1, <2>2, RequestStays DEF KnownSoFar, Live
  <2>4. Recognized'
    BY <1>3, <2>1 DEF Recognized
  <2> QED
    BY <1>2, <1>5, <2>3, <2>4 DEF AccessInv
<1>11. CASE LookupOrg \/ FindUser \/ FallbackUser
  <2>1. /\ pc \in {"org", "member", "fallback"} /\ UNCHANGED <<claims, project>>
        /\ Kind(req.authz) = "session" /\ Live(req.authz) /\ project = Session.project
    BY <1>1, <1>11 DEF LookupOrg, FindUser, FallbackUser, KnownSoFar
  <2>2. pc' \in {"member", "fallback"} => <<"org", project>> \in was /\ ctx' = ctx
    BY <1>1, <1>11 DEF LookupOrg, FindUser, FallbackUser, KnownSoFar, Authenticated, Goto, True
  <2>3. pc' \in {"member", "fallback", "permission"}
    BY <1>11 DEF LookupOrg, FindUser, FallbackUser, Authenticated, Goto
  <2>4. pc' = "permission" =>
          /\ ctx' = SessionContext
          /\ user'.email = Session.user \/ (user'.email \in StandIn /\ <<"org", project>> \in was)
    BY <1>1, <1>11 DEF LookupOrg, FindUser, FallbackUser, KnownSoFar, Authenticated, Goto
  <2>5. KnownSoFar'
    BY <1>1, <2>1, <2>2, <2>3, RequestStays DEF KnownSoFar, Live
  <2>6. Recognized'
    BY <1>1, <1>3, <2>1, <2>2, <2>3, <2>4, RequestStays DEF Recognized, FromSession, Live
  <2> QED
    BY <1>2, <1>5, <2>5, <2>6 DEF AccessInv
<1> QED
  BY <1>6, <1>7, <1>8, <1>9, <1>10, <1>11 DEF Authenticate

\* A request that ends without its permission.
LEMMA RefusedKeeps ==
    ASSUME AccessInv, NEW code \in {401, 403, 500}, Respond(code), answer = None,
           UNCHANGED <<world, req, chain, identity, subject>>
    PROVE  AccessInv'
<1>1. /\ WeniTypeOK /\ KnownSoFar /\ Recognized /\ Checked
      /\ req' = req /\ was' = was /\ pc' = "done" /\ answer' = code /\ project' = project
      /\ UNCHANGED <<user, ctx, subject>>
  BY DEF AccessInv, Respond, Goto, world, identity
<1>2. WeniTypeOK'
  <2>1. code \in Status /\ code # None
    BY AuthAssumption DEF Status
  <2> QED
    BY <1>1, <2>1, MovedTypes DEF WeniTypeOK
<1>3. KnownSoFar'
  BY <1>1, KnownStays
<1>4. Recognized'
  BY <1>1, RecognizedStays
<1>5. Checked'
  BY <1>1, RequestStays DEF Checked, Passed
<1> QED
  BY <1>2, <1>3, <1>4, <1>5 DEF AccessInv

-----------------------------------------------------------------------------
(* What a permission rests on. *)

LEMMA Credential ==
    ASSUME AccessInv, ctx # None
    PROVE  Live(IF HasWeniContext THEN ExtractToken ELSE req.authz)
BY DEF AccessInv, Recognized, FromJwt, FromKeycloak, FromSession, HasWeniContext,
       JwtContext, KeycloakContext, SessionContext

\* A permission that holds when what it rests on did.
LEMMA GrantedKeeps ==
    ASSUME AccessInv, Granted, UNCHANGED <<world, req, chain, identity>>, answer = None,
           ctx # None, GrantHeld'
    PROVE  AccessInv'
<1>1. /\ WeniTypeOK /\ KnownSoFar /\ Recognized /\ Checked
      /\ req' = req /\ was' = was /\ pc' = "view" /\ project' = project
      /\ UNCHANGED <<user, ctx, subject, answer>>
  BY DEF AccessInv, Granted, Goto, world, identity
<1>2. WeniTypeOK'
  BY <1>1, MovedTypes DEF WeniTypeOK
<1>3. KnownSoFar'
  BY <1>1, KnownStays
<1>4. Recognized'
  BY <1>1, RecognizedStays
<1>5. Checked'
  BY <1>1, RequestStays DEF Checked
<1> QED
  BY <1>2, <1>3, <1>4, <1>5 DEF AccessInv

\* A permission class that asks before it decides.
LEMMA AskedKeeps ==
    ASSUME AccessInv, UNCHANGED <<world, req, chain, identity, answer>>, answer = None,
           ctx # None, pc' \in {"internal", "service", "connect"},
           pc' = "internal" => req.permission = "internal" /\ subject' = subject,
           pc' = "service" => req.permission = "project" /\ MayAsk /\ subject' = Asked,
           pc' = "connect" => req.permission = "connect" /\ project # None /\ subject' = subject
    PROVE  AccessInv'
<1>1. /\ WeniTypeOK /\ KnownSoFar /\ Recognized /\ Checked
      /\ req' = req /\ was' = was /\ project' = project /\ UNCHANGED <<user, ctx, answer>>
  BY DEF AccessInv, world, identity
<1>2. pc' = "service" => HasWeniContext /\ subject' \in User \cup {None} /\ subject' # None
  <2>1. ctx \in Context /\ user \in Principal /\ req.query \in Source
    BY <1>1, AuthAssumption DEF WeniTypeOK, Requests
  <2>2. Asked \in User \cup {None}
    BY <2>1, OrTypes DEF Asked, Context, Principal, Source
  <2> QED
    BY <2>2 DEF MayAsk
<1>3. WeniTypeOK'
  BY <1>1, <1>2, MovedTypes DEF WeniTypeOK
<1>4. KnownSoFar'
  BY <1>1, KnownStays
<1>5. Recognized'
  BY <1>1, RecognizedStays
<1>6. Checked'
  BY <1>1, AuthAssumption, RequestStays DEF Checked, Passed, Status
<1> QED
  BY <1>3, <1>4, <1>5, <1>6 DEF AccessInv

\* No permission is granted that did not hold.
LEMMA AuthorizeKeeps ==
    ASSUME AccessInv, Authorize, UNCHANGED <<world, req, chain, identity>>
    PROVE  AccessInv'
<1>1. /\ WeniTypeOK /\ KnownSoFar /\ Recognized /\ Checked /\ facts \subseteq was
      /\ req' = req /\ was' = was /\ UNCHANGED <<user, ctx, project>>
  BY DEF AccessInv, WeniTypeOK, world, identity
<1>2. answer = None
  BY <1>1 DEF WeniTypeOK, Authorize, CheckContext, CheckInternal, QueryInternal, AskService,
     AskNobody, ServiceGrants, ServiceDenies, CallRaises, AskConnect, AskConnectNothing,
     ConnectGrants, ConnectDenies, View, Checking, FlagQueryRaises
<1>3. HasWeniContext => ctx # None
  BY DEF HasWeniContext
<1>4. ctx # None => Live(IF HasWeniContext THEN ExtractToken ELSE req.authz)'
  BY <1>1, Credential, RequestStays DEF Live
<1>5. ASSUME Denied \/ Respond(500), UNCHANGED subject
      PROVE  AccessInv'
  BY <1>2, <1>5, RefusedKeeps DEF Denied
<1>6. CASE CheckContext
  <2>1. CASE HasWeniContext
    <3>1. Granted /\ req.permission = "authenticated"
      BY <1>6, <2>1 DEF CheckContext, Checking
    <3>2. GrantHeld'
      BY <1>1, <1>3, <1>4, <2>1, <3>1, RequestStays DEF GrantHeld, Live
    <3> QED
      BY <1>2, <1>3, <2>1, <3>1, <3>2, GrantedKeeps
  <2>2. CASE ~HasWeniContext
    BY <1>5, <1>6, <2>2 DEF CheckContext
  <2> QED
    BY <2>1, <2>2
<1>7. CASE CheckInternal
  <2>1. CASE HasWeniContext /\ ctx.internal
    <3>1. Granted /\ req.permission = "internal"
      BY <1>7, <2>1 DEF CheckInternal, Checking
    <3>2. GrantHeld'
      BY <1>1, <1>3, <1>4, <2>1, <3>1, RequestStays DEF GrantHeld, Live
    <3> QED
      BY <1>2, <1>3, <2>1, <3>1, <3>2, GrantedKeeps
  <2>2. CASE ~(HasWeniContext /\ ctx.internal) /\ user # None /\ user.django
    <3>1. /\ pc' = "internal" /\ req.permission = "internal" /\ UNCHANGED <<subject, answer>>
          /\ ctx # None
      BY <1>1, <1>7, <2>2 DEF CheckInternal, Checking, Goto, WeniTypeOK
    <3> QED
      BY <1>2, <3>1, AskedKeeps
  <2>3. CASE ~(HasWeniContext /\ ctx.internal) /\ ~(user # None /\ user.django)
    BY <1>5, <1>7, <2>3 DEF CheckInternal
  <2> QED
    BY <2>1, <2>2, <2>3
<1>8. CASE QueryInternal
  <2>1. pc = "internal" /\ ctx # None /\ req.permission = "internal"
    BY <1>1, <1>8 DEF QueryInternal, Checked
  <2>2. CASE True(<<"internal", user.email>>)
    <3>1. Granted /\ <<"internal", user.email>> \in was
      BY <1>1, <1>8, <2>2 DEF QueryInternal, True
    <3>2. GrantHeld'
      BY <1>1, <1>4, <2>1, <3>1, RequestStays DEF GrantHeld, Live
    <3> QED
      BY <1>2, <2>1, <3>1, <3>2, GrantedKeeps
  <2>3. CASE ~True(<<"internal", user.email>>)
    BY <1>5, <1>8, <2>3 DEF QueryInternal
  <2> QED
    BY <2>2, <2>3
<1>9. CASE AskService
  <2>1. /\ pc' = "service" /\ req.permission = "project" /\ MayAsk /\ subject' = Asked
        /\ answer' = answer
    BY <1>9 DEF AskService, Checking, Goto
  <2>2. ctx # None
    BY <1>3, <2>1 DEF MayAsk
  <2> QED
    BY <1>2, <2>1, <2>2, AskedKeeps
<1>10. CASE ServiceGrants
  <2>1. /\ Granted /\ ctx # None /\ req.permission = "project" /\ UNCHANGED subject
        /\ \E l \in {2, 3} : <<"level", subject, ctx.project, l>> \in was
    BY <1>1, <1>10 DEF ServiceGrants, Allowed, Checked, True, Granted
  <2>2. GrantHeld'
    BY <1>1, <1>4, <2>1, RequestStays DEF GrantHeld, Live
  <2> QED
    BY <1>2, <2>1, <2>2, GrantedKeeps
<1>11. CASE AskConnect
  <2>1. /\ pc' = "connect" /\ req.permission = "connect" /\ project # None /\ user # None
        /\ UNCHANGED <<subject, answer>>
    BY <1>11 DEF AskConnect, Checking, Goto
  <2>2. ctx # None
    BY <1>1, <2>1 DEF WeniTypeOK
  <2> QED
    BY <1>2, <2>1, <2>2, AskedKeeps
<1>12. CASE ConnectGrants
  <2>1. /\ Granted /\ ctx # None /\ req.permission = "connect" /\ project # None
        /\ \E role \in Required : <<"level", Holds[req.authz].owner, project, role>> \in was
    BY <1>1, <1>12 DEF ConnectGrants, Checked, True
  <2>2. Kind(req.authz) = "session" /\ project = Session.project
    BY <1>1, <2>1 DEF KnownSoFar
  <2>3. Session.user = Holds[req.authz].owner
    BY <1>1, <2>2, AuthAssumption, TokenTypes, StoreAssumption DEF Session, WeniTypeOK
  <2>4. Kind(req.authz)' = Kind(req.authz)
    BY <1>1 DEF Kind
  <2>5. GrantHeld'
    BY <1>1, <1>4, <2>1, <2>2, <2>3, <2>4, RequestStays DEF GrantHeld, Live
  <2> QED
    BY <1>2, <2>1, <2>5, GrantedKeeps
<1>13. CASE AskNobody \/ ServiceDenies \/ CallRaises \/ AskConnectNothing \/ ConnectDenies
  BY <1>5, <1>13 DEF AskNobody, ServiceDenies, CallRaises, AskConnectNothing, ConnectDenies
<1>14. CASE View
  <2>1. /\ pc = "view" /\ pc' = "done" /\ answer' \in {200, 400, 403} /\ UNCHANGED subject
        /\ ctx # None
    BY <1>1, <1>14 DEF View, Respond, Goto, Checked
  <2>2. GrantHeld'
    BY <1>1, <2>1, RequestStays DEF Checked, Passed, GrantHeld, Kind
  <2>3. WeniTypeOK'
    BY <1>1, <2>1, AuthAssumption, MovedTypes DEF WeniTypeOK, Status
  <2>4. KnownSoFar'
    BY <1>1, <2>1, KnownStays
  <2>5. Recognized'
    BY <1>1, RecognizedStays
  <2>6. Checked'
    BY <1>1, <2>1, <2>2, RequestStays DEF Checked
  <2> QED
    BY <2>3, <2>4, <2>5, <2>6 DEF AccessInv
<1> QED
  BY <1>6, <1>7, <1>8, <1>9, <1>10, <1>11, <1>12, <1>13, <1>14 DEF Authorize

\* The world's changes undo nothing a request rests on.
LEMMA WorldKeeps ==
    ASSUME AccessInv, WorldChanges,
           UNCHANGED <<req, pc, chain, identity, subject, answer>>
    PROVE  AccessInv'
<1>1. /\ WeniTypeOK /\ KnownSoFar /\ Recognized /\ Checked
      /\ UNCHANGED <<req, pc, user, ctx, project, claims, subject, answer>>
  BY DEF AccessInv, identity
<1>2. facts' \subseteq was' /\ was' \subseteq Fact /\ was \subseteq was'
  BY <1>1, AuthAssumption DEF WorldChanges, WeniTypeOK
<1>3. WeniTypeOK'
  BY <1>1, <1>2, AuthAssumption DEF WeniTypeOK, WorldChanges, HasWeniContext
<1>4. KnownSoFar'
  BY <1>1, <1>2, KnownStays
<1>5. Recognized'
  BY <1>1, <1>2, RecognizedStays
<1>6. GrantHeld => GrantHeld'
  BY <1>1, <1>2, RequestStays DEF GrantHeld, Passed, Kind
<1>7. Checked'
  BY <1>1, <1>6, RequestStays DEF Checked, Passed
<1> QED
  BY <1>3, <1>4, <1>5, <1>7 DEF AccessInv

-----------------------------------------------------------------------------
(* The invariant holds. *)

LEMMA AccessInit == Init => AccessInv
<1> SUFFICES ASSUME Init PROVE AccessInv
  OBVIOUS
<1>1. chain \in Seq({"session", "weni"})
  BY AuthAssumption DEF Init, Requests
<1>2. facts \subseteq Fact
  BY RoleAssumption DEF Init
<1>3. WeniTypeOK
  BY <1>1, <1>2, AuthAssumption, ClaimsTypes DEF Init, WeniTypeOK
<1> QED
  BY <1>3, AuthAssumption
     DEF Init, AccessInv, KnownSoFar, Recognized, Checked, Passed, Status

LEMMA AccessNext == AccessInv /\ [Next]_vars => AccessInv'
<1> SUFFICES ASSUME AccessInv, [Next]_vars PROVE AccessInv'
  OBVIOUS
<1>1. ASSUME Authenticate, UNCHANGED <<subject, answer, world, req>> PROVE AccessInv'
  BY <1>1, AuthenticateKeeps
<1>2. ASSUME AuthenticationFails, Respond(401), UNCHANGED <<chain, identity, subject, world, req>>
      PROVE  AccessInv'
  <2>1. answer = None
    BY <1>2 DEF AccessInv, WeniTypeOK, AuthenticationFails, RejectJwt, RejectKeycloak, Trying
  <2> QED
    BY <1>2, <2>1, RefusedKeeps
<1>3. ASSUME Authorize, UNCHANGED <<chain, identity, world, req>> PROVE AccessInv'
  BY <1>3, AuthorizeKeeps
<1>4. ASSUME WorldChanges, UNCHANGED <<req, pc, chain, identity, subject, answer>>
      PROVE  AccessInv'
  BY <1>4, WorldKeeps
<1>5. CASE UNCHANGED vars
  <2>1. UNCHANGED <<world, req, pc, chain, identity, subject, answer>> /\ was' = was
    BY <1>5 DEF vars, world
  <2>2. UNCHANGED <<facts, was, changes, claims, user, ctx, project>>
    BY <2>1 DEF world, identity
  <2>3. WeniTypeOK'
    BY <2>1, <2>2 DEF AccessInv, WeniTypeOK, HasWeniContext
  <2>4. KnownSoFar'
    BY <2>1, <2>2, KnownStays DEF AccessInv
  <2>5. Recognized'
    BY <2>1, RecognizedStays DEF AccessInv
  <2>6. Checked'
    BY <2>1, <2>2, RequestStays DEF AccessInv, Checked, Passed, GrantHeld, Kind
  <2> QED
    BY <2>3, <2>4, <2>5, <2>6 DEF AccessInv
<1> QED
  BY <1>1, <1>2, <1>3, <1>4, <1>5 DEF Next, Proceed

LEMMA AccessAlways == Spec => []AccessInv
BY AccessInit, AccessNext, PTL DEF Spec

-----------------------------------------------------------------------------
(* Theorems. *)

\* Every variable has its type, for every set of tokens, requests and facts.
THEOREM WeniTypeCorrect == Spec => []WeniTypeOK
<1>1. AccessInv => WeniTypeOK
  BY DEF AccessInv
<1> QED
  BY <1>1, AccessAlways, PTL

\* Nothing passes a permission that did not hold at some moment of the request,
\* whichever calls fail and however often the world changes.
THEOREM NothingGrantedInVain == Spec => []GrantHeld
<1>1. AccessInv => GrantHeld
  BY DEF AccessInv, Checked, GrantHeld
<1> QED
  BY <1>1, AccessAlways, PTL

\* No request value overrides a tenant claim.
THEOREM TenantsComeFromTokens == Spec => []TenantFromToken
<1>1. AccessInv => TenantFromToken
  <2> SUFFICES ASSUME AccessInv, HasWeniContext PROVE TenantFromToken
    BY DEF TenantFromToken
  <2> DEFINE t == Holds[ExtractToken]
             InPlaces(f, v) == v \in {None} \cup {s[f] : s \in Sources}
  <2>1. FromJwt \/ FromKeycloak
    BY DEF AccessInv, Recognized, HasWeniContext, FromSession, SessionContext
  <2>2. \A f \in {"project", "vtex"} :
           /\ InPlaces(f, Named(f))
           /\ req.url[f] # None => Named(f) = req.url[f]
    BY DEF Named, Or, Sources
  <2>3. CASE FromJwt
    <3>1. ctx.account = t.claims.account /\ ctx.type = "jwt"
      BY <2>3 DEF FromJwt, JwtContext
    <3>2. \A f \in {"project", "vtex"} : ctx[f] = t.claims[f]
      BY <2>3 DEF FromJwt, JwtContext
    <3> QED
      BY <3>1, <3>2 DEF TenantFromToken
  <2>4. CASE FromKeycloak
    <3>1. /\ ctx.type = "keycloak" /\ ctx.account = claims.account
          /\ \A f \in {"project", "vtex"} : ctx[f] = Or(claims[f], Named(f))
      BY <2>4 DEF FromKeycloak, KeycloakContext
    <3>2. /\ claims.account \in {t.claims.account, None}
          /\ \A f \in {"project", "vtex"} :
                claims[f] \in {t.claims[f], None} /\ (t.decodes => claims[f] = t.claims[f])
      BY <2>4 DEF FromKeycloak, NoClaims
    <3>3. ASSUME NEW f \in {"project", "vtex"}
          PROVE  /\ t.decodes /\ t.claims[f] # None => ctx[f] = t.claims[f]
                 /\ ctx[f] \in {t.claims[f], None} \cup {s[f] : s \in Sources}
                 /\ t.claims[f] = None /\ req.url[f] # None => ctx[f] = req.url[f]
      BY <2>2, <3>1, <3>2, <3>3 DEF Or
    <3> QED
      BY <3>1, <3>2, <3>3 DEF TenantFromToken
  <2> QED
    BY <2>1, <2>3, <2>4
<1> QED
  BY <1>1, AccessAlways, PTL

\* Nobody acts as another: the user of a context, and the user asked about, are
\* its token's, but for internal Keycloak callers and for sessions that act as
\* the stand-in of their organization.
THEOREM NobodyImpersonates == Spec => []NoImpersonation
<1>1. AccessInv => NoImpersonation
  <2> SUFFICES ASSUME AccessInv, ctx # None PROVE NoImpersonation
    BY DEF NoImpersonation
  <2>1. FromJwt \/ FromKeycloak \/ FromSession
    BY DEF AccessInv, Recognized
  <2>2. /\ subject # None => HasWeniContext /\ subject = Asked
        /\ req \in Requests
    BY AuthAssumption DEF AccessInv, Checked, MayAsk, WeniTypeOK
  <2>3. CASE FromJwt
    <3> DEFINE t == Holds[ExtractToken]
    <3>1. /\ ctx.type = "jwt" /\ ctx.user = t.claims.user /\ ctx.internal = t.claims.internal
          /\ user.email = t.claims.user /\ HasWeniContext
      BY <2>3 DEF FromJwt, JwtContext, HasWeniContext
    <3>2. subject # None /\ ~ctx.internal => subject \in {t.claims.user, t.owner}
      BY <2>2, <3>1 DEF Asked, Or
    <3> QED
      BY <3>1, <3>2 DEF NoImpersonation
  <2>4. CASE FromKeycloak
    <3> DEFINE t == Holds[ExtractToken]
    <3>1. PICK internal \in BOOLEAN :
             /\ ctx = KeycloakContext(internal)
             /\ internal => claims.internal \/ <<"internal", Owner>> \in was
      BY <2>4 DEF FromKeycloak
    <3>2. /\ ctx.type = "keycloak" /\ ctx.internal = internal
          /\ ctx.user = ActingUser(internal) /\ HasWeniContext
      BY <3>1 DEF KeycloakContext, HasWeniContext
    <3>3. /\ Owner = t.owner /\ user.email = t.owner
          /\ claims.user \in {t.claims.user, t.owner} /\ (claims.internal => t.claims.internal)
      BY <2>4 DEF FromKeycloak, Owner, NoClaims
    <3>4. Or(claims.user, Owner) \in {t.claims.user, t.owner}
      BY <3>3 DEF Or
    <3>5. Named("user") = None \/ \E s \in Sources : s.user = Named("user")
      BY DEF Named, Or, Sources
    <3>6. ctx.user \notin {t.claims.user, None} =>
             ctx.user = t.owner \/ (ctx.internal /\ \E s \in Sources : s.user = ctx.user)
      <4>1. CASE internal /\ Named("user") # None
        BY <3>2, <3>5, <4>1 DEF ActingUser, Or
      <4>2. CASE ~(internal /\ Named("user") # None)
        <5>1. ctx.user = Or(claims.user, Owner)
          BY <3>2, <4>2 DEF ActingUser, Or
        <5> QED
          BY <3>4, <5>1
      <4> QED
        BY <4>1, <4>2
    <3>7. subject # None /\ ~ctx.internal => subject \in {t.claims.user, t.owner}
      <4>1. ~internal => ctx.user = Or(claims.user, Owner)
        BY <3>2 DEF ActingUser, Or
      <4> QED
        BY <2>2, <3>2, <3>3, <3>4, <4>1 DEF Asked, Or
    <3>8. ctx.internal => t.claims.internal \/ <<"internal", t.owner>> \in was
      BY <3>1, <3>2, <3>3
    <3> QED
      BY <3>2, <3>6, <3>7, <3>8 DEF NoImpersonation
  <2>5. CASE FromSession
    <3>1. /\ ctx.type = "session" /\ ~ctx.internal /\ ~HasWeniContext
          /\ project = Session.project /\ Session = Holds[req.authz].claims
          /\ user.email = Session.user \/ (user.email \in StandIn /\ <<"org", project>> \in was)
      BY <2>5 DEF FromSession, SessionContext, HasWeniContext, Session
    <3> QED
      BY <2>2, <3>1 DEF NoImpersonation
  <2> QED
    BY <2>1, <2>3, <2>4, <2>5
<1> QED
  BY <1>1, AccessAlways, PTL

\* The user whose level was checked is the one the view acts as.
THEOREM SubjectIsActor == Spec => []OneSubject
<1>1. AccessInv => OneSubject
  <2> SUFFICES ASSUME AccessInv, Passed, req.permission = "project",
                      ctx.internal => ctx.type = "keycloak",
                      ctx.internal => ~\E s \in Sources : s.user \notin {subject, None}
               PROVE  subject = UserEmail
    BY DEF OneSubject, AccessInv, WeniTypeOK
  <2>1. GrantHeld /\ was \subseteq Fact /\ req \in Requests /\ ctx # None
    BY AuthAssumption DEF AccessInv, Checked, WeniTypeOK, GrantHeld
  <2>2. subject # None
    <3>1. PICK l \in {2, 3} : <<"level", subject, ctx.project, l>> \in Fact
      BY <2>1 DEF GrantHeld
    <3>2. subject \in User
      BY <3>1 DEF Fact
    <3> QED
      BY <3>2, AuthAssumption
  <2>3. HasWeniContext /\ subject = Asked
    BY <2>2 DEF AccessInv, Checked, MayAsk
  <2>4. user # None
    BY <2>1 DEF AccessInv, WeniTypeOK
  <2>5. CASE ~ctx.internal
    BY <2>2, <2>3, <2>4, <2>5 DEF Asked, UserEmail, Or
  <2>6. CASE ctx.internal
    <3>1. subject = req.query.user
      BY <2>2, <2>3, <2>6 DEF Asked
    <3>2. Named("user") = subject
      BY <2>2, <2>6, <3>1 DEF Named, Or, Sources
    <3>3. ctx.user = Named("user")
      <4>1. FromKeycloak
        BY <2>1, <2>3, <2>6 DEF AccessInv, Recognized, FromJwt, FromSession, JwtContext,
                               SessionContext
      <4>2. PICK internal \in BOOLEAN : ctx = KeycloakContext(internal)
        BY <4>1 DEF FromKeycloak
      <4>3. internal /\ ctx.user = ActingUser(internal)
        BY <2>6, <4>2 DEF KeycloakContext
      <4> QED
        BY <2>2, <3>2, <4>3 DEF ActingUser, Or
    <3> QED
      BY <2>2, <2>3, <3>2, <3>3 DEF UserEmail
  <2> QED
    BY <2>5, <2>6
<1> QED
  BY <1>1, AccessAlways, PTL

\* The status of an answer tells a caller that was not recognized from one that
\* was not allowed.
THEOREM StatusesTellWhy == Spec => []StatusTellsWhy
<1>1. Init => StatusTellsWhy
  BY AuthAssumption DEF Init, StatusTellsWhy, Status
<1>2. AccessInv /\ StatusTellsWhy /\ [Next]_vars => StatusTellsWhy'
  <2> SUFFICES ASSUME AccessInv, StatusTellsWhy, [Next]_vars PROVE StatusTellsWhy'
    OBVIOUS
  <2>1. (user = None) <=> (ctx = None)
    BY DEF AccessInv, WeniTypeOK
  <2>2. ASSUME UNCHANGED <<req, ctx, answer>> PROVE StatusTellsWhy'
    BY <2>2 DEF StatusTellsWhy
  <2>3. ASSUME answer' = answer, answer = None PROVE StatusTellsWhy'
    BY <2>3, AuthAssumption DEF StatusTellsWhy, Status
  <2>4. ASSUME Authenticate, UNCHANGED <<subject, answer, world, req>> PROVE StatusTellsWhy'
    <3>1. answer = None
      BY <2>4 DEF AccessInv, WeniTypeOK, Authenticate, NoToken, AcceptJwt, NotJwt,
         GetOrCreateUser, ExtractClaims, AcceptKeycloak, ValidateSession, NoSession, LookupOrg,
         FindUser, FallbackUser, SessionUserFails, Anonymous, Trying
    <3> QED
      BY <2>3, <2>4, <3>1
  <2>5. ASSUME AuthenticationFails, Respond(401), UNCHANGED <<identity, req>>
        PROVE  StatusTellsWhy'
    <3>1. ctx = None
      BY <2>5 DEF AccessInv, WeniTypeOK, AuthenticationFails, RejectJwt, RejectKeycloak, Trying
    <3> QED
      BY <2>5, <3>1 DEF StatusTellsWhy, Respond, identity
  <2>6. ASSUME Authorize, UNCHANGED <<identity, req, chain, world>> PROVE StatusTellsWhy'
    <3>1. ctx' = ctx /\ req' = req
      BY <2>6 DEF identity
    <3>2. CASE Denied
      BY <2>1, <3>1, <3>2 DEF Denied, Respond, StatusTellsWhy
    <3>3. CASE answer' = answer
      BY <2>2, <3>1, <3>3
    <3>4. CASE CallRaises
      <4>1. ctx = None \/ req.permission \in {"internal", "project"}
        BY <3>4 DEF CallRaises, FlagQueryRaises, AccessInv, Checked, WeniTypeOK
      <4> QED
        BY <3>1, <3>4, <4>1 DEF CallRaises, Respond, StatusTellsWhy
    <3>5. CASE View
      <4>1. ctx # None
        BY <3>5 DEF View, AccessInv, Checked
      <4> QED
        BY <3>1, <3>5, <4>1 DEF View, Respond, StatusTellsWhy
    <3> QED
      BY <2>6, <3>2, <3>3, <3>4, <3>5
         DEF Authorize, CheckContext, CheckInternal, QueryInternal, AskService, AskNobody,
             ServiceGrants, ServiceDenies, AskConnect, AskConnectNothing, ConnectGrants,
             ConnectDenies, Granted
  <2>7. CASE UNCHANGED vars
    BY <2>2, <2>7 DEF vars, identity
  <2>8. ASSUME WorldChanges, UNCHANGED <<req, pc, chain, identity, subject, answer>>
        PROVE  StatusTellsWhy'
    BY <2>2, <2>8 DEF identity
  <2> QED
    BY <2>4, <2>5, <2>6, <2>7, <2>8 DEF Next, Proceed
<1> QED
  BY <1>1, <1>2, AccessAlways, PTL DEF Spec

-----------------------------------------------------------------------------
(* How long a worker takes.                                                *)

\* No more steps than these are left of a request whose worker is at p with n
\* authenticators to try.
StepsAt(p, n) ==
    CASE p = "done" -> 0
      [] p = "view" -> 1
      [] p \in {"internal", "service", "connect"} -> 2
      [] p = "permission" -> 3
      [] p \in {"fallback", "flag"} -> 4 * n + 1
      [] p \in {"member", "claims"} -> 4 * n + 2
      [] p \in {"org", "oidc"} -> 4 * n + 3
      [] p = "authenticate" -> 4 * n + 4

StepsLeft == StepsAt(pc, Len(chain))

\* The authenticator at work is still the head of the chain.
AtHead == pc \in {"fallback", "flag", "member", "claims", "org", "oidc"} => chain # <<>>

WorkInv == AccessInv /\ AtHead

\* The measure at each step of a worker.
LEMMA StepsAtIs ==
    \A n \in Nat :
       /\ StepsAt("done", n) = 0 /\ StepsAt("view", n) = 1
       /\ \A p \in {"internal", "service", "connect"} : StepsAt(p, n) = 2
       /\ StepsAt("permission", n) = 3
       /\ \A p \in {"fallback", "flag"} : StepsAt(p, n) = 4 * n + 1
       /\ \A p \in {"member", "claims"} : StepsAt(p, n) = 4 * n + 2
       /\ \A p \in {"org", "oidc"} : StepsAt(p, n) = 4 * n + 3
       /\ StepsAt("authenticate", n) = 4 * n + 4
BY DEF StepsAt

\* The number of authenticators left is a number, and asking the next leaves one less.
LEMMA ChainTyped ==
    ASSUME WeniTypeOK
    PROVE  /\ Len(chain) \in Nat
           /\ chain # <<>> => Len(chain) > 0 /\ Len(Tail(chain)) = Len(chain) - 1
<1>1. chain \in Seq({"session", "weni"})
  BY DEF WeniTypeOK
<1>2. Len(chain) \in Nat
  BY <1>1, LenProperties
<1>3. ASSUME chain # <<>>
      PROVE  Len(chain) > 0 /\ Len(Tail(chain)) = Len(chain) - 1
  BY <1>1, <1>2, <1>3, EmptySeq, HeadTailProperties
<1> QED
  BY <1>2, <1>3

\* Only a success or the next turn leaves an authenticator, and each turn has its own.
LEMMA AtHeadNext ==
    ASSUME WorkInv, [Next]_vars
    PROVE  AtHead'
<1>1. CASE UNCHANGED <<pc, chain>>
  BY <1>1 DEF WorkInv, AtHead
<1>2. CASE Authenticate
  BY <1>2 DEF WorkInv, AtHead, Authenticate, NoToken, AcceptJwt, NotJwt, GetOrCreateUser,
         ExtractClaims, AcceptKeycloak, ValidateSession, NoSession, LookupOrg, FindUser,
         FallbackUser, SessionUserFails, Anonymous, Trying, Authenticated, Goto, TryNext
<1>3. CASE AuthenticationFails /\ Respond(401)
  BY <1>3 DEF AtHead, Respond, Goto
<1>4. CASE Authorize
  BY <1>4 DEF AtHead, Authorize, CheckContext, CheckInternal, QueryInternal, AskService,
         AskNobody, ServiceGrants, ServiceDenies, CallRaises, AskConnect, AskConnectNothing,
         ConnectGrants, ConnectDenies, View, Granted, Denied, Respond, Goto
<1> QED
  BY <1>1, <1>2, <1>3, <1>4 DEF Next, Proceed, vars

\* Both hold of every request.
LEMMA WorkAlways == Spec => []WorkInv
<1>1. Init => AtHead
  BY DEF Init, AtHead
<1>2. AccessInv /\ AtHead /\ [Next]_vars => AtHead'
  BY AtHeadNext DEF WorkInv
<1>3. AccessInv /\ AtHead <=> WorkInv
  BY DEF WorkInv
<1> QED
  BY <1>1, <1>2, <1>3, AccessAlways, PTL DEF Spec

\* Every step of an authenticator leaves fewer.
LEMMA AuthenticateShrinks ==
    ASSUME WorkInv, Authenticate
    PROVE  StepsLeft' < StepsLeft
<1>1. PICK n \in Nat : n = Len(chain) /\ (chain # <<>> => n > 0 /\ Len(Tail(chain)) = n - 1)
  BY ChainTyped DEF WorkInv, AccessInv
<1>2. AtHead
  BY DEF WorkInv
<1>3. CASE /\ pc \in {"authenticate", "org", "member", "fallback"} /\ chain # <<>>
           /\ pc' = "authenticate" /\ chain' = Tail(chain)
  <2>1. StepsLeft' = StepsAt("authenticate", n - 1) /\ n > 0
    BY <1>1, <1>3 DEF StepsLeft
  <2>2. StepsLeft' = 4 * n
    BY <2>1, StepsAtIs
  <2>3. StepsLeft \in {4 * n + 1, 4 * n + 2, 4 * n + 3, 4 * n + 4}
    BY <1>1, <1>3, StepsAtIs DEF StepsLeft
  <2> QED
    BY <2>2, <2>3
<1>4. CASE /\ pc \in {"authenticate", "oidc", "claims", "flag", "org", "member", "fallback"}
           /\ pc # "authenticate" => chain # <<>>
           /\ pc' = "permission" /\ chain' = chain
  <2>1. StepsLeft' = 3
    BY <1>1, <1>4, StepsAtIs DEF StepsLeft
  <2>2. CASE pc = "authenticate"
    BY <1>1, <2>1, <2>2, StepsAtIs DEF StepsLeft
  <2>3. CASE pc # "authenticate"
    <3>1. StepsLeft \in {4 * n + 1, 4 * n + 2, 4 * n + 3} /\ n > 0
      BY <1>1, <1>4, <2>3, StepsAtIs DEF StepsLeft
    <3> QED
      BY <2>1, <3>1
  <2> QED
    BY <2>2, <2>3
<1>5. CASE /\ chain' = chain
           /\ <<pc, pc'>> \in {<<"authenticate", "oidc">>, <<"oidc", "claims">>, <<"claims", "flag">>,
                             <<"authenticate", "org">>, <<"org", "member">>, <<"member", "fallback">>}
  <2>1. StepsLeft = StepsAt(pc, n) /\ StepsLeft' = StepsAt(pc', n)
    BY <1>1, <1>5 DEF StepsLeft
  <2>2. CASE pc = "authenticate" /\ pc' \in {"oidc", "org"}
    <3>1. StepsAt(pc, n) = 4 * n + 4 /\ StepsAt(pc', n) = 4 * n + 3
      BY <2>2, StepsAtIs
    <3> QED
      BY <2>1, <3>1
  <2>3. CASE pc \in {"oidc", "org"} /\ pc' \in {"claims", "member"}
    <3>1. StepsAt(pc, n) = 4 * n + 3 /\ StepsAt(pc', n) = 4 * n + 2
      BY <2>3, StepsAtIs
    <3> QED
      BY <2>1, <3>1
  <2>4. CASE pc \in {"claims", "member"} /\ pc' \in {"flag", "fallback"}
    <3>1. StepsAt(pc, n) = 4 * n + 2 /\ StepsAt(pc', n) = 4 * n + 1
      BY <2>4, StepsAtIs
    <3> QED
      BY <2>1, <3>1
  <2> QED
    BY <1>5, <2>2, <2>3, <2>4
<1> QED
  BY <1>2, <1>3, <1>4, <1>5
     DEF AtHead, Authenticate, NoToken, AcceptJwt, NotJwt, GetOrCreateUser,
         ExtractClaims, AcceptKeycloak, ValidateSession, NoSession, LookupOrg, FindUser,
         FallbackUser, SessionUserFails, Anonymous, Trying, Authenticated, Goto, TryNext

\* So does every step of a permission class and of the view, and a refusal.
LEMMA AuthorizeShrinks ==
    ASSUME WorkInv, UNCHANGED chain, Authorize \/ (AuthenticationFails /\ Respond(401))
    PROVE  StepsLeft' < StepsLeft
<1>1. PICK n \in Nat : n = Len(chain)
  BY ChainTyped DEF WorkInv, AccessInv
<1>2. StepsLeft = StepsAt(pc, n) /\ StepsLeft' = StepsAt(pc', n)
  BY <1>1 DEF StepsLeft
<1>3. CASE pc \in {"permission", "internal", "service", "connect", "view", "authenticate", "oidc", "flag"}
           /\ pc' = "done"
  <2>1. StepsAt(pc, n) \in {1, 2, 3, 4 * n + 1, 4 * n + 3, 4 * n + 4}
    BY <1>3, StepsAtIs
  <2>2. StepsAt(pc', n) = 0
    BY <1>3, StepsAtIs
  <2> QED
    BY <1>2, <2>1, <2>2
<1>4. CASE pc \in {"permission", "internal", "service", "connect"} /\ pc' = "view"
  <2>1. StepsAt(pc, n) \in {2, 3} /\ StepsAt(pc', n) = 1
    BY <1>4, StepsAtIs
  <2> QED
    BY <1>2, <2>1
<1>5. CASE pc = "permission" /\ pc' \in {"internal", "service", "connect"}
  <2>1. StepsAt(pc, n) = 3 /\ StepsAt(pc', n) = 2
    BY <1>5, StepsAtIs
  <2> QED
    BY <1>2, <2>1
<1>6. CASE AuthenticationFails /\ Respond(401)
  BY <1>3, <1>6 DEF AuthenticationFails, RejectJwt, RejectKeycloak, Trying, Respond, Goto
<1>7. CASE Authorize
  BY <1>3, <1>4, <1>5, <1>7
     DEF Authorize, CheckContext, CheckInternal, QueryInternal, AskService,
         AskNobody, ServiceGrants, ServiceDenies, CallRaises, AskConnect, AskConnectNothing,
         ConnectGrants, ConnectDenies, View, Granted, Denied, Respond, Goto, Checking,
         FlagQueryRaises
<1> QED
  BY <1>6, <1>7

\* No request is worked on for ever: from the moment a request arrives its worker
\* takes at most four steps for each authenticator of the view and four more, none
\* is left exactly when the request is answered, and nothing that happens in the
\* world gives it one more (perform_authentication, check_permissions and the
\* handler of a view, however their calls fail).
THEOREM WorkIsBounded ==
    Spec => /\ StepsLeft = 4 * Len(req.chain) + 4
            /\ [](StepsLeft \in Nat /\ (StepsLeft = 0 <=> answer # None))
            /\ [][IF Proceed THEN StepsLeft' < StepsLeft ELSE StepsLeft' = StepsLeft]_vars
<1>1. WeniTypeOK => StepsLeft \in Nat /\ (StepsLeft = 0 <=> pc = "done")
  <2> SUFFICES ASSUME WeniTypeOK PROVE StepsLeft \in Nat /\ (StepsLeft = 0 <=> pc = "done")
    OBVIOUS
  <2>1. PICK n \in Nat : n = Len(chain)
    BY ChainTyped
  <2>2. StepsLeft = StepsAt(pc, n)
    BY <2>1 DEF StepsLeft
  <2>3. CASE pc \in {"done", "view", "internal", "service", "connect", "permission"}
    <3>1. \/ pc = "done" /\ StepsAt(pc, n) = 0
          \/ pc # "done" /\ StepsAt(pc, n) \in {1, 2, 3}
      BY <2>3, StepsAtIs
    <3> QED
      BY <2>2, <3>1
  <2>4. CASE pc \in {"fallback", "flag", "member", "claims", "org", "oidc", "authenticate"}
    <3>1. StepsLeft \in {4 * n + 1, 4 * n + 2, 4 * n + 3, 4 * n + 4} /\ pc # "done"
      BY <2>2, <2>4, StepsAtIs
    <3> QED
      BY <3>1
  <2> QED
    BY <2>3, <2>4 DEF WeniTypeOK
<1>2. WorkInv => StepsLeft \in Nat /\ (StepsLeft = 0 <=> answer # None)
  BY <1>1 DEF WorkInv, AccessInv, WeniTypeOK
<1>3. AccessInv /\ Init => StepsLeft = 4 * Len(req.chain) + 4
  BY ChainTyped, StepsAtIs DEF Init, StepsLeft, AccessInv
<1>4. WorkInv /\ [Next]_vars => [IF Proceed THEN StepsLeft' < StepsLeft ELSE StepsLeft' = StepsLeft]_vars
  <2> SUFFICES ASSUME WorkInv, Next
               PROVE  IF Proceed THEN StepsLeft' < StepsLeft ELSE StepsLeft' = StepsLeft
    OBVIOUS
  <2>1. Proceed => StepsLeft' < StepsLeft
    BY AuthenticateShrinks, AuthorizeShrinks DEF Proceed
  <2>2. ~Proceed => UNCHANGED <<pc, chain>>
    BY DEF Next
  <2>3. ~Proceed => StepsLeft' = StepsLeft
    BY <2>2 DEF StepsLeft
  <2> QED
    BY <2>1, <2>3
<1> QED
  BY <1>2, <1>3, <1>4, AccessAlways, WorkAlways, PTL DEF Spec
=============================================================================
