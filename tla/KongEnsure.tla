------------------------------- MODULE KongEnsure -------------------------------
(***************************************************************************)
(* kong_ensure_service: onboarding a microservice to the gateway           *)
(* (src/weni_commons/kong/service.py).  The command registers the Kong     *)
(* service, then the catch-all route of the prefix, then the plugin that   *)
(* makes this route answer 403.  Each of the three is a check followed by  *)
(* a write, and several replicas may run the command at the same time.     *)
(***************************************************************************)
EXTENDS KongAdmin

CONSTANTS
    Ensure,         \* the processes that run the command
    EnsureService,  \* process -> name of the service
    EnsureUrl,      \* process -> KONG_SERVICE_URL
    EnsurePrefix,   \* process -> KONG_URL_PREFIX
    BlockName,      \* process -> {prefix}-default-block
    EnsuredKongs,   \* the Kongs the command may find
    MaxEnsures      \* bound: how often each process runs the command

VARIABLES
    epc,      \* where the command is
    found,    \* id of the request-termination plugin the command has listed
    estarts   \* number of times the command was started

elocal == <<epc, found, estarts>>
evars  == <<kong, elocal>>

TerminationPlugin == "request-termination"
\* status_code 403 and the message of the gateway
BlockConfig == [kind |-> "terminate", uri |-> <<>>, prefix |-> <<>>]

ASSUME EnsureAssumption ==
    /\ Ensure \subseteq Client
    /\ EnsureService \in [Ensure -> Service]
    /\ EnsureUrl \in [Ensure -> Url]
    /\ EnsurePrefix \in [Ensure -> Path]
    /\ BlockName \in [Ensure -> RouteName]
    /\ TerminationPlugin \in PluginName
    /\ BlockConfig \in Config
    /\ \A k \in EnsuredKongs : k \in Kong /\ WellFormed(k.routes, k.plugins, k.nextId)
    /\ MaxEnsures \in Nat

-----------------------------------------------------------------------------
EnsureRest == {"idle", "done", "refused", "crashed"}

EnsureGoto(e, where) == epc' = [epc EXCEPT ![e] = where]

EnsureStart(e) ==
    /\ epc[e] \in EnsureRest
    /\ estarts[e] < MaxEnsures
    /\ EnsureGoto(e, "get_service")
    /\ estarts' = [estarts EXCEPT ![e] = @ + 1]
    /\ Began(e)
    /\ UNCHANGED <<routes, plugins, services, nextId, found>>

-----------------------------------------------------------------------------
(* ensure_service *)

\* GET /services/{name}: POST on 404, PATCH on another url, nothing otherwise
CheckService(e) ==
    /\ epc[e] = "get_service"
    /\ EnsureGoto(e, CASE services[EnsureService[e]] = Absent -> "post_service"
                       [] services[EnsureService[e]] = EnsureUrl[e] -> "get_block"
                       [] OTHER -> "patch_service")
    /\ UNCHANGED <<kong, found, estarts>>

\* POST /services: 409 when another process has just created it
CreateService(e) ==
    /\ epc[e] = "post_service"
    /\ ~Registered(EnsureService[e])
    /\ PutService(e, EnsureService[e], EnsureUrl[e])
    /\ EnsureGoto(e, "get_block")
    /\ UNCHANGED <<found, estarts>>

UpdateService(e) ==
    /\ epc[e] = "patch_service"
    /\ Registered(EnsureService[e])
    /\ PutService(e, EnsureService[e], EnsureUrl[e])
    /\ EnsureGoto(e, "get_block")
    /\ UNCHANGED <<found, estarts>>

-----------------------------------------------------------------------------
(* ensure_default_block *)

CheckBlock(e) ==
    /\ epc[e] = "get_block"
    /\ EnsureGoto(e, IF routes[BlockName[e]] = Absent THEN "post_block" ELSE "patch_block")
    /\ UNCHANGED <<kong, found, estarts>>

\* wrong: the command ends with the route, the plugin is left to a later run
CreateBlockOnly(e) ==
    /\ epc[e] = "post_block"
    /\ PostRoute(e, BlockName[e],
                 [service |-> EnsureService[e], paths |-> {EnsurePrefix[e]}, methods |-> {},
                  strip_path |-> FALSE, tags |-> {}])
    /\ EnsureGoto(e, "done")
    /\ UNCHANGED <<found, estarts>>

CreateBlock(e) ==
    /\ epc[e] = "post_block"
    /\ PostRoute(e, BlockName[e],
                 [service |-> EnsureService[e], paths |-> {EnsurePrefix[e]}, methods |-> {},
                  strip_path |-> FALSE, tags |-> {}])
    /\ EnsureGoto(e, "get_plugins")
    /\ UNCHANGED <<found, estarts>>

\* the payload has paths and strip_path only: what else the route has, stays
UpdateBlock(e) ==
    /\ epc[e] = "patch_block"
    /\ routes[BlockName[e]] # Absent
    /\ PatchRoute(e, BlockName[e],
                  [routes[BlockName[e]] EXCEPT !.paths = {EnsurePrefix[e]}, !.strip_path = FALSE])
    /\ EnsureGoto(e, "get_plugins")
    /\ UNCHANGED <<found, estarts>>

\* _ensure_request_termination_plugin: GET /routes/{name}/plugins
Terminations(e) == {p \in PluginsOf(BlockName[e]) : p.name = TerminationPlugin}

\* wrong: takes the id before it knows whether there is a plugin
CheckPluginEager(e) ==
    /\ epc[e] = "get_plugins"
    /\ routes[BlockName[e]] # Absent
    /\ EnsureGoto(e, IF Terminations(e) = {} THEN "post_plugin" ELSE "patch_plugin")
    /\ found' = [found EXCEPT ![e] = IF Terminations(e) = {} THEN Absent
                                     ELSE (CHOOSE p \in Terminations(e) : TRUE).id]
    /\ UNCHANGED <<kong, estarts>>

\* wrong: a termination plugin of any status and message will do
CheckPluginAny(e) ==
    /\ epc[e] = "get_plugins"
    /\ routes[BlockName[e]] # Absent
    /\ EnsureGoto(e, IF Terminations(e) = {} THEN "post_plugin" ELSE "done")
    /\ UNCHANGED <<kong, found, estarts>>

CheckPlugin(e) ==
    /\ epc[e] = "get_plugins"
    /\ routes[BlockName[e]] # Absent
    /\ \/ /\ Terminations(e) = {}
          /\ EnsureGoto(e, "post_plugin")
          /\ UNCHANGED found
       \/ \E p \in Terminations(e) :
             /\ EnsureGoto(e, IF p.config = BlockConfig THEN "done" ELSE "patch_plugin")
             /\ found' = [found EXCEPT ![e] = p.id]
    /\ UNCHANGED <<kong, estarts>>

CreatePlugin(e) ==
    /\ epc[e] = "post_plugin"
    /\ PostPlugin(e, BlockName[e], TerminationPlugin, BlockConfig)
    /\ EnsureGoto(e, "done")
    /\ UNCHANGED <<found, estarts>>

UpdatePlugin(e) ==
    /\ epc[e] = "patch_plugin"
    /\ PatchPlugin(e, found[e], BlockConfig)
    /\ EnsureGoto(e, "done")
    /\ UNCHANGED <<found, estarts>>

-----------------------------------------------------------------------------
\* Kong refuses a creation because another process was faster.
LostRace(e) ==
    /\ \/ epc[e] = "post_service" /\ Registered(EnsureService[e])
       \/ epc[e] = "post_block" /\ ~CanPostRoute(BlockName[e], EnsureService[e])
       \/ epc[e] = "post_plugin" /\ ~CanPostPlugin(BlockName[e], TerminationPlugin)
    /\ EnsureGoto(e, "refused")
    /\ UNCHANGED <<kong, found, estarts>>

\* A timeout, a 5xx, a lost answer or a killed process.
EnsureCrash(e) ==
    /\ epc[e] \notin EnsureRest
    /\ EnsureGoto(e, "crashed")
    /\ UNCHANGED <<kong, found, estarts>>

EnsureStep(e) ==
    \/ CheckService(e) \/ CreateService(e) \/ UpdateService(e)
    \/ CheckBlock(e) \/ CreateBlock(e) \/ UpdateBlock(e)
    \/ CheckPlugin(e) \/ CreatePlugin(e) \/ UpdatePlugin(e)
    \/ LostRace(e)

EnsureLocalInit ==
    /\ epc = [e \in Ensure |-> "idle"]
    /\ found = [e \in Ensure |-> 0]
    /\ estarts = [e \in Ensure |-> 0]

EnsureInit == (\E k \in EnsuredKongs : StartsAs(k)) /\ EnsureLocalInit

EnsureNext == \E e \in Ensure : EnsureStart(e) \/ EnsureStep(e) \/ EnsureCrash(e)

EnsureSpec == EnsureInit /\ [][EnsureNext]_evars

\* Every request has a timeout, so a started command takes its next step or dies.
EnsureFairSpec == EnsureSpec /\ \A e \in Ensure : WF_evars(EnsureStep(e))

-----------------------------------------------------------------------------
(* Properties. *)

\* Every variable has the type its comment gives it.
EnsureTypeOK ==
    /\ KongTypeOK
    /\ epc \in [Ensure -> EnsureRest \cup
                 {"get_service", "post_service", "patch_service", "get_block", "post_block",
                  "patch_block", "get_plugins", "post_plugin", "patch_plugin"}]
    /\ found \in [Ensure -> Nat]
    /\ estarts \in [Ensure -> Nat]

\* The prefix of e answers 403 to what no allow-route matches.
Closed(e) ==
    LET block == routes[BlockName[e]]
    IN  /\ block # Absent
        /\ block.paths = {EnsurePrefix[e]} /\ ~block.strip_path
        /\ \E p \in Terminations(e) : p.config = BlockConfig

\* "Service and default-block are ready": whatever ran meanwhile, a command that
\* reports success leaves its service registered and its prefix closed, and
\* points the service to its url unless another process has written since.
EnsuredClosed ==
    \A e \in Ensure : epc[e] = "done" =>
        /\ Registered(EnsureService[e])
        /\ e \in quiet => services[EnsureService[e]] = EnsureUrl[e]
        /\ Closed(e)

\* Once a prefix is closed nobody opens it again: not a second command, not one
\* that dies half way, not a sync.
StaysClosed == [][\A e \in Ensure : Closed(e) => Closed(e)']_evars

\* When several replicas run the command at once, creations are refused and
\* commands fail, but one of them gets through: unless a process dies, the
\* prefix ends closed.
RaceOnboards ==
    \A e \in Ensure :
        epc[e] = "get_service" ~> Closed(e) \/ \E f \in Ensure : epc[f] = "crashed"
=============================================================================
