------------------------------ MODULE MCKongGateway ------------------------------
(***************************************************************************)
(* Two services that share an alias are deployed at the same time; or two  *)
(* replicas of nexus onboard it while its image is deployed.               *)
(***************************************************************************)
EXTENDS MCKongSync, KongGateway

Replicas == {"replica-1", "replica-2"}
GatewayClients == TwoJobs \cup Replicas
OnboardService == [e \in Ensure |-> "nexus-service"]
OnboardUrl == [e \in Ensure |-> "http://nexus"]
OnboardPrefix == [e \in Ensure |-> NexusPrefix]
OnboardBlock == [e \in Ensure |-> "nexus-default-block"]

GatewayRoutes == RaceRoutes \cup {"nexus-default-block"}

\* Nothing was onboarded but the service of flows.
BareKong == [routes |-> NoRoutes, plugins |-> {},
             services |-> [BothServices EXCEPT !["nexus-service"] = Absent], nextId |-> 1]

\* nexus was onboarded on another url and prefix, its block answers another
\* message, and its image was deployed with other methods and without a rewriter.
MovedKong ==
    [routes |-> [NoRoutes EXCEPT
        !["nexus-default-block"] = LiveRoute(1, "nexus-service", {<<"nexus", "a", "pk">>}, {}),
        !["allow-a-pk"] = [LiveRoute(2, "nexus-service", NexusA.paths,
                                     {RouteTag, PrefixTag(NexusPrefix)})
                               EXCEPT !.methods = {"POST"}]],
     plugins |-> {OnRoute(3, 1, "request-termination", "other", <<>>, <<>>)},
     services |-> [BothServices EXCEPT !["nexus-service"] = "http://old"], nextId |-> 4]
GatewayKongs == RaceKongs \cup {BareKong, MovedKong}
GatewayUrls == MCUrl \cup {"http://old"}

\* The jobs race where flows is onboarded, the replicas where it is not, beside one
\* run of nexus.
Scenario ==
    IF routes["flows-default-block"] # Absent
      THEN \A e \in Ensure : estarts[e] = 0
      ELSE starts["flows"] = 0 /\ starts["nexus"] <= 1
=============================================================================
