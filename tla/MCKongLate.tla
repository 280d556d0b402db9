------------------------------- MODULE MCKongLate -------------------------------
(***************************************************************************)
(* One service, deployed three times, dying anywhere, its last request     *)
(* perhaps applied later; and once on a Kong full of its routes.           *)
(***************************************************************************)
EXTENDS MCKongSync, KongLate

\* A Kong full of routes: nine of them are declared somewhere.
ManyAllow == {"allow-1", "allow-2", "allow-3", "allow-4", "allow-5", "allow-6",
              "allow-7", "allow-8", "allow-9"}
LateAllow == OneJobAllow \cup ManyAllow
LateRoutes == LateAllow \cup {"flows-default-block"}
ManyView(name) == [ViewA EXCEPT !.name = name]

\* The first k of them are on flows under its tag, the others are nexus's.
ManyKong(k) ==
    [routes |-> [n \in LateRoutes |->
        IF n = "flows-default-block" THEN LiveRoute(1, "flows-service", {FlowsPrefix}, {})
        ELSE IF n \notin ManyAllow THEN Absent
        ELSE LET i == CHOOSE j \in 1..9 : n = "allow-" \o ToString(j)
                 mine == i <= k
             IN  LiveRoute(i + 1, IF mine THEN "flows-service" ELSE "nexus-service",
                           IF mine THEN ViewA.paths ELSE NexusA.paths,
                           {RouteTag, PrefixTag(IF mine THEN FlowsPrefix ELSE NexusPrefix)})],
     plugins |-> {},
     services |-> BothServices, nextId |-> 11]

\* Images that still declare some of them.
LateImages ==
    [c \in Sync |-> OneJobImages[c] \cup
        {<<ManyView("allow-1")>>,
         <<ManyView("allow-1"), ManyView("allow-2")>>,
         <<ManyView("allow-1"), ManyView("allow-2"), ManyView("allow-3"), ManyView("allow-4")>>}]

Wider(k) ==
    [k EXCEPT !.routes = [n \in LateRoutes |-> IF n \in DOMAIN @ THEN @[n] ELSE Absent]]
LateKongs == {Wider(k) : k \in OneJobKongs} \cup {ManyKong(5), ManyKong(7), ManyKong(8)}
LateOptions == OneJobOptions \cup {Force}

\* A full Kong sees one run, whose requests are not late; the others see three,
\* of the images and options made for them.
Scenario ==
    IF routes["allow-9"] # Absent
      THEN late = {} /\ \A c \in Sync : starts[c] <= 1
      ELSE \A c \in Sync : image[c] \in OneJobImages[c] /\ opts[c] \in OneJobOptions
=============================================================================
