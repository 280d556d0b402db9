-------------------------------- MODULE KongLate --------------------------------
(***************************************************************************)
(* kong_sync when a request that timed out, or whose sender was killed,    *)
(* reaches Kong all the same: after the run that sent it has failed, and   *)
(* perhaps after the next one has listed the routes, or has ended.         *)
(***************************************************************************)
EXTENDS KongSync

CONSTANT MaxLate  \* bound: requests under way without a sender

VARIABLE late     \* those requests

lateVars == <<vars, late>>

ASSUME LateAssumption == MaxLate \in Nat /\ Absent \notin Client

-----------------------------------------------------------------------------
OnRouteNamed(verb, n, r) == [verb |-> verb, name |-> n, route |-> r]
OnPlugin(verb, n, id, name, config) ==
    [verb |-> verb, name |-> n, id |-> id, plugin |-> name, config |-> config]

\* The request a run waits for at its present step.
Sent(c) ==
    CASE pc[c] = "create" -> {OnRouteNamed("post route", Cur(c).name, Payload(c, Cur(c)))}
      [] pc[c] = "patch"  -> {OnRouteNamed("patch route", Cur(c).name, Payload(c, Cur(c)))}
      [] pc[c] = "prune"  -> {[verb |-> "delete route", name |-> n] : n \in orphans[c]}
      [] pc[c] = "plugin" /\ ObsoleteHeld(c) # {} ->
            {[verb |-> "delete plugin", id |-> p.id] : p \in ObsoleteHeld(c)}
      [] pc[c] = "plugin" /\ ObsoleteHeld(c) = {} /\ SameHeld(c) # {} ->
            {OnPlugin("patch plugin", Cur(c).name, p.id, p.name, Want(c).config) :
                p \in {q \in SameHeld(c) : q.config # Want(c).config}}
      [] pc[c] = "plugin" /\ ObsoleteHeld(c) = {} /\ SameHeld(c) = {} ->
            {OnPlugin("post plugin", Cur(c).name, 0, Want(c).name, Want(c).config)}
      [] OTHER -> {}

\* The run fails with its request still under way.
TimeOut(c) ==
    /\ Cardinality(late) < MaxLate
    /\ \E w \in Sent(c) : late' = late \cup {w}
    /\ Crash(c)

\* Kong applies it, as a write of none of the running jobs ...
Apply(w) ==
    CASE w.verb = "post route"    -> PostRoute(Absent, w.name, w.route)
      [] w.verb = "patch route"   -> PatchRoute(Absent, w.name, w.route)
      [] w.verb = "delete route"  -> DeleteRoute(Absent, w.name)
      [] w.verb = "delete plugin" -> DeletePlugin(Absent, w.id)
      [] w.verb = "patch plugin"  -> PatchPlugin(Absent, w.id, w.config)
      [] w.verb = "post plugin"   -> PostPlugin(Absent, w.name, w.plugin, w.config)

Arrive ==
    /\ \E w \in late : Apply(w) /\ late' = late \ {w}
    /\ UNCHANGED local

\* ... or it is refused, or lost.
Vanish ==
    /\ \E w \in late : late' = late \ {w}
    /\ UNCHANGED vars

LateInit == Init /\ late = {}

LateNext ==
    \/ Next /\ UNCHANGED late
    \/ \E c \in Sync : TimeOut(c)
    \/ Arrive
    \/ Vanish

LateSpec == LateInit /\ [][LateNext]_lateVars
=============================================================================
