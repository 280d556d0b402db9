------------------------------ MODULE KongGateway ------------------------------
(***************************************************************************)
(* The gateway as a platform sees it: services are onboarded by            *)
(* kong_ensure_service and deployed by kong_sync against the same Kong, in *)
(* any order and at the same time.                                         *)
(***************************************************************************)
EXTENDS KongSync, KongEnsure

gvars == <<vars, elocal>>

\* A default block is no allow-route, and its name is made of its prefix.
ASSUME GatewayAssumption ==
    /\ Sync \cap Ensure = {}
    /\ \A e \in Ensure : BlockName[e] \notin AllowName
    /\ \A e, f \in Ensure : BlockName[e] = BlockName[f] => EnsurePrefix[e] = EnsurePrefix[f]

GatewayInit == Init /\ EnsureLocalInit

GatewayNext ==
    \/ Next /\ UNCHANGED elocal
    \/ EnsureNext /\ UNCHANGED local

GatewaySpec == GatewayInit /\ [][GatewayNext]_gvars

\* As in FairSpec and EnsureFairSpec: a started run or command takes its next step
\* or dies.
GatewayFairSpec ==
    /\ GatewaySpec
    /\ \A c \in Sync : WF_gvars(Step(c) /\ UNCHANGED elocal)
    /\ \A e \in Ensure : WF_gvars(EnsureStep(e) /\ UNCHANGED local)
=============================================================================
