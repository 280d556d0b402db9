----------------------------- MODULE MCSessionToken -----------------------------
(***************************************************************************)
(* Connect and one more service, with one and two workers.                 *)
(***************************************************************************)
EXTENDS SessionToken

MCService == {"connect", "flows"}
MCRequest == {"connect-1", "flows-1", "flows-2"}
MCServedBy == [r \in Request |-> IF r = "connect-1" THEN "connect" ELSE "flows"]

\* Expiries at odd and even ticks, none, and a timestamp with a trailing Z.
MCExpiry == {3, 6, Never, Unreadable}
=============================================================================
