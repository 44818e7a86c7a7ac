---------------------------- MODULE MCGatewaySession ----------------------------
(* An instance of GatewaySession: two processes of a rollout, and two      *)
(* workloads of which one has a token.                                     *)
EXTENDS GatewaySession

CONSTANTS k1, k2, p1, p2

\* Two are enough for a fresh one to be left whenever one is generated.
MCKeys == {k1, k2}

MCProcesses == {p1, p2}

MCNames == {"a", "b"}

MCTokens == {"t"}

MCGrantee == [t |-> "a"]
================================================================================
