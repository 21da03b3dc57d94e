--------------------------- MODULE MCRpcTransport ---------------------------
(* RpcTransport on small instances: a is a request the pump awaits (an     *)
(* abort of on_cancel), p is that of a spawned task (a prompt, the abort   *)
(* of a recovery).                                                         *)
EXTENDS RpcTransport

CONSTANTS a, p

TwoRequests == {a, p}
OnlyA == {a}
=============================================================================
