-------------------------- MODULE MCAgentLifecycle --------------------------
(* AgentLifecycle on small instances: s0 is a session of an earlier run, m a *)
(* set of MCP servers.                                                       *)
EXTENDS AgentLifecycle

CONSTANTS c1, c2, s0, s1, m

TwoCalls == {c1, c2}
TwoIds == {s0, s1}
OneStored == {s0}
OneMenu == {m}

\* Every pair of requests, among them any two handlers in sequence.
AnyKinds == [c \in Calls |-> Kinds]
=============================================================================
