----------------------------- MODULE MCTurnPump -----------------------------
(* TurnPump on small instances: p1 and p2 are ordinary prompts, x is a pi   *)
(* extension command.                                                       *)
EXTENDS TurnPump

CONSTANTS p1, p2, x, t1

OrdinaryPrompts == {p1, p2}
MixedPrompts == {p1, x}
AllPrompts == {p1, p2, x}
NoPrompts == {}
ExtOnly == {x}
OneTool == {t1}
NoTools == {}
=============================================================================
