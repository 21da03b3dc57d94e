--------------------------- MODULE MCSessionStore ---------------------------
(* SessionStore on small instances: two stores of one process.               *)
EXTENDS SessionStore, TLC

CONSTANTS p, s1, s2, i1, i2, v1, v2

OneProc == {p}
TwoStores == {s1, s2}
Shared == [s \in Stores |-> p]
TwoIds == {i1, i2}
TwoValues == {v1, v2}
=============================================================================
