--------------------------- MODULE RequestService ---------------------------
(***************************************************************************)
(* What the request transport promises its callers, and what TurnPump      *)
(* takes for granted: a request is refused, or is written and awaits its   *)
(* answer; it ends once, with an answer only if pi took that very request  *)
(* and answered it, and otherwise with an error.                           *)
(***************************************************************************)
CONSTANT Requests

VARIABLES
    state, \* per request: "none", "writing", "awaiting", "ok" or "err"
    asked, \* the requests pi has taken from its stdin
    said   \* the requests pi has answered

serviceVars == <<state, asked, said>>

Init ==
    /\ state = [r \in Requests |-> "none"]
    /\ asked = {}
    /\ said = {}

Move(r, from, to) ==
    /\ state[r] \in from
    /\ state' = [state EXCEPT ![r] = to]
    /\ UNCHANGED <<asked, said>>

Start(r) == Move(r, {"none"}, "writing")
Written(r) == Move(r, {"writing"}, "awaiting")
Answered(r) == r \in said /\ Move(r, {"awaiting"}, "ok")
Fails(r) == Move(r, {"none", "writing", "awaiting"}, "err")

PiTakes(r) ==
    /\ state[r] # "none"
    /\ r \notin asked
    /\ asked' = asked \cup {r}
    /\ UNCHANGED <<state, said>>

PiAnswers(r) ==
    /\ r \in asked \ said
    /\ said' = said \cup {r}
    /\ UNCHANGED <<state, asked>>

Next == \E r \in Requests : \/ Start(r) \/ Written(r) \/ Answered(r) \/ Fails(r)
                            \/ PiTakes(r) \/ PiAnswers(r)

Spec == Init /\ [][Next]_serviceVars
=============================================================================
