-------------------------- MODULE SessionDirectory --------------------------
(***************************************************************************)
(* What the agent promises about pi processes, without requests, locks or  *)
(* a disk: a pi begins in somebody's hands, may serve one session, and is  *)
(* retired exactly once, out of somebody's hands; a session is served by   *)
(* one pi at a time, and one that is replaced goes back into hands.        *)
(***************************************************************************)
CONSTANTS Pis, Ids, None

VARIABLES
    stage,    \* each pi: unborn, held, serving or retired
    serving   \* each session: the pi that serves it

directoryVars == <<stage, serving>>

Init ==
    /\ stage = [p \in Pis |-> "unborn"]
    /\ serving = [s \in Ids |-> None]

Begin(p) ==
    /\ stage[p] = "unborn"
    /\ stage' = [stage EXCEPT ![p] = "held"]
    /\ UNCHANGED serving

\* p takes over session s from the pi that served it, if any.
Serve(p, s) ==
    /\ stage[p] = "held"
    /\ serving' = [serving EXCEPT ![s] = p]
    /\ stage' = [q \in Pis |-> CASE q = p -> "serving"
                                 [] q # p /\ q = serving[s] -> "held"
                                 [] OTHER -> stage[q]]

Withdraw(s) ==
    /\ serving[s] # None
    /\ stage' = [stage EXCEPT ![serving[s]] = "held"]
    /\ serving' = [serving EXCEPT ![s] = None]

Retire(p) ==
    /\ stage[p] = "held"
    /\ stage' = [stage EXCEPT ![p] = "retired"]
    /\ UNCHANGED serving

\* The connection ends: the pis in hands are retired, later the others.
RetireHeld ==
    /\ stage' = [p \in Pis |-> IF stage[p] = "held" THEN "retired" ELSE stage[p]]
    /\ UNCHANGED serving

RetireServing ==
    /\ stage' = [p \in Pis |-> IF stage[p] = "serving" THEN "retired" ELSE stage[p]]
    /\ serving' = [s \in Ids |-> None]

Next ==
    \/ \E p \in Pis : Begin(p) \/ Retire(p) \/ (\E s \in Ids : Serve(p, s))
    \/ \E s \in Ids : Withdraw(s)
    \/ RetireHeld
    \/ RetireServing

Spec == Init /\ [][Next]_directoryVars

\* No pi stays in hands: it comes to serve or it is retired.
NoneHeldForever == \A p \in Pis : stage[p] = "held" ~> stage[p] # "held"
=============================================================================
