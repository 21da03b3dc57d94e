---------------------------- MODULE TurnService -----------------------------
(***************************************************************************)
(* What one session promises the callers of session/prompt, without pi,    *)
(* without channels, timeouts or recoveries: prompts are served one at a   *)
(* time in the order they arrive; at any moment the session may give up    *)
(* the prompt it serves, the longest-waiting ones, or both; every prompt   *)
(* is answered once, and only a prompt that was served can end normally.   *)
(***************************************************************************)
EXTENDS Integers, Sequences, Functions

CONSTANTS Prompts, None

VARIABLES
    outcome,  \* what each prompt's caller has
    line,     \* the prompts that wait, in order of arrival
    active    \* the prompt being served

serviceVars == <<outcome, line, active>>

GivenUp == {"Cancelled", "Rejected", "SettleTimeout", "SessionClosed", "PiExited"}

Init ==
    /\ outcome = [p \in Prompts |-> "unsent"]
    /\ line = <<>>
    /\ active = None

Arrive(p) ==
    /\ outcome[p] = "unsent"
    /\ \/ /\ outcome' = [outcome EXCEPT ![p] = "waiting"]
          /\ line' = Append(line, p)
       \/ /\ \E r \in GivenUp : outcome' = [outcome EXCEPT ![p] = r]
          /\ UNCHANGED line
    /\ UNCHANGED active

\* The next prompt in line, if the session goes on to it.
MoveOn ==
    \/ /\ active' = None
       /\ UNCHANGED line
    \/ /\ line # <<>>
       /\ active' = Head(line)
       /\ line' = Tail(line)

Begin ==
    /\ active = None
    /\ MoveOn
    /\ UNCHANGED outcome

Finish ==
    /\ active # None
    /\ \E r \in {"EndTurn", "Cancelled"} : outcome' = [outcome EXCEPT ![active] = r]
    /\ MoveOn

\* The active prompt is given up, or the n that wait longest, or both.
GiveUp(n) ==
    /\ line' = SubSeq(line, n + 1, Len(line))
    /\ active' \in {active, None}
    /\ \A p \in Prompts :
         IF p \in Range(SubSeq(line, 1, n)) \/ (p = active /\ active' = None)
         THEN outcome'[p] \in GivenUp
         ELSE outcome'[p] = outcome[p]

Next ==
    \/ \E p \in Prompts : Arrive(p)
    \/ Begin
    \/ Finish
    \/ \E n \in 0 .. Len(line) : GiveUp(n)

Spec == Init /\ [][Next]_serviceVars

\* Every prompt in line is answered in the end.
Answered == \A p \in Prompts : outcome[p] = "waiting" ~> outcome[p] # "waiting"
=============================================================================
