----------------------------- MODULE SessionMap -----------------------------
(***************************************************************************)
(* What the session map on disk promises: it is changed one entry at a     *)
(* time and forgets everything only when something else damages the file.  *)
(***************************************************************************)
CONSTANTS Ids, Values, None

VARIABLE entries

Init == entries \in [Ids -> Values \cup {None}]
Put(id, v) == entries' = [entries EXCEPT ![id] = v]
Damaged == entries' = [id \in Ids |-> None]

Next == (\E id \in Ids, v \in Values \cup {None} : Put(id, v)) \/ Damaged
Spec == Init /\ [][Next]_entries
=============================================================================
