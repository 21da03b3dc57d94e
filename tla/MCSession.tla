------------------------------- MODULE MCSession -------------------------------
(* The session's parts with values.                                               *)
EXTENDS Session

CONSTANTS a, b   \* tool calls

-----------------------------------------------------------------------------
\* A bash call's output in deltas beside an edit; in snapshots, as from an older pi,
\* beside a read; two edits of one file; a bash call's output in both forms, cut, lost
\* and streamed late.
TwoCalls == {a, b}
OneChar == {0}
Way(tool_a, tool_b, forms) ==
    [tool |-> [id \in TwoCalls |-> IF id = a THEN tool_a ELSE tool_b],
     forms |-> [id \in TwoCalls |-> IF id = a THEN forms ELSE {"snapshot"}],
     truncates |-> FALSE, loses |-> FALSE, late |-> FALSE]
ToolWays ==
    { Way("bash", "edit", {"delta"}), Way("bash", "read", {"snapshot"}),
      Way("edit", "write", {"snapshot"}),
      [Way("bash", "none", {"snapshot", "delta"})
          EXCEPT !.truncates = TRUE, !.loses = TRUE, !.late = TRUE] }

\* Two dialogs, one timed, and a notice: what the client may mix up.
ThreeRequests == {"p", "q", "n"}
OfMethod == [p |-> "select", q |-> "confirm", n |-> "notify"]
WithOptions == [p |-> <<"left", "right">>, q |-> <<>>, n |-> <<>>]
OneTimed == {"q"}

TwoPrompts == {"t1", "t2"}
ThreeNames == {"n1", "n2", "n3"}

BothProtocols == {"v1", "v2"}
AnyBegin == {"load", "prompt", "resume"}

OneLetter == {"x"}
ThreeChars == {"a", "dollar", "1"}

SomeAlphabet == <<"star", "slash", "colon", "open", "a", "c", "high">>
OneProvider == <<"a">>
AllPieces == {"some", "any", "one", "either", "range", "except", "quoted", "bracket",
              "a", "slash", "colon"}

AllParts == {"tools", "dialogs", "title", "replay", "text", "patterns"}
================================================================================
