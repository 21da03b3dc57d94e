------------------------------- MODULE MCRequests ------------------------------
(* A client's requests with values.                                               *)
EXTENDS Requests

CONSTANTS words, err, note  \* a text, an error and a notice

-----------------------------------------------------------------------------
\* Two messages, in two turns or in one; all can be sent.
OneText == {words}
OneError == {err}
OneNotice == {note}
AllSent == {}
BothRoles == {"user", "assistant"}

\* plain reasons on off..high but low, deep adds max and cannot be off, fast does not reason.
ModelMap == [plain |-> [reasoning |-> TRUE, nulls |-> {3}, entries |-> {}],
             deep |-> [reasoning |-> TRUE, nulls |-> {1, 5}, entries |-> {7}],
             fast |-> [reasoning |-> FALSE, nulls |-> {}, entries |-> {}]]
ThreeModels == {"plain", "deep", "fast"}
Windows == [plain |-> 100, deep |-> 200, fast |-> 50]
TwoEnabled == {"plain", "deep"}
LowAndHigh == {3, 5}
BothProtocols == {"v1", "v2"}
SetsFail == {"set"}

Entry(n, s) == [name |-> n, source |-> s]
File(n, b) == [name |-> n, body |-> b]
Prompt(n, strict, images) == [name |-> n, strict |-> strict, images |-> images]

\* "ext" is an extension's command that a file of the project shadows; "fix" is a file of
\* both roots.
AllLists == { <<Entry("ext", "extension"), Entry("fix", "prompt"), Entry("talk", "skill"),
                Entry("compact", "prompt")>>,
              <<Entry("ext", "extension"), Entry("talk", "skill")>> }
PromptDirs == [user |-> <<File("fix", "f1")>>, cwd |-> <<File("fix", "f2"), File("ext", "f3")>>,
               extra |-> <<File("lint", "f4")>>]
AllPrompts == [p1 |-> Prompt("ext", TRUE, FALSE), p2 |-> Prompt("fix", FALSE, FALSE),
               p3 |-> Prompt("ext", FALSE, FALSE), p4 |-> Prompt("compact", TRUE, TRUE),
               p5 |-> Prompt("compact", FALSE, FALSE), p6 |-> Prompt("ext", TRUE, TRUE)]
FewPrompts == [p1 |-> Prompt("ext", TRUE, FALSE), p2 |-> Prompt("fix", TRUE, FALSE),
               p3 |-> Prompt("plain", TRUE, FALSE)]

\* Six prompts at once, and a pi that answers; two, and a pi that fails and changes.
TwoWays == { [prompts |-> AllPrompts, skills |-> TRUE, fails |-> FALSE, changes |-> 0],
             [prompts |-> FewPrompts, skills |-> FALSE, fails |-> TRUE, changes |-> 1] }
OwnCommands == {"compact", "name"}
AllNames == OwnCommands \cup {"ext", "fix", "talk", "lint"}
AllBodies == {"f1", "f2", "f3", "f4"}
ThreeRoots == <<"cwd", "extra", "cwd">>

ThreeSessions == {"a", "b", "c"}
TwoCwds == {"w", "v"}

\* The years a timestamp can have; those around the ends of eras, centuries and leap years
\* day by day.
SomeYears == {0, 1, 4, 100, 399, 400, 1600, 1900, 1969, 1970, 1972, 2000, 2023, 2024, 2100, 2399,
              2400, 9999}
SomeTimes == {0, 12, 23}
SomeOffsets == {-23, -1, 0, 1, 23}

AllParts == {"stream", "config", "commands", "listing", "calendar"}
================================================================================
