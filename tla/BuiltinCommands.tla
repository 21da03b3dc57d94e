---------------------------- MODULE BuiltinCommands -----------------------------
(* The commands the adapter serves itself.  Each runs in the task of its       *)
(* prompt: it may ask pi for its state, decide, ask pi to change something,    *)
(* and tell the client what it did; other commands run in between.  Its        *)
(* requests go through the session's pump, which sends pi one and waits for    *)
(* its answer, pi's exit or the deadline before it takes up the next; pi may   *)
(* refuse, stay silent, and carry out a request whose deadline has passed.     *)
EXTENDS Naturals, Sequences, FiniteSets

CONSTANTS
    Commands,   \* the commands a client sends: id -> [cmd, arg]
    Calm,       \* the client waits for a command's end before it sends the next
    Grows       \* bound: how many messages the session's turns add

Settings == {"auto", "steering", "follow-up"}
Sets == {"autocompact", "steering", "follow-up"}
Plain == {"compact", "session", "name", "changelog", "export"}
Modes == {"all", "one-at-a-time"}
BuiltinAssumption ==
    /\ Calm \in BOOLEAN /\ Grows \in Nat
    /\ \A c \in DOMAIN Commands : Commands[c].cmd \in Sets \cup Plain

VARIABLES
    pi,         \* (external) setting -> value
    messages,   \* (external) how many messages pi's session has
    file,       \* (external) whether pi has written them to the session file
    up,         \* (external) pi runs
    inbox,      \* (external) the requests pi has been sent and not taken up: [cmd, kind]
    task,       \* per command: [pc, seen, goal]
    queue,      \* the pump's command channel: the commands with a request in it
    pump,       \* the command whose request the pump awaits, or "none"
    shown,      \* setting -> what the client was last told, or "nothing"
    by          \* ghost: setting -> the command pi last changed it for, or "none"
vars == <<pi, messages, file, up, inbox, task, queue, pump, shown, by>>
external == <<pi, messages, file, up, inbox, by>>

Cmd(c) == Commands[c].cmd
Arg(c) == Commands[c].arg
Over == {"answered", "error"}
Quiet == \A c \in DOMAIN Commands : task[c].pc \in {"idle"} \cup Over
SettingOf(c) == IF Cmd(c) = "autocompact" THEN "auto" ELSE Cmd(c)

Init ==
    /\ pi = [s \in Settings |-> IF s = "auto" THEN "on" ELSE "all"]
    /\ messages \in {0, 1} /\ file = FALSE /\ up = TRUE /\ inbox = {}
    /\ task = [c \in DOMAIN Commands |-> [pc |-> "idle", seen |-> "nothing", goal |-> "nothing"]]
    /\ queue = <<>> /\ pump = "none"
    /\ shown = [s \in Settings |-> "nothing"] /\ by = [s \in Settings |-> "none"]

Step(c, pc) == task' = [task EXCEPT ![c].pc = pc]
Answer(c) == Step(c, "answered") /\ UNCHANGED queue
Tell(c, v) == shown' = [shown EXCEPT ![SettingOf(c)] = v]

\* rpc: a request goes into the pump's channel; a set is for a value.
Ask(c, kind) == Step(c, kind) /\ queue' = Append(queue, c)
AskFor(c, v) == /\ task' = [task EXCEPT ![c].pc = "set", ![c].goal = v]
                /\ queue' = Append(queue, c)

\* What a command does first: most need pi, some of them pi's state.
handle_builtin_command(c) ==
    /\ task[c].pc = "idle" /\ (Calm => Quiet)
    /\ CASE Cmd(c) = "changelog" \/ (Cmd(c) = "name" /\ Arg(c) = "") -> Answer(c)
         [] Cmd(c) = "autocompact" /\ Arg(c) \in {"on", "off"} -> AskFor(c, Arg(c))
         [] Cmd(c) \in {"compact", "session"} \/ (Cmd(c) = "name" /\ Arg(c) # "") -> Ask(c, "call")
         [] Cmd(c) \in {"steering", "follow-up", "export"}
              \/ (Cmd(c) = "autocompact" /\ Arg(c) \notin {"on", "off"}) -> Ask(c, "state")
    /\ UNCHANGED <<external, pump, shown>>

\* What a request that fails means to its command: these two say so and are answered.
Failure(c) == IF task[c].pc = "call" /\ Cmd(c) \in {"name", "export"} THEN "answered" ELSE "error"
Fail(c) == Step(c, Failure(c))

\* The pump sends pi the next request and waits; with pi gone the request fails at once.
on_rpc ==
    /\ pump = "none" /\ queue # <<>> /\ queue' = Tail(queue)
    /\ LET c == Head(queue) IN
       \/ /\ up /\ pump' = c
          /\ inbox' = inbox \cup {[cmd |-> c, kind |-> task[c].pc]} /\ UNCHANGED task
       \/ ~up /\ Fail(c) /\ UNCHANGED <<pump, inbox>>
    /\ UNCHANGED <<pi, messages, file, up, shown, by>>

\* The request's deadline, or pi's exit; pi may carry it out all the same, later.
\* Mutant: without a deadline.
Deadline_OnExit(c) ==
    /\ pump = c /\ pump' = "none" /\ Fail(c) /\ ~up
    /\ UNCHANGED <<external, queue, shown>>
Deadline(c) ==
    /\ pump = c /\ pump' = "none" /\ Fail(c)
    /\ UNCHANGED <<external, queue, shown>>

\* pi takes up a request and answers: the pump hands the answer to the task, unless the
\* deadline has passed or passes before the answer is there.
Takes(c, kind) ==
    /\ up /\ [cmd |-> c, kind |-> kind] \in inbox
    /\ inbox' = inbox \ {[cmd |-> c, kind |-> kind]}
    /\ UNCHANGED <<messages, file, up, queue, shown>>
Reaches(c, t) ==
    \/ pump = c /\ pump' = "none" /\ (task' = [task EXCEPT ![c] = t] \/ Fail(c))
    \/ pump # c /\ UNCHANGED <<pump, task>>

\* get_state.
GetState(c) ==
    /\ Takes(c, "state")
    /\ Reaches(c, [task[c] EXCEPT !.pc = "decide",
                                  !.seen = IF Cmd(c) # "export" THEN pi[SettingOf(c)]
                                           ELSE IF messages > 0 THEN "some" ELSE "empty"])
    /\ UNCHANGED <<pi, by>>

\* set_auto_compaction, set_steering_mode, set_follow_up_mode at pi.
PiSets(c) ==
    /\ Takes(c, "set")
    /\ pi' = [pi EXCEPT ![SettingOf(c)] = task[c].goal]
    /\ by' = [by EXCEPT ![SettingOf(c)] = c]
    /\ Reaches(c, [task[c] EXCEPT !.pc = "tell"])

\* compact, get_session_stats, set_session_name and export_html: done.  An export with no
\* file makes pi answer without an id.
Unanswerable(c, kind) == kind = "call" /\ Cmd(c) = "export" /\ ~file
PiAnswers(c) ==
    /\ Takes(c, "call")
    /\ IF Unanswerable(c, "call") THEN UNCHANGED <<pump, task>>
       ELSE Reaches(c, [task[c] EXCEPT !.pc = "answered"])
    /\ UNCHANGED <<pi, by>>

\* pi refuses.  Mutant: the error of a set is dropped.
PiRefuses_Ignored(c) ==
    \E kind \in {"state", "set", "call"} :
        /\ Takes(c, kind) /\ ~Unanswerable(c, kind)
        /\ Reaches(c, [task[c] EXCEPT !.pc = IF kind = "set" THEN "tell" ELSE Failure(c)])
        /\ UNCHANGED <<pi, by>>
PiRefuses(c) ==
    \E kind \in {"state", "set", "call"} :
        /\ Takes(c, kind) /\ ~Unanswerable(c, kind)
        /\ Reaches(c, [task[c] EXCEPT !.pc = Failure(c)])
        /\ UNCHANGED <<pi, by>>

\* /steering and /follow-up: without an argument the mode is shown, with a wrong one the usage.
QueueMode(c) ==
    /\ task[c].pc = "decide" /\ Cmd(c) \in {"steering", "follow-up"}
    /\ CASE Arg(c) = ""       -> Tell(c, task[c].seen) /\ Answer(c)
         [] Arg(c) \in Modes  -> AskFor(c, Arg(c)) /\ UNCHANGED shown
         [] Arg(c) \notin Modes \cup {""} -> Answer(c) /\ UNCHANGED shown
    /\ UNCHANGED <<external, pump>>

\* A bare /autocompact asks for the opposite of what pi had.
Toggle(c) ==
    /\ task[c].pc = "decide" /\ Cmd(c) = "autocompact"
    /\ AskFor(c, IF task[c].seen = "on" THEN "off" ELSE "on")
    /\ UNCHANGED <<external, pump, shown>>

\* A session that is not on disk is not exported.  Mutant: it is.
Export(c) ==
    /\ task[c].pc = "decide" /\ Cmd(c) = "export"
    /\ IF task[c].seen = "some" /\ file THEN Ask(c, "call") ELSE Answer(c)
    /\ UNCHANGED <<external, pump, shown>>

\* The client is told the value that was asked for.
Reply(c) ==
    /\ task[c].pc = "tell"
    /\ Tell(c, task[c].goal) /\ Answer(c)
    /\ UNCHANGED <<external, pump>>

\* (external) A turn adds a message; pi writes the file at some time after.
PiTurns ==
    /\ up
    /\ \/ messages < Grows /\ messages' = messages + 1 /\ UNCHANGED file
       \/ messages > 0 /\ ~file /\ file' = TRUE /\ UNCHANGED messages
    /\ UNCHANGED <<pi, up, inbox, task, queue, pump, shown, by>>

PiDies ==
    /\ up /\ up' = FALSE
    /\ UNCHANGED <<pi, messages, file, inbox, task, queue, pump, shown, by>>

Run(c) == QueueMode(c) \/ Toggle(c) \/ Export(c) \/ Reply(c)
PiDoes(c) == GetState(c) \/ PiSets(c) \/ PiAnswers(c) \/ PiRefuses(c)
Next ==
    \/ \E c \in DOMAIN Commands : handle_builtin_command(c) \/ Run(c) \/ Deadline(c) \/ PiDoes(c)
    \/ on_rpc \/ PiTurns \/ PiDies
Spec == Init /\ [][Next]_vars

\* A task runs, the pump serves its channel, and a request ends by its deadline at the
\* latest: nothing rests on pi's answer.
Fairness ==
    /\ \A c \in DOMAIN Commands : WF_vars(Run(c)) /\ WF_vars(Deadline(c))
    /\ WF_vars(on_rpc)

-------------------------------------------------------------------------------
\* What pi's settings and the client's view of them may be, and where requests are.
TypeOK ==
    /\ pi["auto"] \in {"on", "off"} /\ pi["steering"] \in Modes /\ pi["follow-up"] \in Modes
    /\ shown["auto"] \in {"nothing", "on", "off"}
    /\ \A s \in Settings \ {"auto"} : shown[s] \in Modes \cup {"nothing"}
    /\ messages \in 0 .. Grows /\ file \in BOOLEAN /\ up \in BOOLEAN
    /\ pump \in DOMAIN Commands \cup {"none"} /\ queue \in Seq(DOMAIN Commands)
    /\ inbox \subseteq [cmd : DOMAIN Commands, kind : {"state", "set", "call"}]

\* handle_builtin_command: with nothing under way and pi alive, what the client was last told of a
\* setting is what pi has, also after sets that failed.  The exception is a set that pi carried
\* out though its command ended in an error, past the deadline: nobody tells the client.
ClientKnows ==
    Quiet /\ up => \A s \in Settings :
        \/ shown[s] \in {"nothing", pi[s]}
        \/ \E c \in DOMAIN Commands : by[s] = c /\ task[c].pc = "error"

\* "pi throws an uncorrelated parse error (no id) that would hang the request" (agent.rs, export):
\* while pi is up, the pump, and with it the session, never waits for an answer that pi has no
\* more to give.
NothingHangs == up /\ pump # "none" => \E r \in inbox : r.cmd = pump

\* handle_builtin_command: a command that was begun is answered or fails, whatever pi does.
EveryCommandEnds == \A c \in DOMAIN Commands : task[c].pc # "idle" ~> task[c].pc \in Over
================================================================================
