--------------------------------- MODULE MCLive --------------------------------
(* What must happen in the end, of three parts that wait for others: the turn's  *)
(* response for the connector, pi's requests for the client, the adapter's own   *)
(* commands for pi.  `part` picks one at the start, the others stay as they      *)
(* begin; "in turn" and "at once" are both of BuiltinCommands, whose client waits for *)
(* each command or sends them all at once.                                       *)
EXTENDS Naturals, Sequences

CONSTANTS t, err, n, None   \* texts, errors and notices of the message stream

VARIABLES
    part,
    pi, said, failed, events, pump, out, chan, shown, answered, late,       \* stream
    asked, texts, queue, host, held, outbound, connector, task, dialog,     \* dialogs
    seen, replies, got, cancel,
    settings, messages, file, up, inbox, command, rpcs, awaited, told, by   \* in turn, at once

streamVars == <<pi, said, failed, events, pump, out, chan, shown, answered, late>>
dialogVars == <<asked, texts, queue, host, held, outbound, connector, task, dialog, seen,
                replies, got, cancel>>
commandVars == <<settings, messages, file, up, inbox, command, rpcs, awaited, told, by>>
vars == <<part, streamVars, dialogVars, commandVars>>

-----------------------------------------------------------------------------
\* A notice that cannot be sent, a channel of one.
Stream == INSTANCE MessageStream WITH
    Texts <- {t}, Errors <- {err}, Notices <- {n}, Unsendable <- {n}, Roles <- {"assistant"},
    MaxMessages <- 2, MaxDeltas <- 1, MaxTurns <- 2, MaxEvents <- 2, Capacity <- 1

\* A client that need not answer: a dialog without and one with a timeout.
Dialogs == INSTANCE ExtensionUi WITH
    Requests <- {"p", "q"}, Method <- [p |-> "confirm", q |-> "select"],
    Options <- [p |-> <<>>, q |-> <<"left">>], Timed <- {"q"},
    Capacity <- 1, ReplyRoom <- 1, Texts <- 1,
    said <- texts, events <- queue, pump <- host

Of(c, a) == [cmd |-> c, arg |-> a]
Sent == [a |-> Of("autocompact", ""), b |-> Of("export", ""), c |-> Of("compact", ""),
         d |-> Of("steering", "one-at-a-time"), e |-> Of("steering", "")]
InTurn == INSTANCE BuiltinCommands WITH
    Commands <- Sent, Calm <- TRUE, Grows <- 1,
    pi <- settings, task <- command, queue <- rpcs, pump <- awaited, shown <- told
AtOnce == INSTANCE BuiltinCommands WITH
    Commands <- Sent, Calm <- FALSE, Grows <- 1,
    pi <- settings, task <- command, queue <- rpcs, pump <- awaited, shown <- told

ASSUME Stream!StreamAssumption
ASSUME Dialogs!RequestAssumption
ASSUME InTurn!BuiltinAssumption /\ AtOnce!BuiltinAssumption

-----------------------------------------------------------------------------
Init ==
    /\ part \in {"stream", "dialogs", "in turn", "at once"}
    /\ Stream!Init /\ Dialogs!Init /\ InTurn!Init
    /\ part \in {"in turn", "at once"} \/ messages = 0

Next ==
    \/ part = "stream" /\ Stream!Next /\ UNCHANGED <<part, dialogVars, commandVars>>
    \/ part = "dialogs" /\ Dialogs!Next /\ UNCHANGED <<part, streamVars, commandVars>>
    \* To bound the states the export is not sent in turn, the last command not at once.
    \/ /\ part = "in turn" /\ InTurn!Next /\ command'["b"].pc = "idle"
       /\ UNCHANGED <<part, streamVars, dialogVars>>
    \/ /\ part = "at once" /\ AtOnce!Next /\ command'["e"].pc = "idle"
       /\ UNCHANGED <<part, streamVars, dialogVars>>

\* A part that is not picked has nothing to do, so its tasks' fairness asks for nothing.
Spec == /\ Init /\ [][Next]_vars
        /\ Stream!Fairness /\ Dialogs!Fairness /\ InTurn!Fairness

-----------------------------------------------------------------------------
\* A settled turn is answered, though a fact before its flush cannot be sent
\* (spawn_outbound_connector).
SettledIsAnswered == Stream!SettledIsAnswered
\* A silent client keeps neither a cancel from being handled nor a request with a timeout
\* from being answered (handle_extension_ui_request).
SilenceIsSurvived == Dialogs!AlwaysAnswered /\ Dialogs!CancelIsHandled
\* A command of the adapter's own ends though pi says nothing (handle_builtin_command), and
\* none makes the session wait for an answer that pi will not give (export).
CommandsEnd == InTurn!EveryCommandEnds /\ [](InTurn!TypeOK /\ AtOnce!NothingHangs)
\* Of commands sent one after another, what the client was told of a setting is what pi has,
\* unless pi carried out a set past its deadline (handle_builtin_command).
ClientKnows == part = "in turn" => InTurn!ClientKnows
================================================================================
