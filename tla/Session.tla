-------------------------------- MODULE Session --------------------------------
(* What a session shows a client: tool calls (this module's own variables), pi's *)
(* dialogs, the title and the replayed history; the text that pi is sent for a   *)
(* command; and the models that the settings' patterns enable.  They share no    *)
(* state: `part` picks one at the start, the others stay as they begin.          *)
EXTENDS ToolCalls

CONSTANTS
    Parts,          \* the parts that are picked from
    Requests, Method, Options, Timed, Room, ReplyRoom, Sayings,   \* dialogs
    Prompts, Names, Careful, Calm, Lives,                         \* title
    Protocols, Begins, Size, Loads,                               \* replay
    Glyphs, Letters, MaxLine, MaxBody, Empties, Zeros,            \* text
    Alphabet, Provider, Marks, MaxPieces, MaxId                   \* patterns

VARIABLES
    part,
    asked, texts, queue, host, parked, outbound, connector, task, dialog,   \* dialogs
    seen, replies, got, cancel,
    live, claimed, lives, entries, prompted, given, naming, titles, shown, \* title
    protocol, history, alive, seq, synthetic, loads, fresh, transcript,    \* replay
    line, meant, word, within, begun, body, filled, slots,                 \* text
    pattern, levelled, model_id                                            \* patterns

dialogVars == <<asked, texts, queue, host, parked, outbound, connector, task, dialog, seen,
                replies, got, cancel>>
titleVars == <<live, claimed, lives, entries, prompted, given, naming, titles, shown>>
replayVars == <<protocol, history, alive, seq, synthetic, loads, fresh, transcript>>
textVars == <<line, meant, word, within, begun, body, filled, slots>>
patternVars == <<pattern, levelled, model_id>>
sessionVars == <<part, vars, dialogVars, titleVars, replayVars, textVars, patternVars>>

Dialogs == INSTANCE ExtensionUi WITH
    Capacity <- Room, Texts <- Sayings, said <- texts, events <- queue, pump <- host, held <- parked
Title == INSTANCE ThreadTitle WITH
    Texts <- Prompts, file <- entries, task <- naming, outbound <- titles, title <- shown
History == INSTANCE HistoryReplay WITH live <- alive, view <- transcript
Lines == INSTANCE CommandText WITH Chars <- Glyphs
Globs == INSTANCE ModelPatterns WITH Pieces <- Marks

ASSUME SessionAssumption ==
    /\ Dialogs!RequestAssumption /\ Title!TitleAssumption /\ History!ReplayAssumption
    /\ Lines!TextAssumption /\ Globs!PatternAssumption

-----------------------------------------------------------------------------
\* A part that is not picked begins in one way.
SessionInit ==
    /\ part \in Parts
    /\ Init /\ (part = "tools" \/ (file = 0 /\ way = CHOOSE w \in Ways : TRUE))
    /\ Dialogs!Init /\ Title!Init
    /\ History!Init /\ (part = "replay" \/ protocol = CHOOSE p \in Protocols : TRUE)
    /\ Lines!Init
    /\ Globs!Init /\ (part = "patterns" \/ ~levelled)

SessionNext ==
    \/ part = "tools" /\ Next
       /\ UNCHANGED <<part, dialogVars, titleVars, replayVars, textVars, patternVars>>
    \/ part = "dialogs" /\ Dialogs!Next
       /\ UNCHANGED <<part, vars, titleVars, replayVars, textVars, patternVars>>
    \/ part = "title" /\ Title!Next
       /\ UNCHANGED <<part, vars, dialogVars, replayVars, textVars, patternVars>>
    \/ part = "replay" /\ History!Next
       /\ UNCHANGED <<part, vars, dialogVars, titleVars, textVars, patternVars>>
    \/ part = "text" /\ Lines!Next
       /\ UNCHANGED <<part, vars, dialogVars, titleVars, replayVars, patternVars>>
    \/ part = "patterns" /\ Globs!Next
       /\ UNCHANGED <<part, vars, dialogVars, titleVars, replayVars, textVars>>

SessionSpec == SessionInit /\ [][SessionNext]_sessionVars

-----------------------------------------------------------------------------
\* What pi and the client are told of pi's requests is so (handle_extension_ui_request).
DialogsAreHonest == Dialogs!DialogsAreHonest
\* The shown title is the one session/list has (thread_title, session_info_changed).
TitleAgrees == Title!TitleAgrees
\* A client's transcript is the session's history (replay_history, mint_message_id).
TranscriptIsHistory == History!TranscriptIsHistory
\* A template is filled with the arguments the user means (expand_slash_command).
TextIsMeant == Lines!TextIsMeant
\* A pattern enables the models its author describes (model_matches_enabled_pattern).
PatternMeansIt == Globs!PatternMeansIt
================================================================================
