------------------------------- MODULE ThreadTitle ------------------------------
(* The title of a thread.  The client is shown the text of the first real      *)
(* prompt, the names given with /name, the names pi reports, and, when a       *)
(* session is loaded, the title session/list shows for its file.  The agent's  *)
(* notices go out at once, the pump's through the outbound channel.            *)
EXTENDS Subsequences, SequencesExt

CONSTANTS
    Texts,      \* prompts a client sends
    Names,      \* names the client or pi gives
    Careful,    \* the thread is prompted once, before it is named or loaded
    Calm,       \* a session is named or loaded only when nothing else is under way
    Lives       \* bound: how often the session is loaded or restored

TitleAssumption ==
    /\ Careful \in BOOLEAN /\ Calm \in BOOLEAN /\ Lives \in Nat
    /\ Texts \cap Names = {} /\ "none" \notin Texts \cup Names

VARIABLES
    live,       \* a PiAcpSession exists
    claimed,    \* its first_prompt
    lives,
    file,       \* pi's session file: the entries <<"user", text>> and <<"name", name>>
    prompted,   \* the prompts sent
    given,      \* the names given
    task,       \* /name: name -> "idle", "set" (pi has it) or "told"
    outbound,   \* the titles the pump has put into its channel
    title       \* what the client shows, or "none"
vars == <<live, claimed, lives, file, prompted, given, task, outbound, title>>

Entries(kind) == Only(file, {kind} \X (Texts \cup Names))
Named == Entries("name") # <<>>
Quiet == outbound = <<>> /\ \A n \in Names : task[n] # "set"

\* The last name; without one the first user message.
title_from_session_file_First ==
    IF Named THEN Head(Entries("name"))[2]
    ELSE IF Entries("user") # <<>> THEN Head(Entries("user"))[2] ELSE "none"
title_from_session_file ==
    IF Named THEN Last(Entries("name"))[2]
    ELSE IF Entries("user") # <<>> THEN Head(Entries("user"))[2] ELSE "none"

Init ==
    /\ live = TRUE /\ claimed = FALSE /\ lives = 0 /\ file = <<>> /\ prompted = {} /\ given = {}
    /\ task = [n \in Names |-> "idle"] /\ outbound = <<>> /\ title = "none"

\* A real prompt: the first of this PiAcpSession titles the thread; pi then stores the message.
handle_prompt_turn(t) ==
    /\ live /\ t \notin prompted
    /\ Careful => prompted = {} /\ ~Named /\ lives = 0
    /\ title' = IF claimed THEN title ELSE t
    /\ claimed' = TRUE
    /\ prompted' = prompted \cup {t}
    /\ file' = Append(file, <<"user", t>>)
    /\ UNCHANGED <<live, lives, given, task, outbound>>

\* A name that pi has been given: it stores it and says session_info_changed, which the pump forwards.
PiIsNamed(n) ==
    /\ n \notin given /\ given' = given \cup {n}
    /\ file' = Append(file, <<"name", n>>)
    /\ outbound' = Append(outbound, n)

\* /name: set_session_name, and then the agent tells the client.
NameSets(n) ==
    /\ live /\ (Calm => Quiet)
    /\ PiIsNamed(n)
    /\ task' = [task EXCEPT ![n] = "set"]
    /\ UNCHANGED <<live, claimed, lives, prompted, title>>

NameTells(n) ==
    /\ task[n] = "set"
    /\ task' = [task EXCEPT ![n] = "told"]
    /\ title' = n
    /\ UNCHANGED <<live, claimed, lives, file, prompted, given, outbound>>

\* pi, or an extension of it, names the session.
SessionInfoChanged(n) ==
    /\ live /\ (Calm => Quiet)
    /\ PiIsNamed(n)
    /\ UNCHANGED <<live, claimed, lives, prompted, task, title>>

\* The outbound connector.
Deliver ==
    /\ outbound # <<>>
    /\ title' = Head(outbound) /\ outbound' = Tail(outbound)
    /\ UNCHANGED <<live, claimed, lives, file, prompted, given, task>>

\* The session is closed or its pi dies; what is in the channel is still delivered.
Close ==
    /\ live
    /\ live' = FALSE
    /\ UNCHANGED <<claimed, lives, file, prompted, given, task, outbound, title>>

\* session/load restores the session and shows the title of its file.
LoadSession ==
    /\ lives < Lives /\ (Calm => Quiet) /\ file # <<>>
    /\ lives' = lives + 1 /\ live' = TRUE /\ claimed' = FALSE
    /\ title' = title_from_session_file
    /\ UNCHANGED <<file, prompted, given, task, outbound>>

\* A prompt, or another call, for a session that is not live: restored without a word on its title.
restore_session ==
    /\ ~live /\ file # <<>> /\ lives < Lives
    /\ lives' = lives + 1 /\ live' = TRUE /\ claimed' = FALSE
    /\ UNCHANGED <<file, prompted, given, task, outbound, title>>

Next ==
    \/ \E t \in Texts : handle_prompt_turn(t)
    \/ \E n \in Names : NameSets(n) \/ NameTells(n) \/ SessionInfoChanged(n)
    \/ Deliver \/ Close \/ LoadSession \/ restore_session
Spec == Init /\ [][Next]_vars

-------------------------------------------------------------------------------
\* The session's fields and the client's title.
TypeOK ==
    /\ live \in BOOLEAN /\ claimed \in BOOLEAN /\ lives \in 0 .. Lives
    /\ prompted \subseteq Texts /\ given \subseteq Names
    /\ title \in Texts \cup Names \cup {"none"}

\* handle_builtin_command and session_info_changed: with nothing under way a thread that has a name
\* is shown under its last one, the title session/list has for it.
NamedAgrees == Quiet /\ Named => title = title_from_session_file /\ title = Last(Entries("name"))[2]

\* handle_prompt_turn: a thread that was really prompted is not left untitled, loaded again or not.
PromptedIsTitled == prompted # {} => title # "none"

\* The client shows the title that session/list would (thread_title, session_info_changed,
\* title_from_session_file), and a prompted thread has one.
TitleAgrees == TypeOK /\ NamedAgrees /\ PromptedIsTitled
================================================================================
