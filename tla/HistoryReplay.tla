---------------------------- MODULE HistoryReplay ----------------------------
(* A client's transcript of one session over the session's lives.  A life is a *)
(* pi and its pump; it ends when another session is opened or pi is closed.    *)
(* The next life begins with a prompt, with session/load (v2: resume from the  *)
(* start), which replays what pi has stored, or with a resume without replay.  *)
(* Frames name messages and tool calls by ids the adapter mints.               *)
EXTENDS Integers, Sequences, FiniteSets, SequencesExt

CONSTANTS
    Protocols,  \* of "v1" and "v2"
    Begins,     \* how a later life may begin: of "load", "prompt", "resume"
    Size,       \* bound: messages of the session
    Loads       \* bound: replays

ReplayAssumption ==
    /\ Protocols \subseteq {"v1", "v2"} /\ Size \in Nat /\ Loads \in Nat
    /\ Begins \subseteq {"load", "prompt", "resume"}

VARIABLES
    protocol,   \* the one that was negotiated
    history,    \* pi's messages: [role, text, id, failed]; a result's id may be missing
    live,       \* the session has a pump
    seq,        \* next_message_seq of the pump
    synthetic,  \* the process's counter of mint_synthetic_message_id
    loads,
    fresh,      \* ghost: no life began without a replay since the last one
    view        \* the client's transcript: [id, of, failed], `of` the messages an entry shows
vars == <<protocol, history, live, seq, synthetic, loads, fresh, view>>

Unnamed == <<"none", 0>>
\* A chunk, or a frame of a call, joins the entry of its id; one without an id is its own.
Show(v, id, m, failed) ==
    IF id # Unnamed /\ \E i \in DOMAIN v : v[i].id = id
    THEN [i \in DOMAIN v |-> IF v[i].id = id THEN [id |-> id, of |-> v[i].of \cup {m}, failed |-> failed] ELSE v[i]]
    ELSE Append(v, [id |-> id, of |-> {m}, failed |-> failed])
\* A v2 patch replaces what the entry of its id shows; v1 has none.
message_patch(v, id, m) ==
    IF protocol = "v1" THEN v
    ELSE [i \in DOMAIN v |-> IF v[i].id = id THEN [id |-> id, of |-> {m}, failed |-> v[i].failed] ELSE v[i]]

Message(role, text, id, failed) == [role |-> role, text |-> text, id |-> id, failed |-> failed]
Now == Len(history) + 1

Init ==
    /\ protocol \in Protocols
    /\ history = <<>> /\ live = TRUE /\ seq = 0 /\ synthetic = 0 /\ loads = 0 /\ fresh = TRUE /\ view = <<>>

\* The client shows its own prompt, under an id of its own; pi's start of it mints one too.
mint_message_id == seq + 1
Prompted(text) ==
    /\ history' = Append(history, Message("user", text, Unnamed, FALSE))
    /\ view' = IF text THEN Show(view, <<"own", Now>>, Now, FALSE) ELSE view
Prompt ==
    /\ Now <= Size /\ live
    /\ \E text \in BOOLEAN : Prompted(text)
    /\ seq' = mint_message_id
    /\ UNCHANGED <<live, synthetic, loads, fresh>>

\* A reply: its chunks and its patch, or neither when it only calls tools.
Reply ==
    /\ Now <= Size /\ live /\ history # <<>>
    /\ seq' = mint_message_id
    /\ \E text \in BOOLEAN :
          /\ history' = Append(history, Message("assistant", text, Unnamed, FALSE))
          /\ view' = IF text THEN message_patch(Show(view, <<"msg", seq'>>, Now, FALSE), <<"msg", seq'>>, Now)
                             ELSE view
    /\ UNCHANGED <<live, synthetic, loads, fresh>>

\* A tool runs; its result in the session's file may lack pi's id.
Tool ==
    /\ Now <= Size /\ live /\ history # <<>> /\ Last(history).role # "user"
    /\ \E id \in {<<"call", Now>>, Unnamed}, failed \in BOOLEAN :
          /\ history' = Append(history, Message("toolResult", TRUE, id, failed))
          /\ view' = Show(view, <<"call", Now>>, Now, failed)
    /\ UNCHANGED <<live, seq, synthetic, loads, fresh>>

\* Another session is opened, or this one is closed.
Leave ==
    /\ live /\ history # <<>> /\ live' = FALSE
    /\ UNCHANGED <<history, seq, synthetic, loads, fresh, view>>

\* restore_session: a new pump counts from the start.
Restored == ~live /\ live' = TRUE /\ seq' = 0
PromptRestores ==
    /\ "prompt" \in Begins /\ Now <= Size /\ ~live /\ live' = TRUE /\ seq' = 1
    /\ \E text \in BOOLEAN : Prompted(text)
    /\ fresh' = FALSE
    /\ UNCHANGED <<synthetic, loads>>
Resume ==
    /\ protocol = "v2" /\ "resume" \in Begins /\ Restored /\ fresh' = FALSE
    /\ UNCHANGED <<history, synthetic, loads, view>>

\* replay_message: what has no text is skipped, a result never.
replay_message(m) == m.role = "toolResult" \/ m.text
\* send_replay_text, mint_synthetic_message_id.  Mutant: one id for all of them.
TextId_Shared(n) == IF protocol = "v1" THEN Unnamed ELSE <<"synthetic", 0>>
TextId(n) == IF protocol = "v1" THEN Unnamed ELSE <<"synthetic", n>>
\* A result without an id gets the next of the replay's own.
ResultId(k) == <<"replay", k>>
\* The opening frame says the call is complete, the second one how it ended; bash has one frame.
Results(v, id, m) == Show(Show(v, id, m, FALSE), id, m, history[m].failed)

\* A message's frames, after what was replayed so far.
Replay(s, m) ==
    CASE ~replay_message(history[m]) -> s
      [] history[m].role = "toolResult" /\ history[m].id = Unnamed ->
            [view |-> Results(s.view, ResultId(s.bare + 1), m), text |-> s.text, bare |-> s.bare + 1]
      [] history[m].role = "toolResult" /\ history[m].id # Unnamed ->
            [view |-> Results(s.view, history[m].id, m), text |-> s.text, bare |-> s.bare]
      [] history[m].role # "toolResult" /\ replay_message(history[m]) ->
            [view |-> Show(s.view, TextId(s.text + 1), m, FALSE), text |-> s.text + 1, bare |-> s.bare]
Replayed[n \in 0 .. Len(history)] ==
    IF n = 0 THEN [view |-> <<>>, text |-> synthetic, bare |-> 0] ELSE Replay(Replayed[n - 1], n)
replay_history == Replayed[Len(history)]

\* The client forgets its transcript; the frames go out before the response.
Load ==
    /\ "load" \in Begins /\ history # <<>> /\ loads < Loads
    /\ live' = TRUE /\ seq' = 0 /\ loads' = loads + 1 /\ fresh' = TRUE
    /\ view' = replay_history.view /\ synthetic' = replay_history.text
    /\ UNCHANGED history

Next == (Prompt \/ Reply \/ Tool \/ Leave \/ PromptRestores \/ Resume \/ Load) /\ UNCHANGED protocol
Spec == Init /\ [][Next]_vars

-------------------------------------------------------------------------------
\* The messages a client can be shown; a transcript shows each of them in its place and alone.
Sayable == {m \in DOMAIN history : replay_message(history[m])}
Transcript ==
    /\ \A i \in DOMAIN view : \E m \in Sayable : view[i].of = {m}
    /\ \A m \in Sayable : \E i \in DOMAIN view : view[i].of = {m}
    /\ \A i, j \in DOMAIN view : i < j => \A m \in view[i].of, n \in view[j].of : m < n

\* replay_history, mint_message_id: over all lives that began with a replay the client's
\* transcript is the session's history, each message in an entry of its own and none
\* overwritten; and a tool that failed is shown as failed, live and replayed, and no other is.
TranscriptIsHistory ==
    /\ fresh => Transcript
    /\ \A i \in DOMAIN view : view[i].failed = (\E m \in view[i].of : history[m].failed)
===============================================================================
