------------------------------ MODULE ToolCalls ------------------------------
(***************************************************************************)
(* How a session's pump follows pi's tool calls (session.rs, the tool_call *)
(* handlers and their seven maps), what both protocols' renderers make of  *)
(* it (render.rs) and what a v1 and a v2 client then show.                 *)
(*                                                                         *)
(* pi sends events into a queue and goes on; it edits files and prints     *)
(* while the events wait.  The pump handles one event at a time.           *)
(***************************************************************************)
EXTENDS Naturals, Sequences, SequencesExt

CONSTANTS
    Ids,        \* tool call ids pi uses
    NoId,       \* the empty tool call id
    Ways,       \* what pi may do: a set of records [tool, forms, truncates, loses, late]
    Chars,      \* what a command can print
    MaxOut,     \* bound: length of a command's output
    MaxEvents,  \* bound: events waiting for the pump
    MaxWrites,  \* bound: versions of the file
    Absent      \* no entry, no value

\* A way gives each call its tool, or none; the forms a bash call's output is sent in;
\* whether pi's results may leave out the head of the output, whether it may drop a
\* running tool without an end, and whether it may stream a call's name or arguments
\* while the call already runs.
ASSUME ToolAssumption ==
    /\ \A w \in Ways :
          /\ w.tool \in [Ids -> {"bash", "edit", "write", "read", "none"}]
          /\ w.forms \in [Ids -> SUBSET {"snapshot", "delta"}]
          /\ {w.truncates, w.loses, w.late} \subseteq BOOLEAN
    /\ MaxOut \in Nat /\ MaxEvents \in Nat /\ MaxWrites \in Nat \ {0}
    /\ NoId \notin Ids
    /\ Absent \notin {"name", "command", "terminal", "pending", "in_progress", "completed", "failed"}
    /\ Absent \notin {"other", "execute", "edit", "read"}
    /\ Absent \notin Nat /\ Absent \notin Seq(Chars)

VARIABLES
    way,        \* one of Ways
    pi,         \* pi's calls: what it streamed, ran and printed
    file,       \* version of the file the edits are about, 0 when missing
    events,     \* events the pump has not handled
    turn,       \* none, waiting (accepted, pi silent) or going
    maps,       \* the pump's seven maps
    view,       \* what a v1 and a v2 client show
    stray       \* ghost: calls opened twice, or updated before they opened

vars == <<way, pi, file, events, turn, maps, view, stray>>

-----------------------------------------------------------------------------
\* The pump's state.

IsBash(id) == way.tool[id] = "bash"
IsMutation(id) == way.tool[id] \in {"edit", "write"}
Kind == [bash |-> "execute", edit |-> "edit", write |-> "edit", read |-> "read"]

\* `current` is the tracked status, `old` the file snapshot, `output` the bash
\* output snapshot; `mutation` and `executing` are sets, as is `bash`.
NoMaps ==
    [current |-> [id \in Ids |-> Absent], executing |-> {},
     mutation |-> {}, old |-> [id \in Ids |-> Absent],
     bash |-> {}, output |-> [id \in Ids |-> Absent], command |-> [id \in Ids |-> Absent]]

OrEmpty(text) == IF text = Absent THEN <<>> ELSE text

\* Mutant: the call stays among the running.
cleanup_tool_call_Running(m, id) ==
    [m EXCEPT !.current[id] = Absent, !.mutation = @ \ {id}, !.old[id] = Absent,
              !.bash = @ \ {id}, !.output[id] = Absent, !.command[id] = Absent]
cleanup_tool_call(m, id) ==
    [current |-> [m.current EXCEPT ![id] = Absent], executing |-> m.executing \ {id},
     mutation |-> m.mutation \ {id}, old |-> [m.old EXCEPT ![id] = Absent],
     bash |-> m.bash \ {id}, output |-> [m.output EXCEPT ![id] = Absent],
     command |-> [m.command EXCEPT ![id] = Absent]]

\* Mutant: the whole snapshot each time.
bash_output_delta_Whole(previous, next) == next
\* strip_prefix, or all of it when pi's output started over.
bash_output_delta(previous, next) ==
    IF IsPrefix(previous, next) THEN SubSeq(next, Len(previous) + 1, Len(next)) ELSE next

-----------------------------------------------------------------------------
\* Facts the pump states, frames the renderers make of them and the clients'
\* views.  A field that is Absent is not in the frame.

Fact(id, first, title, kind, status, content) ==
    [id |-> id, first |-> first, title |-> title, kind |-> kind, status |-> status,
     content |-> content, delta |-> <<>>, exit |-> Absent]

BashFact(m, id, first, status, delta, exit) ==
    [Fact(id, first, m.command[id], "execute", status, Absent)
        EXCEPT !.delta = delta, !.exit = exit]

NoCall == [title |-> Absent, kind |-> "other", status |-> Absent, content |-> Absent,
           term |-> <<>>, exit |-> Absent]

Or(new, old) == IF new = Absent THEN old ELSE new

\* terminal_output and terminal_exit, as `_meta` of a frame.
terminal_meta(f) == [delta |-> f.delta,
                     exit |-> IF f.status \in {"completed", "failed"} THEN f.exit ELSE Absent]

Patched(call, f, meta) ==
    [title |-> Or(f.title, call.title), kind |-> Or(f.kind, call.kind),
     status |-> Or(f.status, call.status), content |-> Or(f.content, call.content),
     term |-> call.term \o meta.delta, exit |-> Or(meta.exit, call.exit)]

\* v1 opens a call with a whole `tool_call`, which replaces what the client had
\* and carries no output; a bash call then embeds a terminal.
Opened(f) ==
    Patched([NoCall EXCEPT !.status = "pending"],
            IF IsBash(f.id) THEN [f EXCEPT !.content = "terminal"] ELSE f,
            [delta |-> <<>>, exit |-> Absent])

SentV1(call, f) == IF f.first THEN Opened(f) ELSE Patched(call, f, terminal_meta(f))
\* v2 has no opening frame: each frame is a patch.
SentV2(call, f) == Patched(call, f, terminal_meta(f))

\* A v1 client knows a call from its opening frame on.
Emit(f) ==
    /\ view' = [view EXCEPT !.v1[f.id] = SentV1(@, f), !.v2[f.id] = SentV2(@, f)]
    /\ stray' = IF f.first = (view.v1[f.id].status = Absent) THEN stray ELSE stray \cup {f.id}
Silent == UNCHANGED <<view, stray>>

-----------------------------------------------------------------------------
\* The handlers.

\* emit_bash_tool_call: the command is the tool's name until the arguments came.
Commanded(m, id, named) == [m EXCEPT !.bash = @ \cup {id},
                                     !.command[id] = IF named THEN "command" ELSE "name"]

\* toolcall_start, toolcall_end: the call as the model still writes it.  A
\* status that is already tracked is kept.
surface_tool_call(id, named) ==
    LET existing == maps.current[id]
        status == Or(existing, "pending")
        tracked == [maps EXCEPT !.current[id] = status]
        m == IF IsBash(id) THEN Commanded(tracked, id, named) ELSE tracked
    IN  IF id = NoId THEN maps' = maps /\ Silent
        ELSE /\ maps' = m
             /\ Emit(IF IsBash(id) THEN BashFact(m, id, existing = Absent, status, <<>>, Absent)
                     ELSE IF existing = Absent
                     THEN Fact(id, TRUE, "name", Kind[way.tool[id]], status, Absent)
                     ELSE Fact(id, FALSE, Absent, Absent, status, Absent))

\* Mutant: the start of a call always opens it.
on_tool_execution_start_Opens(id) ==
    LET running == [maps EXCEPT !.current[id] = "in_progress", !.executing = @ \cup {id}]
        m == IF IsBash(id) THEN Commanded(running, id, TRUE)
             ELSE IF IsMutation(id)
             THEN [running EXCEPT !.mutation = @ \cup {id}, !.old[id] = file]
             ELSE running
    IN  /\ maps' = m
        /\ Emit(IF IsBash(id) THEN BashFact(m, id, TRUE, "in_progress", <<>>, Absent)
                ELSE Fact(id, TRUE, "name", Absent, "in_progress", Absent))

\* An edit reads the file now, when the event is handled.
on_tool_execution_start(id) ==
    LET existing == maps.current[id]
        running == [maps EXCEPT !.current[id] = "in_progress", !.executing = @ \cup {id}]
        m == IF IsBash(id) THEN Commanded(running, id, TRUE)
             ELSE IF IsMutation(id)
             THEN [running EXCEPT !.mutation = @ \cup {id}, !.old[id] = file]
             ELSE running
    IN  /\ maps' = m
        /\ Emit(IF IsBash(id)
                THEN BashFact(m, id, existing = Absent, "in_progress", <<>>, Absent)
                ELSE Fact(id, existing = Absent, IF existing = Absent THEN "name" ELSE Absent,
                          Absent, "in_progress", Absent))

\* emit_bash_output_update
emit_bash_output_update(id, status, text, exit) ==
    Emit(BashFact(maps, id, FALSE, status,
                  bash_output_delta(OrEmpty(maps.output[id]), text), exit))

on_tool_execution_update(id, text) ==
    IF id = NoId THEN maps' = maps /\ Silent
    ELSE IF id \in maps.bash
    THEN /\ maps' = [maps EXCEPT !.output[id] = text]
         /\ emit_bash_output_update(id, "in_progress", text, Absent)
    ELSE /\ maps' = maps
         /\ Emit(Fact(id, FALSE, Absent, Absent, "in_progress",
                      IF id \in maps.mutation \/ text = <<>> THEN Absent
                      ELSE [text |-> text]))

\* A diff when the file can be read and is not what the snapshot has, else the
\* result's text.
Outcome(id, text, err) ==
    IF ~err /\ maps.old[id] # Absent /\ file # 0 /\ maps.old[id] # file
    THEN [old |-> maps.old[id], new |-> file]
    ELSE IF text = <<>> THEN Absent ELSE [text |-> text]

on_tool_execution_end(id, text, err) ==
    LET status == IF err THEN "failed" ELSE "completed" IN
    IF id = NoId THEN maps' = maps /\ Silent
    ELSE /\ maps' = cleanup_tool_call(maps, id)
         /\ IF id \in maps.bash
            THEN emit_bash_output_update(id, status, text, IF err THEN 1 ELSE 0)
            ELSE Emit(Fact(id, FALSE, Absent, Absent, status, Outcome(id, text, err)))

on_bash_execution_update(id, delta) ==
    IF id \notin maps.bash \/ delta = <<>> THEN maps' = maps /\ Silent
    ELSE LET m == [maps EXCEPT !.output[id] = OrEmpty(@) \o delta] IN
         /\ maps' = m
         /\ Emit(BashFact(m, id, FALSE, "in_progress", delta, Absent))

\* The pump handles the event at the head of its queue.
Handle ==
    /\ events # <<>>
    /\ events' = Tail(events)
    /\ UNCHANGED <<pi, file>>
    /\ LET e == Head(events) IN
       /\ turn' = IF e.type = "settled" THEN "none" ELSE turn
       /\ \/ e.type = "surface" /\ surface_tool_call(e.id, e.named)
          \/ e.type = "start" /\ on_tool_execution_start(e.id)
          \/ e.type = "update" /\ on_tool_execution_update(e.id, e.text)
          \/ e.type = "end" /\ on_tool_execution_end(e.id, e.text, e.err)
          \/ e.type = "delta" /\ on_bash_execution_update(e.id, e.text)
          \/ e.type = "settled" /\ maps' = maps /\ Silent

\* The settle fallback: pi accepted a prompt and did nothing.  It stands down
\* while has_running_tool.
has_running_tool == maps.executing # {}
SettleTimeout ==
    /\ turn = "waiting" /\ events = <<>> /\ ~has_running_tool
    /\ turn' = "none"
    /\ UNCHANGED <<pi, file, events, maps, view, stray>>

-----------------------------------------------------------------------------
\* pi.  It streams a call's name and then its arguments, or neither; it runs
\* the call; a running call prints, edits and ends.

Event(type, id) == [type |-> type, id |-> id, named |-> FALSE, text |-> <<>>, err |-> FALSE]
PiSends(e) == Len(events) < MaxEvents /\ events' = Append(events, e)
Pump == <<maps, view, stray>>
Calls(id) == way.tool[id] # "none"
Running(id) == pi[id].exe = "running"
Settling == \E i \in 1..Len(events) : events[i].type = "settled"
Active == turn # "none" /\ ~Settling

NewTurn ==
    /\ turn = "none" /\ turn' = "waiting"
    /\ UNCHANGED <<pi, file, events, Pump>>

Streams(id) ==
    /\ Active /\ Calls(id) /\ pi[id].streamed # "all"
    /\ pi[id].exe = "no" \/ (way.late /\ Running(id))
    /\ LET named == pi[id].streamed = "name" IN
       /\ PiSends([Event("surface", id) EXCEPT !.named = named])
       /\ pi' = [pi EXCEPT ![id].streamed = IF named THEN "all" ELSE "name"]
    /\ turn' = "going"
    /\ UNCHANGED <<file, Pump>>

Executes(id) ==
    /\ Active /\ Calls(id) /\ pi[id].exe = "no"
    /\ PiSends(Event("start", id))
    /\ pi' = [pi EXCEPT ![id].exe = "running", ![id].before = file]
    /\ turn' = "going"
    /\ UNCHANGED <<file, Pump>>

\* The edit itself; the event that announced it may still be in the queue.
Writes(id) ==
    /\ Running(id) /\ IsMutation(id) /\ ~pi[id].wrote /\ file < MaxWrites
    /\ file' = file + 1
    /\ pi' = [pi EXCEPT ![id].wrote = TRUE, ![id].after = file + 1]
    /\ UNCHANGED <<events, turn, Pump>>

\* What a snapshot of the output may show.
Shown(out) == IF way.truncates THEN {out} \cup {Tail(s) : s \in {out} \ {<<>>}} ELSE {out}

Prints(id) ==
    /\ Running(id) /\ Len(pi[id].out) < MaxOut
    /\ \E c \in Chars, form \in way.forms[id] :
       LET out == Append(pi[id].out, c) IN
       /\ pi' = [pi EXCEPT ![id].out = out]
       /\ IF form = "delta"
          THEN PiSends([Event("delta", id) EXCEPT !.text = <<c>>])
          ELSE \E text \in Shown(out) : PiSends([Event("update", id) EXCEPT !.text = text])
    /\ UNCHANGED <<file, turn, Pump>>

Ends(id) ==
    /\ Running(id)
    /\ \E err \in BOOLEAN, text \in Shown(pi[id].out) :
       /\ PiSends([Event("end", id) EXCEPT !.text = text, !.err = err])
       /\ pi' = [pi EXCEPT ![id].exe = "ended", ![id].err = err]
    /\ UNCHANGED <<file, turn, Pump>>

\* A run that is aborted under a tool.
Drops(id) ==
    /\ way.loses /\ Running(id)
    /\ pi' = [pi EXCEPT ![id].exe = "ended", ![id].lost = TRUE]
    /\ UNCHANGED <<file, events, turn, Pump>>

Settles ==
    /\ turn = "going" /\ ~Settling /\ \A id \in Ids : ~Running(id)
    /\ PiSends(Event("settled", NoId))
    /\ UNCHANGED <<pi, file, turn, Pump>>

-----------------------------------------------------------------------------
Init ==
    /\ way \in Ways
    /\ pi = [id \in Ids |-> [streamed |-> "no", exe |-> "no", out |-> <<>>, before |-> 0,
                             after |-> 0, wrote |-> FALSE, err |-> FALSE, lost |-> FALSE]]
    /\ file \in {0, 1}
    /\ events = <<>> /\ turn = "none" /\ maps = NoMaps
    /\ view = [v1 |-> [id \in Ids |-> NoCall], v2 |-> [id \in Ids |-> NoCall]]
    /\ stray = {}

PiStep == \/ NewTurn \/ Settles
          \/ \E id \in Ids : \/ Streams(id) \/ Executes(id) \/ Writes(id)
                             \/ Prints(id) \/ Ends(id) \/ Drops(id)
Next == (PiStep \/ Handle \/ SettleTimeout) /\ UNCHANGED way
Spec == Init /\ [][Next]_vars
-----------------------------------------------------------------------------
Clients == {"v1", "v2"}
\* The pump handled all that pi said of a call.
Heard(id) == \A i \in 1..Len(events) : events[i].id # id
Finished(id) == pi[id].exe = "ended" /\ ~pi[id].lost /\ Heard(id)

TypeOK ==
    /\ way \in Ways
    /\ maps.current \in [Ids -> {Absent, "pending", "in_progress"}]
    /\ maps.executing \subseteq Ids /\ maps.mutation \subseteq Ids /\ maps.bash \subseteq Ids
    /\ maps.old \in [Ids -> {Absent} \cup 0..MaxWrites]
    /\ \A id \in Ids : maps.output[id] = Absent \/ maps.output[id] \in Seq(Chars)
    /\ maps.command \in [Ids -> {Absent, "name", "command"}]
    /\ file \in 0..MaxWrites /\ Len(events) <= MaxEvents
    /\ turn \in {"none", "waiting", "going"} /\ stray \subseteq Ids
    /\ \A c \in Clients, id \in Ids :
       /\ view[c][id].status \in {Absent, "pending", "in_progress", "completed", "failed"}
       /\ view[c][id].term \in Seq(Chars)

\* The seven maps of the pump tell one story (session.rs 2826-3163): what runs is
\* tracked as in progress, bash calls and file edits each have their own entries, no
\* map knows a call that `current_tool_calls` does not, and a call whose end was
\* handled leaves nothing behind (cleanup_tool_call), so that no map grows with the
\* session and no ended tool keeps the settle fallback down.
Tracked(id) == maps.current[id] # Absent
MapsAgree ==
    /\ TypeOK
    /\ maps.executing = {id \in Ids : maps.current[id] = "in_progress"}
    /\ maps.bash = {id \in Ids : Tracked(id) /\ IsBash(id)}
    /\ maps.mutation = {id \in maps.executing : IsMutation(id)}
    /\ \A id \in Ids : /\ maps.command[id] # Absent <=> id \in maps.bash
                       /\ maps.output[id] # Absent => id \in maps.bash
                       /\ maps.old[id] # Absent <=> id \in maps.mutation
                       /\ Finished(id) => ~Tracked(id)

\* A v1 client gets one opening frame for a call, before any update of it: the
\* `first` that surface_tool_call and on_tool_execution_start compute from what
\* is tracked, whichever of them comes first.
OpenedOnce == stray = {}

\* A terminal ends with the output the pump holds for it, whatever pi mixes:
\* snapshots, deltas and snapshots that start over (bash_output_delta).  Of a pi that
\* leaves nothing out and sends a call's output in one form it shows what the command
\* printed, each part once: a prefix while it runs, all of it after the end.
TerminalIsOutput ==
    \A c \in Clients, id \in Ids : IsBash(id) =>
        /\ maps.output[id] # Absent => IsSuffix(maps.output[id], view[c][id].term)
        /\ ~way.truncates /\ way.forms[id] \in {{"snapshot"}, {"delta"}} =>
              /\ IsPrefix(view[c][id].term, pi[id].out)
              /\ Finished(id) => view[c][id].term = pi[id].out

\* A diff is of a change that happened after the call started: never of a failed
\* call, and never between equal files (on_tool_execution_end).
DiffIsReal ==
    \A c \in Clients, id \in Ids :
        LET content == view[c][id].content IN
        (IsMutation(id) /\ content # Absent /\ "old" \in DOMAIN content) =>
            /\ ~pi[id].err
            /\ pi[id].before <= content.old /\ content.old < content.new

\* Both protocols show the same call (render.rs: "the shared thing is the fact"), but
\* for the terminal v1 embeds in a bash call; while it is tracked, under the tracked
\* status, which a late frame does not downgrade (surface_tool_call).  After its end both
\* show how it ended; of a bash call its exit code and the command itself in place of the
\* tool's name, which is all the opening frame may have had (bash_v2_frames); and of an
\* edit a diff only of what it changed.
ClientsSeeTheCall ==
    /\ OpenedOnce /\ DiffIsReal
    /\ \A id \in Ids :
        LET Common(call) == IF IsBash(id) THEN [call EXCEPT !.content = Absent] ELSE call IN
        /\ Common(view.v1[id]) = Common(view.v2[id])
        /\ Tracked(id) => view.v2[id].status = maps.current[id]
        /\ Finished(id) => \A c \in Clients :
              /\ view[c][id].status = IF pi[id].err THEN "failed" ELSE "completed"
              /\ IsBash(id) => /\ view[c][id].exit = IF pi[id].err THEN 1 ELSE 0
                               /\ ~way.late => view[c][id].title = "command"

\* A command that replaced the tool's name as a call's title stays: without it
\* "the client shows "bash" with the command gone" (bash_v2_frames).
CommandStays ==
    [][\A c \in Clients, id \in Ids :
         view[c][id].title = "command" => view'[c][id].title = "command"]_view

\* A waiting turn has no running tool: the fallback "is for a prompt that never
\* got going" (has_running_tool), so nothing may keep it down there.
FallbackArmed == turn = "waiting" => ~has_running_tool

\* What is counted as running is a tool pi has not finished (has_running_tool).
RunningIsUnfinished == \A id \in maps.executing : ~Finished(id)

\* A snapshot has the file as it was before the edit (on_tool_execution_start).
SnapshotIsBefore == \A id \in Ids : maps.old[id] # Absent => maps.old[id] = pi[id].before
=============================================================================
