----------------------------- MODULE SessionConfig -----------------------------
(* A session's model and thinking level: pi owns them, the client shows them.  *)
(* A client's set runs in the agent's handler, which stamps the time, asks pi  *)
(* and then reads pi's state back to refresh the client directly; a change of  *)
(* the level is also an event of pi, for which the pump refreshes the client   *)
(* through the outbound channel unless it is the echo of the handler's set.    *)
(* The client may thus hear of two changes in another order than they happened.*)
EXTENDS Integers, Sequences, FiniteSets, FiniteSetsExt

CONSTANTS
    Models,     \* the models pi offers
    Map,        \* [Models -> [reasoning, nulls, entries]]: a model's thinking-level map
    Window,     \* [Models -> Nat]: the context window, 0 when pi gives none
    Enabled,    \* the models that the enabledModels setting admits
    First,      \* the model of a new session
    Targets,    \* the levels that are asked for
    Protocols,  \* of "v1" and "v2"
    PiMoves,    \* when pi changes by itself: "any" time, "calm": not while the client sets or
                \* the echo window lasts, "apart": nor does the client set before it was told
    Lossy,      \* which calls may fail: "set" before, "late" after pi has obeyed, "read"
    MaxSets, MaxMoves, MaxUsage   \* bounds: the client's sets, pi's own changes, usage events

\* ThinkingLevel in the order of the ladder: off, minimal, low, medium, high, xhigh, max.
Levels == 1 .. 7
Medium == 4

\* A null entry disables a level, and xhigh and max need an entry.
supported_thinking_levels(m) ==
    IF Map[m].reasoning
    THEN {l \in Levels \ Map[m].nulls : l >= 6 => l \in Map[m].entries}
    ELSE {1}

\* A model has a level: pi could be at none otherwise.
ConfigAssumption ==
    /\ First \in Models /\ Enabled \subseteq Models /\ Targets \subseteq Levels
    /\ \A m \in Models : /\ Map[m].reasoning \in BOOLEAN /\ Window[m] \in Nat
                         /\ Map[m].nulls \subseteq Levels /\ Map[m].entries \subseteq Levels
                         /\ supported_thinking_levels(m) # {}
    /\ Protocols \subseteq {"v1", "v2"} /\ PiMoves \in {"any", "calm", "apart"}
    /\ Lossy \subseteq {"set", "late", "read"}
    /\ MaxSets \in Nat /\ MaxMoves \in Nat /\ MaxUsage \in Nat

clamp_thinking_level(m, l) ==
    LET on == supported_thinking_levels(m)
        up == {k \in on : k >= l}
    IN  IF up # {} THEN Min(up) ELSE IF on # {} THEN Max(on) ELSE 1

\* Where pi itself leaves the level: the closest supported one, a higher one first.
PiSettles(m, l) ==
    CHOOSE k \in supported_thinking_levels(m) :
        \A j \in supported_thinking_levels(m) : \/ j = k
                                                \/ k >= l /\ (j < l \/ j > k)
                                                \/ j < k /\ k < l

VARIABLES
    protocol,   \* the one that was negotiated
    pi,         \* the model and level pi is at
    events,     \* from pi to the pump: levels and usage
    handler,    \* the agent's handler of a set: where it is, what for, what it read
    stamp,      \* thinking_set_at is within the echo window
    recent,     \* (ghost) a set that pi obeyed is within the window
    window,     \* the pump's cached context window
    reading,    \* the pump's refresh: what it has read, none when it is not in one
    outbound,   \* from the pump to the client
    mode,       \* the client's current mode (v1)
    shown,      \* the client's config options
    usage,      \* the client's last usage update, and (ghost) the model it was for
    was,        \* (ghost) the levels pi has been at
    silent,     \* (ghost) pi has changed its model without an event
    sets, moves, reports    \* how many there were
vars == <<protocol, pi, events, handler, stamp, recent, window, reading, outbound, mode, shown, usage, was,
          silent, sets, moves, reports>>

\* build_config_options over what was read: the choices, each with its promised level.
model_state_from_parts(s) == Enabled \cup {s.model}
Advertised(models, level) == [m \in models |-> clamp_thinking_level(m, level)]
OptionsOf(s, levels, models) ==
    [model |-> s.model, level |-> s.level, levels |-> levels,
     choices |-> Advertised(models, s.level)]

Idle == [pc |-> "idle", model |-> First, level |-> 1, read |-> [model |-> First, level |-> 1]]
Nothing == [model |-> First, level |-> 0]

Init ==
    /\ protocol \in Protocols
    /\ pi = [model |-> First, level |-> clamp_thinking_level(First, Medium)]
    /\ events = <<>> /\ handler = Idle /\ stamp = FALSE /\ recent = FALSE
    /\ window = Window[First]
    /\ reading = Nothing /\ outbound = <<>>
    /\ mode = pi.level
    /\ shown = OptionsOf(pi, supported_thinking_levels(First), model_state_from_parts(pi))
    /\ usage = [size |-> Window[First], model |-> First]
    /\ was = {pi.level} /\ silent = FALSE
    /\ sets = 0 /\ moves = 0 /\ reports = 0

\* pi changes: an event tells of a change of the level only.
PiBecomes(m, l) ==
    /\ pi' = [model |-> m, level |-> PiSettles(m, l)]
    /\ was' = was \cup {pi'.level}
    /\ events' = IF pi'.level # pi.level
                 THEN Append(events, [kind |-> "level", level |-> pi'.level]) ELSE events

PumpIdle == reading = Nothing
Quiet == handler.pc = "idle" /\ PumpIdle /\ events = <<>> /\ outbound = <<>>
Sets == /\ handler.pc = "idle" /\ sets < MaxSets /\ (PiMoves = "apart" => Quiet)
        /\ sets' = sets + 1

\* The handler of session/set_mode, set_config_option and set_model: it stamps before it asks.
SetLevel(l) ==
    /\ Sets
    /\ handler' = [Idle EXCEPT !.pc = "level", !.level = l]
    /\ stamp' = TRUE
    /\ UNCHANGED <<pi, events, recent, window, reading, outbound, mode, shown, usage, was, silent,
                   moves, reports>>

SetModel(m) ==
    /\ Sets /\ m \in DOMAIN shown.choices
    /\ handler' = [Idle EXCEPT !.pc = "model", !.model = m]
    /\ stamp' = TRUE
    /\ UNCHANGED <<pi, events, recent, window, reading, outbound, mode, shown, usage, was, silent,
                   moves, reports>>

\* The pump runs the call while pi obeys.
Obeys ==
    /\ handler.pc \in {"level", "model"} /\ PumpIdle
    /\ IF handler.pc = "level" THEN PiBecomes(pi.model, handler.level)
                               ELSE PiBecomes(handler.model, pi.level)
    /\ recent' = TRUE
    /\ silent' = IF handler.pc = "model" THEN FALSE ELSE silent
    /\ handler' = [handler EXCEPT !.pc = IF @ = "model" THEN "window" ELSE "read"]
    /\ UNCHANGED <<stamp, window, reading, outbound, mode, shown, usage, sets, moves, reports>>

\* pi refuses, or the answer is lost after pi obeyed.
Refuses ==
    /\ handler.pc \in {"level", "model"} /\ PumpIdle
    /\ \/ "set" \in Lossy /\ UNCHANGED <<pi, events, was>>
       \/ "late" \in Lossy /\ IF handler.pc = "level" THEN PiBecomes(pi.model, handler.level)
                                                      ELSE PiBecomes(handler.model, pi.level)
    /\ handler' = [handler EXCEPT !.pc = "failed"]
    /\ UNCHANGED <<stamp, recent, window, reading, outbound, mode, shown, usage, silent, sets, moves,
                   reports>>

clear_thinking_stamp_Never ==
    /\ handler.pc = "failed"
    /\ handler' = Idle
    /\ UNCHANGED <<pi, events, stamp, recent, window, reading, outbound, mode, shown, usage, was,
                   silent, sets, moves, reports>>
clear_thinking_stamp ==
    /\ handler.pc = "failed"
    /\ handler' = Idle
    /\ stamp' = FALSE
    /\ UNCHANGED <<pi, events, recent, window, reading, outbound, mode, shown, usage, was, silent,
                   sets, moves, reports>>

\* A model without a window leaves the cached one.
SetContextWindow ==
    /\ handler.pc = "window" /\ PumpIdle
    /\ window' = IF Window[handler.model] # 0 THEN Window[handler.model] ELSE window
    /\ handler' = [handler EXCEPT !.pc = "read"]
    /\ UNCHANGED <<pi, events, stamp, recent, reading, outbound, mode, shown, usage, was, silent,
                   sets, moves, reports>>

\* get_session_configuration: the state, medium and no current model when it cannot be read.
ReadState ==
    /\ handler.pc = "read" /\ PumpIdle
    /\ \E s \in {pi} \cup (IF "read" \in Lossy /\ Enabled # {}
                           THEN {[model |-> CHOOSE m \in Enabled : TRUE, level |-> Medium]} ELSE {}) :
           handler' = [handler EXCEPT !.pc = "levels", !.read = s]
    /\ UNCHANGED <<pi, events, stamp, recent, window, reading, outbound, mode, shown, usage, was,
                   silent, sets, moves, reports>>

\* The levels of pi's model, then both selectors are sent past the outbound channel.
emit_config_options_update ==
    /\ handler.pc = "levels" /\ PumpIdle
    /\ shown' = OptionsOf(handler.read, supported_thinking_levels(pi.model),
                          model_state_from_parts(handler.read))
    /\ mode' = IF protocol = "v1" THEN handler.read.level ELSE mode
    /\ handler' = Idle
    /\ UNCHANGED <<pi, events, stamp, recent, window, reading, outbound, usage, was, silent, sets,
                   moves, reports>>

\* The window of the echo ends.
Expire ==
    /\ stamp \/ recent
    /\ stamp' = FALSE /\ recent' = FALSE
    /\ UNCHANGED <<pi, events, handler, window, reading, outbound, mode, shown, usage, was, silent,
                   sets, moves, reports>>

\* pi changes by itself: its user, an extension, a fallback to another model.
Calm == handler.pc = "idle" /\ ~recent
PiMovesItself(m, l) ==
    /\ moves < MaxMoves /\ (PiMoves # "any" => Calm)
    /\ <<m, PiSettles(m, l)>> # <<pi.model, pi.level>>
    /\ PiBecomes(m, l)
    /\ silent' = (silent \/ m # pi.model)
    /\ moves' = moves + 1
    /\ UNCHANGED <<handler, stamp, recent, window, reading, outbound, mode, shown, usage, sets, reports>>

PiReports ==
    /\ reports < MaxUsage
    /\ reports' = reports + 1
    /\ events' = Append(events, [kind |-> "usage", model |-> pi.model])
    /\ UNCHANGED <<pi, handler, stamp, recent, window, reading, outbound, mode, shown, usage, was,
                   silent, sets, moves>>

\* The pump: the mode always, the options unless the event is an echo.
emit_mode(l) == IF protocol = "v1" THEN <<[kind |-> "mode", level |-> l]>> ELSE <<>>

on_thinking_level_changed ==
    /\ PumpIdle /\ events # <<>> /\ Head(events).kind = "level"
    /\ events' = Tail(events)
    /\ outbound' = outbound \o emit_mode(Head(events).level)
    /\ \/ stamp /\ UNCHANGED reading
       \/ ~stamp /\ "read" \in Lossy /\ UNCHANGED reading
       \/ ~stamp /\ reading' = [model |-> pi.model, level |-> Head(events).level]
    /\ UNCHANGED <<pi, handler, stamp, recent, window, mode, shown, usage, was, silent, sets, moves,
                   reports>>

\* Every model pi offers is a choice here: enabledModels is not looked at.
emit_config_options ==
    /\ ~PumpIdle
    /\ outbound' = Append(outbound, [kind |-> "options",
                                     options |-> OptionsOf(reading, supported_thinking_levels(pi.model),
                                                           Models)])
    /\ reading' = Nothing
    /\ UNCHANGED <<pi, events, handler, stamp, recent, window, mode, shown, usage, was, silent, sets,
                   moves, reports>>

emit_usage_update ==
    /\ PumpIdle /\ events # <<>> /\ Head(events).kind = "usage"
    /\ events' = Tail(events)
    /\ outbound' = IF window = 0 THEN outbound
                   ELSE Append(outbound, [kind |-> "usage", size |-> window, model |-> Head(events).model])
    /\ UNCHANGED <<pi, handler, stamp, recent, window, reading, mode, shown, usage, was, silent,
                   sets, moves, reports>>

\* The connector.
Deliver ==
    /\ outbound # <<>>
    /\ outbound' = Tail(outbound)
    /\ LET o == Head(outbound)
       IN  /\ mode' = IF o.kind = "mode" THEN o.level ELSE mode
           /\ shown' = IF o.kind = "options" THEN o.options ELSE shown
           /\ usage' = IF o.kind = "usage" THEN [size |-> o.size, model |-> o.model] ELSE usage
    /\ UNCHANGED <<pi, events, handler, stamp, recent, window, reading, was, silent, sets, moves, reports>>

Handler == \/ \E l \in Targets : SetLevel(l)
           \/ \E m \in Models : SetModel(m)
           \/ clear_thinking_stamp \/ emit_config_options_update
Pump == Obeys \/ Refuses \/ SetContextWindow \/ ReadState \/ on_thinking_level_changed
        \/ emit_config_options \/ emit_usage_update
Pi == PiReports \/ \E m \in Models, l \in Targets : PiMovesItself(m, l)

Next == (Handler \/ Pump \/ Pi \/ Expire \/ Deliver) /\ UNCHANGED protocol
Spec == Init /\ [][Next]_vars

-------------------------------------------------------------------------------
\* The facts of render.rs and the pump's fields.
TypeOK ==
    /\ pi \in [model : Models, level : Levels]
    /\ handler.pc \in {"idle", "level", "model", "failed", "window", "read", "levels"}
    /\ stamp \in BOOLEAN /\ recent \in BOOLEAN /\ silent \in BOOLEAN
    /\ window \in {Window[m] : m \in Models}
    /\ mode \in Levels /\ shown.level \in Levels /\ shown.model \in Models
    /\ DOMAIN shown.choices \subseteq Models /\ was \subseteq Levels
    /\ usage.model \in Models

\* on_thinking_level_changed, emit_config_options_update: when nothing is under way the client
\* shows the level pi is at (in both selectors on v1) and the ladder of its model, whatever the
\* echo suppression left out; a change of pi's model without an event is beyond both.
Follows ==
    Quiet => /\ protocol = "v1" => mode = pi.level
             /\ shown.level = pi.level
             /\ ~silent => shown.levels = supported_thinking_levels(pi.model) /\ shown.model = pi.model

\* emit_config_options_update: the client is never shown a level that pi was not at.
ReadBack == mode \in was /\ shown.level \in was

\* model_state_from_parts: the current model is one of the choices.
CurrentIsOffered == shown.model \in DOMAIN shown.choices

\* thinking_levels_meta: a client that picks a model off an up-to-date option gets the level it
\* was promised there.
PromisesHold ==
    shown.level = pi.level =>
        \A m \in DOMAIN shown.choices : shown.choices[m] = PiSettles(m, pi.level)

\* set_model_inner: between sets, the cached window is the window of the model that was set.
WindowFollows == handler.pc \in {"idle", "read", "levels"} /\ ~silent => window = Window[pi.model]

\* Model, level, choices and window at the client are pi's once all is delivered
\* (emit_config_options_update, on_thinking_level_changed, set_model_inner).
ShownIsPis == /\ TypeOK /\ Follows /\ ReadBack /\ CurrentIsOffered
              /\ PromisesHold /\ WindowFollows

\* emit_usage_update: a size is only reported for a model whose window it is.
UsageIsMeaningful == usage.size = Window[usage.model]

\* is_model_enabled: the only disabled model a client is offered is the one pi is on.
EnabledOnly == DOMAIN shown.choices \subseteq Enabled \cup {shown.model}
================================================================================
