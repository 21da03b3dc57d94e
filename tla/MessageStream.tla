---------------------------- MODULE MessageStream ----------------------------
(***************************************************************************)
(* pi's messages on their way to a client: the pump gives them ids and     *)
(* states chunks, whole messages and errors (session.rs, on_event and its  *)
(* emit helpers), the outbound channel and its connector carry them in     *)
(* order (spawn_outbound_connector), and each protocol's renderer makes    *)
(* frames of them (render.rs).  A turn's response goes out when the pump   *)
(* knows by a flush that the channel is empty.                             *)
(***************************************************************************)
EXTENDS Naturals, Sequences, FiniteSets, Subsequences

CONSTANTS
    Texts,        \* deltas of a message
    Errors,       \* error texts
    MaxMessages,  \* bound: messages of pi
    MaxDeltas,    \* bound: deltas of a message
    MaxTurns,     \* bound: turns
    MaxEvents,    \* bound: events waiting for the pump
    Capacity,     \* of the outbound channel
    Roles,        \* roles of pi's messages
    Notices,      \* the adapter's own lines: retries, compaction
    Unsendable,   \* facts that cannot be rendered or sent
    None

ASSUME StreamAssumption ==
    /\ MaxMessages \in Nat /\ MaxDeltas \in Nat /\ MaxTurns \in Nat
    /\ MaxEvents \in Nat \ {0} /\ Capacity \in Nat \ {0}
    /\ Roles \subseteq {"user", "assistant"}
    /\ None \notin Errors /\ None \notin 1..MaxMessages + 1

VARIABLES
    pi,        \* pi: its turn, its message and what that has said
    said,      \* ghost: the text of each message of pi, as streamed so far
    failed,    \* ghost: errors pi reported, with their turn
    events,    \* events the pump has not handled
    pump,      \* current_message_id, next_message_seq, last_message_error, the turn
    out,       \* what the pump's handler still has to send
    chan,      \* the outbound channel
    shown,     \* what a v1 and a v2 client show of each message
    answered,  \* turns whose response went out
    late       \* ghost: turns with an update after their response

vars == <<pi, said, failed, events, pump, out, chan, shown, answered, late>>

-----------------------------------------------------------------------------
Messages == 1..MaxMessages
\* Ids the pump can mint: one for each message, or for the first delta.
MessageIds == 1..MaxMessages + 1
Clients == {"v1", "v2"}

Text(m, t) == [is |-> "text", of |-> m, text |-> t]
Error(turn, e) == [is |-> "error", of |-> turn, text |-> e]
Notice(turn, n) == [is |-> "notice", of |-> turn, text |-> n]

\* Facts: a chunk of a message, a message's whole text, a barrier.
Chunk(id, piece) == [fact |-> "chunk", id |-> id, pieces |-> <<piece>>, turn |-> pump.turn]
Patch(id, pieces) == [fact |-> "patch", id |-> id, pieces |-> pieces, turn |-> pump.turn]
Barrier == [fact |-> "flush", id |-> None, pieces |-> <<>>, turn |-> pump.turn]

-----------------------------------------------------------------------------
\* The pump's handlers.  It takes the next event when all of the last one's facts
\* are in the channel.

\* mint_message_id
Minted == [pump EXCEPT !.seq = @ + 1, !.id = pump.seq + 1]
\* current_message_id: one is minted when no message was announced.
Current == IF pump.id = None THEN Minted ELSE pump

emit_text(piece) == pump' = Current /\ out' = <<Chunk(Current.id, piece)>>

\* An error is not shown again right after itself, in one turn.
emit_message_error(e) ==
    IF pump.error = e THEN pump' = pump /\ out' = <<>>
    ELSE /\ pump' = [Current EXCEPT !.error = e]
         /\ out' = <<Chunk(Current.id, Error(pump.turn, e))>>

\* Mutant: a message goes on under the id of the last one.
OnStart_Keeps == pump' = Current /\ out' = <<>>
OnStart == pump' = Minted /\ out' = <<>>

\* assistant_message_text, emit_message_patch: the whole message, unless it has no
\* text or no id.
Whole(id, ev) ==
    IF ev.role # "assistant" \/ id = None \/ ev.text = <<>> THEN <<>>
    ELSE <<Patch(id, ev.text)>>
\* The end of a message: its error, then the whole message.
OnEnd(ev) ==
    LET shows == ev.role = "assistant" /\ ev.error # None /\ ev.error # pump.error
        next == IF shows THEN [Current EXCEPT !.error = ev.error] ELSE pump
    IN  /\ pump' = next
        /\ out' = (IF shows THEN <<Chunk(next.id, Error(pump.turn, ev.error))>> ELSE <<>>)
                  \o Whole(next.id, ev)
\* settle_pending_turn waits for the flush; the mutant does not.
OnSettled_NoFlush ==
    /\ pump' = [pump EXCEPT !.turn = 0] /\ out' = <<>>
    /\ answered' = answered \cup {pump.turn}
OnSettled ==
    /\ pump' = [pump EXCEPT !.flushing = TRUE] /\ out' = <<Barrier>>
    /\ UNCHANGED answered

Handle ==
    /\ events # <<>> /\ out = <<>> /\ ~pump.flushing
    /\ events' = Tail(events)
    /\ LET ev == Head(events) IN
       \/ /\ ev.type = "settled" /\ OnSettled
       \/ /\ UNCHANGED answered
          /\ \/ ev.type = "start" /\ OnStart
             \/ ev.type = "delta" /\ emit_text(ev.piece)
             \/ ev.type = "error" /\ emit_message_error(ev.error)
             \/ ev.type = "end" /\ OnEnd(ev)
             \/ ev.type = "notice" /\ emit_text(Notice(pump.turn, ev.error))
    /\ UNCHANGED <<pi, said, failed, chan, shown, late>>

\* Sending waits for room in the channel.
Send ==
    /\ out # <<>> /\ Len(chan) < Capacity
    /\ chan' = Append(chan, Head(out)) /\ out' = Tail(out)
    /\ UNCHANGED <<pi, said, failed, events, pump, shown, answered, late>>

\* start_turn: the prompt of the next turn.
StartTurn ==
    /\ pump.turn = 0 /\ out = <<>> /\ Cardinality(answered) < MaxTurns
    /\ pump' = [pump EXCEPT !.turn = Cardinality(answered) + 1, !.error = None]
    /\ pi' = [pi EXCEPT !.turn = Cardinality(answered) + 1]
    /\ UNCHANGED <<said, failed, events, out, chan, shown, answered, late>>

-----------------------------------------------------------------------------
\* The connector and the renderers.

\* Both protocols show a chunk.  Only v2 has a whole message, which replaces what
\* the client had.
Rendered(f) ==
    [c \in Clients |->
        IF f.fact = "chunk" THEN [shown[c] EXCEPT ![f.id] = @ \o f.pieces]
        ELSE IF f.fact = "patch" /\ c = "v2" THEN [shown[c] EXCEPT ![f.id] = f.pieces]
        ELSE shown[c]]

CannotSend(f) == f.fact = "chunk" /\ f.pieces[1].text \in Unsendable

\* A fact that cannot be sent is dropped and the connector goes on; a flush lets
\* the pump answer the turn.  Mutant: the connector ends.
Deliver_Stops ==
    /\ chan # <<>> /\ ~CannotSend(Head(chan))
    /\ chan' = Tail(chan)
    /\ LET f == Head(chan) IN
       /\ shown' = Rendered(f)
       /\ late' = late \cup ({f.turn} \cap answered)
       /\ IF f.fact = "flush"
          THEN /\ answered' = answered \cup {pump.turn}
               /\ pump' = [pump EXCEPT !.flushing = FALSE, !.turn = 0]
          ELSE UNCHANGED <<answered, pump>>
    /\ UNCHANGED <<pi, said, failed, events, out>>
Deliver ==
    /\ chan # <<>>
    /\ chan' = Tail(chan)
    /\ LET f == Head(chan) IN
       /\ shown' = IF CannotSend(f) THEN shown ELSE Rendered(f)
       /\ late' = late \cup ({f.turn} \cap answered)
       /\ IF f.fact = "flush"
          THEN /\ answered' = answered \cup {pump.turn}
               /\ pump' = [pump EXCEPT !.flushing = FALSE, !.turn = 0]
          ELSE UNCHANGED <<answered, pump>>
    /\ UNCHANGED <<pi, said, failed, events, out>>

-----------------------------------------------------------------------------
\* pi, which streams a message, ends it with its whole text and settles its turn.

Event(type) == [type |-> type, piece |-> None, role |-> None, text |-> <<>>, error |-> None]
PiSends(e) == Len(events) < MaxEvents /\ events' = Append(events, e)
Adapter == <<pump, out, chan, shown, answered, late>>
Working == pi.turn # 0

Begins ==
    /\ Working /\ ~pi.open /\ pi.message < MaxMessages
    /\ \E role \in Roles :
          pi' = [pi EXCEPT !.message = @ + 1, !.open = TRUE, !.role = role, !.paused = FALSE]
    /\ PiSends(Event("start"))
    /\ UNCHANGED <<said, failed, Adapter>>

Says ==
    /\ pi.open /\ pi.role = "assistant" /\ Len(said[pi.message]) < MaxDeltas
    /\ \E t \in Texts :
       LET piece == Text(pi.message, t) IN
       /\ PiSends([Event("delta") EXCEPT !.piece = piece])
       /\ said' = [said EXCEPT ![pi.message] = Append(@, piece)]
    /\ UNCHANGED <<pi, failed, Adapter>>

\* A streamed error, which the end of the message reports again.
Breaks ==
    /\ pi.open /\ pi.role = "assistant" /\ pi.error = None
    /\ \E e \in Errors :
       /\ PiSends([Event("error") EXCEPT !.error = e])
       /\ pi' = [pi EXCEPT !.error = e]
       /\ failed' = failed \cup {Error(pi.turn, e)}
    /\ UNCHANGED <<said, Adapter>>

Finishes ==
    /\ pi.open
    /\ \E e \in IF pi.error # None \/ pi.role = "user" THEN {pi.error} ELSE Errors \cup {None} :
       /\ PiSends([Event("end") EXCEPT !.role = pi.role, !.text = said[pi.message], !.error = e])
       /\ failed' = IF e = None THEN failed ELSE failed \cup {Error(pi.turn, e)}
    /\ pi' = [pi EXCEPT !.open = FALSE, !.error = None]
    /\ UNCHANGED <<said, Adapter>>

\* A retry or a compaction, between two messages.
Pauses ==
    /\ Working /\ ~pi.open /\ ~pi.paused
    /\ \E n \in Notices : PiSends([Event("notice") EXCEPT !.error = n])
    /\ pi' = [pi EXCEPT !.paused = TRUE]
    /\ UNCHANGED <<said, failed, Adapter>>

Settles ==
    /\ Working /\ ~pi.open
    /\ PiSends(Event("settled")) /\ pi' = [pi EXCEPT !.turn = 0]
    /\ UNCHANGED <<said, failed, Adapter>>

-----------------------------------------------------------------------------
Init ==
    /\ pi = [turn |-> 0, message |-> 0, open |-> FALSE, role |-> "user", error |-> None,
            paused |-> FALSE]
    /\ said = [m \in Messages |-> <<>>] /\ failed = {}
    /\ events = <<>> /\ out = <<>> /\ chan = <<>>
    /\ pump = [id |-> None, seq |-> 0, error |-> None, turn |-> 0, flushing |-> FALSE]
    /\ shown = [c \in Clients |-> [id \in MessageIds |-> <<>>]]
    /\ answered = {} /\ late = {}

Next == Handle \/ Send \/ Deliver \/ StartTurn
        \/ Begins \/ Says \/ Breaks \/ Finishes \/ Pauses \/ Settles
Spec == Init /\ [][Next]_vars
\* The pump's task and the connector's task run.
Fairness == WF_vars(Handle) /\ WF_vars(Send) /\ WF_vars(Deliver)

-----------------------------------------------------------------------------
Pieces == [is : {"text", "error", "notice"}, of : 0..MaxMessages + MaxTurns,
           text : Texts \cup Errors \cup Notices]
IsText(p) == p.is = "text"
OfPi == {p \in Pieces : IsText(p)}
\* Everything pi sent is on the clients' screens.
Delivered == events = <<>> /\ out = <<>> /\ chan = <<>>

TypeOK ==
    /\ pump.id \in MessageIds \cup {None} /\ pump.seq \in 0..MaxMessages + 1
    /\ pump.error \in Errors \cup {None} /\ pump.turn \in 0..MaxTurns
    /\ pump.flushing \in BOOLEAN
    /\ Len(events) <= MaxEvents /\ Len(chan) <= Capacity /\ Len(out) <= 2
    /\ answered \subseteq 1..MaxTurns /\ late \subseteq answered
    /\ \A c \in Clients, id \in MessageIds : \A i \in DOMAIN shown[c][id] :
          shown[c][id][i] \in Pieces

\* A client never shows two of pi's messages as one, nor one message as two: a chunk
\* is tagged with the id its own message was given (mint_message_id,
\* current_message_id), however far pi is ahead of the pump.
MessagesSeparate ==
    /\ TypeOK
    /\ \A c \in Clients, i, j \in MessageIds :
        LET Of(id) == {p.of : p \in {q \in {shown[c][id][k] : k \in DOMAIN shown[c][id]} :
                                        IsText(q)}} IN
        /\ Cardinality(Of(i)) <= 1
        /\ i # j => Of(i) \cap Of(j) = {}

\* An error is shown once per turn (emit_message_error: "identical text is emitted
\* only once per turn"), to a v1 client.
ErrorOncePerTurn ==
    \A e \in failed :
        Cardinality({at \in MessageIds \X (1..MaxMessages * (MaxDeltas + 4)) :
            at[2] \in DOMAIN shown.v1[at[1]] /\ shown.v1[at[1]][at[2]] = e}) <= 1

\* What pi reported as a failure is on the screen in the end (emit_message_error:
\* "Surface a pi assistant failure as a visible ACP text chunk").
Visible(c, e) == \E id \in MessageIds : \E i \in DOMAIN shown[c][id] : shown[c][id][i] = e
ErrorVisibleV2 == Delivered => \A e \in failed : Visible("v2", e)

\* "The streamed chunks and the final object converge" (emit_message_patch): of each
\* message both clients end up with all of its text, in order and once; a v1 client with
\* each failure too; and a turn's updates are on the wire before its response: "never
\* overtaken by the session/prompt response frame" (flush_outbound).
UpdatesArrive ==
    /\ late = {}
    /\ Delivered =>
        /\ \A e \in failed : Visible("v1", e)
        /\ \A c \in Clients, m \in Messages : said[m] # <<>> =>
              \E id \in MessageIds : Only(shown[c][id], OfPi) = said[m]

\* A settled turn is answered, though facts before the flush fail or the channel is
\* full (spawn_outbound_connector: a failure is logged and it keeps going).
SettledIsAnswered ==
    \A t \in 1..MaxTurns : (pump.turn = t /\ pi.turn = 0) ~> t \in answered
=============================================================================
