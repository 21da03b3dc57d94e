------------------------ MODULE RequestsProofs ---------------------------
(***************************************************************************)
(* What holds of a client's requests: of its prompts' messages for every   *)
(* number of messages, deltas and turns, and every capacity; of the model  *)
(* and level it sets for any models and ladders, and any number of sets    *)
(* and of pi's own changes; of the slash commands in its prompts and its   *)
(* menu for any prompts, lists and template files; of the pages it lists   *)
(* for any sessions, projects and page size; of timestamps for every year. *)
(*                                                                         *)
(* The configuration's invariant (ConfigInv) says which way the last word  *)
(* about the level, the mode and the model goes: what is on its way to the *)
(* client tells what pi is at, or something later will.  The commands'     *)
(* (CommandInv) says where each name of the menu comes from and what pi's  *)
(* answers told each prompt.  The listing's (ListingInv) says that a       *)
(* session that was left alone and stands before the cursor has been       *)
(* shown.  The calendar's (DateInv) says that the walk is on a date, and   *)
(* has counted to it by the formula that the code uses.                    *)
(***************************************************************************)
EXTENDS Requests, SubsequenceProofs, TLAPS

-----------------------------------------------------------------------------
\* Types.
Records ==
    [type : {"start", "delta", "error", "end", "notice", "settled"}, piece : OfPi \cup {None},
     role : {"user", "assistant", None}, text : Seq(OfPi),
     error : Errors \cup Notices \cup {None}]
EventRecords ==
    {r \in Records : /\ r.type = "delta" => r.piece \in OfPi
                     /\ r.type = "error" => r.error \in Errors
                     /\ r.type = "notice" => r.error \in Notices
                     /\ r.type = "end" => r.error \in Errors \cup {None}}
Facts == [fact : {"chunk", "patch", "flush"}, id : MessageIds \cup {None}, pieces : Seq(Pieces),
          turn : 0..MaxTurns]
Pumps == [id : MessageIds \cup {None}, seq : 0..MaxMessages + 1, error : Errors \cup {None},
          turn : 0..MaxTurns, flushing : BOOLEAN]
Pis == [turn : 0..MaxTurns, message : 0..MaxMessages, open : BOOLEAN,
        role : {"user", "assistant"}, error : Errors \cup {None}, paused : BOOLEAN]
Failures == [is : {"error"}, of : 0..MaxTurns, text : Errors]

Types ==
    /\ pi \in Pis /\ pump \in Pumps
    /\ said \in [Messages -> Seq(OfPi)] /\ failed \subseteq Failures
    /\ events \in Seq(EventRecords) /\ Len(events) <= MaxEvents
    /\ out \in Seq(Facts) /\ Len(out) <= 2
    /\ chan \in Seq(Facts) /\ Len(chan) <= Capacity
    /\ shown \in [Clients -> [MessageIds -> Seq(Pieces)]]

\* What the pump has stated and no client has seen yet, in order.
Pipe == chan \o out

-----------------------------------------------------------------------------
\* Turns are answered in order, one after the other; all that is on its way is of the
\* turn the pump is in, and the flush is behind it.
Turns ==
    /\ \E n \in 0..MaxTurns : answered = 1..n /\ pump.turn \in {0, n + 1}
    /\ late = {}
    /\ pi.turn \in {0, pump.turn} /\ (pi.open => pi.turn # 0)
    /\ pi.error # None => pi.open /\ pi.role = "assistant"
    /\ \A i \in 1..Len(Pipe) :
          /\ Pipe[i].turn = pump.turn
          /\ Pipe[i].fact = "flush" => pump.flushing /\ i = Len(Pipe)
    /\ \A i \in 1..Len(events) :
          events[i].type = "settled" => i = Len(events) /\ pi.turn = 0
    /\ pump.flushing => pump.turn # 0 /\ events = <<>> /\ pi.turn = 0
    /\ pump.turn = 0 => events = <<>> /\ chan = <<>> /\ out = <<>>

-----------------------------------------------------------------------------
\* pi has ended its message m.
Over(m) == m < pi.message \/ ~pi.open

\* The message an event is of is the one of the event before it, or the next one.
Follows(ev, was, is) ==
    /\ IF ev.type = "start" THEN is = was + 1 ELSE is = was
    /\ ev.type = "delta" => ev.piece.of = is
    /\ ev.type = "end" => Over(is)
    /\ ev.type \in {"delta", "end"} => is \in Messages
    /\ ev.type = "end" /\ ev.role = "assistant" => ev.text = said[is]

\* The pump gave its ids in the order of pi's messages, the first perhaps to a notice
\* before them all.
Fits(f, first) ==
    /\ f.fact # "flush" => f.id \in 1..pump.seq
    /\ f.fact = "chunk" => /\ Len(f.pieces) = 1
                           /\ f.pieces[1] \in OfPi => f.pieces[1].of = f.id - first
    /\ f.fact = "patch" => /\ f.id - first \in Messages /\ Over(f.id - first)
                           /\ f.pieces = said[f.id - first]

Named(first, at) ==
    /\ pump.id = (IF pump.seq = 0 THEN None ELSE pump.seq)
    /\ at \in [0..Len(events) -> 0..pi.message]
    /\ pump.seq = at[0] + first /\ at[Len(events)] = pi.message
    /\ \A i \in 1..Len(events) : Follows(events[i], at[i - 1], at[i])
    /\ \A i \in 1..Len(Pipe) : Fits(Pipe[i], first)
    /\ \A c \in Clients, id \in MessageIds :
          /\ id > pump.seq => shown[c][id] = <<>>
          /\ \A k \in 1..Len(shown[c][id]) :
                shown[c][id][k] \in OfPi => shown[c][id][k].of = id - first
    /\ \A m \in Messages : \A k \in 1..Len(said[m]) :
          said[m][k].of = m /\ said[m][k].text \in Texts
    /\ pi.open => pi.message \in Messages

-----------------------------------------------------------------------------
\* How many deltas of a message are at or before a place: the clients, each fact, each
\* event.  They come in the order pi said them, and its end comes behind all of them.
Carries(f, id) == f.fact = "chunk" /\ f.id = id /\ f.pieces[1] \in OfPi
Moves(f, id, text, was, is) ==
    /\ Carries(f, id) => is = was + 1 /\ f.pieces[1] = text[is]
    /\ ~Carries(f, id) => is = was
    /\ f.fact = "patch" /\ f.id = id => is = Len(text)
Tells(ev, m, at, text, was, is) ==
    /\ ev.type = "delta" /\ at = m => is = was + 1 /\ ev.piece = text[is]
    /\ ~(ev.type = "delta" /\ at = m) => is = was
    /\ ev.type = "end" /\ at = m => is = Len(text)

\* The first n pieces of a text.
IsFirst(s, text, n) == Len(s) = n /\ \A k \in 1..n : s[k] = text[k]

Streamed(first, at, m, p, e) ==
    /\ p \in [0..Len(Pipe) -> 0..Len(said[m])] /\ e \in [0..Len(events) -> 0..Len(said[m])]
    /\ \A c \in Clients : IsFirst(Only(shown[c][m + first], OfPi), said[m], p[0])
    /\ \A i \in 1..Len(Pipe) : Moves(Pipe[i], m + first, said[m], p[i - 1], p[i])
    /\ e[0] = p[Len(Pipe)]
    /\ \A i \in 1..Len(events) : Tells(events[i], m, at[i], said[m], e[i - 1], e[i])
    /\ e[Len(events)] = Len(said[m])

Texted(first, at) ==
    \A m \in Messages :
        \E p \in [0..Len(Pipe) -> 0..Len(said[m])], e \in [0..Len(events) -> 0..Len(said[m])] :
            Streamed(first, at, m, p, e)

-----------------------------------------------------------------------------
\* A failure is on a v1 client's screen, on its way there, or an event away.
Sent(e) == \/ Visible("v1", e)
           \/ \E i \in 1..Len(Pipe) : Pipe[i].fact = "chunk" /\ Pipe[i].pieces = <<e>>
Reports(ev, e) ==
    /\ ev.type \in {"error", "end"} /\ ev.error = e
    /\ ev.type = "end" => ev.role = "assistant"

Failed ==
    /\ \A e \in failed :
          Sent(e) \/ (e.of = pump.turn /\ \E i \in 1..Len(events) : Reports(events[i], e.text))
    /\ pump.turn # 0 /\ pump.error # None => Sent(Error(pump.turn, pump.error))

-----------------------------------------------------------------------------
Numbered == \E first \in {0, 1}, at \in [0..Len(events) -> 0..pi.message] : Named(first, at)
StreamInv == Types /\ Turns /\ Numbered

-----------------------------------------------------------------------------
\* The sets messages, turns and pieces are taken from.
LEMMA Sets ==
    /\ MaxMessages \in Nat /\ MaxTurns \in Nat /\ MaxDeltas \in Nat
    /\ MaxEvents \in Nat /\ Capacity \in Nat
    /\ MessageIds \subseteq Nat /\ Messages \subseteq MessageIds
    /\ None \notin MessageIds /\ None \notin Errors
    /\ OfPi \subseteq Pieces
BY StreamAssumption DEF StreamAssumption, MessageIds, Messages, OfPi

LEMMA PiecesMade ==
    /\ \A m \in Messages, t \in Texts :
          Text(m, t) \in OfPi /\ Text(m, t).of = m /\ Text(m, t).text = t
    /\ \A turn \in 0..MaxTurns, e \in Errors :
          Error(turn, e) \in Pieces /\ Error(turn, e) \notin OfPi
    /\ \A turn \in 0..MaxTurns, n \in Notices :
          Notice(turn, n) \in Pieces /\ Notice(turn, n) \notin OfPi
<1>1. MaxMessages \in Nat /\ MaxTurns \in Nat
  BY Sets
<1>2. ASSUME NEW m \in Messages, NEW t \in Texts
      PROVE  Text(m, t) \in OfPi /\ Text(m, t).of = m /\ Text(m, t).text = t
  <2>1. m \in 0..MaxMessages + MaxTurns
    BY <1>1 DEF Messages
  <2>2. Text(m, t) \in Pieces
    BY <2>1 DEF Text, Pieces
  <2>3. QED
    BY <2>2 DEF OfPi, Text, IsText
<1>3. ASSUME NEW turn \in 0..MaxTurns, NEW e \in Errors
      PROVE  Error(turn, e) \in Pieces /\ Error(turn, e) \notin OfPi
  <2>1. turn \in 0..MaxMessages + MaxTurns
    BY <1>1
  <2>2. Error(turn, e) \in Pieces
    BY <2>1 DEF Error, Pieces
  <2>3. QED
    BY <2>2 DEF OfPi, Error, IsText
<1>4. ASSUME NEW turn \in 0..MaxTurns, NEW n \in Notices
      PROVE  Notice(turn, n) \in Pieces /\ Notice(turn, n) \notin OfPi
  <2>1. turn \in 0..MaxMessages + MaxTurns
    BY <1>1
  <2>2. Notice(turn, n) \in Pieces
    BY <2>1 DEF Notice, Pieces
  <2>3. QED
    BY <2>2 DEF OfPi, Notice, IsText
<1>5. QED
  BY <1>2, <1>3, <1>4

-----------------------------------------------------------------------------
\* Two sequences in a row, and a step of each.
LEMMA InARow ==
    ASSUME NEW S, NEW a \in Seq(S), NEW b \in Seq(S)
    PROVE  /\ a \o b \in Seq(S) /\ Len(a \o b) = Len(a) + Len(b)
           /\ \A i \in 1..Len(a) : (a \o b)[i] = a[i]
           /\ \A i \in 1..Len(b) : (a \o b)[Len(a) + i] = b[i]
           /\ \A i \in 1..Len(a \o b) :
                 i \in 1..Len(a) \/ \E j \in 1..Len(b) : i = Len(a) + j
<1>1. a \o b \in Seq(S) /\ Len(a \o b) = Len(a) + Len(b)
  OBVIOUS
<1>2. /\ \A i \in 1..Len(a) : (a \o b)[i] = a[i]
      /\ \A i \in 1..Len(b) : (a \o b)[Len(a) + i] = b[i]
  OBVIOUS
<1>3. ASSUME NEW i \in 1..Len(a \o b), i \notin 1..Len(a)
      PROVE  \E j \in 1..Len(b) : i = Len(a) + j
  <2>1. i - Len(a) \in 1..Len(b) /\ i = Len(a) + (i - Len(a))
    BY <1>1, <1>3
  <2>2. QED
    BY <2>1
<1>4. QED
  BY <1>1, <1>2, <1>3

LEMMA FirstGone ==
    ASSUME NEW S, NEW a \in Seq(S), NEW b \in Seq(S), a # <<>>
    PROVE  /\ Len(a \o b) >= 1 /\ (a \o b)[1] = Head(a)
           /\ Len(Tail(a) \o b) = Len(a \o b) - 1
           /\ \A i \in 1..Len(Tail(a) \o b) : (Tail(a) \o b)[i] = (a \o b)[i + 1]
<1>1. Tail(a) \in Seq(S) /\ Len(a) >= 1 /\ Len(Tail(a)) = Len(a) - 1 /\ Head(a) = a[1]
      /\ \A i \in 1..Len(Tail(a)) : Tail(a)[i] = a[i + 1]
  OBVIOUS
<1>2. Len(a \o b) = Len(a) + Len(b) /\ Len(Tail(a) \o b) = Len(a) - 1 + Len(b)
  BY <1>1, InARow
<1>3. (a \o b)[1] = a[1]
  BY <1>1, InARow
<1>4. ASSUME NEW i \in 1..Len(Tail(a) \o b) PROVE (Tail(a) \o b)[i] = (a \o b)[i + 1]
  <2>1. CASE i \in 1..Len(Tail(a))
    <3>1. i + 1 \in 1..Len(a)
      BY <2>1, <1>1
    <3>2. (Tail(a) \o b)[i] = Tail(a)[i] /\ (a \o b)[i + 1] = a[i + 1]
      BY <2>1, <3>1, <1>1, InARow
    <3>3. QED
      BY <2>1, <3>2, <1>1
  <2>2. CASE i \notin 1..Len(Tail(a))
    <3>1. PICK j \in 1..Len(b) : i = Len(Tail(a)) + j
      BY <2>2, <1>1, InARow
    <3>2. i + 1 = Len(a) + j
      BY <3>1, <1>1
    <3>3. QED
      BY <3>1, <3>2, <1>1, InARow
  <2>3. QED
    BY <2>1, <2>2
<1>5. QED
  BY <1>1, <1>2, <1>3, <1>4

-----------------------------------------------------------------------------
\* What the pump does with an event, whichever it is: the fact f it states of ev, its
\* ids, and its errors.
Stated(f, ev) ==
    /\ f \in Facts /\ f.turn = pump.turn
    /\ f.fact = "flush" => ev.type = "settled"
    /\ f.fact # "flush" => f.id = pump'.seq /\ pump'.seq >= 1
    /\ f.fact = "chunk" =>
          /\ Len(f.pieces) = 1
          /\ f.pieces[1] \in OfPi => ev.type = "delta" /\ f.pieces[1] = ev.piece
    /\ f.fact = "patch" => ev.type = "end" /\ ev.role = "assistant" /\ f.pieces = ev.text
Mints(ev) ==
    /\ pump' \in Pumps /\ pump'.turn = pump.turn
    /\ IF ev.type = "settled" THEN pump'.flushing ELSE ~pump'.flushing
    /\ pump'.id = (IF pump'.seq = 0 THEN None ELSE pump'.seq)
    /\ ev.type = "start" => pump'.seq = pump.seq + 1
    /\ ev.type # "start" => \/ pump'.seq = pump.seq
                            \/ /\ pump.seq = 0 /\ pump'.seq = 1
                               /\ ev.type \notin {"delta", "end"}
Puts(piece) == \E j \in 1..Len(out') : out'[j].fact = "chunk" /\ out'[j].pieces = <<piece>>
Errs(ev) ==
    /\ \A e \in Errors : Reports(ev, e) => pump'.error = e
    /\ pump'.error # pump.error =>
          pump'.error \in Errors /\ Puts(Error(pump.turn, pump'.error))
States(ev) ==
    /\ out' \in Seq(Facts) /\ Len(out') <= 2 /\ \A j \in 1..Len(out') : Stated(out'[j], ev)
    /\ ev.type = "delta" => Len(out') = 1 /\ Puts(ev.piece)
    /\ ev.type = "settled" => Len(out') = 1

\* The first id of the pump is minted when it has none.
LEMMA CurrentIs ==
    ASSUME pump \in Pumps, pump.id = (IF pump.seq = 0 THEN None ELSE pump.seq)
    PROVE  /\ Current \in Pumps /\ Current.id = Current.seq /\ Current.seq >= 1
           /\ Current.turn = pump.turn /\ Current.flushing = pump.flushing
           /\ Current.error = pump.error
           /\ IF pump.seq = 0 THEN Current.seq = 1 ELSE Current = pump
<1>1. CASE pump.seq = 0
  <2>1. pump.id = None
    BY <1>1
  <2>2. Current = [pump EXCEPT !.seq = 1, !.id = 1]
    BY <2>1, <1>1 DEF Current, Minted
  <2>3. 1 \in MessageIds /\ 1 \in 0..MaxMessages + 1
    BY Sets DEF MessageIds
  <2>4. Current \in Pumps
    BY <2>2, <2>3 DEF Pumps
  <2>5. QED
    BY <2>2, <2>4, <1>1 DEF Pumps
<1>2. CASE pump.seq # 0
  <2>1. pump.id = pump.seq /\ pump.seq \in 1..MaxMessages + 1
    BY <1>2, Sets DEF Pumps
  <2>2. pump.id # None
    BY <2>1, Sets DEF MessageIds
  <2>3. Current = pump
    BY <2>2 DEF Current
  <2>4. QED
    BY <2>1, <2>3, <1>2, Sets
<1>3. QED
  BY <1>1, <1>2

\* A chunk of the pump is a fact.
LEMMA ChunkIs ==
    ASSUME pump \in Pumps, NEW id \in MessageIds, NEW piece \in Pieces
    PROVE  /\ Chunk(id, piece) \in Facts /\ Chunk(id, piece).fact = "chunk"
           /\ Chunk(id, piece).id = id /\ Chunk(id, piece).pieces = <<piece>>
           /\ Chunk(id, piece).turn = pump.turn
<1>1. <<piece>> \in Seq(Pieces) /\ pump.turn \in 0..MaxTurns
  BY DEF Pumps
<1>2. QED
  BY <1>1 DEF Chunk, Facts

LEMMA PatchIs ==
    ASSUME pump \in Pumps, NEW id \in MessageIds, NEW text \in Seq(OfPi)
    PROVE  /\ Patch(id, text) \in Facts /\ Patch(id, text).fact = "patch"
           /\ Patch(id, text).id = id /\ Patch(id, text).pieces = text
           /\ Patch(id, text).turn = pump.turn
<1>1. text \in Seq(Pieces) /\ pump.turn \in 0..MaxTurns
  BY Sets DEF Pumps
<1>2. QED
  BY <1>1 DEF Patch, Facts

\* One chunk, stated under the current id.
LEMMA OneChunk ==
    ASSUME pump \in Pumps, pump' \in Pumps, pump'.id = pump'.seq, pump'.seq >= 1,
           NEW ev \in EventRecords, NEW piece \in Pieces,
           piece \in OfPi => ev.type = "delta" /\ piece = ev.piece,
           out' = <<Chunk(pump'.id, piece)>>
    PROVE  /\ out' \in Seq(Facts) /\ Len(out') = 1 /\ Puts(piece)
           /\ \A j \in 1..Len(out') : Stated(out'[j], ev)
<1> DEFINE f == Chunk(pump'.id, piece)
<1>1. pump'.id \in MessageIds
  BY Sets DEF Pumps, MessageIds
<1>2. /\ f \in Facts /\ f.fact = "chunk" /\ f.id = pump'.seq /\ f.pieces = <<piece>>
      /\ f.turn = pump.turn
  BY <1>1, ChunkIs
<1> HIDE DEF f
<1>3. Stated(f, ev)
  BY <1>2 DEF Stated
<1>4. out' = <<f>>
  BY DEF f
<1>5. out' \in Seq(Facts) /\ Len(out') = 1 /\ out'[1] = f
  BY <1>4, <1>2
<1>6. QED
  BY <1>2, <1>3, <1>5 DEF Puts

LEMMA HandleStates ==
    ASSUME Types, NEW first \in {0, 1}, NEW at, Named(first, at), Handle
    PROVE  /\ events # <<>> /\ out = <<>> /\ ~pump.flushing
           /\ Head(events) \in EventRecords /\ Head(events) = events[1]
           /\ Mints(Head(events)) /\ Errs(Head(events)) /\ States(Head(events))
           /\ events' = Tail(events)
           /\ UNCHANGED <<pi, said, failed, chan, shown, answered, late>>
<1> DEFINE ev == Head(events)
<1>1. /\ events # <<>> /\ out = <<>> /\ ~pump.flushing /\ events' = Tail(events)
      /\ UNCHANGED <<pi, said, failed, chan, shown, late>>
  BY DEF Handle
<1>2. events \in Seq(EventRecords) /\ pump \in Pumps
  BY DEF Types
<1>3. ev \in EventRecords /\ ev = events[1] /\ 1 \in 1..Len(events)
  BY <1>1, <1>2
<1>4. /\ pump.id = (IF pump.seq = 0 THEN None ELSE pump.seq)
      /\ at \in [0..Len(events) -> 0..pi.message]
      /\ pump.seq = at[0] + first /\ Follows(ev, at[0], at[1])
  <2>1. 1 - 1 = 0
    OBVIOUS
  <2>2. QED
    BY <1>3, <2>1 DEF Named
<1>5. at[0] \in Nat /\ at[1] \in 0..pi.message /\ pi.message \in 0..MaxMessages
      /\ pump.seq \in Nat /\ pump.flushing \in BOOLEAN
  <2>1. pi.message \in 0..MaxMessages
    BY DEF Types, Pis
  <2>2. 0 \in 0..Len(events) /\ 1 \in 0..Len(events)
    BY <1>2, <1>3
  <2>3. QED
    BY <2>1, <2>2, <1>2, <1>4, Sets DEF Pumps
<1> HIDE DEF ev
<1>6. pump.turn \in 0..MaxTurns /\ pump.seq \in 0..MaxMessages + 1
  BY <1>2 DEF Pumps
<1>c. /\ Current \in Pumps /\ Current.id = Current.seq /\ Current.seq >= 1
      /\ Current.turn = pump.turn /\ Current.flushing = pump.flushing
      /\ Current.error = pump.error
      /\ IF pump.seq = 0 THEN Current.seq = 1 ELSE Current = pump
  BY <1>2, <1>4, CurrentIs
<1>7. CASE ev.type = "settled" /\ OnSettled
  <2>1. pump' = [pump EXCEPT !.flushing = TRUE] /\ out' = <<Barrier>> /\ answered' = answered
    BY <1>7 DEF OnSettled
  <2>2. /\ Barrier \in Facts /\ Barrier.fact = "flush" /\ Barrier.turn = pump.turn
    <3>1. <<>> \in Seq(Pieces)
      OBVIOUS
    <3>2. QED
      BY <3>1, <1>6 DEF Barrier, Facts
  <2>3. Stated(Barrier, ev)
    BY <2>2, <1>7 DEF Stated
  <2>4. out' \in Seq(Facts) /\ Len(out') = 1 /\ out'[1] = Barrier
    BY <2>1, <2>2
  <2>5. pump' \in Pumps /\ pump'.turn = pump.turn /\ pump'.flushing = TRUE
        /\ pump'.id = pump.id /\ pump'.seq = pump.seq /\ pump'.error = pump.error
    BY <2>1, <1>2 DEF Pumps
  <2>6. Mints(ev)
    BY <2>5, <1>7, <1>4 DEF Mints
  <2>7. Errs(ev)
    BY <2>5, <1>7 DEF Errs, Reports
  <2>8. States(ev)
    BY <2>4, <2>3, <1>7 DEF States
  <2>9. QED
    BY <2>1, <2>6, <2>7, <2>8, <1>1, <1>3 DEF ev
<1>8. CASE ev.type = "start" /\ OnStart /\ answered' = answered
  <2>1. pump' = Minted /\ out' = <<>>
    BY <1>8 DEF OnStart
  <2>2. at[1] = at[0] + 1
    BY <1>4, <1>8 DEF Follows
  <2>3. pump.seq + 1 \in MessageIds /\ pump.seq + 1 \in 0..MaxMessages + 1 /\ pump.seq + 1 # 0
    BY <2>2, <1>4, <1>5, Sets DEF MessageIds
  <2>4. pump' \in Pumps /\ pump'.turn = pump.turn /\ pump'.flushing = pump.flushing
        /\ pump'.id = pump.seq + 1 /\ pump'.seq = pump.seq + 1 /\ pump'.error = pump.error
    BY <2>1, <2>3, <1>2 DEF Pumps, Minted
  <2>5. Mints(ev)
    BY <2>4, <2>3, <1>8, <1>1 DEF Mints
  <2>6. Errs(ev)
    BY <2>4, <1>8 DEF Errs, Reports
  <2>7. out' \in Seq(Facts) /\ Len(out') = 0
    BY <2>1
  <2>8. States(ev)
    BY <2>7, <1>8 DEF States
  <2>9. QED
    BY <2>1, <2>5, <2>6, <2>8, <1>1, <1>3, <1>8 DEF ev
<1>9. CASE ev.type = "delta" /\ emit_text(ev.piece) /\ answered' = answered
  <2>1. pump' = Current /\ out' = <<Chunk(pump'.id, ev.piece)>>
    BY <1>9 DEF emit_text
  <2>2. ev.piece \in OfPi /\ ev.piece \in Pieces /\ ev.piece.of = at[1] /\ at[1] = at[0]
    BY <1>3, <1>4, <1>9, Sets DEF EventRecords, Follows
  <2>3. States(ev)
    <3>1. /\ out' \in Seq(Facts) /\ Len(out') = 1 /\ Puts(ev.piece)
          /\ \A j \in 1..Len(out') : Stated(out'[j], ev)
      BY <2>1, <2>2, <1>2, <1>3, <1>9, <1>c, OneChunk
    <3>2. QED
      BY <3>1, <1>9 DEF States
  <2>4. pump.seq # 0
    <3>1. at[1] \in Messages
      BY <1>9, <1>4 DEF Follows
    <3>2. QED
      BY <3>1, <2>2, <1>4, <1>5 DEF Messages
  <2>5. Mints(ev)
    BY <2>1, <2>4, <1>1, <1>4, <1>9, <1>c, <1>2 DEF Mints
  <2>6. Errs(ev)
    BY <2>1, <1>9, <1>c DEF Errs, Reports
  <2>7. QED
    BY <2>3, <2>5, <2>6, <1>1, <1>3, <1>9 DEF ev
<1>10. CASE ev.type = "error" /\ emit_message_error(ev.error) /\ answered' = answered
  <2>1. ev.error \in Errors /\ ev.error # None
    BY <1>3, <1>10, Sets DEF EventRecords
  <2>2. CASE pump.error = ev.error
    <3>1. pump' = pump /\ out' = <<>>
      BY <1>10, <2>2 DEF emit_message_error
    <3>2. out' \in Seq(Facts) /\ Len(out') = 0
      BY <3>1
    <3>3. States(ev)
      BY <3>2, <1>10 DEF States
    <3>4. Mints(ev)
      BY <3>1, <1>1, <1>2, <1>4, <1>5, <1>10 DEF Mints
    <3>5. Errs(ev)
      BY <3>1, <2>2 DEF Errs, Reports
    <3>6. QED
      BY <3>3, <3>4, <3>5, <1>1, <1>3, <1>10 DEF ev
  <2>3. CASE pump.error # ev.error
    <3> DEFINE e == ev.error
               piece == Error(pump.turn, e)
    <3>1. pump' = [Current EXCEPT !.error = e] /\ out' = <<Chunk(Current.id, piece)>>
      BY <1>10, <2>3 DEF emit_message_error
    <3>2. piece \in Pieces /\ piece \notin OfPi
      BY <2>1, <1>6, PiecesMade
    <3>3. pump' \in Pumps /\ pump'.id = Current.id /\ pump'.seq = Current.seq
          /\ pump'.turn = pump.turn /\ pump'.flushing = pump.flushing /\ pump'.error = e
      BY <3>1, <2>1, <1>c DEF Pumps
    <3> HIDE DEF e, piece
    <3>4. out' \in Seq(Facts) /\ Len(out') = 1 /\ Puts(piece)
          /\ \A j \in 1..Len(out') : Stated(out'[j], ev)
      BY <3>1, <3>2, <3>3, <1>2, <1>3, <1>c, OneChunk
    <3>5. States(ev)
      BY <3>4, <1>10 DEF States
    <3>6. Mints(ev)
      BY <3>3, <1>1, <1>10, <1>c, <1>2, <1>5 DEF Mints
    <3>7. Errs(ev)
      BY <3>3, <3>4, <2>1 DEF Errs, Reports, e, piece
    <3>8. QED
      BY <3>5, <3>6, <3>7, <1>1, <1>3, <1>10 DEF ev
  <2>4. QED
    BY <2>2, <2>3
<1>11. CASE ev.type = "end" /\ OnEnd(ev) /\ answered' = answered
  <2> DEFINE e == ev.error
             shows == ev.role = "assistant" /\ e # None /\ e # pump.error
             next == IF shows THEN [Current EXCEPT !.error = e] ELSE pump
             piece == Error(pump.turn, e)
             said_ == IF shows THEN <<Chunk(next.id, piece)>> ELSE <<>>
             whole == Whole(next.id, ev)
  <2>1. pump' = next /\ out' = said_ \o whole
    BY <1>11 DEF OnEnd
  <2>2. e \in Errors \cup {None} /\ ev.text \in Seq(OfPi)
    BY <1>3, <1>11 DEF EventRecords, Records
  <2>3. pump.seq # 0 /\ Current = pump /\ pump.id = pump.seq
    <3>1. at[1] \in Messages /\ at[1] = at[0]
      BY <1>11, <1>4 DEF Follows
    <3>2. pump.seq # 0
      BY <3>1, <1>4, <1>5 DEF Messages
    <3>3. QED
      BY <3>2, <1>c, <1>4
  <2>4. pump' \in Pumps /\ pump'.id = pump.seq /\ pump'.seq = pump.seq
        /\ pump'.turn = pump.turn /\ pump'.flushing = pump.flushing
        /\ pump'.error = (IF shows THEN e ELSE pump.error)
    BY <2>1, <2>2, <2>3, <1>2 DEF Pumps
  <2>5. next = pump'
    BY <2>1
  <2>6. pump.seq \in MessageIds /\ pump.seq >= 1
    BY <2>3, <1>6, <1>5, Sets DEF MessageIds
  <2>7. whole = <<>> \/ /\ ev.role = "assistant" /\ whole = <<Patch(pump.seq, ev.text)>>
    BY <2>4, <2>5 DEF Whole
  <2>8. whole \in Seq(Facts) /\ Len(whole) <= 1 /\ \A j \in 1..Len(whole) : Stated(whole[j], ev)
    <3>1. CASE whole = <<>>
      <4> HIDE DEF whole
      <4>1. whole \in Seq(Facts) /\ Len(whole) = 0
        BY <3>1
      <4>2. QED
        BY <4>1
    <3>2. CASE ev.role = "assistant" /\ whole = <<Patch(pump.seq, ev.text)>>
      <4> DEFINE f == Patch(pump.seq, ev.text)
      <4>1. /\ f \in Facts /\ f.fact = "patch" /\ f.id = pump.seq /\ f.pieces = ev.text
            /\ f.turn = pump.turn
        BY <2>2, <2>6, <1>2, PatchIs
      <4>2. whole = <<f>>
        BY <3>2
      <4> HIDE DEF f, whole
      <4>3. Stated(f, ev)
        BY <4>1, <3>2, <2>4, <2>6, <1>11 DEF Stated
      <4>4. QED
        BY <4>1, <4>2, <4>3
    <3>3. QED
      BY <3>1, <3>2, <2>7
  <2> HIDE DEF whole
  <2>9. CASE ~shows
    <3>1. out' = whole
      BY <2>1, <2>8, <2>9
    <3>2. States(ev)
      BY <3>1, <2>8, <1>11 DEF States
    <3>3. Errs(ev)
      BY <2>4, <2>9, <1>11, Sets DEF Errs, Reports
    <3>4. Mints(ev)
      BY <2>4, <2>6, <1>1, <1>11 DEF Mints
    <3>5. QED
      BY <3>2, <3>3, <3>4, <1>1, <1>3, <1>11 DEF ev
  <2>10. CASE shows
    <3> DEFINE f == Chunk(pump.seq, piece)
    <3>1. e \in Errors /\ piece \in Pieces /\ piece \notin OfPi
      BY <2>2, <2>10, <1>6, PiecesMade
    <3>2. /\ f \in Facts /\ f.fact = "chunk" /\ f.id = pump.seq /\ f.pieces = <<piece>>
          /\ f.turn = pump.turn
      BY <3>1, <2>6, <1>2, ChunkIs
    <3>3. out' = <<f>> \o whole
      BY <2>1, <2>4, <2>5, <2>10
    <3> HIDE DEF f
    <3>4. Stated(f, ev)
      BY <3>1, <3>2, <2>4, <2>6 DEF Stated
    <3>5. /\ out' \in Seq(Facts) /\ Len(out') = 1 + Len(whole) /\ out'[1] = f
          /\ \A j \in 1..Len(out') : j = 1 \/ (j - 1 \in 1..Len(whole) /\ out'[j] = whole[j - 1])
      BY <3>2, <3>3, <2>8
    <3>6. \A j \in 1..Len(out') : Stated(out'[j], ev)
      BY <3>4, <3>5, <2>8
    <3>7. States(ev)
      BY <3>5, <3>6, <2>8, <1>11 DEF States
    <3>8. Puts(piece)
      BY <3>2, <3>5, <2>8 DEF Puts
    <3>9. Errs(ev)
      BY <3>1, <3>8, <2>4, <2>10 DEF Errs, Reports
    <3>10. Mints(ev)
      BY <2>4, <2>6, <1>1, <1>11 DEF Mints
    <3>11. QED
      BY <3>7, <3>9, <3>10, <1>1, <1>3, <1>11 DEF ev
  <2>11. QED
    BY <2>9, <2>10
<1>12. CASE ev.type = "notice" /\ emit_text(Notice(pump.turn, ev.error)) /\ answered' = answered
  <2> DEFINE piece == Notice(pump.turn, ev.error)
  <2>1. pump' = Current /\ out' = <<Chunk(pump'.id, piece)>>
    BY <1>12 DEF emit_text
  <2>2. piece \in Pieces /\ piece \notin OfPi
    <3>1. ev.error \in Notices
      BY <1>3, <1>12 DEF EventRecords
    <3>2. QED
      BY <3>1, <1>6, PiecesMade
  <2> HIDE DEF piece
  <2>3. States(ev)
    <3>1. /\ out' \in Seq(Facts) /\ Len(out') = 1
          /\ \A j \in 1..Len(out') : Stated(out'[j], ev)
      BY <2>1, <2>2, <1>2, <1>3, <1>c, OneChunk
    <3>2. QED
      BY <3>1, <1>12 DEF States
  <2>4. Mints(ev)
    BY <2>1, <1>1, <1>2, <1>4, <1>5, <1>12, <1>c DEF Mints
  <2>5. Errs(ev)
    BY <2>1, <1>12, <1>c DEF Errs, Reports
  <2>6. QED
    BY <2>3, <2>4, <2>5, <1>1, <1>3, <1>12 DEF ev
<1>13. QED
  BY <1>7, <1>8, <1>9, <1>10, <1>11, <1>12 DEF Handle, ev

-----------------------------------------------------------------------------
\* What pi adds to the pump's events, whichever step it takes.
Adds(ev) ==
    /\ ev \in EventRecords /\ Len(events) < MaxEvents /\ events' = Append(events, ev)
    /\ pi' \in Pis /\ pi.turn # 0
    /\ IF ev.type = "settled" THEN pi'.turn = 0 ELSE pi'.turn = pi.turn
    /\ pi'.open => pi'.turn # 0
    /\ IF ev.type = "start" THEN pi'.message = pi.message + 1 /\ ~pi.open
       ELSE pi'.message = pi.message /\ (pi'.open => pi.open)
    /\ ev.type = "delta" => /\ pi.open /\ ev.piece.of = pi.message /\ ev.piece.text \in Texts
                            /\ said' = [said EXCEPT ![pi.message] = Append(@, ev.piece)]
    /\ ev.type # "delta" => said' = said
    /\ ev.type = "end" => pi.open /\ ~pi'.open /\ ev.text = said[pi.message]
    /\ \/ failed' = failed
       \/ \E e \in Errors : Reports(ev, e) /\ failed' = failed \cup {Error(pi.turn, e)}
    /\ pi'.error # None => pi'.open /\ pi'.role = "assistant"
    /\ UNCHANGED <<pump, out, chan, shown, answered, late>>

PiStep == Begins \/ Says \/ Breaks \/ Finishes \/ Pauses \/ Settles

LEMMA EventIs ==
    /\ \A type \in {"start", "settled"} : Event(type) \in EventRecords /\ Event(type).type = type
    /\ \A piece \in OfPi : LET ev == [Event("delta") EXCEPT !.piece = piece] IN
          ev \in EventRecords /\ ev.type = "delta" /\ ev.piece = piece
    /\ \A e \in Errors : LET ev == [Event("error") EXCEPT !.error = e] IN
          ev \in EventRecords /\ ev.type = "error" /\ ev.error = e
    /\ \A n \in Notices : LET ev == [Event("notice") EXCEPT !.error = n] IN
          ev \in EventRecords /\ ev.type = "notice" /\ ev.error = n
<1>0. <<>> \in Seq(OfPi)
  OBVIOUS
<1>1. ASSUME NEW type \in {"start", "delta", "error", "end", "notice", "settled"}
      PROVE  Event(type) \in Records /\ Event(type).type = type
  BY <1>0 DEF Event, Records
<1>2. ASSUME NEW type \in {"start", "settled"}
      PROVE  Event(type) \in EventRecords /\ Event(type).type = type
  BY <1>1 DEF EventRecords
<1>3. ASSUME NEW piece \in OfPi
      PROVE  LET ev == [Event("delta") EXCEPT !.piece = piece] IN
             ev \in EventRecords /\ ev.type = "delta" /\ ev.piece = piece
  <2> DEFINE ev == [Event("delta") EXCEPT !.piece = piece]
  <2>1. ev \in Records /\ ev.type = "delta" /\ ev.piece = piece
    BY <1>1 DEF Records
  <2>2. QED
    BY <2>1 DEF EventRecords
<1>4. ASSUME NEW e \in Errors
      PROVE  LET ev == [Event("error") EXCEPT !.error = e] IN
             ev \in EventRecords /\ ev.type = "error" /\ ev.error = e
  <2> DEFINE ev == [Event("error") EXCEPT !.error = e]
  <2>1. ev \in Records /\ ev.type = "error" /\ ev.error = e
    BY <1>1 DEF Records
  <2>2. QED
    BY <2>1 DEF EventRecords
<1>5. ASSUME NEW n \in Notices
      PROVE  LET ev == [Event("notice") EXCEPT !.error = n] IN
             ev \in EventRecords /\ ev.type = "notice" /\ ev.error = n
  <2> DEFINE ev == [Event("notice") EXCEPT !.error = n]
  <2>1. ev \in Records /\ ev.type = "notice" /\ ev.error = n
    BY <1>1 DEF Records
  <2>2. QED
    BY <2>1 DEF EventRecords
<1>6. QED
  BY <1>2, <1>3, <1>4, <1>5

LEMMA PiAdds ==
    ASSUME Types, Turns, pi.open => pi.message \in Messages, PiStep
    PROVE  \E ev \in EventRecords : Adds(ev)
<1>1. pi \in Pis /\ said \in [Messages -> Seq(OfPi)]
  BY DEF Types
<1>2. (pi.open => pi.turn # 0) /\ (pi.error # None => pi.open /\ pi.role = "assistant")
  BY DEF Turns
<1>3. CASE Begins
  <2> DEFINE ev == Event("start")
  <2>1. ev \in EventRecords /\ ev.type = "start"
    BY EventIs
  <2>2. PICK role \in Roles :
          pi' = [pi EXCEPT !.message = @ + 1, !.open = TRUE, !.role = role, !.paused = FALSE]
    BY <1>3 DEF Begins
  <2>3. pi.turn # 0 /\ ~pi.open /\ pi.message < MaxMessages
        /\ Len(events) < MaxEvents /\ events' = Append(events, ev)
        /\ UNCHANGED <<said, failed, pump, out, chan, shown, answered, late>>
    BY <1>3 DEF Begins, PiSends, Working, Adapter
  <2>4. role \in {"user", "assistant"} /\ pi.message + 1 \in 0..MaxMessages
    BY <2>3, <1>1, StreamAssumption DEF StreamAssumption, Pis
  <2>5. pi' \in Pis /\ pi'.turn = pi.turn /\ pi'.message = pi.message + 1 /\ pi'.error = pi.error
    BY <2>2, <2>4, <1>1 DEF Pis
  <2> HIDE DEF ev
  <2>6. pi.error = None
    BY <2>3, <1>2
  <2>7. Adds(ev)
    BY <2>1, <2>3, <2>5, <2>6 DEF Adds
  <2>8. QED
    BY <2>1, <2>7
<1>4. CASE Says
  <2>1. PICK t \in Texts :
          LET piece == Text(pi.message, t) IN
          /\ PiSends([Event("delta") EXCEPT !.piece = piece])
          /\ said' = [said EXCEPT ![pi.message] = Append(@, piece)]
    BY <1>4 DEF Says
  <2> DEFINE piece == Text(pi.message, t)
             ev == [Event("delta") EXCEPT !.piece = piece]
  <2>2. pi.open /\ pi.message \in Messages /\ pi' = pi
        /\ UNCHANGED <<failed, pump, out, chan, shown, answered, late>>
    BY <1>4 DEF Says, Adapter
  <2>3. piece \in OfPi /\ piece.of = pi.message /\ piece.text = t
    BY <2>2, PiecesMade
  <2>4. Len(events) < MaxEvents /\ events' = Append(events, ev)
        /\ said' = [said EXCEPT ![pi.message] = Append(@, piece)]
    BY <2>1 DEF PiSends
  <2> HIDE DEF piece
  <2>5. ev \in EventRecords /\ ev.type = "delta" /\ ev.piece = piece
    BY <2>3, EventIs
  <2> HIDE DEF ev
  <2>6. Adds(ev)
    BY <2>2, <2>3, <2>4, <2>5, <1>1, <1>2 DEF Adds
  <2>7. QED
    BY <2>5, <2>6
<1>5. CASE Breaks
  <2>1. PICK e \in Errors :
          /\ PiSends([Event("error") EXCEPT !.error = e])
          /\ pi' = [pi EXCEPT !.error = e] /\ failed' = failed \cup {Error(pi.turn, e)}
    BY <1>5 DEF Breaks
  <2> DEFINE ev == [Event("error") EXCEPT !.error = e]
  <2>2. pi.open /\ pi.role = "assistant"
        /\ UNCHANGED <<said, pump, out, chan, shown, answered, late>>
    BY <1>5 DEF Breaks, Adapter
  <2>3. Len(events) < MaxEvents /\ events' = Append(events, ev)
    BY <2>1 DEF PiSends
  <2>4. ev \in EventRecords /\ ev.type = "error" /\ ev.error = e
    BY EventIs
  <2>5. pi' \in Pis /\ pi'.turn = pi.turn /\ pi'.message = pi.message /\ pi'.open = pi.open
        /\ pi'.role = pi.role
    BY <2>1, <1>1 DEF Pis
  <2> HIDE DEF ev
  <2>6. Reports(ev, e)
    BY <2>4 DEF Reports
  <2>7. Adds(ev)
    BY <2>1, <2>2, <2>3, <2>4, <2>5, <2>6, <1>2 DEF Adds
  <2>8. QED
    BY <2>4, <2>7
<1>6. CASE Finishes
  <2>1. PICK e \in IF pi.error # None \/ pi.role = "user" THEN {pi.error} ELSE Errors \cup {None} :
          /\ PiSends([Event("end") EXCEPT !.role = pi.role, !.text = said[pi.message], !.error = e])
          /\ failed' = IF e = None THEN failed ELSE failed \cup {Error(pi.turn, e)}
    BY <1>6 DEF Finishes
  <2> DEFINE ev == [Event("end") EXCEPT !.role = pi.role, !.text = said[pi.message], !.error = e]
  <2>2. pi.open /\ pi' = [pi EXCEPT !.open = FALSE, !.error = None]
        /\ UNCHANGED <<said, pump, out, chan, shown, answered, late>>
    BY <1>6 DEF Finishes, Adapter
  <2>3. Len(events) < MaxEvents /\ events' = Append(events, ev)
    BY <2>1 DEF PiSends
  <2>4. e \in Errors \cup {None} /\ pi.role \in {"user", "assistant"}
        /\ said[pi.message] \in Seq(OfPi)
    BY <2>1, <2>2, <1>1 DEF Pis
  <2>5. ev \in EventRecords /\ ev.type = "end" /\ ev.role = pi.role
        /\ ev.text = said[pi.message] /\ ev.error = e
    <3>1. Event("end") \in Records /\ Event("end").type = "end"
      <4>1. <<>> \in Seq(OfPi)
        OBVIOUS
      <4>2. QED
        BY <4>1 DEF Event, Records
    <3>2. ev \in Records /\ ev.type = "end" /\ ev.role = pi.role
          /\ ev.text = said[pi.message] /\ ev.error = e
      BY <3>1, <2>4 DEF Records
    <3>3. QED
      BY <3>2, <2>4 DEF EventRecords
  <2>6. pi' \in Pis /\ pi'.turn = pi.turn /\ pi'.message = pi.message /\ ~pi'.open
        /\ pi'.error = None
    BY <2>2, <1>1 DEF Pis
  <2>7. e # None => pi.role = "assistant"
    BY <2>1, <1>2, <2>4
  <2> HIDE DEF ev
  <2>8. e # None => e \in Errors /\ Reports(ev, e)
    BY <2>4, <2>5, <2>7 DEF Reports
  <2>9. failed' = failed
        \/ \E d \in Errors : Reports(ev, d) /\ failed' = failed \cup {Error(pi.turn, d)}
    BY <2>1, <2>8
  <2>10. Adds(ev)
    BY <2>2, <2>3, <2>5, <2>6, <2>9, <1>2 DEF Adds
  <2>11. QED
    BY <2>5, <2>10
<1>7. CASE Pauses
  <2>1. PICK n \in Notices : PiSends([Event("notice") EXCEPT !.error = n])
    BY <1>7 DEF Pauses
  <2> DEFINE ev == [Event("notice") EXCEPT !.error = n]
  <2>2. pi.turn # 0 /\ ~pi.open /\ pi' = [pi EXCEPT !.paused = TRUE]
        /\ UNCHANGED <<said, failed, pump, out, chan, shown, answered, late>>
    BY <1>7 DEF Pauses, Working, Adapter
  <2>3. Len(events) < MaxEvents /\ events' = Append(events, ev)
    BY <2>1 DEF PiSends
  <2>4. ev \in EventRecords /\ ev.type = "notice"
    BY EventIs
  <2>5. pi' \in Pis /\ pi'.turn = pi.turn /\ pi'.message = pi.message /\ pi'.open = pi.open
        /\ pi'.error = pi.error /\ pi'.role = pi.role
    BY <2>2, <1>1 DEF Pis
  <2> HIDE DEF ev
  <2>6. Adds(ev)
    BY <2>2, <2>3, <2>4, <2>5, <1>2 DEF Adds
  <2>7. QED
    BY <2>4, <2>6
<1>8. CASE Settles
  <2> DEFINE ev == Event("settled")
  <2>1. ev \in EventRecords /\ ev.type = "settled"
    BY EventIs
  <2>2. pi.turn # 0 /\ ~pi.open /\ pi' = [pi EXCEPT !.turn = 0]
        /\ Len(events) < MaxEvents /\ events' = Append(events, ev)
        /\ UNCHANGED <<said, failed, pump, out, chan, shown, answered, late>>
    BY <1>8 DEF Settles, PiSends, Working, Adapter
  <2>3. pi' \in Pis /\ pi'.turn = 0 /\ pi'.message = pi.message /\ ~pi'.open
        /\ pi'.error = pi.error /\ pi'.role = pi.role
    BY <2>2, <1>1, Sets DEF Pis
  <2> HIDE DEF ev
  <2>4. Adds(ev)
    BY <2>1, <2>2, <2>3, <1>2 DEF Adds
  <2>5. QED
    BY <2>1, <2>4
<1>9. QED
  BY <1>3, <1>4, <1>5, <1>6, <1>7, <1>8 DEF PiStep

-----------------------------------------------------------------------------
\* What a step does to the facts on their way.
LEMMA PipeIs ==
    ASSUME Types
    PROVE  Pipe \in Seq(Facts) /\ Len(Pipe) = Len(chan) + Len(out) /\ Len(Pipe) \in Nat
           /\ \A i \in 1..Len(Pipe) : Pipe[i] \in Facts
<1>1. Pipe \in Seq(Facts) /\ Len(Pipe) = Len(chan) + Len(out)
  BY InARow DEF Types, Pipe
<1>2. QED
  BY <1>1

LEMMA PipeGrows ==
    ASSUME Types, out = <<>>, chan' = chan, out' \in Seq(Facts)
    PROVE  /\ Pipe' \in Seq(Facts) /\ Len(Pipe') = Len(Pipe) + Len(out')
           /\ \A i \in 1..Len(Pipe) : Pipe'[i] = Pipe[i]
           /\ \A j \in 1..Len(out') : Pipe'[Len(Pipe) + j] = out'[j]
           /\ \A i \in 1..Len(Pipe') :
                 i \in 1..Len(Pipe) \/ \E j \in 1..Len(out') : i = Len(Pipe) + j
<1>1. chan \in Seq(Facts)
  BY DEF Types
<1>2. Pipe = chan
  BY <1>1 DEF Pipe
<1> DEFINE new == out'
           all == chan \o new
<1>3. Pipe' = all /\ new \in Seq(Facts)
  BY DEF Pipe
<1>4. /\ all \in Seq(Facts) /\ Len(all) = Len(chan) + Len(new)
      /\ \A i \in 1..Len(chan) : all[i] = chan[i]
      /\ \A j \in 1..Len(new) : all[Len(chan) + j] = new[j]
      /\ \A i \in 1..Len(all) : i \in 1..Len(chan) \/ \E j \in 1..Len(new) : i = Len(chan) + j
  <2> HIDE DEF new
  <2>1. QED
    BY <1>1, <1>3, InARow
<1> HIDE DEF all
<1>5. QED
  BY <1>2, <1>3, <1>4

LEMMA PipeKept ==
    ASSUME Types, Send
    PROVE  Pipe' = Pipe /\ UNCHANGED <<pi, said, failed, events, pump, shown, answered, late>>
<1>1. chan' = Append(chan, Head(out)) /\ out' = Tail(out) /\ out # <<>>
      /\ UNCHANGED <<pi, said, failed, events, pump, shown, answered, late>>
  BY DEF Send
<1>2. Pipe' = Append(chan, Head(out)) \o Tail(out)
  BY <1>1 DEF Pipe
<1>3. chan \in Seq(Facts) /\ out \in Seq(Facts)
  BY DEF Types
<1>4. QED
  BY <1>1, <1>2, <1>3, SeqMoved DEF Pipe

\* What a client shows of id after fact f.
Screen(f, c, id) ==
    IF CannotSend(f) \/ f.fact = "flush" \/ f.id # id \/ (f.fact = "patch" /\ c # "v2")
    THEN shown[c][id]
    ELSE IF f.fact = "chunk" THEN Append(shown[c][id], f.pieces[1]) ELSE f.pieces

Delivers(f) ==
    /\ f \in Facts /\ 1 \in 1..Len(Pipe) /\ f = Pipe[1]
    /\ Len(Pipe') = Len(Pipe) - 1 /\ \A i \in 1..Len(Pipe') : Pipe'[i] = Pipe[i + 1]
    /\ chan' \in Seq(Facts) /\ Len(chan') < Len(chan)
    /\ shown' \in [Clients -> [MessageIds -> Seq(Pieces)]]
    /\ \A c \in Clients, id \in MessageIds : shown'[c][id] = Screen(f, c, id)
    /\ late' = late \cup ({f.turn} \cap answered)
    /\ f.fact = "flush" => /\ answered' = answered \cup {pump.turn}
                           /\ pump' = [pump EXCEPT !.flushing = FALSE, !.turn = 0]
    /\ f.fact # "flush" => answered' = answered /\ pump' = pump
    /\ UNCHANGED <<pi, said, failed, events, out>>

LEMMA DeliverIs ==
    ASSUME Types, NEW first, NEW at, Named(first, at), Deliver
    PROVE  Delivers(Head(chan))
<1> DEFINE f == Head(chan)
<1>1. /\ chan # <<>> /\ chan' = Tail(chan) /\ out' = out
      /\ UNCHANGED <<pi, said, failed, events>>
      /\ late' = late \cup ({f.turn} \cap answered)
      /\ f.fact = "flush" => /\ answered' = answered \cup {pump.turn}
                             /\ pump' = [pump EXCEPT !.flushing = FALSE, !.turn = 0]
      /\ f.fact # "flush" => answered' = answered /\ pump' = pump
  BY DEF Deliver
<1>2. chan \in Seq(Facts) /\ out \in Seq(Facts)
      /\ shown \in [Clients -> [MessageIds -> Seq(Pieces)]]
  BY DEF Types
<1>3. Len(Pipe) >= 1 /\ Pipe[1] = f
      /\ Len(Pipe') = Len(Pipe) - 1 /\ \A i \in 1..Len(Pipe') : Pipe'[i] = Pipe[i + 1]
  <2> DEFINE rest == Tail(chan) \o out
             all == chan \o out
  <2>1. Pipe' = rest /\ Pipe = all
    BY <1>1 DEF Pipe
  <2>2. /\ Len(all) >= 1 /\ all[1] = Head(chan) /\ Len(rest) = Len(all) - 1
        /\ \A i \in 1..Len(rest) : rest[i] = all[i + 1]
    <3>1. chan # <<>>
      BY <1>1
    <3> HIDE DEF f
    <3>2. QED
      BY <3>1, <1>2, FirstGone
  <2> HIDE DEF rest, all
  <2>3. QED
    BY <2>1, <2>2
<1>4. f \in Facts /\ 1 \in 1..Len(Pipe)
  <2>1. Len(Pipe) \in Nat
    BY PipeIs
  <2>2. QED
    BY <2>1, <1>3, PipeIs
<1>5. Fits(f, first)
  BY <1>3, <1>4 DEF Named
<1>6. /\ f.fact # "flush" => f.id \in MessageIds /\ f.pieces \in Seq(Pieces)
      /\ f.fact = "chunk" => Len(f.pieces) = 1 /\ f.pieces[1] \in Pieces
  <2>1. pump.seq \in 0..MaxMessages + 1
    BY DEF Types, Pumps
  <2>2. f.pieces \in Seq(Pieces)
    BY <1>4 DEF Facts
  <2>3. f.fact # "flush" => f.id \in MessageIds
    BY <2>1, <1>5, Sets DEF Fits, MessageIds
  <2>4. f.fact = "chunk" => Len(f.pieces) = 1 /\ f.pieces[1] \in Pieces
    BY <1>5, <2>2 DEF Fits
  <2>5. QED
    BY <2>2, <2>3, <2>4
<1>7. f.fact \in {"chunk", "patch", "flush"}
  BY <1>4 DEF Facts
<1>8. shown' = IF CannotSend(f) THEN shown ELSE Rendered(f)
  BY DEF Deliver
<1>9. chan' \in Seq(Facts) /\ Len(chan') < Len(chan)
  <2>1. chan # <<>> /\ chan' = Tail(chan)
    BY <1>1
  <2> HIDE DEF f
  <2>2. QED
    BY <2>1, <1>2
<1> HIDE DEF f
<1>10. /\ shown' \in [Clients -> [MessageIds -> Seq(Pieces)]]
       /\ \A c \in Clients, id \in MessageIds : shown'[c][id] = Screen(f, c, id)
  <2>1. CASE CannotSend(f) \/ f.fact = "flush"
    <3>1. shown' = shown
      <4>1. CASE CannotSend(f)
        BY <4>1, <1>8
      <4>2. CASE ~CannotSend(f) /\ f.fact = "flush"
        <5>1. shown' = [c \in Clients |-> shown[c]]
          BY <4>2, <1>8 DEF Rendered
        <5>2. QED
          BY <5>1, <1>2
      <4>3. QED
        BY <4>1, <4>2, <2>1
    <3>2. QED
      BY <3>1, <2>1, <1>2 DEF Screen
  <2>2. CASE ~CannotSend(f) /\ f.fact = "chunk"
    <3>1. shown' = [c \in Clients |-> [shown[c] EXCEPT ![f.id] = @ \o f.pieces]]
      BY <2>2, <1>8 DEF Rendered
    <3>2. \A s \in Seq(Pieces) : s \o f.pieces = Append(s, f.pieces[1])
      <4>1. f.pieces = <<f.pieces[1]>>
        BY <1>6, <2>2
      <4> DEFINE piece == f.pieces[1]
      <4>2. \A s \in Seq(Pieces) : s \o <<piece>> = Append(s, piece)
        <5> HIDE DEF piece
        <5>1. piece \in Pieces
          BY <1>6, <2>2 DEF piece
        <5>2. QED
          BY <5>1, AppendIsConcat
      <4>3. QED
        BY <4>1, <4>2
    <3>3. shown' = [c \in Clients |-> [shown[c] EXCEPT ![f.id] = Append(@, f.pieces[1])]]
      <4>1. \A c \in Clients : shown[c][f.id] \o f.pieces = Append(shown[c][f.id], f.pieces[1])
        BY <3>2, <1>2, <1>6, <2>2
      <4>2. QED
        BY <3>1, <4>1
    <3>4. shown' \in [Clients -> [MessageIds -> Seq(Pieces)]]
      BY <3>3, <1>2, <1>6, <2>2
    <3>5. QED
      BY <3>3, <3>4, <1>2, <1>6, <2>2 DEF Screen
  <2>3. CASE ~CannotSend(f) /\ f.fact = "patch"
    <3>1. shown' = [c \in Clients |-> IF c = "v2" THEN [shown[c] EXCEPT ![f.id] = f.pieces]
                                      ELSE shown[c]]
      BY <2>3, <1>8 DEF Rendered
    <3>2. shown' \in [Clients -> [MessageIds -> Seq(Pieces)]]
      BY <3>1, <1>2, <1>6, <2>3
    <3>3. QED
      BY <3>1, <3>2, <1>2, <1>6, <2>3 DEF Screen
  <2>4. QED
    BY <2>1, <2>2, <2>3, <1>7
<1>11. QED
  BY <1>1, <1>3, <1>4, <1>9, <1>10 DEF Delivers, f

-----------------------------------------------------------------------------
\* The turn a prompt starts is the next one, and nothing of an earlier one is left.
StartsTurn(n) ==
    /\ n \in 0..MaxTurns /\ answered = 1..n /\ n + 1 \in 1..MaxTurns
    /\ pump.turn = 0 /\ pi.turn = 0 /\ ~pi.open /\ events = <<>> /\ chan = <<>> /\ out = <<>>
    /\ pump' = [pump EXCEPT !.turn = n + 1, !.error = None]
    /\ pi' = [pi EXCEPT !.turn = n + 1]
    /\ UNCHANGED <<said, failed, events, out, chan, shown, answered, late>>

LEMMA StartTurnIs ==
    ASSUME Types, Turns, StartTurn
    PROVE  \E n \in 0..MaxTurns : StartsTurn(n)
<1>1. PICK n \in 0..MaxTurns : answered = 1..n
  BY DEF Turns
<1>2. n \in Nat /\ Cardinality(answered) = n
  BY <1>1, Sets, FS_Interval
<1>3. /\ pump.turn = 0 /\ n < MaxTurns
      /\ pump' = [pump EXCEPT !.turn = n + 1, !.error = None]
      /\ pi' = [pi EXCEPT !.turn = n + 1]
      /\ UNCHANGED <<said, failed, events, out, chan, shown, answered, late>>
  BY <1>2 DEF StartTurn
<1>4. n + 1 \in 1..MaxTurns
  BY <1>2, <1>3, Sets
<1>5. pi.turn = 0 /\ ~pi.open /\ events = <<>> /\ chan = <<>> /\ out = <<>>
  <2>1. pi.turn \in {0, pump.turn} /\ (pi.open => pi.turn # 0)
    BY DEF Turns
  <2>2. pump.turn = 0 => events = <<>> /\ chan = <<>> /\ out = <<>>
    BY DEF Turns
  <2>3. QED
    BY <2>1, <2>2, <1>3
<1>6. StartsTurn(n)
  BY <1>1, <1>3, <1>4, <1>5 DEF StartsTurn
<1>7. QED
  BY <1>6

-----------------------------------------------------------------------------
\* The types and the turns are kept.
LEMMA TypesKept ==
    ASSUME Types, Turns, NEW first \in {0, 1}, NEW at, Named(first, at), [Next]_vars
    PROVE  Types'
<1>1. CASE Handle
  <2> DEFINE ev == Head(events)
  <2>1. /\ events # <<>> /\ events' = Tail(events) /\ Mints(ev) /\ States(ev)
        /\ UNCHANGED <<pi, said, failed, chan, shown>>
    BY <1>1, HandleStates
  <2>2. pump' \in Pumps /\ out' \in Seq(Facts) /\ Len(out') <= 2
    BY <2>1 DEF Mints, States
  <2>3. events' \in Seq(EventRecords) /\ Len(events') <= MaxEvents
    <3>1. events \in Seq(EventRecords) /\ Len(events) <= MaxEvents /\ MaxEvents \in Nat
      BY Sets DEF Types
    <3>2. QED
      BY <2>1, <3>1
  <2>4. QED
    BY <2>1, <2>2, <2>3 DEF Types
<1>2. CASE Send
  <2>1. out # <<>> /\ Len(chan) < Capacity /\ chan' = Append(chan, Head(out)) /\ out' = Tail(out)
    BY <1>2 DEF Send
  <2>2. chan \in Seq(Facts) /\ out \in Seq(Facts) /\ Len(out) <= 2 /\ Capacity \in Nat
    BY Sets DEF Types
  <2>3. chan' \in Seq(Facts) /\ Len(chan') <= Capacity /\ out' \in Seq(Facts) /\ Len(out') <= 2
    BY <2>1, <2>2
  <2>4. QED
    BY <1>2, <2>3, PipeKept DEF Types
<1>3. CASE Deliver
  <2> DEFINE f == Head(chan)
  <2>1. Delivers(f)
    BY <1>3, DeliverIs
  <2> HIDE DEF f
  <2>2. pump' \in Pumps
    <3>1. pump \in Pumps /\ 0 \in 0..MaxTurns
      BY Sets DEF Types
    <3>2. CASE f.fact = "flush"
      <4>1. pump' = [pump EXCEPT !.flushing = FALSE, !.turn = 0]
        BY <2>1, <3>2 DEF Delivers
      <4>2. QED
        BY <3>1, <4>1 DEF Pumps
    <3>3. CASE f.fact # "flush"
      BY <2>1, <3>1, <3>3 DEF Delivers
    <3>4. QED
      BY <3>2, <3>3
  <2>3. Len(chan') <= Capacity
    <3>1. Len(chan) <= Capacity /\ Len(chan') < Len(chan) /\ Capacity \in Nat
          /\ chan' \in Seq(Facts) /\ chan \in Seq(Facts)
      BY <2>1, Sets DEF Types, Delivers
    <3>2. QED
      BY <3>1
  <2>4. QED
    BY <2>1, <2>2, <2>3 DEF Types, Delivers
<1>4. CASE StartTurn
  <2>1. PICK n \in 0..MaxTurns : StartsTurn(n)
    BY <1>4, StartTurnIs
  <2>2. n + 1 \in 0..MaxTurns
    BY <2>1, Sets DEF StartsTurn
  <2>3. pump' \in Pumps /\ pi' \in Pis
    BY <2>1, <2>2 DEF StartsTurn, Types, Pumps, Pis
  <2>4. QED
    BY <2>1, <2>3 DEF Types, StartsTurn
<1>5. CASE PiStep
  <2>1. pi.open => pi.message \in Messages
    BY DEF Named
  <2>2. PICK ev \in EventRecords : Adds(ev)
    BY <1>5, <2>1, PiAdds
  <2>3. events' \in Seq(EventRecords) /\ Len(events') <= MaxEvents
    <3>1. events \in Seq(EventRecords) /\ Len(events) < MaxEvents /\ MaxEvents \in Nat
          /\ events' = Append(events, ev)
      BY <2>2, Sets DEF Types, Adds
    <3>2. QED
      BY <3>1
  <2>4. said' \in [Messages -> Seq(OfPi)]
    <3>1. CASE ev.type = "delta"
      <4>1. ev.piece \in OfPi
        BY <3>1 DEF EventRecords
      <4>2. said' = [said EXCEPT ![pi.message] = Append(@, ev.piece)]
        BY <3>1, <2>2 DEF Adds
      <4>3. pi.message \in Messages
        BY <3>1, <2>1, <2>2 DEF Adds
      <4>4. Append(said[pi.message], ev.piece) \in Seq(OfPi)
        BY <4>1, <4>3 DEF Types
      <4>5. QED
        BY <4>2, <4>3, <4>4 DEF Types
    <3>2. CASE ev.type # "delta"
      BY <3>2, <2>2 DEF Adds, Types
    <3>3. QED
      BY <3>1, <3>2
  <2>5. failed' \subseteq Failures
    <3>1. pi.turn \in 0..MaxTurns
      BY DEF Types, Pis
    <3>2. \A e \in Errors : Error(pi.turn, e) \in Failures
      BY <3>1 DEF Error, Failures
    <3>3. QED
      BY <2>2, <3>2 DEF Adds, Types
  <2>6. QED
    BY <2>2, <2>3, <2>4, <2>5 DEF Adds, Types
<1>6. CASE UNCHANGED vars
  BY <1>6 DEF Types, vars
<1>7. QED
  BY <1>1, <1>2, <1>3, <1>4, <1>5, <1>6 DEF Next, PiStep

LEMMA TurnsKept ==
    ASSUME Types, Types', Turns, NEW first \in {0, 1}, NEW at, Named(first, at), [Next]_vars
    PROVE  Turns'
<1>0. PICK n \in 0..MaxTurns : answered = 1..n /\ pump.turn \in {0, n + 1}
  BY DEF Turns
<1>n. n \in Nat /\ Len(Pipe) \in Nat /\ Len(events) \in Nat /\ events \in Seq(EventRecords)
  BY <1>0, Sets, PipeIs DEF Types
<1>t. pump \in Pumps /\ pi \in Pis /\ pump.turn \in 0..MaxTurns /\ MaxTurns \in Nat
  BY Sets DEF Types, Pumps
<1>1. CASE Handle
  <2> DEFINE ev == Head(events)
  <2>1. /\ events # <<>> /\ events' = Tail(events) /\ Mints(ev) /\ States(ev) /\ ev = events[1]
        /\ out = <<>> /\ ~pump.flushing
        /\ UNCHANGED <<pi, said, failed, chan, shown, answered, late>>
    BY <1>1, HandleStates
  <2> HIDE DEF ev
  <2>2. pump'.turn = pump.turn /\ (pump'.flushing => ev.type = "settled")
    BY <2>1 DEF Mints
  <2>3. pump.turn # 0
    BY <2>1 DEF Turns
  <2>4. Len(events') = Len(events) - 1 /\ 1 \in 1..Len(events)
        /\ \A i \in 1..Len(events') : events'[i] = events[i + 1] /\ i + 1 \in 1..Len(events)
    BY <2>1, <1>n
  <2>5. out' \in Seq(Facts) /\ \A j \in 1..Len(out') : Stated(out'[j], ev)
    BY <2>1 DEF States
  <2>6. /\ Pipe' \in Seq(Facts) /\ Len(Pipe') = Len(Pipe) + Len(out')
        /\ \A i \in 1..Len(Pipe) : Pipe'[i] = Pipe[i]
        /\ \A j \in 1..Len(out') : Pipe'[Len(Pipe) + j] = out'[j]
        /\ \A i \in 1..Len(Pipe') :
              i \in 1..Len(Pipe) \/ \E j \in 1..Len(out') : i = Len(Pipe) + j
    BY <2>1, <2>5, PipeGrows
  <2>7. ASSUME NEW i \in 1..Len(Pipe')
        PROVE  /\ Pipe'[i].turn = pump'.turn
               /\ Pipe'[i].fact = "flush" => pump'.flushing /\ i = Len(Pipe')
    <3>1. CASE i \in 1..Len(Pipe)
      <4>1. Pipe[i].turn = pump.turn /\ Pipe[i].fact # "flush"
        BY <3>1, <2>1 DEF Turns
      <4>2. QED
        BY <3>1, <4>1, <2>2, <2>6
    <3>2. CASE i \notin 1..Len(Pipe)
      <4>1. PICK j \in 1..Len(out') : i = Len(Pipe) + j
        BY <3>2, <2>6
      <4>2. Pipe'[i] = out'[j] /\ Stated(out'[j], ev)
        BY <4>1, <2>5, <2>6
      <4>3. Pipe'[i].turn = pump'.turn
        BY <4>2, <2>2 DEF Stated
      <4>4. ASSUME Pipe'[i].fact = "flush" PROVE pump'.flushing /\ i = Len(Pipe')
        <5>1. ev.type = "settled"
          BY <4>2, <4>4 DEF Stated
        <5>2. pump'.flushing
          BY <5>1, <2>1 DEF Mints
        <5>3. Len(out') = 1
          BY <5>1, <2>1, <2>5, <4>1 DEF States
        <5>4. QED
          BY <5>2, <5>3, <4>1, <2>6, <1>n
      <4>5. QED
        BY <4>3, <4>4
    <3>3. QED
      BY <3>1, <3>2
  <2>8. ASSUME NEW i \in 1..Len(events'), events'[i].type = "settled"
        PROVE  i = Len(events') /\ pi'.turn = 0
    <3>1. i + 1 \in 1..Len(events) /\ events[i + 1].type = "settled"
      BY <2>4, <2>8
    <3>2. i + 1 = Len(events) /\ pi.turn = 0
      BY <3>1 DEF Turns
    <3>3. QED
      BY <3>2, <2>1, <2>4, <1>n
  <2>9. pump'.flushing => events' = <<>> /\ pi'.turn = 0
    <3>1. ASSUME pump'.flushing PROVE events' = <<>> /\ pi'.turn = 0
      <4>1. events[1].type = "settled"
        BY <3>1, <2>1, <2>2
      <4>2. 1 = Len(events) /\ pi.turn = 0
        BY <4>1, <2>4 DEF Turns
      <4>3. QED
        BY <4>2, <2>1, <1>n
    <3>2. QED
      BY <3>1
  <2>10. QED
    <3>1. answered' = 1..n /\ pump'.turn \in {0, n + 1} /\ late' = {}
          /\ pi'.turn \in {0, pump'.turn} /\ (pi'.open => pi'.turn # 0)
          /\ (pi'.error # None => pi'.open /\ pi'.role = "assistant")
      BY <2>1, <2>2, <1>0 DEF Turns
    <3>2. QED
      BY <3>1, <2>2, <2>3, <2>7, <2>8, <2>9, <1>0 DEF Turns
<1>2. CASE Send
  <2>1. Pipe' = Pipe /\ UNCHANGED <<pi, said, failed, events, pump, shown, answered, late>>
    BY <1>2, PipeKept
  <2>2. out # <<>>
    BY <1>2 DEF Send
  <2>3. pump.turn # 0
    BY <2>2 DEF Turns
  <2>4. QED
    BY <2>1, <2>3 DEF Turns
<1>3. CASE Deliver
  <2> DEFINE f == Head(chan)
  <2>1. Delivers(f)
    BY <1>3, DeliverIs
  <2> HIDE DEF f
  <2>2. /\ 1 \in 1..Len(Pipe) /\ f = Pipe[1] /\ UNCHANGED <<pi, said, failed, events, out>>
        /\ Len(Pipe') = Len(Pipe) - 1 /\ \A i \in 1..Len(Pipe') : Pipe'[i] = Pipe[i + 1]
    BY <2>1 DEF Delivers
  <2>3. f.turn = pump.turn /\ (f.fact = "flush" => pump.flushing /\ Len(Pipe) = 1)
    BY <2>2 DEF Turns
  <2>4. pump.turn # 0 /\ pump.turn = n + 1
    <3>1. pump.turn # 0
      <4>1. CASE pump.turn = 0
        <5>1. Len(chan) = 0 /\ Len(out) = 0
          BY <4>1 DEF Turns
        <5>2. Len(Pipe) = 0
          BY <5>1, PipeIs
        <5>3. QED
          BY <5>2, <2>2
      <4>2. QED
        BY <4>1
    <3>2. QED
      BY <3>1, <1>0
  <2>5. late' = {}
    <3>1. f.turn \notin answered
      BY <2>3, <2>4, <1>0, <1>n
    <3>2. late' = late \cup ({f.turn} \cap answered) /\ late = {}
      BY <2>1 DEF Delivers, Turns
    <3>3. QED
      BY <3>1, <3>2
  <2>6. CASE f.fact = "flush"
    <3>1. /\ pump' = [pump EXCEPT !.flushing = FALSE, !.turn = 0]
          /\ answered' = answered \cup {pump.turn}
      BY <2>1, <2>6 DEF Delivers
    <3>2. pump'.turn = 0 /\ ~pump'.flushing
      BY <3>1, <1>t DEF Pumps
    <3>3. answered' = 1..(n + 1) /\ n + 1 \in 0..MaxTurns
      BY <3>1, <2>4, <1>0, <1>n, <1>t
    <3>4. events = <<>> /\ pi.turn = 0 /\ Len(Pipe') = 0
      BY <2>2, <2>3, <2>6 DEF Turns
    <3>5. chan' = <<>> /\ out' = <<>>
      <4>1. Len(Pipe') = Len(chan') + Len(out') /\ chan' \in Seq(Facts) /\ out' \in Seq(Facts)
        <5>1. chan' \in Seq(Facts) /\ out' \in Seq(Facts)
          BY DEF Types
        <5>2. QED
          BY <5>1, InARow DEF Pipe
      <4>2. Len(chan') \in Nat /\ Len(out') \in Nat /\ Len(chan') + Len(out') = 0
        <5>1. Len(chan') \in Nat /\ Len(out') \in Nat
          BY <4>1
        <5>2. QED
          BY <5>1, <4>1, <3>4
      <4>3. Len(chan') = 0 /\ Len(out') = 0
        BY <4>2
      <4>4. QED
        BY <4>1, <4>3
    <3>6. pi' = pi /\ events' = <<>>
      BY <2>2, <3>4
    <3>7. pi'.turn = 0 /\ (pi'.open => pi'.turn # 0)
          /\ (pi'.error # None => pi'.open /\ pi'.role = "assistant")
      BY <3>4, <3>6 DEF Turns
    <3>8. \E k \in 0..MaxTurns : answered' = 1..k /\ pump'.turn \in {0, k + 1}
      BY <3>2, <3>3
    <3>9. 1..Len(Pipe') = {} /\ 1..Len(events') = {}
      BY <3>4, <3>6
    <3>10. QED
      BY <2>5, <3>2, <3>5, <3>6, <3>7, <3>8, <3>9 DEF Turns
  <2>7. CASE f.fact # "flush"
    <3>1. pump' = pump /\ answered' = answered
      BY <2>1, <2>7 DEF Delivers
    <3>2. ASSUME NEW i \in 1..Len(Pipe')
          PROVE  /\ Pipe'[i].turn = pump'.turn
                 /\ Pipe'[i].fact = "flush" => pump'.flushing /\ i = Len(Pipe')
      <4>1. i + 1 \in 1..Len(Pipe) /\ Pipe'[i] = Pipe[i + 1]
        BY <2>2, <1>n
      <4>2. QED
        BY <3>1, <4>1, <2>2, <1>n DEF Turns
    <3>3. QED
      BY <3>1, <3>2, <2>2, <2>4, <2>5 DEF Turns
  <2>8. QED
    BY <2>6, <2>7
<1>4. CASE StartTurn
  <2>1. PICK k \in 0..MaxTurns : StartsTurn(k)
    BY <1>4, StartTurnIs
  <2>2. pump'.turn = k + 1 /\ pump'.flushing = pump.flushing /\ pi'.turn = k + 1
        /\ pi'.open = pi.open /\ pi'.error = pi.error /\ pi'.role = pi.role
    BY <2>1, <1>t DEF StartsTurn, Pumps, Pis
  <2>3. ~pump.flushing /\ ~pi.open
    BY <2>1 DEF StartsTurn, Turns
  <2>4. Pipe' = Pipe /\ events' = <<>> /\ Len(Pipe) = 0
    <3>1. Len(chan) = 0 /\ Len(out) = 0
      BY <2>1 DEF StartsTurn
    <3>2. QED
      BY <3>1, <2>1, PipeIs DEF StartsTurn, Pipe
  <2>5. 1..Len(Pipe') = {} /\ 1..Len(events') = {}
    BY <2>4
  <2>6. k + 1 # 0 /\ answered' = 1..k /\ late' = {}
    BY <2>1, Sets DEF StartsTurn, Turns
  <2>7. pi'.error # None => pi'.open /\ pi'.role = "assistant"
    BY <2>2 DEF Turns
  <2>8. ~pump'.flushing /\ ~pi'.open
    BY <2>2, <2>3
  <2>9. QED
    BY <2>1, <2>2, <2>5, <2>6, <2>7, <2>8 DEF Turns
<1>5. CASE PiStep
  <2>1. pi.open => pi.message \in Messages
    BY DEF Named
  <2>2. PICK ev \in EventRecords : Adds(ev)
    BY <1>5, <2>1, PiAdds
  <2>3. pi.turn # 0 /\ events' = Append(events, ev) /\ pump' = pump /\ answered' = answered
        /\ late' = late /\ chan' = chan /\ out' = out /\ Pipe' = Pipe
    BY <2>2 DEF Adds, Pipe
  <2>4. pump.turn # 0 /\ pi.turn = pump.turn /\ ~pump.flushing
    BY <2>3 DEF Turns
  <2>5. pi'.turn \in {0, pump.turn} /\ (pi'.open => pi'.turn # 0)
        /\ (pi'.error # None => pi'.open /\ pi'.role = "assistant")
        /\ (ev.type = "settled" => pi'.turn = 0)
    BY <2>2, <2>4 DEF Adds
  <2>6. Len(events') = Len(events) + 1 /\ events'[Len(events) + 1] = ev
        /\ \A i \in 1..Len(events) : events'[i] = events[i]
    BY <2>3, <1>n
  <2>7. ASSUME NEW i \in 1..Len(events'), events'[i].type = "settled"
        PROVE  i = Len(events') /\ pi'.turn = 0
    <3>1. i \notin 1..Len(events)
      BY <2>3, <2>6, <2>7 DEF Turns
    <3>2. i = Len(events) + 1
      BY <3>1, <2>6, <1>n
    <3>3. QED
      BY <3>2, <2>5, <2>6, <2>7
  <2>8. QED
    BY <2>3, <2>4, <2>5, <2>7 DEF Turns
<1>6. CASE UNCHANGED vars
  <2>1. Pipe' = Pipe
    BY <1>6 DEF vars, Pipe
  <2>2. QED
    BY <1>6, <2>1 DEF Turns, vars
<1>7. QED
  BY <1>1, <1>2, <1>3, <1>4, <1>5, <1>6 DEF Next, PiStep

-----------------------------------------------------------------------------
\* How many messages are begun at each event, after a step: a handled event leaves, and
\* the first id turns out to be a notice's.
LEMMA NamedHere ==
    ASSUME Types, NEW first \in {0, 1}, NEW at, Named(first, at)
    PROVE  /\ pump.seq \in 0..MaxMessages + 1 /\ pi.message \in 0..MaxMessages
           /\ MaxMessages \in Nat /\ Len(events) \in Nat /\ Len(Pipe) \in Nat
           /\ at \in [0..Len(events) -> 0..pi.message]
           /\ \A i \in 0..Len(events) : at[i] \in 0..pi.message
           /\ \A i \in 0..Len(events) : at[i] \in Nat
           /\ pump.seq = at[0] + first
<1>1. pump.seq \in 0..MaxMessages + 1 /\ pi.message \in 0..MaxMessages /\ MaxMessages \in Nat
  BY Sets DEF Types, Pumps, Pis
<1>2. Len(events) \in Nat /\ Len(Pipe) \in Nat
  BY PipeIs DEF Types
<1>3. at \in [0..Len(events) -> 0..pi.message] /\ pump.seq = at[0] + first
  BY DEF Named
<1>4. QED
  BY <1>1, <1>2, <1>3

LEMMA NextFirst ==
    ASSUME Types, NEW first \in {0, 1}, NEW at, Named(first, at), Handle
    PROVE  LET first2 == pump'.seq - at[1] IN
           /\ first2 \in {0, 1} /\ pump'.seq = at[1] + first2 /\ pump.seq <= pump'.seq
           /\ first2 = first \/ pump.seq = 0
           /\ Follows(events[1], at[0], at[1]) /\ 1 \in 1..Len(events)
           /\ events[1].type \in {"delta", "end"} => first2 = first
<1> DEFINE ev == events[1]
<1>1. events # <<>> /\ Mints(ev)
  BY HandleStates
<1>2. 1 \in 1..Len(events)
  BY <1>1 DEF Types
<1>3. Follows(ev, at[0], at[1])
  <2>1. 1 - 1 = 0
    OBVIOUS
  <2>2. QED
    BY <1>2, <2>1 DEF Named
<1>4. at[0] \in Nat /\ at[1] \in Nat /\ pump.seq = at[0] + first
  BY <1>2, NamedHere
<1>5. CASE ev.type = "start"
  <2>1. at[1] = at[0] + 1 /\ pump'.seq = pump.seq + 1
    BY <1>1, <1>3, <1>5 DEF Follows, Mints
  <2>2. QED
    BY <2>1, <1>2, <1>3, <1>4, <1>5
<1>6. CASE ev.type # "start"
  <2>1. at[1] = at[0]
    BY <1>3, <1>6 DEF Follows
  <2>2. \/ pump'.seq = pump.seq
        \/ pump.seq = 0 /\ pump'.seq = 1 /\ ev.type \notin {"delta", "end"}
    BY <1>1, <1>6 DEF Mints
  <2>3. QED
    BY <2>1, <2>2, <1>2, <1>3, <1>4
<1>7. QED
  BY <1>5, <1>6

LEMMA NamedHandle ==
    ASSUME Types, Types', NEW first \in {0, 1}, NEW at, Named(first, at), Handle,
           NEW first2 \in {0, 1}, first2 = pump'.seq - at[1],
           NEW bt \in [0..Len(events) - 1 -> 0..pi.message],
           bt = [i \in 0..Len(events) - 1 |-> at[i + 1]]
    PROVE  Named(first2, bt)'
<1> DEFINE ev == events[1]
<1>1. /\ events # <<>> /\ events' = Tail(events) /\ Mints(ev) /\ States(ev) /\ out = <<>>
      /\ UNCHANGED <<pi, said, failed, chan, shown, answered, late>>
  BY HandleStates
<1>2. /\ pump'.seq = at[1] + first2 /\ pump.seq <= pump'.seq
      /\ first2 = first \/ pump.seq = 0
      /\ Follows(ev, at[0], at[1]) /\ 1 \in 1..Len(events)
      /\ ev.type \in {"delta", "end"} => first2 = first
  BY NextFirst
<1> HIDE DEF ev
<1>3. /\ pump.seq \in 0..MaxMessages + 1 /\ pi.message \in 0..MaxMessages /\ MaxMessages \in Nat
      /\ Len(events) \in Nat /\ Len(Pipe) \in Nat
      /\ \A i \in 0..Len(events) : at[i] \in Nat
  BY NamedHere
<1>4. Len(events') = Len(events) - 1
      /\ \A i \in 1..Len(events') : events'[i] = events[i + 1] /\ i + 1 \in 1..Len(events)
  BY <1>1, <1>3 DEF Types
<1>5. pump'.id = (IF pump'.seq = 0 THEN None ELSE pump'.seq) /\ pump'.seq \in Nat
  <2>1. pump'.seq \in 0..MaxMessages + 1
    BY <1>1 DEF Mints, Pumps
  <2>2. QED
    BY <2>1, <1>1, <1>3 DEF Mints
<1>6. bt \in [0..Len(events') -> 0..pi'.message]
  BY <1>1, <1>4
<1>7. pump'.seq = bt[0] + first2 /\ bt[Len(events')] = pi'.message
  <2>1. bt[0] = at[1]
    <3>1. 0 \in 0..Len(events) - 1 /\ 0 + 1 = 1
      BY <1>2, <1>3
    <3>2. QED
      BY <3>1
  <2>2. bt[Len(events')] = at[Len(events)]
    <3>1. Len(events') \in 0..Len(events) - 1 /\ Len(events') + 1 = Len(events)
      BY <1>2, <1>3, <1>4
    <3>2. QED
      BY <3>1
  <2>3. at[Len(events)] = pi.message
    BY DEF Named
  <2>4. QED
    BY <2>1, <2>2, <2>3, <1>1, <1>2
<1>8. ASSUME NEW i \in 1..Len(events') PROVE Follows(events[i], bt[i - 1], bt[i])'
  <2>1. events'[i] = events[i + 1] /\ i + 1 \in 1..Len(events)
    BY <1>4
  <2>2. bt[i] = at[i + 1] /\ bt[i - 1] = at[i]
    <3>1. i \in 0..Len(events) - 1 /\ i - 1 \in 0..Len(events) - 1 /\ (i - 1) + 1 = i
      BY <1>3, <1>4
    <3>2. QED
      BY <3>1
  <2>3. Follows(events[i + 1], at[i], at[i + 1])
    <3>1. (i + 1) - 1 = i
      OBVIOUS
    <3>2. QED
      BY <2>1, <3>1 DEF Named
  <2>4. QED
    BY <2>1, <2>2, <2>3, <1>1 DEF Follows, Over
<1>9. out' \in Seq(Facts) /\ \A j \in 1..Len(out') : Stated(out'[j], ev)
  BY <1>1 DEF States
<1>10. /\ \A i \in 1..Len(Pipe) : Pipe'[i] = Pipe[i]
       /\ \A j \in 1..Len(out') : Pipe'[Len(Pipe) + j] = out'[j]
       /\ \A i \in 1..Len(Pipe') : i \in 1..Len(Pipe) \/ \E j \in 1..Len(out') : i = Len(Pipe) + j
  BY <1>1, <1>9, PipeGrows
<1>11. ASSUME NEW f, Fits(f, first) PROVE Fits(f, first2)'
  <2>1. f.fact # "flush" => f.id \in 1..pump.seq
    BY <1>11 DEF Fits
  <2>2. f.fact # "flush" => f.id \in 1..pump'.seq /\ first2 = first
    BY <2>1, <1>2, <1>3, <1>5
  <2>3. f.fact = "chunk" => f.fact # "flush"
    OBVIOUS
  <2>4. f.fact = "patch" => f.fact # "flush"
    OBVIOUS
  <2>5. QED
    BY <2>2, <2>3, <2>4, <1>1, <1>11 DEF Fits, Over
<1>12. ASSUME NEW f, Stated(f, ev) PROVE Fits(f, first2)'
  <2>1. f.fact # "flush" => f.id \in 1..pump'.seq /\ f.id = pump'.seq
    BY <1>12, <1>5 DEF Stated
  <2>2. ASSUME f.fact = "chunk"
        PROVE  Len(f.pieces) = 1 /\ (f.pieces[1] \in OfPi => f.pieces[1].of = f.id - first2)
    <3>1. Len(f.pieces) = 1 /\ (f.pieces[1] \in OfPi => ev.type = "delta" /\ f.pieces[1] = ev.piece)
      BY <1>12, <2>2 DEF Stated
    <3>2. ev.type = "delta" => ev.piece.of = at[1]
      BY <1>2 DEF Follows
    <3>3. at[1] = pump'.seq - first2
      BY <1>2, <1>3
    <3>4. QED
      BY <3>1, <3>2, <3>3, <2>1, <2>2
  <2>3. ASSUME f.fact = "patch"
        PROVE  f.id - first2 \in Messages /\ Over(f.id - first2) /\ f.pieces = said[f.id - first2]
    <3>1. ev.type = "end" /\ ev.role = "assistant" /\ f.pieces = ev.text
      BY <1>12, <2>3 DEF Stated
    <3>2. at[1] \in Messages /\ Over(at[1]) /\ ev.text = said[at[1]]
      BY <3>1, <1>2 DEF Follows
    <3>3. f.id - first2 = at[1]
      <4>1. f.id = pump'.seq
        BY <2>1, <2>3
      <4>2. QED
        BY <4>1, <1>2, <1>3
    <3>4. QED
      BY <3>1, <3>2, <3>3
  <2>4. QED
    BY <2>1, <2>2, <2>3, <1>1 DEF Fits, Over
<1>13. ASSUME NEW i \in 1..Len(Pipe') PROVE Fits(Pipe[i], first2)'
  <2>1. CASE i \in 1..Len(Pipe)
    <3>1. Fits(Pipe[i], first)
      BY <2>1 DEF Named
    <3>2. QED
      BY <2>1, <3>1, <1>10, <1>11
  <2>2. CASE i \notin 1..Len(Pipe)
    <3>1. PICK j \in 1..Len(out') : i = Len(Pipe) + j
      BY <2>2, <1>10
    <3>2. QED
      BY <3>1, <1>9, <1>10, <1>12
  <2>3. QED
    BY <2>1, <2>2
<1>14. ASSUME NEW c \in Clients, NEW id \in MessageIds
       PROVE  /\ id > pump'.seq => shown'[c][id] = <<>>
              /\ \A k \in 1..Len(shown'[c][id]) :
                    shown'[c][id][k] \in OfPi => shown'[c][id][k].of = id - first2
  <2>1. id > pump.seq => shown[c][id] = <<>>
    BY DEF Named
  <2>2. id \in Nat
    BY Sets
  <2>3. id > pump'.seq => id > pump.seq
    BY <2>2, <1>2, <1>3, <1>5
  <2>4. CASE first2 = first
    BY <2>1, <2>3, <2>4, <1>1 DEF Named
  <2>5. CASE pump.seq = 0
    <3>1. id > pump.seq
      BY <2>5, Sets DEF MessageIds
    <3>2. shown'[c][id] = <<>>
      BY <3>1, <2>1, <1>1
    <3>3. 1..Len(shown'[c][id]) = {}
      BY <3>2
    <3>4. QED
      BY <3>2, <3>3
  <2>6. QED
    BY <2>4, <2>5, <1>2
<1>15. /\ \A m \in Messages : \A k \in 1..Len(said'[m]) :
             said'[m][k].of = m /\ said'[m][k].text \in Texts
       /\ pi'.open => pi'.message \in Messages
  BY <1>1 DEF Named
<1>16. QED
  BY <1>5, <1>6, <1>7, <1>8, <1>13, <1>14, <1>15 DEF Named

LEMMA NamedSame ==
    ASSUME Types, Turns, NEW first \in {0, 1}, NEW at, Named(first, at),
           Send \/ StartTurn \/ UNCHANGED vars
    PROVE  Named(first, at)'
<1>1. /\ Pipe' = Pipe /\ UNCHANGED <<said, events, shown>>
      /\ pump'.id = pump.id /\ pump'.seq = pump.seq
      /\ pi'.message = pi.message /\ pi'.open = pi.open
  <2>1. CASE Send
    BY <2>1, PipeKept
  <2>2. CASE StartTurn
    <3>1. PICK n \in 0..MaxTurns : StartsTurn(n)
      BY <2>2, StartTurnIs
    <3>2. pump \in Pumps /\ pi \in Pis
      BY DEF Types
    <3>3. QED
      BY <3>1, <3>2 DEF StartsTurn, Pipe, Pumps, Pis
  <2>3. CASE UNCHANGED vars
    BY <2>3 DEF vars, Pipe
  <2>4. QED
    BY <2>1, <2>2, <2>3
<1>2. ASSUME NEW i \in 1..Len(events'), Follows(events[i], at[i - 1], at[i])
      PROVE  Follows(events[i], at[i - 1], at[i])'
  BY <1>1, <1>2 DEF Follows, Over
<1>3. ASSUME NEW i \in 1..Len(Pipe'), Fits(Pipe[i], first)
      PROVE  Fits(Pipe[i], first)'
  BY <1>1, <1>3 DEF Fits, Over
<1>4. QED
  BY <1>1, <1>2, <1>3 DEF Named

LEMMA NamedDeliver ==
    ASSUME Types, NEW first \in {0, 1}, NEW at, Named(first, at), Deliver
    PROVE  Named(first, at)'
<1> DEFINE f == Head(chan)
<1>1. Delivers(f)
  BY DeliverIs
<1> HIDE DEF f
<1>2. /\ 1 \in 1..Len(Pipe) /\ f = Pipe[1] /\ UNCHANGED <<pi, said, failed, events, out>>
      /\ Len(Pipe') = Len(Pipe) - 1 /\ \A i \in 1..Len(Pipe') : Pipe'[i] = Pipe[i + 1]
  BY <1>1 DEF Delivers
<1>3. pump'.id = pump.id /\ pump'.seq = pump.seq
  <2>1. pump \in Pumps
    BY DEF Types
  <2>2. CASE f.fact = "flush"
    <3>1. pump' = [pump EXCEPT !.flushing = FALSE, !.turn = 0]
      BY <1>1, <2>2 DEF Delivers
    <3>2. QED
      BY <2>1, <3>1 DEF Pumps
  <2>3. CASE f.fact # "flush"
    BY <1>1, <2>3 DEF Delivers
  <2>4. QED
    BY <2>2, <2>3
<1>4. Len(Pipe) \in Nat /\ pump.seq \in Nat
  BY NamedHere
<1>5. ASSUME NEW i \in 1..Len(events'), Follows(events[i], at[i - 1], at[i])
      PROVE  Follows(events[i], at[i - 1], at[i])'
  BY <1>2, <1>5 DEF Follows, Over
<1>6. ASSUME NEW i \in 1..Len(Pipe') PROVE Fits(Pipe[i], first)'
  <2>1. Pipe'[i] = Pipe[i + 1] /\ i + 1 \in 1..Len(Pipe)
    BY <1>2, <1>4
  <2>2. Fits(Pipe[i + 1], first)
    BY <2>1 DEF Named
  <2>3. QED
    BY <2>1, <2>2, <1>2, <1>3 DEF Fits, Over
<1>7. f \in Facts /\ Fits(f, first)
  BY <1>1, <1>2 DEF Named, Delivers
<1>8. ASSUME NEW c \in Clients, NEW id \in MessageIds
      PROVE  /\ id > pump.seq => shown'[c][id] = <<>>
             /\ \A k \in 1..Len(shown'[c][id]) :
                   shown'[c][id][k] \in OfPi => shown'[c][id][k].of = id - first
  <2>1. /\ id > pump.seq => shown[c][id] = <<>>
        /\ \A k \in 1..Len(shown[c][id]) :
              shown[c][id][k] \in OfPi => shown[c][id][k].of = id - first
    BY DEF Named
  <2>2. shown'[c][id] = Screen(f, c, id) /\ shown[c][id] \in Seq(Pieces)
    BY <1>1 DEF Delivers, Types
  <2>3. CASE shown'[c][id] = shown[c][id]
    BY <2>1, <2>3
  <2>4. CASE shown'[c][id] # shown[c][id]
    <3>1. f.id = id /\ f.fact # "flush" /\ f.fact \in {"chunk", "patch", "flush"}
          /\ shown'[c][id] = IF f.fact = "chunk" THEN Append(shown[c][id], f.pieces[1])
                             ELSE f.pieces
      BY <2>2, <2>4, <1>7 DEF Screen, Facts
    <3>2. id \in 1..pump.seq
      BY <3>1, <1>7 DEF Fits
    <3>3. ~(id > pump.seq)
      BY <3>2, <1>4
    <3>4. CASE f.fact = "chunk"
      <4>1. f.pieces[1] \in OfPi => f.pieces[1].of = id - first
        BY <3>1, <3>4, <1>7 DEF Fits
      <4>2. f.pieces[1] \in Pieces
        BY <3>4, <1>7 DEF Fits, Facts
      <4> DEFINE s == shown[c][id]
                 piece == f.pieces[1]
      <4>3. s \in Seq(Pieces) /\ shown'[c][id] = Append(s, piece)
        BY <2>2, <3>1, <3>4
      <4>4. \A k \in 1..Len(s) : s[k] \in OfPi => s[k].of = id - first
        BY <2>1
      <4> HIDE DEF s, piece
      <4>5. /\ Len(shown'[c][id]) = Len(s) + 1 /\ shown'[c][id][Len(s) + 1] = piece
            /\ \A k \in 1..Len(s) : shown'[c][id][k] = s[k]
        BY <4>3
      <4>6. ASSUME NEW k \in 1..Len(shown'[c][id]), shown'[c][id][k] \in OfPi
            PROVE  shown'[c][id][k].of = id - first
        <5>1. CASE k \in 1..Len(s)
          BY <5>1, <4>4, <4>5, <4>6
        <5>2. CASE k \notin 1..Len(s)
          <6>1. k = Len(s) + 1
            BY <5>2, <4>3, <4>5
          <6>2. QED
            BY <6>1, <4>1, <4>5, <4>6 DEF piece
        <5>3. QED
          BY <5>1, <5>2
      <4>7. QED
        BY <4>6, <3>3
    <3>5. CASE f.fact = "patch"
      <4>1. shown'[c][id] = said[id - first] /\ id - first \in Messages
        BY <3>1, <3>5, <1>7 DEF Fits
      <4>2. \A k \in 1..Len(said[id - first]) : said[id - first][k].of = id - first
        BY <4>1 DEF Named
      <4>3. QED
        BY <4>1, <4>2, <3>3
    <3>6. QED
      BY <3>1, <3>4, <3>5
  <2>5. QED
    BY <2>3, <2>4
<1>9. QED
  BY <1>2, <1>3, <1>5, <1>6, <1>8 DEF Named

LEMMA NamedPi ==
    ASSUME Types, Types', NEW first \in {0, 1}, NEW at, Named(first, at),
           NEW ev \in EventRecords, Adds(ev),
           NEW bt \in [0..Len(events) + 1 -> 0..pi'.message],
           bt = [i \in 0..Len(events) + 1 |-> IF i <= Len(events) THEN at[i] ELSE pi'.message]
    PROVE  Named(first, bt)'
<1>1. /\ events' = Append(events, ev) /\ pump' = pump /\ shown' = shown /\ Pipe' = Pipe
  BY DEF Adds, Pipe
<1>2. /\ pump.seq \in 0..MaxMessages + 1 /\ pi.message \in 0..MaxMessages /\ MaxMessages \in Nat
      /\ Len(events) \in Nat /\ Len(Pipe) \in Nat
      /\ \A i \in 0..Len(events) : at[i] \in 0..pi.message
      /\ \A i \in 0..Len(events) : at[i] \in Nat
      /\ pump.seq = at[0] + first
  BY NamedHere
<1>3. /\ Len(events') = Len(events) + 1 /\ events'[Len(events) + 1] = ev
      /\ \A i \in 1..Len(events) : events'[i] = events[i]
  BY <1>1 DEF Types
<1>4. pi'.message \in Nat /\ pi.message <= pi'.message /\ pi'.message \in 0..MaxMessages
  BY <1>2 DEF Adds, Pis
<1>5. pi.open => pi.message \in Messages
  BY DEF Named
<1>6. ASSUME NEW m \in 0..pi.message, Over(m)
      PROVE  Over(m)' /\ (m \in Messages => said'[m] = said[m])
  <2>1. CASE ev.type = "start"
    BY <2>1, <1>2, <1>6 DEF Adds, Over
  <2>2. CASE ev.type = "delta"
    <3>1. m < pi.message /\ m # pi.message
      BY <2>2, <1>2, <1>6 DEF Adds, Over
    <3>2. said' = [said EXCEPT ![pi.message] = Append(@, ev.piece)]
      BY <2>2 DEF Adds
    <3>3. pi'.message = pi.message
      BY <2>2 DEF Adds
    <3>4. QED
      BY <3>1, <3>2, <3>3 DEF Over, Types
  <2>3. CASE ev.type \notin {"start", "delta"}
    BY <2>3, <1>6 DEF Adds, Over
  <2>4. QED
    BY <2>1, <2>2, <2>3
<1>7. ASSUME NEW i \in 1..Len(events') PROVE Follows(events[i], bt[i - 1], bt[i])'
  <2>1. CASE i \in 1..Len(events)
    <3>1. bt[i] = at[i] /\ bt[i - 1] = at[i - 1] /\ at[i] \in 0..pi.message
      <4>1. i \in 0..Len(events) + 1 /\ i - 1 \in 0..Len(events) + 1 /\ i \in 0..Len(events)
            /\ i <= Len(events) /\ i - 1 <= Len(events)
        BY <2>1, <1>2
      <4>2. QED
        BY <4>1, <1>2
    <3>2. Follows(events[i], at[i - 1], at[i])
      BY <2>1 DEF Named
    <3>3. events'[i] = events[i]
      BY <2>1, <1>3
    <3>4. Over(at[i]) => Over(at[i])' /\ (at[i] \in Messages => said'[at[i]] = said[at[i]])
      BY <3>1, <1>6
    <3>5. QED
      BY <3>1, <3>2, <3>3, <3>4 DEF Follows
  <2>2. CASE i \notin 1..Len(events)
    <3>1. i = Len(events) + 1
      BY <2>2, <1>2, <1>3
    <3>2. bt[i] = pi'.message /\ bt[i - 1] = pi.message
      <4>1. i \in 0..Len(events) + 1 /\ i - 1 \in 0..Len(events) + 1
            /\ ~(i <= Len(events)) /\ i - 1 = Len(events) /\ i - 1 <= Len(events)
        BY <3>1, <1>2
      <4>2. at[Len(events)] = pi.message
        BY DEF Named
      <4>3. QED
        BY <4>1, <4>2
    <3>3. events'[i] = ev
      BY <3>1, <1>3
    <3>4. /\ IF ev.type = "start" THEN pi'.message = pi.message + 1 ELSE pi'.message = pi.message
          /\ ev.type = "delta" => ev.piece.of = pi'.message /\ pi'.message \in Messages
          /\ ev.type = "end" => pi'.message \in Messages /\ ev.text = said'[pi'.message]
                                /\ ~pi'.open
      BY <1>5 DEF Adds
    <3>5. QED
      BY <3>2, <3>3, <3>4 DEF Follows, Over
  <2>3. QED
    BY <2>1, <2>2
<1>8. ASSUME NEW i \in 1..Len(Pipe') PROVE Fits(Pipe[i], first)'
  <2>1. Fits(Pipe[i], first)
    BY <1>1 DEF Named
  <2> DEFINE f == Pipe[i]
  <2>2. ASSUME NEW m \in Messages, f.fact = "patch", m = f.id - first
        PROVE  Over(m)' /\ f.pieces = said'[m]
    <3>1. Over(m) /\ f.pieces = said[m] /\ f.id \in 1..pump.seq
      BY <2>1, <2>2 DEF Fits
    <3>2. m \in 0..pi.message
      <4>1. CASE m < pi.message
        BY <4>1, <1>2 DEF Messages
      <4>2. CASE ~(m < pi.message)
        <5>1. at[0] \in 0..pi.message /\ m <= at[0]
          BY <2>2, <3>1, <1>2 DEF Messages
        <5>2. QED
          BY <5>1, <1>2 DEF Messages
      <4>3. QED
        BY <4>1, <4>2
    <3>3. Over(m)' /\ said'[m] = said[m]
      BY <3>1, <3>2, <1>6
    <3>4. QED
      BY <3>1, <3>3
  <2>3. f.fact = "patch" =>
           /\ f.id - first \in Messages /\ f.pieces = said'[f.id - first]
           /\ f.id - first < pi'.message \/ ~pi'.open
    BY <2>1, <2>2 DEF Fits, Over
  <2>4. QED
    BY <2>1, <2>3, <1>1 DEF Fits, Over
<1>9. ASSUME NEW m \in Messages, NEW k \in 1..Len(said'[m])
      PROVE  said'[m][k].of = m /\ said'[m][k].text \in Texts
  <2>0. \A j \in 1..Len(said[m]) : said[m][j].of = m /\ said[m][j].text \in Texts
    BY DEF Named
  <2>1. CASE said'[m] = said[m]
    BY <2>0, <2>1, <1>9
  <2>2. CASE said'[m] # said[m]
    <3>1. ev.type = "delta" /\ ev.piece.of = pi.message /\ ev.piece.text \in Texts
          /\ said' = [said EXCEPT ![pi.message] = Append(@, ev.piece)]
      BY <2>2 DEF Adds
    <3>2. m = pi.message /\ said'[m] = Append(said[m], ev.piece)
      BY <2>2, <3>1 DEF Types
    <3>3. said[m] \in Seq(OfPi) /\ ev.piece \in OfPi
      BY <3>1 DEF Types, EventRecords
    <3> DEFINE s == said[m]
               piece == ev.piece
    <3> HIDE DEF s, piece
    <3>4. /\ Len(said'[m]) = Len(s) + 1 /\ said'[m][Len(s) + 1] = piece /\ Len(s) \in Nat
          /\ \A j \in 1..Len(s) : said'[m][j] = s[j]
      BY <3>2, <3>3 DEF s, piece
    <3>5. CASE k \in 1..Len(s)
      BY <3>4, <3>5, <2>0 DEF s
    <3>6. CASE k \notin 1..Len(s)
      <4>1. k = Len(s) + 1
        BY <3>4, <3>6
      <4>2. QED
        BY <4>1, <3>1, <3>2, <3>4 DEF piece
    <3>7. QED
      BY <3>5, <3>6
  <2>3. QED
    BY <2>1, <2>2
<1>10. pi'.open => pi'.message \in Messages
  <2>1. CASE ev.type = "start"
    <3>1. pi'.message = pi.message + 1
      BY <2>1 DEF Adds
    <3>2. QED
      BY <3>1, <1>2, <1>4 DEF Messages
  <2>2. CASE ev.type # "start"
    BY <2>2, <1>5 DEF Adds
  <2>3. QED
    BY <2>1, <2>2
<1>11. /\ bt \in [0..Len(events') -> 0..pi'.message]
       /\ pump'.seq = bt[0] + first /\ bt[Len(events')] = pi'.message
  <2>1. bt[0] = at[0]
    <3>1. 0 \in 0..Len(events) + 1 /\ 0 <= Len(events)
      BY <1>2
    <3>2. QED
      BY <3>1
  <2>2. bt[Len(events) + 1] = pi'.message
    <3>1. Len(events) + 1 \in 0..Len(events) + 1 /\ ~(Len(events) + 1 <= Len(events))
      BY <1>2
    <3>2. QED
      BY <3>1
  <2>3. QED
    BY <2>1, <2>2, <1>1, <1>2, <1>3
<1>12. QED
  BY <1>1, <1>7, <1>8, <1>9, <1>10, <1>11 DEF Named

-----------------------------------------------------------------------------
\* Deltas stay in their order.
LEMMA OnlyAll ==
    ASSUME NEW T, NEW s \in Seq(T)
    PROVE  Only(s, T) = s
<1> DEFINE at == {i \in DOMAIN s : s[i] \in T}
           n == Len(s)
<1>1. n \in Nat /\ at = 1..n /\ DOMAIN s = 1..n
  OBVIOUS
<1>2. Only(s, T) \in Seq(T) /\ Len(Only(s, T)) = Cardinality(at) /\ Only(s, T) = Subsequence(s, at)
      /\ at \in SUBSET Int /\ IsFiniteSet(at)
  BY OnlyAt
<1> HIDE DEF at, n
<1>3. Cardinality(at) = n
  BY <1>1, FS_Interval
<1>4. ASSUME NEW k \in 1..n PROVE Nth(at, k) = k
  <2>1. {j \in at : j <= k} = 1..k
    BY <1>1
  <2>2. Rank(at, k) = k
    <3>1. 1 \in Int /\ k \in Int /\ k >= 1
      BY <1>1
    <3>2. Cardinality(1..k) = k
      BY <3>1, FS_Interval
    <3>3. QED
      BY <2>1, <3>2 DEF Rank
  <2>3. k \in at
    BY <1>1
  <2>4. Nth(at, Rank(at, k)) = k
    BY <1>2, <2>3, NthIsThere
  <2>5. QED
    BY <2>2, <2>4
<1>5. \A k \in 1..n : Only(s, T)[k] = s[k]
  BY <1>2, <1>3, <1>4 DEF Subsequence
<1>6. Len(s) = n
  BY DEF n
<1> DEFINE o == Only(s, T)
<1> HIDE DEF o
<1>7. o \in Seq(T) /\ Len(o) = Len(s) /\ \A k \in 1..Len(s) : o[k] = s[k]
  BY <1>2, <1>3, <1>5, <1>6 DEF o
<1>8. o = s
  BY <1>7
<1>9. QED
  BY <1>8 DEF o

\* A part of a text that gets its next piece, and one that gets something else.
LEMMA NextPiece ==
    ASSUME NEW s \in Seq(Pieces), NEW x \in Pieces, NEW text \in Seq(OfPi), NEW n \in Nat,
           IsFirst(Only(s, OfPi), text, n)
    PROVE  /\ x \in OfPi /\ x = text[n + 1] => IsFirst(Only(Append(s, x), OfPi), text, n + 1)
           /\ x \notin OfPi => IsFirst(Only(Append(s, x), OfPi), text, n)
<1>1. Only(Append(s, x), OfPi) = IF x \in OfPi THEN Append(Only(s, OfPi), x) ELSE Only(s, OfPi)
  BY OnlyAppend
<1>2. Only(s, OfPi) \in Seq(OfPi)
  BY OnlyAt
<1> DEFINE o == Only(s, OfPi)
<1> HIDE DEF o
<1>3. ASSUME x \in OfPi, x = text[n + 1] PROVE IsFirst(Append(o, x), text, n + 1)
  <2>1. o \in Seq(OfPi) /\ Len(o) = n /\ \A k \in 1..n : o[k] = text[k]
    BY <1>2 DEF o, IsFirst
  <2>2. Len(Append(o, x)) = n + 1 /\ Append(o, x)[n + 1] = x
        /\ \A k \in 1..n : Append(o, x)[k] = o[k]
    BY <2>1, <1>3
  <2>3. ASSUME NEW k \in 1..(n + 1) PROVE Append(o, x)[k] = text[k]
    <3>1. k \in 1..n \/ k = n + 1
      OBVIOUS
    <3>2. QED
      BY <3>1, <2>1, <2>2, <1>3
  <2>4. QED
    BY <2>2, <2>3 DEF IsFirst
<1>4. QED
  BY <1>1, <1>3 DEF o

LEMMA StreamedHere ==
    ASSUME Types, NEW first \in {0, 1}, NEW at, Named(first, at), NEW m \in Messages,
           NEW p, NEW e, Streamed(first, at, m, p, e)
    PROVE  /\ p \in [0..Len(Pipe) -> 0..Len(said[m])] /\ e \in [0..Len(events) -> 0..Len(said[m])]
           /\ said[m] \in Seq(OfPi) /\ Len(said[m]) \in Nat
           /\ Len(Pipe) \in Nat /\ Len(events) \in Nat
           /\ \A i \in 0..Len(Pipe) : p[i] \in Nat
           /\ \A i \in 0..Len(events) : e[i] \in Nat
           /\ m + first \in MessageIds /\ m \in Nat
<1>1. p \in [0..Len(Pipe) -> 0..Len(said[m])] /\ e \in [0..Len(events) -> 0..Len(said[m])]
  BY DEF Streamed
<1>2. said[m] \in Seq(OfPi) /\ Len(Pipe) \in Nat /\ Len(events) \in Nat
  BY NamedHere DEF Types
<1>3. Len(said[m]) \in Nat
  BY <1>2
<1>4. m + first \in MessageIds /\ m \in Nat
  BY Sets DEF Messages, MessageIds
<1>5. QED
  BY <1>1, <1>2, <1>3, <1>4

\* The places before and after a handled event: what it states comes behind the pipe.
Handled(first, at, m, p, e, first2, bt, q, d) ==
    /\ Named(first, at) /\ Streamed(first, at, m, p, e) /\ first2 = pump'.seq - at[1]
    /\ p \in [0..Len(Pipe) -> 0..Len(said[m])] /\ e \in [0..Len(events) -> 0..Len(said[m])]
    /\ bt \in [0..Len(events) - 1 -> 0..pi.message]
    /\ bt = [i \in 0..Len(events) - 1 |-> at[i + 1]]
    /\ q \in [0..Len(Pipe) + Len(out') -> 0..Len(said[m])]
    /\ q = [i \in 0..Len(Pipe) + Len(out') |-> IF i <= Len(Pipe) THEN p[i] ELSE e[1]]
    /\ d \in [0..Len(events) - 1 -> 0..Len(said[m])]
    /\ d = [i \in 0..Len(events) - 1 |-> e[i + 1]]

LEMMA StreamedHandle ==
    ASSUME Types, Types', Handle, NEW first \in {0, 1}, NEW first2 \in {0, 1},
           NEW m \in Messages, NEW at, NEW p, NEW e, NEW bt, NEW q, NEW d,
           Handled(first, at, m, p, e, first2, bt, q, d)
    PROVE  Streamed(first2, bt, m, q, d)'
<1>0. /\ Named(first, at) /\ Streamed(first, at, m, p, e) /\ first2 = pump'.seq - at[1]
      /\ p \in [0..Len(Pipe) -> 0..Len(said[m])] /\ e \in [0..Len(events) -> 0..Len(said[m])]
      /\ bt \in [0..Len(events) - 1 -> 0..pi.message]
      /\ bt = [i \in 0..Len(events) - 1 |-> at[i + 1]]
      /\ q \in [0..Len(Pipe) + Len(out') -> 0..Len(said[m])]
      /\ q = [i \in 0..Len(Pipe) + Len(out') |-> IF i <= Len(Pipe) THEN p[i] ELSE e[1]]
      /\ d \in [0..Len(events) - 1 -> 0..Len(said[m])]
      /\ d = [i \in 0..Len(events) - 1 |-> e[i + 1]]
  BY DEF Handled
<1> USE <1>0
<1> DEFINE ev == events[1]
           id2 == m + first2
           text == said[m]
<1>1. /\ events # <<>> /\ events' = Tail(events) /\ Mints(ev) /\ States(ev) /\ out = <<>>
      /\ UNCHANGED <<pi, said, failed, chan, shown, answered, late>>
      /\ ev \in EventRecords
  BY HandleStates
<1>2. /\ pump'.seq = at[1] + first2 /\ pump.seq <= pump'.seq
      /\ first2 = first \/ pump.seq = 0
      /\ Follows(ev, at[0], at[1]) /\ 1 \in 1..Len(events)
      /\ ev.type \in {"delta", "end"} => first2 = first
  BY NextFirst
<1> HIDE DEF ev
<1>3. /\ text \in Seq(OfPi) /\ Len(text) \in Nat
      /\ Len(Pipe) \in Nat /\ Len(events) \in Nat
      /\ \A i \in 0..Len(Pipe) : p[i] \in Nat
      /\ \A i \in 0..Len(events) : e[i] \in Nat
      /\ m \in Nat
  BY StreamedHere
<1>4. at[1] \in Nat /\ pump.seq \in Nat /\ pump'.seq \in Nat
  <2>1. \A i \in 0..Len(events) : at[i] \in Nat
    BY NamedHere
  <2>2. pump.seq \in 0..MaxMessages + 1
    BY NamedHere
  <2>3. pump'.seq \in 0..MaxMessages + 1
    BY <1>1 DEF Mints, Pumps
  <2>4. QED
    BY <2>1, <2>2, <2>3, <1>2, <1>3, Sets
<1>5. /\ out' \in Seq(Facts) /\ Len(out') \in Nat /\ Len(out') <= 2
      /\ \A j \in 1..Len(out') : Stated(out'[j], ev)
      /\ ev.type = "delta" => Len(out') = 1 /\ Puts(ev.piece)
  BY <1>1 DEF States
<1>6. /\ Len(Pipe') = Len(Pipe) + Len(out')
      /\ \A i \in 1..Len(Pipe) : Pipe'[i] = Pipe[i]
      /\ \A j \in 1..Len(out') : Pipe'[Len(Pipe) + j] = out'[j]
      /\ \A i \in 1..Len(Pipe') : i \in 1..Len(Pipe) \/ \E j \in 1..Len(out') : i = Len(Pipe) + j
  BY <1>1, <1>5, PipeGrows
<1>7. Len(events') = Len(events) - 1
      /\ \A i \in 1..Len(events') : events'[i] = events[i + 1] /\ i + 1 \in 1..Len(events)
  BY <1>1, <1>3 DEF Types
<1>8. /\ ev.type = "delta" /\ at[1] = m => e[1] = e[0] + 1 /\ ev.piece = text[e[1]]
      /\ ~(ev.type = "delta" /\ at[1] = m) => e[1] = e[0]
      /\ ev.type = "end" /\ at[1] = m => e[1] = Len(text)
  <2>1. Tells(events[1], m, at[1], said[m], e[1 - 1], e[1])
    BY <1>2 DEF Streamed
  <2>2. 1 - 1 = 0
    OBVIOUS
  <2>3. QED
    BY <2>1, <2>2 DEF Tells, ev
<1>9. e[0] = p[Len(Pipe)] /\ e[Len(events)] = Len(text)
  BY DEF Streamed
<1>10. /\ \A i \in 0..Len(Pipe) : q[i] = p[i]
       /\ \A j \in 1..Len(out') : q[Len(Pipe) + j] = e[1]
  <2>1. \A i \in 0..Len(Pipe) : i \in 0..Len(Pipe) + Len(out') /\ i <= Len(Pipe)
    BY <1>3, <1>5
  <2>2. \A j \in 1..Len(out') : /\ Len(Pipe) + j \in 0..Len(Pipe) + Len(out')
                                /\ ~(Len(Pipe) + j <= Len(Pipe))
    BY <1>3, <1>5
  <2>3. QED
    BY <2>1, <2>2
<1>11. ASSUME NEW c \in Clients PROVE IsFirst(Only(shown'[c][id2], OfPi), text, q[0])
  <2>1. IsFirst(Only(shown[c][m + first], OfPi), text, p[0])
    BY DEF Streamed
  <2>2. q[0] = p[0]
    BY <1>3, <1>10
  <2>3. CASE first2 = first
    BY <2>1, <2>2, <2>3, <1>1
  <2>4. CASE pump.seq = 0
    <3>1. ASSUME NEW id \in MessageIds PROVE shown[c][id] = <<>>
      <4>1. id > pump.seq
        BY <2>4, Sets DEF MessageIds
      <4>2. QED
        BY <4>1 DEF Named
    <3>2. id2 \in MessageIds /\ m + first \in MessageIds
      BY Sets DEF Messages, MessageIds
    <3>3. shown'[c][id2] = shown[c][m + first]
      BY <3>1, <3>2, <1>1
    <3>4. QED
      BY <2>1, <2>2, <3>3
  <2>5. QED
    BY <2>3, <2>4, <1>2
<1>12. ASSUME NEW i \in 1..Len(Pipe') PROVE Moves(Pipe'[i], id2, text, q[i - 1], q[i])
  <2>1. CASE i \in 1..Len(Pipe)
    <3>1. Moves(Pipe[i], m + first, text, p[i - 1], p[i])
      BY <2>1 DEF Streamed
    <3>2. q[i] = p[i] /\ q[i - 1] = p[i - 1]
      <4>1. i \in 0..Len(Pipe) /\ i - 1 \in 0..Len(Pipe)
        BY <2>1, <1>3
      <4>2. QED
        BY <4>1, <1>10
    <3>3. CASE first2 = first
      BY <3>1, <3>2, <3>3, <2>1, <1>6
    <3>4. CASE pump.seq = 0
      <4>1. Fits(Pipe[i], first)
        BY <2>1 DEF Named
      <4>2. Pipe[i].fact = "flush"
        BY <4>1, <3>4 DEF Fits
      <4>3. QED
        BY <3>1, <3>2, <4>2, <2>1, <1>6 DEF Moves, Carries
    <3>5. QED
      BY <3>3, <3>4, <1>2
  <2>2. CASE i \notin 1..Len(Pipe)
    <3>1. PICK j \in 1..Len(out') : i = Len(Pipe) + j
      BY <2>2, <1>6
    <3> DEFINE f == out'[j]
    <3>2. Pipe'[i] = f /\ Stated(f, ev) /\ q[i] = e[1]
      BY <3>1, <1>5, <1>6, <1>10
    <3>3. q[i - 1] = IF j = 1 THEN e[0] ELSE e[1]
      <4>1. CASE j = 1
        <5>1. i - 1 = Len(Pipe) /\ i - 1 \in 0..Len(Pipe)
          BY <3>1, <4>1, <1>3
        <5>2. QED
          BY <5>1, <4>1, <1>9, <1>10
      <4>2. CASE j # 1
        <5>1. j - 1 \in 1..Len(out') /\ i - 1 = Len(Pipe) + (j - 1)
          BY <3>1, <4>2, <1>3, <1>5
        <5>2. QED
          BY <5>1, <4>2, <1>10
      <4>3. QED
        BY <4>1, <4>2
    <3> HIDE DEF f
    <3>4. ASSUME Carries(f, id2) PROVE q[i] = q[i - 1] + 1 /\ f.pieces[1] = text[q[i]]
      <4>1. f.fact = "chunk" /\ f.id = id2 /\ f.pieces[1] \in OfPi
        BY <3>4 DEF Carries
      <4>2. ev.type = "delta" /\ f.pieces[1] = ev.piece /\ f.id = pump'.seq
        BY <4>1, <3>2 DEF Stated
      <4>3. at[1] = m /\ j = 1
        <5>1. m + first2 = at[1] + first2
          BY <4>1, <4>2, <1>2
        <5>2. at[1] = m
          BY <5>1, <1>3, <1>4
        <5>3. Len(out') = 1
          BY <4>2, <1>5
        <5>4. QED
          BY <5>2, <5>3
      <4>4. QED
        BY <4>2, <4>3, <3>2, <3>3, <1>8
    <3>5. ASSUME ~Carries(f, id2) PROVE q[i] = q[i - 1]
      <4>1. CASE j # 1
        BY <4>1, <3>2, <3>3
      <4>2. CASE j = 1 /\ ~(ev.type = "delta" /\ at[1] = m)
        BY <4>2, <3>2, <3>3, <1>8
      <4>3. CASE j = 1 /\ ev.type = "delta" /\ at[1] = m
        <5>1. f.fact = "chunk" /\ f.pieces = <<ev.piece>>
          <6>1. PICK k \in 1..Len(out') : out'[k].fact = "chunk" /\ out'[k].pieces = <<ev.piece>>
            BY <4>3, <1>5 DEF Puts
          <6>2. k = j
            <7>1. Len(out') = 1
              BY <4>3, <1>5
            <7>2. QED
              BY <7>1
          <6>3. QED
            BY <6>1, <6>2 DEF f
        <5>2. ev.piece \in OfPi
          BY <4>3, <1>1 DEF EventRecords
        <5>3. f.id = id2
          BY <5>1, <3>2, <4>3, <1>2 DEF Stated
        <5>4. f.pieces[1] \in OfPi
          BY <5>1, <5>2
        <5>5. QED
          BY <5>1, <5>3, <5>4, <3>5 DEF Carries
      <4>4. QED
        BY <4>1, <4>2, <4>3
    <3>6. ASSUME f.fact = "patch", f.id = id2 PROVE q[i] = Len(text)
      <4>1. ev.type = "end" /\ f.id = pump'.seq
        BY <3>2, <3>6 DEF Stated
      <4>2. at[1] = m
        <5>1. m + first2 = at[1] + first2
          BY <4>1, <3>6, <1>2
        <5>2. QED
          BY <5>1, <1>3, <1>4
      <4>3. QED
        BY <4>1, <4>2, <3>2, <1>8
    <3>7. QED
      BY <3>2, <3>4, <3>5, <3>6 DEF Moves
  <2>3. QED
    BY <2>1, <2>2
<1>13. d[0] = q[Len(Pipe')]
  <2>1. d[0] = e[1]
    <3>1. 0 \in 0..Len(events) - 1 /\ 0 + 1 = 1
      BY <1>2, <1>3
    <3>2. QED
      BY <3>1
  <2>2. CASE Len(out') = 0
    <3>1. Len(Pipe') = Len(Pipe) /\ Len(Pipe) \in 0..Len(Pipe)
      BY <2>2, <1>3, <1>6
    <3>2. ev.type # "delta"
      BY <2>2, <1>5
    <3>3. QED
      BY <2>1, <3>1, <3>2, <1>8, <1>9, <1>10
  <2>3. CASE Len(out') # 0
    <3>1. Len(out') \in 1..Len(out')
      BY <2>3, <1>5
    <3>2. QED
      BY <2>1, <3>1, <1>6, <1>10
  <2>4. QED
    BY <2>2, <2>3
<1>14. ASSUME NEW i \in 1..Len(events')
       PROVE  Tells(events'[i], m, bt[i], text, d[i - 1], d[i])
  <2>1. events'[i] = events[i + 1] /\ i + 1 \in 1..Len(events)
    BY <1>7
  <2>2. bt[i] = at[i + 1] /\ d[i] = e[i + 1] /\ d[i - 1] = e[i]
    <3>1. i \in 0..Len(events) - 1 /\ i - 1 \in 0..Len(events) - 1 /\ (i - 1) + 1 = i
      BY <1>3, <1>7
    <3>2. QED
      BY <3>1
  <2>3. Tells(events[i + 1], m, at[i + 1], said[m], e[i], e[i + 1])
    <3>1. (i + 1) - 1 = i
      OBVIOUS
    <3>2. QED
      BY <2>1, <3>1 DEF Streamed
  <2>4. QED
    BY <2>1, <2>2, <2>3
<1>15. d[Len(events')] = Len(text)
  <2>1. Len(events') \in 0..Len(events) - 1 /\ Len(events') + 1 = Len(events)
    BY <1>2, <1>3, <1>7
  <2>2. QED
    BY <2>1, <1>9
<1>16. said' = said
  BY <1>1
<1>17. q \in [0..Len(Pipe') -> 0..Len(said[m])] /\ d \in [0..Len(events') -> 0..Len(said[m])]
  BY <1>6, <1>7
<1>18. QED
  BY <1>11, <1>12, <1>13, <1>14, <1>15, <1>16, <1>17 DEF Streamed

LEMMA StreamedSame ==
    ASSUME Types, Turns, NEW first \in {0, 1}, NEW at, Send \/ StartTurn \/ UNCHANGED vars,
           NEW m \in Messages, NEW p, NEW e, Streamed(first, at, m, p, e)
    PROVE  Streamed(first, at, m, p, e)'
<1>1. Pipe' = Pipe /\ UNCHANGED <<said, events, shown>>
  <2>1. CASE Send
    BY <2>1, PipeKept
  <2>2. CASE StartTurn
    <3>1. PICK n \in 0..MaxTurns : StartsTurn(n)
      BY <2>2, StartTurnIs
    <3>2. QED
      BY <3>1 DEF StartsTurn, Pipe
  <2>3. CASE UNCHANGED vars
    BY <2>3 DEF vars, Pipe
  <2>4. QED
    BY <2>1, <2>2, <2>3
<1>2. QED
  BY <1>1 DEF Streamed

\* The facts that can fail to be sent carry no text and no error.
LEMMA StreamedDeliver ==
    ASSUME Unsendable \cap (Texts \cup Errors) = {},
           Types, Types', NEW first \in {0, 1}, NEW at, Named(first, at), Deliver,
           NEW m \in Messages,
           NEW p \in [0..Len(Pipe) -> 0..Len(said[m])],
           NEW e \in [0..Len(events) -> 0..Len(said[m])], Streamed(first, at, m, p, e),
           NEW q \in [0..Len(Pipe) - 1 -> 0..Len(said[m])],
           q = [i \in 0..Len(Pipe) - 1 |-> p[i + 1]]
    PROVE  Streamed(first, at, m, q, e)'
<1> DEFINE f == Head(chan)
           id == m + first
           text == said[m]
<1>1. Delivers(f)
  BY DeliverIs
<1> HIDE DEF f
<1>2. /\ 1 \in 1..Len(Pipe) /\ f = Pipe[1] /\ f \in Facts
      /\ UNCHANGED <<pi, said, failed, events, out>>
      /\ Len(Pipe') = Len(Pipe) - 1 /\ \A i \in 1..Len(Pipe') : Pipe'[i] = Pipe[i + 1]
      /\ \A c \in Clients : shown'[c][id] = Screen(f, c, id)
  <2>1. id \in MessageIds
    BY Sets DEF Messages, MessageIds
  <2>2. QED
    BY <1>1, <2>1 DEF Delivers
<1>3. /\ text \in Seq(OfPi) /\ Len(text) \in Nat
      /\ Len(Pipe) \in Nat /\ Len(events) \in Nat
      /\ \A i \in 0..Len(Pipe) : p[i] \in Nat
      /\ id \in MessageIds /\ m \in Nat
  BY StreamedHere
<1>4. Moves(f, id, text, p[0], p[1])
  <2>1. Moves(Pipe[1], id, text, p[1 - 1], p[1])
    BY <1>2 DEF Streamed
  <2>2. 1 - 1 = 0
    OBVIOUS
  <2>3. QED
    BY <2>1, <2>2, <1>2
<1>5. Fits(f, first)
  BY <1>2 DEF Named
<1>6. q[0] = p[1] /\ q[Len(Pipe')] = p[Len(Pipe)]
  <2>1. 0 \in 0..Len(Pipe) - 1 /\ 0 + 1 = 1
        /\ Len(Pipe') \in 0..Len(Pipe) - 1 /\ Len(Pipe') + 1 = Len(Pipe)
    BY <1>2, <1>3
  <2>2. QED
    BY <2>1
<1>7. ASSUME NEW c \in Clients PROVE IsFirst(Only(shown'[c][id], OfPi), text, q[0])
  <2> DEFINE s == shown[c][id]
             x == f.pieces[1]
  <2>1. /\ IsFirst(Only(s, OfPi), text, p[0]) /\ s \in Seq(Pieces)
        /\ p[0] \in Nat /\ 1 \in 0..Len(Pipe)
        /\ p[1] \in 0..Len(text)
    <3>1. 0 \in 0..Len(Pipe) /\ 1 \in 0..Len(Pipe)
      BY <1>2, <1>3
    <3>2. p[0] \in Nat /\ p[1] \in 0..Len(text)
      BY <3>1, <1>3
    <3>3. s \in Seq(Pieces)
      BY <1>3 DEF Types
    <3>4. IsFirst(Only(s, OfPi), text, p[0])
      BY DEF Streamed
    <3>5. QED
      BY <3>1, <3>2, <3>3, <3>4
  <2>2. f.fact \in {"chunk", "patch", "flush"}
    BY <1>2 DEF Facts
  <2>3. CASE Carries(f, id)
    <3>1. f.fact = "chunk" /\ f.id = id /\ x \in OfPi
      BY <2>3 DEF Carries
    <3>2. p[1] = p[0] + 1 /\ x = text[p[1]]
      BY <2>3, <1>4 DEF Moves
    <3>3. ~CannotSend(f)
      <4>1. p[1] \in 1..Len(text)
        BY <2>1, <3>2
      <4>2. x.text \in Texts
        BY <3>2, <4>1 DEF Named
      <4>3. QED
        BY <4>2 DEF CannotSend
    <3>4. shown'[c][id] = Append(s, x)
      BY <3>1, <3>3, <1>2 DEF Screen
    <3>5. x \in Pieces
      BY <3>1, Sets
    <3> HIDE DEF s, x, text
    <3>6. IsFirst(Only(Append(s, x), OfPi), text, p[0] + 1)
      BY <3>1, <3>2, <3>5, <2>1, <1>3, NextPiece
    <3>7. QED
      BY <3>2, <3>4, <3>6, <1>6
  <2>4. CASE ~Carries(f, id)
    <3>1. p[1] = p[0]
      BY <2>4, <1>4 DEF Moves
    <3>2. CASE shown'[c][id] = s
      BY <3>1, <3>2, <2>1, <1>6
    <3>3. CASE shown'[c][id] # s
      <4>1. f.fact # "flush" /\ f.id = id
            /\ shown'[c][id] = IF f.fact = "chunk" THEN Append(s, x) ELSE f.pieces
        BY <3>3, <1>2 DEF Screen
      <4>2. CASE f.fact = "chunk"
        <5>1. x \in Pieces /\ x \notin OfPi
          <6>1. Len(f.pieces) = 1 /\ f.pieces \in Seq(Pieces)
            BY <4>2, <1>2, <1>5 DEF Fits, Facts
          <6>2. x \notin OfPi
            BY <2>4, <4>1, <4>2 DEF Carries
          <6>3. QED
            BY <6>1, <6>2
        <5>2. shown'[c][id] = Append(s, x)
          BY <4>1, <4>2
        <5> HIDE DEF s, x, text
        <5>3. IsFirst(Only(Append(s, x), OfPi), text, p[0])
          BY <5>1, <2>1, <1>3, NextPiece
        <5>4. QED
          BY <5>2, <5>3, <3>1, <1>6
      <4>3. CASE f.fact = "patch"
        <5>1. f.pieces = said[f.id - first] /\ f.id - first = m
          BY <4>1, <4>3, <1>3, <1>5 DEF Fits
        <5>2. shown'[c][id] = text /\ p[1] = Len(text)
          BY <5>1, <4>1, <4>3, <1>4 DEF Moves
        <5>3. Only(text, OfPi) = text
          BY <1>3, OnlyAll
        <5>4. QED
          BY <5>2, <5>3, <1>6 DEF IsFirst
      <4>4. QED
        BY <4>1, <4>2, <4>3, <2>2
    <3>4. QED
      BY <3>2, <3>3
  <2>5. QED
    BY <2>3, <2>4
<1>8. ASSUME NEW i \in 1..Len(Pipe') PROVE Moves(Pipe'[i], id, text, q[i - 1], q[i])
  <2>1. Pipe'[i] = Pipe[i + 1] /\ i + 1 \in 1..Len(Pipe)
    BY <1>2, <1>3
  <2>2. q[i] = p[i + 1] /\ q[i - 1] = p[i]
    <3>1. i \in 0..Len(Pipe) - 1 /\ i - 1 \in 0..Len(Pipe) - 1 /\ (i - 1) + 1 = i
      BY <1>2, <1>3
    <3>2. QED
      BY <3>1
  <2>3. Moves(Pipe[i + 1], id, text, p[i], p[i + 1])
    <3>1. (i + 1) - 1 = i
      OBVIOUS
    <3>2. QED
      BY <2>1, <3>1 DEF Streamed
  <2>4. QED
    BY <2>1, <2>2, <2>3
<1>9. q \in [0..Len(Pipe') -> 0..Len(said[m])]
  BY <1>2
<1>10. e[0] = q[Len(Pipe')]
  BY <1>6 DEF Streamed
<1>11. said' = said /\ events' = events
  BY <1>2
<1>12. QED
  BY <1>7, <1>8, <1>9, <1>10, <1>11 DEF Streamed

LEMMA StreamedPi ==
    ASSUME Types, Types', NEW first \in {0, 1}, NEW at, Named(first, at),
           NEW ev \in EventRecords, Adds(ev),
           NEW bt \in [0..Len(events) + 1 -> 0..pi'.message],
           bt = [i \in 0..Len(events) + 1 |-> IF i <= Len(events) THEN at[i] ELSE pi'.message],
           NEW m \in Messages,
           NEW p \in [0..Len(Pipe) -> 0..Len(said[m])],
           NEW e \in [0..Len(events) -> 0..Len(said[m])], Streamed(first, at, m, p, e),
           NEW d \in [0..Len(events) + 1 -> 0..Len(said'[m])],
           d = [i \in 0..Len(events) + 1 |-> IF i <= Len(events) THEN e[i] ELSE Len(said'[m])]
    PROVE  Streamed(first, bt, m, p, d)'
<1> DEFINE id == m + first
           text == said[m]
           current == said'[m]
           n == Len(events)
<1>1. /\ events' = Append(events, ev) /\ pump' = pump /\ shown' = shown /\ Pipe' = Pipe
  BY DEF Adds, Pipe
<1>2. /\ text \in Seq(OfPi) /\ Len(text) \in Nat
      /\ Len(Pipe) \in Nat /\ n \in Nat
      /\ \A i \in 0..Len(Pipe) : p[i] \in Nat
      /\ \A i \in 0..n : e[i] \in Nat
      /\ id \in MessageIds /\ m \in Nat
  BY StreamedHere
<1>3. /\ Len(events') = n + 1 /\ events'[n + 1] = ev
      /\ \A i \in 1..n : events'[i] = events[i]
  BY <1>1 DEF Types
<1>4. /\ ev.type = "delta" /\ pi.message = m =>
            /\ current = Append(text, ev.piece) /\ ev.piece \in OfPi /\ pi.open
      /\ ~(ev.type = "delta" /\ pi.message = m) => current = text
  <2>1. CASE ev.type = "delta"
    <3>1. said' = [said EXCEPT ![pi.message] = Append(@, ev.piece)] /\ pi.open
      BY <2>1 DEF Adds
    <3>2. ev.piece \in OfPi
      BY <2>1 DEF EventRecords
    <3>3. said'[m] = IF pi.message = m THEN Append(said[m], ev.piece) ELSE said[m]
      BY <3>1 DEF Types
    <3>4. CASE pi.message = m
      <4>1. current = Append(text, ev.piece)
        BY <3>3, <3>4
      <4>2. QED
        BY <4>1, <3>1, <3>2, <3>4, <2>1
    <3>5. CASE pi.message # m
      <4>1. current = text
        BY <3>3, <3>5
      <4>2. QED
        BY <4>1, <3>5
    <3>6. QED
      BY <3>4, <3>5
  <2>2. CASE ev.type # "delta"
    BY <2>2 DEF Adds
  <2>3. QED
    BY <2>1, <2>2
<1>5. /\ current \in Seq(OfPi) /\ Len(current) \in Nat /\ Len(text) <= Len(current)
      /\ \A k \in 1..Len(text) : current[k] = text[k]
      /\ ev.type = "delta" /\ pi.message = m => Len(current) = Len(text) + 1 /\ current[Len(current)] = ev.piece
  <2> HIDE DEF text, current
  <2>1. CASE ev.type = "delta" /\ pi.message = m
    <3>1. current = Append(text, ev.piece) /\ ev.piece \in OfPi /\ text \in Seq(OfPi)
      BY <2>1, <1>2, <1>4
    <3> DEFINE piece == ev.piece
    <3> HIDE DEF piece
    <3>2. piece \in OfPi /\ current = Append(text, piece)
      BY <3>1 DEF piece
    <3>3. /\ current \in Seq(OfPi) /\ Len(current) = Len(text) + 1 /\ current[Len(text) + 1] = piece
          /\ \A k \in 1..Len(text) : current[k] = text[k]
      BY <3>1, <3>2
    <3>4. QED
      BY <2>1, <3>3, <1>2 DEF piece
  <2>2. CASE ~(ev.type = "delta" /\ pi.message = m)
    BY <2>2, <1>2, <1>4
  <2>3. QED
    BY <2>1, <2>2
<1>6. p \in [0..Len(Pipe') -> 0..Len(current)] /\ d \in [0..Len(events') -> 0..Len(current)]
  <2>1. 0..Len(text) \subseteq 0..Len(current)
    BY <1>2, <1>5
  <2>2. p \in [0..Len(Pipe) -> 0..Len(current)]
    BY <2>1
  <2>3. QED
    BY <2>2, <1>1, <1>3
<1>7. /\ \A i \in 0..n : d[i] = e[i]
      /\ d[n + 1] = Len(current)
  <2>1. \A i \in 0..n : i \in 0..n + 1 /\ i <= n
    BY <1>2
  <2>2. n + 1 \in 0..n + 1 /\ ~(n + 1 <= n)
    BY <1>2
  <2>3. QED
    BY <2>1, <2>2
<1>8. ASSUME NEW c \in Clients PROVE IsFirst(Only(shown'[c][id], OfPi), current, p[0])
  <2>1. IsFirst(Only(shown[c][id], OfPi), text, p[0])
    BY DEF Streamed
  <2>2. 0 \in 0..Len(Pipe) /\ p[0] \in 0..Len(text)
    BY <1>2
  <2>3. \A k \in 1..p[0] : k \in 1..Len(text)
    BY <2>2, <1>2
  <2> HIDE DEF text, current
  <2>4. QED
    BY <2>1, <2>3, <1>1, <1>5 DEF IsFirst
<1>9. ASSUME NEW i \in 1..Len(Pipe') PROVE Moves(Pipe'[i], id, current, p[i - 1], p[i])
  <2>1. Moves(Pipe[i], id, text, p[i - 1], p[i]) /\ Pipe'[i] = Pipe[i] /\ i \in 1..Len(Pipe)
    BY <1>1 DEF Streamed
  <2>2. i \in 0..Len(Pipe) /\ i - 1 \in 0..Len(Pipe)
    BY <2>1, <1>2
  <2>3. p[i] \in 0..Len(text) /\ p[i - 1] \in Nat
    BY <2>2, <1>2
  <2> DEFINE f == Pipe[i]
  <2>4. ASSUME f.fact = "patch", f.id = id PROVE current = text
    <3>1. Fits(f, first)
      BY <2>1 DEF Named
    <3>2. Over(f.id - first) /\ f.id - first = m
      BY <3>1, <2>4, <1>2 DEF Fits
    <3>3. Over(m)
      BY <3>2
    <3>4. CASE ev.type = "delta" /\ pi.message = m
      BY <3>3, <3>4, <1>2, <1>4 DEF Over
    <3>5. QED
      BY <3>4, <1>4
  <2>5. ASSUME Carries(f, id) PROVE p[i] = p[i - 1] + 1 /\ f.pieces[1] = current[p[i]]
    <3>1. p[i] = p[i - 1] + 1 /\ f.pieces[1] = text[p[i]]
      BY <2>1, <2>5 DEF Moves
    <3>2. p[i] \in 1..Len(text)
      BY <3>1, <2>3, <1>2
    <3>3. current[p[i]] = text[p[i]]
      BY <3>2, <1>5
    <3>4. QED
      BY <3>1, <3>3
  <2> HIDE DEF text, current
  <2>6. QED
    BY <2>1, <2>4, <2>5 DEF Moves
<1>10. ASSUME NEW i \in 1..Len(events')
       PROVE  Tells(events'[i], m, bt[i], current, d[i - 1], d[i])
  <2>1. CASE i \in 1..n
    <3>1. i \in 0..n + 1 /\ i \in 0..n /\ i - 1 \in 0..n /\ i <= n
      BY <2>1, <1>2
    <3>2. bt[i] = at[i] /\ d[i] = e[i] /\ d[i - 1] = e[i - 1] /\ events'[i] = events[i]
      BY <3>1, <2>1, <1>3, <1>7
    <3>3. Tells(events[i], m, at[i], text, e[i - 1], e[i])
      BY <2>1 DEF Streamed
    <3>4. e[i] \in 0..Len(text) /\ e[i - 1] \in Nat
      BY <3>1, <1>2
    <3> DEFINE v == events[i]
    <3>5. ASSUME v.type = "end", at[i] = m PROVE current = text
      <4>1. Follows(v, at[i - 1], at[i])
        BY <2>1 DEF Named
      <4>2. Over(m)
        BY <4>1, <3>5 DEF Follows
      <4>3. CASE ev.type = "delta" /\ pi.message = m
        BY <4>2, <4>3, <1>2, <1>4 DEF Over
      <4>4. QED
        BY <4>3, <1>4
    <3>6. ASSUME v.type = "delta", at[i] = m PROVE e[i] = e[i - 1] + 1 /\ v.piece = current[e[i]]
      <4>1. e[i] = e[i - 1] + 1 /\ v.piece = text[e[i]]
        BY <3>3, <3>6 DEF Tells
      <4>2. e[i] \in 1..Len(text)
        BY <4>1, <3>4, <1>2
      <4>3. current[e[i]] = text[e[i]]
        BY <4>2, <1>5
      <4>4. QED
        BY <4>1, <4>3
    <3> HIDE DEF text, current
    <3>7. QED
      BY <3>2, <3>3, <3>5, <3>6 DEF Tells
  <2>2. CASE i \notin 1..n
    <3>1. i = n + 1 /\ i - 1 = n /\ n \in 0..n
      BY <2>2, <1>2, <1>3
    <3>2. bt[i] = pi'.message
      <4>1. i \in 0..n + 1 /\ ~(i <= n)
        BY <3>1, <1>2
      <4>2. QED
        BY <4>1
    <3>3. d[i] = Len(current) /\ d[i - 1] = Len(text) /\ events'[i] = ev
      <4>1. e[n] = Len(text)
        BY DEF Streamed
      <4>2. QED
        BY <4>1, <3>1, <1>3, <1>7
    <3>4. ev.type = "delta" => pi'.message = pi.message
      BY DEF Adds
    <3>5. CASE ev.type = "delta" /\ pi.message = m
      <4> HIDE DEF text, current
      <4>1. QED
        BY <3>2, <3>3, <3>4, <3>5, <1>5 DEF Tells
    <3>6. CASE ~(ev.type = "delta" /\ pi.message = m)
      <4>1. current = text
        BY <3>6, <1>4
      <4> HIDE DEF text, current
      <4>2. QED
        BY <4>1, <3>2, <3>3, <3>4, <3>6 DEF Tells
    <3>7. QED
      BY <3>5, <3>6
  <2>3. QED
    BY <2>1, <2>2
<1>11. d[0] = p[Len(Pipe')] /\ d[Len(events')] = Len(current)
  <2>1. e[0] = p[Len(Pipe)] /\ 0 \in 0..n
    BY <1>2 DEF Streamed
  <2>2. QED
    BY <2>1, <1>1, <1>3, <1>7
<1>12. QED
  BY <1>6, <1>8, <1>9, <1>10, <1>11 DEF Streamed

-----------------------------------------------------------------------------
\* A failure that was stated is not lost.
LEMMA FailureIs ==
    ASSUME NEW e \in Failures
    PROVE  /\ e = Error(e.of, e.text) /\ e.text \in Errors /\ e.of \in 0..MaxTurns
           /\ e \in Pieces /\ e \notin OfPi
<1>1. /\ e.text \in Errors /\ e.of \in 0..MaxTurns
      /\ e = [is |-> "error", of |-> e.of, text |-> e.text]
  BY DEF Failures
<1>2. e = Error(e.of, e.text)
  BY <1>1 DEF Error
<1>3. Error(e.of, e.text) \in Pieces /\ Error(e.of, e.text) \notin OfPi
  BY <1>1, PiecesMade
<1>4. QED
  BY <1>1, <1>2, <1>3

LEMMA SentKept ==
    ASSUME Unsendable \cap (Texts \cup Errors) = {},
           Types, Types', Turns, NEW first \in {0, 1}, NEW at, Named(first, at), [Next]_vars,
           NEW e \in Failures, Sent(e)
    PROVE  Sent(e)'
<1>1. CASE Handle
  <2> DEFINE ev == Head(events)
  <2>1. out = <<>> /\ chan' = chan /\ shown' = shown /\ States(ev)
    BY <1>1, HandleStates
  <2>2. /\ Len(Pipe') = Len(Pipe) + Len(out') /\ out' \in Seq(Facts)
        /\ \A i \in 1..Len(Pipe) : Pipe'[i] = Pipe[i]
    BY <2>1, PipeGrows DEF States
  <2>3. \A i \in 1..Len(Pipe) : i \in 1..Len(Pipe')
    BY <2>2, PipeIs
  <2>4. CASE Visible("v1", e)
    BY <2>1, <2>4 DEF Visible, Sent
  <2>5. CASE \E i \in 1..Len(Pipe) : Pipe[i].fact = "chunk" /\ Pipe[i].pieces = <<e>>
    BY <2>2, <2>3, <2>5 DEF Sent
  <2>6. QED
    BY <2>4, <2>5 DEF Sent
<1>2. CASE Send
  BY <1>2, PipeKept DEF Sent, Visible
<1>3. CASE Deliver
  <2> DEFINE f == Head(chan)
  <2>1. Delivers(f)
    BY <1>3, DeliverIs
  <2> HIDE DEF f
  <2>2. /\ 1 \in 1..Len(Pipe) /\ f = Pipe[1] /\ f \in Facts
        /\ Len(Pipe') = Len(Pipe) - 1 /\ \A i \in 1..Len(Pipe') : Pipe'[i] = Pipe[i + 1]
        /\ \A id \in MessageIds : shown'["v1"][id] = Screen(f, "v1", id)
    BY <2>1 DEF Delivers, Clients
  <2>3. Fits(f, first)
    BY <2>2 DEF Named
  <2>4. \A id \in MessageIds : shown["v1"][id] \in Seq(Pieces)
    BY DEF Types, Clients
  <2>5. CASE Visible("v1", e)
    <3>1. PICK id \in MessageIds : \E i \in DOMAIN shown["v1"][id] : shown["v1"][id][i] = e
      BY <2>5 DEF Visible
    <3>2. PICK i \in DOMAIN shown["v1"][id] : shown["v1"][id][i] = e
      BY <3>1
    <3> DEFINE s == shown["v1"][id]
               x == f.pieces[1]
    <3>3. s \in Seq(Pieces) /\ i \in DOMAIN s /\ s[i] = e
      BY <2>4, <3>2
    <3>4. f.fact \in {"chunk", "patch", "flush"}
      BY <2>2 DEF Facts
    <3>5. shown'["v1"][id] = s \/ (f.fact = "chunk" /\ shown'["v1"][id] = Append(s, x))
      BY <2>2, <3>4 DEF Screen
    <3>6. f.fact = "chunk" => x \in Pieces
      BY <2>2, <2>3 DEF Fits, Facts
    <3> HIDE DEF s, x
    <3>7. i \in DOMAIN shown'["v1"][id] /\ shown'["v1"][id][i] = e
      <4>1. CASE shown'["v1"][id] = s
        BY <4>1, <3>3
      <4>2. CASE f.fact = "chunk" /\ shown'["v1"][id] = Append(s, x)
        <5>1. x \in Pieces
          BY <4>2, <3>6
        <5>2. i \in DOMAIN Append(s, x) /\ Append(s, x)[i] = e
          BY <5>1, <3>3
        <5>3. QED
          BY <4>2, <5>2
      <4>3. QED
        BY <4>1, <4>2, <3>5
    <3>8. QED
      BY <3>7 DEF Sent, Visible
  <2>6. CASE \E i \in 1..Len(Pipe) : Pipe[i].fact = "chunk" /\ Pipe[i].pieces = <<e>>
    <3>1. PICK i \in 1..Len(Pipe) : Pipe[i].fact = "chunk" /\ Pipe[i].pieces = <<e>>
      BY <2>6
    <3>2. CASE i = 1
      <4>1. f.fact = "chunk" /\ f.pieces = <<e>> /\ f.pieces[1] = e
        BY <2>2, <3>1, <3>2
      <4>2. ~CannotSend(f)
        <5>1. e.text \in Errors
          BY FailureIs
        <5>2. QED
          BY <4>1, <5>1 DEF CannotSend
      <4>3. f.id \in MessageIds
        <5>1. pump.seq \in 0..MaxMessages + 1
          BY DEF Types, Pumps
        <5>2. QED
          BY <2>3, <4>1, <5>1, Sets DEF Fits, MessageIds
      <4> DEFINE s == shown["v1"][f.id]
      <4>4. shown'["v1"][f.id] = Append(s, e) /\ s \in Seq(Pieces) /\ e \in Pieces
        BY <4>1, <4>2, <4>3, <2>2, <2>4, FailureIs DEF Screen
      <4> HIDE DEF s
      <4>5. Len(s) + 1 \in DOMAIN shown'["v1"][f.id] /\ shown'["v1"][f.id][Len(s) + 1] = e
        BY <4>4
      <4>6. QED
        BY <4>3, <4>5 DEF Sent, Visible
    <3>3. CASE i # 1
      <4>1. i - 1 \in 1..Len(Pipe') /\ (i - 1) + 1 = i
        BY <2>2, <3>3, PipeIs
      <4>2. Pipe'[i - 1] = Pipe[i]
        BY <4>1, <2>2
      <4>3. QED
        BY <4>1, <4>2, <3>1 DEF Sent
    <3>4. QED
      BY <3>2, <3>3
  <2>7. QED
    BY <2>5, <2>6 DEF Sent
<1>4. CASE StartTurn
  <2>1. PICK n \in 0..MaxTurns : StartsTurn(n)
    BY <1>4, StartTurnIs
  <2>2. QED
    BY <2>1 DEF StartsTurn, Pipe, Sent, Visible
<1>5. CASE PiStep
  <2>1. pi.open => pi.message \in Messages
    BY DEF Named
  <2>2. PICK ev \in EventRecords : Adds(ev)
    BY <1>5, <2>1, PiAdds
  <2>3. QED
    BY <2>2 DEF Adds, Pipe, Sent, Visible
<1>6. CASE UNCHANGED vars
  BY <1>6 DEF vars, Pipe, Sent, Visible
<1>7. QED
  BY <1>1, <1>2, <1>3, <1>4, <1>5, <1>6 DEF Next, PiStep

LEMMA FailedKept ==
    ASSUME Unsendable \cap (Texts \cup Errors) = {},
           Types, Types', Turns, NEW first \in {0, 1}, NEW at, Named(first, at), [Next]_vars,
           Failed
    PROVE  Failed'
<1>0. pump \in Pumps /\ pump.turn \in 0..MaxTurns /\ failed \subseteq Failures
      /\ events \in Seq(EventRecords) /\ Len(events) \in Nat /\ pump.error \in Errors \cup {None}
  BY DEF Types, Pumps
<1>s. \A e \in Failures : Sent(e) => Sent(e)'
  BY SentKept
<1>e. ASSUME NEW turn \in 0..MaxTurns, NEW e \in Errors
      PROVE  Error(turn, e) \in Failures
  BY DEF Error, Failures
<1>1. CASE Handle
  <2> DEFINE ev == Head(events)
  <2>1. /\ events # <<>> /\ events' = Tail(events) /\ Mints(ev) /\ Errs(ev) /\ States(ev)
        /\ ev = events[1] /\ out = <<>> /\ chan' = chan /\ failed' = failed
    BY <1>1, HandleStates
  <2> HIDE DEF ev
  <2>2. pump'.turn = pump.turn /\ pump.turn # 0
    BY <2>1 DEF Mints, Turns
  <2>3. ASSUME NEW piece, Puts(piece) PROVE Sent(piece)'
    <3>1. PICK j \in 1..Len(out') : out'[j].fact = "chunk" /\ out'[j].pieces = <<piece>>
      BY <2>3 DEF Puts
    <3>2. /\ Len(Pipe') = Len(Pipe) + Len(out') /\ out' \in Seq(Facts)
          /\ Pipe'[Len(Pipe) + j] = out'[j]
      BY <2>1, PipeGrows DEF States
    <3>3. Len(Pipe) + j \in 1..Len(Pipe')
      BY <3>2, PipeIs
    <3>4. QED
      BY <3>1, <3>2, <3>3 DEF Sent
  <2>4. ASSUME NEW e \in Failures, pump'.error # None, e = Error(pump.turn, pump'.error)
        PROVE  Sent(e)'
    <3>1. CASE pump'.error = pump.error
      <4>1. Sent(e)
        BY <2>2, <2>4, <3>1 DEF Failed
      <4>2. QED
        BY <4>1, <1>s
    <3>2. CASE pump'.error # pump.error
      <4>1. Puts(e)
        BY <2>1, <2>4, <3>2 DEF Errs
      <4>2. QED
        BY <4>1, <2>3
    <3>3. QED
      BY <3>1, <3>2
  <2>5. ASSUME NEW e \in failed
        PROVE  Sent(e)' \/ (e.of = pump'.turn
                            /\ \E i \in 1..Len(events') : Reports(events'[i], e.text))
    <3>1. e \in Failures /\ e = Error(e.of, e.text) /\ e.text \in Errors
      BY <1>0, FailureIs
    <3>2. CASE Sent(e)
      BY <3>1, <3>2, <1>s
    <3>3. CASE e.of = pump.turn /\ \E i \in 1..Len(events) : Reports(events[i], e.text)
      <4>1. PICK i \in 1..Len(events) : Reports(events[i], e.text)
        BY <3>3
      <4>2. CASE i = 1
        <5>1. Reports(ev, e.text)
          BY <4>1, <4>2, <2>1
        <5>2. pump'.error = e.text
          BY <5>1, <3>1, <2>1 DEF Errs
        <5>3. pump'.error # None
          BY <5>2, <3>1, Sets
        <5>4. e = Error(pump.turn, pump'.error)
          BY <3>1, <3>3, <5>2
        <5>5. QED
          BY <5>3, <5>4, <3>1, <2>4
      <4>3. CASE i # 1
        <5>1. i - 1 \in 1..Len(events') /\ events'[i - 1] = events[i]
          BY <4>3, <2>1, <1>0
        <5>2. QED
          BY <5>1, <4>1, <3>3, <2>2
      <4>4. QED
        BY <4>2, <4>3
    <3>4. QED
      BY <3>2, <3>3 DEF Failed
  <2>6. pump.error' # None => Sent(Error(pump.turn, pump.error))'
    <3>1. ASSUME pump'.error # None PROVE Sent(Error(pump.turn, pump.error))'
      <4>1. pump'.error \in Errors
        <5>1. pump'.error \in Errors \cup {None}
          BY DEF Types, Pumps
        <5>2. QED
          BY <3>1, <5>1
      <4>2. PICK e \in Failures : e = Error(pump.turn, pump'.error)
        BY <4>1, <1>0, <1>e
      <4>3. Sent(e)'
        BY <3>1, <4>2, <2>4
      <4>4. QED
        BY <4>2, <4>3, <2>2
    <3>2. QED
      BY <3>1
  <2>7. QED
    BY <2>1, <2>2, <2>5, <2>6 DEF Failed, Reports
<1>2. CASE Send
  <2>1. UNCHANGED <<failed, events, pump>>
    BY <1>2, PipeKept
  <2>2. QED
    BY <2>1, <1>0, <1>s, <1>e DEF Failed, Reports
<1>3. CASE Deliver
  <2> DEFINE f == Head(chan)
  <2>1. Delivers(f)
    BY <1>3, DeliverIs
  <2> HIDE DEF f
  <2>2. CASE f.fact # "flush"
    <3>1. UNCHANGED <<failed, events, pump>>
      BY <2>1, <2>2 DEF Delivers
    <3>2. QED
      BY <3>1, <1>0, <1>s, <1>e DEF Failed, Reports
  <2>3. CASE f.fact = "flush"
    <3>1. failed' = failed /\ pump' = [pump EXCEPT !.flushing = FALSE, !.turn = 0]
          /\ 1 \in 1..Len(Pipe) /\ f = Pipe[1]
      BY <2>1, <2>3 DEF Delivers
    <3>2. events = <<>>
      BY <2>3, <3>1 DEF Turns
    <3>3. pump'.turn = 0
      BY <3>1, <1>0 DEF Pumps
    <3>4. 1..Len(events) = {}
      BY <3>2
    <3>5. \A e \in failed : Sent(e)
      BY <3>4 DEF Failed
    <3>6. QED
      BY <3>1, <3>3, <3>5, <1>0, <1>s DEF Failed
  <2>4. QED
    BY <2>2, <2>3
<1>4. CASE StartTurn
  <2>1. PICK n \in 0..MaxTurns : StartsTurn(n)
    BY <1>4, StartTurnIs
  <2>2. failed' = failed /\ events = <<>> /\ pump' = [pump EXCEPT !.turn = n + 1, !.error = None]
    BY <2>1 DEF StartsTurn
  <2>3. pump'.error = None
    BY <2>2, <1>0 DEF Pumps
  <2>4. 1..Len(events) = {}
    BY <2>2
  <2>5. \A e \in failed : Sent(e)
    BY <2>4 DEF Failed
  <2>6. QED
    BY <2>2, <2>3, <2>5, <1>0, <1>s DEF Failed
<1>5. CASE PiStep
  <2>1. pi.open => pi.message \in Messages
    BY DEF Named
  <2>2. PICK ev \in EventRecords : Adds(ev)
    BY <1>5, <2>1, PiAdds
  <2>3. events' = Append(events, ev) /\ pump' = pump /\ pi.turn # 0
    BY <2>2 DEF Adds
  <2>4. pi.turn = pump.turn
    BY <2>3 DEF Turns
  <2>5. /\ Len(events') = Len(events) + 1 /\ events'[Len(events) + 1] = ev
        /\ \A i \in 1..Len(events) : events'[i] = events[i] /\ i \in 1..Len(events')
        /\ Len(events) + 1 \in 1..Len(events')
    BY <2>3, <1>0
  <2>6. ASSUME NEW e \in failed'
        PROVE  Sent(e)' \/ (e.of = pump'.turn
                            /\ \E i \in 1..Len(events') : Reports(events'[i], e.text))
    <3>1. CASE e \in failed
      <4>1. e \in Failures
        BY <3>1, <1>0
      <4>2. CASE Sent(e)
        BY <4>1, <4>2, <1>s
      <4>3. CASE e.of = pump.turn /\ \E i \in 1..Len(events) : Reports(events[i], e.text)
        BY <4>3, <2>3, <2>5
      <4>4. QED
        BY <3>1, <4>2, <4>3 DEF Failed
    <3>2. CASE e \notin failed
      <4>1. PICK x \in Errors : Reports(ev, x) /\ e = Error(pi.turn, x)
        BY <3>2, <2>2 DEF Adds
      <4>2. e.of = pi.turn /\ e.text = x
        BY <4>1 DEF Error
      <4>3. QED
        BY <4>1, <4>2, <2>3, <2>4, <2>5
    <3>3. QED
      BY <3>1, <3>2
  <2>7. pump.turn # 0 /\ pump.error # None => Sent(Error(pump.turn, pump.error))'
    <3>1. ASSUME pump.turn # 0, pump.error # None PROVE Sent(Error(pump.turn, pump.error))'
      <4>1. Error(pump.turn, pump.error) \in Failures
        BY <3>1, <1>0, <1>e
      <4>2. PICK e \in Failures : e = Error(pump.turn, pump.error)
        BY <4>1
      <4>3. Sent(e)'
        BY <3>1, <4>2, <1>s DEF Failed
      <4>4. QED
        BY <4>2, <4>3, <2>3
    <3>2. QED
      BY <3>1
  <2>8. QED
    BY <2>3, <2>6, <2>7 DEF Failed, Reports
<1>6. CASE UNCHANGED vars
  <2>1. UNCHANGED <<failed, events, pump>>
    BY <1>6 DEF vars
  <2>2. QED
    BY <2>1, <1>0, <1>s, <1>e DEF Failed, Reports
<1>7. QED
  BY <1>1, <1>2, <1>3, <1>4, <1>5, <1>6 DEF Next, PiStep

-----------------------------------------------------------------------------
\* The numbers of messages, after a handled and after a new event.
Shifted(at) == [i \in 0..Len(events) - 1 |-> at[i + 1]]
Longer(at) == [i \in 0..Len(events) + 1 |-> IF i <= Len(events) THEN at[i] ELSE pi'.message]

LEMMA ShiftedIs ==
    ASSUME NEW n \in Nat, n >= 1, NEW S, NEW at \in [0..n -> S]
    PROVE  [i \in 0..n - 1 |-> at[i + 1]] \in [0..n - 1 -> S]
<1>1. \A i \in 0..n - 1 : i + 1 \in 0..n
  OBVIOUS
<1>2. QED
  BY <1>1

LEMMA LongerIs ==
    ASSUME Types, NEW first \in {0, 1}, NEW at \in [0..Len(events) -> 0..pi.message],
           Named(first, at), NEW ev, Adds(ev)
    PROVE  Longer(at) \in [0..Len(events) + 1 -> 0..pi'.message]
<1>1. pi.message \in Nat /\ Len(events) \in Nat /\ \A i \in 0..Len(events) : at[i] \in 0..pi.message
  BY NamedHere
<1>2. pi'.message \in Nat /\ pi.message <= pi'.message
  BY <1>1 DEF Adds, Pis
<1>3. ASSUME NEW i \in 0..Len(events) + 1
      PROVE  (IF i <= Len(events) THEN at[i] ELSE pi'.message) \in 0..pi'.message
  <2>1. CASE i <= Len(events)
    <3>1. i \in 0..Len(events)
      BY <2>1, <1>1
    <3>2. QED
      BY <3>1, <2>1, <1>1, <1>2
  <2>2. CASE ~(i <= Len(events))
    BY <2>2, <1>2
  <2>3. QED
    BY <2>1, <2>2
<1>4. QED
  BY <1>3 DEF Longer

LEMMA NumberedInit ==
    ASSUME Init
    PROVE  /\ Types /\ Turns
           /\ \E at \in [0..Len(events) -> 0..pi.message] :
                 Named(0, at) /\ at = [i \in 0..0 |-> 0]
<1>1. /\ pi = [turn |-> 0, message |-> 0, open |-> FALSE, role |-> "user", error |-> None,
              paused |-> FALSE]
      /\ said = [m \in Messages |-> <<>>] /\ failed = {}
      /\ events = <<>> /\ out = <<>> /\ chan = <<>>
      /\ pump = [id |-> None, seq |-> 0, error |-> None, turn |-> 0, flushing |-> FALSE]
      /\ shown = [c \in Clients |-> [id \in MessageIds |-> <<>>]]
      /\ answered = {} /\ late = {}
  BY DEF Init
<1>2. 0 \in 0..MaxTurns /\ 0 \in 0..MaxMessages /\ 0 \in 0..MaxMessages + 1
      /\ MaxEvents \in Nat /\ Capacity \in Nat
  BY Sets
<1>4. Types
  <2>1. pi \in Pis
    BY <1>1, <1>2 DEF Pis
  <2>2. pump \in Pumps
    BY <1>1, <1>2 DEF Pumps
  <2>3. <<>> \in Seq(OfPi) /\ <<>> \in Seq(Pieces) /\ <<>> \in Seq(EventRecords)
        /\ <<>> \in Seq(Facts) /\ Len(<<>>) = 0
    OBVIOUS
  <2>4. said \in [Messages -> Seq(OfPi)]
    BY <1>1, <2>3
  <2>5. shown \in [Clients -> [MessageIds -> Seq(Pieces)]]
    BY <1>1, <2>3
  <2>6. events \in Seq(EventRecords) /\ out \in Seq(Facts) /\ chan \in Seq(Facts)
        /\ Len(events) = 0 /\ Len(out) = 0 /\ Len(chan) = 0
    BY <1>1, <2>3
  <2>7. QED
    BY <1>1, <1>2, <2>1, <2>2, <2>4, <2>5, <2>6 DEF Types
<1>5. Len(Pipe) = 0 /\ Len(events) = 0
  BY <1>1, <1>4, PipeIs
<1>6. 1..Len(Pipe) = {} /\ 1..Len(events) = {}
  BY <1>5
<1>7. Turns
  <2>1. answered = 1..0 /\ pump.turn = 0 /\ ~pump.flushing /\ pi.turn = 0 /\ ~pi.open
        /\ pi.error = None
    BY <1>1
  <2>2. QED
    BY <1>1, <1>2, <1>6, <2>1 DEF Turns
<1> DEFINE at == [i \in 0..0 |-> 0]
<1>8. pi.message = 0 /\ ~pi.open /\ pump.seq = 0 /\ pump.id = None
  BY <1>1
<1>9. at \in [0..Len(events) -> 0..pi.message] /\ at[0] = 0
  BY <1>5, <1>8
<1> HIDE DEF at
<1>10. \A c \in Clients, id \in MessageIds : shown[c][id] = <<>> /\ 1..Len(shown[c][id]) = {}
  BY <1>1
<1>11. \A m \in Messages : 1..Len(said[m]) = {}
  BY <1>1
<1>12. Named(0, at)
  BY <1>5, <1>6, <1>8, <1>9, <1>10, <1>11 DEF Named
<1>13. QED
  BY <1>4, <1>7, <1>9, <1>12 DEF at

LEMMA NumberedKept ==
    ASSUME Types, Types', Turns, Numbered, [Next]_vars
    PROVE  Numbered'
<1>1. PICK first \in {0, 1}, at \in [0..Len(events) -> 0..pi.message] : Named(first, at)
  BY DEF Numbered
<1>2. Len(events) \in Nat
  BY <1>1, NamedHere
<1>3. CASE Handle
  <2>1. pump'.seq - at[1] \in {0, 1} /\ 1 \in 1..Len(events)
    BY <1>1, <1>3, NextFirst
  <2>2. PICK first2 \in {0, 1} : first2 = pump'.seq - at[1]
    BY <2>1
  <2>3. Shifted(at) \in [0..Len(events) - 1 -> 0..pi.message]
    BY <1>2, <2>1, ShiftedIs DEF Shifted
  <2>4. PICK bt \in [0..Len(events) - 1 -> 0..pi.message] : bt = Shifted(at)
    BY <2>3
  <2>5. Named(first2, bt)'
    BY <1>1, <1>3, <2>2, <2>4, NamedHandle DEF Shifted
  <2>6. bt \in [0..Len(events') -> 0..pi'.message]
    BY <2>5 DEF Named
  <2>7. QED
    BY <2>5, <2>6 DEF Numbered
<1>4. CASE Deliver
  <2>1. Named(first, at)'
    BY <1>1, <1>4, NamedDeliver
  <2>2. at \in [0..Len(events') -> 0..pi'.message]
    BY <2>1 DEF Named
  <2>3. QED
    BY <2>1, <2>2 DEF Numbered
<1>5. CASE Send \/ StartTurn \/ UNCHANGED vars
  <2>1. Named(first, at)'
    BY <1>1, <1>5, NamedSame
  <2>2. at \in [0..Len(events') -> 0..pi'.message]
    BY <2>1 DEF Named
  <2>3. QED
    BY <2>1, <2>2 DEF Numbered
<1>6. CASE PiStep
  <2>1. pi.open => pi.message \in Messages
    BY <1>1 DEF Named
  <2>2. PICK ev \in EventRecords : Adds(ev)
    BY <1>6, <2>1, PiAdds
  <2>3. PICK bt \in [0..Len(events) + 1 -> 0..pi'.message] : bt = Longer(at)
    <3>1. Longer(at) \in [0..Len(events) + 1 -> 0..pi'.message]
      BY <1>1, <2>2, LongerIs
    <3>2. QED
      BY <3>1
  <2>4. Named(first, bt)'
    BY <1>1, <2>2, <2>3, NamedPi DEF Longer
  <2>5. bt \in [0..Len(events') -> 0..pi'.message]
    BY <2>4 DEF Named
  <2>6. QED
    BY <2>4, <2>5 DEF Numbered
<1>7. QED
  BY <1>3, <1>4, <1>5, <1>6 DEF Next, PiStep

-----------------------------------------------------------------------------
\* pi's messages are never shown as one another.
LEMMA TypesFollow ==
    ASSUME Types, Turns
    PROVE  TypeOK
<1>1. /\ pump \in Pumps /\ Len(events) <= MaxEvents /\ Len(chan) <= Capacity /\ Len(out) <= 2
      /\ shown \in [Clients -> [MessageIds -> Seq(Pieces)]]
  BY DEF Types
<1>2. \A c \in Clients, id \in MessageIds : \A i \in DOMAIN shown[c][id] :
          shown[c][id][i] \in Pieces
  BY <1>1
<1>3. answered \subseteq 1..MaxTurns /\ late = {}
  <2>1. PICK n \in 0..MaxTurns : answered = 1..n
    BY DEF Turns
  <2>2. 1..n \subseteq 1..MaxTurns
    BY Sets
  <2>3. QED
    BY <2>1, <2>2 DEF Turns
<1>4. QED
  BY <1>1, <1>2, <1>3 DEF TypeOK, Pumps

LEMMA SeparateFollows ==
    ASSUME StreamInv
    PROVE  MessagesSeparate
<1>1. PICK first \in {0, 1}, at \in [0..Len(events) -> 0..pi.message] : Named(first, at)
  BY DEF StreamInv, Numbered
<1> DEFINE Of(c, id) == {p.of : p \in {q \in {shown[c][id][k] : k \in DOMAIN shown[c][id]} :
                                          IsText(q)}}
<1>2. ASSUME NEW c \in Clients, NEW id \in MessageIds
      PROVE  Of(c, id) \subseteq {id - first}
  <2>1. shown[c][id] \in Seq(Pieces)
    BY DEF StreamInv, Types
  <2>2. \A k \in 1..Len(shown[c][id]) :
            shown[c][id][k] \in OfPi => shown[c][id][k].of = id - first
    BY <1>1 DEF Named
  <2>3. ASSUME NEW k \in DOMAIN shown[c][id], IsText(shown[c][id][k])
        PROVE  shown[c][id][k].of = id - first
    <3>1. k \in 1..Len(shown[c][id]) /\ shown[c][id][k] \in Pieces
      BY <2>1
    <3>2. shown[c][id][k] \in OfPi
      BY <2>3, <3>1 DEF OfPi
    <3>3. QED
      BY <3>1, <3>2, <2>2
  <2>4. QED
    BY <2>3
<1>3. ASSUME NEW c \in Clients, NEW id \in MessageIds PROVE Cardinality(Of(c, id)) <= 1
  <2> DEFINE o == Of(c, id)
             one == {id - first}
  <2>1. o \in SUBSET one
    BY <1>2
  <2>2. IsFiniteSet(one) /\ Cardinality(one) = 1
    BY FS_Singleton
  <2> HIDE DEF o, one
  <2>3. Cardinality(o) <= 1
    BY <2>1, <2>2, FS_Subset
  <2>4. QED
    BY <2>3 DEF o
<1>4. ASSUME NEW c \in Clients, NEW i \in MessageIds, NEW j \in MessageIds, i # j
      PROVE  Of(c, i) \cap Of(c, j) = {}
  <2>1. i - first # j - first
    BY <1>4, Sets
  <2>2. QED
    BY <2>1, <1>2
<1> HIDE DEF Of
<1>5. TypeOK
  BY TypesFollow DEF StreamInv
<1>6. QED
  BY <1>3, <1>4, <1>5 DEF MessagesSeparate, Of

-----------------------------------------------------------------------------
\* In every reachable state the pump's ids are numbered as pi's messages are, wherever a
\* chunk of one is: on a screen, in the channel or in an event to come (session.rs,
\* mint_message_id, current_message_id and settle_pending_turn).
THEOREM StreamHolds == Spec => []StreamInv
<1>1. ASSUME Init PROVE StreamInv
  <2>1. Types /\ Turns
    BY <1>1, NumberedInit
  <2>2. PICK at \in [0..Len(events) -> 0..pi.message] : Named(0, at)
    BY <1>1, NumberedInit
  <2>3. QED
    BY <2>1, <2>2 DEF StreamInv, Numbered
<1>2. ASSUME StreamInv, [Next]_vars PROVE StreamInv'
  <2>1. PICK first \in {0, 1}, at \in [0..Len(events) -> 0..pi.message] : Named(first, at)
    BY <1>2 DEF StreamInv, Numbered
  <2>2. Types'
    BY <1>2, <2>1, TypesKept DEF StreamInv
  <2>3. Turns'
    BY <1>2, <2>1, <2>2, TurnsKept DEF StreamInv
  <2>4. Numbered'
    BY <1>2, <2>2, NumberedKept DEF StreamInv
  <2>5. QED
    BY <2>2, <2>3, <2>4 DEF StreamInv
<1>3. QED
  BY <1>1, <1>2, PTL DEF Spec

\* A client never shows two of pi's messages as one, nor one as two, however far pi is ahead
\* of the pump (session.rs, mint_message_id and current_message_id).
THEOREM MessagesHold == Spec => []MessagesSeparate
<1>1. StreamInv => MessagesSeparate
  BY SeparateFollows
<1>2. QED
  BY <1>1, StreamHolds, PTL

-----------------------------------------------------------------------------
\* All of what pi says arrives.
Counted ==
    \E first \in {0, 1}, at \in [0..Len(events) -> 0..pi.message] :
        Named(first, at) /\ Texted(first, at)
TextInv == Types /\ Turns /\ Failed /\ Counted

LEMMA CountedInit ==
    ASSUME Init
    PROVE  TextInv
<1>1. Types /\ Turns
  BY NumberedInit
<1>2. PICK at \in [0..Len(events) -> 0..pi.message] : Named(0, at)
  BY NumberedInit
<1>3. /\ said = [m \in Messages |-> <<>>] /\ failed = {} /\ pump.turn = 0
      /\ events = <<>> /\ out = <<>> /\ chan = <<>>
      /\ shown = [c \in Clients |-> [id \in MessageIds |-> <<>>]]
  BY DEF Init
<1>4. Failed
  BY <1>3 DEF Failed
<1>5. Len(events) = 0 /\ Len(Pipe) = 0 /\ 1..Len(events) = {} /\ 1..Len(Pipe) = {}
  <2>1. Len(events) = 0 /\ Len(Pipe) = 0
    BY <1>1, <1>3, PipeIs
  <2>2. QED
    BY <2>1
<1>6. ASSUME NEW m \in Messages
      PROVE  \E p \in [0..Len(Pipe) -> 0..Len(said[m])],
                e \in [0..Len(events) -> 0..Len(said[m])] : Streamed(0, at, m, p, e)
  <2> DEFINE z == [i \in 0..0 |-> 0]
  <2>1. said[m] = <<>> /\ Len(said[m]) = 0
    BY <1>3
  <2>2. z[0] = 0 /\ z \in [0..Len(Pipe) -> 0..Len(said[m])]
        /\ z \in [0..Len(events) -> 0..Len(said[m])]
    BY <1>5, <2>1
  <2> HIDE DEF z
  <2>3. ASSUME NEW c \in Clients PROVE IsFirst(Only(shown[c][m + 0], OfPi), said[m], z[0])
    <3>1. m + 0 \in MessageIds
      BY Sets DEF Messages, MessageIds
    <3>2. shown[c][m + 0] = <<>>
      BY <1>3, <3>1
    <3>3. Only(shown[c][m + 0], OfPi) = <<>>
      BY <3>2, OnlyEmpty
    <3> DEFINE o == Only(shown[c][m + 0], OfPi)
    <3> HIDE DEF o
    <3>4. o = <<>>
      BY <3>3 DEF o
    <3>5. Len(o) = 0 /\ 1..0 = {}
      BY <3>4
    <3>6. QED
      BY <3>5, <2>2 DEF IsFirst, o
  <2>4. Streamed(0, at, m, z, z)
    BY <1>5, <2>1, <2>2, <2>3 DEF Streamed
  <2>5. QED
    BY <2>2, <2>4
<1>7. Texted(0, at)
  BY <1>6 DEF Texted
<1>8. QED
  BY <1>1, <1>2, <1>4, <1>7 DEF TextInv, Counted

\* The places after a step: one fact less, some facts more, one event more or less.
LEMMA TextedHandle ==
    ASSUME Types, Types', NEW first \in {0, 1},
           NEW at \in [0..Len(events) -> 0..pi.message], Named(first, at), Texted(first, at),
           Handle
    PROVE  Counted'
<1>1. pump'.seq - at[1] \in {0, 1} /\ 1 \in 1..Len(events) /\ Len(events) \in Nat
  BY NextFirst, NamedHere
<1>2. PICK first2 \in {0, 1} : first2 = pump'.seq - at[1]
  BY <1>1
<1>3. PICK bt \in [0..Len(events) - 1 -> 0..pi.message] : bt = Shifted(at)
  <2>1. Shifted(at) \in [0..Len(events) - 1 -> 0..pi.message]
    BY <1>1, ShiftedIs DEF Shifted
  <2>2. QED
    BY <2>1
<1>4. Named(first2, bt)'
  BY <1>2, <1>3, NamedHandle DEF Shifted
<1>5. /\ out' \in Seq(Facts) /\ Len(out') \in Nat /\ Len(Pipe) \in Nat
      /\ Len(Pipe') = Len(Pipe) + Len(out') /\ Len(events') = Len(events) - 1
      /\ said' = said
  <2>1. /\ States(Head(events)) /\ out = <<>> /\ chan' = chan /\ said' = said
        /\ events' = Tail(events) /\ events # <<>>
    BY HandleStates
  <2>2. out' \in Seq(Facts)
    BY <2>1 DEF States
  <2>3. Len(Pipe') = Len(Pipe) + Len(out')
    BY <2>1, <2>2, PipeGrows
  <2>4. QED
    BY <2>1, <2>2, <2>3, PipeIs DEF Types
<1>6. ASSUME NEW m \in Messages
      PROVE  \E q \in [0..Len(Pipe') -> 0..Len(said'[m])],
                d \in [0..Len(events') -> 0..Len(said'[m])] : Streamed(first2, bt, m, q, d)'
  <2>1. PICK p \in [0..Len(Pipe) -> 0..Len(said[m])],
             e \in [0..Len(events) -> 0..Len(said[m])] : Streamed(first, at, m, p, e)
    BY DEF Texted
  <2>2. e[1] \in 0..Len(said[m])
    <3>1. 1 \in 0..Len(events)
      BY <1>1
    <3>2. QED
      BY <3>1
  <2>3. PICK q \in [0..Len(Pipe) + Len(out') -> 0..Len(said[m])] :
            q = [i \in 0..Len(Pipe) + Len(out') |-> IF i <= Len(Pipe) THEN p[i] ELSE e[1]]
    <3>1. ASSUME NEW i \in 0..Len(Pipe) + Len(out')
          PROVE  (IF i <= Len(Pipe) THEN p[i] ELSE e[1]) \in 0..Len(said[m])
      <4>1. CASE i <= Len(Pipe)
        <5>1. i \in 0..Len(Pipe)
          BY <4>1, <1>5
        <5>2. QED
          BY <5>1, <4>1
      <4>2. CASE ~(i <= Len(Pipe))
        BY <4>2, <2>2
      <4>3. QED
        BY <4>1, <4>2
    <3>2. QED
      BY <3>1
  <2>4. PICK d \in [0..Len(events) - 1 -> 0..Len(said[m])] : d = Shifted(e)
    <3>1. Shifted(e) \in [0..Len(events) - 1 -> 0..Len(said[m])]
      BY <1>1, ShiftedIs DEF Shifted
    <3>2. QED
      BY <3>1
  <2>5. Streamed(first2, bt, m, q, d)'
    <3>1. d = [i \in 0..Len(events) - 1 |-> e[i + 1]]
      BY <2>4 DEF Shifted
    <3>2. bt = [i \in 0..Len(events) - 1 |-> at[i + 1]]
      BY <1>3 DEF Shifted
    <3>3. Handled(first, at, m, p, e, first2, bt, q, d)
      BY <1>2, <2>1, <2>3, <3>1, <3>2 DEF Handled
    <3>4. QED
      BY <3>3, StreamedHandle
  <2>6. q \in [0..Len(Pipe') -> 0..Len(said'[m])] /\ d \in [0..Len(events') -> 0..Len(said'[m])]
    BY <2>5 DEF Streamed
  <2>7. QED
    BY <2>5, <2>6
<1>7. Texted(first2, bt)'
  BY <1>6 DEF Texted
<1>8. bt \in [0..Len(events') -> 0..pi'.message]
  BY <1>4 DEF Named
<1>9. QED
  BY <1>4, <1>7, <1>8 DEF Counted

LEMMA TextedDeliver ==
    ASSUME Unsendable \cap (Texts \cup Errors) = {},
           Types, Types', NEW first \in {0, 1},
           NEW at \in [0..Len(events) -> 0..pi.message], Named(first, at), Texted(first, at),
           Deliver
    PROVE  Counted'
<1>1. Named(first, at)'
  BY NamedDeliver
<1>2. Len(Pipe) \in Nat /\ Len(Pipe) >= 1
  <2>1. Delivers(Head(chan))
    BY DeliverIs
  <2>2. QED
    BY <2>1, PipeIs DEF Delivers
<1>3. ASSUME NEW m \in Messages
      PROVE  \E q \in [0..Len(Pipe') -> 0..Len(said'[m])],
                d \in [0..Len(events') -> 0..Len(said'[m])] : Streamed(first, at, m, q, d)'
  <2>1. PICK p \in [0..Len(Pipe) -> 0..Len(said[m])],
             e \in [0..Len(events) -> 0..Len(said[m])] : Streamed(first, at, m, p, e)
    BY DEF Texted
  <2>2. PICK q \in [0..Len(Pipe) - 1 -> 0..Len(said[m])] :
            q = [i \in 0..Len(Pipe) - 1 |-> p[i + 1]]
    <3>1. [i \in 0..Len(Pipe) - 1 |-> p[i + 1]] \in [0..Len(Pipe) - 1 -> 0..Len(said[m])]
      BY <1>2, ShiftedIs
    <3>2. QED
      BY <3>1
  <2>3. Streamed(first, at, m, q, e)'
    BY <2>1, <2>2, StreamedDeliver
  <2>4. q \in [0..Len(Pipe') -> 0..Len(said'[m])] /\ e \in [0..Len(events') -> 0..Len(said'[m])]
    BY <2>3 DEF Streamed
  <2>5. QED
    BY <2>3, <2>4
<1>4. Texted(first, at)'
  BY <1>3 DEF Texted
<1>5. at \in [0..Len(events') -> 0..pi'.message]
  BY <1>1 DEF Named
<1>6. QED
  BY <1>1, <1>4, <1>5 DEF Counted

LEMMA TextedSame ==
    ASSUME Types, Types', Turns, NEW first \in {0, 1},
           NEW at \in [0..Len(events) -> 0..pi.message], Named(first, at), Texted(first, at),
           Send \/ StartTurn \/ UNCHANGED vars
    PROVE  Counted'
<1>1. Named(first, at)'
  BY NamedSame
<1>2. ASSUME NEW m \in Messages
      PROVE  \E q \in [0..Len(Pipe') -> 0..Len(said'[m])],
                d \in [0..Len(events') -> 0..Len(said'[m])] : Streamed(first, at, m, q, d)'
  <2>1. PICK p \in [0..Len(Pipe) -> 0..Len(said[m])],
             e \in [0..Len(events) -> 0..Len(said[m])] : Streamed(first, at, m, p, e)
    BY DEF Texted
  <2>2. Streamed(first, at, m, p, e)'
    BY <2>1, StreamedSame
  <2>3. p \in [0..Len(Pipe') -> 0..Len(said'[m])] /\ e \in [0..Len(events') -> 0..Len(said'[m])]
    BY <2>2 DEF Streamed
  <2>4. QED
    BY <2>2, <2>3
<1>3. Texted(first, at)'
  BY <1>2 DEF Texted
<1>4. at \in [0..Len(events') -> 0..pi'.message]
  BY <1>1 DEF Named
<1>5. QED
  BY <1>1, <1>3, <1>4 DEF Counted

LEMMA TextedPi ==
    ASSUME Types, Types', Turns, NEW first \in {0, 1},
           NEW at \in [0..Len(events) -> 0..pi.message], Named(first, at), Texted(first, at),
           PiStep
    PROVE  Counted'
<1>1. PICK ev \in EventRecords : Adds(ev)
  <2>1. pi.open => pi.message \in Messages
    BY DEF Named
  <2>2. QED
    BY <2>1, PiAdds
<1>2. PICK bt \in [0..Len(events) + 1 -> 0..pi'.message] : bt = Longer(at)
  <2>1. Longer(at) \in [0..Len(events) + 1 -> 0..pi'.message]
    BY <1>1, LongerIs
  <2>2. QED
    BY <2>1
<1>3. Named(first, bt)'
  BY <1>1, <1>2, NamedPi DEF Longer
<1>4. ASSUME NEW m \in Messages
      PROVE  \E q \in [0..Len(Pipe') -> 0..Len(said'[m])],
                d \in [0..Len(events') -> 0..Len(said'[m])] : Streamed(first, bt, m, q, d)'
  <2>1. PICK p \in [0..Len(Pipe) -> 0..Len(said[m])],
             e \in [0..Len(events) -> 0..Len(said[m])] : Streamed(first, at, m, p, e)
    BY DEF Texted
  <2>2. said[m] \in Seq(OfPi) /\ said'[m] \in Seq(OfPi) /\ Len(events) \in Nat
        /\ Len(said[m]) \in Nat /\ Len(said'[m]) \in Nat
    BY DEF Types
  <2>3. Len(said[m]) <= Len(said'[m])
    <3>1. CASE ev.type = "delta"
      <4>1. said' = [said EXCEPT ![pi.message] = Append(@, ev.piece)]
        BY <1>1, <3>1 DEF Adds
      <4>2. CASE m = pi.message
        <5>1. said'[m] = Append(said[m], ev.piece)
          BY <4>1, <4>2 DEF Types
        <5>2. ev.piece \in OfPi
          BY <3>1 DEF EventRecords
        <5>3. Len(said'[m]) = Len(said[m]) + 1
          BY <2>2, <5>1, <5>2
        <5>4. QED
          BY <5>3, <2>2
      <4>3. CASE m # pi.message
        BY <4>1, <4>3, <2>2 DEF Types
      <4>4. QED
        BY <4>2, <4>3
    <3>2. CASE ev.type # "delta"
      BY <1>1, <3>2, <2>2 DEF Adds
    <3>3. QED
      BY <3>1, <3>2
  <2>4. PICK d \in [0..Len(events) + 1 -> 0..Len(said'[m])] :
            d = [i \in 0..Len(events) + 1 |-> IF i <= Len(events) THEN e[i] ELSE Len(said'[m])]
    <3>1. ASSUME NEW i \in 0..Len(events) + 1
          PROVE  (IF i <= Len(events) THEN e[i] ELSE Len(said'[m])) \in 0..Len(said'[m])
      <4>1. CASE i <= Len(events)
        <5>1. i \in 0..Len(events)
          BY <4>1, <2>2
        <5>2. e[i] \in 0..Len(said[m])
          BY <5>1
        <5>3. QED
          BY <5>2, <4>1, <2>2, <2>3
      <4>2. CASE ~(i <= Len(events))
        BY <4>2, <2>2
      <4>3. QED
        BY <4>1, <4>2
    <3>2. QED
      BY <3>1
  <2>5. Streamed(first, bt, m, p, d)'
    BY <1>1, <1>2, <2>1, <2>4, StreamedPi DEF Longer
  <2>6. p \in [0..Len(Pipe') -> 0..Len(said'[m])] /\ d \in [0..Len(events') -> 0..Len(said'[m])]
    BY <2>5 DEF Streamed
  <2>7. QED
    BY <2>5, <2>6
<1>5. Texted(first, bt)'
  BY <1>4 DEF Texted
<1>6. bt \in [0..Len(events') -> 0..pi'.message]
  BY <1>3 DEF Named
<1>7. QED
  BY <1>3, <1>5, <1>6 DEF Counted

LEMMA CountedKept ==
    ASSUME Unsendable \cap (Texts \cup Errors) = {}, TextInv, [Next]_vars
    PROVE  TextInv'
<1>1. PICK first \in {0, 1}, at \in [0..Len(events) -> 0..pi.message] :
          Named(first, at) /\ Texted(first, at)
  BY DEF TextInv, Counted
<1>2. Types /\ Turns /\ Failed
  BY DEF TextInv
<1>3. Types'
  BY <1>1, <1>2, TypesKept
<1>4. Turns'
  BY <1>1, <1>2, <1>3, TurnsKept
<1>5. Failed'
  BY <1>1, <1>2, <1>3, FailedKept
<1>6. CASE Handle
  <2>1. Counted'
    BY <1>1, <1>2, <1>3, <1>6, TextedHandle
  <2>2. QED
    BY <1>3, <1>4, <1>5, <2>1 DEF TextInv
<1>7. CASE Deliver
  <2>1. Counted'
    BY <1>1, <1>2, <1>3, <1>7, TextedDeliver
  <2>2. QED
    BY <1>3, <1>4, <1>5, <2>1 DEF TextInv
<1>8. CASE Send \/ StartTurn \/ UNCHANGED vars
  <2>1. Counted'
    BY <1>1, <1>2, <1>3, <1>8, TextedSame
  <2>2. QED
    BY <1>3, <1>4, <1>5, <2>1 DEF TextInv
<1>9. CASE PiStep
  <2>1. Counted'
    BY <1>1, <1>2, <1>3, <1>9, TextedPi
  <2>2. QED
    BY <1>3, <1>4, <1>5, <2>1 DEF TextInv
<1>10. QED
  BY <1>6, <1>7, <1>8, <1>9 DEF Next, PiStep

LEMMA UpdatesFollow ==
    ASSUME TextInv
    PROVE  UpdatesArrive
<1>1. Types /\ Turns /\ Failed /\ Counted
  BY DEF TextInv
<1>2. late = {}
  BY <1>1 DEF Turns
<1>3. ASSUME Delivered
      PROVE  Len(Pipe) = 0 /\ Len(events) = 0 /\ 1..Len(Pipe) = {} /\ 1..Len(events) = {}
  <2>1. Len(Pipe) = 0 /\ Len(events) = 0
    BY <1>1, <1>3, PipeIs DEF Delivered
  <2>2. QED
    BY <2>1
<1>4. ASSUME Delivered, NEW e \in failed PROVE Visible("v1", e)
  BY <1>1, <1>3, <1>4 DEF Failed, Sent
<1>5. ASSUME Delivered, NEW c \in Clients, NEW m \in Messages
      PROVE  \E id \in MessageIds : Only(shown[c][id], OfPi) = said[m]
  <2>1. PICK first \in {0, 1}, at \in [0..Len(events) -> 0..pi.message] :
            Named(first, at) /\ Texted(first, at)
    BY <1>1 DEF Counted
  <2>2. PICK p \in [0..Len(Pipe) -> 0..Len(said[m])],
             e \in [0..Len(events) -> 0..Len(said[m])] : Streamed(first, at, m, p, e)
    BY <2>1 DEF Texted
  <2> DEFINE o == Only(shown[c][m + first], OfPi)
             text == said[m]
  <2>3. p[0] = Len(text)
    <3>1. e[0] = p[Len(Pipe)] /\ e[Len(events)] = Len(text)
      BY <2>2 DEF Streamed
    <3>2. Len(Pipe) = 0 /\ Len(events) = 0
      BY <1>3, <1>5
    <3>3. QED
      BY <3>1, <3>2
  <2>4. IsFirst(o, text, Len(text))
    BY <2>2, <2>3 DEF Streamed
  <2>5. m + first \in MessageIds
    BY Sets DEF Messages, MessageIds
  <2>6. o \in Seq(OfPi) /\ text \in Seq(OfPi)
    <3>1. shown[c][m + first] \in Seq(Pieces)
      BY <1>1, <2>5 DEF Types
    <3>2. QED
      BY <1>1, <3>1, OnlyAt DEF Types
  <2> HIDE DEF o, text
  <2>7. o = text
    BY <2>4, <2>6 DEF IsFirst
  <2>8. QED
    BY <2>5, <2>7 DEF o, text
<1>6. QED
  BY <1>2, <1>4, <1>5 DEF UpdatesArrive

-----------------------------------------------------------------------------
\* When only a notice can fail to be sent: what has arrived when nothing is on its way is
\* all of each message, in order and once, at both clients, and a v1 client has each
\* failure; and no update comes behind its turn's response (session.rs, emit_message_patch,
\* emit_message_error, settle_pending_turn and spawn_outbound_connector).
THEOREM UpdatesHold ==
    ASSUME Unsendable \cap (Texts \cup Errors) = {}
    PROVE  Spec => []UpdatesArrive
<1>1. Init => TextInv
  BY CountedInit
<1>2. TextInv /\ [Next]_vars => TextInv'
  BY CountedKept
<1>3. TextInv => UpdatesArrive
  BY UpdatesFollow
<1>4. QED
  BY <1>1, <1>2, <1>3, PTL DEF Spec

-----------------------------------------------------------------------------
\* The session's configuration.
\* What a client that was told of every change is told, and what is on its way there.
PiStates == [model : Models, level : Config!Levels]
ConfigEvents == [kind : {"level"}, level : Config!Levels] \cup [kind : {"usage"}, model : Models]
ConfigOptions ==
    {Config!OptionsOf(s, ladder, models) :
        s \in PiStates, ladder \in SUBSET Config!Levels, models \in SUBSET Models}
ConfigMessages ==
    [kind : {"mode"}, level : Config!Levels]
        \cup [kind : {"usage"}, size : Nat, model : Models]
        \cup [kind : {"options"}, options : {o \in ConfigOptions : o.model \in DOMAIN o.choices}]

ConfigTypes ==
    /\ protocol \in Protocols /\ truth \in PiStates
    /\ levels \in Seq(ConfigEvents) /\ outbound \in Seq(ConfigMessages)
    /\ handler \in [pc : {"idle", "level", "model", "failed", "window", "read", "levels"},
                    model : Models, level : Config!Levels, read : PiStates]
    /\ stamp \in BOOLEAN /\ recent \in BOOLEAN /\ silent \in BOOLEAN
    /\ window \in {Window[m] : m \in Models}
    /\ reading \in PiStates \cup {Config!Nothing}
    /\ mode \in Config!Levels /\ been \subseteq Config!Levels
    /\ options \in ConfigOptions /\ options.model \in DOMAIN options.choices
    /\ usage \in [size : Nat, model : Models]

\* A message of a kind, the level of the last one, and the level it tells of.
LevelOf(m) == IF m.kind = "options" THEN m.options.level ELSE m.level
NoneOf(kind, s) == \A i \in DOMAIN s : s[i].kind # kind
AllTell(kind, s, l) == \A i \in DOMAIN s : s[i].kind = kind => LevelOf(s[i]) = l
LastTells(kind, s, l) ==
    \A i \in DOMAIN s :
        s[i].kind = kind /\ (\A j \in DOMAIN s : s[j].kind = kind => j <= i) => LevelOf(s[i]) = l

\* The handler, from its set to its refresh: pi stays where the set left it.
Obeyed == handler.pc \in {"window", "read", "levels"}
SetInv ==
    /\ handler.pc = "levels" => handler.read = truth
    /\ handler.pc = "window" => handler.model = truth.model
    /\ handler.pc # "window" /\ ~silent => window = Window[truth.model]
    /\ stamp /\ handler.pc \notin {"level", "model", "failed"} => recent
    /\ handler.pc \in {"level", "model", "failed"} =>
           NoneOf("level", levels) /\ NoneOf("options", outbound) /\ reading = Config!Nothing
    /\ Obeyed =>
           /\ AllTell("level", levels, truth.level) /\ AllTell("options", outbound, truth.level)
           /\ reading # Config!Nothing => reading.level = truth.level

\* No level but pi's was ever told.
Told(kinds, s, L) == \A i \in DOMAIN s : s[i].kind \in kinds => LevelOf(s[i]) \in L
WasInv ==
    /\ truth.level \in been /\ mode \in been /\ options.level \in been
    /\ Told({"level"}, levels, been) /\ Told({"mode", "options"}, outbound, been)
    /\ reading # Config!Nothing => reading.level \in been

\* Unless pi changed its model silently, all that is told is of its model.
FitsModel(o, m) == o.model = m /\ o.levels = Config!supported_thinking_levels(m)
AllFit(s, m) == \A i \in DOMAIN s : s[i].kind = "options" => FitsModel(s[i].options, m)
ModelInv ==
    ~silent => /\ ~Obeyed => FitsModel(options, truth.model)
               /\ AllFit(outbound, truth.model)
               /\ reading # Config!Nothing => reading.model = truth.model

\* What arrives last is pi's level.
ModeInv ==
    /\ LastTells("level", levels, truth.level)
    /\ protocol = "v1" /\ NoneOf("level", levels) =>
           /\ LastTells("mode", outbound, truth.level)
           /\ NoneOf("mode", outbound) => mode = truth.level
OptionsInv ==
    ~Obeyed /\ (stamp \/ NoneOf("level", levels)) =>
        IF reading # Config!Nothing THEN reading.level = truth.level
        ELSE /\ LastTells("options", outbound, truth.level)
             /\ NoneOf("options", outbound) => options.level = truth.level

ConfigInv == ConfigTypes /\ SetInv /\ WasInv /\ ModelInv /\ ModeInv /\ OptionsInv

-----------------------------------------------------------------------------
\* A set of levels has a least and a greatest one.
LEMMA LevelsHaveEnds ==
    ASSUME NEW S \in SUBSET Config!Levels, S # {}
    PROVE  /\ \E x \in S : \A y \in S : x <= y
           /\ \E x \in S : \A y \in S : x >= y
<1>1. \A x \in S : x \in {1, 2, 3, 4, 5, 6, 7}
  BY DEF Config!Levels
<1>2. \E x \in S : \A y \in S : x <= y
  <2>1. CASE 1 \in S
    BY <1>1, <2>1
  <2>2. CASE 2 \in S /\ 1 \notin S
    BY <1>1, <2>2
  <2>3. CASE 3 \in S /\ 2 \notin S /\ 1 \notin S
    BY <1>1, <2>3
  <2>4. CASE 4 \in S /\ 3 \notin S /\ 2 \notin S /\ 1 \notin S
    BY <1>1, <2>4
  <2>5. CASE 5 \in S /\ S \subseteq {5, 6, 7}
    BY <2>5
  <2>6. CASE 6 \in S /\ S \subseteq {6, 7}
    BY <2>6
  <2>7. CASE S = {7}
    BY <2>7
  <2> QED BY <1>1, <2>1, <2>2, <2>3, <2>4, <2>5, <2>6, <2>7
<1>3. \E x \in S : \A y \in S : x >= y
  <2>1. CASE 7 \in S
    BY <1>1, <2>1
  <2>2. CASE 6 \in S /\ 7 \notin S
    BY <1>1, <2>2
  <2>3. CASE 5 \in S /\ 6 \notin S /\ 7 \notin S
    BY <1>1, <2>3
  <2>4. CASE 4 \in S /\ 5 \notin S /\ 6 \notin S /\ 7 \notin S
    BY <1>1, <2>4
  <2>5. CASE 3 \in S /\ S \subseteq {1, 2, 3}
    BY <2>5
  <2>6. CASE 2 \in S /\ S \subseteq {1, 2}
    BY <2>6
  <2>7. CASE S = {1}
    BY <2>7
  <2> QED BY <1>1, <2>1, <2>2, <2>3, <2>4, <2>5, <2>6, <2>7
<1> QED BY <1>2, <1>3

\* clamp_thinking_level is where pi itself leaves a level.
LEMMA ClampIsSettles ==
    ASSUME Config!ConfigAssumption, NEW m \in Models, NEW l \in Config!Levels
    PROVE  /\ Config!clamp_thinking_level(m, l) = Config!PiSettles(m, l)
           /\ Config!PiSettles(m, l) \in Config!Levels
           /\ Config!supported_thinking_levels(m) \in SUBSET Config!Levels
<1> DEFINE on == Config!supported_thinking_levels(m)
           up == {k \in on : k >= l}
           Settled(k) == \A j \in on : \/ j = k
                                       \/ k >= l /\ (j < l \/ j > k)
                                       \/ j < k /\ k < l
<1>1. on \in SUBSET Config!Levels
  BY DEF Config!supported_thinking_levels, Config!Levels
<1>2. on # {}
  BY DEF Config!ConfigAssumption
<1>3. \A k \in on : k \in Int /\ l \in Int
  BY <1>1 DEF Config!Levels
<1> HIDE DEF on
<1>4. Config!clamp_thinking_level(m, l) \in on /\ Settled(Config!clamp_thinking_level(m, l))
  <2>1. CASE up # {}
    <3>1. \E x \in up : \A y \in up : x <= y
      BY <1>1, <2>1, LevelsHaveEnds
    <3>2. Config!Min(up) \in up /\ \A y \in up : Config!Min(up) <= y
      BY <3>1 DEF Config!Min
    <3>3. Config!clamp_thinking_level(m, l) = Config!Min(up)
      BY <2>1 DEF Config!clamp_thinking_level, on
    <3>4. Config!Min(up) \in on /\ Config!Min(up) >= l
      BY <3>2
    <3>5. \A j \in on : j >= l => Config!Min(up) <= j
      BY <3>2
    <3> QED BY <1>3, <3>3, <3>4, <3>5
  <2>2. CASE up = {}
    <3>1. \E x \in on : \A y \in on : x >= y
      BY <1>1, <1>2, LevelsHaveEnds
    <3>2. Config!Max(on) \in on /\ \A y \in on : Config!Max(on) >= y
      BY <3>1 DEF Config!Max
    <3>3. Config!clamp_thinking_level(m, l) = Config!Max(on)
      BY <1>2, <2>2 DEF Config!clamp_thinking_level, on
    <3> QED BY <1>3, <2>2, <3>2, <3>3
  <2> QED BY <2>1, <2>2
<1>5. \A j, k \in on : Settled(j) /\ Settled(k) => j = k
  BY <1>3
<1>6. Config!PiSettles(m, l) = CHOOSE k \in on : Settled(k)
  BY DEF Config!PiSettles, on
<1>7. Config!clamp_thinking_level(m, l) = Config!PiSettles(m, l)
  BY <1>4, <1>5, <1>6
<1> QED BY <1>1, <1>4, <1>7 DEF on

-----------------------------------------------------------------------------
\* One more message, and the first one less.
LEMMA KindAppended ==
    ASSUME NEW S, NEW s \in Seq(S), NEW e \in S, NEW kind, NEW l
    PROVE  /\ e.kind # kind =>
                  /\ NoneOf(kind, s) <=> NoneOf(kind, Append(s, e))
                  /\ AllTell(kind, s, l) => AllTell(kind, Append(s, e), l)
                  /\ LastTells(kind, s, l) => LastTells(kind, Append(s, e), l)
           /\ e.kind = kind =>
                  /\ ~NoneOf(kind, Append(s, e))
                  /\ LevelOf(e) = l => LastTells(kind, Append(s, e), l)
                  /\ AllTell(kind, s, l) /\ LevelOf(e) = l => AllTell(kind, Append(s, e), l)
<1> DEFINE t == Append(s, e)
           n == Len(s) + 1
<1>0. DOMAIN t = 1 .. Len(s) + 1 /\ DOMAIN s = 1 .. Len(s) /\ Len(s) \in Nat
  OBVIOUS
<1>1. /\ \A i \in DOMAIN t : (i \in DOMAIN s /\ t[i] = s[i]) \/ (i = n /\ t[i] = e)
      /\ \A i \in DOMAIN s : i \in DOMAIN t /\ t[i] = s[i] /\ i < n
      /\ n \in DOMAIN t /\ t[n] = e /\ DOMAIN t \subseteq Int
  <2>1. \A i \in DOMAIN s : t[i] = s[i]
    OBVIOUS
  <2>2. t[n] = e
    OBVIOUS
  <2>3. /\ \A i \in DOMAIN t : i \in DOMAIN s \/ i = n
        /\ \A i \in DOMAIN s : i \in DOMAIN t /\ i < n
        /\ n \in DOMAIN t /\ DOMAIN t \subseteq Int
    BY ONLY <1>0
  <2> QED BY ONLY <2>1, <2>2, <2>3
<1> HIDE DEF t, n
<1>2. e.kind # kind => /\ NoneOf(kind, s) <=> NoneOf(kind, t)
                       /\ AllTell(kind, s, l) => AllTell(kind, t, l)
  BY <1>1 DEF NoneOf, AllTell
<1>3. e.kind # kind => (LastTells(kind, s, l) => LastTells(kind, t, l))
  BY <1>1 DEF LastTells
<1>4. e.kind = kind => /\ ~NoneOf(kind, t)
                       /\ AllTell(kind, s, l) /\ LevelOf(e) = l => AllTell(kind, t, l)
  BY <1>1 DEF NoneOf, AllTell
<1>5. e.kind = kind /\ LevelOf(e) = l => LastTells(kind, t, l)
  <2> SUFFICES ASSUME e.kind = kind, LevelOf(e) = l, NEW i \in DOMAIN t,
                      t[i].kind = kind, \A j \in DOMAIN t : t[j].kind = kind => j <= i
               PROVE  LevelOf(t[i]) = l
    BY DEF LastTells
  <2>1. n <= i
    BY <1>1
  <2>2. i = n
    BY <1>1, <2>1
  <2> QED BY <1>1, <2>2
<1> QED BY <1>2, <1>3, <1>4, <1>5 DEF t

\* What Tail leaves of the messages of a kind.
LEMMA KindDropped ==
    ASSUME NEW S, NEW s \in Seq(S), s # <<>>, NEW kind, NEW l
    PROVE  /\ LastTells(kind, s, l) => LastTells(kind, Tail(s), l)
           /\ AllTell(kind, s, l) => AllTell(kind, Tail(s), l)
           /\ NoneOf(kind, s) => NoneOf(kind, Tail(s))
           /\ Head(s).kind # kind /\ NoneOf(kind, Tail(s)) => NoneOf(kind, s)
           /\ Head(s).kind = kind /\ NoneOf(kind, Tail(s)) /\ LastTells(kind, s, l) =>
                  LevelOf(Head(s)) = l
<1> DEFINE t == Tail(s)
<1>0. /\ DOMAIN s = 1 .. Len(s) /\ Len(s) \in Nat /\ Len(s) # 0
      /\ DOMAIN t = 1 .. Len(s) - 1 /\ \A i \in DOMAIN t : t[i] = s[i + 1]
  BY EmptySeq
<1>1. /\ \A i \in DOMAIN t : i + 1 \in DOMAIN s /\ t[i] = s[i + 1]
      /\ \A i \in DOMAIN s : i = 1 \/ (i - 1 \in DOMAIN t /\ t[i - 1] = s[i])
      /\ 1 \in DOMAIN s /\ Head(s) = s[1] /\ DOMAIN s \subseteq Int /\ DOMAIN t \subseteq Int
      /\ \A i \in DOMAIN s : i >= 1
  <2> HIDE DEF t
  <2>1. Head(s) = s[1]
    OBVIOUS
  <2>2. \A i \in DOMAIN s : i = 1 \/ (i - 1 \in DOMAIN t /\ t[i - 1] = s[i])
    <3>1. ASSUME NEW i \in DOMAIN s, i # 1 PROVE i - 1 \in DOMAIN t /\ t[i - 1] = s[i]
      <4>1. i - 1 \in DOMAIN t /\ i - 1 + 1 = i
        BY <1>0, <3>1
      <4>2. t[i - 1] = s[i - 1 + 1]
        BY <1>0, <4>1
      <4> QED BY <4>1, <4>2
    <3> QED BY ONLY <3>1
  <2>3. \A i \in DOMAIN t : i + 1 \in DOMAIN s
    BY <1>0
  <2>4. 1 \in DOMAIN s /\ DOMAIN s \subseteq Int /\ DOMAIN t \subseteq Int /\ \A i \in DOMAIN s : i >= 1
    BY <1>0
  <2> QED BY <1>0, <2>1, <2>2, <2>3, <2>4
<1> HIDE DEF t
<1>2. /\ AllTell(kind, s, l) => AllTell(kind, t, l)
      /\ NoneOf(kind, s) => NoneOf(kind, t)
      /\ Head(s).kind # kind /\ NoneOf(kind, t) => NoneOf(kind, s)
  BY <1>1 DEF NoneOf, AllTell
<1>3. LastTells(kind, s, l) => LastTells(kind, t, l)
  <2> SUFFICES ASSUME LastTells(kind, s, l), NEW i \in DOMAIN t,
                      t[i].kind = kind, \A j \in DOMAIN t : t[j].kind = kind => j <= i
               PROVE  LevelOf(t[i]) = l
    BY DEF LastTells
  <2>1. \A j \in DOMAIN s : s[j].kind = kind => j <= i + 1
    <3> SUFFICES ASSUME NEW j \in DOMAIN s, s[j].kind = kind PROVE j <= i + 1
      OBVIOUS
    <3>1. CASE j = 1
      BY <1>1, <3>1
    <3>2. CASE j # 1
      <4>1. j - 1 <= i
        BY <1>1, <3>2
      <4> QED BY <1>1, <4>1
    <3> QED BY <3>1, <3>2
  <2> QED BY <1>1, <2>1 DEF LastTells
<1>4. Head(s).kind = kind /\ NoneOf(kind, t) /\ LastTells(kind, s, l) => LevelOf(Head(s)) = l
  <2> SUFFICES ASSUME s[1].kind = kind, NoneOf(kind, t), LastTells(kind, s, l)
               PROVE  LevelOf(s[1]) = l
    BY <1>1
  <2>1. \A j \in DOMAIN s : s[j].kind = kind => j <= 1
    BY <1>1 DEF NoneOf
  <2> QED BY <1>1, <2>1 DEF LastTells
<1> QED BY <1>2, <1>3, <1>4 DEF t

-----------------------------------------------------------------------------
\* Options are read back as what they were built of.
LEMMA OptionsAreBuilt ==
    ASSUME Config!ConfigAssumption, NEW s \in PiStates, NEW models \in SUBSET Models,
           s.model \in models,
           NEW m \in Models
    PROVE  LET o == Config!OptionsOf(s, Config!supported_thinking_levels(m), models)
           IN  /\ o \in ConfigOptions /\ o.model \in DOMAIN o.choices
               /\ o.model = s.model /\ o.level = s.level
               /\ o.levels = Config!supported_thinking_levels(m)
               /\ DOMAIN o.choices = models
               /\ \A k \in models : o.choices[k] = Config!clamp_thinking_level(k, s.level)
<1>1. Config!supported_thinking_levels(m) \in SUBSET Config!Levels
  BY DEF Config!supported_thinking_levels, Config!Levels
<1> DEFINE ladder == Config!supported_thinking_levels(m)
           o == Config!OptionsOf(s, ladder, models)
<1>2. o \in ConfigOptions
  <2>1. ladder \in SUBSET Config!Levels
    BY <1>1
  <2> HIDE DEF ladder
  <2> QED BY <2>1 DEF ConfigOptions, o
<1>3. /\ o.model = s.model /\ o.level = s.level /\ o.levels = ladder
      /\ DOMAIN o.choices = models
      /\ \A k \in models : o.choices[k] = Config!clamp_thinking_level(k, s.level)
  <2> HIDE DEF ladder
  <2> QED BY ONLY DEF o, Config!OptionsOf, Config!Advertised
<1>4. o.model \in DOMAIN o.choices
  <2> HIDE DEF o
  <2> QED BY <1>3
<1> HIDE DEF o
<1> QED BY <1>2, <1>3, <1>4 DEF o

\* What options are.
LEMMA OptionsAreTyped ==
    ASSUME NEW o \in ConfigOptions
    PROVE  /\ o.model \in Models /\ o.level \in Config!Levels /\ DOMAIN o.choices \in SUBSET Models
           /\ \A k \in DOMAIN o.choices : o.choices[k] = Config!clamp_thinking_level(k, o.level)
<1>1. PICK s \in PiStates, ladder \in SUBSET Config!Levels, models \in SUBSET Models :
          o = Config!OptionsOf(s, ladder, models)
  BY DEF ConfigOptions
<1>2. s.model \in Models /\ s.level \in Config!Levels
  BY DEF PiStates
<1> QED BY <1>1, <1>2 DEF Config!OptionsOf, Config!Advertised

\* What pi's change does.
LEMMA PiChanges ==
    ASSUME Config!ConfigAssumption, ConfigTypes, NEW m \in Models, NEW l \in Config!Levels,
           Config!PiBecomes(m, l)
    PROVE  /\ truth' \in PiStates /\ truth'.model = m /\ truth'.level = Config!PiSettles(m, l)
           /\ been' = been \cup {truth'.level} /\ been' \in SUBSET Config!Levels
           /\ levels' \in Seq(ConfigEvents)
           /\ IF truth'.level # truth.level
              THEN levels' = Append(levels, [kind |-> "level", level |-> truth'.level])
              ELSE levels' = levels
<1>1. Config!PiSettles(m, l) \in Config!Levels
  BY ClampIsSettles
<1>2. truth' = [model |-> m, level |-> Config!PiSettles(m, l)]
  BY DEF Config!PiBecomes
<1>3. truth' \in PiStates /\ truth'.model = m /\ truth'.level = Config!PiSettles(m, l)
  BY <1>1, <1>2 DEF PiStates
<1>4. been' = been \cup {truth'.level} /\ been' \in SUBSET Config!Levels
  BY <1>1, <1>3 DEF Config!PiBecomes, ConfigTypes
<1>5. IF truth'.level # truth.level
      THEN levels' = Append(levels, [kind |-> "level", level |-> truth'.level])
      ELSE levels' = levels
  BY DEF Config!PiBecomes
<1>6. [kind |-> "level", level |-> truth'.level] \in ConfigEvents
  BY <1>1, <1>3 DEF ConfigEvents
<1>7. levels' \in Seq(ConfigEvents)
  BY <1>5, <1>6, AppendProperties DEF ConfigTypes
<1> QED BY <1>3, <1>4, <1>5, <1>7

\* What is in the pipes is what its kind says.
LEMMA MessagesAreTyped ==
    /\ \A e \in ConfigEvents : /\ e.kind \in {"level", "usage"}
                               /\ e.kind = "level" =>
                                      e.level \in Config!Levels /\ LevelOf(e) = e.level
                               /\ e.kind = "usage" => e.model \in Models
    /\ \A e \in ConfigMessages :
           /\ e.kind \in {"mode", "usage", "options"}
           /\ e.kind = "mode" => e.level \in Config!Levels /\ LevelOf(e) = e.level
           /\ e.kind = "usage" => e.size \in Nat /\ e.model \in Models
           /\ e.kind = "options" => /\ e.options \in ConfigOptions
                                    /\ e.options.model \in DOMAIN e.options.choices
                                    /\ LevelOf(e) = e.options.level
<1>1. ASSUME NEW e \in ConfigEvents
      PROVE  /\ e.kind \in {"level", "usage"}
             /\ e.kind = "level" => e.level \in Config!Levels /\ LevelOf(e) = e.level
             /\ e.kind = "usage" => e.model \in Models
  BY <1>1 DEF ConfigEvents, LevelOf
<1>2. ASSUME NEW e \in ConfigMessages
      PROVE  /\ e.kind \in {"mode", "usage", "options"}
             /\ e.kind = "mode" => e.level \in Config!Levels /\ LevelOf(e) = e.level
             /\ e.kind = "usage" => e.size \in Nat /\ e.model \in Models
             /\ e.kind = "options" => /\ e.options \in ConfigOptions
                                      /\ e.options.model \in DOMAIN e.options.choices
                                      /\ LevelOf(e) = e.options.level
  BY <1>2 DEF ConfigMessages, LevelOf
<1> QED BY <1>1, <1>2

-----------------------------------------------------------------------------
\* The hypotheses: pi changes by itself when the client is not setting and was told, a call fails
\* before pi obeys or not at all, and every model has a window.
Apart == PiMoves = "apart" /\ Lossy \subseteq {"set"} /\ \A m \in Models : Window[m] # 0

Requesting == /\ sets' = sets + 1 /\ Config!Quiet /\ stamp' = TRUE
              /\ UNCHANGED <<protocol, truth, levels, recent, window, reading, outbound, mode,
                             options,
                             usage, been, silent>>
SetsLevel == /\ Requesting
             /\ \E l \in Config!Levels : handler' = [Config!Idle EXCEPT !.pc = "level", !.level = l]
SetsModel == /\ Requesting
             /\ \E m \in Models : handler' = [Config!Idle EXCEPT !.pc = "model", !.model = m]
ObeysLevel == /\ handler.pc = "level" /\ Config!PumpIdle
              /\ Config!PiBecomes(truth.model, handler.level)
              /\ recent' = TRUE /\ silent' = silent /\ handler' = [handler EXCEPT !.pc = "read"]
              /\ UNCHANGED <<protocol, stamp, window, reading, outbound, mode, options, usage>>
ObeysModel == /\ handler.pc = "model" /\ Config!PumpIdle
              /\ Config!PiBecomes(handler.model, truth.level)
              /\ recent' = TRUE /\ silent' = FALSE /\ handler' = [handler EXCEPT !.pc = "window"]
              /\ UNCHANGED <<protocol, stamp, window, reading, outbound, mode, options, usage>>
Fails == /\ handler.pc \in {"level", "model"} /\ Config!PumpIdle
         /\ handler' = [handler EXCEPT !.pc = "failed"]
         /\ UNCHANGED <<protocol, truth, levels, stamp, recent, window, reading, outbound, mode,
                        options,
                        usage, been, silent>>
Cleared == Config!clear_thinking_stamp /\ UNCHANGED protocol
Windowed == /\ handler.pc = "window" /\ Config!PumpIdle /\ window' = Window[handler.model]
            /\ handler' = [handler EXCEPT !.pc = "read"]
            /\ UNCHANGED <<protocol, truth, levels, stamp, recent, reading, outbound, mode,
                           options, usage,
                           been, silent>>
Reads == /\ handler.pc = "read" /\ Config!PumpIdle
         /\ handler' = [handler EXCEPT !.pc = "levels", !.read = truth]
         /\ UNCHANGED <<protocol, truth, levels, stamp, recent, window, reading, outbound, mode,
                        options,
                        usage, been, silent>>
Refreshes == Config!emit_config_options_update /\ UNCHANGED protocol
Expires == Config!Expire /\ UNCHANGED protocol
MovesItself == /\ Config!Calm
               /\ \E m \in Models, l \in Config!Levels :
                      Config!PiBecomes(m, l) /\ silent' = (silent \/ m # truth.model)
               /\ UNCHANGED <<protocol, handler, stamp, recent, window, reading, outbound, mode,
                              options,
                              usage>>
UsageReported == Config!PiReports /\ UNCHANGED protocol
LevelChanged == /\ Config!PumpIdle /\ levels # <<>> /\ Head(levels).kind = "level"
                /\ levels' = Tail(levels)
                /\ outbound' = outbound \o Config!emit_mode(Head(levels).level)
                /\ reading' = IF stamp THEN reading
                       ELSE [model |-> truth.model, level |-> Head(levels).level]
                /\ UNCHANGED <<protocol, truth, handler, stamp, recent, window, mode, options,
                               usage, been,
                               silent>>
Emits == Config!emit_config_options /\ UNCHANGED protocol
EmitsUsage == Config!emit_usage_update /\ UNCHANGED protocol
Arrives == Config!Deliver /\ UNCHANGED protocol

\* The steps under the hypotheses.
LEMMA StepsApart ==
    ASSUME Config!ConfigAssumption, Apart, ConfigTypes, Config!Next
    PROVE  \/ SetsLevel \/ SetsModel \/ ObeysLevel \/ ObeysModel \/ Fails \/ Cleared \/ Windowed
           \/ Reads \/ Refreshes \/ Expires \/ MovesItself \/ UsageReported \/ LevelChanged \/ Emits
           \/ EmitsUsage \/ Arrives
<1>0. UNCHANGED protocol
  BY DEF Config!Next
<1>1. ASSUME NEW l \in Targets, Config!SetLevel(l) PROVE SetsLevel
  <2>1. l \in Config!Levels
    BY DEF Config!ConfigAssumption
  <2> QED BY <1>0, <1>1, <2>1 DEF Config!SetLevel, Config!Sets, Apart, SetsLevel, Requesting
<1>2. ASSUME NEW m \in Models, Config!SetModel(m) PROVE SetsModel
  BY <1>0, <1>2 DEF Config!SetModel, Config!Sets, Apart, SetsModel, Requesting
<1>3. Config!Obeys => ObeysLevel \/ ObeysModel
  <2>1. handler.pc = "level" /\ Config!Obeys => ObeysLevel
    BY <1>0 DEF Config!Obeys, ObeysLevel
  <2>2. handler.pc = "model" /\ Config!Obeys => ObeysModel
    BY <1>0 DEF Config!Obeys, ObeysModel
  <2> QED BY <2>1, <2>2 DEF Config!Obeys
<1>4. Config!Refuses => Fails
  <2>1. "late" \notin Lossy
    BY DEF Apart
  <2> QED BY <1>0, <2>1 DEF Config!Refuses, Fails
<1>5. Config!SetContextWindow => Windowed
  <2>1. handler.model \in Models
    BY DEF ConfigTypes
  <2> QED BY <1>0, <2>1 DEF Config!SetContextWindow, Windowed, Apart
<1>6. Config!ReadState => Reads
  <2>1. "read" \notin Lossy
    BY DEF Apart
  <2> QED BY <1>0, <2>1 DEF Config!ReadState, Reads
<1>7. ASSUME NEW m \in Models, NEW l \in Targets, Config!PiMovesItself(m, l) PROVE MovesItself
  <2>1. l \in Config!Levels
    BY DEF Config!ConfigAssumption
  <2> QED BY <1>0, <1>7, <2>1 DEF Config!PiMovesItself, Apart, MovesItself
<1>8. Config!on_thinking_level_changed => LevelChanged
  <2>1. "read" \notin Lossy
    BY DEF Apart
  <2> QED BY <1>0, <2>1 DEF Config!on_thinking_level_changed, LevelChanged
<1>9. /\ (Config!clear_thinking_stamp => Cleared) /\ (Config!emit_config_options_update => Refreshes)
      /\ (Config!Expire => Expires) /\ (Config!PiReports => UsageReported)
      /\ (Config!emit_config_options => Emits)
      /\ (Config!emit_usage_update => EmitsUsage) /\ (Config!Deliver => Arrives)
  BY <1>0 DEF Cleared, Refreshes, Expires, UsageReported, Emits, EmitsUsage, Arrives
<1>10. Config!Handler => SetsLevel \/ SetsModel \/ Cleared \/ Refreshes
  BY <1>1, <1>2, <1>9 DEF Config!Handler
<1>11. Config!Pump =>
           \/ ObeysLevel \/ ObeysModel \/ Fails \/ Windowed \/ Reads \/ LevelChanged \/ Emits
                      \/ EmitsUsage
  BY <1>3, <1>4, <1>5, <1>6, <1>8, <1>9 DEF Config!Pump
<1>12. Config!Pi => UsageReported \/ MovesItself
  BY <1>7, <1>9 DEF Config!Pi
<1> QED BY <1>9, <1>10, <1>11, <1>12 DEF Config!Next

-----------------------------------------------------------------------------
\* Types are kept.
PCs == {"idle", "level", "model", "failed", "window", "read", "levels"}
Handlers == [pc : PCs, model : Models, level : Config!Levels, read : PiStates]

\* The handler's idle record, and the reading that is none.
LEMMA NothingMuch ==
    ASSUME Config!ConfigAssumption
    PROVE  /\ Config!Idle \in Handlers /\ Config!Idle.pc = "idle"
           /\ \A s \in PiStates : s # Config!Nothing /\ s.model \in Models /\ s.level \in Config!Levels
           /\ \A h \in Handlers, pc \in PCs : [h EXCEPT !.pc = pc] \in Handlers
<1>1. First \in Models /\ 1 \in Config!Levels /\ [model |-> First, level |-> 1] \in PiStates
  BY DEF Config!ConfigAssumption, Config!Levels, PiStates
<1>2. Config!Idle \in Handlers /\ Config!Idle.pc = "idle"
  BY <1>1 DEF Config!Idle, Handlers, PCs
<1>3. \A s \in PiStates : s # Config!Nothing /\ s.model \in Models /\ s.level \in Config!Levels
  BY DEF PiStates, Config!Nothing, Config!Levels
<1>4. \A h \in Handlers, pc \in PCs : [h EXCEPT !.pc = pc] \in Handlers
  BY DEF Handlers
<1> QED BY <1>2, <1>3, <1>4

\* ConfigTypes, at the start and after every step.
LEMMA TypesStart ==
    ASSUME Config!ConfigAssumption, Config!Init
    PROVE  ConfigTypes
<1>1. First \in Models /\ Config!Medium \in Config!Levels
  BY DEF Config!ConfigAssumption, Config!Medium, Config!Levels
<1>2. truth \in PiStates /\ truth.model = First
  BY <1>1, ClampIsSettles DEF Config!Init, PiStates
<1>3. truth.level \in Config!Levels
  BY <1>2 DEF PiStates
<1>4. /\ Config!model_state_from_parts(truth) \in SUBSET Models
      /\ truth.model \in Config!model_state_from_parts(truth)
  BY <1>1, <1>2 DEF Config!model_state_from_parts, Config!ConfigAssumption
<1>5. options \in ConfigOptions /\ options.model \in DOMAIN options.choices
  BY <1>1, <1>2, <1>4, OptionsAreBuilt DEF Config!Init
<1>6. usage \in [size : Nat, model : Models]
  BY <1>1 DEF Config!Init, Config!ConfigAssumption
<1>7. handler \in Handlers
  BY NothingMuch DEF Config!Init
<1>8. levels \in Seq(ConfigEvents) /\ outbound \in Seq(ConfigMessages)
  BY EmptySeq DEF Config!Init
<1>9. mode \in Config!Levels /\ been \in SUBSET Config!Levels
  BY <1>3 DEF Config!Init
<1> QED BY <1>1, <1>2, <1>5, <1>6, <1>7, <1>8, <1>9 DEF Config!Init, ConfigTypes, Handlers, PCs

\* A step of a handler, of pi, of the pump or of the client keeps the types.
LEMMA TypesStep ==
    ASSUME Config!ConfigAssumption, Apart, ConfigTypes, [Config!Next]_(Config!vars)
    PROVE  ConfigTypes'
<1> USE NothingMuch
<1>0. /\ protocol \in Protocols /\ truth \in PiStates
      /\ levels \in Seq(ConfigEvents) /\ outbound \in Seq(ConfigMessages)
      /\ handler \in Handlers
      /\ stamp \in BOOLEAN /\ recent \in BOOLEAN /\ silent \in BOOLEAN
      /\ window \in {Window[m] : m \in Models}
      /\ reading \in PiStates \cup {Config!Nothing}
      /\ mode \in Config!Levels /\ been \subseteq Config!Levels
      /\ options \in ConfigOptions /\ options.model \in DOMAIN options.choices
      /\ usage \in [size : Nat, model : Models]
  BY DEF ConfigTypes, Handlers, PCs
<1>00. /\ handler.pc \in PCs /\ handler.model \in Models /\ handler.level \in Config!Levels
       /\ handler.read \in PiStates
  BY <1>0 DEF Handlers
<1>Q. ASSUME handler' \in Handlers
      PROVE  handler' \in [pc : {"idle", "level", "model", "failed", "window", "read", "levels"},
                           model : Models, level : Config!Levels, read : PiStates]
  BY <1>Q DEF Handlers, PCs
<1>1. ASSUME SetsLevel \/ SetsModel PROVE ConfigTypes'
  <2>1. handler' \in Handlers
    <3>1. \A l \in Config!Levels : [Config!Idle EXCEPT !.pc = "level", !.level = l] \in Handlers
      BY DEF Handlers, PCs
    <3>2. \A m \in Models : [Config!Idle EXCEPT !.pc = "model", !.model = m] \in Handlers
      BY DEF Handlers, PCs
    <3> QED BY <1>1, <3>1, <3>2 DEF SetsLevel, SetsModel
  <2>2. Requesting
    BY <1>1 DEF SetsLevel, SetsModel
  <2> QED BY <1>0, <1>Q, <2>1, <2>2 DEF Requesting, ConfigTypes
<1>2. ASSUME ObeysLevel \/ ObeysModel PROVE ConfigTypes'
  <2>1. truth' \in PiStates /\ been' \in SUBSET Config!Levels /\ levels' \in Seq(ConfigEvents)
    <3>1. truth.model \in Models /\ truth.level \in Config!Levels
      BY <1>0
    <3> QED BY <1>2, <1>00, <3>1, PiChanges DEF ObeysLevel, ObeysModel
  <2>2. handler' \in Handlers
    BY <1>0, <1>2 DEF ObeysLevel, ObeysModel, PCs
  <2>3. recent' \in BOOLEAN /\ silent' \in BOOLEAN
    BY <1>0, <1>2 DEF ObeysLevel, ObeysModel
  <2>4. UNCHANGED <<protocol, stamp, window, reading, outbound, mode, options, usage>>
    BY <1>2 DEF ObeysLevel, ObeysModel
  <2> QED BY <1>0, <1>Q, <2>1, <2>2, <2>3, <2>4 DEF ConfigTypes
<1>3. ASSUME Fails PROVE ConfigTypes'
  <2>1. handler' \in Handlers
    BY <1>0, <1>3 DEF Fails, PCs
  <2> QED BY <1>0, <1>3, <1>Q, <2>1 DEF Fails, ConfigTypes
<1>4. ASSUME Cleared PROVE ConfigTypes'
  BY <1>0, <1>4, <1>Q DEF Cleared, Config!clear_thinking_stamp, ConfigTypes
<1>5. ASSUME Windowed PROVE ConfigTypes'
  <2>1. handler' \in Handlers
    BY <1>0, <1>5 DEF Windowed, PCs
  <2> QED BY <1>0, <1>00, <1>5, <1>Q, <2>1 DEF Windowed, ConfigTypes
<1>6. ASSUME Reads PROVE ConfigTypes'
  <2>1. handler' \in Handlers
    BY <1>0, <1>6 DEF Reads, PCs, Handlers
  <2> QED BY <1>0, <1>6, <1>Q, <2>1 DEF Reads, ConfigTypes
<1>7. ASSUME Refreshes PROVE ConfigTypes'
  <2>1. /\ truth.model \in Models /\ handler.read.model \in Models
        /\ handler.read.level \in Config!Levels
    BY <1>0, <1>00
  <2>2. /\ Config!model_state_from_parts(handler.read) \in SUBSET Models
        /\ handler.read.model \in Config!model_state_from_parts(handler.read)
    BY <2>1 DEF Config!model_state_from_parts, Config!ConfigAssumption
  <2>3. options' \in ConfigOptions /\ options'.model \in DOMAIN options'.choices
    BY <1>00, <1>7, <2>1, <2>2, OptionsAreBuilt DEF Refreshes, Config!emit_config_options_update
  <2>4. mode' \in Config!Levels
    BY <1>0, <1>7, <2>1 DEF Refreshes, Config!emit_config_options_update
  <2> QED BY <1>0, <1>7, <1>Q, <2>3, <2>4 DEF Refreshes, Config!emit_config_options_update,
             ConfigTypes
<1>8. ASSUME Expires PROVE ConfigTypes'
  BY <1>0, <1>8, <1>Q DEF Expires, Config!Expire, ConfigTypes
<1>9. ASSUME MovesItself PROVE ConfigTypes'
  <2>1. PICK m \in Models, l \in Config!Levels :
            Config!PiBecomes(m, l) /\ silent' = (silent \/ m # truth.model)
    BY <1>9 DEF MovesItself
  <2>2. truth' \in PiStates /\ been' \in SUBSET Config!Levels /\ levels' \in Seq(ConfigEvents)
    BY <2>1, PiChanges
  <2>3. silent' \in BOOLEAN
    BY <1>0, <2>1
  <2> QED BY <1>0, <1>9, <1>Q, <2>2, <2>3 DEF MovesItself, ConfigTypes
<1>10. ASSUME UsageReported PROVE ConfigTypes'
  <2>1. [kind |-> "usage", model |-> truth.model] \in ConfigEvents
    BY <1>0 DEF ConfigEvents
  <2>2. levels' \in Seq(ConfigEvents)
    BY <1>0, <1>10, <2>1, AppendProperties DEF UsageReported, Config!PiReports
  <2> QED BY <1>0, <1>10, <1>Q, <2>2 DEF UsageReported, Config!PiReports, ConfigTypes
<1>11. ASSUME LevelChanged PROVE ConfigTypes'
  <2>1. Head(levels) \in ConfigEvents /\ levels' \in Seq(ConfigEvents)
    BY <1>0, <1>11, EmptySeq DEF LevelChanged
  <2>2. Head(levels).level \in Config!Levels
    BY <1>11, <2>1, MessagesAreTyped DEF LevelChanged
  <2>3. [kind |-> "mode", level |-> Head(levels).level] \in ConfigMessages
    BY <2>2 DEF ConfigMessages
  <2>4. Config!emit_mode(Head(levels).level) \in Seq(ConfigMessages)
    BY <2>3 DEF Config!emit_mode
  <2>5. outbound' \in Seq(ConfigMessages)
    BY <1>0, <1>11, <2>4 DEF LevelChanged
  <2>6. reading' \in PiStates \cup {Config!Nothing}
    BY <1>0, <1>11, <2>2 DEF LevelChanged, PiStates
  <2> QED BY <1>0, <1>11, <1>Q, <2>1, <2>5, <2>6 DEF LevelChanged, ConfigTypes
<1>12. ASSUME Emits PROVE ConfigTypes'
  <2>1. reading \in PiStates /\ reading.model \in Models /\ truth.model \in Models
    BY <1>0, <1>12 DEF Emits, Config!emit_config_options, Config!PumpIdle
  <2> DEFINE o == Config!OptionsOf(reading, Config!supported_thinking_levels(truth.model), Models)
  <2>2. o \in ConfigOptions /\ o.model \in DOMAIN o.choices
    BY <2>1, OptionsAreBuilt
  <2> HIDE DEF o
  <2>3. [kind |-> "options", options |-> o] \in ConfigMessages
    BY <2>2 DEF ConfigMessages
  <2>4. outbound' = Append(outbound, [kind |-> "options", options |-> o])
    BY <1>12 DEF Emits, Config!emit_config_options, o
  <2>5. outbound' \in Seq(ConfigMessages)
    BY <1>0, <2>3, <2>4, AppendProperties
  <2> QED BY <1>0, <1>12, <1>Q, <2>5 DEF Emits, Config!emit_config_options, ConfigTypes
<1>13. ASSUME EmitsUsage PROVE ConfigTypes'
  <2>1. Head(levels) \in ConfigEvents /\ levels' \in Seq(ConfigEvents)
    BY <1>0, <1>13, EmptySeq DEF EmitsUsage, Config!emit_usage_update
  <2>2. Head(levels).model \in Models /\ window \in Nat
    BY <1>0, <1>13, <2>1, MessagesAreTyped DEF EmitsUsage, Config!emit_usage_update,
       Config!ConfigAssumption
  <2>3. [kind |-> "usage", size |-> window, model |-> Head(levels).model] \in ConfigMessages
    BY <2>2 DEF ConfigMessages
  <2>4. outbound' \in Seq(ConfigMessages)
    BY <1>0, <1>13, <2>3, AppendProperties DEF EmitsUsage, Config!emit_usage_update
  <2> QED BY <1>0, <1>13, <1>Q, <2>1, <2>4 DEF EmitsUsage, Config!emit_usage_update, ConfigTypes
<1>14. ASSUME Arrives PROVE ConfigTypes'
  <2> DEFINE o == Head(outbound)
  <2>1. o \in ConfigMessages /\ outbound' \in Seq(ConfigMessages)
    BY <1>0, <1>14, EmptySeq DEF Arrives, Config!Deliver
  <2>2. /\ mode' = IF o.kind = "mode" THEN o.level ELSE mode
        /\ options' = IF o.kind = "options" THEN o.options ELSE options
        /\ usage' = IF o.kind = "usage" THEN [size |-> o.size, model |-> o.model] ELSE usage
    BY <1>14 DEF Arrives, Config!Deliver
  <2> HIDE DEF o
  <2>3. mode' \in Config!Levels
    BY <1>0, <2>1, <2>2, MessagesAreTyped
  <2>4. options' \in ConfigOptions /\ options'.model \in DOMAIN options'.choices
    BY <1>0, <2>1, <2>2, MessagesAreTyped
  <2>5. usage' \in [size : Nat, model : Models]
    BY <1>0, <2>1, <2>2, MessagesAreTyped
  <2> QED BY <1>0, <1>14, <1>Q, <2>1, <2>3, <2>4, <2>5 DEF Arrives, Config!Deliver, ConfigTypes
<1>15. ASSUME UNCHANGED Config!vars PROVE ConfigTypes'
  BY <1>0, <1>Q, <1>15 DEF Config!vars, ConfigTypes
<1> QED
  <2>1. CASE Config!Next
    BY <2>1, <1>1, <1>2, <1>3, <1>4, <1>5, <1>6, <1>7, <1>8, <1>9, <1>10, <1>11, <1>12, <1>13,
       <1>14, StepsApart
  <2> QED BY <1>15, <2>1

-----------------------------------------------------------------------------
\* What a step does to the handler's place and to the pipes.
LEMMA Places ==
    ASSUME Config!ConfigAssumption, ConfigTypes
    PROVE  /\ handler.pc \in PCs
           /\ SetsLevel \/ SetsModel => handler'.pc \in {"level", "model"} /\ handler.pc = "idle"
           /\ ObeysLevel => handler'.pc = "read" /\ handler.pc = "level"
           /\ ObeysModel =>
                  handler'.pc = "window" /\ handler'.model = handler.model /\ handler.pc = "model"
           /\ Fails => handler'.pc = "failed" /\ handler.pc \in {"level", "model"}
           /\ Cleared => handler'.pc = "idle" /\ handler.pc = "failed"
           /\ Windowed => handler'.pc = "read" /\ handler.pc = "window"
           /\ Reads => handler'.pc = "levels" /\ handler'.read = truth /\ handler.pc = "read"
           /\ Refreshes => handler'.pc = "idle" /\ handler.pc = "levels"
           /\ MovesItself => handler' = handler /\ handler.pc = "idle"
<1>1. handler \in Handlers /\ Config!Idle.pc = "idle"
  BY NothingMuch DEF ConfigTypes, Handlers, PCs
<1>2. handler.pc \in PCs
  BY <1>1 DEF Handlers
<1>3. SetsLevel \/ SetsModel => handler'.pc \in {"level", "model"} /\ handler.pc = "idle"
  BY DEF SetsLevel, SetsModel, Requesting, Config!Quiet, Config!Idle
<1>4. /\ ObeysLevel => handler'.pc = "read" /\ handler.pc = "level"
      /\ ObeysModel =>
             handler'.pc = "window" /\ handler'.model = handler.model /\ handler.pc = "model"
  BY <1>1 DEF Handlers, ObeysLevel, ObeysModel
<1>5. /\ Fails => handler'.pc = "failed" /\ handler.pc \in {"level", "model"}
      /\ Windowed => handler'.pc = "read" /\ handler.pc = "window"
      /\ Reads => handler'.pc = "levels" /\ handler'.read = truth /\ handler.pc = "read"
  BY <1>1 DEF Handlers, Fails, Windowed, Reads
<1>6. /\ Cleared => handler'.pc = "idle" /\ handler.pc = "failed"
      /\ Refreshes => handler'.pc = "idle" /\ handler.pc = "levels"
      /\ MovesItself => handler' = handler /\ handler.pc = "idle"
  BY <1>1 DEF Cleared, Config!clear_thinking_stamp, Refreshes, Config!emit_config_options_update,
     MovesItself, Config!Calm
<1> QED BY <1>2, <1>3, <1>4, <1>5, <1>6

\* A mode is sent on v1, and nothing else is.
LEMMA ModesAreSent ==
    ASSUME Config!ConfigAssumption, ConfigTypes, LevelChanged
    PROVE  /\ Head(levels) \in ConfigEvents /\ levels # <<>> /\ levels' = Tail(levels)
           /\ Head(levels).kind = "level" /\ LevelOf(Head(levels)) = Head(levels).level
           /\ Head(levels).level \in Config!Levels
           /\ IF protocol = "v1"
              THEN LET e == [kind |-> "mode", level |-> Head(levels).level]
                   IN  /\ outbound' = Append(outbound, e) /\ e \in ConfigMessages
                       /\ e.kind = "mode" /\ LevelOf(e) = Head(levels).level
              ELSE outbound' = outbound
<1>1. Head(levels) \in ConfigEvents /\ levels # <<>> /\ levels' = Tail(levels)
  BY EmptySeq DEF LevelChanged, ConfigTypes
<1>2. /\ Head(levels).kind = "level" /\ LevelOf(Head(levels)) = Head(levels).level
      /\ Head(levels).level \in Config!Levels
  BY <1>1, MessagesAreTyped DEF LevelChanged
<1> DEFINE e == [kind |-> "mode", level |-> Head(levels).level]
<1>3. e \in ConfigMessages /\ e.kind = "mode"
  BY <1>2 DEF ConfigMessages
<1>4. LevelOf(e) = Head(levels).level
  BY DEF LevelOf
<1>5. /\ outbound \in Seq(ConfigMessages)
      /\ outbound' = outbound \o Config!emit_mode(Head(levels).level)
  BY DEF LevelChanged, ConfigTypes
<1>6. Config!emit_mode(Head(levels).level) = IF protocol = "v1" THEN <<e>> ELSE <<>>
  BY DEF Config!emit_mode
<1> HIDE DEF e
<1>7. outbound \o <<e>> = Append(outbound, e) /\ outbound \o <<>> = outbound
  BY <1>3, <1>5
<1>8. IF protocol = "v1" THEN outbound' = Append(outbound, e) ELSE outbound' = outbound
  BY <1>5, <1>6, <1>7
<1> QED BY <1>1, <1>2, <1>3, <1>4, <1>8 DEF e

\* The options the pump sends are those of what it read.
LEMMA OptionsAreSent ==
    ASSUME Config!ConfigAssumption, ConfigTypes, Emits
    PROVE  \E e \in ConfigMessages :
               /\ outbound' = Append(outbound, e) /\ e.kind = "options"
               /\ LevelOf(e) = reading.level /\ e.options.level = reading.level
               /\ e.options.model = reading.model
               /\ e.options.levels = Config!supported_thinking_levels(truth.model)
               /\ reading \in PiStates /\ reading # Config!Nothing
<1>1. reading \in PiStates /\ reading # Config!Nothing
  BY DEF ConfigTypes, Emits, Config!emit_config_options, Config!PumpIdle
<1>2. reading.model \in Models /\ truth.model \in Models
  BY <1>1 DEF ConfigTypes, PiStates
<1> DEFINE o == Config!OptionsOf(reading, Config!supported_thinking_levels(truth.model), Models)
           e == [kind |-> "options", options |-> o]
<1>3. /\ o \in ConfigOptions /\ o.model \in DOMAIN o.choices /\ o.level = reading.level
      /\ o.model = reading.model /\ o.levels = Config!supported_thinking_levels(truth.model)
  BY <1>1, <1>2, OptionsAreBuilt
<1>4. outbound' = Append(outbound, e)
  BY DEF Emits, Config!emit_config_options
<1> HIDE DEF o
<1>5. e \in ConfigMessages /\ LevelOf(e) = o.level /\ e.kind = "options" /\ e.options = o
  BY <1>3 DEF ConfigMessages, LevelOf
<1> QED BY <1>1, <1>3, <1>4, <1>5

\* A usage update leaves the levels alone.
LEMMA UsageIsSent ==
    ASSUME Config!ConfigAssumption, ConfigTypes, EmitsUsage
    PROVE  /\ Head(levels) \in ConfigEvents /\ levels # <<>> /\ levels' = Tail(levels)
           /\ Head(levels).kind = "usage"
           /\ outbound' = outbound \/ \E e \in ConfigMessages : /\ e.kind = "usage"
                                                                /\ outbound' = Append(outbound, e)
<1>1. Head(levels) \in ConfigEvents /\ levels # <<>> /\ levels' = Tail(levels)
  BY EmptySeq DEF EmitsUsage, Config!emit_usage_update, ConfigTypes
<1>2. Head(levels).kind = "usage"
  BY DEF EmitsUsage, Config!emit_usage_update
<1>3. Head(levels).model \in Models /\ window \in Nat
  BY <1>1, <1>2, MessagesAreTyped DEF ConfigTypes, Config!ConfigAssumption
<1> DEFINE e == [kind |-> "usage", size |-> window, model |-> Head(levels).model]
<1>4. e \in ConfigMessages /\ e.kind = "usage"
  BY <1>3 DEF ConfigMessages
<1>5. outbound' = outbound \/ outbound' = Append(outbound, e)
  BY DEF EmitsUsage, Config!emit_usage_update
<1> QED BY <1>1, <1>2, <1>4, <1>5

-----------------------------------------------------------------------------
\* What pi's change adds to the events.
LEMMA ChangeIsTold ==
    ASSUME Config!ConfigAssumption, ConfigTypes, NEW m \in Models, NEW l \in Config!Levels,
           Config!PiBecomes(m, l)
    PROVE  /\ AllTell("level", levels, truth'.level) => AllTell("level", levels', truth'.level)
           /\ LastTells("level", levels, truth.level) => LastTells("level", levels', truth'.level)
           /\ NoneOf("level", levels') => NoneOf("level", levels) /\ truth'.level = truth.level
           /\ truth'.level = truth.level => levels' = levels
<1>1. /\ truth' \in PiStates /\ levels \in Seq(ConfigEvents)
      /\ IF truth'.level # truth.level
         THEN levels' = Append(levels, [kind |-> "level", level |-> truth'.level])
         ELSE levels' = levels
  BY PiChanges DEF ConfigTypes
<1> DEFINE e == [kind |-> "level", level |-> truth'.level]
<1>2. e \in ConfigEvents /\ e.kind = "level" /\ LevelOf(e) = truth'.level
  BY <1>1 DEF ConfigEvents, LevelOf, PiStates
<1>3. IF truth'.level # truth.level THEN levels' = Append(levels, e) ELSE levels' = levels
  BY <1>1
<1> HIDE DEF e
<1>4. CASE truth'.level # truth.level
  <2> DEFINE k == truth'.level
  <2>1. LevelOf(e) = k /\ levels' = Append(levels, e) /\ k # truth.level
    BY <1>2, <1>3, <1>4
  <2> HIDE DEF k
  <2>2. /\ ~NoneOf("level", Append(levels, e)) /\ LastTells("level", Append(levels, e), k)
        /\ AllTell("level", levels, k) => AllTell("level", Append(levels, e), k)
    BY <1>1, <1>2, <2>1, KindAppended
  <2> QED BY <2>1, <2>2 DEF k
<1>5. CASE truth'.level = truth.level
  BY <1>3, <1>5
<1> QED BY <1>4, <1>5

\* No message of a kind tells anything.
LEMMA NothingTells ==
    ASSUME NEW s, NEW kind, NEW l, NoneOf(kind, s)
    PROVE  AllTell(kind, s, l) /\ LastTells(kind, s, l)
BY DEF NoneOf, AllTell, LastTells

\* Nothing is on its way at the start.
LEMMA NothingInNone == NoneOf("level", <<>>) /\ NoneOf("options", <<>>) /\ NoneOf("mode", <<>>)
BY DEF NoneOf

\* What all tell, the last one tells.
LEMMA AllTellLast ==
    ASSUME NEW s, NEW kind, NEW l, AllTell(kind, s, l)
    PROVE  LastTells(kind, s, l)
BY DEF AllTell, LastTells

\* One more event of another kind, one less; and the like for what is on its way to the client.
LEMMA PipesMove ==
    ASSUME Config!ConfigAssumption, ConfigTypes, NEW l
    PROVE  /\ UsageReported => /\ AllTell("level", levels, l) => AllTell("level", levels', l)
                               /\ LastTells("level", levels, l) => LastTells("level", levels', l)
                               /\ NoneOf("level", levels) <=> NoneOf("level", levels')
           /\ LevelChanged =>
                  /\ AllTell("level", levels, l) => AllTell("level", levels', l)
                  /\ LastTells("level", levels, l) => LastTells("level", levels', l)
                  /\ AllTell("level", levels, l) => Head(levels).level = l
                  /\ LastTells("level", levels, l) /\ NoneOf("level", levels') =>
                         Head(levels).level = l
                  /\ ~NoneOf("level", levels)
                  /\ AllTell("options", outbound, l) => AllTell("options", outbound', l)
                  /\ LastTells("options", outbound, l) => LastTells("options", outbound', l)
                  /\ NoneOf("options", outbound) <=> NoneOf("options", outbound')
                  /\ protocol = "v1" => /\ ~NoneOf("mode", outbound')
                                        /\ Head(levels).level = l => LastTells("mode", outbound', l)
           /\ Emits =>
                  /\ ~NoneOf("options", outbound')
                  /\ reading.level = l => LastTells("options", outbound', l)
                  /\ AllTell("options", outbound, l) /\ reading.level = l =>
                         AllTell("options", outbound', l)
                  /\ LastTells("mode", outbound, l) => LastTells("mode", outbound', l)
                  /\ NoneOf("mode", outbound) <=> NoneOf("mode", outbound')
           /\ EmitsUsage =>
                  /\ AllTell("level", levels, l) => AllTell("level", levels', l)
                  /\ LastTells("level", levels, l) => LastTells("level", levels', l)
                  /\ NoneOf("level", levels) <=> NoneOf("level", levels')
                  /\ AllTell("options", outbound, l) => AllTell("options", outbound', l)
                  /\ LastTells("options", outbound, l) => LastTells("options", outbound', l)
                  /\ NoneOf("options", outbound) <=> NoneOf("options", outbound')
                  /\ LastTells("mode", outbound, l) => LastTells("mode", outbound', l)
                  /\ NoneOf("mode", outbound) <=> NoneOf("mode", outbound')
           /\ Arrives =>
                  /\ AllTell("options", outbound, l) => AllTell("options", outbound', l)
                  /\ LastTells("options", outbound, l) => LastTells("options", outbound', l)
                  /\ NoneOf("options", outbound) => NoneOf("options", outbound')
                  /\ LastTells("mode", outbound, l) => LastTells("mode", outbound', l)
                  /\ NoneOf("mode", outbound) => NoneOf("mode", outbound')
                  /\ outbound # <<>> /\ outbound' = Tail(outbound)
                  /\ Head(outbound) \in ConfigMessages
                  /\ \A kind \in {"mode", "options"} :
                         NoneOf(kind, outbound') /\ ~NoneOf(kind, outbound) =>
                             /\ Head(outbound).kind = kind
                             /\ LastTells(kind, outbound, l) => LevelOf(Head(outbound)) = l
                  /\ \A kind \in {"mode", "options"} : NoneOf(kind, outbound) =>
                         Head(outbound).kind # kind
<1>0. levels \in Seq(ConfigEvents) /\ outbound \in Seq(ConfigMessages) /\ truth \in PiStates
  BY DEF ConfigTypes
<1>1. ASSUME UsageReported
      PROVE  /\ AllTell("level", levels, l) => AllTell("level", levels', l)
             /\ LastTells("level", levels, l) => LastTells("level", levels', l)
             /\ NoneOf("level", levels) <=> NoneOf("level", levels')
  <2> DEFINE e == [kind |-> "usage", model |-> truth.model]
  <2>1. e \in ConfigEvents /\ e.kind # "level" /\ levels' = Append(levels, e)
    BY <1>0, <1>1 DEF ConfigEvents, PiStates, UsageReported, Config!PiReports
  <2> HIDE DEF e
  <2> QED BY <1>0, <2>1, KindAppended
<1>2. ASSUME LevelChanged
      PROVE  /\ AllTell("level", levels, l) => AllTell("level", levels', l)
             /\ LastTells("level", levels, l) => LastTells("level", levels', l)
             /\ AllTell("level", levels, l) => Head(levels).level = l
             /\ LastTells("level", levels, l) /\ NoneOf("level", levels') => Head(levels).level = l
             /\ ~NoneOf("level", levels)
             /\ AllTell("options", outbound, l) => AllTell("options", outbound', l)
             /\ LastTells("options", outbound, l) => LastTells("options", outbound', l)
             /\ NoneOf("options", outbound) <=> NoneOf("options", outbound')
             /\ protocol = "v1" => /\ ~NoneOf("mode", outbound')
                                   /\ Head(levels).level = l => LastTells("mode", outbound', l)
  <2>1. /\ Head(levels) \in ConfigEvents /\ levels # <<>> /\ levels' = Tail(levels)
        /\ Head(levels).kind = "level" /\ LevelOf(Head(levels)) = Head(levels).level
    BY <1>2, ModesAreSent
  <2>2. /\ AllTell("level", levels, l) => AllTell("level", levels', l)
        /\ LastTells("level", levels, l) => LastTells("level", levels', l)
        /\ LastTells("level", levels, l) /\ NoneOf("level", levels') => Head(levels).level = l
    BY <1>0, <2>1, KindDropped
  <2>3. 1 \in DOMAIN levels /\ Head(levels) = levels[1]
    BY <1>0, <2>1, EmptySeq
  <2>4. /\ AllTell("level", levels, l) => Head(levels).level = l
        /\ ~NoneOf("level", levels)
    BY <2>1, <2>3 DEF AllTell, NoneOf
  <2>5. CASE protocol = "v1"
    <3>1. PICK e \in ConfigMessages : /\ outbound' = Append(outbound, e) /\ e.kind = "mode"
                                      /\ LevelOf(e) = Head(levels).level
      BY <1>2, <2>5, ModesAreSent
    <3>2. /\ AllTell("options", outbound, l) => AllTell("options", outbound', l)
          /\ LastTells("options", outbound, l) => LastTells("options", outbound', l)
          /\ NoneOf("options", outbound) <=> NoneOf("options", outbound')
      BY <1>0, <3>1, KindAppended
    <3>3. /\ ~NoneOf("mode", outbound')
          /\ Head(levels).level = l => LastTells("mode", outbound', l)
      BY <1>0, <3>1, KindAppended
    <3> QED BY <2>2, <2>4, <3>2, <3>3
  <2>6. CASE protocol # "v1"
    BY <1>2, <2>2, <2>4, <2>6, ModesAreSent
  <2> QED BY <2>5, <2>6
<1>3. ASSUME Emits
      PROVE  /\ ~NoneOf("options", outbound')
             /\ reading.level = l => LastTells("options", outbound', l)
             /\ AllTell("options", outbound, l) /\ reading.level = l =>
                    AllTell("options", outbound', l)
             /\ LastTells("mode", outbound, l) => LastTells("mode", outbound', l)
             /\ NoneOf("mode", outbound) <=> NoneOf("mode", outbound')
  <2>1. PICK e \in ConfigMessages : /\ outbound' = Append(outbound, e) /\ e.kind = "options"
                                    /\ LevelOf(e) = reading.level
    BY <1>3, OptionsAreSent
  <2>2. /\ ~NoneOf("options", outbound')
        /\ reading.level = l => LastTells("options", outbound', l)
        /\ AllTell("options", outbound, l) /\ reading.level = l =>
               AllTell("options", outbound', l)
    BY <1>0, <2>1, KindAppended
  <2>3. /\ LastTells("mode", outbound, l) => LastTells("mode", outbound', l)
        /\ NoneOf("mode", outbound) <=> NoneOf("mode", outbound')
    BY <1>0, <2>1, KindAppended
  <2> QED BY <2>2, <2>3
<1>4. ASSUME EmitsUsage
      PROVE  /\ AllTell("level", levels, l) => AllTell("level", levels', l)
             /\ LastTells("level", levels, l) => LastTells("level", levels', l)
             /\ NoneOf("level", levels) <=> NoneOf("level", levels')
             /\ AllTell("options", outbound, l) => AllTell("options", outbound', l)
             /\ LastTells("options", outbound, l) => LastTells("options", outbound', l)
             /\ NoneOf("options", outbound) <=> NoneOf("options", outbound')
             /\ LastTells("mode", outbound, l) => LastTells("mode", outbound', l)
             /\ NoneOf("mode", outbound) <=> NoneOf("mode", outbound')
  <2>1. /\ Head(levels).kind = "usage" /\ levels # <<>> /\ levels' = Tail(levels)
        /\ outbound' = outbound \/ \E e \in ConfigMessages : /\ e.kind = "usage"
                                                             /\ outbound' = Append(outbound, e)
    BY <1>4, UsageIsSent
  <2>2. /\ AllTell("level", levels, l) => AllTell("level", levels', l)
        /\ LastTells("level", levels, l) => LastTells("level", levels', l)
        /\ NoneOf("level", levels) <=> NoneOf("level", levels')
    BY <1>0, <2>1, KindDropped
  <2>3. CASE outbound' = outbound
    BY <2>2, <2>3
  <2>4. CASE \E e \in ConfigMessages : e.kind = "usage" /\ outbound' = Append(outbound, e)
    <3>1. PICK e \in ConfigMessages : e.kind = "usage" /\ outbound' = Append(outbound, e)
      BY <2>4
    <3>2. /\ AllTell("options", outbound, l) => AllTell("options", outbound', l)
          /\ LastTells("options", outbound, l) => LastTells("options", outbound', l)
          /\ NoneOf("options", outbound) <=> NoneOf("options", outbound')
      BY <1>0, <3>1, KindAppended
    <3>3. /\ LastTells("mode", outbound, l) => LastTells("mode", outbound', l)
          /\ NoneOf("mode", outbound) <=> NoneOf("mode", outbound')
      BY <1>0, <3>1, KindAppended
    <3> QED BY <2>2, <3>2, <3>3
  <2> QED BY <2>1, <2>3, <2>4
<1>5. ASSUME Arrives
      PROVE  /\ AllTell("options", outbound, l) => AllTell("options", outbound', l)
             /\ LastTells("options", outbound, l) => LastTells("options", outbound', l)
             /\ NoneOf("options", outbound) => NoneOf("options", outbound')
             /\ LastTells("mode", outbound, l) => LastTells("mode", outbound', l)
             /\ NoneOf("mode", outbound) => NoneOf("mode", outbound')
             /\ outbound # <<>> /\ outbound' = Tail(outbound) /\ Head(outbound) \in ConfigMessages
             /\ \A kind \in {"mode", "options"} :
                    NoneOf(kind, outbound') /\ ~NoneOf(kind, outbound) =>
                        /\ Head(outbound).kind = kind
                        /\ LastTells(kind, outbound, l) => LevelOf(Head(outbound)) = l
             /\ \A kind \in {"mode", "options"} : NoneOf(kind, outbound) =>
                    Head(outbound).kind # kind
  <2>1. outbound # <<>> /\ outbound' = Tail(outbound)
    BY <1>5 DEF Arrives, Config!Deliver
  <2>2. Head(outbound) \in ConfigMessages
    BY <1>0, <2>1, EmptySeq
  <2>3. \A kind \in {"mode", "options"} :
            /\ AllTell(kind, outbound, l) => AllTell(kind, outbound', l)
            /\ LastTells(kind, outbound, l) => LastTells(kind, outbound', l)
            /\ NoneOf(kind, outbound) => NoneOf(kind, outbound')
            /\ NoneOf(kind, outbound') /\ ~NoneOf(kind, outbound) =>
                   /\ Head(outbound).kind = kind
                   /\ LastTells(kind, outbound, l) => LevelOf(Head(outbound)) = l
    BY <1>0, <2>1, KindDropped
  <2>4. 1 \in DOMAIN outbound /\ Head(outbound) = outbound[1]
    BY <1>0, <2>1, EmptySeq
  <2>5. \A kind \in {"mode", "options"} : NoneOf(kind, outbound) => Head(outbound).kind # kind
    BY <2>4 DEF NoneOf
  <2> QED BY <2>1, <2>2, <2>3, <2>5
<1> QED BY <1>1, <1>2, <1>3, <1>4, <1>5

-----------------------------------------------------------------------------
\* From the client's set to the refresh, pi stays where the set left it.
LEMMA SetStep ==
    ASSUME Config!ConfigAssumption, Apart, ConfigTypes, ConfigTypes', SetInv,
           [Config!Next]_(Config!vars)
    PROVE  SetInv'
<1> USE Places, PipesMove
<1>0. /\ levels \in Seq(ConfigEvents) /\ truth \in PiStates /\ truth.model \in Models
      /\ truth.level \in Config!Levels
      /\ handler.model \in Models /\ handler.level \in Config!Levels
  BY DEF ConfigTypes, PiStates
<1>1. ASSUME SetsLevel \/ SetsModel PROVE SetInv'
  <2>1. Requesting
    BY <1>1 DEF SetsLevel, SetsModel
  <2>2. levels = <<>> /\ outbound = <<>> /\ reading = Config!Nothing
    BY <2>1 DEF Requesting, Config!Quiet, Config!PumpIdle
  <2>3. NoneOf("level", levels) /\ NoneOf("options", outbound)
    BY <2>2, NothingInNone
  <2>4. UNCHANGED <<truth, levels, window, reading, outbound, silent>>
    BY <2>1 DEF Requesting
  <2>5. handler'.pc \in {"level", "model"} /\ handler.pc = "idle"
    BY <1>1
  <2>6. NoneOf("level", levels)' /\ NoneOf("options", outbound)'
    BY <2>3, <2>4
  <2> QED BY ONLY <2>2, <2>4, <2>5, <2>6, SetInv DEF SetInv, Obeyed
<1>2. ASSUME ObeysLevel \/ ObeysModel PROVE SetInv'
  <2>1. PICK m \in Models, l \in Config!Levels :
            /\ Config!PiBecomes(m, l)
            /\ (ObeysLevel => m = truth.model) /\ (ObeysModel => m = handler.model)
    BY <1>0, <1>2 DEF ObeysLevel, ObeysModel
  <2>2. truth'.model = m
    BY <2>1, PiChanges
  <2>3. handler.pc \in {"level", "model"} /\ reading = Config!Nothing
    BY <1>2 DEF ObeysLevel, ObeysModel, Config!PumpIdle
  <2>4. NoneOf("level", levels) /\ NoneOf("options", outbound)
    BY <2>3 DEF SetInv
  <2>5. AllTell("level", levels', truth'.level)
    BY <2>1, <2>4, ChangeIsTold, NothingTells
  <2>6. UNCHANGED <<window, reading, outbound>> /\ recent' = TRUE
    BY <1>2 DEF ObeysLevel, ObeysModel
  <2>7. AllTell("options", outbound', truth'.level)
    BY <2>4, <2>6, NothingTells
  <2>8. CASE ObeysLevel
    <3>1. /\ handler'.pc = "read" /\ handler.pc = "level" /\ truth'.model = truth.model
          /\ silent' = silent
      BY <2>1, <2>2, <2>8 DEF ObeysLevel
    <3> QED BY ONLY <2>3, <2>5, <2>6, <2>7, <3>1, SetInv DEF SetInv, Obeyed
  <2>9. CASE ObeysModel
    <3>1. handler'.pc = "window" /\ handler'.model = handler.model /\ truth'.model = handler.model
      BY <2>1, <2>2, <2>9
    <3> QED BY ONLY <2>3, <2>5, <2>6, <2>7, <3>1, SetInv DEF SetInv, Obeyed
  <2> QED BY <1>2, <2>8, <2>9
<1>3. ASSUME Fails PROVE SetInv'
  <2>1. handler'.pc = "failed" /\ handler.pc \in {"level", "model"}
    BY <1>3
  <2>2. UNCHANGED <<truth, levels, stamp, recent, window, reading, outbound, silent>>
    BY <1>3 DEF Fails
  <2> QED BY ONLY <2>1, <2>2, SetInv DEF SetInv, Obeyed
<1>4. ASSUME Cleared PROVE SetInv'
  <2>1. handler'.pc = "idle" /\ handler.pc = "failed" /\ stamp' = FALSE
    BY <1>4 DEF Cleared, Config!clear_thinking_stamp
  <2>2. UNCHANGED <<truth, levels, recent, window, reading, outbound, silent>>
    BY <1>4 DEF Cleared, Config!clear_thinking_stamp
  <2> QED BY ONLY <2>1, <2>2, SetInv DEF SetInv, Obeyed
<1>5. ASSUME Windowed PROVE SetInv'
  <2>1. handler'.pc = "read" /\ handler.pc = "window" /\ window' = Window[handler.model]
    BY <1>5 DEF Windowed
  <2>2. UNCHANGED <<truth, levels, stamp, recent, reading, outbound, silent>>
    BY <1>5 DEF Windowed
  <2> QED BY ONLY <2>1, <2>2, SetInv DEF SetInv, Obeyed
<1>6. ASSUME Reads PROVE SetInv'
  <2>1. handler'.pc = "levels" /\ handler'.read = truth /\ handler.pc = "read"
    BY <1>6
  <2>2. UNCHANGED <<truth, levels, stamp, recent, window, reading, outbound, silent>>
    BY <1>6 DEF Reads
  <2> QED BY ONLY <2>1, <2>2, SetInv DEF SetInv, Obeyed
<1>7. ASSUME Refreshes PROVE SetInv'
  <2>1. handler'.pc = "idle" /\ handler.pc = "levels"
    BY <1>7
  <2>2. UNCHANGED <<truth, levels, stamp, recent, window, reading, outbound, silent>>
    BY <1>7 DEF Refreshes, Config!emit_config_options_update
  <2> QED BY ONLY <2>1, <2>2, SetInv DEF SetInv, Obeyed
<1>8. ASSUME Expires PROVE SetInv'
  <2>1. UNCHANGED <<truth, handler, levels, window, reading, outbound, silent>> /\ stamp' = FALSE
    BY <1>8 DEF Expires, Config!Expire
  <2> QED BY ONLY <2>1, SetInv DEF SetInv, Obeyed
<1>9. ASSUME MovesItself PROVE SetInv'
  <2>1. handler' = handler /\ handler.pc = "idle"
    BY <1>9
  <2>2. UNCHANGED <<stamp, recent, window>>
    BY <1>9 DEF MovesItself
  <2>3. PICK m \in Models, l \in Config!Levels :
            Config!PiBecomes(m, l) /\ silent' = (silent \/ m # truth.model)
    BY <1>9 DEF MovesItself
  <2>4. truth'.model = m
    BY <2>3, PiChanges
  <2>5. ~silent' => ~silent /\ truth'.model = truth.model
    BY <2>3, <2>4
  <2> QED BY ONLY <2>1, <2>2, <2>5, SetInv DEF SetInv, Obeyed
<1>10. ASSUME UsageReported PROVE SetInv'
  <2>1. UNCHANGED <<truth, handler, stamp, recent, window, reading, outbound, silent>>
    BY <1>10 DEF UsageReported, Config!PiReports
  <2>2. /\ AllTell("level", levels, truth.level) => AllTell("level", levels', truth.level)
        /\ NoneOf("level", levels) <=> NoneOf("level", levels')
    BY <1>10
  <2> QED BY ONLY <2>1, <2>2, SetInv DEF SetInv, Obeyed
<1>11. ASSUME LevelChanged PROVE SetInv'
  <2>1. /\ UNCHANGED <<truth, handler, stamp, recent, window, silent>>
        /\ reading' = IF stamp THEN reading
                       ELSE [model |-> truth.model, level |-> Head(levels).level]
    BY <1>11 DEF LevelChanged
  <2>2. /\ AllTell("level", levels, truth.level) => AllTell("level", levels', truth.level)
        /\ AllTell("level", levels, truth.level) => Head(levels).level = truth.level
        /\ AllTell("options", outbound, truth.level) => AllTell("options", outbound', truth.level)
        /\ ~NoneOf("level", levels)
    BY <1>11
  <2> QED BY ONLY <2>1, <2>2, SetInv DEF SetInv, Obeyed
<1>12. ASSUME Emits PROVE SetInv'
  <2>1. /\ UNCHANGED <<truth, levels, handler, stamp, recent, window, silent>>
        /\ reading' = Config!Nothing
    BY <1>12 DEF Emits, Config!emit_config_options
  <2>2. /\ AllTell("options", outbound, truth.level) /\ reading.level = truth.level =>
               AllTell("options", outbound', truth.level)
        /\ reading # Config!Nothing
    BY <1>12 DEF Emits, Config!emit_config_options, Config!PumpIdle
  <2> QED BY ONLY <2>1, <2>2, SetInv DEF SetInv, Obeyed
<1>13. ASSUME EmitsUsage PROVE SetInv'
  <2>1. UNCHANGED <<truth, handler, stamp, recent, window, reading, silent>>
    BY <1>13 DEF EmitsUsage, Config!emit_usage_update
  <2>2. /\ AllTell("level", levels, truth.level) => AllTell("level", levels', truth.level)
        /\ NoneOf("level", levels) <=> NoneOf("level", levels')
        /\ AllTell("options", outbound, truth.level) => AllTell("options", outbound', truth.level)
        /\ NoneOf("options", outbound) <=> NoneOf("options", outbound')
    BY <1>13
  <2> QED BY ONLY <2>1, <2>2, SetInv DEF SetInv, Obeyed
<1>14. ASSUME Arrives PROVE SetInv'
  <2>1. UNCHANGED <<truth, levels, handler, stamp, recent, window, reading, silent>>
    BY <1>14 DEF Arrives, Config!Deliver
  <2>2. /\ AllTell("options", outbound, truth.level) => AllTell("options", outbound', truth.level)
        /\ NoneOf("options", outbound) => NoneOf("options", outbound')
    BY <1>14
  <2> QED BY ONLY <2>1, <2>2, SetInv DEF SetInv, Obeyed
<1>15. ASSUME UNCHANGED Config!vars PROVE SetInv'
  BY ONLY <1>15, SetInv DEF Config!vars, SetInv, Obeyed, AllTell, NoneOf
<1> QED
  <2>1. CASE Config!Next
    BY ONLY <2>1, <1>1, <1>2, <1>3, <1>4, <1>5, <1>6, <1>7, <1>8, <1>9, <1>10, <1>11, <1>12, <1>13,
       <1>14, StepsApart, Config!ConfigAssumption, Apart, ConfigTypes
  <2> QED BY <1>15, <2>1

-----------------------------------------------------------------------------
\* More levels, one more message, one less.
LEMMA ToldMoves ==
    ASSUME NEW S, NEW s \in Seq(S), NEW kinds, NEW L
    PROVE  /\ \A M : L \subseteq M /\ Told(kinds, s, L) => Told(kinds, s, M)
           /\ \A e \in S : Told(kinds, s, L) /\ (e.kind \in kinds => LevelOf(e) \in L) =>
                               Told(kinds, Append(s, e), L)
           /\ Told(kinds, s, L) /\ s # <<>> => /\ Told(kinds, Tail(s), L)
                                               /\ Head(s).kind \in kinds => LevelOf(Head(s)) \in L
<1>1. \A M : L \subseteq M /\ Told(kinds, s, L) => Told(kinds, s, M)
  BY DEF Told
<1>2. ASSUME NEW e \in S, Told(kinds, s, L), e.kind \in kinds => LevelOf(e) \in L
      PROVE  Told(kinds, Append(s, e), L)
  <2> DEFINE t == Append(s, e)
  <2>1. \A i \in DOMAIN t : (i \in DOMAIN s /\ t[i] = s[i]) \/ t[i] = e
    <3>1. /\ \A i \in DOMAIN s : t[i] = s[i]
          /\ t[Len(s) + 1] = e
      OBVIOUS
    <3>2. \A i \in DOMAIN t : i \in DOMAIN s \/ i = Len(s) + 1
      OBVIOUS
    <3> QED BY ONLY <3>1, <3>2
  <2> HIDE DEF t
  <2>2. Told(kinds, t, L)
    BY <1>2, <2>1 DEF Told
  <2> QED BY <2>2 DEF t
<1>3. ASSUME Told(kinds, s, L), s # <<>>
      PROVE  Told(kinds, Tail(s), L) /\ (Head(s).kind \in kinds => LevelOf(Head(s)) \in L)
  <2> DEFINE t == Tail(s)
  <2>1. \A i \in DOMAIN t : i + 1 \in DOMAIN s /\ t[i] = s[i + 1]
    BY <1>3, EmptySeq
  <2>2. 1 \in DOMAIN s /\ Head(s) = s[1]
    BY <1>3, EmptySeq
  <2> HIDE DEF t
  <2>3. Told(kinds, t, L)
    BY <1>3, <2>1 DEF Told
  <2>4. Head(s).kind \in kinds => LevelOf(Head(s)) \in L
    BY <1>3, <2>2 DEF Told
  <2> QED BY <2>3, <2>4 DEF t
<1> QED BY <1>1, <1>2, <1>3

\* WasInv at the start.
LEMMA WasStart ==
    ASSUME Config!ConfigAssumption, Config!Init
    PROVE  WasInv
<1>1. /\ Told({"level"}, levels, been) /\ Told({"mode", "options"}, outbound, been)
      /\ reading = Config!Nothing
  BY DEF Config!Init, Told
<1>2. truth.level \in been /\ mode \in been /\ options.level \in been
  BY DEF Config!Init, Config!OptionsOf
<1> QED BY <1>1, <1>2 DEF WasInv

\* The client is only told of levels that pi was at.
LEMMA WasStep ==
    ASSUME Config!ConfigAssumption, Apart, ConfigTypes, ConfigTypes', SetInv, WasInv,
           [Config!Next]_(Config!vars)
    PROVE  WasInv'
<1>0. /\ levels \in Seq(ConfigEvents) /\ outbound \in Seq(ConfigMessages)
      /\ truth \in PiStates /\ truth.model \in Models /\ truth.level \in Config!Levels
      /\ handler.model \in Models /\ handler.level \in Config!Levels
      /\ been \in SUBSET Config!Levels /\ mode \in Config!Levels
  BY DEF ConfigTypes, PiStates
<1>1. ASSUME NEW m \in Models, NEW l \in Config!Levels, Config!PiBecomes(m, l),
             UNCHANGED <<mode, options, outbound, reading>>
      PROVE  WasInv'
  <2>1. /\ truth'.level \in been' /\ been \subseteq been' /\ truth' \in PiStates
        /\ IF truth'.level # truth.level
           THEN levels' = Append(levels, [kind |-> "level", level |-> truth'.level])
           ELSE levels' = levels
    BY <1>1, PiChanges
  <2> DEFINE e == [kind |-> "level", level |-> truth'.level]
  <2>2. e \in ConfigEvents /\ LevelOf(e) = truth'.level
    BY <2>1 DEF ConfigEvents, LevelOf, PiStates
  <2>3. levels' = Append(levels, e) \/ levels' = levels
    BY <2>1
  <2> HIDE DEF e
  <2>4. Told({"level"}, levels, been') /\ Told({"mode", "options"}, outbound, been')
    BY <1>0, <2>1, ToldMoves DEF WasInv
  <2>5. Told({"level"}, levels', been')
    <3>1. Told({"level"}, Append(levels, e), been')
      BY <1>0, <2>1, <2>2, <2>4, ToldMoves
    <3> QED BY <2>3, <2>4, <3>1
  <2> QED BY <1>1, <2>1, <2>4, <2>5 DEF WasInv
<1>2. ASSUME UNCHANGED <<truth, been, mode, options, levels, outbound, reading>> PROVE WasInv'
  BY <1>2 DEF WasInv, Told
<1>3. ASSUME Refreshes PROVE WasInv'
  <2>1. handler.read = truth
    BY <1>3 DEF SetInv, Refreshes, Config!emit_config_options_update
  <2>2. UNCHANGED <<truth, been, levels, outbound, reading>> /\ mode' \in {mode, truth.level}
        /\ options'.level = truth.level
    BY <1>3, <2>1 DEF Refreshes, Config!emit_config_options_update, Config!OptionsOf
  <2> QED BY <2>2 DEF WasInv, Told
<1>4. ASSUME UsageReported PROVE WasInv'
  <2> DEFINE e == [kind |-> "usage", model |-> truth.model]
  <2>1. e \in ConfigEvents /\ e.kind \notin {"level"} /\ levels' = Append(levels, e)
    BY <1>0, <1>4 DEF ConfigEvents, PiStates, UsageReported, Config!PiReports
  <2> HIDE DEF e
  <2>2. Told({"level"}, levels', been)
    BY <1>0, <2>1, ToldMoves DEF WasInv
  <2>3. UNCHANGED <<truth, been, mode, options, outbound, reading>>
    BY <1>4 DEF UsageReported, Config!PiReports
  <2> QED BY <2>2, <2>3 DEF WasInv
<1>5. ASSUME LevelChanged PROVE WasInv'
  <2>1. /\ levels # <<>> /\ levels' = Tail(levels)
        /\ Head(levels).kind = "level" /\ LevelOf(Head(levels)) = Head(levels).level
    BY <1>5, ModesAreSent
  <2>2. Told({"level"}, levels', been) /\ Head(levels).level \in been
    BY <1>0, <2>1, ToldMoves DEF WasInv
  <2>3. Told({"mode", "options"}, outbound', been)
    <3>1. CASE protocol = "v1"
      <4>1. PICK e \in ConfigMessages : outbound' = Append(outbound, e) /\ LevelOf(e) = Head(levels).level
        BY <1>5, <3>1, ModesAreSent
      <4> QED BY <1>0, <2>2, <4>1, ToldMoves DEF WasInv
    <3>2. CASE protocol # "v1"
      BY <1>5, <3>2, ModesAreSent DEF WasInv
    <3> QED BY <3>1, <3>2
  <2>4. reading' # Config!Nothing => reading'.level \in been
    BY <1>5, <2>2 DEF LevelChanged, WasInv
  <2>5. UNCHANGED <<truth, been, mode, options>>
    BY <1>5 DEF LevelChanged
  <2> QED BY <2>2, <2>3, <2>4, <2>5 DEF WasInv
<1>6. ASSUME Emits PROVE WasInv'
  <2>1. PICK e \in ConfigMessages : /\ outbound' = Append(outbound, e)
                                    /\ LevelOf(e) = reading.level /\ reading # Config!Nothing
    BY <1>6, OptionsAreSent
  <2>2. Told({"mode", "options"}, outbound', been)
    BY <1>0, <2>1, ToldMoves DEF WasInv
  <2>3. UNCHANGED <<truth, been, mode, options, levels>> /\ reading' = Config!Nothing
    BY <1>6 DEF Emits, Config!emit_config_options
  <2> QED BY <2>2, <2>3 DEF WasInv
<1>7. ASSUME EmitsUsage PROVE WasInv'
  <2>1. /\ levels # <<>> /\ levels' = Tail(levels)
        /\ outbound' = outbound \/ \E e \in ConfigMessages : /\ e.kind = "usage"
                                                             /\ outbound' = Append(outbound, e)
    BY <1>7, UsageIsSent
  <2>2. Told({"level"}, levels', been)
    BY <1>0, <2>1, ToldMoves DEF WasInv
  <2>3. Told({"mode", "options"}, outbound', been)
    <3>1. ASSUME NEW e \in ConfigMessages, e.kind = "usage", outbound' = Append(outbound, e)
          PROVE  Told({"mode", "options"}, outbound', been)
      <4>1. e.kind \notin {"mode", "options"}
        BY <3>1
      <4> QED BY <1>0, <3>1, <4>1, ToldMoves DEF WasInv
    <3>2. outbound' = outbound => Told({"mode", "options"}, outbound', been)
      BY DEF WasInv
    <3> QED BY <2>1, <3>1, <3>2
  <2>4. UNCHANGED <<truth, been, mode, options, reading>>
    BY <1>7 DEF EmitsUsage, Config!emit_usage_update
  <2> QED BY <2>2, <2>3, <2>4 DEF WasInv
<1>8. ASSUME Arrives PROVE WasInv'
  <2> DEFINE o == Head(outbound)
  <2>1. outbound # <<>> /\ outbound' = Tail(outbound) /\ o \in ConfigMessages
    BY <1>8, PipesMove
  <2>2. /\ Told({"mode", "options"}, outbound', been)
        /\ o.kind \in {"mode", "options"} => LevelOf(o) \in been
    BY <1>0, <2>1, ToldMoves DEF WasInv
  <2>3. /\ mode' = IF o.kind = "mode" THEN o.level ELSE mode
        /\ options' = IF o.kind = "options" THEN o.options ELSE options
        /\ UNCHANGED <<truth, been, levels, reading>>
    BY <1>8 DEF Arrives, Config!Deliver
  <2> HIDE DEF o
  <2>4. mode' \in been /\ options'.level \in been
    BY <2>1, <2>2, <2>3, MessagesAreTyped DEF WasInv
  <2> QED BY <2>2, <2>3, <2>4 DEF WasInv
<1>9. ASSUME ObeysLevel \/ ObeysModel \/ MovesItself PROVE WasInv'
  <2>1. UNCHANGED <<mode, options, outbound, reading>>
    BY <1>9 DEF ObeysLevel, ObeysModel, MovesItself
  <2>2. \E m \in Models, l \in Config!Levels : Config!PiBecomes(m, l)
    BY <1>0, <1>9 DEF ObeysLevel, ObeysModel, MovesItself
  <2> QED BY <1>1, <2>1, <2>2
<1>10. ASSUME \/ SetsLevel \/ SetsModel \/ Fails \/ Cleared \/ Windowed \/ Reads \/ Expires
              \/ UNCHANGED Config!vars
       PROVE  WasInv'
  <2>1. UNCHANGED <<truth, been, mode, options, levels, outbound, reading>>
    BY <1>10 DEF SetsLevel, SetsModel, Requesting, Fails, Cleared, Config!clear_thinking_stamp,
       Windowed, Reads, Expires, Config!Expire, Config!vars
  <2> QED BY <1>2, <2>1
<1> QED
  <2>1. CASE Config!Next
    BY ONLY <2>1, <1>3, <1>4, <1>5, <1>6, <1>7, <1>8, <1>9, <1>10, StepsApart,
       Config!ConfigAssumption, Apart, ConfigTypes
  <2> QED BY <1>10, <2>1

-----------------------------------------------------------------------------
\* Messages that fit a model still do when one more that fits is sent, or one arrives.
LEMMA FitsMoves ==
    ASSUME NEW S, NEW s \in Seq(S), NEW m, AllFit(s, m)
    PROVE  /\ \A e \in S : (e.kind = "options" => FitsModel(e.options, m)) =>
                  AllFit(Append(s, e), m)
           /\ s # <<>> => /\ AllFit(Tail(s), m)
                          /\ Head(s).kind = "options" => FitsModel(Head(s).options, m)
<1>1. ASSUME NEW e \in S, e.kind = "options" => FitsModel(e.options, m)
      PROVE  AllFit(Append(s, e), m)
  <2> DEFINE t == Append(s, e)
  <2>1. \A i \in DOMAIN t : (i \in DOMAIN s /\ t[i] = s[i]) \/ t[i] = e
    <3>1. /\ \A i \in DOMAIN s : t[i] = s[i]
          /\ t[Len(s) + 1] = e
      OBVIOUS
    <3>2. \A i \in DOMAIN t : i \in DOMAIN s \/ i = Len(s) + 1
      OBVIOUS
    <3> QED BY ONLY <3>1, <3>2
  <2> HIDE DEF t
  <2>2. AllFit(t, m)
    BY <1>1, <2>1 DEF AllFit
  <2> QED BY <2>2 DEF t
<1>2. ASSUME s # <<>>
      PROVE  AllFit(Tail(s), m) /\ (Head(s).kind = "options" => FitsModel(Head(s).options, m))
  <2> DEFINE t == Tail(s)
  <2>1. \A i \in DOMAIN t : i + 1 \in DOMAIN s /\ t[i] = s[i + 1]
    BY <1>2, EmptySeq
  <2>2. 1 \in DOMAIN s /\ Head(s) = s[1]
    BY <1>2, EmptySeq
  <2> HIDE DEF t
  <2>3. AllFit(t, m)
    BY <1>2, <2>1 DEF AllFit
  <2>4. Head(s).kind = "options" => FitsModel(Head(s).options, m)
    BY <1>2, <2>2 DEF AllFit
  <2> QED BY <2>3, <2>4 DEF t
<1> QED BY <1>1, <1>2

\* ModelInv at the start.
LEMMA ModelStart ==
    ASSUME Config!ConfigAssumption, Config!Init
    PROVE  ModelInv
<1>1. truth.model = First /\ reading = Config!Nothing /\ outbound = <<>>
  BY DEF Config!Init
<1>2. FitsModel(options, truth.model)
  BY <1>1 DEF Config!Init, Config!OptionsOf, FitsModel
<1>3. AllFit(outbound, truth.model)
  BY <1>1 DEF AllFit
<1> QED BY <1>1, <1>2, <1>3 DEF ModelInv

\* The client is only told of pi's model, until pi changes it silently.
LEMMA ModelStep ==
    ASSUME Config!ConfigAssumption, Apart, ConfigTypes, SetInv, ModelInv,
           [Config!Next]_(Config!vars)
    PROVE  ModelInv'
<1> USE Places
<1>0. /\ levels \in Seq(ConfigEvents) /\ outbound \in Seq(ConfigMessages)
      /\ truth \in PiStates /\ truth.model \in Models /\ truth.level \in Config!Levels
      /\ handler.model \in Models /\ handler.level \in Config!Levels
  BY DEF ConfigTypes, PiStates
<1>1. ASSUME \/ SetsLevel \/ SetsModel \/ Fails \/ Cleared \/ Windowed \/ Reads \/ Expires
             \/ UsageReported
             \/ UNCHANGED Config!vars
      PROVE  ModelInv'
  <2>1. UNCHANGED <<truth, options, outbound, reading, silent>>
    BY <1>1 DEF SetsLevel, SetsModel, Requesting, Fails, Cleared, Config!clear_thinking_stamp,
       Windowed, Reads, Expires, Config!Expire, UsageReported, Config!PiReports, Config!vars
  <2>2. ~Obeyed' => ~Obeyed
    <3>1. SetsLevel \/ SetsModel \/ Fails \/ Cleared => ~Obeyed
      BY DEF Obeyed
    <3>2. Windowed \/ Reads => Obeyed'
      BY DEF Obeyed
    <3>3. Expires \/ UsageReported \/ UNCHANGED Config!vars => handler' = handler
      BY DEF Expires, Config!Expire, UsageReported, Config!PiReports, Config!vars
    <3> QED BY <1>1, <3>1, <3>2, <3>3 DEF Obeyed
  <2> QED BY ONLY <2>1, <2>2, ModelInv DEF ModelInv
<1>2. ASSUME ObeysLevel \/ ObeysModel PROVE ModelInv'
  <2>1. Obeyed' /\ UNCHANGED <<reading, outbound>> /\ reading = Config!Nothing
    BY <1>2 DEF Obeyed, ObeysLevel, ObeysModel, Config!PumpIdle
  <2>2. NoneOf("options", outbound)
    BY <1>2 DEF SetInv
  <2>3. AllFit(outbound', truth'.model)
    BY <2>1, <2>2 DEF NoneOf, AllFit
  <2> QED BY <2>1, <2>3 DEF ModelInv
<1>3. ASSUME Refreshes PROVE ModelInv'
  <2>1. UNCHANGED <<truth, outbound, reading, silent>> /\ handler.read = truth
    BY <1>3 DEF Refreshes, Config!emit_config_options_update, SetInv
  <2>2. FitsModel(options', truth.model)
    BY <1>3, <2>1 DEF Refreshes, Config!emit_config_options_update, Config!OptionsOf, FitsModel
  <2> QED BY <2>1, <2>2 DEF ModelInv
<1>4. ASSUME MovesItself PROVE ModelInv'
  <2>1. PICK m \in Models, l \in Config!Levels :
            Config!PiBecomes(m, l) /\ silent' = (silent \/ m # truth.model)
    BY <1>4 DEF MovesItself
  <2>2. truth'.model = m
    BY <2>1, PiChanges
  <2>3. ~silent' => ~silent /\ truth'.model = truth.model
    BY <2>1, <2>2
  <2>4. UNCHANGED <<handler, options, outbound, reading>>
    BY <1>4 DEF MovesItself
  <2> QED BY ONLY <2>3, <2>4, ModelInv DEF ModelInv, Obeyed
<1>5. ASSUME LevelChanged PROVE ModelInv'
  <2>1. /\ UNCHANGED <<truth, handler, options, silent>>
        /\ reading' = IF stamp THEN reading
                       ELSE [model |-> truth.model, level |-> Head(levels).level]
    BY <1>5 DEF LevelChanged
  <2>2. AllFit(outbound, truth.model) => AllFit(outbound', truth.model)
    <3>1. CASE protocol = "v1"
      <4>1. PICK e \in ConfigMessages : outbound' = Append(outbound, e) /\ e.kind = "mode"
        BY <1>5, <3>1, ModesAreSent
      <4> QED BY <1>0, <4>1, FitsMoves
    <3>2. CASE protocol # "v1"
      BY <1>5, <3>2, ModesAreSent
    <3> QED BY <3>1, <3>2
  <2>3. ~silent => (reading' # Config!Nothing => reading'.model = truth.model)
    BY <2>1 DEF ModelInv
  <2> QED BY ONLY <2>1, <2>2, <2>3, ModelInv DEF ModelInv, Obeyed
<1>6. ASSUME Emits PROVE ModelInv'
  <2>1. PICK e \in ConfigMessages : /\ outbound' = Append(outbound, e) /\ e.kind = "options"
                                    /\ e.options.model = reading.model /\ reading # Config!Nothing
                                    /\ e.options.levels = Config!supported_thinking_levels(truth.model)
    BY <1>6, OptionsAreSent
  <2>2. ~silent => FitsModel(e.options, truth.model)
    BY <2>1 DEF ModelInv, FitsModel
  <2>3. ~silent => AllFit(outbound', truth.model)
    BY <1>0, <2>1, <2>2, FitsMoves DEF ModelInv
  <2>4. UNCHANGED <<truth, handler, options, silent>> /\ reading' = Config!Nothing
    BY <1>6 DEF Emits, Config!emit_config_options
  <2> QED BY ONLY <2>3, <2>4, ModelInv DEF ModelInv, Obeyed
<1>7. ASSUME EmitsUsage PROVE ModelInv'
  <2>1. outbound' = outbound \/ \E e \in ConfigMessages : /\ e.kind = "usage"
                                                          /\ outbound' = Append(outbound, e)
    BY <1>7, UsageIsSent
  <2>2. AllFit(outbound, truth.model) => AllFit(outbound', truth.model)
    <3>1. ASSUME NEW e \in ConfigMessages, e.kind = "usage", outbound' = Append(outbound, e),
                 AllFit(outbound, truth.model)
          PROVE  AllFit(outbound', truth.model)
      <4>1. e.kind # "options"
        BY <3>1
      <4> QED BY <1>0, <3>1, <4>1, FitsMoves
    <3> QED BY <2>1, <3>1
  <2>3. UNCHANGED <<truth, handler, options, reading, silent>>
    BY <1>7 DEF EmitsUsage, Config!emit_usage_update
  <2> QED BY ONLY <2>2, <2>3, ModelInv DEF ModelInv, Obeyed
<1>8. ASSUME Arrives PROVE ModelInv'
  <2>1. outbound # <<>> /\ outbound' = Tail(outbound)
    BY <1>8, PipesMove
  <2>2. AllFit(outbound, truth.model) =>
            /\ AllFit(outbound', truth.model)
            /\ Head(outbound).kind = "options" => FitsModel(Head(outbound).options, truth.model)
    BY <1>0, <2>1, FitsMoves
  <2>3. /\ options' = IF Head(outbound).kind = "options" THEN Head(outbound).options ELSE options
        /\ UNCHANGED <<truth, handler, reading, silent>>
    BY <1>8 DEF Arrives, Config!Deliver
  <2> QED BY ONLY <2>2, <2>3, ModelInv DEF ModelInv, Obeyed
<1> QED
  <2>1. CASE Config!Next
    BY ONLY <2>1, <1>1, <1>2, <1>3, <1>4, <1>5, <1>6, <1>7, <1>8, StepsApart,
       Config!ConfigAssumption, Apart, ConfigTypes
  <2> QED BY <1>1, <2>1

-----------------------------------------------------------------------------
\* ModeInv at the start.
LEMMA ModeStart ==
    ASSUME Config!ConfigAssumption, Config!Init
    PROVE  ModeInv
<1>1. levels = <<>> /\ outbound = <<>> /\ mode = truth.level
  BY DEF Config!Init
<1>2. LastTells("level", levels, truth.level) /\ LastTells("mode", outbound, truth.level)
  BY <1>1, NothingInNone, NothingTells
<1> QED BY <1>1, <1>2 DEF ModeInv

\* The last mode on its way to a v1 client is pi's.
LEMMA ModeStep ==
    ASSUME Config!ConfigAssumption, Apart, ConfigTypes, SetInv, ModeInv, [Config!Next]_(Config!vars)
    PROVE  ModeInv'
<1>0. /\ truth \in PiStates /\ truth.model \in Models /\ truth.level \in Config!Levels
      /\ handler.model \in Models /\ handler.level \in Config!Levels
  BY DEF ConfigTypes, PiStates
<1>1. ASSUME NEW m \in Models, NEW l \in Config!Levels, Config!PiBecomes(m, l),
             UNCHANGED <<protocol, outbound, mode>>
      PROVE  ModeInv'
  <2>1. /\ LastTells("level", levels, truth.level) => LastTells("level", levels', truth'.level)
        /\ NoneOf("level", levels') => NoneOf("level", levels) /\ truth'.level = truth.level
    BY <1>1, ChangeIsTold
  <2> QED BY ONLY <1>1, <2>1, ModeInv DEF ModeInv
<1>2. ASSUME UNCHANGED <<protocol, truth, levels, outbound, mode>> PROVE ModeInv'
  BY ONLY <1>2, ModeInv DEF ModeInv
<1>3. ASSUME Refreshes PROVE ModeInv'
  <2>1. /\ UNCHANGED <<protocol, truth, levels, outbound>> /\ handler.read = truth
        /\ protocol = "v1" => mode' = truth.level
    BY <1>3 DEF Refreshes, Config!emit_config_options_update, SetInv
  <2> QED BY ONLY <2>1, ModeInv DEF ModeInv
<1>4. ASSUME UsageReported PROVE ModeInv'
  <2>1. UNCHANGED <<protocol, truth, outbound, mode>>
    BY <1>4 DEF UsageReported, Config!PiReports
  <2>2. /\ LastTells("level", levels, truth.level) => LastTells("level", levels', truth.level)
        /\ NoneOf("level", levels) <=> NoneOf("level", levels')
    BY <1>4, PipesMove
  <2> QED BY ONLY <2>1, <2>2, ModeInv DEF ModeInv
<1>5. ASSUME LevelChanged PROVE ModeInv'
  <2>1. UNCHANGED <<protocol, truth, mode>>
    BY <1>5 DEF LevelChanged
  <2>2. /\ LastTells("level", levels, truth.level) => LastTells("level", levels', truth.level)
        /\ LastTells("level", levels, truth.level) /\ NoneOf("level", levels') =>
               Head(levels).level = truth.level
        /\ protocol = "v1" => /\ ~NoneOf("mode", outbound')
                              /\ Head(levels).level = truth.level =>
                                     LastTells("mode", outbound', truth.level)
    BY <1>5, PipesMove
  <2> QED BY ONLY <2>1, <2>2, ModeInv DEF ModeInv
<1>6. ASSUME Emits PROVE ModeInv'
  <2>1. UNCHANGED <<protocol, truth, levels, mode>>
    BY <1>6 DEF Emits, Config!emit_config_options
  <2>2. /\ LastTells("mode", outbound, truth.level) => LastTells("mode", outbound', truth.level)
        /\ NoneOf("mode", outbound) <=> NoneOf("mode", outbound')
    BY <1>6, PipesMove
  <2> QED BY ONLY <2>1, <2>2, ModeInv DEF ModeInv
<1>7. ASSUME EmitsUsage PROVE ModeInv'
  <2>1. UNCHANGED <<protocol, truth, mode>>
    BY <1>7 DEF EmitsUsage, Config!emit_usage_update
  <2>2. /\ LastTells("level", levels, truth.level) => LastTells("level", levels', truth.level)
        /\ NoneOf("level", levels) <=> NoneOf("level", levels')
        /\ LastTells("mode", outbound, truth.level) => LastTells("mode", outbound', truth.level)
        /\ NoneOf("mode", outbound) <=> NoneOf("mode", outbound')
    BY <1>7, PipesMove
  <2> QED BY ONLY <2>1, <2>2, ModeInv DEF ModeInv
<1>8. ASSUME Arrives PROVE ModeInv'
  <2> DEFINE o == Head(outbound)
  <2>1. /\ LastTells("mode", outbound, truth.level) => LastTells("mode", outbound', truth.level)
        /\ o \in ConfigMessages
        /\ NoneOf("mode", outbound') /\ ~NoneOf("mode", outbound) =>
               /\ o.kind = "mode"
               /\ LastTells("mode", outbound, truth.level) => LevelOf(o) = truth.level
        /\ NoneOf("mode", outbound) => o.kind # "mode"
    BY <1>8, PipesMove
  <2>2. /\ UNCHANGED <<protocol, truth, levels>>
        /\ mode' = IF o.kind = "mode" THEN o.level ELSE mode
    BY <1>8 DEF Arrives, Config!Deliver
  <2> HIDE DEF o
  <2>3. o.kind = "mode" => LevelOf(o) = o.level
    BY <2>1, MessagesAreTyped
  <2> QED BY ONLY <2>1, <2>2, <2>3, ModeInv DEF ModeInv
<1>9. ASSUME ObeysLevel \/ ObeysModel \/ MovesItself PROVE ModeInv'
  <2>1. UNCHANGED <<protocol, outbound, mode>>
    BY <1>9 DEF ObeysLevel, ObeysModel, MovesItself
  <2>2. \E m \in Models, l \in Config!Levels : Config!PiBecomes(m, l)
    BY <1>0, <1>9 DEF ObeysLevel, ObeysModel, MovesItself
  <2> QED BY <1>1, <2>1, <2>2
<1>10. ASSUME \/ SetsLevel \/ SetsModel \/ Fails \/ Cleared \/ Windowed \/ Reads \/ Expires
              \/ UNCHANGED Config!vars
       PROVE  ModeInv'
  <2>1. UNCHANGED <<protocol, truth, levels, outbound, mode>>
    BY <1>10 DEF SetsLevel, SetsModel, Requesting, Fails, Cleared, Config!clear_thinking_stamp,
       Windowed, Reads, Expires, Config!Expire, Config!vars
  <2> QED BY <1>2, <2>1
<1> QED
  <2>1. CASE Config!Next
    BY ONLY <2>1, <1>3, <1>4, <1>5, <1>6, <1>7, <1>8, <1>9, <1>10, StepsApart,
       Config!ConfigAssumption, Apart, ConfigTypes
  <2> QED BY <1>10, <2>1

-----------------------------------------------------------------------------
\* OptionsInv at the start.
LEMMA OptionsStart ==
    ASSUME Config!ConfigAssumption, Config!Init
    PROVE  OptionsInv
<1>1. outbound = <<>> /\ reading = Config!Nothing /\ options.level = truth.level
  BY DEF Config!Init, Config!OptionsOf
<1>2. LastTells("options", outbound, truth.level)
  BY <1>1, NothingInNone, NothingTells
<1> QED BY <1>1, <1>2 DEF OptionsInv

\* So are the last options, the handler's refresh or the pump's.
LEMMA OptionsStep ==
    ASSUME Config!ConfigAssumption, Apart, ConfigTypes, SetInv, ModeInv, OptionsInv,
           [Config!Next]_(Config!vars)
    PROVE  OptionsInv'
<1> USE Places
<1>0. truth \in PiStates /\ truth.model \in Models /\ truth.level \in Config!Levels
  BY DEF ConfigTypes, PiStates
<1>1. ASSUME SetsLevel \/ SetsModel PROVE OptionsInv'
  <2>1. Requesting
    BY <1>1 DEF SetsLevel, SetsModel
  <2>2. /\ UNCHANGED <<truth, levels, outbound, reading, options>> /\ levels = <<>>
        /\ handler.pc = "idle"
    BY <2>1 DEF Requesting, Config!Quiet
  <2>3. NoneOf("level", levels)
    BY <2>2, NothingInNone
  <2> QED BY ONLY <2>2, <2>3, OptionsInv DEF OptionsInv, Obeyed
<1>2. ASSUME ObeysLevel \/ ObeysModel \/ Windowed \/ Reads PROVE OptionsInv'
  <2>1. Obeyed'
    BY <1>2 DEF Obeyed
  <2> QED BY <2>1 DEF OptionsInv
<1>3. ASSUME Fails \/ Cleared \/ Expires \/ UNCHANGED Config!vars PROVE OptionsInv'
  <2>1. UNCHANGED <<truth, levels, outbound, reading, options>> /\ stamp' \in {stamp, FALSE}
    BY <1>3 DEF Fails, Cleared, Config!clear_thinking_stamp, Expires, Config!Expire, Config!vars
  <2>2. Obeyed => Obeyed'
    <3>1. Expires \/ UNCHANGED Config!vars => handler' = handler
      BY DEF Expires, Config!Expire, Config!vars
    <3>2. Fails \/ Cleared => ~Obeyed
      BY DEF Obeyed
    <3> QED BY <1>3, <3>1, <3>2 DEF Obeyed
  <2> QED BY ONLY <2>1, <2>2, OptionsInv DEF OptionsInv
<1>4. ASSUME Refreshes PROVE OptionsInv'
  <2>1. UNCHANGED <<truth, outbound, reading>> /\ handler.read = truth /\ reading = Config!Nothing
    BY <1>4 DEF Refreshes, Config!emit_config_options_update, SetInv, Config!PumpIdle
  <2>2. options'.level = truth.level
    BY <1>4, <2>1 DEF Refreshes, Config!emit_config_options_update, Config!OptionsOf
  <2>3. AllTell("options", outbound, truth.level)
    BY <1>4 DEF SetInv, Obeyed
  <2>4. LastTells("options", outbound, truth.level)
    BY <2>3, AllTellLast
  <2> QED BY ONLY <2>1, <2>2, <2>4 DEF OptionsInv
<1>5. ASSUME MovesItself PROVE OptionsInv'
  <2>1. handler' = handler /\ handler.pc = "idle" /\ UNCHANGED <<stamp, outbound, reading, options>>
    BY <1>5 DEF MovesItself
  <2>2. ~stamp
    BY <1>5, <2>1 DEF SetInv, MovesItself, Config!Calm
  <2>3. PICK m \in Models, l \in Config!Levels : Config!PiBecomes(m, l)
    BY <1>5 DEF MovesItself
  <2>4. NoneOf("level", levels') => NoneOf("level", levels) /\ truth'.level = truth.level
    BY <2>3, ChangeIsTold
  <2> QED BY ONLY <2>1, <2>2, <2>4, OptionsInv DEF OptionsInv, Obeyed
<1>6. ASSUME UsageReported PROVE OptionsInv'
  <2>1. UNCHANGED <<truth, handler, stamp, outbound, reading, options>>
    BY <1>6 DEF UsageReported, Config!PiReports
  <2>2. NoneOf("level", levels) <=> NoneOf("level", levels')
    BY <1>6, PipesMove
  <2> QED BY ONLY <2>1, <2>2, OptionsInv DEF OptionsInv, Obeyed
<1>7. ASSUME LevelChanged PROVE OptionsInv'
  <2>1. /\ UNCHANGED <<truth, handler, stamp, options>>
        /\ reading' = IF stamp THEN reading
                       ELSE [model |-> truth.model, level |-> Head(levels).level]
    BY <1>7 DEF LevelChanged
  <2>2. /\ LastTells("level", levels, truth.level) /\ NoneOf("level", levels') =>
               Head(levels).level = truth.level
        /\ LastTells("options", outbound, truth.level) =>
               LastTells("options", outbound', truth.level)
        /\ NoneOf("options", outbound) <=> NoneOf("options", outbound')
    BY <1>7, PipesMove
  <2>3. LastTells("level", levels, truth.level)
    BY DEF ModeInv
  <2>4. CASE stamp
    BY ONLY <2>1, <2>2, <2>4, OptionsInv DEF OptionsInv, Obeyed
  <2>5. CASE ~stamp
    <3>1. [model |-> truth.model, level |-> Head(levels).level] \in PiStates
      BY <1>0, <1>7, ModesAreSent DEF PiStates
    <3>2. reading' # Config!Nothing /\ reading'.level = Head(levels).level
      BY <2>1, <2>5, <3>1, NothingMuch
    <3> QED BY ONLY <2>1, <2>2, <2>3, <2>5, <3>2 DEF OptionsInv, Obeyed
  <2> QED BY <2>4, <2>5
<1>8. ASSUME Emits PROVE OptionsInv'
  <2>1. /\ UNCHANGED <<truth, levels, handler, stamp, options>> /\ reading' = Config!Nothing
        /\ reading # Config!Nothing
    BY <1>8 DEF Emits, Config!emit_config_options, Config!PumpIdle
  <2>2. /\ ~NoneOf("options", outbound')
        /\ reading.level = truth.level => LastTells("options", outbound', truth.level)
    BY <1>8, PipesMove
  <2> QED BY ONLY <2>1, <2>2, OptionsInv DEF OptionsInv, Obeyed
<1>9. ASSUME EmitsUsage PROVE OptionsInv'
  <2>1. UNCHANGED <<truth, handler, stamp, options, reading>>
    BY <1>9 DEF EmitsUsage, Config!emit_usage_update
  <2>2. /\ NoneOf("level", levels) <=> NoneOf("level", levels')
        /\ LastTells("options", outbound, truth.level) =>
               LastTells("options", outbound', truth.level)
        /\ NoneOf("options", outbound) <=> NoneOf("options", outbound')
    BY <1>9, PipesMove
  <2> QED BY ONLY <2>1, <2>2, OptionsInv DEF OptionsInv, Obeyed
<1>10. ASSUME Arrives PROVE OptionsInv'
  <2> DEFINE o == Head(outbound)
  <2>1. /\ LastTells("options", outbound, truth.level) =>
               LastTells("options", outbound', truth.level)
        /\ o \in ConfigMessages
        /\ NoneOf("options", outbound') /\ ~NoneOf("options", outbound) =>
               /\ o.kind = "options"
               /\ LastTells("options", outbound, truth.level) => LevelOf(o) = truth.level
        /\ NoneOf("options", outbound) => o.kind # "options"
    BY <1>10, PipesMove
  <2>2. /\ UNCHANGED <<truth, levels, handler, stamp, reading>>
        /\ options' = IF o.kind = "options" THEN o.options ELSE options
    BY <1>10 DEF Arrives, Config!Deliver
  <2> HIDE DEF o
  <2>3. o.kind = "options" => LevelOf(o) = o.options.level
    BY <2>1, MessagesAreTyped
  <2> QED BY ONLY <2>1, <2>2, <2>3, OptionsInv DEF OptionsInv, Obeyed
<1> QED
  <2>1. CASE Config!Next
    BY ONLY <2>1, <1>1, <1>2, <1>3, <1>4, <1>5, <1>6, <1>7, <1>8, <1>9, <1>10, StepsApart,
       Config!ConfigAssumption, Apart, ConfigTypes
  <2> QED BY <1>3, <2>1

-----------------------------------------------------------------------------
\* SetInv at the start.
LEMMA SetStart ==
    ASSUME Config!ConfigAssumption, Config!Init
    PROVE  SetInv
<1>1. handler.pc = "idle" /\ truth.model = First /\ window = Window[First] /\ ~stamp /\ ~silent
  BY DEF Config!Init, Config!Idle
<1> QED BY <1>1 DEF SetInv, Obeyed

\* The invariant is enough.
LEMMA ConfigEnough ==
    ASSUME Config!ConfigAssumption, ConfigInv
    PROVE  Config!ShownIsPis
<1>0. /\ truth \in PiStates /\ truth.model \in Models /\ truth.level \in Config!Levels
      /\ options \in ConfigOptions /\ options.model \in DOMAIN options.choices
  BY DEF ConfigInv, ConfigTypes, PiStates
<1>1. /\ options.model \in Models /\ options.level \in Config!Levels
      /\ DOMAIN options.choices \in SUBSET Models
      /\ \A k \in DOMAIN options.choices : options.choices[k] = Config!clamp_thinking_level(k, options.level)
  BY <1>0, OptionsAreTyped
<1>2. Config!TypeOK
  BY <1>0, <1>1 DEF ConfigInv, ConfigTypes, Config!TypeOK, PiStates
<1>3. Config!Follows
  <2> SUFFICES ASSUME Config!Quiet
               PROVE  /\ protocol = "v1" => mode = truth.level
                      /\ options.level = truth.level
                      /\ ~silent =>
                             /\ options.levels = Config!supported_thinking_levels(truth.model)
                             /\ options.model = truth.model
    BY DEF Config!Follows
  <2>1. handler.pc = "idle" /\ reading = Config!Nothing /\ levels = <<>> /\ outbound = <<>>
    BY DEF Config!Quiet, Config!PumpIdle
  <2>2. /\ NoneOf("level", levels) /\ NoneOf("options", outbound) /\ NoneOf("mode", outbound)
        /\ ~Obeyed
    BY <2>1, NothingInNone DEF Obeyed
  <2>3. protocol = "v1" => mode = truth.level
    BY <2>2 DEF ConfigInv, ModeInv
  <2>4. options.level = truth.level
    BY <2>1, <2>2 DEF ConfigInv, OptionsInv
  <2>5. ~silent => FitsModel(options, truth.model)
    BY <2>2 DEF ConfigInv, ModelInv
  <2> QED BY <2>3, <2>4, <2>5 DEF FitsModel
<1>4. Config!ReadBack
  BY DEF ConfigInv, WasInv, Config!ReadBack
<1>5. Config!CurrentIsOffered
  BY <1>0 DEF Config!CurrentIsOffered
<1>6. Config!PromisesHold
  <2>1. ASSUME options.level = truth.level, NEW m \in DOMAIN options.choices
        PROVE  options.choices[m] = Config!PiSettles(m, truth.level)
    BY <1>0, <1>1, <2>1, ClampIsSettles
  <2> QED BY <2>1 DEF Config!PromisesHold
<1>7. Config!WindowFollows
  BY DEF ConfigInv, SetInv, Config!WindowFollows
<1> QED BY <1>2, <1>3, <1>4, <1>5, <1>6, <1>7 DEF Config!ShownIsPis

\* What the client shows of mode, model, level, choices and window is pi's whenever nothing is
\* under way, for any models and ladders, any number of sets, of pi's own changes and of usage
\* events: when a call fails before pi obeys or not at all, pi changes by itself when no set is
\* under way and the client was told, and every model has a window (Apart).
THEOREM ConfigHolds ==
    ASSUME Apart
    PROVE  RequestsSpec => []ShownIsPis
<1>0. Config!ConfigAssumption
  BY RequestsAssumption
<1>1. RequestsInit => ConfigInv
  BY <1>0, TypesStart, SetStart, WasStart, ModelStart, ModeStart, OptionsStart
     DEF ConfigInv, RequestsInit
<1>2. ConfigInv /\ [RequestsNext]_requestVars => ConfigInv'
  <2> SUFFICES ASSUME ConfigInv, [RequestsNext]_requestVars PROVE ConfigInv'
    OBVIOUS
  <2>1. [Config!Next]_(Config!vars)
    BY DEF RequestsNext, requestVars, configVars, Config!vars
  <2>2. ConfigTypes'
    BY <1>0, <2>1, TypesStep DEF ConfigInv
  <2> QED BY <1>0, <2>1, <2>2, SetStep, WasStep, ModelStep, ModeStep, OptionsStep DEF ConfigInv
<1>3. ConfigInv => ShownIsPis
  BY <1>0, ConfigEnough DEF ShownIsPis
<1> QED BY <1>1, <1>2, <1>3, PTL DEF RequestsSpec

-----------------------------------------------------------------------------
\* The calendar.

\* The days before the March of year a, counted from the March of year 0.
Marches(a) == 365 * a + a \div 4 - a \div 100 + a \div 400
\* The length of February of year a.
LastsFebruary(a) == IF a % 4 = 0 /\ (a % 100 # 0 \/ a % 400 = 0) THEN 29 ELSE 28
\* The days before month m of a year that begins in March, and the year that month is in.
DaysBefore(m) == (153 * (IF m > 2 THEN m - 3 ELSE m + 9) + 2) \div 5
Adjusted(y, m) == IF m <= 2 THEN y - 1 ELSE y
\* A day of an era, counted from its first March, and its year as the code recovers it.
DayOfEra(q, doy) == q * 365 + q \div 4 - q \div 100 + doy
InEra(doe) == doe \in Int /\ doe >= 0 /\ doe <= 146096
YearOf(doe) == (doe - doe \div 1460 + doe \div 36524 - doe \div 146096) \div 365

\* The dates of the calendar, their counts, and their order.
IsDate(y, m, d) == y \in Int /\ m \in 1..12 /\ d \in 1..Calendars!days_in_month(y, m)
DayCount(y, m, d) == Marches(Adjusted(y, m)) + DaysBefore(m) + d - 1 - 719468
Precedes(a, b) == \/ a[1] < b[1]
                  \/ a[1] = b[1] /\ a[2] < b[2]
                  \/ a[1] = b[1] /\ a[2] = b[2] /\ a[3] < b[3]

\* The code's way to divide downward, of a year by an era's years and of days by an era's days.
LEMMA FloorDivision ==
    ASSUME NEW a \in Int
    PROVE  /\ Calendars!Div(IF a >= 0 THEN a ELSE a - 399, 400) = a \div 400
           /\ Calendars!Div(IF a >= 0 THEN a ELSE a - 146096, 146097) = a \div 146097
BY SMT DEF Calendars!Div

\* civil_from_days finds the year of any day of an era: the corrections for leap days cancel.
LEMMA YearOfEra ==
    ASSUME NEW y \in 0 .. 399, NEW doy \in 0 .. 365, doy = 365 => LastsFebruary(y + 1) = 29
    PROVE  /\ InEra(DayOfEra(y, doy))
           /\ YearOf(DayOfEra(y, doy)) = y
<1> DEFINE doe == DayOfEra(y, doy)
<1>1. PICK c \in 0..3, q \in 0..24, r \in 0..3 : y = 100*c + 4*q + r
  <2> DEFINE c == y \div 100
             q == (y % 100) \div 4
             r == y % 4
  <2>1. c \in 0..3 /\ q \in 0..24 /\ r \in 0..3 /\ y = 100*c + 4*q + r
    BY SMT
  <2> QED BY SMT, <2>1
<1>2. y \div 4 = 25*c + q /\ y \div 100 = c
  BY SMT, <1>1
<1>3. doe = 36524 * c + 1461 * q + 365 * r + doy /\ doe \in Int
  BY SMT, <1>1, <1>2 DEF DayOfEra
<1> HIDE DEF doe
<1>4. doy = 365 => r = 3 /\ (q = 24 => c = 3)
  BY SMT, <1>1 DEF LastsFebruary
<1> DEFINE x == IF 24 * c + q + 365 * r + doy >= 1460 THEN 1 ELSE 0
<1>5. doe \div 1460 = 25 * c + q + x
  BY SMT, <1>1, <1>3
<1>6. doe \div 36524 - doe \div 146096 = c
  BY SMT, <1>1, <1>3, <1>4
<1>7. x \in 0..1 /\ doy - x \in 0..364
  BY SMT, <1>1, <1>4
<1>8. doe - doe \div 1460 + doe \div 36524 - doe \div 146096 = 365 * y + (doy - x)
  <2> HIDE DEF x
  <2> QED BY SMT, <1>1, <1>3, <1>5, <1>6, <1>7
<1>9. (365 * y + (doy - x)) \div 365 = y
  <2> HIDE DEF x
  <2>1. y \in Int
    BY SMT
  <2> QED BY ONLY SMT, <1>7, <2>1
<1>10. doe >= 0 /\ doe <= 146096
  <2>1. 36524 * c <= 109572 /\ 1461 * q <= 35064 /\ 365 * r <= 1095 /\ doy <= 365
    BY SMT, <1>1
  <2> QED BY SMT, <1>1, <1>3, <2>1
<1>11. YearOf(doe) = y
  BY ONLY SMT, <1>8, <1>9 DEF YearOf
<1>12. doe \in Int
  BY ONLY SMT, <1>3
<1> QED BY ONLY SMT, <1>10, <1>11, <1>12 DEF doe, InEra

\* The month is found from the day of a year that begins in March, whose last day may be the 366th.
LEMMA MonthOfYear ==
    ASSUME NEW y \in Int, NEW m \in 1..12, NEW d \in 1..Calendars!days_in_month(y, m),
           NEW doy \in Int, doy = DaysBefore(m) + d - 1
    PROVE  /\ doy >= 0 /\ doy <= 365
           /\ doy = 365 => LastsFebruary(Adjusted(y, m) + 1) = 29
           /\ (5 * doy + 2) \div 153 = IF m > 2 THEN m - 3 ELSE m + 9
<1>1. doy >= 0 /\ doy <= 365
  BY SMT DEF Calendars!days_in_month, DaysBefore
<1>2. doy = 365 => m = 2 /\ Calendars!days_in_month(y, 2) = 29
  BY SMT DEF Calendars!days_in_month, DaysBefore
<1>3. doy = 365 => LastsFebruary(Adjusted(y, m) + 1) = 29
  BY SMT, <1>2 DEF Calendars!days_in_month, LastsFebruary, Adjusted
<1>4. (5 * doy + 2) \div 153 = IF m > 2 THEN m - 3 ELSE m + 9
  BY SMT DEF Calendars!days_in_month, DaysBefore
<1> QED BY SMT, <1>1, <1>3, <1>4

\* days_from_civil, without its eras.
LEMMA FormulaCounts ==
    ASSUME NEW y \in Int, NEW m \in 1..12, NEW d \in Int
    PROVE  Calendars!days_from_civil(y, m, d) = DayCount(y, m, d)
<1> DEFINE a == Adjusted(y, m)
           e == a \div 400
           q == a - e * 400
<1>1. a \in Int /\ y - Calendars!One(m <= 2) = a
  BY SMT DEF Adjusted, Calendars!One
<1>2. e \in Int /\ q \in 0..399 /\ a = 400 * e + q
  <2> HIDE DEF a
  <2> QED BY ONLY SMT, <1>1
<1>3. Calendars!Div(q, 4) = q \div 4 /\ Calendars!Div(q, 100) = q \div 100
  <2> HIDE DEF q
  <2> QED BY ONLY SMT, <1>2 DEF Calendars!Div
<1>4. Calendars!Div(153 * (m + IF m > 2 THEN -3 ELSE 9) + 2, 5) = DaysBefore(m)
  BY SMT DEF Calendars!Div, DaysBefore
<1>5. Marches(a) = e * 146097 + q * 365 + q \div 4 - q \div 100
  <2>1. a \div 4 = 100 * e + q \div 4 /\ a \div 100 = 4 * e + q \div 100
    <3> HIDE DEF a, e, q
    <3> QED BY ONLY SMT, <1>1, <1>2
  <2> HIDE DEF a, q
  <2> QED BY ONLY SMT, <1>1, <1>2, <2>1 DEF Marches
<1>6. Calendars!days_from_civil(y, m, d)
        = e * 146097 + q * 365 + Calendars!Div(q, 4) - Calendars!Div(q, 100)
              + (DaysBefore(m) + d - 1) - 719468
  BY SMT, <1>1, <1>4, FloorDivision DEF Calendars!days_from_civil
<1>7. DaysBefore(m) \in Int
  BY SMT DEF DaysBefore
<1> HIDE DEF a, e, q
<1>8. q \div 4 \in Int /\ q \div 100 \in Int /\ q \in Int /\ e \in Int /\ d \in Int
  BY SMT, <1>2
<1> QED BY SMT, <1>3, <1>5, <1>6, <1>7, <1>8 DEF a, DayCount

\* Both copies of civil_from_days take a date's count of days back to the date.
LEMMA FormulaDates ==
    ASSUME NEW y \in Int, NEW m \in 1..12, NEW d \in 1..Calendars!days_in_month(y, m),
           NEW n \in Int,
           n = DayCount(y, m, d)
    PROVE  /\ Calendars!civil_from_days(n) = <<y, m, d>>
           /\ Calendars!time_civil_from_days(n) = <<y, m, d>>
<1> DEFINE a == Adjusted(y, m)
           e == a \div 400
           q == a - e * 400
           doy == DaysBefore(m) + d - 1
           doe == DayOfEra(q, doy)
           z == n + 719468
<1>1. a \in Int /\ a + Calendars!One(m <= 2) = y
  BY SMT DEF Adjusted, Calendars!One
<1>2. e \in Int /\ q \in 0..399 /\ a = 400 * e + q
  <2> HIDE DEF a
  <2> QED BY ONLY SMT, <1>1
<1>3. doy \in Int /\ DaysBefore(m) \in Int /\ d \in Int
  BY SMT DEF DaysBefore, Calendars!days_in_month
<1>4. /\ doy >= 0 /\ doy <= 365 /\ (doy = 365 => LastsFebruary(a + 1) = 29)
      /\ (5 * doy + 2) \div 153 = IF m > 2 THEN m - 3 ELSE m + 9
  <2> HIDE DEF a
  <2> QED BY SMT, <1>3, MonthOfYear DEF a
<1>5. LastsFebruary(a + 1) = LastsFebruary(q + 1)
  <2> HIDE DEF a, e, q
  <2> QED BY ONLY SMT, <1>2 DEF LastsFebruary
<1>6. doe \in Int
  <2> HIDE DEF q, doy
  <2> QED BY ONLY SMT, <1>2, <1>3 DEF DayOfEra
<1>7. InEra(doe) /\ YearOf(doe) = q
  <2>1. doy \in 0..365
    BY SMT, <1>3, <1>4
  <2>2. doy = 365 => LastsFebruary(q + 1) = 29
    <3> HIDE DEF q, doy, a
    <3> QED BY ONLY SMT, <1>4, <1>5
  <2>3. q \in 0..399
    BY ONLY SMT, <1>2
  <2> HIDE DEF q, doy
  <2> QED BY ONLY <2>1, <2>2, <2>3, YearOfEra DEF doe
<1>8. z = e * 146097 + doe
  <2>1. a \div 4 = 100 * e + q \div 4 /\ a \div 100 = 4 * e + q \div 100 /\ a \div 400 = e
    <3> HIDE DEF a, e, q
    <3> QED BY ONLY SMT, <1>1, <1>2 DEF e
  <2>2. z = Marches(a) + doy
    <3>1. Marches(a) \in Int
      <4> HIDE DEF a
      <4> QED BY ONLY SMT, <1>1 DEF Marches
    <3> HIDE DEF a
    <3> QED BY SMT, <1>3, <3>1 DEF a, DayCount
  <2>3. q \div 4 \in Int /\ q \div 100 \in Int
    BY SMT, <1>2
  <2> HIDE DEF a, q, e, doy, z
  <2> QED BY ONLY SMT, <1>1, <1>2, <1>3, <2>1, <2>2, <2>3 DEF Marches, doe, DayOfEra
<1>9. z \in Int /\ z \div 146097 = e /\ z % 146097 = doe /\ z - (z \div 146097) * 146097 = doe
  <2> HIDE DEF e, doe, z
  <2>1. doe >= 0 /\ doe <= 146096
    BY SMT, <1>7 DEF InEra
  <2>2. e \in Int /\ z = e * 146097 + doe
    BY SMT, <1>2, <1>8
  <2> QED BY ONLY SMT, <1>6, <2>1, <2>2
<1>10. Calendars!Date(e, doe) = <<y, m, d>>
  <2>1. /\ Calendars!Div(doe, 1460) = doe \div 1460 /\ Calendars!Div(doe, 36524) = doe \div 36524
        /\ Calendars!Div(doe, 146096) = doe \div 146096
    <3> HIDE DEF doe
    <3> QED BY ONLY SMT, <1>6, <1>7 DEF Calendars!Div, InEra
  <2>2. doe - doe \div 1460 + doe \div 36524 - doe \div 146096 >= 0
        /\ doe - doe \div 1460 + doe \div 36524 - doe \div 146096 \in Int
    <3> HIDE DEF doe
    <3> QED BY ONLY SMT, <1>6, <1>7 DEF InEra
  <2>3. Calendars!Div(doe - Calendars!Div(doe, 1460) + Calendars!Div(doe, 36524)
                        - Calendars!Div(doe, 146096), 365) = q
    <3> HIDE DEF doe, q
    <3> QED BY ONLY SMT, <2>1, <2>2, <1>7 DEF InEra, Calendars!Div, YearOf
  <2>4. doe - (365 * q + Calendars!Div(q, 4) - Calendars!Div(q, 100)) = doy
    <3>1. Calendars!Div(q, 4) = q \div 4 /\ Calendars!Div(q, 100) = q \div 100
      <4> HIDE DEF q
      <4> QED BY ONLY SMT, <1>2 DEF Calendars!Div
    <3>2. q \div 4 \in Int /\ q \div 100 \in Int
      BY SMT, <1>2
    <3> HIDE DEF q, doy
    <3> QED BY ONLY SMT, <1>2, <1>3, <3>1, <3>2 DEF doe, DayOfEra
  <2> DEFINE mp == IF m > 2 THEN m - 3 ELSE m + 9
  <2>5. Calendars!Div(5 * doy + 2, 153) = mp
    <3> HIDE DEF doy, mp
    <3> QED BY SMT, <1>3, <1>4 DEF Calendars!Div, mp
  <2>6. mp + (IF mp < 10 THEN 3 ELSE -9) = m
    BY SMT
  <2>7. doy - Calendars!Div(153 * mp + 2, 5) + 1 = d
    <3>1. Calendars!Div(153 * mp + 2, 5) = DaysBefore(m)
      BY SMT DEF Calendars!Div, DaysBefore
    <3> QED BY SMT, <1>3, <3>1
  <2>8. q + e * 400 + Calendars!One(m <= 2) = y
    <3>1. Calendars!One(m <= 2) \in Int
      BY SMT DEF Calendars!One
    <3> HIDE DEF q, e, a
    <3> QED BY SMT, <1>1, <1>2, <3>1
  <2> HIDE DEF doe, doy, q, e, a, mp
  <2> QED BY SMT, <2>3, <2>4, <2>5, <2>6, <2>7, <2>8 DEF Calendars!Date
<1>11. Calendars!Div(IF z >= 0 THEN z ELSE z - 146096, 146097) = e
  BY SMT, <1>9, FloorDivision
<1> HIDE DEF e, doe
<1> QED BY SMT, <1>9, <1>10, <1>11 DEF Calendars!civil_from_days, Calendars!time_civil_from_days

\* A year from March to March has the next February in it.
LEMMA MarchToMarch ==
    ASSUME NEW a \in Int
    PROVE  Marches(a) \in Int /\ Marches(a + 1) = Marches(a) + 337 + LastsFebruary(a + 1)
BY SMT DEF Marches, LastsFebruary

\* Lengths of months.
LEMMA MonthLengths ==
    ASSUME NEW y \in Int, NEW m \in 1..12
    PROVE  /\ Calendars!days_in_month(y, m) \in 28..31
           /\ Calendars!days_in_month(y, 2) = LastsFebruary(y)
           /\ m = 12 => Calendars!days_in_month(y, m) = 31
BY SMT DEF Calendars!days_in_month, LastsFebruary

\* Counts are numbers.
LEMMA CountIsInt ==
    ASSUME NEW y \in Int, NEW m \in 1..12, NEW d \in Int
    PROVE  DayCount(y, m, d) \in Int
<1>1. Adjusted(y, m) \in Int /\ DaysBefore(m) \in Int
  BY SMT DEF Adjusted, DaysBefore
<1>2. Marches(Adjusted(y, m)) \in Int
  BY SMT, <1>1, MarchToMarch
<1> QED BY ONLY SMT, <1>1, <1>2 DEF DayCount

\* The count goes on from a month's last day to the next month's first,
LEMMA NextMonth ==
    ASSUME NEW y \in Int, NEW m \in 1..11
    PROVE  DayCount(y, m + 1, 1) = DayCount(y, m, Calendars!days_in_month(y, m)) + 1
<1>1. CASE m = 2
  <2>1. Adjusted(y, m + 1) = y /\ Adjusted(y, m) = y - 1 /\ DaysBefore(3) = 0 /\ DaysBefore(2) = 337
    BY SMT, <1>1 DEF Adjusted, DaysBefore
  <2>2. Marches(y - 1) \in Int /\ Marches(y) = Marches(y - 1) + 337 + LastsFebruary(y)
    <3>1. y - 1 \in Int /\ (y - 1) + 1 = y
      BY SMT
    <3> QED BY ONLY SMT, <3>1, MarchToMarch
  <2>3. Calendars!days_in_month(y, 2) = LastsFebruary(y) /\ LastsFebruary(y) \in Int
    BY SMT, MonthLengths DEF LastsFebruary
  <2> QED BY ONLY SMT, <1>1, <2>1, <2>2, <2>3 DEF DayCount
<1>2. CASE m # 2
  <2>1. Adjusted(y, m + 1) = Adjusted(y, m) /\ Adjusted(y, m) \in Int
    BY SMT, <1>2 DEF Adjusted
  <2>2. Marches(Adjusted(y, m)) \in Int
    BY SMT, <2>1, MarchToMarch
  <2>3. DaysBefore(m + 1) = DaysBefore(m) + Calendars!days_in_month(y, m) /\ DaysBefore(m) \in Int
    BY SMT, <1>2 DEF DaysBefore, Calendars!days_in_month
  <2>4. Calendars!days_in_month(y, m) \in Int
    BY SMT, MonthLengths
  <2> QED BY ONLY SMT, <2>1, <2>2, <2>3, <2>4 DEF DayCount
<1> QED BY SMT, <1>1, <1>2

\* from a year's last day to the next year's first, and from a year's first day to the next year's,
LEMMA NewYear ==
    ASSUME NEW y \in Int
    PROVE  /\ DayCount(y + 1, 1, 1) = DayCount(y, 12, 31) + 1
           /\ DayCount(y + 1, 1, 1) = DayCount(y, 1, 1) + Calendars!YearLength(y)
<1>1. /\ Adjusted(y + 1, 1) = y /\ Adjusted(y, 12) = y /\ Adjusted(y, 1) = y - 1
      /\ DaysBefore(1) = 306 /\ DaysBefore(12) = 275
  BY SMT DEF Adjusted, DaysBefore
<1>2. Marches(y) \in Int
  BY SMT, MarchToMarch
<1>3. Marches(y - 1) \in Int /\ Marches(y) = Marches(y - 1) + 337 + LastsFebruary(y)
  <2>1. y - 1 \in Int /\ (y - 1) + 1 = y
    BY SMT
  <2> QED BY ONLY SMT, <2>1, MarchToMarch
<1>4. Calendars!YearLength(y) = 337 + LastsFebruary(y) /\ LastsFebruary(y) \in Int
  BY SMT, MonthLengths DEF Calendars!YearLength, LastsFebruary
<1> QED BY ONLY SMT, <1>1, <1>2, <1>3, <1>4 DEF DayCount

\* and from a day to the next one.
LEMMA NextOfDay ==
    ASSUME NEW y \in Int, NEW m \in 1..12, NEW d \in Int
    PROVE  DayCount(y, m, d + 1) = DayCount(y, m, d) + 1
<1>1. Adjusted(y, m) \in Int /\ DaysBefore(m) \in Int
  BY SMT DEF Adjusted, DaysBefore
<1>2. Marches(Adjusted(y, m)) \in Int
  BY SMT, <1>1, MarchToMarch
<1> QED BY SMT, <1>1, <1>2 DEF DayCount

\* Each day has a day after it, a later date, that counts one more,
LEMMA Tomorrow ==
    ASSUME NEW y, NEW m, NEW d, IsDate(y, m, d)
    PROVE  \E y2, m2, d2 : /\ IsDate(y2, m2, d2) /\ DayCount(y2, m2, d2) = DayCount(y, m, d) + 1
                           /\ Precedes(<<y, m, d>>, <<y2, m2, d2>>)
<1>0. y \in Int /\ m \in 1..12 /\ d \in Int /\ d >= 1 /\ d <= Calendars!days_in_month(y, m)
  BY SMT, MonthLengths DEF IsDate
<1>1. CASE d < Calendars!days_in_month(y, m)
  <2>1. IsDate(y, m, d + 1) /\ Precedes(<<y, m, d>>, <<y, m, d + 1>>)
    BY SMT, <1>0, <1>1, MonthLengths DEF IsDate, Precedes
  <2> QED BY <1>0, <2>1, NextOfDay
<1>2. CASE d = Calendars!days_in_month(y, m) /\ m # 12
  <2>1. m \in 1..11
    BY SMT, <1>0, <1>2
  <2>2. IsDate(y, m + 1, 1) /\ Precedes(<<y, m, d>>, <<y, m + 1, 1>>)
    <3>1. m + 1 \in 1..12
      BY SMT, <2>1
    <3>2. 1 \in 1..Calendars!days_in_month(y, m + 1)
      BY SMT, <1>0, <3>1, MonthLengths
    <3> QED BY SMT, <1>0, <3>1, <3>2 DEF IsDate, Precedes
  <2> QED BY <1>0, <1>2, <2>1, <2>2, NextMonth
<1>3. CASE d = Calendars!days_in_month(y, m) /\ m = 12
  <2>1. d = 31
    BY SMT, <1>0, <1>3, MonthLengths
  <2>2. IsDate(y + 1, 1, 1) /\ Precedes(<<y, m, d>>, <<y + 1, 1, 1>>)
    <3>1. y + 1 \in Int /\ 1 \in 1..12
      BY SMT, <1>0
    <3>2. 1 \in 1..Calendars!days_in_month(y + 1, 1)
      BY SMT, <3>1, MonthLengths
    <3> QED BY SMT, <1>0, <3>1, <3>2 DEF IsDate, Precedes
  <2> QED BY <1>0, <1>3, <2>1, <2>2, NewYear
<1> QED BY SMT, <1>0, <1>1, <1>2, <1>3, MonthLengths

\* and a day before it.
LEMMA Yesterday ==
    ASSUME NEW y, NEW m, NEW d, IsDate(y, m, d)
    PROVE  \E y2, m2, d2 : /\ IsDate(y2, m2, d2) /\ DayCount(y2, m2, d2) + 1 = DayCount(y, m, d)
                           /\ Precedes(<<y2, m2, d2>>, <<y, m, d>>)
<1>0. y \in Int /\ m \in 1..12 /\ d \in Int /\ d >= 1 /\ d <= Calendars!days_in_month(y, m)
  BY SMT, MonthLengths DEF IsDate
<1>1. CASE d > 1
  <2>1. IsDate(y, m, d - 1) /\ Precedes(<<y, m, d - 1>>, <<y, m, d>>)
    BY SMT, <1>0, <1>1, MonthLengths DEF IsDate, Precedes
  <2>2. d - 1 \in Int /\ (d - 1) + 1 = d
    BY SMT, <1>0
  <2>3. DayCount(y, m, d) = DayCount(y, m, d - 1) + 1
    BY ONLY SMT, <1>0, <2>2, NextOfDay
  <2> QED BY SMT, <2>1, <2>3
<1>2. CASE d = 1 /\ m # 1
  <2> DEFINE p == m - 1
  <2>1. p \in 1..11 /\ p + 1 = m /\ p \in 1..12 /\ p < m
    BY SMT, <1>0, <1>2
  <2> HIDE DEF p
  <2>2. Calendars!days_in_month(y, p) \in 28..31
    BY SMT, <1>0, <2>1, MonthLengths
  <2>3. /\ IsDate(y, p, Calendars!days_in_month(y, p))
        /\ Precedes(<<y, p, Calendars!days_in_month(y, p)>>, <<y, m, d>>)
    BY SMT, <1>0, <2>1, <2>2 DEF IsDate, Precedes
  <2>4. DayCount(y, m, d) = DayCount(y, p, Calendars!days_in_month(y, p)) + 1
    BY ONLY SMT, <1>0, <1>2, <2>1, NextMonth
  <2> QED BY SMT, <2>3, <2>4
<1>3. CASE d = 1 /\ m = 1
  <2> DEFINE p == y - 1
  <2>1. p \in Int /\ p + 1 = y /\ p < y
    BY SMT, <1>0
  <2> HIDE DEF p
  <2>2. Calendars!days_in_month(p, 12) = 31
    BY SMT, <2>1, MonthLengths
  <2>3. IsDate(p, 12, 31) /\ Precedes(<<p, 12, 31>>, <<y, m, d>>)
    BY SMT, <1>0, <2>1, <2>2 DEF IsDate, Precedes
  <2>4. DayCount(y, m, d) = DayCount(p, 12, 31) + 1
    BY ONLY SMT, <1>0, <1>3, <2>1, NewYear
  <2> QED BY SMT, <2>3, <2>4
<1> QED BY SMT, <1>0, <1>1, <1>2, <1>3

\* On every date the formulas are the count, and its inverse.
LEMMA FormulasHold ==
    ASSUME NEW y, NEW m, NEW d, IsDate(y, m, d)
    PROVE  /\ Calendars!days_from_civil(y, m, d) = DayCount(y, m, d)
           /\ DayCount(y, m, d) \in Int
           /\ Calendars!civil_from_days(DayCount(y, m, d)) = <<y, m, d>>
           /\ Calendars!time_civil_from_days(DayCount(y, m, d)) = <<y, m, d>>
<1>1. y \in Int /\ m \in 1..12 /\ d \in 1..Calendars!days_in_month(y, m)
  BY SMT DEF IsDate
<1>2. d \in Int
  BY SMT, <1>1, MonthLengths
<1>3. DayCount(y, m, d) \in Int
  BY <1>1, <1>2, CountIsInt
<1> QED BY ONLY <1>1, <1>2, <1>3, FormulaCounts, FormulaDates

\* The walk is on a date, and has counted to it.
DateInv == IsDate(year, month, day) /\ days = DayCount(year, month, day)

\* The walk begins on a date, and stays on dates that it counts.
LEMMA DateStart == Calendars!Init => DateInv
<1> SUFFICES ASSUME Calendars!Init PROVE DateInv
  BY SMT
<1>1. year = 1970 /\ month = 1 /\ day = 1 /\ days = 0
  BY SMT DEF Calendars!Init
<1>2. Calendars!days_in_month(1970, 1) \in 28..31
  BY SMT, MonthLengths
<1>3. IsDate(year, month, day)
  BY SMT, <1>1, <1>2 DEF IsDate
<1>4. DayCount(1970, 1, 1) = 0
  BY SMT DEF DayCount, Adjusted, Marches, DaysBefore
<1> QED BY SMT, <1>1, <1>3, <1>4 DEF DateInv

\* Every step of the walk leads to a date, and counts the days to it.
LEMMA DateStep ==
    ASSUME DateInv, [Calendars!Next]_(Calendars!vars)
    PROVE  DateInv'
<1>0. /\ year \in Int /\ month \in 1..12
      /\ day \in Int /\ day >= 1 /\ day <= Calendars!days_in_month(year, month)
  BY SMT, MonthLengths DEF DateInv, IsDate
<1>1. CASE Calendars!NextYear
  <2>1. year' = year + 1 /\ month' = 1 /\ day' = 1 /\ days' = days + Calendars!YearLength(year)
        /\ month = 1 /\ day = 1
    BY SMT, <1>1 DEF Calendars!NextYear
  <2>2. year' \in Int
    BY SMT, <1>0, <2>1
  <2>3. 1 \in 1..Calendars!days_in_month(year', 1)
    BY SMT, <2>2, MonthLengths
  <2>4. DayCount(year + 1, 1, 1) = DayCount(year, 1, 1) + Calendars!YearLength(year)
    BY SMT, <1>0, NewYear
  <2> QED BY SMT, <1>0, <2>1, <2>2, <2>3, <2>4 DEF DateInv, IsDate
<1>2. CASE Calendars!PreviousYear
  <2>1. year' = year - 1 /\ month' = 1 /\ day' = 1 /\ days' = days - Calendars!YearLength(year - 1)
        /\ month = 1 /\ day = 1
    BY SMT, <1>2 DEF Calendars!PreviousYear
  <2>2. year' \in Int /\ year' + 1 = year
    BY SMT, <1>0, <2>1
  <2>3. 1 \in 1..Calendars!days_in_month(year', 1)
    BY SMT, <2>2, MonthLengths
  <2>4. DayCount(year, 1, 1) = DayCount(year', 1, 1) + Calendars!YearLength(year')
    BY ONLY SMT, <2>2, NewYear
  <2>5. DayCount(year', 1, 1) \in Int /\ Calendars!YearLength(year') \in Int
    <3>1. 12 \in 1..12 /\ 1 \in 1..12 /\ 1 \in Int
      BY SMT
    <3>2. DayCount(year', 1, 1) \in Int
      BY ONLY SMT, <2>2, <3>1, CountIsInt
    <3>3. Calendars!days_in_month(year', 2) \in 28..31
      BY SMT, <2>2, MonthLengths
    <3> QED BY ONLY SMT, <3>2, <3>3 DEF Calendars!YearLength
  <2>6. days = DayCount(year, 1, 1) /\ days' = days - Calendars!YearLength(year')
    BY SMT, <2>1 DEF DateInv
  <2>7. days' = DayCount(year', 1, 1)
    BY ONLY SMT, <2>4, <2>5, <2>6
  <2>8. IsDate(year', month', day')
    BY SMT, <2>1, <2>2, <2>3 DEF IsDate
  <2> QED BY SMT, <2>1, <2>7, <2>8 DEF DateInv
<1>3. CASE Calendars!NextDay
  <2>1. days' = days + 1 /\ year' = year /\ days = DayCount(year, month, day)
    BY SMT, <1>3 DEF Calendars!NextDay, DateInv
  <2>2. CASE day < Calendars!days_in_month(year, month)
    <3>1. day' = day + 1 /\ month' = month
      BY SMT, <1>3, <2>2 DEF Calendars!NextDay
    <3>2. day + 1 \in 1..Calendars!days_in_month(year, month)
      BY SMT, <1>0, <2>2, MonthLengths
    <3>3. DayCount(year, month, day + 1) = DayCount(year, month, day) + 1
      BY SMT, <1>0, NextOfDay
    <3> QED BY SMT, <1>0, <2>1, <3>1, <3>2, <3>3 DEF DateInv, IsDate
  <2>3. CASE day = Calendars!days_in_month(year, month)
    <3>1. day' = 1 /\ month' = month + 1 /\ ~(month = 12 /\ day = 31)
      BY SMT, <1>3, <2>3, <1>0 DEF Calendars!NextDay
    <3>2. month \in 1..11 /\ month + 1 \in 1..12
      BY SMT, <1>0, <2>3, <3>1, MonthLengths
    <3>3. 1 \in 1..Calendars!days_in_month(year, month + 1)
      BY SMT, <1>0, <3>2, MonthLengths
    <3>4. DayCount(year, month + 1, 1) = DayCount(year, month, day) + 1
      BY SMT, <1>0, <2>3, <3>2, NextMonth
    <3> QED BY SMT, <1>0, <2>1, <3>1, <3>2, <3>3, <3>4 DEF DateInv, IsDate
  <2> QED BY SMT, <1>0, <2>2, <2>3, MonthLengths
<1>4. CASE UNCHANGED Calendars!vars
  BY SMT, <1>4 DEF Calendars!vars, DateInv
<1> QED BY SMT, <1>1, <1>2, <1>3, <1>4 DEF Calendars!Next

\* Days and the time of day, taken apart.
LEMMA UnitsOfADay ==
    ASSUME NEW D \in Nat \ {0}, NEW n \in Int, NEW t \in 0..D - 1
    PROVE  (n * D + t) \div D = n /\ (n * D + t) % D = t
BY SMT

\* The two conversions give one text of one moment.
LEMMA TextsAgree ==
    ASSUME Calendars!CalendarAssumption, DateInv
    PROVE  Calendars!OneTextPerMoment
<1> SUFFICES ASSUME NEW t \in Times, days >= 0
             PROVE  Calendars!format_epoch_millis(days * DAY + t)
                        = Calendars!normalize_timestamp(year, month, day, t, 0)
  BY SMT DEF Calendars!OneTextPerMoment
<1>1. DAY \in Nat \ {0} /\ t \in 0..DAY - 1
  BY SMT DEF Calendars!CalendarAssumption
<1>2. days \in Int /\ Calendars!days_from_civil(year, month, day) = days
  BY SMT, FormulasHold DEF DateInv
<1>3. (days * DAY + t) \div DAY = days /\ (days * DAY + t) % DAY = t
  BY SMT, <1>1, <1>2, UnitsOfADay
<1>4. days * DAY \in Nat
  BY ONLY SMT, <1>1, <1>2, days >= 0
<1>5. Calendars!Div(days * DAY + t, DAY) = days
  <2>1. days * DAY + t >= 0
    BY SMT, <1>1, <1>4
  <2> QED BY ONLY SMT, <1>3, <2>1 DEF Calendars!Div
<1>6. Calendars!format_epoch_millis(days * DAY + t) = <<Calendars!time_civil_from_days(days), t>>
  BY ONLY SMT, <1>3, <1>5 DEF Calendars!format_epoch_millis
<1>7. days * DAY + t - 0 = days * DAY + t
  BY SMT, <1>1, <1>4
<1>8. Calendars!normalize_timestamp(year, month, day, t, 0) = <<Calendars!civil_from_days(days), t>>
  BY ONLY SMT, <1>2, <1>3, <1>7 DEF Calendars!normalize_timestamp
<1> QED BY SMT, <1>6, <1>8, FormulasHold DEF DateInv

\* A moment of a day, written in any zone, is of that day or one beside it.
LEMMA DayOf ==
    ASSUME NEW D \in Int, D > 0, NEW n \in Int, NEW t \in 0..D - 1, NEW o \in -(D-1)..D - 1
    PROVE  /\ (n * D + t - o) \div D \in n - 1 .. n + 1
           /\ (n * D + t - o) % D \in 0..D - 1
<1>1. n * D \in Int /\ n * D - D = (n - 1) * D /\ n * D + D = (n + 1) * D
  BY SMT
<1>2. CASE t - o < 0
  <2>1. n - 1 \in Int /\ D + t - o \in 0..D - 1 /\ D \in Nat \ {0}
    BY SMT, <1>2
  <2>2. n * D + t - o = (n - 1) * D + (D + t - o)
    BY SMT, <1>1
  <2>3. (n * D + t - o) \div D = n - 1 /\ (n * D + t - o) % D = D + t - o
    BY ONLY <2>1, <2>2, UnitsOfADay
  <2> QED BY SMT, <2>1, <2>3
<1>3. CASE t - o \in 0..D - 1
  <2>1. D \in Nat \ {0} /\ n * D + t - o = n * D + (t - o)
    BY SMT, <1>1
  <2>2. (n * D + t - o) \div D = n /\ (n * D + t - o) % D = t - o
    BY ONLY SMT, <1>3, <2>1, UnitsOfADay, n \in Int
  <2> QED BY SMT, <1>3, <2>2
<1>4. CASE t - o >= D
  <2>1. n + 1 \in Int /\ t - o - D \in 0..D - 1 /\ D \in Nat \ {0}
    BY SMT, <1>4
  <2>2. n * D + t - o = (n + 1) * D + (t - o - D)
    BY SMT, <1>1
  <2>3. (n * D + t - o) \div D = n + 1 /\ (n * D + t - o) % D = t - o - D
    BY ONLY SMT, <2>1, <2>2, UnitsOfADay
  <2> QED BY SMT, <2>1, <2>3
<1> QED BY SMT, <1>2, <1>3, <1>4

\* Division with its remainder,
LEMMA Division ==
    ASSUME NEW D \in Int, D > 0, NEW u \in Int
    PROVE  /\ u \div D \in Int /\ u % D \in 0..D - 1
           /\ u = D * (u \div D) + (u % D)
<1>1. u = D * (u \div D) + (u % D)
  BY SMT
<1>2. u \div D \in Int
  BY SMT
<1>3. u % D \in 0..D - 1
  BY SMT
<1> QED BY ONLY SMT, <1>1, <1>2, <1>3

\* which keeps the order.
LEMMA DaysOrder ==
    ASSUME NEW D \in Int, D > 0, NEW u \in Int, NEW v \in Int, u < v
    PROVE  u \div D < v \div D \/ (u \div D = v \div D /\ u % D < v % D)
<1>1. u = D * (u \div D) + (u % D) /\ u % D \in 0..D - 1 /\ u \div D \in Int
  BY SMT, Division
<1>2. v = D * (v \div D) + (v % D) /\ v % D \in 0..D - 1 /\ v \div D \in Int
  BY SMT, Division
<1> DEFINE i == u \div D
           j == v \div D
           r == u % D
           q == v % D
<1> HIDE DEF i, j, r, q
<1>3. CASE j < i
  <2>1. i - j >= 1 /\ i \in Int /\ j \in Int
    BY SMT, <1>1, <1>2, <1>3 DEF i, j
  <2>2. D * (i - j) >= D
    BY ONLY SMT, <2>1, D \in Int, D > 0
  <2>3. D * i - D * j = D * (i - j) /\ D * i \in Int /\ D * j \in Int
    BY ONLY SMT, <2>1, D \in Int
  <2>4. u = D * i + r /\ v = D * j + q /\ r \in 0..D-1 /\ q \in 0..D-1
    BY ONLY SMT, <1>1, <1>2 DEF i, j, r, q
  <2> QED BY SMT, <2>2, <2>3, <2>4
<1>4. CASE i = j
  <2>1. u = D * i + r /\ v = D * i + q /\ r \in 0..D-1 /\ q \in 0..D-1 /\ D * i \in Int
    BY SMT, <1>1, <1>2, <1>4 DEF i, j, r, q
  <2> QED BY SMT, <1>4, <2>1 DEF i, j, r, q
<1> QED BY SMT, <1>1, <1>2, <1>3, <1>4 DEF i, j

\* Of the three days around a date, a later one has a later date.
LEMMA DatesFollow ==
    ASSUME DateInv, NEW n \in days - 1 .. days + 1, NEW k \in days - 1 .. days + 1, n < k
    PROVE  Precedes(Calendars!civil_from_days(n), Calendars!civil_from_days(k))
<1>0. days \in Int
  BY SMT, FormulasHold DEF DateInv
<1>1. /\ days \in Int /\ Calendars!civil_from_days(days) = <<year, month, day>>
      /\ days = DayCount(year, month, day)
  BY SMT, FormulasHold DEF DateInv
<1>2. PICK y, m, d : /\ IsDate(y, m, d) /\ DayCount(y, m, d) = days + 1
                     /\ Precedes(<<year, month, day>>, <<y, m, d>>)
  BY SMT, <1>1, Tomorrow DEF DateInv
<1>3. PICK w, x, z : /\ IsDate(w, x, z) /\ DayCount(w, x, z) + 1 = days
                     /\ Precedes(<<w, x, z>>, <<year, month, day>>)
  BY SMT, <1>1, Yesterday DEF DateInv
<1>4. Calendars!civil_from_days(days + 1) = <<y, m, d>>
  BY SMT, <1>2, FormulasHold
<1>5. Calendars!civil_from_days(days - 1) = <<w, x, z>>
  <2>1. DayCount(w, x, z) \in Int
    BY SMT, <1>3, FormulasHold
  <2>2. DayCount(w, x, z) = days - 1
    BY SMT, <1>1, <1>3, <2>1
  <2> QED BY SMT, <1>3, <2>2, FormulasHold
<1>6. Precedes(<<w, x, z>>, <<y, m, d>>)
  <2>1. /\ year \in Int /\ month \in Int /\ day \in Int /\ y \in Int /\ m \in Int /\ d \in Int
        /\ w \in Int /\ x \in Int /\ z \in Int
    BY SMT, <1>2, <1>3, MonthLengths DEF IsDate, DateInv
  <2> QED BY SMT, <1>2, <1>3, <2>1 DEF Precedes
<1>7. (n = days - 1 /\ k \in {days, days + 1}) \/ (n = days /\ k = days + 1)
  BY ONLY SMT, <1>0, n \in days - 1 .. days + 1, k \in days - 1 .. days + 1, n < k
<1> QED BY SMT, <1>1, <1>2, <1>3, <1>4, <1>5, <1>6, <1>7

\* So texts of moments are ordered as the moments.
LEMMA ZonesHold ==
    ASSUME Calendars!CalendarAssumption, DateInv
    PROVE  Calendars!ZonesKeepTheOrder
<1> SUFFICES ASSUME NEW s \in Times, NEW t \in Times, NEW o \in Offsets, NEW p \in Offsets
             PROVE  LET a == Calendars!normalize_timestamp(year, month, day, s, o)
                        b == Calendars!normalize_timestamp(year, month, day, t, p)
                    IN  /\ s - o < t - p => Calendars!Earlier(a, b)
                        /\ s - o = t - p => a = b
  BY SMT DEF Calendars!ZonesKeepTheOrder
<1> DEFINE u == days * DAY + s - o
           v == days * DAY + t - p
<1>1. /\ DAY \in Int /\ DAY > 0
      /\ s \in 0..DAY - 1 /\ t \in 0..DAY - 1 /\ o \in -(DAY-1)..DAY - 1 /\ p \in -(DAY-1)..DAY - 1
  BY SMT DEF Calendars!CalendarAssumption
<1>2. days \in Int /\ Calendars!days_from_civil(year, month, day) = days
  BY SMT, FormulasHold DEF DateInv
<1>3. /\ Calendars!normalize_timestamp(year, month, day, s, o)
           = <<Calendars!civil_from_days(u \div DAY), u % DAY>>
      /\ Calendars!normalize_timestamp(year, month, day, t, p)
           = <<Calendars!civil_from_days(v \div DAY), v % DAY>>
  BY SMT, <1>2 DEF Calendars!normalize_timestamp
<1>4. days * DAY \in Int
  BY ONLY SMT, <1>1, <1>2
<1>5. u \in Int /\ v \in Int /\ (s - o < t - p => u < v) /\ (s - o = t - p => u = v)
  BY SMT, <1>1, <1>4
<1>6. /\ u \div DAY \in days - 1 .. days + 1 /\ v \div DAY \in days - 1 .. days + 1
      /\ u % DAY \in 0..DAY - 1 /\ v % DAY \in 0..DAY - 1
  BY SMT, <1>1, <1>2, <1>4, DayOf
<1> HIDE DEF u, v
<1>7. u < v => u \div DAY < v \div DAY \/ (u \div DAY = v \div DAY /\ u % DAY < v % DAY)
  <2>1. DAY \in Int /\ DAY > 0
    BY ONLY SMT, <1>1
  <2>2. u \in Int /\ v \in Int
    BY ONLY SMT, <1>5
  <2> QED BY ONLY SMT, <2>1, <2>2, DaysOrder
<1>8. s - o = t - p =>
        Calendars!normalize_timestamp(year, month, day, s, o)
            = Calendars!normalize_timestamp(year, month, day, t, p)
  BY ONLY SMT, <1>3, <1>5
<1>9. u \div DAY < v \div DAY =>
        Precedes(Calendars!civil_from_days(u \div DAY), Calendars!civil_from_days(v \div DAY))
  BY SMT, <1>6, DatesFollow
<1>10. u < v => Calendars!Earlier(<<Calendars!civil_from_days(u \div DAY), u % DAY>>,
                                  <<Calendars!civil_from_days(v \div DAY), v % DAY>>)
  BY SMT, <1>7, <1>9 DEF Calendars!Earlier, Precedes
<1> QED BY SMT, <1>3, <1>5, <1>8, <1>10

\* Timestamps are the calendar's on every date, of one text per moment, and ordered as their moments
\* in any zones, for any years and any length of a day's units: by induction over the walk, which
\* stays on dates and counts them (DateInv).
THEOREM TimesHold == RequestsSpec => []TimesAreTrue
<1>0. Calendars!CalendarAssumption
  BY SMT, RequestsAssumption
<1>1. RequestsInit => DateInv
  BY SMT, DateStart DEF RequestsInit
<1>2. DateInv /\ [RequestsNext]_requestVars => DateInv'
  <2> SUFFICES ASSUME DateInv, [RequestsNext]_requestVars PROVE DateInv'
    BY SMT
  <2>1. [Calendars!Next]_(Calendars!vars)
    BY SMT DEF RequestsNext, requestVars, calendarVars, Calendars!vars
  <2> QED BY SMT, <2>1, DateStep
<1>3. DateInv => TimesAreTrue
  <2> SUFFICES ASSUME DateInv PROVE Calendars!TimesAreTrue
    BY SMT DEF TimesAreTrue
  <2>1. Calendars!FormulasAreTheCalendar
    BY SMT, FormulasHold DEF DateInv, Calendars!FormulasAreTheCalendar
  <2>2. Calendars!OneTextPerMoment /\ Calendars!ZonesKeepTheOrder
    BY SMT, <1>0, TextsAgree, ZonesHold
  <2> QED BY SMT, <2>1, <2>2 DEF Calendars!TimesAreTrue
<1> QED BY SMT, <1>1, <1>2, <1>3, PTL DEF RequestsSpec

-----------------------------------------------------------------------------
\* Commands.
Offers == [name : Names, from : Bodies \cup {"pi", "builtin"}]
Pcs == {"idle", "ask", "answered", "failed", "known", "sent", "builtin", "shown"}

\* What is assumed of names, files and commands, part by part.
LEMMA CommandParts ==
    ASSUME Slash!SlashAssumption
    PROVE  /\ "plain" \notin Names /\ "pi" \notin Bodies /\ "builtin" \notin Bodies
           /\ IsFiniteSet(Builtins) /\ Builtins \subseteq Names
           /\ \A d \in DOMAIN Dirs : Dirs[d] \in Seq(Slash!FileRecs)
           /\ "user" \in DOMAIN Dirs /\ Roots \in Seq(DOMAIN Dirs)
<1>1. "plain" \notin Names /\ {"pi", "builtin"} \cap Bodies = {}
  BY Zenon DEF Slash!SlashAssumption
<1>2. IsFiniteSet(Builtins) /\ Builtins \subseteq Names
  BY Zenon DEF Slash!SlashAssumption, Slash!IsFiniteSet, IsFiniteSet
<1>3. \A d \in DOMAIN Dirs : Dirs[d] \in Seq(Slash!FileRecs)
  BY Zenon DEF Slash!SlashAssumption
<1>4. "user" \in DOMAIN Dirs /\ Roots \in Seq(DOMAIN Dirs)
  BY Zenon DEF Slash!SlashAssumption
<1> QED BY <1>1, <1>2, <1>3, <1>4

\* The module's Subsequence is the one the lemmas are about.
LEMMA SlashSubsequence ==
    ASSUME NEW s, NEW at
    PROVE  Slash!Subsequence(s, at) = Subsequence(s, at)
BY DEF Slash!Subsequence, Subsequence, Slash!Nth, Nth, Slash!Rank, Rank, Slash!Cardinality, Cardinality

\* The entries that FirstOnly keeps: each name's first, once.
LEMMA FirstOnlyIs ==
    ASSUME NEW s \in Seq(Offers)
    PROVE  LET at == {i \in 1 .. Len(s) : \A j \in 1 .. i - 1 : s[j].name # s[i].name}
               f  == Slash!FirstOnly(s)
           IN  /\ f = Subsequence(s, at)
               /\ f \in Seq(Offers) /\ DOMAIN f = 1 .. Cardinality(at) /\ Len(f) = Cardinality(at)
               /\ \A k \in 1 .. Cardinality(at) : Nth(at, k) \in at /\ Rank(at, Nth(at, k)) = k
                                                  /\ f[k] = s[Nth(at, k)]
<1> DEFINE at == {i \in 1 .. Len(s) : \A j \in 1 .. i - 1 : s[j].name # s[i].name}
           f == Slash!FirstOnly(s)
<1>1. at \in SUBSET (1 .. Len(s)) /\ DOMAIN s = 1 .. Len(s)
  OBVIOUS
<1>2. f = Subsequence(s, at)
  BY <1>1, SlashSubsequence DEF Slash!FirstOnly
<1>3. /\ at \in SUBSET Int /\ IsFiniteSet(at) /\ Cardinality(at) \in Nat
      /\ \A i \in at : s[i] \in Offers
  <2> HIDE DEF at
  <2> QED BY <1>1, Positions
<1>4. f \in Seq(Offers) /\ DOMAIN f = 1 .. Cardinality(at) /\ Len(f) = Cardinality(at)
  <2> HIDE DEF at, f
  <2> QED BY <1>1, <1>2, <1>3, SubsequenceType
<1>5. \A k \in 1 .. Cardinality(at) : Nth(at, k) \in at /\ Rank(at, Nth(at, k)) = k
  <2> HIDE DEF at
  <2> QED BY <1>3, NthIsThere
<1>6. \A k \in 1 .. Cardinality(at) : f[k] = s[Nth(at, k)]
  <2> HIDE DEF at, f
  <2> QED BY <1>2 DEF Subsequence
<1> QED BY <1>2, <1>4, <1>5, <1>6

LEMMA Firsts ==
    ASSUME NEW s \in Seq(Offers)
    PROVE  LET f == Slash!FirstOnly(s)
           IN  /\ f \in Seq(Offers)
               /\ \A k \in DOMAIN f : \E i \in DOMAIN s : /\ f[k] = s[i]
                                                         /\ \A j \in 1 .. i - 1 : s[j].name # s[i].name
               /\ \A k, m \in DOMAIN f : f[k].name = f[m].name => k = m
               /\ \A i \in DOMAIN s : \E k \in DOMAIN f : f[k].name = s[i].name
<1> DEFINE at == {i \in 1 .. Len(s) : \A j \in 1 .. i - 1 : s[j].name # s[i].name}
           f == Slash!FirstOnly(s)
<1>1. /\ f \in Seq(Offers) /\ DOMAIN f = 1 .. Cardinality(at) /\ DOMAIN s = 1 .. Len(s) /\ Len(s) \in Nat
      /\ f = Subsequence(s, at)
  BY FirstOnlyIs
<1>2. \A k \in DOMAIN f : Nth(at, k) \in at /\ Rank(at, Nth(at, k)) = k /\ f[k] = s[Nth(at, k)]
  BY FirstOnlyIs
<1>3. ASSUME NEW k \in DOMAIN f, NEW m \in DOMAIN f, f[k].name = f[m].name PROVE k = m
  <2>1. \A i, j \in at : s[i].name = s[j].name => i = j
    <3> SUFFICES ASSUME NEW i \in at, NEW j \in at, s[i].name = s[j].name PROVE i = j
      OBVIOUS
    <3>1. ~(i \in 1 .. j - 1) /\ ~(j \in 1 .. i - 1)
      OBVIOUS
    <3> QED BY <1>1, <3>1
  <2> HIDE DEF at, f
  <2> QED BY <1>2, <1>3, <2>1
<1>4. ASSUME NEW i \in DOMAIN s PROVE \E k \in DOMAIN f : f[k].name = s[i].name
  <2> DEFINE same == {j \in 1 .. Len(s) : s[j].name = s[i].name}
  <2>1. same \in SUBSET Nat /\ same # {}
    BY <1>1
  <2>2. PICK j \in same : \A m \in same : j <= m
    <3> HIDE DEF same
    <3> QED BY <2>1, LeastNumber
  <2>3. j \in at
    <3>1. ASSUME NEW m \in 1 .. j - 1 PROVE s[m].name # s[j].name
      <4>1. m \in 1 .. Len(s) /\ ~(j <= m)
        BY <1>1
      <4> QED BY <2>2, <4>1
    <3> QED BY <3>1
  <2>4. s[j] \in Offers /\ s[j].name = s[i].name /\ at \in SUBSET (1 .. Len(s))
    BY <1>1
  <2>5. PICK k \in 1 .. Cardinality(at) : Subsequence(s, at)[k] = s[j]
    <3> HIDE DEF at, f
    <3> QED BY <2>3, <2>4, SubsequenceRange
  <2> QED BY <1>1, <2>4, <2>5
<1>5. \A k \in DOMAIN f : \E i \in DOMAIN s : /\ f[k] = s[i]
                                             /\ \A j \in 1 .. i - 1 : s[j].name # s[i].name
  BY <1>1, <1>2
<1> QED BY <1>1, <1>3, <1>4, <1>5

\* The files of a session are those of its directories.
LEMMA CollectedType ==
    ASSUME Slash!SlashAssumption, NEW F, \A d \in DOMAIN Dirs : Dirs[d] \in Seq(F)
    PROVE  Slash!load_slash_commands_at_roots \in Seq(F)
<1> DEFINE N == Len(Roots)
           z == Dirs["user"]
           Again(n) == \E j \in 1 .. n - 1 : Roots[j] = Roots[n]
           More(n, s) == IF Again(n) THEN s ELSE s \o Dirs[Roots[n]]
           step == [p \in (1 .. N) \X Seq(F) |-> More(p[1], p[2])]
           Computes(f) == f = [n \in 0 .. N |-> IF n = 0 THEN z ELSE More(n, f[n - 1])]
<1>1. N \in Nat /\ \A n \in 1 .. N : Roots[n] \in DOMAIN Dirs
  BY CommandParts
<1>2. z \in Seq(F)
  BY CommandParts
<1>3. step \in [(1 .. N) \X Seq(F) -> Seq(F)]
  <2>1. ASSUME NEW n \in 1 .. N, NEW s \in Seq(F) PROVE More(n, s) \in Seq(F)
    <3>1. Dirs[Roots[n]] \in Seq(F)
      BY <1>1
    <3> HIDE DEF Again
    <3> QED BY <3>1
  <2> HIDE DEF More, N
  <2> QED BY <2>1
<1>4. PICK f \in [0 .. N -> Seq(F)] : Unfolds(f, N, z, step)
  <2> DEFINE S == Seq(F)
  <2>1. N \in Nat /\ z \in S /\ step \in [(1 .. N) \X S -> S]
    BY <1>1, <1>2, <1>3
  <2>2. \E f \in [0 .. N -> S] : Unfolds(f, N, z, step)
    <3> HIDE DEF z, step, N, S
    <3> QED BY ONLY <2>1, RecursionAt
  <2> HIDE DEF z, step, N
  <2> QED BY <2>2
<1>5. Computes(f)
  <2>1. \A n \in 0 .. N : n # 0 => n - 1 \in 0 .. N /\ n \in 1 .. N
    BY <1>1
  <2> HIDE DEF More, z, N
  <2>2. \A n \in 1 .. N : step[<<n, f[n - 1]>>] = More(n, f[n - 1])
    BY <1>1, <2>1
  <2> HIDE DEF step
  <2>3. \A n \in 0 .. N : f[n] = IF n = 0 THEN z ELSE More(n, f[n - 1])
    BY <1>4, <2>1, <2>2 DEF Unfolds
  <2> QED BY <1>4, <2>3
<1>6. Computes(Slash!Collected)
  <2> HIDE DEF Computes
  <2>1. Slash!Collected = CHOOSE g : Computes(g)
    BY DEF Slash!Collected, Computes
  <2> QED BY <1>5, <2>1
<1>7. /\ Slash!Collected[0] = z
      /\ \A n \in 1 .. N : Slash!Collected[n] = More(n, Slash!Collected[n - 1])
  <2> HIDE DEF z, More
  <2> QED BY <1>1, <1>6
<1> DEFINE T == {n \in Nat : n <= N => Slash!Collected[n] \in Seq(F)}
<1>8. 0 \in T /\ \A n \in Nat : n \in T => n + 1 \in T
  <2> HIDE DEF z, Computes, More
  <2>1. 0 \in T
    BY <1>2, <1>7
  <2>2. ASSUME NEW n \in Nat, n \in T, n + 1 <= N PROVE Slash!Collected[n + 1] \in Seq(F)
    <3>1. n + 1 \in 1 .. N /\ n + 1 - 1 = n /\ n <= N
      BY <1>1, <2>2
    <3>2. Slash!Collected[n + 1] = More(n + 1, Slash!Collected[n])
      BY <1>7, <3>1
    <3>3. step[<<n + 1, Slash!Collected[n]>>] = More(n + 1, Slash!Collected[n]) /\ Slash!Collected[n] \in Seq(F)
      BY <2>2, <3>1
    <3> HIDE DEF step
    <3> QED BY <1>3, <3>1, <3>2, <3>3
  <2> QED BY <2>1, <2>2
<1>9. Nat \subseteq T
  <2> HIDE DEF T
  <2> QED BY <1>8, Induction
<1> QED BY <1>1, <1>9 DEF Slash!load_slash_commands_at_roots

\* What a name expands to: its first file's body, or itself.
LEMMA Expansion ==
    ASSUME Slash!SlashAssumption, NEW n
    PROVE  LET f == Slash!load_slash_commands_at_roots IN
           /\ f \in Seq(Slash!FileRecs)
           /\ \/ Slash!expand_slash_command(n) = <<"raw", n>>
              \/ \E i \in DOMAIN f : Slash!expand_slash_command(n) = <<"file", f[i].body>>
           /\ \A i \in DOMAIN f : f[i].name = n /\ (\A j \in 1 .. i - 1 : f[j].name # n) =>
                  Slash!expand_slash_command(n) = <<"file", f[i].body>>
<1> DEFINE f == Slash!load_slash_commands_at_roots
           hits == {i \in DOMAIN f : f[i].name = n}
           first == CHOOSE i \in hits : \A j \in hits : i <= j
<1>1. f \in Seq(Slash!FileRecs)
  BY CollectedType, CommandParts
<1> HIDE DEF f
<1>2. DOMAIN f = 1 .. Len(f) /\ Len(f) \in Nat /\ \A i \in DOMAIN f : f[i].name # "plain"
  <2>1. \A x \in Slash!FileRecs : x.name \in Names
    BY DEF Slash!FileRecs
  <2>2. DOMAIN f = 1 .. Len(f) /\ Len(f) \in Nat /\ \A i \in DOMAIN f : f[i] \in Slash!FileRecs
    BY <1>1
  <2> QED BY <2>1, <2>2, CommandParts
<1>3. Slash!expand_slash_command(n) = IF n = "plain" \/ hits = {} THEN <<"raw", n>> ELSE <<"file", f[first].body>>
  BY DEF Slash!expand_slash_command, f
<1>4. ASSUME hits # {} PROVE first \in hits /\ \A j \in hits : first <= j
  <2>1. hits \in SUBSET Nat
    BY <1>2
  <2>2. PICK i \in hits : \A j \in hits : i <= j
    <3> HIDE DEF hits
    <3> QED BY <1>4, <2>1, LeastNumber
  <2> HIDE DEF hits
  <2> QED BY <2>2
<1>5. ASSUME NEW i \in DOMAIN f, f[i].name = n, \A j \in 1 .. i - 1 : f[j].name # n
      PROVE  Slash!expand_slash_command(n) = <<"file", f[i].body>>
  <2>1. i \in hits /\ n # "plain"
    BY <1>2, <1>5
  <2>2. first \in hits /\ first <= i
    BY <1>4, <2>1
  <2>3. first = i
    <3> HIDE DEF first
    <3> QED BY <1>2, <1>5, <2>2
  <2> HIDE DEF first, hits
  <2> QED BY <1>3, <2>1, <2>3
<1>6. \/ Slash!expand_slash_command(n) = <<"raw", n>>
      \/ \E i \in DOMAIN f : Slash!expand_slash_command(n) = <<"file", f[i].body>>
  <2>1. hits # {} => first \in DOMAIN f
    BY <1>4
  <2> HIDE DEF first, hits
  <2> QED BY <1>3, <2>1
<1> QED BY <1>1, <1>5, <1>6 DEF f

\* The adapter's own commands, each once.
LEMMA OwnEntries ==
    ASSUME Slash!SlashAssumption
    PROVE  LET b == Slash!BuiltinEntries IN
           /\ b \in Seq(Offers)
           /\ \A i \in DOMAIN b : b[i].from = "builtin"
           /\ \A n \in Builtins : \E i \in DOMAIN b : b[i].name = n
<1> DEFINE N == Cardinality(Builtins)
           s == Slash!SetToSeq(Builtins)
           b == Slash!BuiltinEntries
<1>1. IsFiniteSet(Builtins) /\ Builtins \subseteq Names
  BY CommandParts
<1>2. N \in Nat /\ \E g : g \in Bijection(1 .. N, Builtins)
  BY <1>1, FS_CardinalityType DEF ExistsBijection
<1>3. PICK g : g \in [1 .. N -> Builtins] /\ (\A x, y \in 1 .. N : g[x] = g[y] => x = y)
  BY <1>2 DEF Bijection, Injection, Surjection, IsInjective
<1>4. Slash!IsInjective(g)
  BY <1>3 DEF Slash!IsInjective
<1>5. s = CHOOSE h \in [1 .. N -> Builtins] : Slash!IsInjective(h)
  BY DEF Slash!SetToSeq, Slash!Cardinality, Cardinality
<1>6. s \in [1 .. N -> Builtins] /\ Slash!IsInjective(s)
  <2> HIDE DEF s, N
  <2> QED BY <1>3, <1>4, <1>5
<1> HIDE DEF s
<1>7. s \in Injection(1 .. N, Builtins)
  BY <1>6 DEF Slash!IsInjective, Injection, IsInjective
<1>8. s \in Surjection(1 .. N, Builtins)
  <2>1. IsFiniteSet(1 .. N) /\ Cardinality(1 .. N) = N
    BY <1>2, FS_Interval
  <2> HIDE DEF N
  <2> QED BY <1>1, <1>7, <2>1, FS_Injection DEF N
<1>9. b = [i \in 1 .. N |-> [name |-> s[i], from |-> "builtin"]]
  BY <1>6 DEF Slash!BuiltinEntries, s
<1>10. b \in Seq(Offers)
  <2>1. \A i \in 1 .. N : [name |-> s[i], from |-> "builtin"] \in Offers
    BY <1>1, <1>6 DEF Offers
  <2> HIDE DEF b, N
  <2> QED BY <1>2, <1>9, <2>1, SeqDef
<1>11. \A n \in Builtins : \E i \in 1 .. N : s[i] = n
  BY <1>8 DEF Surjection
<1> HIDE DEF b, N
<1>12. \A n \in Builtins : \E i \in DOMAIN b : b[i].name = n
  BY <1>9, <1>11
<1>13. \A i \in DOMAIN b : b[i].from = "builtin"
  BY <1>9
<1> QED BY <1>10, <1>12, <1>13 DEF b

\* An entry that is merged is one of pi's or the files', or one of the adapter's.
LEMMA Merged ==
    ASSUME Slash!SlashAssumption, NEW a \in Seq(Offers)
    PROVE  LET m == Slash!merge_commands(a, Slash!BuiltinEntries) IN
           /\ m \in Seq(Offers)
           /\ \A k \in DOMAIN m : m[k].from = "builtin" \/ \E i \in DOMAIN a : m[k] = a[i]
           /\ \A j, k \in DOMAIN m : m[j].name = m[k].name => j = k
           /\ \A n \in Builtins : \E k \in DOMAIN m : m[k].name = n
<1> DEFINE b == Slash!BuiltinEntries
           s == a \o b
           m == Slash!merge_commands(a, b)
<1>1. /\ b \in Seq(Offers)
      /\ \A i \in DOMAIN b : b[i].from = "builtin"
      /\ \A n \in Builtins : \E i \in DOMAIN b : b[i].name = n
  BY OwnEntries
<1>2. m = Slash!FirstOnly(s)
  BY DEF Slash!merge_commands
<1> HIDE DEF b, m
<1>3. /\ s \in Seq(Offers) /\ DOMAIN s = 1 .. Len(a) + Len(b) /\ Len(a) \in Nat /\ Len(b) \in Nat
      /\ DOMAIN a = 1 .. Len(a) /\ DOMAIN b = 1 .. Len(b)
      /\ \A i \in DOMAIN s : s[i] = IF i <= Len(a) THEN a[i] ELSE b[i - Len(a)]
  BY <1>1
<1>4. \A i \in DOMAIN s : s[i].from = "builtin" \/ \E j \in DOMAIN a : s[i] = a[j]
  <2> HIDE DEF s
  <2> SUFFICES ASSUME NEW i \in DOMAIN s PROVE s[i].from = "builtin" \/ \E j \in DOMAIN a : s[i] = a[j]
    OBVIOUS
  <2>1. CASE i <= Len(a)
    BY <1>3, <2>1
  <2>2. CASE ~(i <= Len(a))
    <3>1. i - Len(a) \in DOMAIN b /\ s[i] = b[i - Len(a)]
      BY <1>3, <2>2
    <3> QED BY <1>1, <3>1
  <2> QED BY <2>1, <2>2
<1>5. \A n \in Builtins : \E i \in DOMAIN s : s[i].name = n
  <2> SUFFICES ASSUME NEW n \in Builtins PROVE \E i \in DOMAIN s : s[i].name = n
    OBVIOUS
  <2>1. PICK i \in DOMAIN b : b[i].name = n
    BY <1>1
  <2> HIDE DEF s
  <2>2. i + Len(a) \in DOMAIN s /\ ~(i + Len(a) <= Len(a)) /\ i + Len(a) - Len(a) = i
    BY <1>3
  <2>3. s[i + Len(a)] = b[i]
    BY <1>3, <2>2
  <2> QED BY <2>1, <2>2, <2>3
<1> HIDE DEF s
<1>6. /\ m \in Seq(Offers)
      /\ \A k \in DOMAIN m : \E i \in DOMAIN s : m[k] = s[i]
      /\ \A j, k \in DOMAIN m : m[j].name = m[k].name => j = k
      /\ \A i \in DOMAIN s : \E k \in DOMAIN m : m[k].name = s[i].name
  <2>1. s \in Seq(Offers)
    BY <1>3
  <2>2. m \in Seq(Offers) /\ \A k \in DOMAIN m : \E i \in DOMAIN s : m[k] = s[i]
    BY <1>2, <2>1, Firsts
  <2>3. \A j, k \in DOMAIN m : m[j].name = m[k].name => j = k
    BY <1>2, <2>1, Firsts
  <2>4. \A i \in DOMAIN s : \E k \in DOMAIN m : m[k].name = s[i].name
    BY <1>2, <2>1, Firsts
  <2> QED BY <2>2, <2>3, <2>4
<1>7. \A k \in DOMAIN m : m[k].from = "builtin" \/ \E i \in DOMAIN a : m[k] = a[i]
  BY <1>4, <1>6
<1>8. \A n \in Builtins : \E k \in DOMAIN m : m[k].name = n
  BY <1>5, <1>6
<1> QED BY <1>6, <1>7, <1>8 DEF m, b

\* The files' entries: each names the file that a prompt of that name expands to.
LEMMA FileEntries ==
    ASSUME Slash!SlashAssumption
    PROVE  /\ Slash!FromFiles \in Seq(Offers)
           /\ \A k \in DOMAIN Slash!FromFiles :
                  LET e == Slash!FromFiles[k] IN
                  e.from \in Bodies /\ Slash!expand_slash_command(e.name) = <<"file", e.from>>
<1> DEFINE f == Slash!load_slash_commands_at_roots
           s == [i \in DOMAIN f |-> [name |-> f[i].name, from |-> f[i].body]]
           m == Slash!FromFiles
<1>1. f \in Seq(Slash!FileRecs)
  BY Expansion
<1>2. m = Slash!FirstOnly(s)
  BY DEF Slash!FromFiles
<1> HIDE DEF f, m
<1>3. Len(f) \in Nat /\ DOMAIN f = 1 .. Len(f) /\ \A i \in DOMAIN f : f[i].name \in Names /\ f[i].body \in Bodies
  <2>1. \A x \in Slash!FileRecs : x.name \in Names /\ x.body \in Bodies
    BY DEF Slash!FileRecs
  <2>2. Len(f) \in Nat /\ DOMAIN f = 1 .. Len(f) /\ \A i \in DOMAIN f : f[i] \in Slash!FileRecs
    BY <1>1
  <2> QED BY <2>1, <2>2
<1>4. s \in Seq(Offers)
  <2>1. \A i \in 1 .. Len(f) : [name |-> f[i].name, from |-> f[i].body] \in Offers
    BY <1>3 DEF Offers
  <2>2. s \in [1 .. Len(f) -> Offers]
    BY <1>3, <2>1
  <2> HIDE DEF s
  <2> QED BY <1>3, <2>2, SeqDef
<1>5. DOMAIN s = DOMAIN f /\ \A i \in DOMAIN f : s[i].name = f[i].name /\ s[i].from = f[i].body
  OBVIOUS
<1> HIDE DEF s
<1>6. /\ m \in Seq(Offers)
      /\ \A k \in DOMAIN m : \E i \in DOMAIN s : /\ m[k] = s[i]
                                                /\ \A j \in 1 .. i - 1 : s[j].name # s[i].name
  BY <1>2, <1>4, Firsts
<1>7. ASSUME NEW k \in DOMAIN m
      PROVE  m[k].from \in Bodies /\ Slash!expand_slash_command(m[k].name) = <<"file", m[k].from>>
  <2>1. PICK i \in DOMAIN f : m[k] = s[i] /\ \A j \in 1 .. i - 1 : s[j].name # s[i].name
    BY <1>5, <1>6
  <2>2. \A j \in 1 .. i - 1 : f[j].name # f[i].name
    <3>1. \A j \in 1 .. i - 1 : j \in DOMAIN f
      BY <1>3
    <3> QED BY <1>5, <2>1, <3>1
  <2>3. m[k].name = f[i].name /\ m[k].from = f[i].body
    BY <1>5, <2>1
  <2>4. Slash!expand_slash_command(f[i].name) = <<"file", f[i].body>>
    BY <2>2, Expansion DEF f
  <2> QED BY <1>3, <2>3, <2>4
<1> QED BY <1>6, <1>7 DEF m

\* pi's entries: its commands but for the extensions'.
LEMMA PiEntries ==
    ASSUME Slash!SlashAssumption, NEW l \in Lists
    PROVE  /\ Slash!FromPi(l) \in Seq(Offers)
           /\ \A k \in DOMAIN Slash!FromPi(l) :
                  LET e == Slash!FromPi(l)[k] IN
                  e.from = "pi" /\ \E i \in DOMAIN l : l[i].name = e.name /\ l[i].source # "extension"
<1> DEFINE at == {i \in DOMAIN l : l[i].source # "extension" /\ (Slash!Skills \/ l[i].source # "skill")}
           s == Subsequence(l, at)
           m == Slash!FromPi(l)
           E == [name : Names, source : Slash!Sources]
           T == {e \in E : \E i \in DOMAIN l : l[i].name = e.name /\ l[i].source # "extension"}
<1>1. l \in Seq(E)
  BY Zenon DEF Slash!SlashAssumption
<1>2. DOMAIN l = 1 .. Len(l) /\ at \in SUBSET (1 .. Len(l)) /\ \A i \in DOMAIN l : l[i] \in E
  <2> HIDE DEF E
  <2> QED BY <1>1
<1>3. m = [i \in DOMAIN s |-> [name |-> s[i].name, from |-> "pi"]]
  BY SlashSubsequence DEF Slash!FromPi
<1>4. \A i \in at : l[i] \in T
  <2> HIDE DEF E
  <2> QED BY <1>2
<1>5. s \in Seq(T)
  <2> HIDE DEF E, T, at
  <2> QED BY <1>1, <1>2, <1>4, SubsequenceType
<1> HIDE DEF s, m, at
<1>6. Len(s) \in Nat /\ DOMAIN s = 1 .. Len(s) /\ \A i \in DOMAIN s : s[i] \in T
  <2> HIDE DEF T
  <2> QED BY <1>5
<1>7. m \in Seq(Offers)
  <2>1. \A i \in 1 .. Len(s) : [name |-> s[i].name, from |-> "pi"] \in Offers
    BY <1>6 DEF Offers
  <2>2. m \in [1 .. Len(s) -> Offers]
    BY <1>3, <1>6, <2>1
  <2> QED BY <1>6, <2>2, SeqDef
<1>8. ASSUME NEW k \in DOMAIN m
      PROVE  m[k].from = "pi" /\ \E i \in DOMAIN l : l[i].name = m[k].name /\ l[i].source # "extension"
  <2>1. k \in DOMAIN s /\ m[k].name = s[k].name /\ m[k].from = "pi"
    BY <1>3
  <2> QED BY <1>6, <2>1
<1> QED BY <1>7, <1>8 DEF m

-----------------------------------------------------------------------------
\* The invariant.
Served(l) == Slash!extension_command_names(l)
Replies == {<<>>} \cup {<<l>> : l \in Lists}
TaskIds == DOMAIN way.prompts \cup {"menu"}
CommandTypes ==
    /\ way \in Ways /\ list \in Lists /\ changes \in 0 .. way.changes
    /\ cache = <<>> \/ \E l \in Lists : cache = <<Served(l)>>
    /\ task \in [TaskIds -> [pc : Pcs, reply : Replies]]
    /\ DOMAIN got \subseteq DOMAIN way.prompts
    /\ \A p \in DOMAIN got : got[p].marked \in BOOLEAN

\* A prompt of the adapter's own is served at once; only a slash prompt asks pi.
Own(q) == ~q.images /\ q.name \in Builtins
Asks(q) == ~Own(q) /\ q.name # "plain" /\ q.strict
Asking == {"ask", "answered", "known", "failed"}
TurnsAreOthers ==
    \A p \in DOMAIN way.prompts :
        /\ task[p].pc \in Asking => Asks(way.prompts[p])
        /\ task[p].pc = "builtin" => Own(way.prompts[p])
        /\ p \in DOMAIN got => ~Own(way.prompts[p])

\* Where an entry of the menu comes from.
Offered(e, reply) ==
    \/ e.from = "builtin"
    \/ e.from \in Bodies /\ Slash!expand_slash_command(e.name) = <<"file", e.from>>
    \/ /\ e.from = "pi"
       /\ \E l \in Lists : /\ reply = <<l>>
                           /\ \E i \in DOMAIN l : l[i].name = e.name /\ l[i].source # "extension"
MenuIsMerged ==
    /\ menu \in Seq(Offers)
    /\ \A k \in DOMAIN menu : Offered(menu[k], task["menu"].reply)
    /\ \A j, k \in DOMAIN menu : menu[j].name = menu[k].name => j = k
    /\ menu # <<>> => /\ task["menu"].pc = "shown"
                      /\ \A n \in Builtins : \E k \in DOMAIN menu : menu[k].name = n

\* While pi keeps its commands and answers, the table is of its commands.
Kept == ~way.fails /\ way.changes = 0
AnswersAreKept ==
    /\ \A t \in TaskIds : task[t].pc \in {"answered", "known"} => task[t].reply # <<>>
    /\ Kept =>
          /\ \A t \in TaskIds : /\ task[t].pc # "failed" /\ task[t].reply \in {<<>>, <<list>>}
                                /\ task[t].pc = "known" => cache # <<>>
          /\ cache \in {<<>>, <<Served(list)>>}
          /\ \A p \in DOMAIN got :
                LET q == way.prompts[p] IN
                /\ got[p].marked = got[p].ext
                /\ q.strict /\ q.name \in Served(list) => got[p].text = <<"raw", q.name>>
CommandInv == CommandTypes /\ TurnsAreOthers /\ MenuIsMerged /\ AnswersAreKept

\* A name has one server in pi, and no file expands to an extension's command.
NamesAreServed ==
    \A l \in Lists :
        /\ \A i, j \in DOMAIN l : l[i].source = "extension" /\ l[j].source # "extension" => l[i].name # l[j].name
        /\ Served(l) \cap Bodies = {}

\* A task moves on, and may leave its answer in the table.
LEMMA TaskMoves ==
    ASSUME Slash!SlashAssumption, CommandInv, NEW t \in TaskIds, NEW r \in [pc : Pcs, reply : Replies],
           task' = [task EXCEPT ![t] = r],
           way' = way, list' = list, got' = got, menu' = menu, changes' = changes,
           t # "menu" => /\ r.pc \in Asking => Asks(way.prompts[t])
                         /\ r.pc = "builtin" => Own(way.prompts[t]),
           t = "menu" => task[t].pc # "shown",
           r.pc \in {"answered", "known"} => r.reply # <<>>,
           r.pc = "failed" => way.fails,
           r.reply \in {<<>>, <<list>>, task[t].reply},
           cache' = cache \/ \E l \in Lists : task[t].reply = <<l>> /\ cache' = <<Served(l)>>,
           r.pc = "known" => cache' # <<>>
    PROVE  CommandInv'
<1>1. /\ task \in [TaskIds -> [pc : Pcs, reply : Replies]]
      /\ \A x \in TaskIds : task'[x] = IF x = t THEN r ELSE task[x]
      /\ task' \in [TaskIds -> [pc : Pcs, reply : Replies]] /\ "menu" \in TaskIds
      /\ TaskIds' = TaskIds
  BY DEF CommandInv, CommandTypes, TaskIds
<1>2. cache' = <<>> \/ \E l \in Lists : cache' = <<Served(l)>>
  BY DEF CommandInv, CommandTypes
<1>3. CommandTypes'
  BY <1>1, <1>2 DEF CommandInv, CommandTypes
<1>4. TurnsAreOthers'
  <2>1. \A p \in DOMAIN way.prompts : p \in TaskIds /\ p # "menu"
    BY Zenon DEF CommandInv, CommandTypes, TaskIds, Slash!SlashAssumption
  <2> QED BY <1>1, <2>1 DEF CommandInv, TurnsAreOthers
<1>5. MenuIsMerged'
  <2>1. CASE t = "menu"
    <3>1. menu = <<>>
      BY <2>1 DEF CommandInv, MenuIsMerged
    <3>2. menu' = <<>> /\ menu' \in Seq(Offers) /\ DOMAIN menu' = {}
      BY <3>1
    <3> QED BY <3>2 DEF MenuIsMerged
  <2>2. CASE t # "menu"
    <3>1. task'["menu"] = task["menu"]
      BY <1>1, <2>2
    <3> QED BY <3>1 DEF CommandInv, MenuIsMerged
  <2> QED BY <2>1, <2>2
<1>6. AnswersAreKept'
  <2>1. \A x \in TaskIds : task'[x].pc \in {"answered", "known"} => task'[x].reply # <<>>
    BY <1>1 DEF CommandInv, AnswersAreKept
  <2>2. ASSUME Kept
        PROVE  /\ \A x \in TaskIds : /\ task'[x].pc # "failed" /\ task'[x].reply \in {<<>>, <<list>>}
                                     /\ task'[x].pc = "known" => cache' # <<>>
               /\ cache' \in {<<>>, <<Served(list)>>}
    <3>1. /\ \A x \in TaskIds : /\ task[x].pc # "failed" /\ task[x].reply \in {<<>>, <<list>>}
                                /\ task[x].pc = "known" => cache # <<>>
          /\ cache \in {<<>>, <<Served(list)>>} /\ ~way.fails
      BY <2>2 DEF CommandInv, AnswersAreKept, Kept
    <3>2. cache # <<>> => cache' # <<>>
      OBVIOUS
    <3>3. cache' = cache \/ cache' = <<Served(list)>>
      <4>1. ASSUME NEW l \in Lists, task[t].reply = <<l>> PROVE l = list
        <5>1. task[t].reply \in {<<>>, <<list>>}
          BY <3>1
        <5>2. <<l>> # <<>> /\ (<<l>> = <<list>> => l = list)
          OBVIOUS
        <5> QED BY <4>1, <5>1, <5>2
      <4> QED BY <4>1
    <3>4. cache' \in {<<>>, <<Served(list)>>}
      BY <3>1, <3>3
    <3>5. ASSUME NEW x \in TaskIds
          PROVE  /\ task'[x].pc # "failed" /\ task'[x].reply \in {<<>>, <<list>>}
                 /\ task'[x].pc = "known" => cache' # <<>>
      <4>1. CASE x = t
        <5>1. task'[x] = r
          BY <1>1, <4>1
        <5>2. task[t].reply \in {<<>>, <<list>>} /\ r.pc # "failed"
          BY <3>1
        <5> QED BY <5>1, <5>2
      <4>2. CASE x # t
        <5>1. task'[x] = task[x]
          BY <1>1, <4>2
        <5> QED BY <3>1, <3>2, <5>1
      <4> QED BY <4>1, <4>2
    <3> QED BY <3>4, <3>5
  <2> QED BY <1>1, <2>1, <2>2 DEF CommandInv, AnswersAreKept, Kept
<1> QED BY <1>3, <1>4, <1>5, <1>6 DEF CommandInv

\* A prompt reaches pi.
LEMMA PromptSent ==
    ASSUME Slash!SlashAssumption, NamesAreServed, CommandInv,
           NEW p \in DOMAIN way.prompts, NEW marked \in BOOLEAN, Slash!prompt(p, marked),
           UNCHANGED <<way, list, cache, menu, changes>>,
           ~Own(way.prompts[p]),
           Kept => (marked <=> Asks(way.prompts[p]) /\ way.prompts[p].name \in Served(list))
    PROVE  CommandInv'
<1> DEFINE q == way.prompts[p]
           r == [pc |-> "sent", reply |-> task[p].reply]
           text == IF marked THEN <<"raw", q.name>> ELSE Slash!expand_slash_command(q.name)
           ext == Slash!RunsExtension(text, q.strict)
           g == [text |-> text, marked |-> marked, ext |-> ext]
<1>0. /\ way' = way /\ list' = list /\ cache' = cache /\ menu' = menu /\ changes' = changes
      /\ p \in TaskIds /\ p # "menu"
  BY Zenon DEF CommandInv, CommandTypes, TaskIds, Slash!SlashAssumption
<1>1. /\ task' = [task EXCEPT ![p] = r]
      /\ got' = [x \in DOMAIN got \cup {p} |-> IF x = p THEN g ELSE got[x]]
  BY DEF Slash!prompt, Slash!Goto, Slash!Prompts
<1> HIDE DEF g
<1>2. /\ task \in [TaskIds -> [pc : Pcs, reply : Replies]]
      /\ \A x \in TaskIds : task'[x] = IF x = p THEN r ELSE task[x]
      /\ task' \in [TaskIds -> [pc : Pcs, reply : Replies]] /\ "menu" \in TaskIds
      /\ TaskIds' = TaskIds
  BY <1>0, <1>1 DEF CommandInv, CommandTypes, TaskIds, Pcs
<1>3. /\ DOMAIN got' = DOMAIN got \cup {p} /\ DOMAIN got' \subseteq DOMAIN way.prompts
      /\ got'[p] = g /\ \A x \in DOMAIN got : x # p => got'[x] = got[x]
  BY <1>1 DEF CommandInv, CommandTypes
<1>4. g.marked = marked /\ g.text = text /\ g.ext = ext
  BY DEF g
<1>5. CommandTypes'
  BY <1>0, <1>2, <1>3, <1>4 DEF CommandInv, CommandTypes
<1>6. TurnsAreOthers'
  <2>1. \A x \in DOMAIN way.prompts : x \in TaskIds
    BY DEF TaskIds
  <2> QED BY <1>0, <1>2, <1>3, <2>1 DEF CommandInv, TurnsAreOthers, Asking
<1>7. MenuIsMerged'
  <2>1. task'["menu"] = task["menu"]
    BY <1>0, <1>2
  <2> QED BY <1>0, <2>1 DEF CommandInv, MenuIsMerged
<1>8. ASSUME Kept
      PROVE  g.marked = g.ext /\ (q.strict /\ q.name \in Served(list) => g.text = <<"raw", q.name>>)
  <2>1. marked <=> Asks(q) /\ q.name \in Served(list)
    BY <1>8
  <2>2. list \in Lists /\ Served(list) \cap Bodies = {} /\ "plain" \notin Served(list)
    <3>1. list \in Seq([name : Names, source : Slash!Sources])
      BY Zenon DEF CommandInv, CommandTypes, Slash!SlashAssumption
    <3>2. Served(list) \subseteq Names
      <4> DEFINE E == [name : Names, source : Slash!Sources]
      <4>1. \A e \in E : e.name \in Names
        OBVIOUS
      <4>2. \A i \in DOMAIN list : list[i].name \in Names
        <5>1. list \in Seq(E)
          BY <3>1
        <5> HIDE DEF E
        <5> QED BY <4>1, <5>1
      <4> QED BY <4>2 DEF Served, Slash!extension_command_names
    <3> QED BY <3>2, CommandParts DEF CommandInv, CommandTypes, NamesAreServed
  <2>3. ext <=> \/ text[1] = "raw" /\ q.strict /\ text[2] \in Served(list)
                \/ text[1] = "file" /\ text[2] \in Served(list)
    BY DEF Slash!RunsExtension, Served
  <2>4. CASE marked
    <3>1. text[1] = "raw" /\ text[2] = q.name /\ q.strict /\ q.name \in Served(list)
      BY <2>1, <2>4 DEF Asks
    <3> QED BY <1>4, <2>3, <2>4, <3>1
  <2>5. CASE ~marked
    <3>1. text = Slash!expand_slash_command(q.name) /\ ~(q.strict /\ q.name \in Served(list))
      BY <2>1, <2>2, <2>5 DEF Asks
    <3>0. ext \in BOOLEAN
      BY DEF Slash!RunsExtension
    <3> HIDE DEF text, ext, q
    <3>2. CASE text = <<"raw", q.name>>
      <4>1. text[1] = "raw" /\ text[2] = q.name
        BY <3>2
      <4>2. ~ext
        BY <2>3, <3>1, <4>1
      <4> QED BY <1>4, <2>5, <3>0, <3>1, <4>2
    <3>3. CASE \E b \in Bodies : text = <<"file", b>>
      <4>1. text[1] = "file" /\ text[2] \in Bodies
        BY <3>3
      <4>2. ~ext
        BY <2>2, <2>3, <4>1
      <4> QED BY <1>4, <2>5, <3>0, <3>1, <4>2
    <3>4. text = <<"raw", q.name>> \/ \E b \in Bodies : text = <<"file", b>>
      <4> DEFINE f == Slash!load_slash_commands_at_roots
      <4>1. \A i \in DOMAIN f : f[i].body \in Bodies
        <5>1. f \in Seq(Slash!FileRecs)
          BY Expansion
        <5>2. \A e \in Slash!FileRecs : e.body \in Bodies
          BY DEF Slash!FileRecs
        <5> HIDE DEF f
        <5> QED BY <5>1, <5>2
      <4>2. \/ text = <<"raw", q.name>>
            \/ \E i \in DOMAIN f : text = <<"file", f[i].body>>
        BY <3>1, Expansion
      <4> HIDE DEF f
      <4> QED BY <4>1, <4>2
    <3> QED BY <3>2, <3>3, <3>4
  <2> QED BY <2>4, <2>5
<1>9. AnswersAreKept'
  <2>1. \A x \in TaskIds : task'[x].pc \in {"answered", "known"} => task'[x].reply # <<>>
    BY <1>2 DEF CommandInv, AnswersAreKept
  <2>2. ASSUME Kept
        PROVE  \A x \in TaskIds : /\ task'[x].pc # "failed" /\ task'[x].reply \in {<<>>, <<list>>}
                                  /\ task'[x].pc = "known" => cache # <<>>
    BY <1>0, <1>2, <2>2 DEF CommandInv, AnswersAreKept
  <2>3. ASSUME Kept, NEW x \in DOMAIN got'
        PROVE  /\ got'[x].marked = got'[x].ext
               /\ way.prompts[x].strict /\ way.prompts[x].name \in Served(list) =>
                      got'[x].text = <<"raw", way.prompts[x].name>>
    <3>1. CASE x = p
      BY <1>3, <1>8, <2>3, <3>1
    <3>2. CASE x # p
      <4>1. x \in DOMAIN got /\ got'[x] = got[x]
        BY <1>3, <3>2
      <4> QED BY <2>3, <4>1 DEF CommandInv, AnswersAreKept
    <3> QED BY <3>1, <3>2
  <2>4. Kept => cache' \in {<<>>, <<Served(list)>>}
    BY <1>0 DEF CommandInv, AnswersAreKept
  <2> QED BY <1>0, <1>2, <2>1, <2>2, <2>3, <2>4 DEF AnswersAreKept, Kept
<1> QED BY <1>5, <1>6, <1>7, <1>9 DEF CommandInv

\* The menu is merged and offered.
LEMMA MenuShown ==
    ASSUME Slash!SlashAssumption, CommandInv, Slash!Menu
    PROVE  CommandInv'
<1> DEFINE reply == task["menu"].reply
           r == [pc |-> "shown", reply |-> reply]
           pis == IF task["menu"].pc = "known" THEN Slash!FromPi(reply[1]) ELSE <<>>
           a == IF pis = <<>> THEN Slash!FromFiles ELSE pis
<1>1. /\ task["menu"].pc \in {"known", "failed"} /\ task' = [task EXCEPT !["menu"] = r]
      /\ menu' = Slash!merge_commands(a, Slash!BuiltinEntries)
      /\ way' = way /\ list' = list /\ cache' = cache /\ got' = got /\ changes' = changes
  BY DEF Slash!Menu, Slash!Goto
<1>2. /\ task \in [TaskIds -> [pc : Pcs, reply : Replies]] /\ "menu" \in TaskIds
      /\ reply \in Replies
  BY DEF CommandInv, CommandTypes, TaskIds
<1>3. /\ \A x \in TaskIds : task'[x] = IF x = "menu" THEN r ELSE task[x]
      /\ task' \in [TaskIds -> [pc : Pcs, reply : Replies]]
      /\ TaskIds' = TaskIds
  BY <1>1, <1>2 DEF TaskIds, Pcs
<1>4. a \in Seq(Offers) /\ \A i \in DOMAIN a : Offered(a[i], reply)
  <2>1. CASE pis = <<>>
    <3> HIDE DEF pis
    <3> QED BY <2>1, FileEntries DEF Offered
  <2>2. CASE pis # <<>>
    <3>1. task["menu"].pc = "known" /\ a = Slash!FromPi(reply[1])
      BY <2>2
    <3>2. reply # <<>>
      BY <1>2, <3>1 DEF CommandInv, AnswersAreKept
    <3>3. PICK l \in Lists : reply = <<l>>
      BY <1>2, <3>2 DEF Replies
    <3>4. a = Slash!FromPi(l)
      BY <3>1, <3>3
    <3> HIDE DEF a, reply
    <3> QED BY <3>3, <3>4, PiEntries DEF Offered
  <2> QED BY <2>1, <2>2
<1> HIDE DEF a, reply
<1>5. MenuIsMerged'
  <2>1. /\ menu' \in Seq(Offers)
        /\ \A k \in DOMAIN menu' : menu'[k].from = "builtin" \/ \E i \in DOMAIN a : menu'[k] = a[i]
    BY <1>1, <1>4, Merged
  <2>2. \A j, k \in DOMAIN menu' : menu'[j].name = menu'[k].name => j = k
    BY <1>1, <1>4, Merged
  <2>3. \A n \in Builtins : \E k \in DOMAIN menu' : menu'[k].name = n
    BY <1>1, <1>4, Merged
  <2>4. task'["menu"].reply = reply /\ task'["menu"].pc = "shown"
    BY <1>2, <1>3
  <2>5. \A k \in DOMAIN menu' : Offered(menu'[k], reply)
    <3> SUFFICES ASSUME NEW k \in DOMAIN menu' PROVE Offered(menu'[k], reply)
      OBVIOUS
    <3>1. CASE menu'[k].from = "builtin"
      BY <3>1 DEF Offered
    <3>2. CASE \E i \in DOMAIN a : menu'[k] = a[i]
      BY <1>4, <3>2
    <3> QED BY <2>1, <3>1, <3>2
  <2> QED BY <2>1, <2>2, <2>3, <2>4, <2>5 DEF MenuIsMerged
<1>6. CommandTypes'
  BY <1>1, <1>3 DEF CommandInv, CommandTypes
<1>7. TurnsAreOthers'
  <2>1. \A p \in DOMAIN way.prompts : p \in TaskIds /\ p # "menu"
    BY Zenon DEF CommandInv, CommandTypes, TaskIds, Slash!SlashAssumption
  <2> QED BY <1>1, <1>3, <2>1 DEF CommandInv, TurnsAreOthers
<1>8. AnswersAreKept'
  <2>1. \A x \in TaskIds : task'[x].pc \in {"answered", "known"} => task'[x].reply # <<>>
    BY <1>3 DEF CommandInv, AnswersAreKept
  <2>2. ASSUME Kept, NEW x \in TaskIds
        PROVE  /\ task'[x].pc # "failed" /\ task'[x].reply \in {<<>>, <<list>>}
               /\ task'[x].pc = "known" => cache # <<>>
    BY <1>2, <1>3, <2>2 DEF CommandInv, AnswersAreKept, reply
  <2> QED BY <1>1, <1>3, <2>1, <2>2 DEF CommandInv, AnswersAreKept, Kept
<1> QED BY <1>5, <1>6, <1>7, <1>8 DEF CommandInv

\* pi's commands change.
LEMMA PiChanged ==
    ASSUME Slash!SlashAssumption, CommandInv, Slash!PiChanges
    PROVE  CommandInv'
<1>1. /\ changes < way.changes /\ list' \in Lists /\ changes' = changes + 1
      /\ way' = way /\ cache' = cache /\ task' = task /\ got' = got /\ menu' = menu
  BY DEF Slash!PiChanges, Slash!Changes
<1>2. way.changes \in Nat
  BY Zenon DEF CommandInv, CommandTypes, Slash!SlashAssumption
<1>3. changes' \in 0 .. way.changes /\ way.changes # 0
  BY <1>1, <1>2 DEF CommandInv, CommandTypes
<1>4. TaskIds' = TaskIds /\ Kept' = Kept /\ ~Kept
  BY <1>1, <1>3 DEF TaskIds, Kept
<1>5. CommandTypes'
  BY <1>1, <1>3, <1>4 DEF CommandInv, CommandTypes
<1>6. TurnsAreOthers' /\ MenuIsMerged'
  BY <1>1 DEF CommandInv, TurnsAreOthers, MenuIsMerged
<1>7. AnswersAreKept'
  BY <1>1, <1>4 DEF CommandInv, AnswersAreKept
<1> QED BY <1>5, <1>6, <1>7 DEF CommandInv

\* A step.
LEMMA CommandStep ==
    ASSUME Slash!SlashAssumption, NamesAreServed, CommandInv, [Slash!Next]_(Slash!vars)
    PROVE  CommandInv'
<1>0. /\ TaskIds = Slash!Tasks /\ DOMAIN Slash!Prompts = DOMAIN way.prompts
      /\ \A p \in DOMAIN way.prompts : p \in TaskIds /\ p # "menu"
  BY Zenon DEF CommandInv, CommandTypes, TaskIds, Slash!SlashAssumption, Slash!Tasks, Slash!Prompts
<1>1. task \in [TaskIds -> [pc : Pcs, reply : Replies]] /\ list \in Lists
  BY DEF CommandInv, CommandTypes
<1>2. \A t \in TaskIds : task[t].pc \in Pcs /\ task[t].reply \in Replies
  BY <1>1
<1>3. CASE UNCHANGED Slash!vars
  <2>1. /\ way' = way /\ list' = list /\ cache' = cache /\ task' = task /\ got' = got /\ menu' = menu
        /\ changes' = changes
    BY <1>3 DEF Slash!vars
  <2> QED BY <2>1 DEF CommandInv, CommandTypes, TurnsAreOthers, MenuIsMerged, AnswersAreKept, TaskIds, Kept
<1>4. ASSUME NEW p \in DOMAIN way.prompts, Slash!handle_prompt_turn(p) PROVE CommandInv'
  <2>1. /\ task[p].pc = "idle" /\ UNCHANGED <<way, list, cache, menu, changes>>
        /\ \/ Own(way.prompts[p]) /\ Slash!Goto(p, "builtin") /\ UNCHANGED got
           \/ ~Own(way.prompts[p]) /\ ~Slash!LooksUp(p) /\ Slash!prompt(p, FALSE)
           \/ /\ ~Own(way.prompts[p]) /\ Slash!LooksUp(p) /\ cache # <<>>
              /\ Slash!prompt(p, way.prompts[p].name \in cache[1])
           \/ ~Own(way.prompts[p]) /\ Slash!LooksUp(p) /\ Slash!Goto(p, "ask") /\ UNCHANGED got
    BY <1>4 DEF Slash!handle_prompt_turn, Slash!IsBuiltin, Slash!Prompts, Own
  <2>2. Slash!LooksUp(p) <=> way.prompts[p].name # "plain" /\ way.prompts[p].strict
    BY DEF Slash!LooksUp, Slash!Prompts
  <2>3. CASE Own(way.prompts[p]) /\ Slash!Goto(p, "builtin") /\ UNCHANGED got
    <3>1. [pc |-> "builtin", reply |-> task[p].reply] \in [pc : Pcs, reply : Replies]
      BY <1>0, <1>2 DEF Pcs
    <3>2. task' = [task EXCEPT ![p] = [pc |-> "builtin", reply |-> task[p].reply]]
      BY <2>3 DEF Slash!Goto
    <3> QED BY <1>0, <2>1, <2>3, <3>1, <3>2, TaskMoves DEF Asking
  <2>4. CASE ~Own(way.prompts[p]) /\ ~Slash!LooksUp(p) /\ Slash!prompt(p, FALSE)
    BY <2>1, <2>2, <2>4, PromptSent DEF Asks
  <2>5. CASE /\ ~Own(way.prompts[p]) /\ Slash!LooksUp(p) /\ cache # <<>>
             /\ Slash!prompt(p, way.prompts[p].name \in cache[1])
    <3>1. Kept => cache = <<Served(list)>>
      BY <2>5 DEF CommandInv, AnswersAreKept
    <3>2. Asks(way.prompts[p])
      BY <2>2, <2>5 DEF Asks
    <3> DEFINE marked == way.prompts[p].name \in cache[1]
    <3>3. marked \in BOOLEAN /\ (Kept => (marked <=> Asks(way.prompts[p]) /\ way.prompts[p].name \in Served(list)))
      BY <3>1, <3>2
    <3>4. Slash!prompt(p, marked)
      BY <2>5
    <3> HIDE DEF marked
    <3> QED BY <2>1, <2>5, <3>3, <3>4, PromptSent
  <2>6. CASE ~Own(way.prompts[p]) /\ Slash!LooksUp(p) /\ Slash!Goto(p, "ask") /\ UNCHANGED got
    <3>1. [pc |-> "ask", reply |-> task[p].reply] \in [pc : Pcs, reply : Replies]
      BY <1>0, <1>2 DEF Pcs
    <3>2. task' = [task EXCEPT ![p] = [pc |-> "ask", reply |-> task[p].reply]]
      BY <2>6 DEF Slash!Goto
    <3>3. Asks(way.prompts[p])
      BY <2>2, <2>6 DEF Asks
    <3> QED BY <1>0, <2>1, <2>6, <3>1, <3>2, <3>3, TaskMoves
  <2> QED BY <2>1, <2>3, <2>4, <2>5, <2>6
<1>5. ASSUME NEW p \in DOMAIN way.prompts, Slash!is_extension_command(p) PROVE CommandInv'
  <2> DEFINE marked == task[p].pc = "known" /\ cache # <<>> /\ way.prompts[p].name \in cache[1]
  <2>1. /\ task[p].pc \in {"known", "failed"} /\ Slash!prompt(p, marked)
        /\ UNCHANGED <<way, list, cache, menu, changes>>
    BY <1>5 DEF Slash!is_extension_command, Slash!Prompts
  <2>2. Asks(way.prompts[p]) /\ ~Own(way.prompts[p])
    BY <2>1 DEF CommandInv, TurnsAreOthers, Asking, Asks
  <2>3. Kept => task[p].pc = "known" /\ cache = <<Served(list)>>
    BY <1>0, <2>1 DEF CommandInv, AnswersAreKept
  <2>4. marked \in BOOLEAN /\ (Kept => (marked <=> Asks(way.prompts[p]) /\ way.prompts[p].name \in Served(list)))
    <3>1. Kept => cache # <<>> /\ cache[1] = Served(list)
      BY <2>3
    <3> QED BY <2>2, <2>3, <3>1
  <2> HIDE DEF marked
  <2> QED BY <2>1, <2>2, <2>4, PromptSent
<1>6. ASSUME NEW t \in TaskIds, Slash!PiAnswers(t) PROVE CommandInv'
  <2>1. /\ task[t].pc = "ask" /\ way' = way /\ list' = list /\ cache' = cache /\ got' = got /\ menu' = menu
        /\ changes' = changes
    BY <1>6 DEF Slash!PiAnswers
  <2>2. t # "menu" => Asks(way.prompts[t])
    BY <2>1 DEF CommandInv, TurnsAreOthers, Asking, TaskIds
  <2>3. CASE task' = [task EXCEPT ![t] = [pc |-> "answered", reply |-> <<list>>]]
    <3>1. /\ [pc |-> "answered", reply |-> <<list>>] \in [pc : Pcs, reply : Replies]
          /\ <<list>> # <<>>
      BY <1>1 DEF Pcs, Replies
    <3> QED BY <2>1, <2>2, <2>3, <3>1, TaskMoves
  <2>4. CASE way.fails /\ task' = [task EXCEPT ![t] = [pc |-> "failed", reply |-> <<>>]]
    <3>1. [pc |-> "failed", reply |-> <<>>] \in [pc : Pcs, reply : Replies]
      BY DEF Pcs, Replies
    <3> QED BY <2>1, <2>2, <2>4, <3>1, TaskMoves
  <2> QED BY <1>6, <2>3, <2>4 DEF Slash!PiAnswers, Slash!Fails
<1>7. ASSUME NEW t \in TaskIds, Slash!get_commands(t) PROVE CommandInv'
  <2>1. /\ task[t].pc = "answered" /\ way' = way /\ list' = list /\ got' = got /\ menu' = menu
        /\ changes' = changes /\ cache' = <<Served(task[t].reply[1])>>
        /\ task' = [task EXCEPT ![t] = [pc |-> "known", reply |-> task[t].reply]]
    BY <1>7 DEF Slash!get_commands, Slash!Goto, Served
  <2>2. t # "menu" => Asks(way.prompts[t])
    BY <2>1 DEF CommandInv, TurnsAreOthers, Asking, TaskIds
  <2>3. PICK l \in Lists : task[t].reply = <<l>>
    BY <1>2, <2>1 DEF CommandInv, AnswersAreKept, Replies
  <2>4. /\ [pc |-> "known", reply |-> task[t].reply] \in [pc : Pcs, reply : Replies]
        /\ task[t].reply # <<>> /\ cache' = <<Served(l)>> /\ cache' # <<>>
    BY <1>2, <2>1, <2>3 DEF Pcs
  <2> QED BY <2>1, <2>2, <2>3, <2>4, TaskMoves
<1>8. ASSUME Slash!advertise_commands PROVE CommandInv'
  <2>1. /\ task["menu"].pc = "idle" /\ way' = way /\ list' = list /\ cache' = cache /\ got' = got
        /\ menu' = menu /\ changes' = changes
        /\ task' = [task EXCEPT !["menu"] = [pc |-> "ask", reply |-> task["menu"].reply]]
    BY <1>8 DEF Slash!advertise_commands, Slash!Goto
  <2>2. "menu" \in TaskIds /\ [pc |-> "ask", reply |-> task["menu"].reply] \in [pc : Pcs, reply : Replies]
    BY <1>2 DEF TaskIds, Pcs
  <2> QED BY <2>1, <2>2, TaskMoves
<1>9. CASE Slash!Next
  BY <1>0, <1>4, <1>5, <1>6, <1>7, <1>8, <1>9, MenuShown, PiChanged DEF Slash!Next
<1> QED BY <1>3, <1>9

LEMMA CommandStart ==
    ASSUME Slash!SlashAssumption, Slash!Init
    PROVE  CommandInv
<1>1. /\ way \in Ways /\ list \in Lists /\ cache = <<>> /\ got = <<>> /\ menu = <<>> /\ changes = 0
      /\ task = [t \in TaskIds |-> [pc |-> "idle", reply |-> <<>>]]
  BY DEF Slash!Init, Slash!Tasks, Slash!Prompts, TaskIds
<1>2. way.changes \in Nat /\ 0 \in 0 .. way.changes
  <2>1. way.changes \in Nat
    BY Zenon, <1>1 DEF Slash!SlashAssumption
  <2> QED BY <2>1
<1>3. DOMAIN got = {} /\ DOMAIN menu = {} /\ menu \in Seq(Offers)
  BY <1>1
<1>4. [pc |-> "idle", reply |-> <<>>] \in [pc : Pcs, reply : Replies]
  BY DEF Pcs, Replies
<1>5. \A t \in TaskIds : task[t].pc = "idle" /\ task[t].reply = <<>>
  BY <1>1
<1>6. CommandTypes
  BY <1>1, <1>2, <1>3, <1>4 DEF CommandTypes
<1>7. TurnsAreOthers
  BY <1>3, <1>5 DEF TurnsAreOthers, Asking, TaskIds
<1>8. MenuIsMerged
  BY <1>1, <1>3 DEF MenuIsMerged
<1>9. AnswersAreKept
  BY <1>1, <1>3, <1>5 DEF AnswersAreKept
<1> QED BY <1>6, <1>7, <1>8, <1>9 DEF CommandInv

LEMMA CommandsFollow ==
    ASSUME Slash!SlashAssumption, NamesAreServed, CommandInv
    PROVE  Slash!CommandsAgree
<1>0. /\ Slash!Tasks = TaskIds /\ Slash!Prompts = way.prompts /\ Slash!Fails = way.fails
      /\ Slash!Changes = way.changes /\ \A l : Slash!extension_command_names(l) = Served(l)
  BY DEF Slash!Tasks, Slash!Prompts, Slash!Fails, Slash!Changes, TaskIds, Served
<1>1. Slash!TypeOK
  <2>1. cache # <<>> => cache[1] \in {Served(l) : l \in Lists}
    BY DEF CommandInv, CommandTypes
  <2>2. \A t \in TaskIds : task[t].pc \in Pcs
    BY DEF CommandInv, CommandTypes
  <2>3. \A p \in DOMAIN got : got[p].marked \in BOOLEAN /\ p # "menu"
    BY Zenon DEF CommandInv, CommandTypes, Slash!SlashAssumption
  <2>4. way \in Ways /\ list \in Lists /\ changes \in 0 .. Slash!Changes
    BY <1>0 DEF CommandInv, CommandTypes
  <2>5. cache # <<>> => cache[1] \in {Slash!extension_command_names(l) : l \in Lists}
    BY <2>1 DEF Served
  <2> QED BY <1>0, <2>2, <2>3, <2>4, <2>5 DEF Slash!TypeOK, Pcs
<1>2. Slash!ImagesReachPi
  BY <1>0 DEF CommandInv, TurnsAreOthers, Own, Slash!ImagesReachPi, Slash!Sent
<1>3. Slash!MenuNamesTheFile
  BY DEF CommandInv, MenuIsMerged, Offered, Slash!MenuNamesTheFile
<1>4. Slash!MenuIsWhole
  <2>1. ASSUME menu # <<>> PROVE Slash!IsInjective([i \in DOMAIN menu |-> menu[i].name])
    BY DEF CommandInv, MenuIsMerged, Slash!IsInjective
  <2>2. ASSUME menu # <<>> PROVE Builtins \subseteq {menu[i].name : i \in DOMAIN menu}
    BY <2>2 DEF CommandInv, MenuIsMerged
  <2>3. ASSUME NEW i \in DOMAIN menu, menu[i].from = "pi"
        PROVE  menu[i].name \notin Slash!extension_command_names(task["menu"].reply[1])
    <3>1. PICK l \in Lists : /\ task["menu"].reply = <<l>>
                             /\ \E j \in DOMAIN l : l[j].name = menu[i].name /\ l[j].source # "extension"
      BY <2>3, CommandParts DEF CommandInv, MenuIsMerged, Offered
    <3>2. \A j, k \in DOMAIN l : l[j].source = "extension" /\ l[k].source # "extension" => l[j].name # l[k].name
      BY DEF NamesAreServed
    <3>3. menu[i].name \notin Slash!extension_command_names(l)
      BY <3>1, <3>2 DEF Slash!extension_command_names
    <3> QED BY <3>1, <3>3
  <2> QED BY <2>1, <2>2, <2>3 DEF Slash!MenuIsWhole
<1>5. ~Slash!Fails /\ Slash!Changes = 0 => Slash!MarkedAsServed /\ Slash!ExtensionsWin
  <2> SUFFICES ASSUME Kept PROVE Slash!MarkedAsServed /\ Slash!ExtensionsWin
    BY <1>0 DEF Kept
  <2>1. \A p \in DOMAIN got :
            LET q == way.prompts[p] IN
            /\ got[p].marked = got[p].ext
            /\ q.strict /\ q.name \in Served(list) => got[p].text = <<"raw", q.name>>
    BY DEF CommandInv, AnswersAreKept
  <2> QED BY <1>0, <2>1 DEF Slash!MarkedAsServed, Slash!ExtensionsWin
<1> QED BY <1>1, <1>2, <1>3, <1>4, <1>5 DEF Slash!CommandsAgree

\* The prompts and the menu agree on what a slash command is.
THEOREM CommandsHold ==
    ASSUME NamesAreServed
    PROVE  RequestsSpec => []CommandsAgree
<1>0. Slash!SlashAssumption
  BY RequestsAssumption
<1>1. RequestsInit => CommandInv
  BY <1>0, CommandStart DEF RequestsInit
<1>2. CommandInv /\ [RequestsNext]_requestVars => CommandInv'
  <2> SUFFICES ASSUME CommandInv, [RequestsNext]_requestVars PROVE CommandInv'
    OBVIOUS
  <2>1. [Slash!Next]_(Slash!vars)
    BY DEF RequestsNext, requestVars, slashVars, Slash!vars
  <2> QED BY <1>0, <2>1, CommandStep
<1>3. CommandInv => CommandsAgree
  BY <1>0, CommandsFollow DEF CommandsAgree
<1> QED BY <1>1, <1>2, <1>3, PTL DEF RequestsSpec

-----------------------------------------------------------------------------
\* Listings.

LEMMA ListingSubsequence ==
    ASSUME NEW s, NEW at
    PROVE  Listing!Subsequence(s, at) = Subsequence(s, at)
BY DEF Listing!Subsequence, Subsequence, Listing!Nth, Nth, Listing!Rank, Rank, Listing!Cardinality, Cardinality

LEMMA ListingNth ==
    ASSUME NEW at, NEW k
    PROVE  Listing!Nth(at, k) = Nth(at, k) /\ Listing!Cardinality(at) = Cardinality(at)
BY DEF Listing!Nth, Nth, Listing!Rank, Rank, Listing!Cardinality, Cardinality

LEMMA ListingParts ==
    ASSUME Listing!ListingAssumption
    PROVE  /\ LIST_PAGE_SIZE \in Nat \ {0} /\ Memory \in Nat
           /\ IsFiniteSet(Sessions) /\ Cardinality(Sessions) \in Nat
<1>1. LIST_PAGE_SIZE \in Nat \ {0} /\ Memory \in Nat
  BY DEF Listing!ListingAssumption
<1>2. IsFiniteSet(Sessions)
  BY Zenon DEF Listing!ListingAssumption, Listing!IsFiniteSet, IsFiniteSet
<1> QED BY <1>1, <1>2, FS_CardinalityType

\* The first m of different elements are m.
LEMMA FirstOnes ==
    ASSUME NEW S, NEW s \in Seq(S), \A i, j \in 1 .. Len(s) : s[i] = s[j] => i = j, NEW m \in 0 .. Len(s),
           NEW F, \A x : x \in F <=> \E j \in 1 .. m : s[j] = x
    PROVE  IsFiniteSet(F) /\ Cardinality(F) = m
<1> DEFINE f == [j \in 1 .. m |-> s[j]]
<1>1. m \in Nat /\ 1 .. m \subseteq 1 .. Len(s)
  OBVIOUS
<1>2. IsFiniteSet(1 .. m) /\ Cardinality(1 .. m) = m
  BY <1>1, FS_Interval
<1>3. f \in [1 .. m -> F] /\ (\A t \in F : \E j \in 1 .. m : f[j] = t)
      /\ \A i, j \in 1 .. m : f[i] = f[j] => i = j
  BY <1>1
<1> HIDE DEF f
<1>4. f \in Bijection(1 .. m, F)
  BY <1>3 DEF Bijection, Injection, Surjection, IsInjective
<1>5. ExistsBijection(1 .. m, F)
  BY <1>4 DEF ExistsBijection
<1> QED BY <1>2, <1>5, FS_Bijection

\* In a sequence from the latest to the earliest, the place of one is how many are not earlier.
LEMMA PlaceInOrder ==
    ASSUME NEW S, NEW s \in Seq(S), NEW when \in [S -> Nat],
           \A i, j \in 1 .. Len(s) : i < j => when[s[j]] < when[s[i]],
           \A x \in S : \E i \in 1 .. Len(s) : s[i] = x
    PROVE  /\ IsFiniteSet(S) /\ Cardinality(S) = Len(s)
           /\ \A i, j \in 1 .. Len(s) : s[i] = s[j] => i = j
           /\ \A i \in 1 .. Len(s) : Cardinality({k \in S : when[s[i]] <= when[k]}) = i
<1> DEFINE n == Len(s)
           w == [i \in 1 .. n |-> when[s[i]]]
<1>1. n \in Nat /\ n \in 0 .. n /\ \A i \in 1 .. n : s[i] \in S
  OBVIOUS
<1>2. w \in [1 .. n -> Nat] /\ \A i, j \in 1 .. n : i < j => w[j] < w[i]
  BY <1>1
<1>3. \A i \in 1 .. n : w[i] = when[s[i]]
  OBVIOUS
<1> HIDE DEF n, w
<1>4. ASSUME NEW i \in 1 .. n, NEW j \in 1 .. n PROVE w[i] <= w[j] <=> j <= i
  <2>1. i < j \/ j < i \/ i = j
    BY <1>1
  <2>2. w[i] \in Nat /\ w[j] \in Nat
    BY <1>2
  <2> QED BY <1>1, <1>2, <2>1, <2>2
<1>5. \A i, j \in 1 .. n : s[i] = s[j] => i = j
  <2> SUFFICES ASSUME NEW i \in 1 .. n, NEW j \in 1 .. n, s[i] = s[j] PROVE i = j
    OBVIOUS
  <2>1. w[i] = w[j] /\ w[i] \in Nat
    BY <1>2, <1>3
  <2>2. j <= i /\ i <= j
    BY <1>4, <2>1
  <2> QED BY <1>1, <2>2
<1>6. IsFiniteSet(S) /\ Cardinality(S) = n
  <2>1. \A x : x \in S <=> \E j \in 1 .. n : s[j] = x
    BY <1>1 DEF n
  <2>2. n = Len(s) /\ n \in 0 .. Len(s) /\ \A i, j \in 1 .. Len(s) : s[i] = s[j] => i = j
    BY <1>1, <1>5 DEF n
  <2>3. IsFiniteSet(S) /\ Cardinality(S) = n
    BY <2>1, <2>2, FirstOnes
  <2> QED BY <2>3
<1>7. ASSUME NEW i \in 1 .. n PROVE Cardinality({k \in S : when[s[i]] <= when[k]}) = i
  <2> DEFINE F == {k \in S : when[s[i]] <= when[k]}
  <2>1. ASSUME NEW x \in S PROVE x \in F <=> \E j \in 1 .. i : s[j] = x
    <3>1. PICK j \in 1 .. n : s[j] = x
      BY DEF n
    <3>2. x \in F <=> w[i] <= w[j]
      BY <1>3, <3>1
    <3> HIDE DEF F
    <3>3. x \in F <=> j \in 1 .. i
      BY <1>1, <1>4, <3>2
    <3>4. ASSUME NEW k \in 1 .. i PROVE k \in 1 .. n /\ (s[k] = x => k = j)
      <4>1. k \in 1 .. n
        BY <1>1
      <4>2. s[k] = x => s[k] = s[j]
        BY <3>1
      <4> QED BY <1>5, <4>1, <4>2
    <3> QED BY <3>1, <3>3, <3>4
  <2>2. \A x : x \in F <=> \E j \in 1 .. i : s[j] = x
    <3>1. \A j \in 1 .. i : s[j] \in S
      BY <1>1
    <3>2. \A x : x \in F => x \in S
      OBVIOUS
    <3> HIDE DEF F
    <3> QED BY <2>1, <3>1, <3>2
  <2>3. i \in 0 .. n
    BY <1>1
  <2> HIDE DEF F
  <2>4. Cardinality(F) = i
    BY <1>5, <2>2, <2>3, FirstOnes DEF n
  <2> QED BY <2>4 DEF F
<1> QED BY <1>5, <1>6, <1>7 DEF n

\* The positions of a set grow, and so its elements counted from the last one fall.
LEMMA NthGrows ==
    ASSUME NEW at \in SUBSET Int, IsFiniteSet(at), NEW k \in 1 .. Cardinality(at), NEW l \in 1 .. Cardinality(at),
           k < l
    PROVE  Nth(at, k) < Nth(at, l)
<1>1. /\ Nth(at, k) \in at /\ Rank(at, Nth(at, k)) = k
      /\ Nth(at, l) \in at /\ Rank(at, Nth(at, l)) = l
  BY NthIsThere
<1>2. Nth(at, k) \in Int /\ Nth(at, l) \in Int /\ k \in Int /\ l \in Int
  <2>1. Cardinality(at) \in Nat
    BY FS_CardinalityType
  <2>2. k \in Int /\ l \in Int
    BY <2>1
  <2>3. Nth(at, k) \in Int /\ Nth(at, l) \in Int
    BY <1>1
  <2> QED BY <2>2, <2>3
<1>3. ~(Nth(at, l) < Nth(at, k))
  <2>1. ASSUME Nth(at, l) < Nth(at, k) PROVE FALSE
    <3>1. Rank(at, Nth(at, l)) < Rank(at, Nth(at, k))
      BY <1>1, <1>2, <2>1, RankGrows
    <3> QED BY <1>1, <1>2, <3>1
  <2> QED BY <2>1
<1>4. Nth(at, l) # Nth(at, k)
  BY <1>1, <1>2
<1> QED BY <1>2, <1>3, <1>4

LEMMA GreatestNumber ==
    ASSUME NEW S \in SUBSET Nat, S # {}, NEW n \in Nat, \A x \in S : x <= n
    PROVE  \E x \in S : \A y \in S : y <= x
<1> DEFINE T == {n - x : x \in S}
<1>1. T \in SUBSET Nat /\ T # {}
  OBVIOUS
<1>2. PICK t \in T : \A u \in T : t <= u
  <2> HIDE DEF T
  <2> QED BY <1>1, LeastNumber
<1>3. PICK x \in S : t = n - x
  BY <1>2
<1>4. ASSUME NEW y \in S PROVE y <= x
  <2>1. n - y \in T /\ x \in Nat /\ y \in Nat
    OBVIOUS
  <2>2. t <= n - y
    BY <1>2, <2>1
  <2> QED BY <1>3, <2>1, <2>2
<1> QED BY <1>4

\* A file's last message.
FileLines == [kind : {"message", "other"}, at : Nat, zone : BOOLEAN]
MessagesOf(ls) == {i \in 1 .. Len(ls) : ls[i].kind = "message"}
LastMessage(ls) == CHOOSE i \in MessagesOf(ls) : \A j \in MessagesOf(ls) : i >= j
Stamp(ls) == ls[LastMessage(ls)].at
Dated(ls, time) ==
    /\ ls \in Seq(FileLines) /\ MessagesOf(ls) # {}
    /\ \A i \in 1 .. Len(ls) : ls[i].zone /\ ls[i].at \in 1 .. time

LEMMA LastMessageIs ==
    ASSUME NEW time \in Nat, NEW ls, Dated(ls, time)
    PROVE  /\ LastMessage(ls) \in MessagesOf(ls) /\ LastMessage(ls) \in 1 .. Len(ls)
           /\ \A j \in MessagesOf(ls) : LastMessage(ls) >= j
           /\ Stamp(ls) \in 1 .. time
<1>1. /\ Len(ls) \in Nat /\ MessagesOf(ls) # {} /\ MessagesOf(ls) \in SUBSET Nat
      /\ \A i \in MessagesOf(ls) : i <= Len(ls) /\ i \in 1 .. Len(ls)
      /\ \A i \in 1 .. Len(ls) : ls[i].at \in 1 .. time
  BY DEF Dated, MessagesOf
<1>2. PICK i \in MessagesOf(ls) : \A j \in MessagesOf(ls) : j <= i
  BY <1>1, GreatestNumber
<1>3. \A j \in MessagesOf(ls) : i >= j
  BY <1>1, <1>2
<1>4. LastMessage(ls) \in MessagesOf(ls) /\ \A j \in MessagesOf(ls) : LastMessage(ls) >= j
  BY <1>3 DEF LastMessage
<1> QED BY <1>1, <1>4 DEF Stamp

\* A line more is the last message, or leaves it alone.
LEMMA StampOfMore ==
    ASSUME NEW time \in Nat, NEW ls, Dated(ls, time), NEW l \in FileLines, l.zone, l.at = time + 1
    PROVE  /\ Dated(Append(ls, l), time + 1)
           /\ Stamp(Append(ls, l)) = IF l.kind = "message" THEN time + 1 ELSE Stamp(ls)
<1> DEFINE n == Len(ls)
           ms == Append(ls, l)
<1>1. /\ ls \in Seq(FileLines) /\ n \in Nat /\ ms \in Seq(FileLines) /\ Len(ms) = n + 1
      /\ ms[n + 1] = l /\ \A i \in 1 .. n : ms[i] = ls[i]
  BY DEF Dated
<1>2. \A i \in 1 .. n : ls[i].zone /\ ls[i].at \in 1 .. time
  BY DEF Dated
<1> HIDE DEF ms
<1>3. /\ \A i \in 1 .. n : i \in MessagesOf(ms) <=> i \in MessagesOf(ls)
      /\ n + 1 \in MessagesOf(ms) <=> l.kind = "message"
      /\ \A i \in MessagesOf(ms) : i \in 1 .. n \/ i = n + 1
      /\ \A i \in MessagesOf(ls) : i \in 1 .. n
  BY <1>1 DEF MessagesOf
<1>4. Dated(ms, time + 1)
  <2>1. \A i \in 1 .. n + 1 : ms[i].zone /\ ms[i].at \in 1 .. time + 1
    <3> SUFFICES ASSUME NEW i \in 1 .. n + 1 PROVE ms[i].zone /\ ms[i].at \in 1 .. time + 1
      OBVIOUS
    <3>1. CASE i = n + 1
      BY <1>1, <3>1
    <3>2. CASE i \in 1 .. n
      BY <1>1, <1>2, <3>2
    <3> QED BY <1>1, <3>1, <3>2
  <2>2. MessagesOf(ms) # {}
    BY <1>3 DEF Dated
  <2> QED BY <1>1, <2>1, <2>2 DEF Dated
<1>5. /\ LastMessage(ms) \in MessagesOf(ms) /\ \A j \in MessagesOf(ms) : LastMessage(ms) >= j
      /\ LastMessage(ls) \in MessagesOf(ls) /\ \A j \in MessagesOf(ls) : LastMessage(ls) >= j
  BY <1>4, LastMessageIs
<1>6. CASE l.kind = "message"
  <2>1. LastMessage(ms) = n + 1
    BY <1>1, <1>3, <1>5, <1>6
  <2> QED BY <1>1, <1>4, <1>6, <2>1 DEF Stamp, ms
<1>7. CASE l.kind # "message"
  <2>1. MessagesOf(ms) = MessagesOf(ls)
    BY <1>3, <1>7
  <2>2. LastMessage(ms) = LastMessage(ls)
    BY <2>1 DEF LastMessage
  <2>3. ms[LastMessage(ms)] = ls[LastMessage(ls)]
    BY <1>1, <1>3, <1>5, <2>2
  <2> QED BY <1>4, <1>7, <2>3 DEF Stamp, ms
<1> QED BY <1>6, <1>7

-----------------------------------------------------------------------------
\* The listing of one state.
FilesInv ==
    /\ now \in Nat /\ DOMAIN files \subseteq Sessions
    /\ \A id \in DOMAIN files : /\ files[id].cwd \in Cwds
                                /\ files[id].mtime \in Nat /\ files[id].mtime <= now
                                /\ Dated(files[id].lines, now)
    /\ \A j, k \in DOMAIN files : Stamp(files[j].lines) = Stamp(files[k].lines) => j = k
Project(fs, cwd) == {id \in DOMAIN fs : fs[id].cwd = cwd}
Place(fs, cwd, id) == Cardinality({k \in Project(fs, cwd) : Stamp(fs[id].lines) <= Stamp(fs[k].lines)})

LEMMA Picked ==
    ASSUME FilesInv, NEW id \in DOMAIN files
    PROVE  /\ Listing!pick_updated_at(id) = Stamp(files[id].lines)
           /\ Listing!LastOf(files[id].lines, Listing!Messages(files[id].lines)) = Stamp(files[id].lines)
           /\ Stamp(files[id].lines) \in 1 .. now /\ Stamp(files[id].lines) \in Nat
<1> DEFINE ls == files[id].lines
<1>1. now \in Nat /\ Dated(ls, now)
  BY DEF FilesInv
<1> HIDE DEF ls
<1>2. DOMAIN ls = 1 .. Len(ls) /\ MessagesOf(ls) # {} /\ \A i \in DOMAIN ls : ls[i].zone
  BY <1>1 DEF Dated
<1>3. Listing!Messages(ls) = MessagesOf(ls) /\ Listing!Messages(ls) \cap Listing!Zoned(ls) = MessagesOf(ls)
  BY <1>2 DEF Listing!Messages, Listing!Zoned, MessagesOf
<1>4. Listing!Max(MessagesOf(ls)) = LastMessage(ls)
  BY DEF Listing!Max, LastMessage
<1>5. Listing!LastOf(ls, MessagesOf(ls)) = Stamp(ls)
  BY <1>2, <1>4 DEF Listing!LastOf, Stamp
<1>6. Stamp(ls) \in 1 .. now /\ Stamp(ls) \in Nat /\ Stamp(ls) # 0
  <2>1. Stamp(ls) \in 1 .. now
    BY <1>1, LastMessageIs
  <2> QED BY <1>1, <2>1
<1>7. Listing!pick_updated_at(id) = Stamp(ls)
  BY <1>3, <1>5, <1>6 DEF Listing!pick_updated_at, ls
<1> QED BY <1>3, <1>5, <1>6, <1>7 DEF ls

\* All sessions, the latest first.
LEMMA AllListed ==
    ASSUME FilesInv, IsFiniteSet(Sessions)
    PROVE  LET all == Listing!list_pi_sessions_from IN
           /\ all \in Seq(DOMAIN files)
           /\ \A i, j \in 1 .. Len(all) : i < j => Stamp(files[all[j]].lines) < Stamp(files[all[i]].lines)
           /\ \A id \in DOMAIN files : \E i \in 1 .. Len(all) : all[i] = id
<1> DEFINE T == {Listing!pick_updated_at(id) : id \in Listing!Existing}
           U == {Stamp(files[id].lines) : id \in DOMAIN files}
           n == Cardinality(U)
           all == Listing!list_pi_sessions_from
           At(i) == CHOOSE id \in DOMAIN files : Stamp(files[id].lines) = Nth(U, n + 1 - i)
<1>1. T = U
  BY Picked DEF Listing!Existing
<1>2. /\ U \in SUBSET Int /\ IsFiniteSet(U) /\ n \in Nat
  <2>1. now \in Nat /\ \A id \in DOMAIN files : Stamp(files[id].lines) \in 1 .. now
    BY Picked DEF FilesInv
  <2>2. U \in SUBSET (1 .. now) /\ U \in SUBSET Int
    BY <2>1
  <2>3. IsFiniteSet(1 .. now)
    BY <2>1, FS_Interval
  <2> HIDE DEF U
  <2>4. IsFiniteSet(U)
    BY <2>2, <2>3, FS_Subset
  <2> QED BY <2>2, <2>4, FS_CardinalityType
<1>3. all = [i \in 1 .. n |-> At(i)]
  <2>1. all = [i \in 1 .. Listing!Cardinality(T) |-> CHOOSE id \in DOMAIN files :
                   Listing!pick_updated_at(id) = Listing!Nth(T, Listing!Cardinality(T) + 1 - i)]
    BY DEF Listing!list_pi_sessions_from, Listing!Existing
  <2>2. Listing!Cardinality(T) = n
    BY <1>1, ListingNth
  <2>3. \A i : (CHOOSE id \in DOMAIN files : Listing!pick_updated_at(id) = Listing!Nth(T, n + 1 - i)) = At(i)
    <3> SUFFICES ASSUME NEW i
                 PROVE  (CHOOSE id \in DOMAIN files : Listing!pick_updated_at(id) = Listing!Nth(T, n + 1 - i)) = At(i)
      OBVIOUS
    <3>1. Listing!Nth(T, n + 1 - i) = Nth(U, n + 1 - i)
      BY <1>1, ListingNth
    <3> HIDE DEF T, U, n
    <3>2. \A id \in DOMAIN files : Listing!pick_updated_at(id) = Listing!Nth(T, n + 1 - i)
                                   <=> Stamp(files[id].lines) = Nth(U, n + 1 - i)
      BY <3>1, Picked
    <3> QED BY <3>2
  <2> HIDE DEF T, all, n, At
  <2> QED BY <2>1, <2>2, <2>3
<1>4. ASSUME NEW i \in 1 .. n
      PROVE  /\ At(i) \in DOMAIN files /\ Stamp(files[At(i)].lines) = Nth(U, n + 1 - i)
             /\ n + 1 - i \in 1 .. n
  <2>1. n + 1 - i \in 1 .. n
    BY <1>2
  <2>2. Nth(U, n + 1 - i) \in U
    <3> HIDE DEF U
    <3> QED BY <1>2, <2>1, NthIsThere DEF n
  <2>3. \E id \in DOMAIN files : Stamp(files[id].lines) = Nth(U, n + 1 - i)
    BY <2>2
  <2> HIDE DEF U, n
  <2> QED BY <2>1, <2>3
<1> HIDE DEF all, At
<1>5. all \in Seq(DOMAIN files) /\ Len(all) = n /\ \A i \in 1 .. n : all[i] = At(i)
  <2> HIDE DEF n
  <2>1. all \in [1 .. n -> DOMAIN files]
    BY <1>3, <1>4
  <2>2. all \in Seq(DOMAIN files)
    BY <1>2, <2>1, SeqDef
  <2> QED BY <1>2, <1>3, <2>1, <2>2
<1>6. ASSUME NEW i \in 1 .. n, NEW j \in 1 .. n, i < j
      PROVE  Stamp(files[all[j]].lines) < Stamp(files[all[i]].lines)
  <2>1. n + 1 - j \in 1 .. n /\ n + 1 - i \in 1 .. n /\ n + 1 - j < n + 1 - i
    BY <1>2, <1>6
  <2>2. Nth(U, n + 1 - j) < Nth(U, n + 1 - i)
    <3> HIDE DEF U
    <3> QED BY <1>2, <2>1, NthGrows DEF n
  <2> HIDE DEF n, U
  <2> QED BY <1>4, <1>5, <2>2
<1>7. ASSUME NEW id \in DOMAIN files PROVE \E i \in 1 .. n : all[i] = id
  <2> DEFINE t == Stamp(files[id].lines)
             k == Rank(U, t)
             i == n + 1 - k
  <2>1. t \in U
    OBVIOUS
  <2>2. k \in 1 .. n /\ Nth(U, k) = t
    <3> HIDE DEF U, t
    <3> QED BY <1>2, <2>1, RankIsPlace, NthIsThere DEF n
  <2> HIDE DEF k, t, n, U
  <2>3. i \in 1 .. n /\ n + 1 - i = k
    BY <1>2, <2>2
  <2> HIDE DEF i
  <2>4. At(i) \in DOMAIN files /\ Stamp(files[At(i)].lines) = t
    BY <1>4, <2>2, <2>3
  <2>5. At(i) = id
    BY <2>4 DEF FilesInv, t
  <2> QED BY <1>5, <2>3, <2>5
<1> QED BY <1>5, <1>6, <1>7 DEF all

\* A project's sessions, the latest first: the place of one is how many are not older.
LEMMA Listed ==
    ASSUME FilesInv, IsFiniteSet(Sessions), NEW cwd
    PROVE  LET s == Listing!Of(cwd) IN
           /\ s \in Seq(Project(files, cwd)) /\ Len(s) = Cardinality(Project(files, cwd))
           /\ IsFiniteSet(Project(files, cwd))
           /\ \A i \in 1 .. Len(s) : s[i] \in Project(files, cwd) /\ Place(files, cwd, s[i]) = i
           /\ \A id \in Project(files, cwd) :
                  Place(files, cwd, id) \in 1 .. Len(s) /\ s[Place(files, cwd, id)] = id
<1> DEFINE all == Listing!list_pi_sessions_from
           at == {i \in DOMAIN all : files[all[i]].cwd = cwd}
           s == Listing!Of(cwd)
           P == Project(files, cwd)
           when == [id \in P |-> Stamp(files[id].lines)]
<1>1. /\ all \in Seq(DOMAIN files) /\ DOMAIN all = 1 .. Len(all)
      /\ \A i, j \in 1 .. Len(all) : i < j => Stamp(files[all[j]].lines) < Stamp(files[all[i]].lines)
      /\ \A id \in DOMAIN files : \E i \in 1 .. Len(all) : all[i] = id
  BY AllListed
<1>2. s = Subsequence(all, at)
  BY ListingSubsequence DEF Listing!Of
<1> HIDE DEF all, s
<1>3. /\ at \in SUBSET (1 .. Len(all)) /\ \A i \in at : all[i] \in P
  BY <1>1 DEF Project
<1>4. /\ at \in SUBSET Int /\ IsFiniteSet(at) /\ Cardinality(at) \in Nat
  <2> HIDE DEF at
  <2> QED BY <1>1, <1>3, Positions
<1>5. s \in Seq(P) /\ Len(s) = Cardinality(at)
  <2> HIDE DEF at, P
  <2> QED BY <1>1, <1>2, <1>3, SubsequenceType
<1>6. \A i \in 1 .. Len(s) : Nth(at, i) \in at /\ s[i] = all[Nth(at, i)] /\ s[i] \in P
  <2> HIDE DEF at, P
  <2>1. \A i \in 1 .. Len(s) : Nth(at, i) \in at
    BY <1>4, <1>5, NthIsThere
  <2>2. \A i \in 1 .. Len(s) : s[i] = all[Nth(at, i)]
    BY <1>2, <1>5 DEF Subsequence
  <2> QED BY <1>3, <2>1, <2>2
<1>7. when \in [P -> Nat] /\ \A id \in P : when[id] = Stamp(files[id].lines)
  BY Picked DEF Project
<1>8. \A i, j \in 1 .. Len(s) : i < j => when[s[j]] < when[s[i]]
  <2> SUFFICES ASSUME NEW i \in 1 .. Len(s), NEW j \in 1 .. Len(s), i < j PROVE when[s[j]] < when[s[i]]
    OBVIOUS
  <2>1. Nth(at, i) < Nth(at, j)
    <3> HIDE DEF at
    <3> QED BY <1>4, <1>5, NthGrows
  <2>2. Nth(at, i) \in 1 .. Len(all) /\ Nth(at, j) \in 1 .. Len(all)
    <3> HIDE DEF at
    <3> QED BY <1>3, <1>6
  <2>3. Stamp(files[all[Nth(at, j)]].lines) < Stamp(files[all[Nth(at, i)]].lines)
    BY <1>1, <2>1, <2>2
  <2> HIDE DEF when, at, P
  <2> QED BY <1>6, <1>7, <2>3
<1>9. \A x \in P : \E i \in 1 .. Len(s) : s[i] = x
  <2> SUFFICES ASSUME NEW x \in P PROVE \E i \in 1 .. Len(s) : s[i] = x
    OBVIOUS
  <2>1. x \in DOMAIN files /\ files[x].cwd = cwd
    BY DEF Project
  <2>2. \E i \in at : all[i] = x
    BY <1>1, <2>1
  <2> HIDE DEF at, P
  <2> QED BY <1>1, <1>2, <1>3, <1>5, <2>1, <2>2, SubsequenceRange
<1> HIDE DEF P, when, at
<1>10. /\ IsFiniteSet(P) /\ Cardinality(P) = Len(s)
       /\ \A i \in 1 .. Len(s) : Cardinality({k \in P : when[s[i]] <= when[k]}) = i
  <2>1. when \in [P -> Nat]
    BY <1>7
  <2>2. IsFiniteSet(P) /\ Cardinality(P) = Len(s)
    BY <1>5, <1>8, <1>9, <2>1, PlaceInOrder
  <2>3. \A i \in 1 .. Len(s) : Cardinality({k \in P : when[s[i]] <= when[k]}) = i
    BY <1>5, <1>8, <1>9, <2>1, PlaceInOrder
  <2> QED BY <2>2, <2>3
<1>11. ASSUME NEW i \in 1 .. Len(s) PROVE Place(files, cwd, s[i]) = i
  <2>1. {k \in P : when[s[i]] <= when[k]} = {k \in P : Stamp(files[s[i]].lines) <= Stamp(files[k].lines)}
    BY <1>6, <1>7
  <2>2. Cardinality({k \in P : when[s[i]] <= when[k]}) = i
    BY <1>10
  <2>3. Place(files, cwd, s[i]) = Cardinality({k \in P : Stamp(files[s[i]].lines) <= Stamp(files[k].lines)})
    BY DEF Place, P
  <2> QED BY <2>1, <2>2, <2>3
<1>12. ASSUME NEW id \in P PROVE Place(files, cwd, id) \in 1 .. Len(s) /\ s[Place(files, cwd, id)] = id
  <2>1. PICK i \in 1 .. Len(s) : s[i] = id
    BY <1>9
  <2> QED BY <1>11, <2>1
<1> QED BY <1>5, <1>6, <1>10, <1>11, <1>12 DEF s, P

-----------------------------------------------------------------------------
\* The walk over the pages.
Shows(q, id) == \E i \in 1 .. Len(q) : q[i] = id
\* The sessions of a project that q shows are its first ones, in their order.
InOrder(q, cwd) == \A i \in 1 .. Len(q) : q[i] \in Project(files, cwd) /\ Place(files, cwd, q[i]) = i
\* Those that were left alone, up to a place, are shown.
Covers(q, cwd, n) == \A id \in Project(files, cwd) \ touched : Place(files, cwd, id) <= n => Shows(q, id)
Calm == touched = {} /\ ~deleted
Many(cwd) == Cardinality(Project(files, cwd))

WalkTypes ==
    /\ walk.pc \in {"idle", "more", "done"} /\ walk.cursor \in Nat /\ walk.cursor % LIST_PAGE_SIZE = 0
    /\ seen \in Seq(Sessions) /\ touched \subseteq Sessions /\ deleted \in BOOLEAN
Walking ==
    walk.pc = "more" =>
        /\ walk.cursor <= Cardinality(Sessions) /\ Len(seen) <= walk.cursor
        /\ ~deleted => walk.cursor < Many(walk.cwd) /\ Covers(seen, walk.cwd, walk.cursor)
        /\ Calm => Len(seen) = walk.cursor /\ InOrder(seen, walk.cwd)
Walked ==
    walk.pc = "done" =>
        /\ ~deleted => Covers(seen, walk.cwd, Many(walk.cwd))
        /\ Calm => Len(seen) = Many(walk.cwd) /\ InOrder(seen, walk.cwd)
ListingInv ==
    /\ FilesInv /\ WalkTypes
    /\ walk.pc = "idle" => seen = <<>> /\ walk.cursor = 0
    /\ Walking /\ Walked

LEMMA MinOfTwo ==
    ASSUME NEW a \in Int, NEW b \in Int
    PROVE  Listing!Min({a, b}) = IF a <= b THEN a ELSE b
<1>1. a <= b => Listing!Min({a, b}) = a
  BY DEF Listing!Min
<1>2. ~(a <= b) => Listing!Min({a, b}) = b
  BY DEF Listing!Min
<1> QED BY <1>1, <1>2

LEMMA PageIs ==
    ASSUME NEW S, NEW all \in Seq(S), NEW c \in Nat, LIST_PAGE_SIZE \in Nat
    PROVE  LET m == IF c + LIST_PAGE_SIZE <= Len(all) THEN c + LIST_PAGE_SIZE ELSE Len(all)
               page == Listing!Page(all, c)
           IN  /\ page \in Seq(S) /\ Len(page) = IF c < m THEN m - c ELSE 0
               /\ \A i \in 1 .. Len(page) : page[i] = all[c + i]
<1> DEFINE m == IF c + LIST_PAGE_SIZE <= Len(all) THEN c + LIST_PAGE_SIZE ELSE Len(all)
           page == Listing!Page(all, c)
<1>1. Len(all) \in Nat /\ m \in Nat /\ m <= Len(all)
  OBVIOUS
<1>2. page = SubSeq(all, c + 1, m)
  BY <1>1, MinOfTwo DEF Listing!Page
<1> HIDE DEF page, m
<1>3. /\ page \in Seq(S) /\ Len(page) = IF c < m THEN m - c ELSE 0
      /\ \A i \in 1 .. Len(page) : page[i] = all[c + i]
  <2>1. CASE c < m
    BY <1>1, <1>2, <2>1
  <2>2. CASE ~(c < m)
    <3>1. page = <<>>
      BY <1>1, <1>2, <2>2
    <3> QED BY <2>2, <3>1
  <2> QED BY <2>1, <2>2
<1> QED BY <1>3 DEF page, m

LEMMA NextIsWhole ==
    ASSUME NEW a \in Nat, NEW b \in Nat \ {0}, a % b = 0
    PROVE  (a + b) % b = 0
<1> DEFINE q == a \div b
           t == (a + b) \div b
           r == (a + b) % b
           k == t - q - 1
<1>1. q \in Int /\ a = b * q + (a % b)
  OBVIOUS
<1>2. t \in Int /\ r \in Int /\ a + b = b * t + r /\ 0 <= r /\ r < b
  OBVIOUS
<1> HIDE DEF q, t, r
<1>3. k \in Int /\ b * t = b * k + b * q + b
  <2>1. t = k + q + 1 /\ k \in Int
    BY <1>1, <1>2
  <2> HIDE DEF k
  <2> QED BY <1>1, <1>2, <2>1
<1>4. r + b * k = 0
  BY <1>1, <1>2, <1>3
<1> HIDE DEF k
<1>5. ~(k >= 1)
  <2>1. ASSUME k >= 1 PROVE FALSE
    <3>1. b * k >= b
      BY <1>3, <2>1
    <3> QED BY <1>2, <1>3, <1>4, <3>1
  <2> QED BY <2>1
<1>6. ~(k <= -1)
  <2>1. ASSUME k <= -1 PROVE FALSE
    <3>1. b * k <= -b
      BY <1>3, <2>1
    <3> QED BY <1>2, <1>3, <1>4, <3>1
  <2> QED BY <2>1
<1>7. k = 0
  BY <1>3, <1>5, <1>6
<1> QED BY <1>2, <1>4, <1>7 DEF r

\* What a page adds: the sessions up to the next cursor.
LEMMA PageAdds ==
    ASSUME Listing!ListingAssumption, FilesInv, NEW cwd, NEW c \in Nat, seen \in Seq(Sessions),
           Len(seen) <= c, c <= Cardinality(Sessions), Cardinality(Sessions) <= Memory
    PROVE  LET all == Listing!Of(cwd)
               g   == seen \o Listing!Page(all, c)
               m   == IF c + LIST_PAGE_SIZE <= Many(cwd) THEN c + LIST_PAGE_SIZE ELSE Many(cwd)
           IN  /\ Len(all) = Many(cwd) /\ Many(cwd) \in Nat /\ Many(cwd) <= Cardinality(Sessions)
               /\ g \in Seq(Sessions) /\ SubSeq(g, 1, Listing!Min({Len(g), Memory})) = g
               /\ c < m => Len(g) <= m
               /\ \A id \in Project(files, cwd) :
                      Place(files, cwd, id) <= m /\ (Place(files, cwd, id) <= c => Shows(seen, id)) => Shows(g, id)
               /\ Len(seen) = c /\ c <= m /\ InOrder(seen, cwd) => Len(g) = m /\ InOrder(g, cwd)
<1> DEFINE P == Project(files, cwd)
           all == Listing!Of(cwd)
           page == Listing!Page(all, c)
           g == seen \o page
           N == Many(cwd)
           m == IF c + LIST_PAGE_SIZE <= N THEN c + LIST_PAGE_SIZE ELSE N
           place == [id \in P |-> Place(files, cwd, id)]
<1>0. LIST_PAGE_SIZE \in Nat \ {0} /\ Memory \in Nat /\ IsFiniteSet(Sessions) /\ Cardinality(Sessions) \in Nat
  BY ListingParts
<1>1. /\ all \in Seq(P) /\ Len(all) = N /\ P \subseteq Sessions
      /\ \A i \in 1 .. N : all[i] \in P /\ Place(files, cwd, all[i]) = i
      /\ \A id \in P : Place(files, cwd, id) \in 1 .. N /\ all[Place(files, cwd, id)] = id
  <2>1. P \subseteq Sessions
    BY DEF FilesInv, Project
  <2> QED BY <1>0, <2>1, Listed DEF Many
<1>2. N \in Nat /\ N <= Cardinality(Sessions)
  BY <1>0, <1>1, FS_Subset, FS_CardinalityType DEF Many
<1> HIDE DEF all, N, P
<1>3. m \in Nat /\ m <= N /\ m <= c + LIST_PAGE_SIZE /\ (m = N \/ m = c + LIST_PAGE_SIZE)
  BY <1>0, <1>2
<1>4. /\ page \in Seq(P) /\ Len(page) = IF c < m THEN m - c ELSE 0
      /\ \A i \in 1 .. Len(page) : page[i] = all[c + i]
  <2>1. LIST_PAGE_SIZE \in Nat
    BY <1>0
  <2> HIDE DEF page
  <2>2. page \in Seq(P)
    BY <1>1, <2>1, PageIs DEF page
  <2>3. Len(page) = IF c < m THEN m - c ELSE 0
    BY <1>1, <2>1, PageIs DEF page
  <2>4. \A i \in 1 .. Len(page) : page[i] = all[c + i]
    BY <1>1, <2>1, PageIs DEF page
  <2> QED BY <2>2, <2>3, <2>4
<1> HIDE DEF page, m
<1>5. page \in Seq(Sessions) /\ Len(page) \in Nat /\ Len(seen) \in Nat
  BY <1>1, <1>4
<1>6. /\ g \in Seq(Sessions) /\ Len(g) = Len(seen) + Len(page)
      /\ \A i \in 1 .. Len(seen) : g[i] = seen[i]
      /\ \A i \in 1 .. Len(page) : g[Len(seen) + i] = page[i]
  BY <1>5
<1> HIDE DEF g
<1>7. Len(g) \in Nat /\ Len(g) <= Cardinality(Sessions) /\ (c < m => Len(g) <= m)
  <2>1. CASE c < m
    <3>1. Len(page) = m - c
      BY <1>4, <2>1
    <3> QED BY <1>0, <1>2, <1>3, <1>5, <1>6, <2>1, <3>1
  <2>2. CASE ~(c < m)
    <3>1. Len(page) = 0
      BY <1>4, <2>2
    <3> QED BY <1>0, <1>5, <1>6, <2>2, <3>1
  <2> QED BY <2>1, <2>2
<1>8. SubSeq(g, 1, Listing!Min({Len(g), Memory})) = g
  <2>1. Listing!Min({Len(g), Memory}) = Len(g)
    BY <1>0, <1>7, MinOfTwo
  <2> QED BY <1>6, <2>1
<1>9. ASSUME NEW id \in P, Place(files, cwd, id) <= m, Place(files, cwd, id) <= c => Shows(seen, id)
      PROVE  Shows(g, id)
  <2> DEFINE k == Place(files, cwd, id)
  <2>1. k \in 1 .. N /\ all[k] = id
    BY <1>1
  <2>2. CASE k <= c
    <3>1. PICK i \in 1 .. Len(seen) : seen[i] = id
      BY <1>9, <2>2 DEF Shows
    <3>2. i \in 1 .. Len(g) /\ g[i] = id
      BY <1>5, <1>6, <3>1
    <3> QED BY <3>2 DEF Shows
  <2>3. CASE ~(k <= c)
    <3> HIDE DEF k
    <3>0. k <= m
      BY <1>9 DEF k
    <3>1. k - c \in 1 .. Len(page) /\ c + (k - c) = k
      BY <1>2, <1>3, <1>4, <2>1, <2>3, <3>0
    <3>2. g[Len(seen) + (k - c)] = id /\ Len(seen) + (k - c) \in 1 .. Len(g)
      BY <1>4, <1>5, <1>6, <2>1, <3>1
    <3> QED BY <3>2 DEF Shows
  <2> QED BY <2>2, <2>3
<1>10. ASSUME Len(seen) = c, c <= m, InOrder(seen, cwd) PROVE Len(g) = m /\ InOrder(g, cwd)
  <2>1. Len(g) = m
    BY <1>3, <1>4, <1>5, <1>6, <1>10
  <2>2. ASSUME NEW i \in 1 .. Len(g) PROVE g[i] \in P /\ Place(files, cwd, g[i]) = i
    <3>1. CASE i <= c
      <4>1. i \in 1 .. Len(seen)
        BY <1>5, <1>10, <3>1
      <4>2. g[i] = seen[i]
        BY <1>6, <4>1
      <4> QED BY <1>10, <4>1, <4>2 DEF InOrder, P
    <3>2. CASE ~(i <= c)
      <4>1. i - c \in 1 .. Len(page) /\ c + (i - c) = i /\ i \in 1 .. N
        BY <1>2, <1>3, <1>4, <1>10, <2>1, <3>2
      <4>2. g[i] = all[i]
        BY <1>4, <1>6, <1>10, <4>1
      <4> QED BY <1>1, <4>1, <4>2
    <3> QED BY <3>1, <3>2
  <2> QED BY <2>1, <2>2 DEF InOrder, P
<1> QED BY <1>1, <1>2, <1>6, <1>7, <1>8, <1>9, <1>10 DEF P, all, page, g, N, m

LEMMA PageStep ==
    ASSUME Listing!ListingAssumption, Explicit, Cardinality(Sessions) <= Memory,
           ListingInv, Listing!handle_list_sessions
    PROVE  ListingInv'
<1> DEFINE c == walk.cursor
<1>0. /\ LIST_PAGE_SIZE \in Nat \ {0} /\ IsFiniteSet(Sessions) /\ Cardinality(Sessions) \in Nat
      /\ walk.pc \in {"idle", "more"} /\ FilesInv /\ WalkTypes
      /\ files' = files /\ now' = now /\ last_cwd' = last_cwd
  BY ListingParts DEF ListingInv, Listing!handle_list_sessions
<1>1. PICK cwd : /\ walk.pc = "more" => cwd = walk.cwd
                 /\ LET all == Listing!Of(cwd)
                    IN  /\ LET g == seen \o Listing!Page(all, c)
                           IN  seen' = SubSeq(g, 1, Listing!Min({Len(g), Memory}))
                        /\ walk' = [pc |-> IF Listing!HasNext(all, c) THEN "more" ELSE "done", cwd |-> cwd,
                                    cursor |-> IF Listing!HasNext(all, c) THEN Listing!NextOffset(c) ELSE 0]
  BY DEF Listing!handle_list_sessions
<1>2. /\ touched' = (IF walk.pc = "idle" THEN {} ELSE touched)
      /\ deleted' = (walk.pc # "idle" /\ deleted)
  BY DEF Listing!handle_list_sessions
<1> DEFINE all == Listing!Of(cwd)
           g == seen \o Listing!Page(all, c)
           N == Many(cwd)
           m == IF c + LIST_PAGE_SIZE <= N THEN c + LIST_PAGE_SIZE ELSE N
           P == Project(files, cwd)
           more == Len(all) > c + LIST_PAGE_SIZE
\* What held before the page.
<1>3. c \in Nat /\ c % LIST_PAGE_SIZE = 0 /\ seen \in Seq(Sessions)
  BY <1>0 DEF WalkTypes
<1>4. Len(seen) <= c /\ c <= Cardinality(Sessions)
  BY <1>0 DEF ListingInv, Walking
<1>5. ASSUME ~deleted', NEW id \in P \ touched', Place(files, cwd, id) <= c PROVE Shows(seen, id)
  <2>1. CASE walk.pc = "idle"
    <3>1. c = 0
      BY <2>1 DEF ListingInv
    <3>2. Place(files, cwd, id) \in Nat \ {0}
      BY <1>0, Listed
    <3> QED BY <1>5, <3>1, <3>2
  <2>2. CASE walk.pc = "more"
    <3>1. ~deleted /\ touched' = touched /\ cwd = walk.cwd
      BY <1>1, <1>2, <1>5, <2>2
    <3>2. Covers(seen, walk.cwd, c)
      BY <2>2, <3>1 DEF ListingInv, Walking
    <3> QED BY <1>5, <3>1, <3>2 DEF Covers
  <2> QED BY <1>0, <2>1, <2>2
<1>6. ASSUME ~deleted', touched' = {} PROVE Len(seen) = c /\ c <= m /\ InOrder(seen, cwd)
  <2>1. N \in Nat
    BY <1>0, Listed, FS_CardinalityType DEF Many
  <2>2. CASE walk.pc = "idle"
    <3>1. c = 0 /\ seen = <<>>
      BY <2>2 DEF ListingInv
    <3>2. Len(seen) = 0
      BY <3>1
    <3> HIDE DEF N
    <3> QED BY <1>0, <2>1, <3>1, <3>2 DEF InOrder
  <2>3. CASE walk.pc = "more"
    <3>1. Calm /\ cwd = walk.cwd
      BY <1>1, <1>2, <1>6, <2>3 DEF Calm
    <3>2. Len(seen) = c /\ InOrder(seen, cwd) /\ c < N
      BY <2>3, <3>1 DEF ListingInv, Walking, Calm
    <3> HIDE DEF N
    <3> QED BY <1>0, <1>3, <2>1, <3>2
  <2> QED BY <1>0, <2>2, <2>3
\* What the page adds.
<1>7. /\ Len(all) = N /\ N \in Nat /\ N <= Cardinality(Sessions)
      /\ g \in Seq(Sessions) /\ SubSeq(g, 1, Listing!Min({Len(g), Memory})) = g
      /\ c < m => Len(g) <= m
      /\ \A id \in P : Place(files, cwd, id) <= m /\ (Place(files, cwd, id) <= c => Shows(seen, id)) => Shows(g, id)
      /\ Len(seen) = c /\ c <= m /\ InOrder(seen, cwd) => Len(g) = m /\ InOrder(g, cwd)
  BY <1>0, <1>3, <1>4, PageAdds
<1> HIDE DEF all, g, N
<1>8. /\ seen' = g
      /\ walk' = [pc |-> IF more THEN "more" ELSE "done", cwd |-> cwd,
                  cursor |-> IF more THEN c + LIST_PAGE_SIZE ELSE 0]
  <2>1. more <=> Listing!HasNext(all, c)
    BY <1>0, <1>3, <1>7 DEF Listing!HasNext
  <2>2. seen' = g
    BY <1>1, <1>7 DEF g, all
  <2>3. walk' = [pc |-> IF Listing!HasNext(all, c) THEN "more" ELSE "done", cwd |-> cwd,
                 cursor |-> IF Listing!HasNext(all, c) THEN Listing!NextOffset(c) ELSE 0]
    BY <1>1 DEF all
  <2> HIDE DEF more
  <2> QED BY <2>1, <2>2, <2>3 DEF Listing!NextOffset
<1>9. /\ walk'.pc = (IF more THEN "more" ELSE "done") /\ walk'.cwd = cwd
      /\ walk'.cursor = IF more THEN c + LIST_PAGE_SIZE ELSE 0
  <2> HIDE DEF more
  <2> QED BY <1>8
<1>10. /\ m \in Nat
       /\ more => m = c + LIST_PAGE_SIZE /\ m < N /\ c < m
       /\ ~more => m = N
  BY <1>0, <1>3, <1>7
<1> HIDE DEF m, more
<1>11. ASSUME ~deleted', NEW id \in P \ touched', Place(files, cwd, id) <= m PROVE Shows(g, id)
  BY <1>5, <1>7, <1>11
<1>12. ASSUME ~deleted', touched' = {} PROVE Len(g) = m /\ InOrder(g, cwd)
  BY <1>6, <1>7, <1>12
<1>13. FilesInv'
  BY <1>0 DEF FilesInv
<1>14. WalkTypes'
  <2>1. walk'.cursor \in Nat /\ walk'.cursor % LIST_PAGE_SIZE = 0
    <3>1. (c + LIST_PAGE_SIZE) % LIST_PAGE_SIZE = 0 /\ 0 % LIST_PAGE_SIZE = 0 /\ c + LIST_PAGE_SIZE \in Nat
      BY <1>0, <1>3, NextIsWhole
    <3> QED BY <1>9, <3>1
  <2>2. touched' \subseteq Sessions /\ deleted' \in BOOLEAN
    BY <1>0, <1>2 DEF WalkTypes
  <2> QED BY <1>7, <1>8, <1>9, <2>1, <2>2 DEF WalkTypes
<1>15. ASSUME more PROVE Walking'
  <2>1. walk'.cursor = m /\ m <= Cardinality(Sessions) /\ Len(g) <= m
    BY <1>0, <1>7, <1>9, <1>10, <1>15
  <2>2. ~deleted' => walk'.cursor < Many(walk.cwd)' /\ Covers(seen, walk.cwd, walk.cursor)'
    BY <1>0, <1>8, <1>9, <1>10, <1>11, <1>15, <2>1 DEF Covers, Many, N, P
  <2>3. Calm' => Len(g) = m /\ InOrder(seen, walk.cwd)'
    BY <1>0, <1>8, <1>9, <1>12 DEF Calm, InOrder
  <2> QED BY <1>0, <1>8, <2>1, <2>2, <2>3 DEF Walking
<1>16. ASSUME ~more PROVE Walked'
  <2>1. Many(walk.cwd)' = N /\ m = N
    BY <1>0, <1>9, <1>10, <1>16 DEF Many, N
  <2>2. ~deleted' => Covers(seen, walk.cwd, Many(walk.cwd))'
    BY <1>0, <1>8, <1>9, <1>11, <2>1 DEF Covers, P
  <2>3. Calm' => Len(g) = N /\ InOrder(seen, walk.cwd)'
    BY <1>0, <1>8, <1>9, <1>12, <2>1 DEF Calm, InOrder
  <2> QED BY <1>8, <2>1, <2>2, <2>3 DEF Walked
<1>17. (more => Walked') /\ (~more => Walking') /\ walk'.pc # "idle"
  BY <1>9 DEF Walked, Walking
<1> QED BY <1>13, <1>14, <1>15, <1>16, <1>17 DEF ListingInv

\* A session is written to or created: the others only move towards the end.
LEMMA OthersMoveBack ==
    ASSUME Listing!ListingAssumption, ListingInv, FilesInv', NEW x \in Sessions,
           touched' = touched \cup {x}, walk' = walk, seen' = seen, deleted' = deleted,
           DOMAIN files' = DOMAIN files \cup {x},
           \A id \in DOMAIN files : files'[id].cwd = files[id].cwd,
           \A id \in DOMAIN files \ {x} : files'[id].lines = files[id].lines,
           x \in DOMAIN files => Stamp(files[x].lines) <= Stamp(files'[x].lines)
    PROVE  ListingInv'
<1>0. /\ IsFiniteSet(Sessions) /\ DOMAIN files' \subseteq Sessions /\ DOMAIN files \subseteq Sessions
      /\ FilesInv
  BY ListingParts DEF ListingInv, FilesInv
<1>1. \A id \in DOMAIN files' : Stamp(files'[id].lines) \in Nat
  <2>1. \A id \in DOMAIN files' : Dated(files'[id].lines, now') /\ now' \in Nat
    BY DEF FilesInv
  <2> QED BY <2>1, LastMessageIs
<1>2. \A id \in DOMAIN files : Stamp(files[id].lines) \in Nat
  BY <1>0, Picked
<1>3. \A id \in DOMAIN files : /\ Stamp(files[id].lines) <= Stamp(files'[id].lines)
                             /\ id # x => Stamp(files'[id].lines) = Stamp(files[id].lines)
  BY <1>1, <1>2
<1>4. ASSUME NEW cwd
      PROVE  /\ Many(cwd) \in Nat /\ Many(cwd)' \in Nat /\ Many(cwd) <= Many(cwd)'
             /\ \A id \in Project(files', cwd) \ touched' :
                    /\ id \in Project(files, cwd) \ touched /\ Place(files, cwd, id) <= Many(cwd)
                    /\ Place(files, cwd, id) \in Nat /\ Place(files', cwd, id) \in Nat
                    /\ Place(files, cwd, id) <= Place(files', cwd, id)
  <2> DEFINE P == Project(files, cwd)
             Q == Project(files', cwd)
  <2>1. P \subseteq Q /\ Q \subseteq Sessions
    BY <1>0 DEF Project
  <2>2. IsFiniteSet(Q) /\ IsFiniteSet(P)
    <3> HIDE DEF P, Q
    <3> QED BY <1>0, <2>1, FS_Subset
  <2>3. Cardinality(P) \in Nat /\ Cardinality(Q) \in Nat /\ Cardinality(P) <= Cardinality(Q)
    <3> HIDE DEF P, Q
    <3> QED BY <2>1, <2>2, FS_Subset, FS_CardinalityType
  <2>4. ASSUME NEW id \in Q \ touched'
        PROVE  /\ id \in P \ touched /\ Place(files, cwd, id) <= Many(cwd)
               /\ Place(files, cwd, id) \in Nat /\ Place(files', cwd, id) \in Nat
               /\ Place(files, cwd, id) <= Place(files', cwd, id)
    <3>1. id \in P /\ id \notin touched /\ id # x /\ id \in DOMAIN files
      BY DEF Project
    <3> DEFINE A == {k \in P : Stamp(files[id].lines) <= Stamp(files[k].lines)}
               B == {k \in Q : Stamp(files'[id].lines) <= Stamp(files'[k].lines)}
    <3>2. A \subseteq B
      <4> SUFFICES ASSUME NEW k \in A PROVE k \in B
        OBVIOUS
      <4>1. /\ k \in Q /\ k \in DOMAIN files /\ k \in DOMAIN files'
            /\ Stamp(files[id].lines) <= Stamp(files[k].lines)
        BY <2>1 DEF Project
      <4>2. Stamp(files'[id].lines) <= Stamp(files'[k].lines)
        BY <1>1, <1>2, <1>3, <3>1, <4>1
      <4> QED BY <4>1, <4>2
    <3>3. A \subseteq P /\ B \subseteq Q
      OBVIOUS
    <3> HIDE DEF P, Q, A, B
    <3>4. IsFiniteSet(A) /\ IsFiniteSet(B)
      BY <2>2, <3>3, FS_Subset
    <3>5. Cardinality(A) \in Nat /\ Cardinality(B) \in Nat
      BY <3>4, FS_CardinalityType
    <3>6. Cardinality(A) <= Cardinality(B) /\ Cardinality(A) <= Cardinality(P)
      BY <2>2, <3>2, <3>3, <3>4, FS_Subset
    <3>7. Place(files, cwd, id) = Cardinality(A) /\ Place(files', cwd, id) = Cardinality(B)
      BY DEF Place, A, B, P, Q
    <3> QED BY <3>1, <3>5, <3>6, <3>7 DEF Many, P
  <2> QED BY <2>3, <2>4 DEF Many
<1>5. ~Calm'
  BY DEF Calm
<1>6. WalkTypes'
  BY DEF ListingInv, WalkTypes
<1>7. walk'.pc = "idle" => seen' = <<>> /\ walk'.cursor = 0
  BY DEF ListingInv
<1>8. Walking'
  <2> SUFFICES ASSUME walk.pc = "more"
               PROVE  /\ walk.cursor <= Cardinality(Sessions) /\ Len(seen) <= walk.cursor
                      /\ ~deleted => walk.cursor < Many(walk.cwd)' /\ Covers(seen, walk.cwd, walk.cursor)'
    BY <1>5 DEF Walking
  <2>1. walk.cursor <= Cardinality(Sessions) /\ Len(seen) <= walk.cursor /\ walk.cursor \in Nat
    BY DEF ListingInv, Walking, WalkTypes
  <2>2. ~deleted => walk.cursor < Many(walk.cwd) /\ Covers(seen, walk.cwd, walk.cursor)
    BY DEF ListingInv, Walking
  <2>3. ASSUME ~deleted PROVE walk.cursor < Many(walk.cwd)'
    <3>1. Many(walk.cwd) \in Nat /\ Cardinality(Project(files', walk.cwd)) \in Nat
          /\ Many(walk.cwd) <= Cardinality(Project(files', walk.cwd))
      BY <1>4 DEF Many
    <3> QED BY <2>1, <2>2, <2>3, <3>1 DEF Many
  <2>4. ASSUME ~deleted, NEW id \in Project(files', walk.cwd) \ touched', Place(files', walk.cwd, id) <= walk.cursor
        PROVE  Shows(seen, id)
    <3>1. /\ id \in Project(files, walk.cwd) \ touched
          /\ Place(files, walk.cwd, id) \in Nat /\ Place(files', walk.cwd, id) \in Nat
          /\ Place(files, walk.cwd, id) <= Place(files', walk.cwd, id)
      BY <1>4
    <3>2. Place(files, walk.cwd, id) <= walk.cursor
      BY <2>1, <2>4, <3>1
    <3> QED BY <2>2, <2>4, <3>1, <3>2 DEF Covers
  <2> QED BY <2>1, <2>3, <2>4 DEF Covers
<1>9. Walked'
  <2> SUFFICES ASSUME walk.pc = "done", ~deleted,
                      NEW id \in Project(files', walk.cwd) \ touched'
               PROVE  Shows(seen, id)
    BY <1>5 DEF Walked, Covers
  <2>1. id \in Project(files, walk.cwd) \ touched /\ Place(files, walk.cwd, id) <= Many(walk.cwd)
    BY <1>4
  <2> QED BY <2>1 DEF ListingInv, Walked, Covers
<1> QED BY <1>6, <1>7, <1>8, <1>9 DEF ListingInv

LEMMA StampOfOne ==
    ASSUME NEW time \in Nat, NEW l \in FileLines, l.zone, l.at \in 1 .. time, l.kind = "message"
    PROVE  Dated(<<l>>, time) /\ Stamp(<<l>>) = l.at
<1> DEFINE ls == <<l>>
<1>1. ls \in Seq(FileLines) /\ Len(ls) = 1 /\ ls[1] = l
  OBVIOUS
<1> HIDE DEF ls
<1>2. 1 \in MessagesOf(ls) /\ \A i \in 1 .. Len(ls) : i = 1
  BY <1>1 DEF MessagesOf
<1>3. Dated(ls, time)
  BY <1>1, <1>2 DEF Dated
<1>4. LastMessage(ls) = 1
  BY <1>2, <1>3, LastMessageIs
<1> QED BY <1>1, <1>3, <1>4 DEF Stamp, ls

LEMMA DatedLonger ==
    ASSUME NEW time \in Nat, NEW ls, Dated(ls, time)
    PROVE  Dated(ls, time + 1)
BY DEF Dated

\* One file's lines are written at the next time, the other files stay.
LEMMA FilesWritten ==
    ASSUME FilesInv, NEW x \in Sessions, now' = now + 1, DOMAIN files' = DOMAIN files \cup {x},
           \A id \in DOMAIN files \ {x} : files'[id] = files[id],
           files'[x].cwd \in Cwds, files'[x].mtime = now + 1, Dated(files'[x].lines, now + 1),
           \/ Stamp(files'[x].lines) = now + 1
           \/ x \in DOMAIN files /\ Stamp(files'[x].lines) = Stamp(files[x].lines)
    PROVE  FilesInv'
<1>1. /\ now \in Nat /\ now + 1 \in Nat /\ DOMAIN files' \subseteq Sessions
      /\ \A id \in DOMAIN files : Stamp(files[id].lines) \in 1 .. now
  BY Picked DEF FilesInv
<1>2. ASSUME NEW id \in DOMAIN files'
      PROVE  /\ files'[id].cwd \in Cwds
             /\ files'[id].mtime \in Nat /\ files'[id].mtime <= now + 1
             /\ Dated(files'[id].lines, now + 1)
  <2>1. CASE id = x
    BY <1>1, <2>1
  <2>2. CASE id # x
    <3>1. id \in DOMAIN files /\ files'[id] = files[id]
      BY <2>2
    <3>2. /\ files[id].cwd \in Cwds /\ files[id].mtime \in Nat /\ files[id].mtime <= now
          /\ Dated(files[id].lines, now)
      BY <3>1 DEF FilesInv
    <3> QED BY <1>1, <3>1, <3>2, DatedLonger
  <2> QED BY <2>1, <2>2
<1>3. ASSUME NEW j \in DOMAIN files', NEW k \in DOMAIN files', Stamp(files'[j].lines) = Stamp(files'[k].lines)
      PROVE  j = k
  <2>1. ASSUME NEW i \in DOMAIN files \ {x} PROVE Stamp(files'[i].lines) # Stamp(files'[x].lines)
    <3>1. Stamp(files'[i].lines) = Stamp(files[i].lines) /\ Stamp(files[i].lines) # now + 1
      BY <1>1
    <3> QED BY <3>1 DEF FilesInv
  <2>2. CASE j # x /\ k # x
    <3>1. j \in DOMAIN files /\ k \in DOMAIN files /\ Stamp(files[j].lines) = Stamp(files[k].lines)
      BY <1>3, <2>2
    <3> QED BY <3>1 DEF FilesInv
  <2> QED BY <1>3, <2>1, <2>2
<1> QED BY <1>1, <1>2, <1>3 DEF FilesInv

LEMMA WriteStep ==
    ASSUME Listing!ListingAssumption, ~Naive, ListingInv, NEW x \in DOMAIN files, Listing!PiWrites(x)
    PROVE  ListingInv'
<1>1. /\ now' = now + 1 /\ touched' = touched \cup {x} /\ walk' = walk /\ seen' = seen /\ deleted' = deleted
      /\ now \in Nat /\ x \in Sessions /\ Dated(files[x].lines, now) /\ files[x].cwd \in Cwds
  BY DEF Listing!PiWrites, ListingInv, FilesInv
<1>2. PICK kind \in {"message", "other"} :
          files' = [files EXCEPT ![x] = [cwd |-> files[x].cwd, mtime |-> now + 1,
                                         lines |-> Append(files[x].lines, Listing!Line(kind, TRUE))]]
  BY DEF Listing!PiWrites
<1> DEFINE l == Listing!Line(kind, TRUE)
           ls == Append(files[x].lines, l)
<1>3. l \in FileLines /\ l.zone /\ l.at = now + 1
  BY <1>1 DEF Listing!Line, FileLines
<1> HIDE DEF l
<1>4. /\ Dated(ls, now + 1)
      /\ Stamp(ls) = now + 1 \/ Stamp(ls) = Stamp(files[x].lines)
  BY <1>1, <1>3, StampOfMore
<1> HIDE DEF ls
<1>5. /\ DOMAIN files' = DOMAIN files \cup {x} /\ \A id \in DOMAIN files \ {x} : files'[id] = files[id]
      /\ files'[x].cwd = files[x].cwd /\ files'[x].mtime = now + 1 /\ files'[x].lines = ls
  BY <1>2 DEF ls, l
<1>6. FilesInv'
  BY <1>1, <1>4, <1>5, FilesWritten DEF ListingInv
<1>7. Stamp(files[x].lines) <= Stamp(files'[x].lines)
  <2>1. Stamp(files[x].lines) \in 1 .. now
    BY Picked DEF ListingInv
  <2> QED BY <1>1, <1>4, <1>5, <2>1
<1>8. /\ \A id \in DOMAIN files : files'[id].cwd = files[id].cwd
      /\ \A id \in DOMAIN files \ {x} : files'[id].lines = files[id].lines
  BY <1>5
<1> QED BY <1>1, <1>5, <1>6, <1>7, <1>8, OthersMoveBack

LEMMA NewStep ==
    ASSUME Listing!ListingAssumption, ListingInv, NEW x \in Sessions, Listing!NewSession(x)
    PROVE  ListingInv'
<1>1. /\ now' = now + 1 /\ touched' = touched \cup {x} /\ walk' = walk /\ seen' = seen /\ deleted' = deleted
      /\ now \in Nat /\ x \notin DOMAIN files
  BY DEF Listing!NewSession, Listing!Existing, ListingInv, FilesInv
<1> DEFINE l == Listing!Line("message", TRUE)
<1>2. PICK cwd \in Cwds :
          files' = [k \in DOMAIN files \cup {x} |->
                       IF k = x THEN [cwd |-> cwd, mtime |-> now + 1, lines |-> <<l>>] ELSE files[k]]
  BY DEF Listing!NewSession, Listing!Existing
<1>3. l \in FileLines /\ l.zone /\ l.at = now + 1 /\ l.kind = "message" /\ l.at \in 1 .. now + 1
  BY <1>1 DEF Listing!Line, FileLines
<1> HIDE DEF l
<1>4. Dated(<<l>>, now + 1) /\ Stamp(<<l>>) = now + 1
  BY <1>1, <1>3, StampOfOne
<1>5. /\ DOMAIN files' = DOMAIN files \cup {x} /\ \A id \in DOMAIN files \ {x} : files'[id] = files[id]
      /\ files'[x].cwd = cwd /\ files'[x].mtime = now + 1 /\ files'[x].lines = <<l>>
  BY <1>2
<1>6. FilesInv'
  BY <1>1, <1>4, <1>5, FilesWritten DEF ListingInv
<1>7. /\ \A id \in DOMAIN files : files'[id].cwd = files[id].cwd
      /\ \A id \in DOMAIN files \ {x} : files'[id].lines = files[id].lines
  BY <1>1, <1>5
<1> QED BY <1>1, <1>5, <1>6, <1>7, OthersMoveBack

LEMMA DeleteStep ==
    ASSUME ListingInv, NEW x, Listing!DeleteSession(x)
    PROVE  ListingInv'
<1>1. /\ files' = [k \in DOMAIN files \ {x} |-> files[k]] /\ deleted' = TRUE
      /\ now' = now /\ walk' = walk /\ seen' = seen /\ touched' = touched
  BY DEF Listing!DeleteSession, Listing!Existing
<1>2. DOMAIN files' = DOMAIN files \ {x} /\ \A id \in DOMAIN files' : files'[id] = files[id] /\ id \in DOMAIN files
  BY <1>1
<1>3. FilesInv'
  BY <1>1, <1>2 DEF ListingInv, FilesInv
<1>4. WalkTypes' /\ ~Calm'
  BY <1>1 DEF ListingInv, WalkTypes, Calm
<1>5. Walking' /\ Walked'
  BY <1>1, <1>4 DEF ListingInv, Walking, Walked
<1> QED BY <1>1, <1>3, <1>4, <1>5 DEF ListingInv

LEMMA ListingStep ==
    ASSUME Listing!ListingAssumption, Explicit, ~Naive, Cardinality(Sessions) <= Memory,
           ListingInv, [Listing!Next]_(Listing!vars)
    PROVE  ListingInv'
<1>1. CASE UNCHANGED Listing!vars
  <2>1. files' = files /\ now' = now /\ walk' = walk /\ seen' = seen /\ touched' = touched /\ deleted' = deleted
    BY <1>1 DEF Listing!vars
  <2>2. FilesInv' /\ WalkTypes'
    BY <2>1 DEF ListingInv, FilesInv, WalkTypes
  <2>3. Walking' /\ Walked'
    BY <2>1 DEF ListingInv, Walking, Walked, Covers, InOrder, Calm, Many
  <2> QED BY <2>1, <2>2, <2>3 DEF ListingInv
<1>2. CASE Listing!handle_list_sessions
  BY <1>2, PageStep
<1>3. ASSUME NEW x \in Sessions, Listing!NewSession(x) PROVE ListingInv'
  BY <1>3, NewStep
<1>4. ASSUME NEW x \in DOMAIN files, Listing!PiWrites(x) PROVE ListingInv'
  BY <1>4, WriteStep
<1>5. ASSUME NEW x \in DOMAIN files, Listing!DeleteSession(x) PROVE ListingInv'
  BY <1>5, DeleteStep
<1> QED BY <1>1, <1>2, <1>3, <1>4, <1>5 DEF Listing!Next, Listing!Existing

LEMMA ListingStart ==
    ASSUME Listing!ListingAssumption, Listing!Init
    PROVE  ListingInv
<1> DEFINE n == Cardinality(Sessions)
           l(t) == [kind |-> "message", at |-> t, zone |-> TRUE]
<1>1. n \in Nat /\ Listing!Cardinality(Sessions) = n
  BY ListingParts, ListingNth
<1>2. now = n /\ seen = <<>> /\ touched = {} /\ deleted = FALSE /\ walk.pc = "idle" /\ walk.cursor = 0
  BY <1>1 DEF Listing!Init
<1>3. PICK cwds \in [Sessions -> Cwds], there \in SUBSET Sessions,
           at \in [Sessions -> 1 .. Listing!Cardinality(Sessions)] :
          /\ \A j, k \in Sessions : at[j] = at[k] => j = k
          /\ files = [x \in there |-> [cwd |-> cwds[x], mtime |-> at[x], lines |-> <<l(at[x])>>]]
  BY Zenon DEF Listing!Init
<1>4. at \in [Sessions -> 1 .. n]
  BY <1>1, <1>3
<1>5. ASSUME NEW x \in there
      PROVE  /\ files[x].cwd \in Cwds /\ files[x].mtime \in Nat /\ files[x].mtime <= n
             /\ Dated(files[x].lines, n) /\ Stamp(files[x].lines) = at[x]
  <2> DEFINE k == l(at[x])
  <2>1. at[x] \in 1 .. n /\ k \in FileLines /\ k.zone /\ k.at = at[x] /\ k.kind = "message"
    BY <1>1, <1>4 DEF FileLines
  <2> HIDE DEF k
  <2>2. Dated(<<k>>, n) /\ Stamp(<<k>>) = at[x]
    BY <1>1, <2>1, StampOfOne
  <2>3. files[x].cwd = cwds[x] /\ files[x].mtime = at[x] /\ files[x].lines = <<k>>
    BY <1>3 DEF k
  <2> QED BY <1>1, <1>3, <1>4, <2>1, <2>2, <2>3
<1> HIDE DEF n, l
<1>6. DOMAIN files = there /\ there \subseteq Sessions
  BY <1>3
<1>7. FilesInv
  BY <1>1, <1>2, <1>3, <1>5, <1>6, <1>4 DEF FilesInv
<1>8. WalkTypes
  <2>1. 0 % LIST_PAGE_SIZE = 0
    BY ListingParts
  <2>2. walk.cursor % LIST_PAGE_SIZE = 0 /\ walk.cursor \in Nat /\ walk.pc \in {"idle", "more", "done"}
    BY <1>2, <2>1
  <2>3. seen \in Seq(Sessions) /\ touched \subseteq Sessions
    BY <1>2
  <2>4. deleted \in BOOLEAN
    BY Zenon, <1>2
  <2> QED BY <2>2, <2>3, <2>4 DEF WalkTypes
<1> QED BY <1>2, <1>7, <1>8 DEF ListingInv, Walking, Walked

LEMMA SameElements ==
    ASSUME NEW S, NEW s \in Seq(S), NEW T, NEW t \in Seq(T), Len(s) = Len(t), \A i \in 1 .. Len(s) : s[i] = t[i]
    PROVE  s = t
OBVIOUS

LEMMA ListingFollows ==
    ASSUME Listing!ListingAssumption, ListingInv
    PROVE  Listing!ListingIsFaithful
<1> DEFINE P == Project(files, walk.cwd)
           all == Listing!Of(walk.cwd)
<1>0. /\ LIST_PAGE_SIZE \in Nat \ {0} /\ IsFiniteSet(Sessions) /\ FilesInv /\ WalkTypes
      /\ Listing!Existing = DOMAIN files /\ DOMAIN files \subseteq Sessions
  BY ListingParts DEF ListingInv, FilesInv, Listing!Existing
<1>1. /\ all \in Seq(P) /\ Len(all) = Many(walk.cwd)
      /\ \A id_ \in P : Place(files, walk.cwd, id_) \in 1 .. Len(all) /\ all[Place(files, walk.cwd, id_)] = id_
  <2>1. all \in Seq(P) /\ Len(all) = Cardinality(P)
    BY <1>0, Listed
  <2>2. \A id_ \in P : Place(files, walk.cwd, id_) \in 1 .. Len(all) /\ all[Place(files, walk.cwd, id_)] = id_
    BY <1>0, Listed
  <2> QED BY <2>1, <2>2 DEF Many
<1>2. seen \in Seq(Sessions) /\ Listing!Range(seen) = {seen[i] : i \in 1 .. Len(seen)}
  BY <1>0 DEF WalkTypes, Listing!Range
<1> HIDE DEF all
<1>3. Listing!TypeOK
  <2>1. Listing!Range(seen) \subseteq Sessions
    BY <1>2
  <2>2. \A x \in DOMAIN files : files[x].cwd \in Cwds /\ files[x].mtime <= now
    BY <1>0 DEF FilesInv
  <2> QED BY <1>0, <2>1, <2>2 DEF Listing!TypeOK, WalkTypes
<1>4. Listing!PagesAreTheList
  <2> SUFFICES ASSUME walk.pc = "done", touched = {}, ~deleted PROVE seen = all
    BY DEF Listing!PagesAreTheList, Listing!Done, Listing!Quiet, all
  <2>1. Len(seen) = Many(walk.cwd) /\ InOrder(seen, walk.cwd)
    BY DEF ListingInv, Walked, Calm
  <2>2. \A i \in 1 .. Len(seen) : seen[i] = all[i]
    BY <1>1, <2>1 DEF InOrder, P
  <2> HIDE DEF P
  <2> QED BY <1>1, <1>2, <2>1, <2>2, SameElements
<1>5. Listing!UntouchedAreListed
  <2> SUFFICES ASSUME walk.pc = "done", ~deleted, NEW x \in DOMAIN files \ touched, files[x].cwd = walk.cwd
               PROVE  x \in Listing!Range(seen)
    BY <1>0 DEF Listing!UntouchedAreListed, Listing!Done
  <2>1. x \in P \ touched
    BY DEF Project
  <2>2. Place(files, walk.cwd, x) <= Many(walk.cwd)
    BY <1>1, <2>1
  <2>3. Shows(seen, x)
    BY <2>1, <2>2 DEF ListingInv, Walked, Covers
  <2> QED BY <1>2, <2>3 DEF Shows
<1>6. Listing!NoEmptyPage
  <2> SUFFICES ASSUME walk.pc = "more", ~deleted PROVE Listing!Page(all, walk.cursor) # <<>>
    BY DEF Listing!NoEmptyPage, all
  <2>1. walk.cursor \in Nat /\ walk.cursor < Len(all) /\ Len(all) \in Nat /\ LIST_PAGE_SIZE \in Nat
    BY <1>0, <1>1 DEF ListingInv, Walking, WalkTypes
  <2> HIDE DEF P
  <2> DEFINE m == IF walk.cursor + LIST_PAGE_SIZE <= Len(all) THEN walk.cursor + LIST_PAGE_SIZE ELSE Len(all)
             q == Listing!Page(all, walk.cursor)
  <2>2. q \in Seq(P) /\ Len(q) = IF walk.cursor < m THEN m - walk.cursor ELSE 0
    BY <1>1, <2>1, PageIs
  <2>3. walk.cursor < m /\ m \in Nat
    BY <1>0, <2>1
  <2> HIDE DEF m, q
  <2>4. Len(q) > 0
    BY <2>1, <2>2, <2>3
  <2> QED BY <2>2, <2>4 DEF q
<1>7. Listing!MostRecentFirst
  <2> DEFINE list_ == Listing!list_pi_sessions_from
  <2>1. list_ \in Seq(DOMAIN files)
        /\ \A i, j \in 1 .. Len(list_) : i < j => Stamp(files[list_[j]].lines) < Stamp(files[list_[i]].lines)
    BY <1>0, AllListed
  <2>2. \A x \in DOMAIN files : /\ Listing!LastOf(files[x].lines, Listing!Messages(files[x].lines)) = Stamp(files[x].lines)
                              /\ Stamp(files[x].lines) \in Nat
    BY <1>0, Picked
  <2> HIDE DEF list_
  <2>3. ASSUME NEW i \in DOMAIN list_, NEW j \in 1 .. i - 1
        PROVE  Listing!LastOf(files[list_[j]].lines, Listing!Messages(files[list_[j]].lines))
                 > Listing!LastOf(files[list_[i]].lines, Listing!Messages(files[list_[i]].lines))
    <3>1. i \in 1 .. Len(list_) /\ j \in 1 .. Len(list_) /\ j < i
          /\ list_[i] \in DOMAIN files /\ list_[j] \in DOMAIN files
      BY <2>1
    <3>2. Stamp(files[list_[i]].lines) < Stamp(files[list_[j]].lines)
      BY <2>1, <3>1
    <3> QED BY <2>2, <3>1, <3>2
  <2> QED BY <2>3 DEF Listing!MostRecentFirst, list_
<1> QED BY <1>3, <1>4, <1>5, <1>6, <1>7 DEF Listing!ListingIsFaithful

\* The pages of session/list are the list, whole and newest first, though sessions are written and
\* created meanwhile: when the client names the project with every page, pi writes its timestamps
\* with a zone, and the client remembers as many sessions as there are.
THEOREM ListingHolds ==
    ASSUME Explicit, ~Naive, Cardinality(Sessions) <= Memory
    PROVE  RequestsSpec => []ListingIsFaithful
<1>0. Listing!ListingAssumption
  BY RequestsAssumption
<1>1. RequestsInit => ListingInv
  BY <1>0, ListingStart DEF RequestsInit
<1>2. ListingInv /\ [RequestsNext]_requestVars => ListingInv'
  <2> SUFFICES ASSUME ListingInv, [RequestsNext]_requestVars PROVE ListingInv'
    OBVIOUS
  <2>1. [Listing!Next]_(Listing!vars)
    BY DEF RequestsNext, requestVars, listingVars, Listing!vars
  <2> QED BY <1>0, <2>1, ListingStep
<1>3. ListingInv => ListingIsFaithful
  BY <1>0, ListingFollows DEF ListingIsFaithful
<1> QED BY <1>1, <1>2, <1>3, PTL DEF RequestsSpec
=============================================================================
