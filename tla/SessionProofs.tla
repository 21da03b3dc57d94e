--------------------------- MODULE SessionProofs ---------------------------
(***************************************************************************)
(* Proofs about the parts of a session, for any calls, tools, outputs,     *)
(* requests, titles, histories, texts, patterns and bounds: MapsAgree,     *)
(* ClientsSeeTheCall, TerminalIsOutput, DialogsAreHonest, TitleAgrees,     *)
(* TranscriptIsHistory, TextIsMeant and PatternMeansIt are invariants.     *)
(*                                                                         *)
(* The tool calls' invariant is a conjunction over the calls (CallInv), as *)
(* the pump handles one event of one call at a time.  Of each call it says *)
(*   InOrder, Waiting  in which order the call's events wait, and that     *)
(*                     what the pump has not heard of is on its way: the   *)
(*                     end comes last, what runs was started;              *)
(*   Seen              what the seven maps and a v2 client have of it;     *)
(*   Printed           that the terminal, the snapshots and the deltas on  *)
(*                     their way make up what the command printed.         *)
(* A v1 client is related to v2's by Alike, so that the rest is about one  *)
(* view.  A step of the pump or of pi is shown to keep what holds of the   *)
(* call it is about, and to leave the others alone.                        *)
(*                                                                         *)
(* The dialogs' invariant (DialogInv) follows a request from pi's question *)
(* to pi's answer: it is asked, offered, and answered once (AskedOnce,     *)
(* OfferedOnce, AnswersOfTasks), what its task made of the client's answer *)
(* is an answer to it (TasksAreHonest), and its notice precedes the texts  *)
(* that pi sent after it was told (Noticing).  The title's (TitleInv) says *)
(* where the last name is (NameArrives), and that a prompt is not lost     *)
(* (PromptIsKept).                                                         *)
(*                                                                         *)
(* The history's (HistoryInv) is of what the client was told (TellsAll),   *)
(* and of the ids of its entries: those that are minted next are on none   *)
(* (IdsAreAhead).  That a replay tells the whole history is shown by       *)
(* induction over what was replayed so far (ReplayOf).                     *)
(*                                                                         *)
(* The text's (LineInv) is that the parser stands where the user is, the   *)
(* patterns' (GlobInv) that the pieces stand one behind the other in what  *)
(* is written; that the matcher's table then says how an id can be cut is  *)
(* by induction from the pattern's end (GlobIsMeant).                      *)
(***************************************************************************)
EXTENDS Session, SubsequenceProofs

Types == {"surface", "start", "update", "end", "delta"}
EventRec == [type : Types \cup {"settled"}, id : Ids \cup {NoId}, named : BOOLEAN,
             text : Seq(Chars), err : BOOLEAN]
PiRec == [streamed : {"no", "name", "all"}, exe : {"no", "running", "ended"}, out : Seq(Chars),
          before : Nat, after : Nat, wrote : BOOLEAN, err : BOOLEAN, lost : BOOLEAN]
MapRec == [current : [Ids -> {Absent, "pending", "in_progress"}], executing : SUBSET Ids,
           mutation : SUBSET Ids, old : [Ids -> {Absent} \cup 0 .. MaxWrites],
           bash : SUBSET Ids, output : [Ids -> {Absent} \cup Seq(Chars)],
           command : [Ids -> {Absent, "name", "command"}]]
Titles == {Absent, "name", "command"}
Kinds == {"other", "execute", "edit", "read"}
Statuses == {"pending", "in_progress", "completed", "failed"}
Contents == {Absent, "terminal"} \cup [text : Seq(Chars)] \cup [old : Nat, new : Nat]
CallRec == [title : Titles, kind : Kinds, status : Statuses \cup {Absent}, content : Contents,
            term : Seq(Chars), exit : {Absent, 0, 1}]
FrameRec == [id : Ids, first : BOOLEAN, title : Titles, kind : Kinds \cup {Absent},
             status : Statuses, content : Contents, delta : Seq(Chars), exit : {Absent, 0, 1}]

QueueTypes ==
    /\ way \in Ways
    /\ events \in Seq(EventRec) /\ Len(events) <= MaxEvents
    /\ \A i \in 1 .. Len(events) :
          /\ events[i].id = NoId <=> events[i].type = "settled"
          /\ events[i].type = "surface" => Calls(events[i].id)
    /\ pi \in [Ids -> PiRec] /\ \A id \in Ids : pi[id].lost => pi[id].exe = "ended"
    /\ file \in 0 .. MaxWrites
    /\ turn \in {"none", "waiting", "going"}
ViewTypes == view \in [v1 : [Ids -> CallRec], v2 : [Ids -> CallRec]]

\* A client sees a call alike in both protocols, but for v1's terminal.
Alike(bash, v1, v2) ==
    /\ v1.title = v2.title /\ v1.kind = v2.kind /\ v1.status = v2.status
    /\ v1.term = v2.term /\ v1.exit = v2.exit /\ (bash \/ v1.content = v2.content)
    /\ v2.status = Absent => v1 = NoCall /\ v2 = NoCall

\* No word the pump or a frame uses stands for no value.
LEMMA Words ==
    /\ Absent \notin {"name", "command", "pending", "in_progress", "completed", "failed",
                      "other", "execute", "edit", "read", "terminal"}
    /\ Absent \notin {0, 1}
BY ToolAssumption

\* Every frame has a status.
LEMMA Frames ==
    \A f \in FrameRec : f.status # Absent
BY Words DEF FrameRec, Statuses

\* What a frame makes of the two views of its call.
LEMMA Patching ==
    ASSUME NEW call \in CallRec, NEW f \in FrameRec,
           NEW meta \in [delta : Seq(Chars), exit : {Absent, 0, 1}]
    PROVE  /\ Patched(call, f, meta) \in CallRec
           /\ Patched(call, f, meta).title = Or(f.title, call.title)
           /\ Patched(call, f, meta).kind = Or(f.kind, call.kind)
           /\ Patched(call, f, meta).status = f.status
           /\ Patched(call, f, meta).content = Or(f.content, call.content)
           /\ Patched(call, f, meta).term = call.term \o meta.delta
           /\ Patched(call, f, meta).exit = Or(meta.exit, call.exit)
<1>1. f.status # Absent /\ Or(f.status, call.status) = f.status
  BY Frames DEF Or
<1>2. /\ Or(f.title, call.title) \in Titles /\ Or(f.kind, call.kind) \in Kinds
      /\ Or(f.content, call.content) \in Contents /\ Or(meta.exit, call.exit) \in {Absent, 0, 1}
  BY DEF FrameRec, CallRec, Or
<1>3. call.term \o meta.delta \in Seq(Chars) /\ f.status \in Statuses
  BY DEF CallRec, FrameRec
<1> QED BY <1>1, <1>2, <1>3 DEF Patched, CallRec

\* The facts a frame has when it is the first of its call.
Opening(f) == f.first => /\ f.status \in {"pending", "in_progress"}
                         /\ f.delta = <<>> /\ f.exit = Absent

\* The terminal's part of a frame.
LEMMA Metas ==
    ASSUME NEW f \in FrameRec
    PROVE  /\ terminal_meta(f) \in [delta : Seq(Chars), exit : {Absent, 0, 1}]
           /\ terminal_meta(f).delta = f.delta
           /\ terminal_meta(f).exit =
                 IF f.status \in {"completed", "failed"} THEN f.exit ELSE Absent
BY DEF terminal_meta, FrameRec

\* Nothing changes a text that nothing is put to.
LEMMA ConcatEmpty ==
    ASSUME NEW s \in Seq(Chars)
    PROVE  s \o <<>> = s /\ <<>> \o s = s
OBVIOUS

\* v1's opening frame has all the call has.
LEMMA Opens ==
    ASSUME NEW f \in FrameRec, Opening(f), f.first,
           IsBash(f.id) => f.content = Absent
    PROVE  /\ SentV1(NoCall, f) \in CallRec /\ SentV2(NoCall, f) \in CallRec
           /\ Alike(IsBash(f.id), SentV1(NoCall, f), SentV2(NoCall, f))
<1> DEFINE g == IF IsBash(f.id) THEN [f EXCEPT !.content = "terminal"] ELSE f
           bare == [NoCall EXCEPT !.status = "pending"]
           none == [delta |-> <<>>, exit |-> Absent]
<1>1. NoCall \in CallRec /\ bare \in CallRec
  <2>1. /\ Absent \in Titles /\ "other" \in Kinds /\ Absent \in Contents
        /\ <<>> \in Seq(Chars) /\ "pending" \in Statuses
    BY DEF Titles, Kinds, Contents, Statuses
  <2>2. NoCall \in CallRec
    BY <2>1 DEF NoCall, CallRec
  <2> QED BY <2>1, <2>2 DEF CallRec
<1>2. g \in FrameRec /\ none \in [delta : Seq(Chars), exit : {Absent, 0, 1}]
  BY DEF FrameRec, Contents
<1>3. /\ g.title = f.title /\ g.kind = f.kind /\ g.status = f.status
      /\ ~IsBash(f.id) => g.content = f.content
  BY DEF FrameRec
<1>4. /\ bare.title = Absent /\ bare.kind = "other" /\ bare.content = Absent
      /\ bare.term = <<>> /\ bare.exit = Absent
      /\ NoCall.title = Absent /\ NoCall.kind = "other" /\ NoCall.content = Absent
      /\ NoCall.term = <<>> /\ NoCall.exit = Absent
  BY DEF NoCall
<1>5. SentV1(NoCall, f) = Patched(bare, g, none)
  BY DEF SentV1, Opened
<1>6. terminal_meta(f).delta = none.delta /\ terminal_meta(f).exit = none.exit
  BY Metas DEF Opening
<1> HIDE DEF g, bare, none
<1>7. /\ Patched(bare, g, none).title = Or(f.title, Absent)
      /\ Patched(bare, g, none).kind = Or(f.kind, "other")
      /\ Patched(bare, g, none).status = f.status
      /\ ~IsBash(f.id) => Patched(bare, g, none).content = Or(f.content, Absent)
      /\ Patched(bare, g, none).term = <<>> \o none.delta
      /\ Patched(bare, g, none).exit = Or(none.exit, Absent)
      /\ Patched(bare, g, none) \in CallRec
  <2>1. /\ Patched(bare, g, none) \in CallRec
        /\ Patched(bare, g, none).title = Or(g.title, bare.title)
        /\ Patched(bare, g, none).kind = Or(g.kind, bare.kind)
        /\ Patched(bare, g, none).status = g.status
        /\ Patched(bare, g, none).content = Or(g.content, bare.content)
        /\ Patched(bare, g, none).term = bare.term \o none.delta
        /\ Patched(bare, g, none).exit = Or(none.exit, bare.exit)
    BY <1>1, <1>2, Patching
  <2> QED BY <2>1, <1>3, <1>4
<1>8. /\ SentV2(NoCall, f).title = Or(f.title, Absent)
      /\ SentV2(NoCall, f).kind = Or(f.kind, "other")
      /\ SentV2(NoCall, f).status = f.status
      /\ SentV2(NoCall, f).content = Or(f.content, Absent)
      /\ SentV2(NoCall, f).term = <<>> \o none.delta
      /\ SentV2(NoCall, f).exit = Or(none.exit, Absent)
      /\ SentV2(NoCall, f) \in CallRec
  <2> DEFINE meta == terminal_meta(f)
             sent == Patched(NoCall, f, meta)
  <2>1. meta \in [delta : Seq(Chars), exit : {Absent, 0, 1}]
    BY Metas
  <2>2. SentV2(NoCall, f) = sent
    BY DEF SentV2
  <2> HIDE DEF meta
  <2>3. /\ sent \in CallRec
        /\ sent.title = Or(f.title, NoCall.title) /\ sent.kind = Or(f.kind, NoCall.kind)
        /\ sent.status = f.status /\ sent.content = Or(f.content, NoCall.content)
        /\ sent.term = NoCall.term \o meta.delta /\ sent.exit = Or(meta.exit, NoCall.exit)
    BY <1>1, <2>1, Patching
  <2>4. meta.delta = none.delta /\ meta.exit = none.exit
    BY <1>6 DEF meta
  <2> HIDE DEF sent
  <2> QED BY <2>2, <2>3, <2>4, <1>4
<1>9. f.status # Absent
  BY Frames
<1> QED BY <1>5, <1>7, <1>8, <1>9 DEF Alike

\* A patch is the same to both.
LEMMA Patches ==
    ASSUME NEW f \in FrameRec, ~f.first, NEW bash \in BOOLEAN,
           NEW v1 \in CallRec, NEW v2 \in CallRec, Alike(bash, v1, v2)
    PROVE  /\ SentV1(v1, f) \in CallRec /\ SentV2(v2, f) \in CallRec
           /\ Alike(bash, SentV1(v1, f), SentV2(v2, f))
<1>1. SentV1(v1, f) = Patched(v1, f, terminal_meta(f))
  BY DEF SentV1
<1>2. SentV2(v2, f) = Patched(v2, f, terminal_meta(f))
  BY DEF SentV2
<1>3. f.status # Absent
  BY Frames
<1> DEFINE meta == terminal_meta(f)
           sent1 == Patched(v1, f, meta)
           sent2 == Patched(v2, f, meta)
<1>4. meta \in [delta : Seq(Chars), exit : {Absent, 0, 1}]
  BY Metas
<1> HIDE DEF meta
<1>5. /\ sent1 \in CallRec
      /\ sent1.title = Or(f.title, v1.title) /\ sent1.kind = Or(f.kind, v1.kind)
      /\ sent1.status = f.status /\ sent1.content = Or(f.content, v1.content)
      /\ sent1.term = v1.term \o meta.delta /\ sent1.exit = Or(meta.exit, v1.exit)
  BY <1>4, Patching
<1>6. /\ sent2 \in CallRec
      /\ sent2.title = Or(f.title, v2.title) /\ sent2.kind = Or(f.kind, v2.kind)
      /\ sent2.status = f.status /\ sent2.content = Or(f.content, v2.content)
      /\ sent2.term = v2.term \o meta.delta /\ sent2.exit = Or(meta.exit, v2.exit)
  BY <1>4, Patching
<1>7. SentV1(v1, f) = sent1 /\ SentV2(v2, f) = sent2
  BY <1>1, <1>2 DEF meta
<1> HIDE DEF sent1, sent2
<1> QED BY <1>3, <1>5, <1>6, <1>7 DEF Alike

ViewsAlike == \A id \in Ids : Alike(IsBash(id), view.v1[id], view.v2[id])

\* What a frame changes of the views.
LEMMA Emits ==
    ASSUME ViewTypes, ViewsAlike, UNCHANGED way, stray = {},
           NEW f \in FrameRec, Opening(f), Emit(f), IsBash(f.id) => f.content = Absent,
           f.first <=> view.v2[f.id].status = Absent
    PROVE  /\ ViewTypes' /\ ViewsAlike' /\ stray' = {}
           /\ \A id \in Ids : id # f.id =>
                 view'.v1[id] = view.v1[id] /\ view'.v2[id] = view.v2[id]
           /\ view'.v2[f.id].title = Or(f.title, view.v2[f.id].title)
           /\ view'.v2[f.id].status = f.status
           /\ view'.v2[f.id].content = Or(f.content, view.v2[f.id].content)
           /\ view'.v2[f.id].term = view.v2[f.id].term \o f.delta
           /\ view'.v2[f.id].exit =
                 Or(IF f.status \in {"completed", "failed"} THEN f.exit ELSE Absent,
                    view.v2[f.id].exit)
<1> DEFINE id == f.id
           v1 == view.v1[id]
           v2 == view.v2[id]
           w1 == SentV1(v1, f)
           w2 == SentV2(v2, f)
<1>1. id \in Ids /\ v1 \in CallRec /\ v2 \in CallRec /\ Alike(IsBash(id), v1, v2)
  BY DEF ViewTypes, ViewsAlike, FrameRec
<1>2. w1 \in CallRec /\ w2 \in CallRec /\ Alike(IsBash(id), w1, w2)
  <2>1. CASE f.first
    <3>1. v1 = NoCall /\ v2 = NoCall
      BY <1>1, <2>1 DEF Alike
    <3> QED BY <3>1, <2>1, Opens
  <2>2. CASE ~f.first
    <3>1. IsBash(id) \in BOOLEAN
      BY DEF IsBash
    <3> QED BY <1>1, <2>2, <3>1, Patches
  <2> QED BY <2>1, <2>2
<1>3. /\ w2.title = Or(f.title, v2.title) /\ w2.status = f.status
      /\ w2.content = Or(f.content, v2.content) /\ w2.term = v2.term \o f.delta
      /\ w2.exit = Or(IF f.status \in {"completed", "failed"} THEN f.exit ELSE Absent, v2.exit)
  <2> DEFINE meta == terminal_meta(f)
             sent == Patched(v2, f, meta)
  <2>1. w2 = sent
    BY DEF SentV2
  <2>2. /\ meta \in [delta : Seq(Chars), exit : {Absent, 0, 1}] /\ meta.delta = f.delta
        /\ meta.exit = IF f.status \in {"completed", "failed"} THEN f.exit ELSE Absent
    BY Metas
  <2> HIDE DEF w2, meta
  <2>3. /\ sent.title = Or(f.title, v2.title) /\ sent.status = f.status
        /\ sent.content = Or(f.content, v2.content)
        /\ sent.term = v2.term \o meta.delta /\ sent.exit = Or(meta.exit, v2.exit)
    BY <1>1, <2>2, Patching
  <2> HIDE DEF sent, v2
  <2> QED BY <2>1, <2>2, <2>3
<1>4. view' = [view EXCEPT !.v1[id] = w1, !.v2[id] = w2]
  BY DEF Emit
<1>5. stray' = {}
  <2>1. f.first \in BOOLEAN /\ v1.status = v2.status
    BY <1>1 DEF FrameRec, Alike
  <2>2. f.first = (v1.status = Absent)
    <3>1. CASE f.first
      BY <2>1, <3>1
    <3>2. CASE ~f.first
      BY <2>1, <3>2
    <3> QED BY <3>1, <3>2
  <2> QED BY <2>2 DEF Emit
<1> HIDE DEF w1, w2
<1>6. /\ view' \in [v1 : [Ids -> CallRec], v2 : [Ids -> CallRec]]
      /\ view'.v1[id] = w1 /\ view'.v2[id] = w2
      /\ \A other \in Ids : other # id =>
            view'.v1[other] = view.v1[other] /\ view'.v2[other] = view.v2[other]
  BY <1>1, <1>2, <1>4 DEF ViewTypes
<1>7. ViewsAlike'
  BY <1>2, <1>6 DEF ViewsAlike, IsBash
<1> QED BY <1>3, <1>5, <1>6, <1>7 DEF ViewTypes

-----------------------------------------------------------------------------
(* Prefixes and suffixes of an output.                                     *)

\* A prefix, point by point.
LEMMA PrefixMeans ==
    ASSUME NEW s \in Seq(Chars), NEW t \in Seq(Chars)
    PROVE  IsPrefix(s, t) <=> Len(s) <= Len(t) /\ \A i \in 1 .. Len(s) : s[i] = t[i]
<1>1. IsPrefix(s, t) <=> Seqs!IsPrefix(s, t)
  BY DEF IsPrefix, Seqs!IsPrefix
<1> QED BY <1>1, PrefixIs

\* A text, and nothing, are prefixes of the text.
LEMMA PrefixOfItself ==
    ASSUME NEW s \in Seq(Chars)
    PROVE  IsPrefix(s, s) /\ IsPrefix(<<>>, s)
<1>1. IsPrefix(s, s)
  BY PrefixMeans
<1> DEFINE empty == <<>>
<1>2. empty \in Seq(Chars) /\ Len(empty) = 0
  OBVIOUS
<1> HIDE DEF empty
<1>3. Len(empty) <= Len(s) /\ \A i \in 1 .. Len(empty) : empty[i] = s[i]
  BY <1>2
<1>4. IsPrefix(empty, s)
  BY <1>2, <1>3, PrefixMeans
<1> QED BY <1>1, <1>4 DEF empty

\* A prefix of a prefix.
LEMMA PrefixOfLonger ==
    ASSUME NEW s \in Seq(Chars), NEW t \in Seq(Chars), NEW u \in Seq(Chars), IsPrefix(s, t),
           IsPrefix(t, u)
    PROVE  IsPrefix(s, u)
<1>1. Len(s) <= Len(t) /\ \A i \in 1 .. Len(s) : s[i] = t[i]
  BY PrefixMeans
<1>2. Len(t) <= Len(u) /\ \A i \in 1 .. Len(t) : t[i] = u[i]
  BY PrefixMeans
<1>3. Len(s) <= Len(u) /\ \A i \in 1 .. Len(s) : s[i] = u[i]
  BY <1>1, <1>2
<1> QED BY <1>3, PrefixMeans

\* What is put to a text leaves it a prefix.
LEMMA PrefixOfGrown ==
    ASSUME NEW s \in Seq(Chars), NEW t \in Seq(Chars), NEW c \in Chars, IsPrefix(s, t)
    PROVE  Append(t, c) \in Seq(Chars) /\ IsPrefix(s, Append(t, c)) /\ IsPrefix(t, Append(t, c))
<1> DEFINE u == Append(t, c)
<1>1. u \in Seq(Chars) /\ Len(u) = Len(t) + 1
  OBVIOUS
<1>2. \A i \in 1 .. Len(t) : t[i] = u[i]
  OBVIOUS
<1> HIDE DEF u
<1>3. IsPrefix(t, u)
  BY <1>1, <1>2, PrefixMeans
<1>4. IsPrefix(s, u)
  BY <1>1, <1>3, PrefixOfLonger
<1> QED BY <1>1, <1>3, <1>4 DEF u

\* Prefixes of each other are equal.
LEMMA PrefixThatIsWhole ==
    ASSUME NEW s \in Seq(Chars), NEW t \in Seq(Chars), IsPrefix(s, t), Len(t) <= Len(s)
    PROVE  s = t
<1>1. Len(s) <= Len(t) /\ \A i \in 1 .. Len(s) : s[i] = t[i]
  BY PrefixMeans
<1> QED BY <1>1

\* What the pump adds to a terminal that shows the previous snapshot makes it show the next.
LEMMA DeltaCompletes ==
    ASSUME NEW previous \in Seq(Chars), NEW next \in Seq(Chars)
    PROVE  /\ bash_output_delta(previous, next) \in Seq(Chars)
           /\ IsPrefix(previous, next) => previous \o bash_output_delta(previous, next) = next
           /\ ~IsPrefix(previous, next) => bash_output_delta(previous, next) = next
<1>1. CASE IsPrefix(previous, next)
  <2> DEFINE d == SubSeq(next, Len(previous) + 1, Len(next))
  <2>1. Len(previous) <= Len(next) /\ \A i \in 1 .. Len(previous) : previous[i] = next[i]
    BY <1>1, PrefixMeans
  <2>2. d \in Seq(Chars) /\ Len(d) = Len(next) - Len(previous)
    BY <2>1
  <2>3. \A i \in 1 .. Len(d) : d[i] = next[Len(previous) + i]
    BY <2>1, <2>2
  <2>4. bash_output_delta(previous, next) = d
    BY <1>1 DEF bash_output_delta
  <2> HIDE DEF d
  <2>5. previous \o d \in Seq(Chars) /\ Len(previous \o d) = Len(next)
    BY <2>1, <2>2
  <2>6. \A i \in 1 .. Len(next) : (previous \o d)[i] = next[i]
    BY <2>1, <2>2, <2>3
  <2> DEFINE whole == previous \o d
  <2>7. /\ whole \in Seq(Chars) /\ Len(whole) = Len(next)
        /\ \A i \in 1 .. Len(next) : whole[i] = next[i]
    BY <2>5, <2>6
  <2> HIDE DEF whole
  <2>8. whole = next
    BY <2>7
  <2>9. previous \o d = next
    BY <2>8 DEF whole
  <2> QED BY <1>1, <2>2, <2>4, <2>9
<1>2. CASE ~IsPrefix(previous, next)
  BY <1>2 DEF bash_output_delta
<1> QED BY <1>1, <1>2

\* What was put last is a suffix.
LEMMA SuffixOfConcat ==
    ASSUME NEW p \in Seq(Chars), NEW s \in Seq(Chars)
    PROVE  IsSuffix(s, p \o s)
  BY SuffixIs, Zenon DEF IsSuffix, IsPrefix, Reverse, Seqs!IsSuffix, Seqs!IsPrefix, Seqs!Reverse

-----------------------------------------------------------------------------
(* The order in which the events of one call wait for the pump.            *)

Is(i, type, id) == events[i].type = type /\ events[i].id = id
Queued(type, id) == \E i \in 1 .. Len(events) : Is(i, type, id)
\* By the i-th event the pump has been told that the call runs.
ToldBy(i, id) == id \in maps.executing \/ \E j \in 1 .. i - 1 : Is(j, "start", id)

\* The end of a call is the last pi says of it, and says how it ended; what a running
\* call prints comes after its start; only a late pi streams a call that was started.
EndsLast(id) == \A i \in 1 .. Len(events) : Is(i, "end", id) =>
    /\ pi[id].exe = "ended" /\ ~pi[id].lost /\ events[i].err = pi[id].err
    /\ \A j \in 1 .. Len(events) : events[j].id = id => j <= i
PrintsStarted(id) == \A i \in 1 .. Len(events) :
    events[i].id = id /\ events[i].type \in {"update", "delta", "end"} => ToldBy(i, id)
StartsOnce(id) == \A i \in 1 .. Len(events) : Is(i, "start", id) => pi[id].exe # "no"
StreamsFirst(id) == ~way.late =>
    \A i \in 1 .. Len(events) : Is(i, "surface", id) => ~ToldBy(i, id)
InOrder(id) == EndsLast(id) /\ PrintsStarted(id) /\ StartsOnce(id) /\ StreamsFirst(id)

\* What the pump has not heard of yet is on its way.
Waiting(id) ==
    /\ pi[id].exe = "ended" /\ ~pi[id].lost /\ (Tracked(id) \/ ~Heard(id)) => Queued("end", id)
    /\ Running(id) => ToldBy(Len(events) + 1, id)
    /\ pi[id].exe = "no" => id \notin maps.executing

\* The queue with one event more.
LEMMA Sent ==
    ASSUME QueueTypes, NEW e \in EventRec, events' = Append(events, e)
    PROVE  /\ events' \in Seq(EventRec) /\ Len(events') = Len(events) + 1 /\ Len(events) \in Nat
           /\ \A i \in 1 .. Len(events) : events'[i] = events[i]
           /\ events'[Len(events) + 1] = e
BY DEF QueueTypes

\* The queue without its first event.
LEMMA Taken ==
    ASSUME QueueTypes, events # <<>>, events' = Tail(events)
    PROVE  /\ events' \in Seq(EventRec) /\ Len(events') = Len(events) - 1 /\ Len(events) \in Nat
           /\ Len(events) >= 1 /\ Head(events) = events[1] /\ events[1] \in EventRec
           /\ \A i \in 1 .. Len(events') : events'[i] = events[i + 1]
<1>1. Len(events) \in Nat /\ Len(events) >= 1
  BY DEF QueueTypes
<1> QED BY <1>1 DEF QueueTypes

\* An event of another call.
LEMMA OthersStayInOrder ==
    ASSUME QueueTypes, NEW id \in Ids, InOrder(id), Waiting(id), UNCHANGED <<maps, way>>,
           NEW e \in EventRec, events' = Append(events, e), e.id # id, pi'[id] = pi[id]
    PROVE  InOrder(id)' /\ Waiting(id)'
<1>0. PICK n \in Nat : n = Len(events)
  BY DEF QueueTypes
<1>1. /\ n \in Nat /\ Len(events') = n + 1 /\ events'[n + 1] = e
      /\ \A i \in 1 .. n : events'[i] = events[i]
  BY <1>0, Sent
<1>2. \A i \in 1 .. n + 1 : events'[i].id = id => i \in 1 .. n /\ events'[i] = events[i]
  BY <1>1
<1>3. \A i \in 1 .. n + 1 : ToldBy(i, id)' <=> ToldBy(i, id)
  BY <1>1 DEF ToldBy, Is
<1>4. ToldBy(n + 1, id) => ToldBy(n + 2, id)'
  <2>1. n + 1 - 1 = n /\ n + 2 - 1 = n + 1 /\ \A j \in 1 .. n : j \in 1 .. n + 1
    BY <1>1
  <2>2. (\E j \in 1 .. n : Is(j, "start", id)) => \E j \in 1 .. n + 1 : Is(j, "start", id)'
    BY <1>1, <2>1 DEF Is
  <2> QED BY <2>1, <2>2 DEF ToldBy
<1>5. EndsLast(id)'
  BY <1>0, <1>1, <1>2 DEF InOrder, EndsLast, Is
<1>6. PrintsStarted(id)'
  BY <1>0, <1>1, <1>2, <1>3 DEF InOrder, PrintsStarted
<1>7. StartsOnce(id)'
  BY <1>0, <1>1, <1>2 DEF InOrder, StartsOnce, Is
<1>8. StreamsFirst(id)'
  BY <1>0, <1>1, <1>2, <1>3 DEF InOrder, StreamsFirst, Is
<1>9. Queued("end", id) => Queued("end", id)'
  BY <1>0, <1>1 DEF Queued, Is
<1>10. Heard(id) => Heard(id)'
  BY <1>0, <1>1, <1>2 DEF Heard
<1>11. Running(id)' <=> Running(id)
  BY DEF Running
<1>12. Running(id)' => ToldBy(Len(events) + 1, id)'
  <2>1. Running(id) => ToldBy(n + 1, id)
    BY <1>0 DEF Waiting
  <2>2. Len(events') + 1 = n + 2
    BY <1>1
  <2> QED BY <1>4, <1>11, <2>1, <2>2
<1>13. Waiting(id)'
  BY <1>9, <1>10, <1>12 DEF Waiting, Tracked
<1> QED BY <1>5, <1>6, <1>7, <1>8, <1>13 DEF InOrder

\* An event of the call, and what pi did.
LEMMA OwnStaysInOrder ==
    ASSUME QueueTypes, NEW id \in Ids, InOrder(id), Waiting(id), UNCHANGED <<maps, way>>,
           NEW e \in EventRec, events' = Append(events, e), e.id = id,
           pi[id].exe # "ended", pi[id].exe # "no" => pi'[id].exe # "no",
           e.type = "end" => /\ pi'[id].exe = "ended" /\ ~pi'[id].lost
                             /\ pi'[id].err = e.err,
           e.type # "end" => pi'[id].exe # "ended",
           e.type \in {"update", "delta", "end"} => Running(id),
           e.type = "start" => pi'[id].exe # "no",
           e.type = "surface" /\ ~way.late => pi[id].exe = "no",
           pi'[id].exe = "running" => Running(id) \/ e.type = "start"
    PROVE  InOrder(id)' /\ Waiting(id)'
<1>0. PICK n \in Nat : n = Len(events)
  BY DEF QueueTypes
<1>1. /\ n \in Nat /\ Len(events') = n + 1 /\ events'[n + 1] = e
      /\ \A i \in 1 .. n : events'[i] = events[i]
  BY <1>0, Sent
<1>2. \A i \in 1 .. n : ~Is(i, "end", id)
  BY <1>0 DEF InOrder, EndsLast
<1>3. \A i \in 1 .. n + 1 : ToldBy(i, id)' <=> ToldBy(i, id)
  BY <1>1 DEF ToldBy, Is
<1>4. /\ ToldBy(n + 1, id) => ToldBy(n + 2, id)'
      /\ e.type = "start" => ToldBy(n + 2, id)'
  <2>1. /\ n + 1 - 1 = n /\ n + 2 - 1 = n + 1 /\ \A j \in 1 .. n : j \in 1 .. n + 1
        /\ n + 1 \in 1 .. n + 1
    BY <1>1
  <2>2. (\E j \in 1 .. n : Is(j, "start", id)) => \E j \in 1 .. n + 1 : Is(j, "start", id)'
    BY <1>1, <2>1 DEF Is
  <2>3. e.type = "start" => \E j \in 1 .. n + 1 : Is(j, "start", id)'
    BY <1>1, <2>1 DEF Is
  <2> QED BY <2>1, <2>2, <2>3 DEF ToldBy
<1>5. EndsLast(id)'
  <2>1. ASSUME NEW i \in 1 .. n + 1, Is(i, "end", id)' PROVE i = n + 1 /\ e.type = "end"
    BY <1>1, <1>2, <2>1 DEF Is
  <2> QED BY <1>1, <2>1 DEF EndsLast, Is
<1>6. PrintsStarted(id)'
  <2>1. ASSUME NEW i \in 1 .. n, events'[i].id = id,
               events'[i].type \in {"update", "delta", "end"}
        PROVE  ToldBy(i, id)'
    BY <1>0, <1>1, <1>3, <2>1 DEF InOrder, PrintsStarted
  <2>2. Running(id) => ToldBy(n + 1, id)
    BY <1>0 DEF Waiting
  <2>3. n + 1 \in 1 .. n + 1
    BY <1>1
  <2>4. e.type \in {"update", "delta", "end"} => ToldBy(n + 1, id)'
    BY <1>3, <2>2, <2>3
  <2>5. \A i \in 1 .. n + 1 : i \in 1 .. n \/ i = n + 1
    BY <1>1
  <2> QED BY <1>1, <2>1, <2>4, <2>5 DEF PrintsStarted
<1>7. StartsOnce(id)'
  BY <1>0, <1>1 DEF InOrder, StartsOnce, Is
<1>8. StreamsFirst(id)'
  <2>1. ASSUME NEW i \in 1 .. n, Is(i, "surface", id)', ~way.late PROVE ~ToldBy(i, id)'
    BY <1>0, <1>1, <1>3, <2>1 DEF InOrder, StreamsFirst, Is
  <2>2. ASSUME e.type = "surface", ~way.late PROVE ~ToldBy(n + 1, id)
    BY <1>0, <1>1, <2>2 DEF InOrder, StartsOnce, Waiting, ToldBy
  <2> QED BY <1>1, <1>3, <2>1, <2>2 DEF StreamsFirst, Is
<1>9. pi'[id].exe = "ended" => Queued("end", id)'
  BY <1>1 DEF Queued, Is
<1>10. Running(id)' => ToldBy(Len(events) + 1, id)'
  <2>1. Running(id) => ToldBy(n + 1, id)
    BY <1>0 DEF Waiting
  <2>2. Len(events') + 1 = n + 2
    BY <1>1
  <2>3. Running(id)' => Running(id) \/ e.type = "start"
    BY DEF Running
  <2> QED BY <1>4, <2>1, <2>2, <2>3
<1>11. Waiting(id)'
  BY <1>9, <1>10 DEF Waiting
<1> QED BY <1>5, <1>6, <1>7, <1>8, <1>11 DEF InOrder

\* A step that sends nothing.
LEMMA SilenceStaysInOrder ==
    ASSUME QueueTypes, NEW id \in Ids, InOrder(id), Waiting(id), UNCHANGED <<events, maps, way>>,
           \/ /\ pi'[id].exe = pi[id].exe /\ pi'[id].lost = pi[id].lost
              /\ pi'[id].err = pi[id].err
           \/ Running(id) /\ pi'[id].exe = "ended" /\ pi'[id].lost
    PROVE  InOrder(id)' /\ Waiting(id)'
<1>1. \A i \in 1 .. Len(events) : ToldBy(i, id)' <=> ToldBy(i, id)
  BY DEF ToldBy, Is
<1>2. EndsLast(id)'
  BY DEF InOrder, EndsLast, Is, Running
<1>3. PrintsStarted(id)'
  BY <1>1 DEF InOrder, PrintsStarted
<1>4. StartsOnce(id)'
  BY DEF InOrder, StartsOnce, Is
<1>5. StreamsFirst(id)'
  BY <1>1 DEF InOrder, StreamsFirst, Is
<1>6. Waiting(id)'
  BY DEF Waiting, Running, Tracked, Heard, Queued, Is, ToldBy
<1> QED BY <1>2, <1>3, <1>4, <1>5, <1>6 DEF InOrder

\* The pump takes the first event.
LEMMA TakingStaysInOrder ==
    ASSUME QueueTypes, NEW id \in Ids, InOrder(id), Waiting(id), UNCHANGED <<pi, way>>,
           events # <<>>, events' = Tail(events),
           Is(1, "start", id) => id \in maps'.executing,
           Is(1, "end", id) => id \notin maps'.executing /\ ~Tracked(id)',
           ~Is(1, "start", id) /\ ~Is(1, "end", id) =>
              (id \in maps'.executing <=> id \in maps.executing),
           events[1].id # id => (Tracked(id)' => Tracked(id))
    PROVE  InOrder(id)' /\ Waiting(id)'
<1>0. PICK n \in Nat : n = Len(events)
  BY DEF QueueTypes
<1>1. /\ n \in Nat /\ n >= 1 /\ Len(events') = n - 1
      /\ \A i \in 1 .. n - 1 : events'[i] = events[i + 1]
  BY <1>0, Taken
<1>2. ~Is(1, "end", id) => \A i \in 1 .. n : ToldBy(i + 1, id) => ToldBy(i, id)'
  <2>1. ASSUME ~Is(1, "end", id), NEW i \in 1 .. n, ToldBy(i + 1, id) PROVE ToldBy(i, id)'
    <3>1. CASE id \in maps.executing
      BY <2>1, <3>1 DEF ToldBy, Is
    <3>2. CASE Is(1, "start", id)
      BY <3>2 DEF ToldBy
    <3>3. ASSUME NEW j \in 1 .. i, Is(j, "start", id), j # 1 PROVE ToldBy(i, id)'
      <4>1. j - 1 \in 1 .. i - 1 /\ j - 1 \in 1 .. n - 1 /\ events'[j - 1] = events[j]
        BY <1>1, <3>3
      <4> QED BY <3>3, <4>1 DEF ToldBy, Is
    <3> QED BY <2>1, <3>1, <3>2, <3>3 DEF ToldBy
  <2> QED BY <2>1
<1>3. \A i \in 1 .. n : ToldBy(i, id)' => ToldBy(i + 1, id)
  <2>1. ASSUME NEW i \in 1 .. n, ToldBy(i, id)' PROVE ToldBy(i + 1, id)
    <3>1. CASE id \in maps'.executing
      <4>1. CASE Is(1, "start", id)
        BY <1>1, <4>1 DEF ToldBy
      <4>2. CASE ~Is(1, "start", id)
        BY <3>1, <4>2 DEF ToldBy
      <4> QED BY <4>1, <4>2
    <3>2. ASSUME NEW j \in 1 .. i - 1, Is(j, "start", id)' PROVE ToldBy(i + 1, id)
      <4>1. j + 1 \in 1 .. i /\ j \in 1 .. n - 1 /\ events'[j] = events[j + 1]
        BY <1>1, <3>2
      <4>2. i + 1 - 1 = i /\ Is(j + 1, "start", id)
        BY <1>1, <3>2, <4>1 DEF Is
      <4> QED BY <4>1, <4>2 DEF ToldBy
    <3> QED BY <2>1, <3>1, <3>2 DEF ToldBy
  <2> QED BY <2>1
\* After the end nothing of the call is left.
<1>4. Is(1, "end", id) => \A i \in 1 .. n - 1 : events'[i].id # id
  BY <1>0, <1>1 DEF InOrder, EndsLast
<1>5. EndsLast(id)'
  <2>1. ASSUME NEW i \in 1 .. n - 1, Is(i, "end", id)'
        PROVE  /\ pi'[id].exe = "ended" /\ ~pi'[id].lost /\ events'[i].err = pi'[id].err
               /\ \A j \in 1 .. n - 1 : events'[j].id = id => j <= i
    <3>1. i + 1 \in 1 .. n /\ Is(i + 1, "end", id) /\ events'[i] = events[i + 1]
      BY <1>1, <2>1 DEF Is
    <3>2. \A j \in 1 .. n - 1 : j + 1 \in 1 .. n /\ events'[j] = events[j + 1]
      BY <1>1
    <3>3. /\ pi[id].exe = "ended" /\ ~pi[id].lost /\ events[i + 1].err = pi[id].err
          /\ \A j \in 1 .. n : events[j].id = id => j <= i + 1
      BY <1>0, <3>1 DEF InOrder, EndsLast
    <3> QED BY <1>1, <3>1, <3>2, <3>3
  <2> QED BY <1>1, <2>1 DEF EndsLast
<1>6. PrintsStarted(id)'
  <2>1. ASSUME NEW i \in 1 .. n - 1, events'[i].id = id,
               events'[i].type \in {"update", "delta", "end"}
        PROVE  ToldBy(i, id)'
    <3>1. i + 1 \in 1 .. n /\ i \in 1 .. n /\ events'[i] = events[i + 1]
      BY <1>1
    <3>2. ToldBy(i + 1, id)
      BY <1>0, <2>1, <3>1 DEF InOrder, PrintsStarted
    <3> QED BY <1>2, <1>4, <2>1, <3>1, <3>2
  <2> QED BY <1>1, <2>1 DEF PrintsStarted
<1>7. StartsOnce(id)'
  <2>1. \A i \in 1 .. n - 1 : i + 1 \in 1 .. n /\ events'[i] = events[i + 1]
    BY <1>1
  <2> QED BY <1>0, <1>1, <2>1 DEF InOrder, StartsOnce, Is
<1>8. StreamsFirst(id)'
  <2>1. ASSUME NEW i \in 1 .. n - 1, Is(i, "surface", id)', ~way.late PROVE ~ToldBy(i, id)'
    <3>1. i + 1 \in 1 .. n /\ i \in 1 .. n /\ Is(i + 1, "surface", id)
      BY <1>1, <2>1 DEF Is
    <3>2. ~ToldBy(i + 1, id)
      BY <1>0, <2>1, <3>1 DEF InOrder, StreamsFirst
    <3> QED BY <1>3, <3>1, <3>2
  <2> QED BY <1>1, <2>1 DEF StreamsFirst
<1>9. pi'[id].exe = "ended" /\ ~pi'[id].lost /\ (Tracked(id)' \/ ~Heard(id)') => Queued("end", id)'
  <2>1. SUFFICES ASSUME pi[id].exe = "ended", ~pi[id].lost, Tracked(id)' \/ ~Heard(id)'
                 PROVE  Queued("end", id)'
    OBVIOUS
  <2>2. Tracked(id) \/ ~Heard(id)
    <3>1. CASE Tracked(id)'
      BY <1>0, <1>1, <3>1 DEF Heard
    <3>2. CASE ~Heard(id)'
      BY <1>0, <1>1, <3>2 DEF Heard
    <3> QED BY <2>1, <3>1, <3>2
  <2>3. PICK i \in 1 .. n : Is(i, "end", id)
    BY <1>0, <2>1, <2>2 DEF Waiting, Queued
  <2>4. CASE i = 1
    <3>1. ~Tracked(id)' /\ Heard(id)'
      BY <1>1, <1>4, <2>3, <2>4 DEF Heard
    <3> QED BY <2>1, <3>1
  <2>5. CASE i # 1
    <3>1. i - 1 \in 1 .. n - 1 /\ events'[i - 1] = events[i]
      BY <1>1, <2>5
    <3> QED BY <1>1, <2>3, <3>1 DEF Queued, Is
  <2> QED BY <2>4, <2>5
<1>10. Running(id)' => ToldBy(Len(events) + 1, id)'
  <2>1. Len(events') + 1 = n /\ n \in 1 .. n
    BY <1>1
  <2>2. Running(id)' => Running(id)
    BY DEF Running
  <2>3. Running(id) => ToldBy(n + 1, id)
    BY <1>0 DEF Waiting
  <2>4. Running(id) => ~Is(1, "end", id)
    BY <1>0, <1>1 DEF InOrder, EndsLast, Running
  <2> QED BY <1>2, <2>1, <2>2, <2>3, <2>4
<1>11. pi'[id].exe = "no" => id \notin maps'.executing
  BY <1>0, <1>1 DEF Waiting, InOrder, StartsOnce
<1>12. Waiting(id)'
  BY <1>9, <1>10, <1>11 DEF Waiting
<1> QED BY <1>5, <1>6, <1>7, <1>8, <1>12 DEF InOrder

-----------------------------------------------------------------------------
(* What each handler does to the maps and the views.                       *)

MapsOf(id) ==
    /\ id \in maps.executing <=> maps.current[id] = "in_progress"
    /\ id \in maps.bash <=> Tracked(id) /\ IsBash(id)
    /\ id \in maps.mutation <=> id \in maps.executing /\ IsMutation(id)
    /\ maps.command[id] # Absent <=> id \in maps.bash
    /\ maps.output[id] # Absent => id \in maps.bash
    /\ maps.old[id] # Absent <=> id \in maps.mutation

\* A client knows the calls that are tracked, as they are tracked; of others the end.
Known(id) ==
    /\ Tracked(id) => view.v2[id].status = maps.current[id]
    /\ Tracked(id) \/ view.v2[id].status = Absent \/ Finished(id)

\* Nothing of a call changed.
Untouched(id) ==
    /\ maps'.current[id] = maps.current[id]
    /\ id \in maps'.executing <=> id \in maps.executing
    /\ id \in maps'.mutation <=> id \in maps.mutation
    /\ maps'.old[id] = maps.old[id]
    /\ id \in maps'.bash <=> id \in maps.bash
    /\ maps'.output[id] = maps.output[id]
    /\ maps'.command[id] = maps.command[id]
    /\ view'.v1[id] = view.v1[id] /\ view'.v2[id] = view.v2[id]

Good == /\ maps \in MapRec /\ ViewTypes /\ ViewsAlike /\ stray = {}

\* What a frame says.
Says(f, id, first, title, status, content, delta, exit) ==
    /\ f \in FrameRec /\ f.id = id /\ (f.first <=> first) /\ f.title = title
    /\ f.status = status /\ f.content = content /\ f.delta = delta /\ f.exit = exit

\* What Fact makes a frame of.
LEMMA FactSays ==
    ASSUME NEW id \in Ids, NEW first \in BOOLEAN, NEW title \in Titles,
           NEW kind \in Kinds \cup {Absent}, NEW status \in Statuses, NEW content \in Contents
    PROVE  Says(Fact(id, first, title, kind, status, content),
                id, first, title, status, content, <<>>, Absent)
BY DEF Fact, FrameRec, Says

\* What BashFact makes a frame of.
LEMMA BashFactSays ==
    ASSUME NEW m \in MapRec, NEW id \in Ids, NEW first \in BOOLEAN, NEW status \in Statuses,
           NEW delta \in Seq(Chars), NEW exit \in {Absent, 0, 1}
    PROVE  Says(BashFact(m, id, first, status, delta, exit),
                id, first, m.command[id], status, Absent, delta, exit)
<1>1. m.command[id] \in Titles /\ "execute" \in Kinds \cup {Absent} /\ Absent \in Contents
  BY DEF MapRec, Titles, Kinds, Contents
<1> DEFINE g == Fact(id, first, m.command[id], "execute", status, Absent)
           f == BashFact(m, id, first, status, delta, exit)
<1>2. Says(g, id, first, m.command[id], status, Absent, <<>>, Absent)
  BY <1>1, FactSays
<1>3. f = [g EXCEPT !.delta = delta, !.exit = exit]
  BY DEF BashFact
<1> HIDE DEF g, f
<1>4. Says(f, id, first, m.command[id], status, Absent, delta, exit)
  BY <1>2, <1>3 DEF FrameRec, Says
<1> QED BY <1>4 DEF f

\* The maps after a bash call's command was noted.
LEMMA CommandedMaps ==
    ASSUME NEW m \in MapRec, NEW id \in Ids, NEW named \in BOOLEAN
    PROVE  LET c == Commanded(m, id, named) IN
           /\ c \in MapRec /\ c.current = m.current /\ c.executing = m.executing
           /\ c.mutation = m.mutation /\ c.old = m.old /\ c.output = m.output
           /\ c.bash = m.bash \cup {id}
           /\ c.command = [m.command EXCEPT ![id] = IF named THEN "command" ELSE "name"]
<1> DEFINE n == Commanded(m, id, named)
           commands == [m.command EXCEPT ![id] = IF named THEN "command" ELSE "name"]
<1>1. commands \in [Ids -> {Absent, "name", "command"}]
  BY DEF MapRec
<1>2. n = [m EXCEPT !.bash = @ \cup {id}, !.command = commands]
  BY DEF Commanded, MapRec
<1> HIDE DEF n, commands
<1>3. /\ n \in MapRec /\ n.current = m.current /\ n.executing = m.executing
      /\ n.mutation = m.mutation /\ n.old = m.old /\ n.output = m.output
      /\ n.bash = m.bash \cup {id} /\ n.command = commands
  BY <1>1, <1>2 DEF MapRec
<1> QED BY <1>3 DEF n, commands

\* surface_tool_call tracks the call, keeps a status it has, and tells both clients.
LEMMA Surfaces ==
    ASSUME QueueTypes, Good, UNCHANGED way, NEW c \in Ids, NEW named \in BOOLEAN,
           Calls(c),
           MapsOf(c), Known(c), ~Finished(c), surface_tool_call(c, named)
    PROVE  /\ Good' /\ \A id \in Ids : id # c => Untouched(id)
           /\ maps'.current[c] = Or(maps.current[c], "pending")
           /\ maps'.executing = maps.executing /\ maps'.mutation = maps.mutation
           /\ maps'.old = maps.old /\ maps'.output = maps.output
           /\ c \in maps'.bash <=> c \in maps.bash \/ IsBash(c)
           /\ IsBash(c) => maps'.command[c] \in {"name", "command"}
           /\ ~IsBash(c) => maps'.command[c] = maps.command[c]
           /\ view'.v2[c].status = maps'.current[c]
           /\ view'.v2[c].content = view.v2[c].content
           /\ view'.v2[c].term = view.v2[c].term
<1> DEFINE existing == maps.current[c]
           status == Or(existing, "pending")
           current == [maps.current EXCEPT ![c] = status]
           tracked == [maps EXCEPT !.current = current]
           m == IF IsBash(c) THEN Commanded(tracked, c, named) ELSE tracked
           f == IF IsBash(c) THEN BashFact(m, c, existing = Absent, status, <<>>, Absent)
                ELSE IF existing = Absent
                THEN Fact(c, TRUE, "name", Kind[way.tool[c]], status, Absent)
                ELSE Fact(c, FALSE, Absent, Absent, status, Absent)
<1>1. c # NoId
  BY ToolAssumption
<1>2. maps' = m /\ Emit(f)
  BY <1>1 DEF surface_tool_call, Good, MapRec
<1>3. existing \in {Absent, "pending", "in_progress"}
  BY DEF Good, MapRec
<1>4. status \in {"pending", "in_progress"} /\ status \in Statuses
  BY <1>3 DEF Or, Statuses
<1>5. current \in [Ids -> {Absent, "pending", "in_progress"}] /\ current[c] = status
  BY <1>4 DEF Good, MapRec
<1> HIDE DEF current
<1>6. /\ tracked \in MapRec /\ tracked.current = current /\ tracked.executing = maps.executing
      /\ tracked.mutation = maps.mutation /\ tracked.old = maps.old
      /\ tracked.bash = maps.bash /\ tracked.output = maps.output
      /\ tracked.command = maps.command
  BY <1>5 DEF Good, MapRec
<1> HIDE DEF tracked
<1>7. /\ m \in MapRec /\ m.current = current /\ m.executing = maps.executing
      /\ m.mutation = maps.mutation /\ m.old = maps.old /\ m.output = maps.output
      /\ m.bash = IF IsBash(c) THEN maps.bash \cup {c} ELSE maps.bash
      /\ m.command = IF IsBash(c)
                     THEN [maps.command EXCEPT ![c] = IF named THEN "command" ELSE "name"]
                     ELSE maps.command
  <2>1. CASE IsBash(c)
    BY <1>6, <2>1, CommandedMaps
  <2>2. CASE ~IsBash(c)
    BY <1>6, <2>2
  <2> QED BY <2>1, <2>2
<1> HIDE DEF m
<1>8. Says(f, c, existing = Absent, f.title, status, Absent, <<>>, Absent)
  <2> DEFINE first == existing = Absent
  <2>1. /\ Absent \in Titles /\ "name" \in Titles /\ Absent \in Contents
        /\ Absent \in Kinds \cup {Absent} /\ <<>> \in Seq(Chars) /\ Absent \in {Absent, 0, 1}
        /\ first \in BOOLEAN
    BY DEF Titles, Contents
  <2>2. CASE IsBash(c)
    <3> DEFINE g == BashFact(m, c, first, status, <<>>, Absent)
    <3>1. f = g
      BY <2>2
    <3> HIDE DEF status, first
    <3>2. Says(g, c, first, m.command[c], status, Absent, <<>>, Absent)
      BY <1>4, <1>7, <2>1, BashFactSays
    <3> HIDE DEF f, g
    <3> QED BY <3>1, <3>2 DEF Says, first
  <2>3. CASE ~IsBash(c) /\ existing = Absent
    <3> DEFINE g == Fact(c, TRUE, "name", Kind[way.tool[c]], status, Absent)
    <3>1. way.tool[c] \in {"edit", "write", "read"}
      BY <2>3, ToolAssumption DEF QueueTypes, IsBash, Calls
    <3>2. Kind[way.tool[c]] \in Kinds \cup {Absent}
      BY <3>1 DEF Kind, Kinds
    <3>3. f = g
      BY <2>3
    <3> HIDE DEF status
    <3>4. Says(g, c, TRUE, "name", status, Absent, <<>>, Absent)
      BY <1>4, <2>1, <3>2, FactSays
    <3> HIDE DEF f, g
    <3> QED BY <2>3, <3>3, <3>4 DEF Says
  <2>4. CASE ~IsBash(c) /\ existing # Absent
    <3> DEFINE g == Fact(c, FALSE, Absent, Absent, status, Absent)
    <3>1. f = g
      BY <2>4
    <3> HIDE DEF status
    <3>2. Says(g, c, FALSE, Absent, status, Absent, <<>>, Absent)
      BY <1>4, <2>1, FactSays
    <3> HIDE DEF f, g
    <3> QED BY <2>4, <3>1, <3>2 DEF Says
  <2> QED BY <2>2, <2>3, <2>4
<1> HIDE DEF f
<1>9. f.first <=> view.v2[c].status = Absent
  BY <1>3, <1>8, Words DEF Known, Tracked, Says
<1>10. Opening(f)
  BY <1>4, <1>8 DEF Opening, Says
<1>11. /\ ViewTypes' /\ ViewsAlike' /\ stray' = {}
       /\ \A id \in Ids : id # c =>
             view'.v1[id] = view.v1[id] /\ view'.v2[id] = view.v2[id]
       /\ view'.v2[c].status = status
       /\ view'.v2[c].content = Or(Absent, view.v2[c].content)
       /\ view'.v2[c].term = view.v2[c].term \o <<>>
  <2>1. /\ f \in FrameRec /\ f.id = c /\ f.status = status /\ f.content = Absent
        /\ f.delta = <<>>
    BY <1>8 DEF Says
  <2> QED BY <1>2, <1>9, <1>10, <2>1, Emits DEF Good
<1>12. view.v2[c].term \o <<>> = view.v2[c].term
  BY ConcatEmpty DEF Good, ViewTypes, CallRec
<1>13. maps' \in MapRec /\ \A id \in Ids : id # c => Untouched(id)
  BY <1>2, <1>7, <1>11 DEF Untouched, current, MapRec, Good
<1> QED BY <1>2, <1>5, <1>7, <1>11, <1>12, <1>13 DEF Good, Or, MapRec

\* on_tool_execution_start tracks the call as running and snapshots an edit's file.
LEMMA Starts ==
    ASSUME QueueTypes, Good, UNCHANGED way, NEW c \in Ids,
           MapsOf(c), Known(c), ~Finished(c), on_tool_execution_start(c)
    PROVE  /\ Good' /\ \A id \in Ids : id # c => Untouched(id)
           /\ maps'.current[c] = "in_progress"
           /\ maps'.executing = maps.executing \cup {c}
           /\ c \in maps'.mutation <=> c \in maps.mutation \/ IsMutation(c)
           /\ maps'.old[c] = IF IsMutation(c) THEN file ELSE maps.old[c]
           /\ maps'.output = maps.output
           /\ c \in maps'.bash <=> c \in maps.bash \/ IsBash(c)
           /\ maps'.command[c] = IF IsBash(c) THEN "command" ELSE maps.command[c]
           /\ view'.v2[c].status = "in_progress"
           /\ view'.v2[c].content = view.v2[c].content
           /\ view'.v2[c].term = view.v2[c].term
<1> DEFINE existing == maps.current[c]
           current == [maps.current EXCEPT ![c] = "in_progress"]
           old == [maps.old EXCEPT ![c] = file]
           running == [maps EXCEPT !.current = current, !.executing = @ \cup {c}]
           editing == [running EXCEPT !.mutation = @ \cup {c}, !.old = old]
           m == IF IsBash(c) THEN Commanded(running, c, TRUE)
                ELSE IF IsMutation(c) THEN editing ELSE running
           first == existing = Absent
           f == IF IsBash(c) THEN BashFact(m, c, first, "in_progress", <<>>, Absent)
                ELSE Fact(c, first, IF first THEN "name" ELSE Absent, Absent,
                          "in_progress", Absent)
<1>1. maps' = m /\ Emit(f)
  BY DEF on_tool_execution_start, Good, MapRec
<1>2. existing \in {Absent, "pending", "in_progress"} /\ "in_progress" \in Statuses
  BY DEF Good, MapRec, Statuses
<1>3. /\ current \in [Ids -> {Absent, "pending", "in_progress"}] /\ current[c] = "in_progress"
      /\ \A id \in Ids : id # c => current[id] = maps.current[id]
  BY DEF Good, MapRec
<1>4. /\ old \in [Ids -> {Absent} \cup 0 .. MaxWrites] /\ old[c] = file
      /\ \A id \in Ids : id # c => old[id] = maps.old[id]
  BY DEF Good, MapRec, QueueTypes
<1> HIDE DEF current, old
<1>5. /\ running \in MapRec /\ running.current = current
      /\ running.executing = maps.executing \cup {c}
      /\ running.mutation = maps.mutation /\ running.old = maps.old
      /\ running.bash = maps.bash /\ running.output = maps.output
      /\ running.command = maps.command
  BY <1>3 DEF Good, MapRec
<1> HIDE DEF running
<1>6. /\ editing \in MapRec /\ editing.current = current
      /\ editing.executing = maps.executing \cup {c}
      /\ editing.mutation = maps.mutation \cup {c} /\ editing.old = old
      /\ editing.bash = maps.bash /\ editing.output = maps.output
      /\ editing.command = maps.command
  BY <1>4, <1>5 DEF MapRec
<1> HIDE DEF editing
<1>7. ~(IsBash(c) /\ IsMutation(c))
  BY DEF IsBash, IsMutation
<1>8. /\ m \in MapRec /\ m.current = current /\ m.executing = maps.executing \cup {c}
      /\ m.mutation = IF IsMutation(c) THEN maps.mutation \cup {c} ELSE maps.mutation
      /\ m.old = IF IsMutation(c) THEN old ELSE maps.old
      /\ m.output = maps.output
      /\ m.bash = IF IsBash(c) THEN maps.bash \cup {c} ELSE maps.bash
      /\ m.command = IF IsBash(c) THEN [maps.command EXCEPT ![c] = "command"] ELSE maps.command
  <2>1. CASE IsBash(c)
    <3> DEFINE command == [maps.command EXCEPT ![c] = "command"]
    <3>1. command \in [Ids -> {Absent, "name", "command"}]
      BY DEF Good, MapRec
    <3>2. m = [running EXCEPT !.bash = @ \cup {c}, !.command = command]
      BY <1>5, <2>1 DEF Commanded, MapRec
    <3> HIDE DEF m, command
    <3>3. /\ m \in MapRec /\ m.current = running.current /\ m.executing = running.executing
          /\ m.mutation = running.mutation /\ m.old = running.old
          /\ m.output = running.output /\ m.bash = running.bash \cup {c} /\ m.command = command
      BY <1>5, <3>1, <3>2 DEF MapRec
    <3> QED BY <1>5, <1>7, <2>1, <3>3 DEF command
  <2>2. CASE IsMutation(c)
    BY <1>6, <1>7, <2>2
  <2>3. CASE ~IsBash(c) /\ ~IsMutation(c)
    BY <1>5, <2>3
  <2> QED BY <2>1, <2>2, <2>3
<1> HIDE DEF m
<1>9. Says(f, c, first, f.title, "in_progress", Absent, <<>>, Absent)
  <2>1. /\ Absent \in Titles /\ "name" \in Titles /\ Absent \in Contents
        /\ Absent \in Kinds \cup {Absent} /\ <<>> \in Seq(Chars) /\ Absent \in {Absent, 0, 1}
        /\ first \in BOOLEAN /\ (IF first THEN "name" ELSE Absent) \in Titles
    BY DEF Titles, Contents
  <2>2. CASE IsBash(c)
    <3> DEFINE g == BashFact(m, c, first, "in_progress", <<>>, Absent)
    <3>1. f = g
      BY <2>2
    <3> HIDE DEF first
    <3>2. Says(g, c, first, m.command[c], "in_progress", Absent, <<>>, Absent)
      BY <1>2, <1>8, <2>1, BashFactSays
    <3> HIDE DEF f, g
    <3> QED BY <3>1, <3>2 DEF Says
  <2>3. CASE ~IsBash(c)
    <3> DEFINE title == IF first THEN "name" ELSE Absent
               g == Fact(c, first, title, Absent, "in_progress", Absent)
    <3>1. f = g
      BY <2>3
    <3> HIDE DEF first, title
    <3>2. Says(g, c, first, title, "in_progress", Absent, <<>>, Absent)
      BY <1>2, <2>1, FactSays DEF title
    <3> HIDE DEF f, g
    <3> QED BY <3>1, <3>2 DEF Says
  <2> QED BY <2>2, <2>3
<1> HIDE DEF f
<1>10. /\ f.first <=> view.v2[c].status = Absent
       /\ Opening(f)
  BY <1>2, <1>9, Words DEF Known, Tracked, Says, Opening
<1>11. /\ f \in FrameRec /\ f.id = c /\ f.status = "in_progress" /\ f.content = Absent
       /\ f.delta = <<>>
  BY <1>9 DEF Says
<1>12. /\ ViewTypes' /\ ViewsAlike' /\ stray' = {}
       /\ \A id \in Ids : id # c =>
             view'.v1[id] = view.v1[id] /\ view'.v2[id] = view.v2[id]
       /\ view'.v2[c].status = "in_progress"
       /\ view'.v2[c].content = Or(Absent, view.v2[c].content)
       /\ view'.v2[c].term = view.v2[c].term \o <<>>
  BY <1>1, <1>10, <1>11, Emits DEF Good
<1>13. view.v2[c].term \o <<>> = view.v2[c].term
  BY ConcatEmpty DEF Good, ViewTypes, CallRec
<1>14. maps' \in MapRec /\ \A id \in Ids : id # c => Untouched(id)
  BY <1>1, <1>3, <1>4, <1>8, <1>12 DEF Untouched, MapRec, Good
<1> QED BY <1>1, <1>3, <1>4, <1>8, <1>12, <1>13, <1>14 DEF Good, Or, MapRec

\* on_tool_execution_update holds a bash call's output and sends what is new of it.
LEMMA Updates ==
    ASSUME QueueTypes, Good, UNCHANGED way, NEW c \in Ids, NEW text \in Seq(Chars),
           MapsOf(c), Known(c), c \in maps.executing, on_tool_execution_update(c, text)
    PROVE  /\ Good' /\ \A id \in Ids : id # c => Untouched(id)
           /\ maps'.current = maps.current /\ maps'.executing = maps.executing
           /\ maps'.mutation = maps.mutation /\ maps'.old = maps.old
           /\ maps'.bash = maps.bash /\ maps'.command = maps.command
           /\ maps'.output[c] = IF IsBash(c) THEN text ELSE maps.output[c]
           /\ view'.v2[c].status = "in_progress"
           /\ IsMutation(c) => view'.v2[c].content = view.v2[c].content
           /\ view'.v2[c].term =
                 IF IsBash(c)
                 THEN view.v2[c].term \o bash_output_delta(OrEmpty(maps.output[c]), text)
                 ELSE view.v2[c].term
<1>1. c # NoId
  BY ToolAssumption
<1>2. /\ Tracked(c) /\ view.v2[c].status # Absent /\ (c \in maps.bash <=> IsBash(c))
      /\ (c \in maps.mutation <=> IsMutation(c))
  BY Words DEF MapsOf, Known, Tracked
<1>3. "in_progress" \in Statuses /\ "in_progress" \notin {"completed", "failed"}
  BY DEF Statuses
<1>4. CASE IsBash(c)
  <2> DEFINE output == [maps.output EXCEPT ![c] = text]
             delta == bash_output_delta(OrEmpty(maps.output[c]), text)
             f == BashFact(maps, c, FALSE, "in_progress", delta, Absent)
  <2>1. maps' = [maps EXCEPT !.output = output] /\ Emit(f)
    BY <1>1, <1>2, <1>4 DEF on_tool_execution_update, emit_bash_output_update, Good, MapRec
  <2>2. /\ output \in [Ids -> {Absent} \cup Seq(Chars)] /\ output[c] = text
        /\ \A id \in Ids : id # c => output[id] = maps.output[id]
    BY DEF Good, MapRec
  <2>3. OrEmpty(maps.output[c]) \in Seq(Chars)
    BY DEF OrEmpty, Good, MapRec
  <2>4. delta \in Seq(Chars)
    BY <2>3, DeltaCompletes
  <2> HIDE DEF output, delta
  <2>5. /\ maps' \in MapRec /\ maps'.output = output
        /\ maps'.current = maps.current /\ maps'.executing = maps.executing
        /\ maps'.mutation = maps.mutation /\ maps'.old = maps.old
        /\ maps'.bash = maps.bash /\ maps'.command = maps.command
    BY <2>1, <2>2 DEF Good, MapRec
  <2>6. Says(f, c, FALSE, maps.command[c], "in_progress", Absent, delta, Absent)
    BY <1>3, <2>4, BashFactSays DEF Good
  <2> HIDE DEF f
  <2>7. /\ f \in FrameRec /\ f.id = c /\ ~f.first /\ f.status = "in_progress"
        /\ f.content = Absent /\ f.delta = delta
    BY <2>6 DEF Says
  <2>8. Opening(f)
    BY <2>7 DEF Opening
  <2>9. /\ ViewTypes' /\ ViewsAlike' /\ stray' = {}
        /\ \A id \in Ids : id # c =>
              view'.v1[id] = view.v1[id] /\ view'.v2[id] = view.v2[id]
        /\ view'.v2[c].status = "in_progress"
        /\ view'.v2[c].term = view.v2[c].term \o delta
    BY <1>2, <2>1, <2>7, <2>8, Emits DEF Good
  <2>10. ~IsMutation(c)
    BY <1>4 DEF IsBash, IsMutation
  <2>11. \A id \in Ids : id # c => Untouched(id)
    BY <2>2, <2>5, <2>9 DEF Untouched
  <2> QED BY <1>4, <2>2, <2>5, <2>9, <2>10, <2>11 DEF Good, delta
<1>5. CASE ~IsBash(c)
  <2> DEFINE content == IF c \in maps.mutation \/ text = <<>> THEN Absent ELSE [text |-> text]
             f == Fact(c, FALSE, Absent, Absent, "in_progress", content)
  <2>1. maps' = maps /\ Emit(f)
    BY <1>1, <1>2, <1>5 DEF on_tool_execution_update
  <2>2. /\ content \in Contents /\ (IsMutation(c) => content = Absent)
        /\ Absent \in Titles /\ Absent \in Kinds \cup {Absent} /\ FALSE \in BOOLEAN
    BY <1>2 DEF Contents, Titles
  <2> HIDE DEF content
  <2>3. Says(f, c, FALSE, Absent, "in_progress", content, <<>>, Absent)
    BY <1>3, <2>2, FactSays
  <2> HIDE DEF f
  <2>4. /\ f \in FrameRec /\ f.id = c /\ ~f.first /\ f.status = "in_progress"
        /\ f.content = content /\ f.delta = <<>>
    BY <2>3 DEF Says
  <2>5. Opening(f)
    BY <2>4 DEF Opening
  <2>6. /\ ViewTypes' /\ ViewsAlike' /\ stray' = {}
        /\ \A id \in Ids : id # c =>
              view'.v1[id] = view.v1[id] /\ view'.v2[id] = view.v2[id]
        /\ view'.v2[c].status = "in_progress"
        /\ view'.v2[c].content = Or(content, view.v2[c].content)
        /\ view'.v2[c].term = view.v2[c].term \o <<>>
    BY <1>2, <1>5, <2>1, <2>4, <2>5, Emits DEF Good
  <2>7. view.v2[c].term \o <<>> = view.v2[c].term
    BY ConcatEmpty DEF Good, ViewTypes, CallRec
  <2>8. \A id \in Ids : id # c => Untouched(id)
    BY <2>1, <2>6 DEF Untouched
  <2> QED BY <1>5, <2>1, <2>2, <2>6, <2>7, <2>8 DEF Good, Or
<1> QED BY <1>4, <1>5

\* on_bash_execution_update puts the new part to the output and sends it.
LEMMA BashStreams ==
    ASSUME QueueTypes, Good, UNCHANGED way, NEW c \in Ids, NEW text \in Seq(Chars),
           MapsOf(c), Known(c), c \in maps.executing, on_bash_execution_update(c, text)
    PROVE  /\ Good' /\ \A id \in Ids : id # c => Untouched(id)
           /\ maps'.current = maps.current /\ maps'.executing = maps.executing
           /\ maps'.mutation = maps.mutation /\ maps'.old = maps.old
           /\ maps'.bash = maps.bash /\ maps'.command = maps.command
           /\ ~IsBash(c) => maps'.output[c] = maps.output[c]
           /\ IsBash(c) /\ text # <<>> => maps'.output[c] = OrEmpty(maps.output[c]) \o text
           /\ IsBash(c) /\ text = <<>> => maps'.output[c] = maps.output[c]
           /\ view'.v2[c].status = "in_progress"
           /\ view'.v2[c].content = view.v2[c].content
           /\ view'.v2[c].term =
                 IF IsBash(c) THEN view.v2[c].term \o text ELSE view.v2[c].term
<1>1. /\ Tracked(c) /\ view.v2[c].status = "in_progress" /\ view.v2[c].status # Absent
      /\ (c \in maps.bash <=> IsBash(c))
  BY Words DEF MapsOf, Known, Tracked
<1>2. "in_progress" \in Statuses /\ "in_progress" \notin {"completed", "failed"}
  BY DEF Statuses
<1>3. view.v2[c].term \o <<>> = view.v2[c].term
  BY ConcatEmpty DEF Good, ViewTypes, CallRec
<1>4. CASE ~IsBash(c) \/ text = <<>>
  <2>1. maps' = maps /\ UNCHANGED <<view, stray>>
    BY <1>1, <1>4 DEF on_bash_execution_update, Silent
  <2>2. ViewsAlike'
    BY <2>1 DEF Good, ViewsAlike, IsBash
  <2>3. Good' /\ \A id \in Ids : Untouched(id)
    BY <2>1, <2>2 DEF Good, ViewTypes, Untouched
  <2> QED BY <1>1, <1>3, <1>4, <2>1, <2>3
<1>5. CASE IsBash(c) /\ text # <<>>
  <2> DEFINE all == OrEmpty(maps.output[c]) \o text
             output == [maps.output EXCEPT ![c] = all]
             m == [maps EXCEPT !.output = output]
             f == BashFact(m, c, FALSE, "in_progress", text, Absent)
  <2>1. maps' = m /\ Emit(f)
    BY <1>1, <1>5 DEF on_bash_execution_update, Good, MapRec
  <2>2. OrEmpty(maps.output[c]) \in Seq(Chars)
    BY DEF OrEmpty, Good, MapRec
  <2>3. all \in Seq(Chars)
    BY <2>2
  <2> HIDE DEF all
  <2>4. /\ output \in [Ids -> {Absent} \cup Seq(Chars)] /\ output[c] = all
        /\ \A id \in Ids : id # c => output[id] = maps.output[id]
    BY <2>3 DEF Good, MapRec
  <2> HIDE DEF output
  <2>5. /\ m \in MapRec /\ m.output = output
        /\ m.current = maps.current /\ m.executing = maps.executing
        /\ m.mutation = maps.mutation /\ m.old = maps.old
        /\ m.bash = maps.bash /\ m.command = maps.command
    BY <2>4 DEF Good, MapRec
  <2> HIDE DEF m
  <2>6. Says(f, c, FALSE, m.command[c], "in_progress", Absent, text, Absent)
    BY <1>2, <2>5, BashFactSays
  <2> HIDE DEF f
  <2>7. /\ f \in FrameRec /\ f.id = c /\ ~f.first /\ f.status = "in_progress"
        /\ f.content = Absent /\ f.delta = text
    BY <2>6 DEF Says
  <2>8. Opening(f)
    BY <2>7 DEF Opening
  <2>9. /\ ViewTypes' /\ ViewsAlike' /\ stray' = {}
        /\ \A id \in Ids : id # c =>
              view'.v1[id] = view.v1[id] /\ view'.v2[id] = view.v2[id]
        /\ view'.v2[c].status = "in_progress"
        /\ view'.v2[c].content = Or(Absent, view.v2[c].content)
        /\ view'.v2[c].term = view.v2[c].term \o text
    BY <1>1, <2>1, <2>7, <2>8, Emits DEF Good
  <2>10. \A id \in Ids : id # c => Untouched(id)
    BY <2>1, <2>4, <2>5, <2>9 DEF Untouched
  <2> QED BY <1>5, <2>1, <2>4, <2>5, <2>9, <2>10 DEF Good, Or, all
<1> QED BY <1>4, <1>5

\* cleanup_tool_call leaves the call in no map, and other calls alone.
LEMMA CleanedMaps ==
    ASSUME NEW m \in MapRec, NEW id \in Ids
    PROVE  LET c == cleanup_tool_call(m, id) IN
           /\ c \in MapRec
           /\ c.current = [m.current EXCEPT ![id] = Absent]
           /\ c.executing = m.executing \ {id} /\ c.mutation = m.mutation \ {id}
           /\ c.old = [m.old EXCEPT ![id] = Absent] /\ c.bash = m.bash \ {id}
           /\ c.output = [m.output EXCEPT ![id] = Absent]
           /\ c.command = [m.command EXCEPT ![id] = Absent]
<1>1. /\ [m.current EXCEPT ![id] = Absent] \in [Ids -> {Absent, "pending", "in_progress"}]
      /\ [m.command EXCEPT ![id] = Absent] \in [Ids -> {Absent, "name", "command"}]
  BY DEF MapRec
<1>2. [m.old EXCEPT ![id] = Absent] \in [Ids -> {Absent} \cup 0 .. MaxWrites]
  BY DEF MapRec
<1>3. [m.output EXCEPT ![id] = Absent] \in [Ids -> {Absent} \cup Seq(Chars)]
  BY DEF MapRec
<1>4. m.executing \ {id} \in SUBSET Ids /\ m.mutation \ {id} \in SUBSET Ids /\ m.bash \ {id} \in SUBSET Ids
  BY DEF MapRec
<1> QED BY <1>1, <1>2, <1>3, <1>4 DEF cleanup_tool_call, MapRec

\* A diff is of the snapshot and the file as it is when the end is handled.
LEMMA OutcomeIs ==
    ASSUME QueueTypes, maps \in MapRec, NEW c \in Ids,
           NEW text \in Seq(Chars), NEW err \in BOOLEAN
    PROVE  /\ Outcome(c, text, err) \in Contents
           /\ \/ /\ ~err /\ maps.old[c] \in Nat /\ maps.old[c] # file
                 /\ Outcome(c, text, err) = [old |-> maps.old[c], new |-> file]
              \/ Outcome(c, text, err) = Absent
              \/ Outcome(c, text, err) = [text |-> text]
<1>1. CASE ~err /\ maps.old[c] # Absent /\ file # 0 /\ maps.old[c] # file
  <2>1. maps.old[c] \in Nat /\ file \in Nat
    BY <1>1, ToolAssumption DEF MapRec, QueueTypes
  <2>2. Outcome(c, text, err) = [old |-> maps.old[c], new |-> file]
    BY <1>1 DEF Outcome
  <2> QED BY <1>1, <2>1, <2>2 DEF Contents
<1>2. CASE ~(~err /\ maps.old[c] # Absent /\ file # 0 /\ maps.old[c] # file)
  <2>1. Outcome(c, text, err) = IF text = <<>> THEN Absent ELSE [text |-> text]
    BY <1>2 DEF Outcome
  <2> QED BY <2>1 DEF Contents
<1> QED BY <1>1, <1>2

\* on_tool_execution_end sends the rest of the output, or the outcome, and forgets the call.
LEMMA CallEnds ==
    ASSUME QueueTypes, Good, UNCHANGED way, NEW c \in Ids, NEW text \in Seq(Chars),
           NEW err \in BOOLEAN,
           MapsOf(c), Known(c), c \in maps.executing, on_tool_execution_end(c, text, err)
    PROVE  /\ Good' /\ \A id \in Ids : id # c => Untouched(id)
           /\ maps'.current[c] = Absent /\ c \notin maps'.executing /\ c \notin maps'.mutation
           /\ maps'.old[c] = Absent /\ c \notin maps'.bash /\ maps'.output[c] = Absent
           /\ maps'.command[c] = Absent
           /\ maps'.executing = maps.executing \ {c}
           /\ view'.v2[c].status = IF err THEN "failed" ELSE "completed"
           /\ ~IsBash(c) => view'.v2[c].content = Or(Outcome(c, text, err), view.v2[c].content)
           /\ IsBash(c) => /\ view'.v2[c].exit = IF err THEN 1 ELSE 0
                           /\ view'.v2[c].title = maps.command[c]
           /\ view'.v2[c].term =
                 IF IsBash(c)
                 THEN view.v2[c].term \o bash_output_delta(OrEmpty(maps.output[c]), text)
                 ELSE view.v2[c].term
<1> DEFINE status == IF err THEN "failed" ELSE "completed"
           exit == IF err THEN 1 ELSE 0
<1>1. c # NoId
  BY ToolAssumption
<1>2. /\ Tracked(c) /\ view.v2[c].status # Absent /\ (c \in maps.bash <=> IsBash(c))
      /\ maps.command[c] # Absent <=> IsBash(c)
  BY Words DEF MapsOf, Known, Tracked
<1>3. status \in Statuses /\ status \in {"completed", "failed"}
  BY DEF Statuses
<1>4. exit \in {Absent, 0, 1} /\ exit # Absent
  BY Words
<1>5. /\ maps' = cleanup_tool_call(maps, c)
      /\ IF IsBash(c) THEN emit_bash_output_update(c, status, text, exit)
         ELSE Emit(Fact(c, FALSE, Absent, Absent, status, Outcome(c, text, err)))
  BY <1>1, <1>2 DEF on_tool_execution_end
<1> HIDE DEF status, exit
<1>6. /\ maps' \in MapRec
      /\ maps'.current = [maps.current EXCEPT ![c] = Absent]
      /\ maps'.executing = maps.executing \ {c} /\ maps'.mutation = maps.mutation \ {c}
      /\ maps'.old = [maps.old EXCEPT ![c] = Absent] /\ maps'.bash = maps.bash \ {c}
      /\ maps'.output = [maps.output EXCEPT ![c] = Absent]
      /\ maps'.command = [maps.command EXCEPT ![c] = Absent]
  BY <1>5, CleanedMaps DEF Good
<1>7. /\ maps'.current[c] = Absent /\ c \notin maps'.executing /\ c \notin maps'.mutation
      /\ maps'.old[c] = Absent /\ c \notin maps'.bash /\ maps'.output[c] = Absent
      /\ maps'.command[c] = Absent
  BY <1>6 DEF Good, MapRec
<1>8. \A id \in Ids : id # c =>
         /\ maps'.current[id] = maps.current[id]
         /\ id \in maps'.executing <=> id \in maps.executing
         /\ id \in maps'.mutation <=> id \in maps.mutation
         /\ maps'.old[id] = maps.old[id]
         /\ id \in maps'.bash <=> id \in maps.bash
         /\ maps'.output[id] = maps.output[id]
         /\ maps'.command[id] = maps.command[id]
  BY <1>6 DEF Good, MapRec
<1>9. CASE IsBash(c)
  <2> DEFINE delta == bash_output_delta(OrEmpty(maps.output[c]), text)
             f == BashFact(maps, c, FALSE, status, delta, exit)
  <2>1. Emit(f)
    BY <1>5, <1>9 DEF emit_bash_output_update
  <2>2. OrEmpty(maps.output[c]) \in Seq(Chars)
    BY DEF OrEmpty, Good, MapRec
  <2>3. delta \in Seq(Chars)
    BY <2>2, DeltaCompletes
  <2> HIDE DEF delta
  <2>4. Says(f, c, FALSE, maps.command[c], status, Absent, delta, exit)
    BY <1>3, <1>4, <2>3, BashFactSays DEF Good
  <2> HIDE DEF f
  <2>5. /\ f \in FrameRec /\ f.id = c /\ ~f.first /\ f.status = status
        /\ f.content = Absent /\ f.delta = delta /\ f.exit = exit /\ f.title = maps.command[c]
    BY <2>4 DEF Says
  <2>6. Opening(f)
    BY <2>5 DEF Opening
  <2>7. /\ ViewTypes' /\ ViewsAlike' /\ stray' = {}
        /\ \A id \in Ids : id # c =>
              view'.v1[id] = view.v1[id] /\ view'.v2[id] = view.v2[id]
        /\ view'.v2[c].status = status
        /\ view'.v2[c].title = Or(maps.command[c], view.v2[c].title)
        /\ view'.v2[c].exit =
              Or(IF status \in {"completed", "failed"} THEN exit ELSE Absent, view.v2[c].exit)
        /\ view'.v2[c].term = view.v2[c].term \o delta
    BY <1>2, <2>1, <2>5, <2>6, Emits DEF Good
  <2>8. \A id \in Ids : id # c => Untouched(id)
    BY <1>8, <2>7 DEF Untouched
  <2>9. Good'
    BY <1>6, <2>7 DEF Good
  <2>10. view'.v2[c].exit = exit /\ view'.v2[c].title = maps.command[c]
    BY <1>2, <1>3, <1>4, <1>9, <2>7 DEF Or
  <2> QED BY <1>6, <1>7, <1>9, <2>7, <2>8, <2>9, <2>10 DEF delta, status, exit
<1>10. CASE ~IsBash(c)
  <2> DEFINE content == Outcome(c, text, err)
             f == Fact(c, FALSE, Absent, Absent, status, content)
  <2>1. Emit(f)
    BY <1>5, <1>10
  <2>2. /\ content \in Contents
        /\ Absent \in Titles /\ Absent \in Kinds \cup {Absent} /\ FALSE \in BOOLEAN
    BY OutcomeIs DEF Titles, Good
  <2> HIDE DEF content
  <2>3. Says(f, c, FALSE, Absent, status, content, <<>>, Absent)
    BY <1>3, <2>2, FactSays
  <2> HIDE DEF f
  <2>4. /\ f \in FrameRec /\ f.id = c /\ ~f.first /\ f.status = status
        /\ f.content = content /\ f.delta = <<>>
    BY <2>3 DEF Says
  <2>5. Opening(f)
    BY <2>4 DEF Opening
  <2>6. /\ ViewTypes' /\ ViewsAlike' /\ stray' = {}
        /\ \A id \in Ids : id # c =>
              view'.v1[id] = view.v1[id] /\ view'.v2[id] = view.v2[id]
        /\ view'.v2[c].status = status
        /\ view'.v2[c].content = Or(content, view.v2[c].content)
        /\ view'.v2[c].term = view.v2[c].term \o <<>>
    BY <1>2, <1>10, <2>1, <2>4, <2>5, Emits DEF Good
  <2>7. view.v2[c].term \o <<>> = view.v2[c].term
    BY ConcatEmpty DEF Good, ViewTypes, CallRec
  <2>8. \A id \in Ids : id # c => Untouched(id)
    BY <1>8, <2>6 DEF Untouched
  <2>9. Good'
    BY <1>6, <2>6 DEF Good
  <2> QED BY <1>6, <1>7, <1>10, <2>6, <2>7, <2>8, <2>9 DEF content, status
<1> QED BY <1>9, <1>10

-----------------------------------------------------------------------------
(* What the clients see of a call.                                         *)

Ended(id) == Finished(id) =>
    /\ view.v2[id].status = IF pi[id].err THEN "failed" ELSE "completed"
    /\ IsBash(id) => /\ view.v2[id].exit = IF pi[id].err THEN 1 ELSE 0
                     /\ ~way.late => view.v2[id].title = "command"
\* A call that runs has its command, if pi does not stream its name again.
Commands(id) ==
    id \in maps.executing /\ IsBash(id) /\ ~way.late => maps.command[id] = "command"
\* The snapshot an edit's diff starts from is not older than the call.
Edited(id) ==
    /\ pi[id].before <= file
    /\ maps.old[id] # Absent => pi[id].before <= maps.old[id] /\ maps.old[id] <= file
RealDiff(id) == LET content == view.v2[id].content IN
    IsMutation(id) /\ content # Absent /\ "old" \in DOMAIN content =>
       /\ pi[id].exe = "ended" /\ ~pi[id].err
       /\ pi[id].before <= content.old /\ content.old < content.new
Seen(id) == MapsOf(id) /\ Known(id) /\ Ended(id) /\ Commands(id) /\ Edited(id) /\ RealDiff(id)

\* A call that is tracked, or of which an event waits, is not finished.
LEMMA NotFinished ==
    ASSUME NEW id \in Ids, Waiting(id), Tracked(id) \/ ~Heard(id)
    PROVE  ~Finished(id)
<1>1. Queued("end", id) => ~Heard(id)
  BY DEF Queued, Is, Heard
<1> QED BY <1>1 DEF Finished, Waiting

\* The same of the next state.
LEMMA NotFinishedThen ==
    ASSUME NEW id \in Ids, Waiting(id)', Tracked(id)'
    PROVE  ~Finished(id)'
<1>1. Queued("end", id)' => ~Heard(id)'
  BY DEF Queued, Is, Heard
<1> QED BY <1>1 DEF Finished, Waiting

\* The pump handled an event of another call.
LEMMA OthersStayFinished ==
    ASSUME QueueTypes, NEW id \in Ids, UNCHANGED pi,
           events # <<>>, events' = Tail(events), events[1].id # id
    PROVE  Finished(id)' <=> Finished(id)
<1>1. /\ Len(events) \in Nat /\ Len(events') = Len(events) - 1
      /\ \A i \in 1 .. Len(events') : events'[i] = events[i + 1]
  BY Taken
<1>2. ASSUME Heard(id)', NEW i \in 1 .. Len(events) PROVE events[i].id # id
  <2>1. CASE i = 1
    BY <2>1
  <2>2. CASE i # 1
    <3>1. i - 1 \in 1 .. Len(events') /\ events'[i - 1] = events[i]
      BY <1>1, <2>2
    <3> QED BY <1>2, <3>1 DEF Heard
  <2> QED BY <2>1, <2>2
<1>3. ASSUME Heard(id), NEW i \in 1 .. Len(events') PROVE events'[i].id # id
  BY <1>1, <1>3 DEF Heard
<1>4. Heard(id)' <=> Heard(id)
  BY <1>2, <1>3 DEF Heard
<1> QED BY <1>4 DEF Finished

\* What the clients saw of a call stands while the pump handles another's event.
LEMMA OthersStaySeen ==
    ASSUME QueueTypes, NEW id \in Ids, Seen(id), Untouched(id), UNCHANGED <<pi, file, way>>,
           events # <<>>, events' = Tail(events), events[1].id # id
    PROVE  Seen(id)'
<1>1. Finished(id)' <=> Finished(id)
  BY OthersStayFinished
<1>2. (IsBash(id)' <=> IsBash(id)) /\ (IsMutation(id)' <=> IsMutation(id))
      /\ (Tracked(id)' <=> Tracked(id))
  BY DEF IsBash, IsMutation, Tracked, Untouched
<1>3. MapsOf(id)' /\ Known(id)'
  BY <1>1, <1>2 DEF Seen, MapsOf, Known, Untouched
<1>4. Ended(id)' /\ Commands(id)'
  BY <1>1, <1>2 DEF Seen, Ended, Commands, Untouched
<1>5. Edited(id)' /\ RealDiff(id)'
  BY <1>2 DEF Seen, Edited, RealDiff, Untouched
<1> QED BY <1>3, <1>4, <1>5 DEF Seen

\* After each event but the end the call is tracked, and not finished.
LEMMA SurfacedIsSeen ==
    ASSUME QueueTypes, Good, UNCHANGED <<pi, file, way>>, NEW c \in Ids,
           NEW named \in BOOLEAN, Calls(c), Seen(c), Waiting(c), Waiting(c)', ~Heard(c),
           ~way.late => c \notin maps.executing, surface_tool_call(c, named)
    PROVE  Seen(c)'
<1>1. ~Finished(c)
  BY NotFinished
<1>2. /\ maps'.current[c] = Or(maps.current[c], "pending")
      /\ maps'.executing = maps.executing /\ maps'.mutation = maps.mutation
      /\ maps'.old = maps.old /\ maps'.output = maps.output
      /\ c \in maps'.bash <=> c \in maps.bash \/ IsBash(c)
      /\ IsBash(c) => maps'.command[c] \in {"name", "command"}
      /\ ~IsBash(c) => maps'.command[c] = maps.command[c]
      /\ view'.v2[c].status = maps'.current[c]
      /\ view'.v2[c].content = view.v2[c].content
  BY <1>1, Surfaces DEF Seen
<1>3. maps.current[c] \in {Absent, "pending", "in_progress"}
  BY DEF Good, MapRec
<1>4. maps'.current[c] # Absent /\ (maps'.current[c] = "in_progress" <=> maps.current[c] = "in_progress")
  BY <1>2, <1>3, Words DEF Or
<1>5. Tracked(c)'
  BY <1>4 DEF Tracked
<1>6. ~Finished(c)'
  BY <1>5, NotFinishedThen
<1>7. (IsBash(c)' <=> IsBash(c)) /\ (IsMutation(c)' <=> IsMutation(c))
  BY DEF IsBash, IsMutation
<1>8. MapsOf(c)'
  <2>1. c \in maps'.bash <=> IsBash(c)
    BY <1>2 DEF Seen, MapsOf
  <2>2. maps'.command[c] # Absent <=> c \in maps'.bash
    BY <1>2, <2>1, Words DEF Seen, MapsOf
  <2> QED BY <1>2, <1>4, <1>5, <1>7, <2>1, <2>2 DEF Seen, MapsOf
<1>9. Known(c)' /\ Ended(c)'
  BY <1>2, <1>5, <1>6 DEF Known, Ended
<1>10. Commands(c)'
  BY <1>2 DEF Commands
<1>11. Edited(c)' /\ RealDiff(c)'
  BY <1>2, <1>7 DEF Seen, Edited, RealDiff
<1> QED BY <1>8, <1>9, <1>10, <1>11 DEF Seen

\* The call after its start.
LEMMA StartedIsSeen ==
    ASSUME QueueTypes, Good, UNCHANGED <<pi, file, way>>, NEW c \in Ids,
           Seen(c), Waiting(c), Waiting(c)', ~Heard(c), on_tool_execution_start(c)
    PROVE  Seen(c)'
<1>1. ~Finished(c)
  BY NotFinished
<1>2. /\ maps'.current[c] = "in_progress" /\ maps'.executing = maps.executing \cup {c}
      /\ c \in maps'.mutation <=> c \in maps.mutation \/ IsMutation(c)
      /\ maps'.old[c] = IF IsMutation(c) THEN file ELSE maps.old[c]
      /\ maps'.output = maps.output
      /\ c \in maps'.bash <=> c \in maps.bash \/ IsBash(c)
      /\ maps'.command[c] = IF IsBash(c) THEN "command" ELSE maps.command[c]
      /\ view'.v2[c].status = "in_progress"
      /\ view'.v2[c].content = view.v2[c].content
  BY <1>1, Starts DEF Seen
<1>3. Tracked(c)'
  BY <1>2, Words DEF Tracked
<1>4. ~Finished(c)'
  BY <1>3, NotFinishedThen
<1>5. (IsBash(c)' <=> IsBash(c)) /\ (IsMutation(c)' <=> IsMutation(c))
  BY DEF IsBash, IsMutation
<1>6. file \in Nat /\ file # Absent /\ pi[c].before \in Nat
  BY ToolAssumption DEF QueueTypes, PiRec
<1>7. MapsOf(c)'
  <2>1. (c \in maps'.bash <=> IsBash(c)) /\ (c \in maps'.mutation <=> IsMutation(c))
    BY <1>2 DEF Seen, MapsOf
  <2>2. maps'.command[c] # Absent <=> c \in maps'.bash
    BY <1>2, <2>1, Words DEF Seen, MapsOf
  <2>3. maps'.output[c] # Absent => c \in maps'.bash
    BY <1>2 DEF Seen, MapsOf
  <2>4. maps'.old[c] # Absent <=> c \in maps'.mutation
    BY <1>2, <1>6, <2>1 DEF Seen, MapsOf
  <2> QED BY <1>2, <1>3, <1>5, <2>1, <2>2, <2>3, <2>4 DEF MapsOf
<1>8. Known(c)' /\ Ended(c)'
  BY <1>2, <1>3, <1>4 DEF Known, Ended
<1>9. Commands(c)'
  BY <1>2, <1>5 DEF Commands
<1>10. Edited(c)' /\ RealDiff(c)'
  BY <1>2, <1>5, <1>6 DEF Seen, Edited, RealDiff
<1> QED BY <1>7, <1>8, <1>9, <1>10 DEF Seen

\* The output of a call that runs, as a snapshot or a delta.
LEMMA PrintedIsSeen ==
    ASSUME QueueTypes, Good, UNCHANGED <<pi, file, way>>, NEW c \in Ids,
           NEW text \in Seq(Chars),
           Seen(c), Waiting(c), Waiting(c)', c \in maps.executing,
           on_tool_execution_update(c, text) \/ on_bash_execution_update(c, text)
    PROVE  Seen(c)'
<1>1. /\ maps'.current = maps.current /\ maps'.executing = maps.executing
      /\ maps'.mutation = maps.mutation /\ maps'.old = maps.old
      /\ maps'.bash = maps.bash /\ maps'.command = maps.command
      /\ ~IsBash(c) => maps'.output[c] = maps.output[c]
      /\ view'.v2[c].status = "in_progress"
      /\ IsMutation(c) => view'.v2[c].content = view.v2[c].content
  <2>1. CASE on_tool_execution_update(c, text)
    BY <2>1, Updates DEF Seen
  <2>2. CASE on_bash_execution_update(c, text)
    BY <2>2, BashStreams DEF Seen
  <2> QED BY <2>1, <2>2
<1>2. maps.current[c] = "in_progress" /\ Tracked(c) /\ (c \in maps.bash <=> IsBash(c))
  BY Words DEF Seen, MapsOf, Tracked
<1>3. Tracked(c)'
  BY <1>1, <1>2 DEF Tracked
<1>4. ~Finished(c)'
  BY <1>3, NotFinishedThen
<1>5. (IsBash(c)' <=> IsBash(c)) /\ (IsMutation(c)' <=> IsMutation(c))
  BY DEF IsBash, IsMutation
<1>6. MapsOf(c)'
  BY <1>1, <1>2, <1>3, <1>5 DEF Seen, MapsOf
<1>7. Known(c)' /\ Ended(c)'
  BY <1>1, <1>2, <1>3, <1>4 DEF Known, Ended
<1>8. Commands(c)'
  BY <1>1, <1>5 DEF Seen, Commands
<1>9. Edited(c)' /\ RealDiff(c)'
  BY <1>1, <1>5 DEF Seen, Edited, RealDiff
<1> QED BY <1>6, <1>7, <1>8, <1>9 DEF Seen

\* The call after its end: what both clients show is how it ended.
LEMMA EndedIsSeen ==
    ASSUME QueueTypes, Good, UNCHANGED <<pi, file, way>>, NEW c \in Ids,
           NEW text \in Seq(Chars), NEW err \in BOOLEAN,
           Seen(c), c \in maps.executing, Finished(c)', err = pi[c].err,
           on_tool_execution_end(c, text, err)
    PROVE  Seen(c)'
<1>1. /\ maps'.current[c] = Absent /\ c \notin maps'.executing /\ c \notin maps'.mutation
      /\ maps'.old[c] = Absent /\ c \notin maps'.bash /\ maps'.output[c] = Absent
      /\ maps'.command[c] = Absent
      /\ view'.v2[c].status = IF err THEN "failed" ELSE "completed"
      /\ ~IsBash(c) => view'.v2[c].content = Or(Outcome(c, text, err), view.v2[c].content)
      /\ IsBash(c) => /\ view'.v2[c].exit = IF err THEN 1 ELSE 0
                      /\ view'.v2[c].title = maps.command[c]
  BY CallEnds DEF Seen
<1>2. ~Tracked(c)'
  BY <1>1 DEF Tracked
<1>3. (IsBash(c)' <=> IsBash(c)) /\ (IsMutation(c)' <=> IsMutation(c))
      /\ ~(IsBash(c) /\ IsMutation(c))
  BY DEF IsBash, IsMutation
<1>4. MapsOf(c)'
  BY <1>1, <1>2, Words DEF MapsOf
<1>5. Known(c)'
  BY <1>2 DEF Known
<1>6. Ended(c)'
  BY <1>1, <1>3 DEF Seen, Commands, Ended
<1>7. Commands(c)'
  BY <1>1 DEF Commands
<1>8. Edited(c)'
  BY <1>1 DEF Seen, Edited
<1>9. RealDiff(c)'
  <2>1. SUFFICES ASSUME IsMutation(c), view'.v2[c].content # Absent,
                        "old" \in DOMAIN view'.v2[c].content
                 PROVE  /\ pi[c].exe = "ended" /\ ~pi[c].err
                        /\ pi[c].before <= view'.v2[c].content.old
                        /\ view'.v2[c].content.old < view'.v2[c].content.new
    BY <1>3 DEF RealDiff
  <2> DEFINE outcome == Outcome(c, text, err)
  <2>2. view'.v2[c].content = Or(outcome, view.v2[c].content)
    BY <1>1, <1>3, <2>1
  <2>3. \/ /\ ~err /\ maps.old[c] \in Nat /\ maps.old[c] # file
           /\ outcome = [old |-> maps.old[c], new |-> file]
        \/ outcome = Absent
        \/ outcome = [text |-> text]
    BY OutcomeIs DEF Good
  <2> HIDE DEF outcome
  <2>4. CASE outcome = Absent
    <3>1. view'.v2[c].content = view.v2[c].content
      BY <2>2, <2>4 DEF Or
    <3> QED BY <2>1, <3>1 DEF Seen, RealDiff
  <2>5. CASE outcome # Absent /\ outcome = [text |-> text]
    <3>1. view'.v2[c].content = [text |-> text]
      BY <2>2, <2>5 DEF Or
    <3>2. "old" \notin DOMAIN [text |-> text]
      OBVIOUS
    <3> QED BY <2>1, <3>1, <3>2
  <2>6. CASE /\ outcome # Absent /\ ~err /\ maps.old[c] \in Nat /\ maps.old[c] # file
             /\ outcome = [old |-> maps.old[c], new |-> file]
    <3>1. view'.v2[c].content = [old |-> maps.old[c], new |-> file]
      BY <2>2, <2>6 DEF Or
    <3>2. view'.v2[c].content.old = maps.old[c] /\ view'.v2[c].content.new = file
      BY <3>1
    <3>3. maps.old[c] # Absent /\ file \in Nat /\ pi[c].before \in Nat
      BY <2>6, ToolAssumption DEF QueueTypes, PiRec
    <3>4. pi[c].before <= maps.old[c] /\ maps.old[c] <= file
      BY <3>3 DEF Seen, Edited
    <3>5. pi[c].exe = "ended"
      BY DEF Finished
    <3> QED BY <2>6, <3>2, <3>3, <3>4, <3>5
  <2> QED BY <2>3, <2>4, <2>5, <2>6
<1> QED BY <1>4, <1>5, <1>6, <1>7, <1>8, <1>9 DEF Seen

\* What pi does to a call leaves what the clients saw of it true.
LEMMA PiKeepsSeen ==
    ASSUME QueueTypes, NEW id \in Ids, Seen(id), Waiting(id),
           UNCHANGED <<maps, view, way>>,
           Finished(id)' <=> Finished(id),
           file' \in Nat, file <= file', pi'[id].before \in Nat, pi'[id].before <= file',
           maps \in MapRec,
           pi'[id].before = pi[id].before \/ pi[id].exe = "no",
           pi[id].exe = "ended" => pi'[id].exe = "ended" /\ pi'[id].err = pi[id].err
    PROVE  Seen(id)'
<1>1. (IsBash(id)' <=> IsBash(id)) /\ (IsMutation(id)' <=> IsMutation(id))
      /\ (Tracked(id)' <=> Tracked(id))
  BY DEF IsBash, IsMutation, Tracked
<1>2. MapsOf(id)' /\ Known(id)'
  BY <1>1 DEF Seen, MapsOf, Known
<1>3. Ended(id)' /\ Commands(id)'
  BY <1>1 DEF Seen, Ended, Commands, Finished
<1>4. Edited(id)'
  <2>1. ASSUME maps.old[id] # Absent
        PROVE  pi'[id].before <= maps.old[id] /\ maps.old[id] <= file'
    <3>1. pi[id].exe # "no"
      BY <2>1 DEF Seen, MapsOf, Waiting
    <3>2. maps.old[id] \in Nat /\ file \in Nat
      BY <2>1, ToolAssumption DEF MapRec, QueueTypes
    <3>3. pi[id].before <= maps.old[id] /\ maps.old[id] <= file
      BY <2>1 DEF Seen, Edited
    <3> QED BY <3>1, <3>2, <3>3
  <2> QED BY <2>1 DEF Edited
<1>5. RealDiff(id)'
  BY <1>1 DEF Seen, RealDiff
<1> QED BY <1>2, <1>3, <1>4, <1>5 DEF Seen

\* A call finishes when its end is handled, and by nothing pi does.
LEMMA SendingFinishesNone ==
    ASSUME QueueTypes, NEW id \in Ids, NEW e \in EventRec, events' = Append(events, e),
           \/ e.id # id /\ pi'[id] = pi[id]
           \/ e.id = id /\ pi[id].exe # "ended"
    PROVE  Finished(id)' <=> Finished(id)
<1>0. PICK n \in Nat : n = Len(events)
  BY DEF QueueTypes
<1>1. Len(events') = n + 1 /\ events'[n + 1] = e /\ \A i \in 1 .. n : events'[i] = events[i]
  BY <1>0, Sent
<1>2. CASE e.id # id /\ pi'[id] = pi[id]
  <2>1. Heard(id)' <=> Heard(id)
    <3>1. \A i \in 1 .. n + 1 : i \in 1 .. n \/ i = n + 1
      OBVIOUS
    <3>2. \A i \in 1 .. n : i \in 1 .. n + 1
      OBVIOUS
    <3> QED BY <1>0, <1>1, <1>2, <3>1, <3>2 DEF Heard
  <2> QED BY <1>2, <2>1 DEF Finished
<1>3. CASE e.id = id /\ pi[id].exe # "ended"
  <2>1. ~Heard(id)'
    BY <1>1, <1>3 DEF Heard
  <2> QED BY <1>3, <2>1 DEF Finished
<1> QED BY <1>2, <1>3

-----------------------------------------------------------------------------
(* A terminal's text.                                                      *)

OneForm(id) == IsBash(id) /\ ~way.truncates /\ way.forms[id] \in {{"snapshot"}, {"delta"}}
IsSnapshot(i, id) == events[i].id = id /\ events[i].type \in {"update", "end"}
Deltas(id) == {e \in EventRec : e.type = "delta" /\ e.id = id}

\* The terminal ends with the output the pump holds.
EndsWithOutput(id) == IsBash(id) /\ maps.output[id] # Absent =>
    \E before \in Seq(Chars) : view.v2[id].term = before \o maps.output[id]
\* The snapshots on their way show more and more of the output, the end all of it.
Grows(id) == OneForm(id) =>
    \A i \in 1 .. Len(events) : IsSnapshot(i, id) =>
       /\ events[i].type = "end" => events[i].text = pi[id].out
       /\ IsPrefix(events[i].text, pi[id].out) /\ IsPrefix(view.v2[id].term, events[i].text)
       /\ \A j \in 1 .. i : IsSnapshot(j, id) => IsPrefix(events[j].text, events[i].text)
Shows(id) == OneForm(id) =>
    /\ IsPrefix(view.v2[id].term, pi[id].out)
    /\ Tracked(id) => view.v2[id].term = OrEmpty(maps.output[id])
    /\ Finished(id) => view.v2[id].term = pi[id].out
\* The deltas on their way are what the terminal lacks, in order.
Lacks(id) == OneForm(id) =>
    /\ way.forms[id] = {"snapshot"} => ~Queued("delta", id)
    /\ way.forms[id] = {"delta"} =>
          /\ ~Queued("update", id)
          /\ LET waiting == Only(events, Deltas(id)) IN
             /\ Len(view.v2[id].term) + Len(waiting) = Len(pi[id].out)
             /\ \A k \in 1 .. Len(waiting) :
                   waiting[k].text = <<pi[id].out[Len(view.v2[id].term) + k]>>
Printed(id) == EndsWithOutput(id) /\ Grows(id) /\ Shows(id) /\ Lacks(id)

\* The pump took an event that is not of the call's output.
LEMMA TakingKeepsPrinted ==
    ASSUME QueueTypes, NEW id \in Ids, Printed(id), UNCHANGED <<pi, way>>,
           events # <<>>, events' = Tail(events),
           events[1].id = id => events[1].type \notin {"update", "delta", "end"},
           view'.v2[id].term = view.v2[id].term, maps'.output[id] = maps.output[id],
           Finished(id)' => Finished(id),
           Tracked(id)' /\ OneForm(id) => view.v2[id].term = OrEmpty(maps.output[id])
    PROVE  Printed(id)'
<1>0. PICK n \in Nat : n = Len(events)
  BY DEF QueueTypes
<1>1. /\ n >= 1 /\ Len(events') = n - 1 /\ events[1] = Head(events)
      /\ \A i \in 1 .. n - 1 : events'[i] = events[i + 1] /\ i + 1 \in 1 .. n
  BY <1>0, Taken
<1>2. (IsBash(id)' <=> IsBash(id)) /\ (OneForm(id)' <=> OneForm(id))
  BY DEF IsBash, OneForm
<1>3. EndsWithOutput(id)'
  BY <1>2 DEF Printed, EndsWithOutput
<1>4. Shows(id)'
  BY <1>2 DEF Printed, Shows
<1>5. Grows(id)'
  <2>1. ASSUME OneForm(id), NEW i \in 1 .. n - 1, IsSnapshot(i, id)'
        PROVE  /\ events'[i].type = "end" => events'[i].text = pi'[id].out
               /\ IsPrefix(events'[i].text, pi'[id].out)
               /\ IsPrefix(view'.v2[id].term, events'[i].text)
               /\ \A j \in 1 .. i : IsSnapshot(j, id)' => IsPrefix(events'[j].text, events'[i].text)
    <3>1. IsSnapshot(i + 1, id) /\ events'[i] = events[i + 1] /\ i + 1 \in 1 .. n
      BY <1>1, <2>1 DEF IsSnapshot
    <3>2. \A j \in 1 .. i : j + 1 \in 1 .. i + 1 /\ events'[j] = events[j + 1]
      BY <1>1
    <3>3. /\ events[i + 1].type = "end" => events[i + 1].text = pi[id].out
          /\ IsPrefix(events[i + 1].text, pi[id].out)
          /\ IsPrefix(view.v2[id].term, events[i + 1].text)
          /\ \A j \in 1 .. i + 1 : IsSnapshot(j, id) => IsPrefix(events[j].text, events[i + 1].text)
      BY <1>0, <2>1, <3>1 DEF Printed, Grows
    <3>4. \A j \in 1 .. i : IsSnapshot(j, id)' => IsSnapshot(j + 1, id)
      BY <3>2 DEF IsSnapshot
    <3> QED BY <3>1, <3>2, <3>3, <3>4
  <2> QED BY <1>1, <1>2, <2>1 DEF Grows
<1>6. \A type \in Types : Queued(type, id)' => Queued(type, id)
  BY <1>0, <1>1 DEF Queued, Is
<1>7. Only(events', Deltas(id)) = Only(events, Deltas(id))
  <2>1. Head(events) \notin Deltas(id)
    BY <1>1 DEF Deltas
  <2> QED BY <2>1, OnlyTail DEF QueueTypes
<1>8. Lacks(id)'
  <2>1. Deltas(id)' = Deltas(id)
    BY DEF Deltas
  <2>2. "delta" \in Types /\ "update" \in Types
    BY DEF Types
  <2> QED BY <1>2, <1>6, <1>7, <2>1, <2>2 DEF Printed, Lacks
<1> QED BY <1>3, <1>4, <1>5, <1>8 DEF Printed

\* The texts of a terminal, of pi and of the events.
LEMMA TextTypes ==
    ASSUME QueueTypes, Good, NEW c \in Ids
    PROVE  /\ view.v2[c].term \in Seq(Chars) /\ OrEmpty(maps.output[c]) \in Seq(Chars)
           /\ pi[c].out \in Seq(Chars)
           /\ \A i \in 1 .. Len(events) : events[i].text \in Seq(Chars)
<1>1. view.v2[c].term \in Seq(Chars)
  BY DEF Good, ViewTypes, CallRec
<1>2. OrEmpty(maps.output[c]) \in Seq(Chars)
  BY DEF OrEmpty, Good, MapRec
<1>3. pi[c].out \in Seq(Chars)
  BY DEF QueueTypes, PiRec
<1>4. ASSUME NEW i \in 1 .. Len(events) PROVE events[i].text \in Seq(Chars)
  <2>1. events[i] \in EventRec
    BY DEF QueueTypes
  <2> QED BY <2>1 DEF EventRec
<1> QED BY <1>1, <1>2, <1>3, <1>4

\* What a terminal ends with grows with it.
\* One text put to another, point by point.
\* One character put to a text.
\* The pump took a snapshot of the call's output.
LEMMA UpdatedIsPrinted ==
    ASSUME QueueTypes, Good, UNCHANGED <<pi, way>>, NEW c \in Ids, Printed(c),
           events # <<>>, events' = Tail(events), Is(1, "update", c), ~Finished(c)',
           Tracked(c),
           maps'.output[c] = IF IsBash(c) THEN events[1].text ELSE maps.output[c],
           view'.v2[c].term =
              IF IsBash(c)
              THEN view.v2[c].term \o bash_output_delta(OrEmpty(maps.output[c]), events[1].text)
              ELSE view.v2[c].term
    PROVE  Printed(c)'
<1>0. PICK n \in Nat : n = Len(events)
  BY DEF QueueTypes
<1> DEFINE term == view.v2[c].term
           held == OrEmpty(maps.output[c])
           text == events[1].text
<1>1. /\ n >= 1 /\ Len(events') = n - 1 /\ events[1] = Head(events) /\ events[1] \in EventRec
      /\ \A i \in 1 .. n - 1 : events'[i] = events[i + 1] /\ i + 1 \in 1 .. n
  BY <1>0, Taken
<1>2. (IsBash(c)' <=> IsBash(c)) /\ (OneForm(c)' <=> OneForm(c))
  BY DEF IsBash, OneForm
<1>3. /\ text \in Seq(Chars) /\ term \in Seq(Chars) /\ held \in Seq(Chars) /\ pi[c].out \in Seq(Chars)
      /\ \A i \in 1 .. n : events[i].text \in Seq(Chars)
  BY <1>0, <1>1, TextTypes
<1>4. CASE ~IsBash(c)
  <2>1. ~OneForm(c)
    BY <1>4 DEF OneForm
  <2> QED BY <1>2, <1>4, <2>1 DEF Printed, EndsWithOutput, Grows, Shows, Lacks
<1>5. CASE IsBash(c)
  <2> DEFINE delta == bash_output_delta(held, text)
  <2>1. view'.v2[c].term = term \o delta /\ maps'.output[c] = text
    BY <1>5
  <2>2. /\ delta \in Seq(Chars)
        /\ IsPrefix(held, text) => held \o delta = text
        /\ ~IsPrefix(held, text) => delta = text
    BY <1>3, DeltaCompletes
  <2> HIDE DEF delta
  <2>3. EndsWithOutput(c)'
    <3>1. \E before \in Seq(Chars) : term \o delta = before \o text
      <4>1. CASE ~IsPrefix(held, text)
        BY <1>3, <2>2, <4>1
      <4>2. CASE IsPrefix(held, text) /\ maps.output[c] = Absent
        <5>1. held = <<>>
          BY <4>2 DEF OrEmpty
        <5>2. <<>> \o delta = delta
          BY <2>2, ConcatEmpty
        <5>3. held \o delta = text
          BY <2>2, <4>2
        <5> HIDE DEF held, text, term
        <5>4. delta = text
          BY <5>1, <5>2, <5>3
        <5> QED BY <1>3, <5>4
      <4>3. CASE IsPrefix(held, text) /\ maps.output[c] # Absent
        <5>1. PICK before \in Seq(Chars) : term = before \o held
          BY <1>5, <4>3 DEF Printed, EndsWithOutput, OrEmpty
        <5>2. (before \o held) \o delta = before \o (held \o delta)
          BY <1>3, <2>2, EndGrows
        <5>3. held \o delta = text
          BY <2>2, <4>3
        <5> HIDE DEF held, text, term
        <5>4. term \o delta = before \o text
          BY <5>1, <5>2, <5>3
        <5> QED BY <5>4
      <4> QED BY <4>1, <4>2, <4>3
    <3> QED BY <2>1, <3>1 DEF EndsWithOutput
  <2>4. CASE ~OneForm(c)
    BY <1>2, <2>3, <2>4 DEF Printed, Grows, Shows, Lacks
  <2>5. CASE OneForm(c)
    <3>1. IsSnapshot(1, c) /\ 1 \in 1 .. n
      BY <1>1 DEF IsSnapshot, Is
    <3>2. term = held /\ IsPrefix(term, text) /\ IsPrefix(text, pi[c].out)
      BY <1>0, <2>5, <3>1 DEF Printed, Grows, Shows
    <3>3. view'.v2[c].term = text
      <4> HIDE DEF held, text, term
      <4> QED BY <2>1, <2>2, <3>2
    <3>4. Shows(c)'
      <4>1. text # Absent
        BY <1>3, ToolAssumption
      <4> QED BY <2>1, <3>2, <3>3, <4>1 DEF Shows, OrEmpty
    <3>5. Grows(c)'
      <4>1. ASSUME NEW i \in 1 .. n - 1, IsSnapshot(i, c)'
            PROVE  /\ events'[i].type = "end" => events'[i].text = pi'[c].out
                   /\ IsPrefix(events'[i].text, pi'[c].out)
                   /\ IsPrefix(text, events'[i].text)
                   /\ \A j \in 1 .. i :
                         IsSnapshot(j, c)' => IsPrefix(events'[j].text, events'[i].text)
        <5>1. IsSnapshot(i + 1, c) /\ events'[i] = events[i + 1] /\ i + 1 \in 1 .. n
          BY <1>1, <4>1 DEF IsSnapshot
        <5>2. \A j \in 1 .. i : j + 1 \in 1 .. i + 1 /\ events'[j] = events[j + 1]
          BY <1>1
        <5>3. 1 \in 1 .. i + 1
          OBVIOUS
        <5>4. /\ events[i + 1].type = "end" => events[i + 1].text = pi[c].out
              /\ IsPrefix(events[i + 1].text, pi[c].out)
              /\ \A j \in 1 .. i + 1 :
                    IsSnapshot(j, c) => IsPrefix(events[j].text, events[i + 1].text)
          BY <1>0, <2>5, <5>1 DEF Printed, Grows
        <5>5. \A j \in 1 .. i : IsSnapshot(j, c)' => IsSnapshot(j + 1, c)
          BY <5>2 DEF IsSnapshot
        <5> QED BY <3>1, <5>1, <5>2, <5>3, <5>4, <5>5
      <4> QED BY <1>1, <3>3, <4>1 DEF Grows
    <3>6. Lacks(c)'
      <4>1. way.forms[c] = {"snapshot"}
        BY <1>0, <1>1, <2>5 DEF Printed, Lacks, OneForm, Queued
      <4>2. ~Queued("delta", c)
        BY <2>5, <4>1 DEF Printed, Lacks
      <4>3. ~Queued("delta", c)'
        BY <1>0, <1>1, <4>2 DEF Queued, Is
      <4>4. {"snapshot"} # {"delta"}
        OBVIOUS
      <4> QED BY <4>1, <4>3, <4>4 DEF Lacks
    <3> QED BY <2>3, <3>4, <3>5, <3>6 DEF Printed
  <2> QED BY <2>4, <2>5
<1> QED BY <1>4, <1>5

\* The pump took a delta of the call's output.
LEMMA StreamedIsPrinted ==
    ASSUME QueueTypes, Good, UNCHANGED <<pi, way>>, NEW c \in Ids, Printed(c),
           events # <<>>, events' = Tail(events), Is(1, "delta", c), ~Finished(c)',
           EndsLast(c), Tracked(c), Tracked(c)',
           ~IsBash(c) => maps'.output[c] = maps.output[c],
           IsBash(c) /\ events[1].text # <<>> =>
              maps'.output[c] = OrEmpty(maps.output[c]) \o events[1].text,
           IsBash(c) /\ events[1].text = <<>> => maps'.output[c] = maps.output[c],
           view'.v2[c].term =
              IF IsBash(c) THEN view.v2[c].term \o events[1].text ELSE view.v2[c].term
    PROVE  Printed(c)'
<1>0. PICK n \in Nat : n = Len(events)
  BY DEF QueueTypes
<1> DEFINE term == view.v2[c].term
           held == OrEmpty(maps.output[c])
           text == events[1].text
           out == pi[c].out
           waiting == Only(events, Deltas(c))
<1>1. /\ n >= 1 /\ Len(events') = n - 1 /\ events[1] = Head(events) /\ events[1] \in EventRec
      /\ \A i \in 1 .. n - 1 : events'[i] = events[i + 1] /\ i + 1 \in 1 .. n
  BY <1>0, Taken
<1>2. (IsBash(c)' <=> IsBash(c)) /\ (OneForm(c)' <=> OneForm(c))
  BY DEF IsBash, OneForm
<1>3. /\ text \in Seq(Chars) /\ term \in Seq(Chars) /\ held \in Seq(Chars) /\ out \in Seq(Chars)
      /\ \A i \in 1 .. n : events[i].text \in Seq(Chars)
  BY <1>0, <1>1, TextTypes
<1>4. CASE ~IsBash(c)
  <2>1. ~OneForm(c)
    BY <1>4 DEF OneForm
  <2> QED BY <1>2, <1>4, <2>1 DEF Printed, EndsWithOutput, Grows, Shows, Lacks
<1>5. CASE IsBash(c)
  <2>1. view'.v2[c].term = term \o text
    BY <1>5
  <2>2. EndsWithOutput(c)'
    <3>1. CASE text = <<>>
      <4>1. view'.v2[c].term = term /\ maps'.output[c] = maps.output[c]
        BY <1>3, <1>5, <2>1, <3>1, ConcatEmpty
      <4> QED BY <1>2, <4>1 DEF Printed, EndsWithOutput
    <3>2. CASE text # <<>> /\ maps.output[c] = Absent
      <4>1. held = <<>>
        BY <3>2 DEF OrEmpty
      <4>2. maps'.output[c] = <<>> \o text
        BY <1>5, <3>2, <4>1
      <4>3. maps'.output[c] = text
        BY <1>3, <4>2, ConcatEmpty
      <4> QED BY <1>3, <2>1, <4>3 DEF EndsWithOutput
    <3>3. CASE text # <<>> /\ maps.output[c] # Absent
      <4>1. PICK before \in Seq(Chars) : term = before \o held
        BY <1>5, <3>3 DEF Printed, EndsWithOutput, OrEmpty
      <4>2. (before \o held) \o text = before \o (held \o text)
        <5>1. held \in Seq(Chars) /\ text \in Seq(Chars)
          BY <1>3
        <5> HIDE DEF held, text
        <5> QED BY <5>1, EndGrows
      <4>3. maps'.output[c] = held \o text
        BY <1>5, <3>3
      <4>4. term \o text = before \o maps'.output[c]
        BY <4>1, <4>2, <4>3, Zenon
      <4> QED BY <2>1, <4>4 DEF EndsWithOutput
    <3> QED BY <3>1, <3>2, <3>3
  <2>3. CASE ~OneForm(c)
    BY <1>2, <2>2, <2>3 DEF Printed, Grows, Shows, Lacks
  <2>4. CASE OneForm(c)
    <3>1. way.forms[c] = {"delta"}
      BY <1>0, <1>1, <2>4 DEF Printed, Lacks, OneForm, Queued
    <3>2. /\ ~Queued("update", c) /\ Len(term) + Len(waiting) = Len(out)
          /\ \A k \in 1 .. Len(waiting) : waiting[k].text = <<out[Len(term) + k]>>
      BY <2>4, <3>1 DEF Printed, Lacks
    <3>3. Head(events) \in Deltas(c)
      BY <1>1 DEF Deltas, Is
    <3>4. /\ waiting # <<>> /\ Head(waiting) = events[1]
          /\ Only(events', Deltas(c)) = Tail(waiting) /\ waiting \in Seq(Deltas(c))
      BY <1>1, <3>3, OnlyTail, OnlyAt DEF QueueTypes
    <3> DEFINE left == Tail(waiting)
    <3> HIDE DEF waiting
    <3>5. /\ Len(waiting) \in Nat /\ Len(waiting) >= 1 /\ waiting[1] = events[1]
          /\ Len(left) = Len(waiting) - 1
          /\ \A k \in 1 .. Len(left) : left[k] = waiting[k + 1] /\ k + 1 \in 1 .. Len(waiting)
      BY <3>4
    <3> HIDE DEF left
    <3>6. text = <<out[Len(term) + 1]>>
      BY <3>2, <3>5
    <3>7. Len(term) + 1 <= Len(out) /\ Len(term) \in Nat /\ Len(out) \in Nat
      BY <1>3, <3>2, <3>5
    <3>8. text # <<>> /\ Len(text) = 1 /\ text[1] = out[Len(term) + 1] /\ text = <<text[1]>> /\ text[1] \in Chars
      BY <1>3, <3>6
    <3> DEFINE longer == term \o text
    <3>9. /\ longer \in Seq(Chars) /\ Len(longer) = Len(term) + 1
          /\ \A i \in 1 .. Len(term) : longer[i] = term[i]
          /\ longer[Len(term) + 1] = text[1]
      <4> DEFINE d == text[1]
      <4>1. d \in Chars /\ text = <<d>> /\ term \in Seq(Chars)
        BY <1>3, <3>8
      <4> HIDE DEF d, text, term
      <4>2. /\ term \o <<d>> \in Seq(Chars) /\ Len(term \o <<d>>) = Len(term) + 1
            /\ \A i \in 1 .. Len(term) : (term \o <<d>>)[i] = term[i]
            /\ (term \o <<d>>)[Len(term) + 1] = d
        BY <4>1, OneMore
      <4> QED BY <4>1, <4>2 DEF d
    <3>10. IsPrefix(term, out) /\ term = held
      BY <2>4 DEF Printed, Shows
    <3>11. \A i \in 1 .. Len(term) : term[i] = out[i]
      BY <1>3, <3>10, PrefixMeans
    <3> HIDE DEF longer
    <3>12. IsPrefix(longer, out)
      <4>1. Len(longer) <= Len(out) /\ \A i \in 1 .. Len(longer) : longer[i] = out[i]
        BY <3>7, <3>8, <3>9, <3>11
      <4> QED BY <1>3, <3>9, <4>1, PrefixMeans
    <3>13. view'.v2[c].term = longer /\ maps'.output[c] = longer
      BY <1>5, <2>1, <3>8, <3>10 DEF longer
    <3>14. Shows(c)'
      <4>1. longer # Absent
        BY <3>9, ToolAssumption
      <4> QED BY <3>12, <3>13, <4>1 DEF Shows, OrEmpty
    <3>15. ASSUME NEW i \in 1 .. n, IsSnapshot(i, c) PROVE events[i].type = "end"
      BY <1>0, <3>2, <3>15 DEF IsSnapshot, Queued, Is
    <3>16. Grows(c)'
      <4>1. ASSUME NEW i \in 1 .. n - 1, IsSnapshot(i, c)'
            PROVE  /\ events'[i].text = pi'[c].out
                   /\ \A j \in 1 .. i : IsSnapshot(j, c)' => events'[j].text = pi'[c].out
        <5>1. /\ IsSnapshot(i + 1, c) /\ events'[i] = events[i + 1] /\ i + 1 \in 1 .. n
              /\ \A j \in 1 .. i : /\ events'[j] = events[j + 1] /\ j + 1 \in 1 .. n
                                   /\ IsSnapshot(j, c)' => IsSnapshot(j + 1, c)
          BY <1>1, <4>1 DEF IsSnapshot
        <5>2. \A j \in 1 .. n : IsSnapshot(j, c) => events[j].text = out
          BY <1>0, <2>4, <3>15 DEF Printed, Grows
        <5> QED BY <5>1, <5>2
      <4>2. IsPrefix(out, out)
        BY <1>3, PrefixOfItself
      <4> QED BY <1>1, <3>12, <3>13, <4>1, <4>2 DEF Grows
    <3>17. Lacks(c)'
      <4>1. ~Queued("update", c)'
        BY <1>0, <1>1, <3>2 DEF Queued, Is
      <4>2. Deltas(c)' = Deltas(c)
        BY DEF Deltas
      <4> HIDE DEF term, out
      <4>8. Len(longer) = Len(term) + 1 /\ Len(left) = Len(waiting) - 1 /\ Len(waiting) \in Nat
        BY <3>5, <3>9
      <4>3. Len(longer) + Len(left) = Len(out)
        BY <3>2, <3>7, <4>8
      <4>4. ASSUME NEW k \in 1 .. Len(left) PROVE left[k].text = <<out[Len(longer) + k]>>
        <5>1. left[k].text = <<out[Len(term) + (k + 1)]>>
          BY <3>2, <3>5
        <5>2. Len(term) + (k + 1) = Len(longer) + k
          BY <3>7, <4>8
        <5> QED BY <5>1, <5>2
      <4>5. Only(events', Deltas(c)') = left
        BY <3>4, <4>2 DEF left
      <4>6. {"snapshot"} # {"delta"}
        OBVIOUS
      <4> QED BY <3>1, <3>13, <4>1, <4>3, <4>4, <4>5, <4>6 DEF Lacks, out
    <3> QED BY <2>2, <3>14, <3>16, <3>17 DEF Printed
  <2> QED BY <2>3, <2>4
<1> QED BY <1>4, <1>5

\* The pump took the end of the call, after which nothing of it is left.
LEMMA EndedIsPrinted ==
    ASSUME QueueTypes, Good, UNCHANGED <<pi, way>>, NEW c \in Ids, Printed(c),
           events # <<>>, events' = Tail(events), Is(1, "end", c), EndsLast(c),
           Tracked(c), ~Tracked(c)', maps'.output[c] = Absent,
           view'.v2[c].term =
              IF IsBash(c)
              THEN view.v2[c].term \o bash_output_delta(OrEmpty(maps.output[c]), events[1].text)
              ELSE view.v2[c].term
    PROVE  Printed(c)'
<1>0. PICK n \in Nat : n = Len(events)
  BY DEF QueueTypes
<1> DEFINE term == view.v2[c].term
           held == OrEmpty(maps.output[c])
           text == events[1].text
           out == pi[c].out
<1>1. /\ n >= 1 /\ Len(events') = n - 1 /\ events[1] = Head(events) /\ events[1] \in EventRec
      /\ \A i \in 1 .. n - 1 : events'[i] = events[i + 1] /\ i + 1 \in 1 .. n
  BY <1>0, Taken
<1>2. (IsBash(c)' <=> IsBash(c)) /\ (OneForm(c)' <=> OneForm(c))
  BY DEF IsBash, OneForm
<1>3. /\ text \in Seq(Chars) /\ term \in Seq(Chars) /\ held \in Seq(Chars) /\ out \in Seq(Chars)
  BY <1>0, <1>1, TextTypes
<1>4. \A i \in 1 .. n - 1 : events'[i].id # c
  BY <1>0, <1>1 DEF EndsLast
<1>5. EndsWithOutput(c)'
  BY DEF EndsWithOutput
<1>6. Grows(c)'
  BY <1>1, <1>4 DEF Grows, IsSnapshot
<1>7. CASE ~OneForm(c)
  BY <1>2, <1>5, <1>6, <1>7 DEF Printed, Shows, Lacks
<1>8. CASE OneForm(c)
  <2> DEFINE delta == bash_output_delta(held, text)
  <2>1. view'.v2[c].term = term \o delta
    BY <1>8 DEF OneForm
  <2>2. IsPrefix(held, text) => held \o delta = text
    BY <1>3, DeltaCompletes
  <2> HIDE DEF delta
  <2>3. IsSnapshot(1, c) /\ 1 \in 1 .. n /\ events[1].type = "end"
    BY <1>1 DEF IsSnapshot, Is
  <2>4. term = held /\ IsPrefix(term, text) /\ text = out
    BY <1>0, <1>8, <2>3 DEF Printed, Grows, Shows
  <2>5. view'.v2[c].term = out
    <3> HIDE DEF term, held, text, out
    <3> QED BY <2>1, <2>2, <2>4
  <2>6. Shows(c)'
    <3>1. IsPrefix(out, out)
      BY <1>3, PrefixOfItself
    <3> QED BY <2>5, <3>1 DEF Shows
  <2>7. \A type \in Types : ~Queued(type, c)'
    BY <1>1, <1>4 DEF Queued, Is
  <2>8. Len(Only(events', Deltas(c))) = 0
    <3>1. events' \in Seq(EventRec)
      BY Taken
    <3>2. \A i \in 1 .. Len(events') : events'[i] \notin Deltas(c)
      BY <1>1, <1>4 DEF Deltas
    <3> QED BY <3>1, <3>2, OnlyNone
  <2>9. Lacks(c)'
    <3>1. "delta" \in Types /\ "update" \in Types
      BY DEF Types
    <3>2. Deltas(c)' = Deltas(c)
      BY DEF Deltas
    <3>3. Len(out) \in Nat
      BY <1>3
    <3>4. ~Queued("delta", c)' /\ ~Queued("update", c)'
      BY <2>7, <3>1
    <3> HIDE DEF out
    <3>5. view'.v2[c].term = out /\ pi'[c].out = out
      BY <2>5 DEF out
    <3> DEFINE left == Only(events', Deltas(c))
    <3>6. Len(left) = 0 /\ Only(events', Deltas(c)') = left
      BY <2>8, <3>2
    <3> HIDE DEF left
    <3>7. Len(out) + Len(left) = Len(out) /\ 1 .. Len(left) = {}
      BY <3>3, <3>6
    <3> QED BY <3>4, <3>5, <3>6, <3>7 DEF Lacks
  <2> QED BY <1>5, <1>6, <2>6, <2>9 DEF Printed
<1> QED BY <1>7, <1>8

\* pi sent nothing of the call's output.
LEMMA SendingKeepsPrinted ==
    ASSUME QueueTypes, NEW id \in Ids, Printed(id), UNCHANGED <<maps, view, way>>,
           pi'[id].out = pi[id].out, Finished(id)' => Finished(id),
           \/ events' = events
           \/ \E e \in EventRec : /\ events' = Append(events, e)
                                  /\ e.id = id => e.type \notin {"update", "delta", "end"}
    PROVE  Printed(id)'
<1>1. (IsBash(id)' <=> IsBash(id)) /\ (OneForm(id)' <=> OneForm(id))
      /\ (Tracked(id)' <=> Tracked(id)) /\ Deltas(id)' = Deltas(id)
  BY DEF IsBash, OneForm, Tracked, Deltas
<1>2. EndsWithOutput(id)'
  BY <1>1 DEF Printed, EndsWithOutput
<1>3. Shows(id)'
  BY <1>1 DEF Printed, Shows
<1>4. CASE events' = events
  <2>1. Grows(id)' /\ Lacks(id)'
    BY <1>1, <1>4 DEF Printed, Grows, Lacks, IsSnapshot, Queued, Is
  <2> QED BY <1>2, <1>3, <2>1 DEF Printed
<1>5. ASSUME NEW e \in EventRec, events' = Append(events, e),
             e.id = id => e.type \notin {"update", "delta", "end"}
      PROVE  Printed(id)'
  <2>0. PICK n \in Nat : n = Len(events)
    BY DEF QueueTypes
  <2>1. /\ Len(events') = n + 1 /\ events'[n + 1] = e
        /\ \A i \in 1 .. n : events'[i] = events[i]
        /\ \A i \in 1 .. n + 1 : i \in 1 .. n \/ i = n + 1
    BY <1>5, <2>0, Sent
  <2>2. \A i \in 1 .. n + 1 : IsSnapshot(i, id)' => i \in 1 .. n /\ IsSnapshot(i, id)
    BY <1>5, <2>1 DEF IsSnapshot
  <2>3. \A i \in 1 .. n : \A j \in 1 .. i : j \in 1 .. n /\ j \in 1 .. n + 1
    OBVIOUS
  <2>4. Grows(id)'
    <3>1. ASSUME OneForm(id), NEW i \in 1 .. n, IsSnapshot(i, id)
          PROVE  /\ events[i].type = "end" => events[i].text = pi[id].out
                 /\ IsPrefix(events[i].text, pi[id].out)
                 /\ IsPrefix(view.v2[id].term, events[i].text)
                 /\ \A j \in 1 .. i : IsSnapshot(j, id) => IsPrefix(events[j].text, events[i].text)
      BY <2>0, <3>1 DEF Printed, Grows
    <3> QED BY <1>1, <2>1, <2>2, <2>3, <3>1 DEF Grows
  <2>5. Queued("update", id)' => Queued("update", id)
    BY <1>5, <2>0, <2>1 DEF Queued, Is
  <2>6. Queued("delta", id)' => Queued("delta", id)
    BY <1>5, <2>0, <2>1 DEF Queued, Is
  <2>7. Only(events', Deltas(id)) = Only(events, Deltas(id))
    <3>1. e \notin Deltas(id)
      BY <1>5 DEF Deltas
    <3> QED BY <1>5, <3>1, OnlyAppend DEF QueueTypes
  <2>8. Lacks(id)'
    BY <1>1, <2>5, <2>6, <2>7 DEF Printed, Lacks
  <2> QED BY <1>2, <1>3, <2>4, <2>8 DEF Printed
<1> QED BY <1>4, <1>5

\* pi printed, and sent all it printed or what is new; or ended, and sent it all.
LEMMA PrintingKeepsPrinted ==
    ASSUME QueueTypes, Good, NEW id \in Ids, Printed(id), EndsLast(id),
           UNCHANGED <<maps, view, way>>,
           ~Finished(id)', NEW e \in EventRec, events' = Append(events, e), e.id = id,
           pi[id].exe = "running",
           \/ /\ e.type = "update" /\ "snapshot" \in way.forms[id]
              /\ \E c \in Chars : pi'[id].out = Append(pi[id].out, c)
              /\ OneForm(id) => e.text = pi'[id].out
           \/ /\ e.type = "delta" /\ "delta" \in way.forms[id]
              /\ \E c \in Chars : pi'[id].out = Append(pi[id].out, c) /\ e.text = <<c>>
           \/ /\ e.type = "end" /\ pi'[id].out = pi[id].out
              /\ OneForm(id) => e.text = pi[id].out
    PROVE  Printed(id)'
<1> DEFINE term == view.v2[id].term
           out == pi[id].out
           all == pi'[id].out
           waiting == Only(events, Deltas(id))
<1>0. PICK n \in Nat : n = Len(events)
  BY DEF QueueTypes
<1>1. /\ Len(events') = n + 1 /\ events'[n + 1] = e
      /\ \A i \in 1 .. n : events'[i] = events[i]
      /\ \A i \in 1 .. n + 1 : i \in 1 .. n \/ i = n + 1
  BY <1>0, Sent
<1>2. (IsBash(id)' <=> IsBash(id)) /\ (OneForm(id)' <=> OneForm(id))
      /\ (Tracked(id)' <=> Tracked(id)) /\ Deltas(id)' = Deltas(id)
  BY DEF IsBash, OneForm, Tracked, Deltas
<1>3. EndsWithOutput(id)'
  BY <1>2 DEF Printed, EndsWithOutput
<1>4. CASE ~OneForm(id)
  BY <1>2, <1>3, <1>4 DEF Printed, Grows, Shows, Lacks
<1>5. CASE OneForm(id)
  <2>1. /\ term \in Seq(Chars) /\ out \in Seq(Chars)
        /\ \A i \in 1 .. n : events[i].text \in Seq(Chars)
    BY <1>0, TextTypes
  <2>2. all \in Seq(Chars) /\ IsPrefix(out, all)
    <3>1. CASE \E c \in Chars : pi'[id].out = Append(pi[id].out, c)
      BY <2>1, <3>1, PrefixOfItself, PrefixOfGrown
    <3>2. CASE pi'[id].out = pi[id].out
      BY <2>1, <3>2, PrefixOfItself
    <3> QED BY <3>1, <3>2
  <2>3. IsPrefix(term, out)
    BY <1>5 DEF Printed, Shows
  <2> HIDE DEF all
  <2>4. IsPrefix(term, all)
    BY <2>1, <2>2, <2>3, PrefixOfLonger
  <2>5. Shows(id)'
    BY <1>2, <2>4 DEF Printed, Shows, all
  <2>6. \A i \in 1 .. n : IsSnapshot(i, id) =>
           /\ events[i].type # "end" /\ IsPrefix(events[i].text, out)
           /\ IsPrefix(term, events[i].text)
           /\ \A j \in 1 .. i : IsSnapshot(j, id) => IsPrefix(events[j].text, events[i].text)
    <3>1. ASSUME NEW i \in 1 .. n, IsSnapshot(i, id) PROVE events[i].type # "end"
      BY <1>0, <3>1 DEF EndsLast, Is, IsSnapshot
    <3>2. \A i \in 1 .. n : IsSnapshot(i, id) =>
             /\ IsPrefix(events[i].text, pi[id].out) /\ IsPrefix(view.v2[id].term, events[i].text)
             /\ \A j \in 1 .. i : IsSnapshot(j, id) => IsPrefix(events[j].text, events[i].text)
      BY <1>0, <1>5 DEF Printed, Grows
    <3> QED BY <3>1, <3>2
  <2>7. \A i \in 1 .. n : IsSnapshot(i, id) => IsPrefix(events[i].text, all)
    BY <2>1, <2>2, <2>6, PrefixOfLonger
  <2>8. e.type \in {"update", "end"} => e.text = all
    BY <1>5 DEF all
  <2>9. Grows(id)'
    <3>1. ASSUME NEW i \in 1 .. n, IsSnapshot(i, id)'
          PROVE  /\ events'[i].type = "end" => events'[i].text = all
                 /\ IsPrefix(events'[i].text, all) /\ IsPrefix(term, events'[i].text)
                 /\ \A j \in 1 .. i : IsSnapshot(j, id)' => IsPrefix(events'[j].text, events'[i].text)
      <4>1. \A j \in 1 .. i : j \in 1 .. n
        OBVIOUS
      <4>2. IsSnapshot(i, id) /\ \A j \in 1 .. i : IsSnapshot(j, id)' => IsSnapshot(j, id)
        BY <1>1, <3>1, <4>1 DEF IsSnapshot
      <4> QED BY <1>1, <2>6, <2>7, <4>1, <4>2
    <3>2. ASSUME IsSnapshot(n + 1, id)'
          PROVE  /\ events'[n + 1].text = all
                 /\ IsPrefix(all, all) /\ IsPrefix(term, all)
                 /\ \A j \in 1 .. n + 1 : IsSnapshot(j, id)' => IsPrefix(events'[j].text, all)
      <4>1. e.text = all
        BY <1>1, <2>8, <3>2 DEF IsSnapshot
      <4>2. IsPrefix(all, all)
        BY <2>2, PrefixOfItself
      <4>3. \A j \in 1 .. n : IsSnapshot(j, id)' => IsPrefix(events'[j].text, all)
        BY <1>1, <2>7 DEF IsSnapshot
      <4> QED BY <1>1, <2>4, <4>1, <4>2, <4>3
    <3>3. view'.v2[id].term = term /\ pi'[id].out = all
      BY DEF all
    <3> QED BY <1>1, <3>1, <3>2, <3>3 DEF Grows
  <2>10. CASE way.forms[id] = {"snapshot"}
    <3>1. e.type # "delta" /\ ~Queued("delta", id)
      BY <1>5, <2>10 DEF Printed, Lacks
    <3>2. ~Queued("delta", id)'
      BY <1>0, <1>1, <3>1 DEF Queued, Is
    <3>3. {"snapshot"} # {"delta"}
      OBVIOUS
    <3>4. Lacks(id)'
      BY <2>10, <3>2, <3>3 DEF Lacks
    <3> QED BY <1>3, <2>5, <2>9, <3>4 DEF Printed
  <2>11. CASE way.forms[id] = {"delta"}
    <3>1. e.type # "update"
      BY <2>11
    <3>2. /\ ~Queued("update", id) /\ Len(term) + Len(waiting) = Len(out)
          /\ \A k \in 1 .. Len(waiting) : waiting[k].text = <<out[Len(term) + k]>>
      BY <1>5, <2>11 DEF Printed, Lacks
    <3>3. ~Queued("update", id)'
      BY <1>0, <1>1, <3>1, <3>2 DEF Queued, Is
    <3>4. waiting \in Seq(Deltas(id)) /\ Len(term) \in Nat
      <4>1. events \in Seq(EventRec)
        BY DEF QueueTypes
      <4>2. waiting \in Seq(Deltas(id))
        BY <4>1, OnlyAt
      <4> QED BY <2>1, <4>2
    <3>5. {"snapshot"} # {"delta"}
      OBVIOUS
    <3>6. CASE e.type = "end"
      <4>1. Only(events', Deltas(id)) = waiting
        <5>1. e \notin Deltas(id)
          BY <3>6 DEF Deltas
        <5> QED BY <5>1, OnlyAppend DEF QueueTypes
      <4>2. all = out
        BY <3>6 DEF all
      <4>3. Lacks(id)'
        BY <1>2, <2>11, <3>2, <3>3, <3>5, <4>1, <4>2 DEF Lacks, all
      <4> QED BY <1>3, <2>5, <2>9, <4>3 DEF Printed
    <3>7. CASE e.type = "delta"
      <4>1. Only(events', Deltas(id)) = Append(waiting, e)
        <5>1. e \in Deltas(id)
          BY <3>7 DEF Deltas
        <5> QED BY <5>1, OnlyAppend DEF QueueTypes
      <4>2. PICK c \in Chars : all = Append(out, c) /\ e.text = <<c>>
        BY <3>7 DEF all
      <4> DEFINE more == Append(waiting, e)
                 m == Len(waiting)
      <4>3. /\ m \in Nat /\ Len(more) = m + 1 /\ more[m + 1] = e
            /\ \A k \in 1 .. m : more[k] = waiting[k]
        BY <3>4, <3>7 DEF Deltas
      <4>4. /\ Len(all) = Len(out) + 1 /\ all[Len(out) + 1] = c
            /\ \A k \in 1 .. Len(out) : all[k] = out[k]
            /\ Len(out) \in Nat
        BY <2>1, <4>2
      <4> HIDE DEF more, m, waiting
      <4>5. Len(term) + m = Len(out)
        BY <3>2 DEF m
      <4> HIDE DEF term, out
      <4>6. ASSUME NEW k \in 1 .. m PROVE more[k].text = <<all[Len(term) + k]>>
        <5>1. waiting[k].text = <<out[Len(term) + k]>>
          BY <3>2 DEF m
        <5>2. Len(term) + k \in 1 .. Len(out)
          BY <3>4, <4>3, <4>4, <4>5
        <5> QED BY <4>3, <4>4, <5>1, <5>2
      <4>7. more[m + 1].text = <<all[Len(term) + (m + 1)]>>
        <5>1. Len(term) + (m + 1) = Len(out) + 1
          BY <3>4, <4>3, <4>4, <4>5
        <5> QED BY <4>2, <4>3, <4>4, <5>1
      <4>8. /\ Len(term) + Len(more) = Len(all)
            /\ \A k \in 1 .. Len(more) : more[k].text = <<all[Len(term) + k]>>
        <5>1. \A k \in 1 .. m + 1 : k \in 1 .. m \/ k = m + 1
          BY <4>3
        <5> QED
          <6>1. Len(term) + (m + 1) = Len(out) + 1
            BY <3>4, <4>3, <4>4, <4>5
          <6>2. Len(more) = m + 1 /\ Len(all) = Len(out) + 1
            BY <4>3, <4>4
          <6>3. Len(term) + Len(more) = Len(all)
            BY <6>1, <6>2
          <6>4. \A k \in 1 .. Len(more) : more[k].text = <<all[Len(term) + k]>>
            BY <4>6, <4>7, <5>1, <6>2
          <6> QED BY <6>3, <6>4
      <4>9. Only(events', Deltas(id)') = more
        BY <1>2, <4>1 DEF more
      <4>10. view'.v2[id].term = term /\ pi'[id].out = all
        BY DEF all, term
      <4>11. Lacks(id)'
        BY <2>11, <3>3, <3>5, <4>8, <4>9, <4>10 DEF Lacks
      <4> QED BY <1>3, <2>5, <2>9, <4>11 DEF Printed
    <3> QED BY <3>1, <3>6, <3>7
  <2> QED BY <1>5, <2>10, <2>11 DEF OneForm
<1> QED BY <1>4, <1>5

-----------------------------------------------------------------------------
(* The pump's steps.                                                       *)

CallInv(id) == InOrder(id) /\ Waiting(id) /\ Seen(id) /\ Printed(id)
ToolInv == QueueTypes /\ Good /\ \A id \in Ids : CallInv(id)

\* What a step must give for the queue to stay well-formed.
LEMMA QueueTypesThen ==
    ASSUME QueueTypes, UNCHANGED way, events' \in Seq(EventRec), Len(events') <= MaxEvents,
           \A i \in 1 .. Len(events') :
              /\ events'[i].id = NoId <=> events'[i].type = "settled"
              /\ events'[i].type = "surface" => Calls(events'[i].id),
           pi' \in [Ids -> PiRec], \A id \in Ids : pi'[id].lost => pi'[id].exe = "ended",
           file' \in 0 .. MaxWrites,
           turn' \in {"none", "waiting", "going"}
    PROVE  QueueTypes'
BY DEF QueueTypes, Calls

TakesFirst == events # <<>> /\ events' = Tail(events) /\ UNCHANGED <<pi, file, way>>

\* Handling an event of one call keeps what holds of the others.
LEMMA OthersKeep ==
    ASSUME ToolInv, TakesFirst, NEW id \in Ids, Untouched(id), events[1].id # id
    PROVE  CallInv(id)'
<1>1. /\ QueueTypes /\ InOrder(id) /\ Waiting(id) /\ Seen(id) /\ Printed(id)
      /\ events # <<>> /\ events' = Tail(events) /\ UNCHANGED <<pi, file, way>>
  BY DEF ToolInv, CallInv, TakesFirst
<1>2. \A type \in Types : ~Is(1, type, id)
  BY DEF Is
<1>3. Tracked(id)' <=> Tracked(id)
  BY DEF Tracked, Untouched
<1>4. ~Is(1, "start", id) /\ ~Is(1, "end", id)
  BY <1>2 DEF Types
<1>5. InOrder(id)' /\ Waiting(id)'
  BY <1>1, <1>3, <1>4, TakingStaysInOrder DEF Untouched
<1>6. Seen(id)'
  BY <1>1, OthersStaySeen
<1>7. Finished(id)' <=> Finished(id)
  BY <1>1, OthersStayFinished
<1>8. Printed(id)'
  BY <1>1, <1>3, <1>7, TakingKeepsPrinted DEF Untouched, Printed, Shows
<1> QED BY <1>5, <1>6, <1>8 DEF CallInv

\* A call of which an event waits.
LEMMA FirstEvent ==
    ASSUME ToolInv, TakesFirst, NEW c \in Ids, events[1].id = c
    PROVE  /\ QueueTypes /\ Good /\ InOrder(c) /\ Waiting(c) /\ Seen(c) /\ Printed(c)
           /\ events # <<>> /\ events' = Tail(events) /\ UNCHANGED <<pi, file, way>>
           /\ events[1] \in EventRec /\ ~Heard(c) /\ ~Finished(c)
           /\ ~Tracked(c) => view.v2[c].term = <<>> /\ maps.output[c] = Absent
           /\ events[1].type \in {"update", "delta", "end"} => c \in maps.executing
           /\ events[1].type = "surface" => Calls(c) /\ (~way.late => c \notin maps.executing)
<1>1. /\ QueueTypes /\ Good /\ InOrder(c) /\ Waiting(c) /\ Seen(c) /\ Printed(c)
      /\ events # <<>> /\ events' = Tail(events) /\ UNCHANGED <<pi, file, way>>
  BY DEF ToolInv, CallInv, TakesFirst
<1>2. events[1] \in EventRec /\ 1 \in 1 .. Len(events)
  BY <1>1, Taken
<1>3. ~Heard(c)
  BY <1>2 DEF Heard
<1>4. ~Finished(c)
  BY <1>1, <1>3, NotFinished
<1>5. ~Tracked(c) => view.v2[c].term = <<>> /\ maps.output[c] = Absent
  <2>1. ASSUME ~Tracked(c) PROVE view.v2[c] = NoCall /\ maps.output[c] = Absent
    BY <1>1, <1>4, <2>1 DEF Seen, Known, MapsOf, Good, ViewsAlike, Alike
  <2> QED BY <2>1 DEF NoCall
<1>6. events[1].type \in {"update", "delta", "end"} => c \in maps.executing
  BY <1>1, <1>2 DEF InOrder, PrintsStarted, ToldBy
<1>7. events[1].type = "surface" => Calls(c) /\ (~way.late => c \notin maps.executing)
  BY <1>1, <1>2 DEF InOrder, StreamsFirst, ToldBy, Is, QueueTypes
<1> QED BY <1>1, <1>2, <1>3, <1>4, <1>5, <1>6, <1>7

\* The handler of toolcall_start and toolcall_end keeps the invariant.
LEMMA SurfaceKeeps ==
    ASSUME ToolInv, TakesFirst, NEW c \in Ids, Is(1, "surface", c),
           NEW named \in BOOLEAN, surface_tool_call(c, named)
    PROVE  Good' /\ \A id \in Ids : CallInv(id)'
<1>1. /\ QueueTypes /\ Good /\ InOrder(c) /\ Waiting(c) /\ Seen(c) /\ Printed(c)
      /\ events # <<>> /\ events' = Tail(events) /\ UNCHANGED <<pi, file, way>>
      /\ ~Heard(c) /\ ~Finished(c) /\ Calls(c)
      /\ ~Tracked(c) => view.v2[c].term = <<>> /\ maps.output[c] = Absent
      /\ ~way.late => c \notin maps.executing
  BY FirstEvent DEF Is
<1>2. /\ Good' /\ \A id \in Ids : id # c => Untouched(id)
      /\ maps'.current[c] = Or(maps.current[c], "pending")
      /\ maps'.executing = maps.executing /\ maps'.output = maps.output
      /\ view'.v2[c].term = view.v2[c].term
  BY <1>1, Surfaces DEF Seen
<1>3. ~Is(1, "start", c) /\ ~Is(1, "end", c) /\ events[1].id = c
  BY DEF Is
<1>4. InOrder(c)' /\ Waiting(c)'
  BY <1>1, <1>2, <1>3, TakingStaysInOrder
<1>5. Seen(c)'
  BY <1>1, <1>4, SurfacedIsSeen
<1>6. ~Finished(c)'
  <2>1. Tracked(c)'
    BY <1>2, Words DEF Tracked, Or
  <2> QED BY <1>4, <2>1, NotFinishedThen
<1>7. OneForm(c) => view.v2[c].term = OrEmpty(maps.output[c])
  BY <1>1 DEF Printed, Shows, OrEmpty
<1>8. Printed(c)'
  BY <1>1, <1>2, <1>6, <1>7, TakingKeepsPrinted DEF Is
<1>9. \A id \in Ids : id # c => CallInv(id)'
  BY <1>2, <1>3, OthersKeep
<1> QED BY <1>2, <1>4, <1>5, <1>8, <1>9 DEF CallInv

\* So does the handler of tool_execution_start,
LEMMA StartKeeps ==
    ASSUME ToolInv, TakesFirst, NEW c \in Ids, Is(1, "start", c),
           on_tool_execution_start(c)
    PROVE  Good' /\ \A id \in Ids : CallInv(id)'
<1>1. /\ QueueTypes /\ Good /\ InOrder(c) /\ Waiting(c) /\ Seen(c) /\ Printed(c)
      /\ events # <<>> /\ events' = Tail(events) /\ UNCHANGED <<pi, file, way>>
      /\ ~Heard(c) /\ ~Finished(c)
      /\ ~Tracked(c) => view.v2[c].term = <<>> /\ maps.output[c] = Absent
  BY FirstEvent DEF Is
<1>2. /\ Good' /\ \A id \in Ids : id # c => Untouched(id)
      /\ maps'.current[c] = "in_progress"
      /\ maps'.executing = maps.executing \cup {c} /\ maps'.output = maps.output
      /\ view'.v2[c].term = view.v2[c].term
  BY <1>1, Starts DEF Seen
<1>3. ~Is(1, "end", c) /\ events[1].id = c /\ c \in maps'.executing
  BY <1>2 DEF Is
<1>4. InOrder(c)' /\ Waiting(c)'
  BY <1>1, <1>3, TakingStaysInOrder
<1>5. Seen(c)'
  BY <1>1, <1>4, StartedIsSeen
<1>6. ~Finished(c)'
  BY <1>2, <1>4, Words, NotFinishedThen DEF Tracked
<1>7. OneForm(c) => view.v2[c].term = OrEmpty(maps.output[c])
  BY <1>1 DEF Printed, Shows, OrEmpty
<1>8. Printed(c)'
  BY <1>1, <1>2, <1>6, <1>7, TakingKeepsPrinted DEF Is
<1>9. \A id \in Ids : id # c => CallInv(id)'
  BY <1>2, <1>3, OthersKeep
<1> QED BY <1>2, <1>4, <1>5, <1>8, <1>9 DEF CallInv

\* of tool_execution_update,
LEMMA UpdateKeeps ==
    ASSUME ToolInv, TakesFirst, NEW c \in Ids, Is(1, "update", c),
           on_tool_execution_update(c, events[1].text)
    PROVE  Good' /\ \A id \in Ids : CallInv(id)'
<1>1. /\ QueueTypes /\ Good /\ InOrder(c) /\ Waiting(c) /\ Seen(c) /\ Printed(c)
      /\ events # <<>> /\ events' = Tail(events) /\ UNCHANGED <<pi, file, way>>
      /\ events[1] \in EventRec /\ ~Heard(c) /\ c \in maps.executing
  BY FirstEvent DEF Is
<1>2. events[1].text \in Seq(Chars)
  BY <1>1 DEF EventRec
<1>3. /\ Good' /\ \A id \in Ids : id # c => Untouched(id)
      /\ maps'.current = maps.current /\ maps'.executing = maps.executing
      /\ maps'.output[c] = IF IsBash(c) THEN events[1].text ELSE maps.output[c]
      /\ view'.v2[c].term =
            IF IsBash(c)
            THEN view.v2[c].term \o bash_output_delta(OrEmpty(maps.output[c]), events[1].text)
            ELSE view.v2[c].term
  BY <1>1, <1>2, Updates DEF Seen
<1>4. ~Is(1, "start", c) /\ ~Is(1, "end", c) /\ events[1].id = c
  BY DEF Is
<1>5. Tracked(c) /\ Tracked(c)'
  BY <1>1, <1>3, Words DEF Seen, MapsOf, Tracked
<1>6. InOrder(c)' /\ Waiting(c)'
  BY <1>1, <1>3, <1>4, TakingStaysInOrder
<1>7. Seen(c)'
  BY <1>1, <1>2, <1>6, PrintedIsSeen
<1>8. ~Finished(c)'
  BY <1>5, <1>6, NotFinishedThen
<1>9. Printed(c)'
  BY <1>1, <1>3, <1>5, <1>8, UpdatedIsPrinted
<1>10. \A id \in Ids : id # c => CallInv(id)'
  BY <1>3, <1>4, OthersKeep
<1> QED BY <1>3, <1>6, <1>7, <1>9, <1>10 DEF CallInv

\* of bash_execution_update,
LEMMA DeltaKeeps ==
    ASSUME ToolInv, TakesFirst, NEW c \in Ids, Is(1, "delta", c),
           on_bash_execution_update(c, events[1].text)
    PROVE  Good' /\ \A id \in Ids : CallInv(id)'
<1>1. /\ QueueTypes /\ Good /\ InOrder(c) /\ Waiting(c) /\ Seen(c) /\ Printed(c)
      /\ events # <<>> /\ events' = Tail(events) /\ UNCHANGED <<pi, file, way>>
      /\ events[1] \in EventRec /\ ~Heard(c) /\ c \in maps.executing
  BY FirstEvent DEF Is
<1>2. events[1].text \in Seq(Chars)
  BY <1>1 DEF EventRec
<1>3. /\ Good' /\ \A id \in Ids : id # c => Untouched(id)
      /\ maps'.current = maps.current /\ maps'.executing = maps.executing
      /\ ~IsBash(c) => maps'.output[c] = maps.output[c]
      /\ IsBash(c) /\ events[1].text # <<>> =>
            maps'.output[c] = OrEmpty(maps.output[c]) \o events[1].text
      /\ IsBash(c) /\ events[1].text = <<>> => maps'.output[c] = maps.output[c]
      /\ view'.v2[c].term =
            IF IsBash(c) THEN view.v2[c].term \o events[1].text ELSE view.v2[c].term
  BY <1>1, <1>2, BashStreams DEF Seen
<1>4. ~Is(1, "start", c) /\ ~Is(1, "end", c) /\ events[1].id = c
  BY DEF Is
<1>5. Tracked(c) /\ Tracked(c)'
  BY <1>1, <1>3, Words DEF Seen, MapsOf, Tracked
<1>6. InOrder(c)' /\ Waiting(c)'
  BY <1>1, <1>3, <1>4, TakingStaysInOrder
<1>7. Seen(c)'
  BY <1>1, <1>2, <1>6, PrintedIsSeen
<1>8. ~Finished(c)'
  BY <1>5, <1>6, NotFinishedThen
<1>9. Printed(c)'
  BY <1>1, <1>3, <1>5, <1>8, StreamedIsPrinted DEF InOrder
<1>10. \A id \in Ids : id # c => CallInv(id)'
  BY <1>3, <1>4, OthersKeep
<1> QED BY <1>3, <1>6, <1>7, <1>9, <1>10 DEF CallInv

\* and of tool_execution_end.
LEMMA EndKeeps ==
    ASSUME ToolInv, TakesFirst, NEW c \in Ids, Is(1, "end", c),
           on_tool_execution_end(c, events[1].text, events[1].err)
    PROVE  Good' /\ \A id \in Ids : CallInv(id)'
<1>1. /\ QueueTypes /\ Good /\ InOrder(c) /\ Waiting(c) /\ Seen(c) /\ Printed(c)
      /\ events # <<>> /\ events' = Tail(events) /\ UNCHANGED <<pi, file, way>>
      /\ events[1] \in EventRec /\ ~Heard(c) /\ c \in maps.executing
  BY FirstEvent DEF Is
<1>2. events[1].text \in Seq(Chars) /\ events[1].err \in BOOLEAN
  BY <1>1 DEF EventRec
<1>3. /\ Good' /\ \A id \in Ids : id # c => Untouched(id)
      /\ maps'.current[c] = Absent /\ c \notin maps'.executing /\ maps'.output[c] = Absent
      /\ view'.v2[c].term =
            IF IsBash(c)
            THEN view.v2[c].term \o bash_output_delta(OrEmpty(maps.output[c]), events[1].text)
            ELSE view.v2[c].term
  BY <1>1, <1>2, CallEnds DEF Seen
<1>4. ~Is(1, "start", c) /\ events[1].id = c
  BY DEF Is
<1>5. Tracked(c) /\ ~Tracked(c)'
  BY <1>1, <1>3, Words DEF Seen, MapsOf, Tracked
<1>6. InOrder(c)' /\ Waiting(c)'
  BY <1>1, <1>3, <1>4, <1>5, TakingStaysInOrder
<1>7. pi[c].exe = "ended" /\ ~pi[c].lost /\ events[1].err = pi[c].err
  <2>1. 1 \in 1 .. Len(events)
    BY <1>1, Taken
  <2> QED BY <1>1, <2>1 DEF InOrder, EndsLast
<1>8. Heard(c)'
  <2>1. /\ Len(events) \in Nat /\ Len(events') = Len(events) - 1 /\ 1 \in 1 .. Len(events)
        /\ \A i \in 1 .. Len(events') : events'[i] = events[i + 1]
    BY <1>1, Taken
  <2>2. \A j \in 1 .. Len(events) : events[j].id = c => j <= 1
    BY <1>1, <2>1 DEF InOrder, EndsLast
  <2>3. \A i \in 1 .. Len(events') : i + 1 \in 1 .. Len(events) /\ ~(i + 1 <= 1)
    BY <2>1
  <2> QED BY <2>1, <2>2, <2>3 DEF Heard
<1>9. Finished(c)'
  BY <1>1, <1>7, <1>8 DEF Finished
<1>10. Seen(c)'
  BY <1>1, <1>2, <1>7, <1>9, EndedIsSeen
<1>11. Printed(c)'
  BY <1>1, <1>3, <1>5, EndedIsPrinted DEF InOrder
<1>12. \A id \in Ids : id # c => CallInv(id)'
  BY <1>3, <1>4, OthersKeep
<1> QED BY <1>3, <1>6, <1>10, <1>11, <1>12 DEF CallInv

\* The pump's step keeps the invariant, whichever event it takes.
LEMMA HandleKeeps ==
    ASSUME ToolInv, Handle, UNCHANGED way
    PROVE  ToolInv'
<1> DEFINE e == events[1]
<1>1. /\ TakesFirst /\ QueueTypes /\ Good /\ Head(events) = e /\ e \in EventRec
      /\ events' \in Seq(EventRec) /\ Len(events') = Len(events) - 1 /\ Len(events) \in Nat
      /\ 1 \in 1 .. Len(events)
      /\ \A i \in 1 .. Len(events') : events'[i] = events[i + 1] /\ i + 1 \in 1 .. Len(events)
  BY Taken DEF Handle, ToolInv, TakesFirst
<1>2. /\ turn' \in {"none", "waiting", "going"} /\ UNCHANGED <<pi, file, way>>
      /\ \/ e.type = "surface" /\ surface_tool_call(e.id, e.named)
         \/ e.type = "start" /\ on_tool_execution_start(e.id)
         \/ e.type = "update" /\ on_tool_execution_update(e.id, e.text)
         \/ e.type = "end" /\ on_tool_execution_end(e.id, e.text, e.err)
         \/ e.type = "delta" /\ on_bash_execution_update(e.id, e.text)
         \/ e.type = "settled" /\ maps' = maps /\ Silent
  BY <1>1 DEF Handle, QueueTypes
<1>3. e.named \in BOOLEAN /\ (e.type # "settled" => e.id \in Ids)
  BY <1>1 DEF EventRec, QueueTypes
<1>4. QueueTypes'
  <2>1. \A i \in 1 .. Len(events') :
           /\ events'[i].id = NoId <=> events'[i].type = "settled"
           /\ events'[i].type = "surface" => Calls(events'[i].id)
    BY <1>1 DEF QueueTypes
  <2>2. Len(events') <= MaxEvents
    BY <1>1, ToolAssumption DEF QueueTypes
  <2>3. /\ pi' \in [Ids -> PiRec] /\ file' \in 0 .. MaxWrites
        /\ \A id \in Ids : pi'[id].lost => pi'[id].exe = "ended"
    BY <1>1, <1>2 DEF QueueTypes
  <2> QED BY <1>1, <1>2, <2>1, <2>2, <2>3, QueueTypesThen
<1>5. Good' /\ \A id \in Ids : CallInv(id)'
  <2>1. CASE e.type = "surface" /\ surface_tool_call(e.id, e.named)
    BY <1>1, <1>3, <2>1, SurfaceKeeps DEF Is
  <2>2. CASE e.type = "start" /\ on_tool_execution_start(e.id)
    BY <1>1, <1>3, <2>2, StartKeeps DEF Is
  <2>3. CASE e.type = "update" /\ on_tool_execution_update(e.id, e.text)
    BY <1>1, <1>3, <2>3, UpdateKeeps DEF Is
  <2>4. CASE e.type = "end" /\ on_tool_execution_end(e.id, e.text, e.err)
    BY <1>1, <1>3, <2>4, EndKeeps DEF Is
  <2>5. CASE e.type = "delta" /\ on_bash_execution_update(e.id, e.text)
    BY <1>1, <1>3, <2>5, DeltaKeeps DEF Is
  <2>6. CASE e.type = "settled" /\ maps' = maps /\ Silent
    <3>1. e.id = NoId
      BY <1>1, <2>6 DEF QueueTypes
    <3>2. \A id \in Ids : Untouched(id) /\ e.id # id
      BY <2>6, <3>1, ToolAssumption DEF Untouched, Silent
    <3>3. Good'
      BY <1>1, <1>2, <2>6 DEF Good, ViewTypes, ViewsAlike, Silent, IsBash
    <3> QED BY <1>1, <3>2, <3>3, OthersKeep
  <2> QED BY <1>2, <2>1, <2>2, <2>3, <2>4, <2>5, <2>6
<1> QED BY <1>4, <1>5 DEF ToolInv

-----------------------------------------------------------------------------
(* pi's steps.                                                             *)

\* The queue stays well-formed under an event pi sends.
LEMMA SentTypes ==
    ASSUME QueueTypes, UNCHANGED way, NEW e \in EventRec, PiSends(e),
           e.id = NoId <=> e.type = "settled", e.type = "surface" => Calls(e.id),
           pi' \in [Ids -> PiRec], \A id \in Ids : pi'[id].lost => pi'[id].exe = "ended",
           file' \in 0 .. MaxWrites,
           turn' \in {"none", "waiting", "going"}
    PROVE  QueueTypes'
<1>1. events' = Append(events, e) /\ Len(events) < MaxEvents
  BY DEF PiSends
<1>0. PICK n \in Nat : n = Len(events)
  BY DEF QueueTypes
<1>2. /\ events' \in Seq(EventRec) /\ Len(events') = n + 1 /\ events'[n + 1] = e
      /\ \A i \in 1 .. n : events'[i] = events[i]
  BY <1>0, <1>1, Sent
<1>3. Len(events') <= MaxEvents
  BY <1>0, <1>1, <1>2, ToolAssumption
<1>4. \A i \in 1 .. n + 1 : i \in 1 .. n \/ i = n + 1
  OBVIOUS
<1>5. \A i \in 1 .. n : /\ events[i].id = NoId <=> events[i].type = "settled"
                        /\ events[i].type = "surface" => Calls(events[i].id)
  BY <1>0 DEF QueueTypes
<1>6. \A i \in 1 .. Len(events') :
         /\ events'[i].id = NoId <=> events'[i].type = "settled"
         /\ events'[i].type = "surface" => Calls(events'[i].id)
  BY <1>2, <1>4, <1>5
<1> QED BY <1>2, <1>3, <1>6, QueueTypesThen

\* What pi does leaves the pump's maps and the views as they were.
LEMMA StaysGood ==
    ASSUME Good, UNCHANGED <<Pump, way>>
    PROVE  Good'
BY DEF Good, Pump, ViewTypes, ViewsAlike, IsBash

\* What pi does to one call leaves what holds of another.
LEMMA OthersOfPiKeep ==
    ASSUME ToolInv, UNCHANGED <<Pump, way>>, NEW id \in Ids, pi'[id] = pi[id],
           file' \in Nat, file <= file',
           \/ events' = events
           \/ \E e \in EventRec : events' = Append(events, e) /\ e.id # id
    PROVE  CallInv(id)'
<1>1. /\ QueueTypes /\ Good /\ InOrder(id) /\ Waiting(id) /\ Seen(id) /\ Printed(id)
      /\ UNCHANGED <<maps, view, way>> /\ maps \in MapRec
  BY DEF ToolInv, CallInv, Pump, Good
<1>2. pi[id].before \in Nat /\ pi[id].before <= file /\ file \in Nat
  BY <1>1, ToolAssumption DEF QueueTypes, PiRec, Seen, Edited
<1>3. pi'[id].before \in Nat /\ pi'[id].before <= file'
  BY <1>2
<1>4. CASE events' = events
  <2>1. InOrder(id)' /\ Waiting(id)'
    BY <1>1, <1>4, SilenceStaysInOrder
  <2>2. Finished(id)' <=> Finished(id)
    BY <1>4 DEF Finished, Heard
  <2>3. Seen(id)'
    BY <1>1, <1>3, <2>2, PiKeepsSeen
  <2>4. Printed(id)'
    BY <1>1, <1>4, <2>2, SendingKeepsPrinted
  <2> QED BY <2>1, <2>3, <2>4 DEF CallInv
<1>5. ASSUME NEW e \in EventRec, events' = Append(events, e), e.id # id
      PROVE  CallInv(id)'
  <2>1. InOrder(id)' /\ Waiting(id)'
    BY <1>1, <1>5, OthersStayInOrder
  <2>2. Finished(id)' <=> Finished(id)
    BY <1>1, <1>5, SendingFinishesNone
  <2>3. Seen(id)'
    BY <1>1, <1>3, <2>2, PiKeepsSeen
  <2>4. Printed(id)'
    BY <1>1, <1>5, <2>2, SendingKeepsPrinted
  <2> QED BY <2>1, <2>3, <2>4 DEF CallInv
<1> QED BY <1>4, <1>5

\* A step of pi about no call.
LEMMA PiWaits ==
    ASSUME ToolInv, UNCHANGED <<pi, file, Pump, way>>, QueueTypes',
           \/ events' = events
           \/ \E e \in EventRec : events' = Append(events, e) /\ e.id = NoId
    PROVE  ToolInv'
<1>1. file' \in Nat /\ file <= file' /\ UNCHANGED <<Pump, way>>
  BY ToolAssumption DEF ToolInv, QueueTypes
<1>2. Good'
  BY <1>1, StaysGood DEF ToolInv
<1>3. NoId \notin Ids
  BY ToolAssumption
<1>4. \A id \in Ids : CallInv(id)'
  BY <1>1, <1>3, OthersOfPiKeep
<1> QED BY <1>2, <1>4 DEF ToolInv

\* A step of pi about a call.
LEMMA PiActs ==
    ASSUME ToolInv, UNCHANGED <<Pump, way>>, QueueTypes', NEW c \in Ids,
           \A id \in Ids : id # c => pi'[id] = pi[id], CallInv(c)',
           file' \in Nat, file <= file',
           \/ events' = events
           \/ \E e \in EventRec : events' = Append(events, e) /\ e.id = c
    PROVE  ToolInv'
<1>1. Good'
  BY StaysGood DEF ToolInv
<1>2. \A id \in Ids : id # c => CallInv(id)'
  BY OthersOfPiKeep
<1> QED BY <1>1, <1>2 DEF ToolInv

\* What the invariant says of a call that pi acts on.
LEMMA ActsOn ==
    ASSUME ToolInv, NEW c \in Ids
    PROVE  /\ QueueTypes /\ Good /\ InOrder(c) /\ Waiting(c) /\ Seen(c) /\ Printed(c)
           /\ pi[c] \in PiRec /\ pi[c].before <= file /\ file \in Nat /\ maps \in MapRec
<1>1. QueueTypes /\ Good /\ InOrder(c) /\ Waiting(c) /\ Seen(c) /\ Printed(c)
  BY DEF ToolInv, CallInv
<1> QED BY <1>1, ToolAssumption DEF QueueTypes, Seen, Edited, Good

\* A step that prints nothing: an event that is not of the output, or none.
LEMMA PiSpeaks ==
    ASSUME ToolInv, UNCHANGED <<Pump, file, way>>, QueueTypes', NEW c \in Ids,
           NEW e \in EventRec, events' = Append(events, e), e.id = c,
           e.type \in {"surface", "start"}, \A id \in Ids : id # c => pi'[id] = pi[id],
           pi[c].exe # "ended", pi'[c].exe # "ended",
           pi[c].exe # "no" => pi'[c].exe # "no",
           e.type = "start" => pi[c].exe = "no" /\ pi'[c].exe # "no",
           e.type = "surface" => pi'[c].exe = pi[c].exe,
           e.type = "surface" /\ ~way.late => pi[c].exe = "no",
           pi'[c].out = pi[c].out,
           pi'[c].before = pi[c].before \/ (pi[c].exe = "no" /\ pi'[c].before = file)
    PROVE  ToolInv'
<1>1. /\ QueueTypes /\ Good /\ InOrder(c) /\ Waiting(c) /\ Seen(c) /\ Printed(c)
      /\ pi[c] \in PiRec /\ pi[c].before <= file /\ file \in Nat /\ maps \in MapRec
      /\ UNCHANGED <<maps, view, way>>
  BY ActsOn DEF Pump
<1>2. InOrder(c)' /\ Waiting(c)'
  BY <1>1, OwnStaysInOrder DEF Running
<1>3. Finished(c)' <=> Finished(c)
  BY <1>1, SendingFinishesNone
<1>4. pi'[c].before \in Nat /\ pi'[c].before <= file' /\ file' \in Nat /\ file <= file'
  BY <1>1 DEF PiRec
<1>5. Seen(c)'
  BY <1>1, <1>3, <1>4, PiKeepsSeen
<1>6. Printed(c)'
  BY <1>1, <1>3, SendingKeepsPrinted
<1>7. CallInv(c)'
  BY <1>2, <1>5, <1>6 DEF CallInv
<1> QED BY <1>4, <1>7, PiActs

\* A step about a running call that sends nothing.
LEMMA PiIsQuiet ==
    ASSUME ToolInv, UNCHANGED <<Pump, events, way>>, QueueTypes', NEW c \in Ids,
           \A id \in Ids : id # c => pi'[id] = pi[id], Running(c),
           \/ pi'[c].exe = pi[c].exe /\ pi'[c].lost = pi[c].lost /\ pi'[c].err = pi[c].err
           \/ pi'[c].exe = "ended" /\ pi'[c].lost,
           pi'[c].out = pi[c].out, pi'[c].before = pi[c].before, file' \in Nat, file <= file'
    PROVE  ToolInv'
<1>1. /\ QueueTypes /\ Good /\ InOrder(c) /\ Waiting(c) /\ Seen(c) /\ Printed(c)
      /\ pi[c] \in PiRec /\ pi[c].before <= file /\ file \in Nat /\ maps \in MapRec
      /\ UNCHANGED <<maps, view, way, events>>
  BY ActsOn DEF Pump
<1>2. InOrder(c)' /\ Waiting(c)'
  BY <1>1, SilenceStaysInOrder
<1>3. ~Finished(c) /\ ~Finished(c)'
  BY DEF Finished, Running
<1>4. pi'[c].before \in Nat /\ pi'[c].before <= file'
  BY <1>1 DEF PiRec
<1>5. Seen(c)'
  BY <1>1, <1>3, <1>4, PiKeepsSeen DEF Running
<1>6. Printed(c)'
  BY <1>1, <1>3, SendingKeepsPrinted
<1>7. CallInv(c)'
  BY <1>2, <1>5, <1>6 DEF CallInv
<1> QED BY <1>1, <1>7, PiActs

\* A step that sends output of the call.
LEMMA PiPrints ==
    ASSUME ToolInv, UNCHANGED <<Pump, file, way>>, QueueTypes', NEW c \in Ids,
           NEW e \in EventRec, events' = Append(events, e), e.id = c, Running(c),
           \A id \in Ids : id # c => pi'[id] = pi[id], pi'[c].before = pi[c].before,
           \/ /\ e.type = "update" /\ "snapshot" \in way.forms[c]
              /\ \E x \in Chars : pi'[c].out = Append(pi[c].out, x)
              /\ OneForm(c) => e.text = pi'[c].out
              /\ pi'[c].exe = "running"
           \/ /\ e.type = "delta" /\ "delta" \in way.forms[c]
              /\ \E x \in Chars : pi'[c].out = Append(pi[c].out, x) /\ e.text = <<x>>
              /\ pi'[c].exe = "running"
           \/ /\ e.type = "end" /\ pi'[c].out = pi[c].out
              /\ OneForm(c) => e.text = pi[c].out
              /\ pi'[c].exe = "ended" /\ ~pi'[c].lost /\ pi'[c].err = e.err
    PROVE  ToolInv'
<1>1. /\ QueueTypes /\ Good /\ InOrder(c) /\ Waiting(c) /\ Seen(c) /\ Printed(c)
      /\ pi[c] \in PiRec /\ pi[c].before <= file /\ file \in Nat /\ maps \in MapRec
      /\ UNCHANGED <<maps, view, way>>
  BY ActsOn DEF Pump
<1>2. pi[c].exe = "running"
  BY DEF Running
<1>3. /\ e.type = "end" => pi'[c].exe = "ended" /\ ~pi'[c].lost /\ pi'[c].err = e.err
      /\ e.type # "end" => pi'[c].exe = "running"
      /\ e.type \in {"update", "delta", "end"}
  OBVIOUS
<1>4. InOrder(c)' /\ Waiting(c)'
  BY <1>1, <1>2, <1>3, OwnStaysInOrder
<1>5. Finished(c)' <=> Finished(c)
  BY <1>1, <1>2, SendingFinishesNone
<1>6. ~Finished(c)'
  BY <1>2, <1>5 DEF Finished
<1>7. pi'[c].before \in Nat /\ pi'[c].before <= file' /\ file' \in Nat /\ file <= file'
  BY <1>1 DEF PiRec
<1>8. Seen(c)'
  BY <1>1, <1>2, <1>5, <1>7, PiKeepsSeen
<1>9. Printed(c)'
  BY <1>1, <1>2, <1>6, PrintingKeepsPrinted DEF InOrder
<1>10. CallInv(c)'
  BY <1>4, <1>8, <1>9 DEF CallInv
<1> QED BY <1>7, <1>10, PiActs

\* No output is an output.
LEMMA EmptyOutput == <<>> \in Seq(Chars)
OBVIOUS

\* An event says what pi gave it.
Tells(e, type, id, text, err) ==
    e \in EventRec /\ e.type = type /\ e.id = id /\ e.text = text /\ e.err = err

\* What Event makes, and what each form of it says.
LEMMA EventIs ==
    ASSUME NEW type \in Types \cup {"settled"}, NEW id \in Ids \cup {NoId}
    PROVE  Tells(Event(type, id), type, id, <<>>, FALSE)
<1> DEFINE empty == <<>>
<1>1. empty \in Seq(Chars)
  BY EmptyOutput
<1> HIDE DEF empty
<1>2. Event(type, id) = [type |-> type, id |-> id, named |-> FALSE, text |-> empty, err |-> FALSE]
  BY DEF Event, empty
<1> QED BY <1>1, <1>2 DEF EventRec, Tells, empty

\* The same with the name's part.
LEMMA EventWithName ==
    ASSUME NEW type \in Types \cup {"settled"}, NEW id \in Ids \cup {NoId}, NEW named \in BOOLEAN
    PROVE  Tells([Event(type, id) EXCEPT !.named = named], type, id, <<>>, FALSE)
<1> DEFINE e == Event(type, id)
<1>1. Tells(e, type, id, <<>>, FALSE)
  BY EventIs
<1>2. e \in EventRec /\ e.type = type /\ e.id = id /\ e.text = <<>> /\ e.err = FALSE
  BY <1>1 DEF Tells
<1> HIDE DEF e
<1>3. [e EXCEPT !.named = named] \in EventRec
  BY <1>2 DEF EventRec
<1>4. Tells([e EXCEPT !.named = named], type, id, <<>>, FALSE)
  BY <1>2, <1>3 DEF EventRec, Tells
<1> QED BY <1>4 DEF e

\* The same with a text.
LEMMA EventWithText ==
    ASSUME NEW type \in Types \cup {"settled"}, NEW id \in Ids \cup {NoId}, NEW text \in Seq(Chars)
    PROVE  Tells([Event(type, id) EXCEPT !.text = text], type, id, text, FALSE)
<1> DEFINE e == Event(type, id)
<1>1. Tells(e, type, id, <<>>, FALSE)
  BY EventIs
<1>2. e \in EventRec /\ e.type = type /\ e.id = id /\ e.err = FALSE
  BY <1>1 DEF Tells
<1> HIDE DEF e
<1>3. [e EXCEPT !.text = text] \in EventRec
  BY <1>2 DEF EventRec
<1>4. Tells([e EXCEPT !.text = text], type, id, text, FALSE)
  BY <1>2, <1>3 DEF EventRec, Tells
<1> QED BY <1>4 DEF e

\* The same with a text and an outcome.
LEMMA EventWithOutcome ==
    ASSUME NEW type \in Types \cup {"settled"}, NEW id \in Ids \cup {NoId}, NEW text \in Seq(Chars),
           NEW err \in BOOLEAN
    PROVE  Tells([Event(type, id) EXCEPT !.text = text, !.err = err], type, id, text, err)
<1> DEFINE e == Event(type, id)
<1>1. Tells(e, type, id, <<>>, FALSE)
  BY EventIs
<1>2. e \in EventRec /\ e.type = type /\ e.id = id
  BY <1>1 DEF Tells
<1> HIDE DEF e
<1>3. [e EXCEPT !.text = text, !.err = err] \in EventRec
  BY <1>2 DEF EventRec
<1>4. Tells([e EXCEPT !.text = text, !.err = err], type, id, text, err)
  BY <1>2, <1>3 DEF EventRec, Tells
<1> QED BY <1>4 DEF e

\* Each step of pi, and the settle fallback, keeps the invariant.
LEMMA NewTurnKeeps ==
    ASSUME ToolInv, NewTurn, UNCHANGED way
    PROVE  ToolInv'
<1>1. QueueTypes /\ UNCHANGED <<pi, file, events, Pump>> /\ turn' = "waiting"
  BY DEF ToolInv, NewTurn
<1>2. QueueTypes'
  BY <1>1 DEF QueueTypes, Calls
<1> QED BY <1>1, <1>2, PiWaits

\* The fallback leaves the calls alone.
LEMMA SettleTimeoutKeeps ==
    ASSUME ToolInv, SettleTimeout, UNCHANGED way
    PROVE  ToolInv'
<1>1. QueueTypes /\ UNCHANGED <<pi, file, events, Pump>> /\ turn' = "none"
  BY DEF ToolInv, SettleTimeout, Pump
<1>2. QueueTypes'
  BY <1>1 DEF QueueTypes, Calls
<1> QED BY <1>1, <1>2, PiWaits

\* pi's settled event is of no call.
LEMMA SettlesKeeps ==
    ASSUME ToolInv, Settles, UNCHANGED way
    PROVE  ToolInv'
<1> DEFINE e == Event("settled", NoId)
<1>1. QueueTypes /\ UNCHANGED <<pi, file, turn, Pump>> /\ PiSends(e)
  BY DEF ToolInv, Settles
<1>2. e \in EventRec /\ e.type = "settled" /\ e.id = NoId
  BY EventIs DEF Tells
<1> HIDE DEF e
<1>3. QueueTypes'
  <2>1. /\ pi' \in [Ids -> PiRec] /\ file' \in 0 .. MaxWrites
        /\ \A id \in Ids : pi'[id].lost => pi'[id].exe = "ended"
        /\ turn' \in {"none", "waiting", "going"}
    BY <1>1 DEF QueueTypes
  <2> QED BY <1>1, <1>2, <2>1, SentTypes
<1>4. events' = Append(events, e)
  BY <1>1 DEF PiSends
<1> QED BY <1>1, <1>2, <1>3, <1>4, PiWaits

\* A call that is streamed, which only a late pi does once it runs.
LEMMA StreamsKeeps ==
    ASSUME ToolInv, NEW c \in Ids, Streams(c), UNCHANGED way
    PROVE  ToolInv'
<1> DEFINE named == pi[c].streamed = "name"
           e == [Event("surface", c) EXCEPT !.named = named]
           streamed == IF named THEN "all" ELSE "name"
<1>1. /\ QueueTypes /\ UNCHANGED <<file, Pump>> /\ PiSends(e) /\ turn' = "going" /\ Calls(c)
      /\ pi' = [pi EXCEPT ![c].streamed = streamed]
      /\ pi[c].exe = "no" \/ (way.late /\ pi[c].exe = "running")
  BY DEF ToolInv, Streams, Running
<1>2. named \in BOOLEAN /\ streamed \in {"name", "all"}
  OBVIOUS
<1> HIDE DEF named, streamed
<1>9. "surface" \in Types /\ c \in Ids \cup {NoId}
  BY DEF Types
<1>10. Tells(e, "surface", c, <<>>, FALSE)
  BY <1>2, <1>9, EventWithName
<1> HIDE DEF e
<1>3. e \in EventRec /\ e.type = "surface" /\ e.id = c
  BY <1>10 DEF Tells
<1>4. /\ pi' \in [Ids -> PiRec] /\ \A id \in Ids : id # c => pi'[id] = pi[id]
      /\ pi'[c].exe = pi[c].exe /\ pi'[c].out = pi[c].out /\ pi'[c].before = pi[c].before
      /\ pi'[c].lost = pi[c].lost
  BY <1>1, <1>2 DEF QueueTypes, PiRec
<1>5. c # NoId /\ file' \in 0 .. MaxWrites /\ events' = Append(events, e)
  BY <1>1, ToolAssumption DEF QueueTypes, PiSends
<1>6. QueueTypes'
  <2>1. \A id \in Ids : pi'[id].lost => pi'[id].exe = "ended"
    BY <1>1, <1>4 DEF QueueTypes
  <2> QED BY <1>1, <1>3, <1>4, <1>5, <2>1, SentTypes
<1>7. /\ pi[c].exe # "ended" /\ pi'[c].exe # "ended"
      /\ pi[c].exe # "no" => pi'[c].exe # "no"
      /\ e.type = "start" => pi[c].exe = "no" /\ pi'[c].exe # "no"
      /\ e.type \in {"surface", "start"}
      /\ e.type = "surface" /\ ~way.late => pi[c].exe = "no"
  BY <1>1, <1>3, <1>4
<1> QED BY <1>1, <1>3, <1>4, <1>5, <1>6, <1>7, PiSpeaks

\* A call starts: its file is as it was before.
LEMMA ExecutesKeeps ==
    ASSUME ToolInv, NEW c \in Ids, Executes(c), UNCHANGED way
    PROVE  ToolInv'
<1> DEFINE e == Event("start", c)
<1>1. /\ QueueTypes /\ UNCHANGED <<file, Pump>> /\ PiSends(e) /\ turn' = "going"
      /\ pi' = [pi EXCEPT ![c].exe = "running", ![c].before = file]
      /\ pi[c].exe = "no"
  BY DEF ToolInv, Executes
<1>2. file \in Nat
  BY <1>1, ToolAssumption DEF QueueTypes
<1>3. e \in EventRec /\ e.type = "start" /\ e.id = c
  BY EventIs DEF Types, Tells
<1> HIDE DEF e
<1>4. /\ pi' \in [Ids -> PiRec] /\ \A id \in Ids : id # c => pi'[id] = pi[id]
      /\ pi'[c].exe = "running" /\ pi'[c].out = pi[c].out /\ pi'[c].before = file
      /\ pi'[c].lost = pi[c].lost
  BY <1>1, <1>2 DEF QueueTypes, PiRec
<1>5. c # NoId /\ file' \in 0 .. MaxWrites /\ events' = Append(events, e)
  BY <1>1, ToolAssumption DEF QueueTypes, PiSends
<1>6. QueueTypes'
  <2>1. \A id \in Ids : pi'[id].lost => pi'[id].exe = "ended"
    BY <1>1, <1>4 DEF QueueTypes
  <2> QED BY <1>1, <1>3, <1>4, <1>5, <2>1, SentTypes
<1>7. /\ pi[c].exe # "ended" /\ pi'[c].exe # "ended"
      /\ pi[c].exe # "no" => pi'[c].exe # "no"
      /\ e.type = "start" => pi[c].exe = "no" /\ pi'[c].exe # "no"
      /\ e.type = "surface" => pi'[c].exe = pi[c].exe
      /\ e.type \in {"surface", "start"}
      /\ e.type = "surface" /\ ~way.late => pi[c].exe = "no"
  BY <1>1, <1>3, <1>4
<1> QED BY <1>1, <1>3, <1>4, <1>5, <1>6, <1>7, PiSpeaks

\* A running call edits: the file only gets newer.
LEMMA WritesKeeps ==
    ASSUME ToolInv, NEW c \in Ids, Writes(c), UNCHANGED way
    PROVE  ToolInv'
<1>1. /\ QueueTypes /\ UNCHANGED <<events, turn, Pump>> /\ Running(c)
      /\ pi' = [pi EXCEPT ![c].wrote = TRUE, ![c].after = file + 1]
      /\ file < MaxWrites /\ file' = file + 1
  BY DEF ToolInv, Writes
<1>2. file' \in 0 .. MaxWrites /\ file' \in Nat /\ file + 1 \in Nat /\ file <= file'
  BY <1>1, ToolAssumption DEF QueueTypes
<1>3. /\ pi' \in [Ids -> PiRec] /\ \A id \in Ids : id # c => pi'[id] = pi[id]
      /\ pi'[c].exe = pi[c].exe /\ pi'[c].lost = pi[c].lost /\ pi'[c].err = pi[c].err
      /\ pi'[c].out = pi[c].out /\ pi'[c].before = pi[c].before
  BY <1>1, <1>2 DEF QueueTypes, PiRec
<1>4. QueueTypes'
  <2>1. \A id \in Ids : pi'[id].lost => pi'[id].exe = "ended"
    BY <1>1, <1>3 DEF QueueTypes
  <2> QED BY <1>1, <1>2, <1>3, <2>1 DEF QueueTypes, Calls
<1> QED BY <1>1, <1>2, <1>3, <1>4, PiIsQuiet

\* A dropped call never counts as finished.
LEMMA DropsKeeps ==
    ASSUME ToolInv, NEW c \in Ids, Drops(c), UNCHANGED way
    PROVE  ToolInv'
<1>1. /\ QueueTypes /\ UNCHANGED <<file, events, turn, Pump>> /\ Running(c)
      /\ pi' = [pi EXCEPT ![c].exe = "ended", ![c].lost = TRUE]
  BY DEF ToolInv, Drops
<1>2. file' \in 0 .. MaxWrites /\ file' \in Nat /\ file <= file'
  BY <1>1, ToolAssumption DEF QueueTypes
<1>3. /\ pi' \in [Ids -> PiRec] /\ \A id \in Ids : id # c => pi'[id] = pi[id]
      /\ pi'[c].exe = "ended" /\ pi'[c].lost
      /\ pi'[c].out = pi[c].out /\ pi'[c].before = pi[c].before
  BY <1>1 DEF QueueTypes, PiRec
<1>4. QueueTypes'
  <2>1. \A id \in Ids : pi'[id].lost => pi'[id].exe = "ended"
    BY <1>1, <1>3 DEF QueueTypes
  <2> QED BY <1>1, <1>2, <1>3, <2>1 DEF QueueTypes, Calls
<1> QED BY <1>1, <1>2, <1>3, <1>4, PiIsQuiet

\* A pi that leaves nothing out shows all of the output.
LEMMA ShownText ==
    ASSUME NEW out \in Seq(Chars), NEW text \in Shown(out)
    PROVE  text \in Seq(Chars) /\ (~way.truncates => text = out)
<1>1. CASE text = out
  BY <1>1
<1>2. CASE text # out
  <2>1. PICK s \in {out} \ {<<>>} : text = Tail(s)
    BY <1>2 DEF Shown
  <2>2. out # <<>> /\ text = Tail(out)
    BY <2>1
  <2>3. Tail(out) \in Seq(Chars)
    BY <2>2
  <2> QED BY <1>2, <2>2, <2>3 DEF Shown
<1> QED BY <1>1, <1>2

\* A running call prints, in either form.
LEMMA PrintsKeeps ==
    ASSUME ToolInv, NEW c \in Ids, Prints(c), UNCHANGED way
    PROVE  ToolInv'
<1>1. PICK x \in Chars, form \in way.forms[c] :
         /\ pi' = [pi EXCEPT ![c].out = Append(pi[c].out, x)]
         /\ IF form = "delta"
            THEN PiSends([Event("delta", c) EXCEPT !.text = <<x>>])
            ELSE \E text \in Shown(Append(pi[c].out, x)) :
                    PiSends([Event("update", c) EXCEPT !.text = text])
  BY DEF Prints
<1> DEFINE out == Append(pi[c].out, x)
<1>2. QueueTypes /\ UNCHANGED <<file, turn, Pump>> /\ Running(c) /\ pi[c].out \in Seq(Chars)
  BY DEF Prints, ToolInv, QueueTypes, PiRec
<1>3. out \in Seq(Chars) /\ <<x>> \in Seq(Chars)
  BY <1>2
<1>4. form \in {"snapshot", "delta"}
  <2>1. way \in Ways
    BY <1>2 DEF QueueTypes
  <2>2. way.forms \in [Ids -> SUBSET {"snapshot", "delta"}]
    BY <2>1, ToolAssumption
  <2> QED BY <2>2
<1>5. /\ pi' \in [Ids -> PiRec] /\ \A id \in Ids : id # c => pi'[id] = pi[id]
      /\ pi'[c].exe = "running" /\ pi'[c].before = pi[c].before /\ pi'[c].out = out
      /\ pi'[c].lost = pi[c].lost
  <2> HIDE DEF out
  <2>1. pi' = [pi EXCEPT ![c].out = out]
    BY <1>1 DEF out
  <2> QED BY <1>2, <1>3, <2>1 DEF QueueTypes, PiRec, Running
<1>6. c # NoId /\ file' \in 0 .. MaxWrites /\ turn' \in {"none", "waiting", "going"}
  BY <1>2, ToolAssumption DEF QueueTypes
<1>10. \A id \in Ids : pi'[id].lost => pi'[id].exe = "ended"
  BY <1>2, <1>5 DEF QueueTypes, Running
<1>11. {"delta", "update"} \subseteq Types /\ c \in Ids \cup {NoId}
  BY DEF Types
<1>7. CASE form = "delta"
  <2> DEFINE e == [Event("delta", c) EXCEPT !.text = <<x>>]
  <2>7. Tells(e, "delta", c, <<x>>, FALSE)
    BY <1>3, <1>11, EventWithText
  <2>2. PiSends(e)
    BY <1>1, <1>7
  <2> HIDE DEF e, out
  <2>1. e \in EventRec /\ e.type = "delta" /\ e.id = c /\ e.text = <<x>>
    BY <2>7 DEF Tells
  <2>3. events' = Append(events, e)
    BY <2>2 DEF PiSends
  <2>4. QueueTypes'
    BY <1>2, <1>5, <1>6, <1>10, <2>1, <2>2, SentTypes
  <2>5. \E y \in Chars : pi'[c].out = Append(pi[c].out, y) /\ e.text = <<y>>
    BY <1>5, <2>1 DEF out
  <2> QED BY <1>2, <1>5, <1>7, <2>1, <2>3, <2>4, <2>5, PiPrints
<1>8. CASE form = "snapshot"
  <2>1. PICK text \in Shown(out) : PiSends([Event("update", c) EXCEPT !.text = text])
    BY <1>1, <1>8
  <2> DEFINE e == [Event("update", c) EXCEPT !.text = text]
  <2>2. text \in Seq(Chars) /\ (~way.truncates => text = out)
    BY <1>3, ShownText
  <2>9. Tells(e, "update", c, text, FALSE)
    BY <1>11, <2>2, EventWithText
  <2>4. PiSends(e)
    BY <2>1
  <2> HIDE DEF e
  <2>3. e \in EventRec /\ e.type = "update" /\ e.id = c /\ e.text = text
    BY <2>9 DEF Tells
  <2>5. events' = Append(events, e)
    BY <2>4 DEF PiSends
  <2>6. QueueTypes'
    BY <1>2, <1>5, <1>6, <1>10, <2>3, <2>4, SentTypes
  <2>7. /\ \E y \in Chars : pi'[c].out = Append(pi[c].out, y)
        /\ OneForm(c) => e.text = pi'[c].out
    BY <1>5, <2>2, <2>3 DEF OneForm
  <2> QED BY <1>2, <1>5, <1>8, <2>3, <2>5, <2>6, <2>7, PiPrints
<1> QED BY <1>4, <1>7, <1>8

\* A call ends with all of its output.
LEMMA EndsKeeps ==
    ASSUME ToolInv, NEW c \in Ids, Ends(c), UNCHANGED way
    PROVE  ToolInv'
<1>1. PICK err \in BOOLEAN, text \in Shown(pi[c].out) :
         /\ PiSends([Event("end", c) EXCEPT !.text = text, !.err = err])
         /\ pi' = [pi EXCEPT ![c].exe = "ended", ![c].err = err]
  BY DEF Ends
<1> DEFINE e == [Event("end", c) EXCEPT !.text = text, !.err = err]
<1>2. /\ QueueTypes /\ UNCHANGED <<file, turn, Pump>> /\ Running(c) /\ pi[c].out \in Seq(Chars)
      /\ InOrder(c) /\ PiSends(e)
  BY <1>1 DEF Ends, ToolInv, CallInv, QueueTypes, PiRec
<1>3. text \in Seq(Chars) /\ (~way.truncates => text = pi[c].out)
  BY <1>2, ShownText
<1>10. "end" \in Types /\ c \in Ids \cup {NoId}
  BY DEF Types
<1>11. Tells(e, "end", c, text, err)
  BY <1>3, <1>10, EventWithOutcome
<1> HIDE DEF e
<1>4. e \in EventRec /\ e.type = "end" /\ e.id = c /\ e.text = text /\ e.err = err
  BY <1>11 DEF Tells
<1>5. /\ pi' \in [Ids -> PiRec] /\ \A id \in Ids : id # c => pi'[id] = pi[id]
      /\ pi'[c].exe = "ended" /\ pi'[c].before = pi[c].before /\ pi'[c].out = pi[c].out
      /\ pi'[c].err = err /\ pi'[c].lost = pi[c].lost
  BY <1>1, <1>2 DEF QueueTypes, PiRec
<1>6. c # NoId /\ file' \in 0 .. MaxWrites /\ turn' \in {"none", "waiting", "going"}
      /\ events' = Append(events, e)
  BY <1>2, ToolAssumption DEF QueueTypes, PiSends
<1>7. QueueTypes' /\ ~pi'[c].lost
  <2>1. /\ \A id \in Ids : pi'[id].lost => pi'[id].exe = "ended"
        /\ ~pi'[c].lost
    BY <1>2, <1>5 DEF QueueTypes, Running
  <2> QED BY <1>2, <1>4, <1>5, <1>6, <2>1, SentTypes
<1>8. OneForm(c) => e.text = pi[c].out
  BY <1>3, <1>4 DEF OneForm
<1> QED BY <1>2, <1>4, <1>5, <1>6, <1>7, <1>8, PiPrints

-----------------------------------------------------------------------------
(* The invariant, and what follows from it.                                *)

\* The invariant holds at first,
LEMMA ToolInit ==
    ASSUME Init
    PROVE  ToolInv
<1> DEFINE empty == <<>>
<1>0. empty \in Seq(Chars) /\ <<>> \in Seq(EventRec) /\ Len(<<>>) = 0
  BY EmptyOutput
<1>1. /\ way \in Ways /\ file \in {0, 1} /\ events = <<>> /\ turn = "none" /\ stray = {}
      /\ pi = [id \in Ids |-> [streamed |-> "no", exe |-> "no", out |-> empty, before |-> 0,
                               after |-> 0, wrote |-> FALSE, err |-> FALSE, lost |-> FALSE]]
      /\ maps = NoMaps
      /\ view = [v1 |-> [id \in Ids |-> NoCall], v2 |-> [id \in Ids |-> NoCall]]
  BY DEF Init
<1>2. NoCall = [title |-> Absent, kind |-> "other", status |-> Absent, content |-> Absent,
                term |-> empty, exit |-> Absent]
  BY DEF NoCall
<1> HIDE DEF empty
<1>3. pi \in [Ids -> PiRec] /\ \A id \in Ids : pi[id].exe = "no" /\ pi[id].out = empty
                                               /\ ~pi[id].lost /\ pi[id].before = 0
  BY <1>0, <1>1 DEF PiRec
<1>4. QueueTypes
  <2>1. file \in 0 .. MaxWrites /\ 0 <= MaxEvents
    BY <1>1, ToolAssumption
  <2>2. Len(events) = 0 /\ events \in Seq(EventRec)
    BY <1>0, <1>1
  <2>3. Len(events) <= MaxEvents /\ \A i \in 1 .. Len(events) : FALSE
    BY <2>1, <2>2
  <2> QED BY <1>1, <1>3, <2>1, <2>2, <2>3 DEF QueueTypes
<1>5. NoCall \in CallRec /\ NoCall.term = empty /\ NoCall.content = Absent
      /\ NoCall.status = Absent
  BY <1>0, <1>2 DEF CallRec, Titles, Kinds, Contents
<1>6. maps \in MapRec /\ \A id \in Ids : /\ maps.current[id] = Absent /\ maps.old[id] = Absent
                                         /\ maps.output[id] = Absent /\ maps.command[id] = Absent
      /\ maps.executing = {} /\ maps.mutation = {} /\ maps.bash = {}
  BY <1>1 DEF NoMaps, MapRec
<1>7. ViewTypes /\ \A id \in Ids : view.v1[id] = NoCall /\ view.v2[id] = NoCall
  BY <1>1, <1>5 DEF ViewTypes
<1>8. Good
  BY <1>1, <1>6, <1>7 DEF Good, ViewsAlike, Alike
<1>9. ASSUME NEW id \in Ids PROVE CallInv(id)
  <2>1. Len(events) = 0 /\ \A i \in 1 .. Len(events) : FALSE
    BY <1>0, <1>1
  <2>2. InOrder(id)
    BY <2>1 DEF InOrder, EndsLast, PrintsStarted, StartsOnce, StreamsFirst
  <2>3. Waiting(id)
    BY <1>3, <1>6 DEF Waiting, Running
  <2>4. ~Tracked(id) /\ ~Finished(id)
    BY <1>3, <1>6 DEF Tracked, Finished
  <2>5. MapsOf(id) /\ Known(id) /\ Ended(id) /\ Commands(id)
    BY <1>5, <1>6, <1>7, <2>4, Words DEF MapsOf, Known, Ended, Commands, Tracked
  <2>6. Edited(id) /\ RealDiff(id)
    BY <1>1, <1>3, <1>5, <1>6, <1>7 DEF Edited, RealDiff
  <2>7. EndsWithOutput(id) /\ Grows(id)
    BY <1>6, <2>1 DEF EndsWithOutput, Grows
  <2>8. view.v2[id].term = empty /\ pi[id].out = empty /\ IsPrefix(empty, empty)
    BY <1>0, <1>3, <1>5, <1>7, PrefixOfItself
  <2>9. Shows(id)
    BY <2>4, <2>8 DEF Shows
  <2>10. Only(events, Deltas(id)) = <<>> /\ Len(empty) = 0
    BY <1>1, OnlyEmpty DEF empty
  <2>11. Lacks(id)
    BY <1>0, <2>1, <2>8, <2>10 DEF Lacks, Queued
  <2> QED BY <2>2, <2>3, <2>5, <2>6, <2>7, <2>9, <2>11 DEF CallInv, Seen, Printed
<1> QED BY <1>4, <1>8, <1>9 DEF ToolInv

\* survives a step that changes nothing
LEMMA ToolStutter ==
    ASSUME ToolInv, UNCHANGED vars
    PROVE  ToolInv'
<1>1. QueueTypes /\ UNCHANGED <<pi, file, events, turn, Pump, way>>
  BY DEF ToolInv, vars, Pump
<1>2. QueueTypes'
  BY <1>1 DEF QueueTypes, Calls
<1> QED BY <1>1, <1>2, PiWaits

\* and every step.
LEMMA ToolStep ==
    ASSUME ToolInv, Next
    PROVE  ToolInv'
<1>1. UNCHANGED way /\ (PiStep \/ Handle \/ SettleTimeout)
  BY DEF Next
<1>2. CASE NewTurn
  BY <1>1, <1>2, NewTurnKeeps
<1>3. CASE Settles
  BY <1>1, <1>3, SettlesKeeps
<1>4. CASE Handle
  BY <1>1, <1>4, HandleKeeps
<1>5. CASE SettleTimeout
  BY <1>1, <1>5, SettleTimeoutKeeps
<1>6. ASSUME NEW c \in Ids,
             Streams(c) \/ Executes(c) \/ Writes(c) \/ Prints(c) \/ Ends(c) \/ Drops(c)
      PROVE  ToolInv'
  <2>1. CASE Streams(c)
    BY <1>1, <2>1, StreamsKeeps
  <2>2. CASE Executes(c)
    BY <1>1, <2>2, ExecutesKeeps
  <2>3. CASE Writes(c)
    BY <1>1, <2>3, WritesKeeps
  <2>4. CASE Prints(c)
    BY <1>1, <2>4, PrintsKeeps
  <2>5. CASE Ends(c)
    BY <1>1, <2>5, EndsKeeps
  <2>6. CASE Drops(c)
    BY <1>1, <2>6, DropsKeeps
  <2> QED BY <1>6, <2>1, <2>2, <2>3, <2>4, <2>5, <2>6
<1> QED BY <1>1, <1>2, <1>3, <1>4, <1>5, <1>6 DEF PiStep

\* The inductive invariant holds in every reachable state (session.rs, the tool_call handlers).
THEOREM ToolsHold == Spec => []ToolInv
<1>1. Init => ToolInv
  BY ToolInit
<1>2. ToolInv /\ [Next]_vars => ToolInv'
  BY ToolStep, ToolStutter
<1> QED BY <1>1, <1>2, PTL DEF Spec

\* The parts of the invariant the properties need.
LEMMA SeenTypes ==
    ASSUME ToolInv
    PROVE  /\ QueueTypes /\ maps \in MapRec /\ stray = {} /\ ViewTypes
           /\ \A id \in Ids : /\ InOrder(id) /\ Waiting(id) /\ Seen(id) /\ Printed(id)
                              /\ Alike(IsBash(id), view.v1[id], view.v2[id])
                              /\ view.v1[id] \in CallRec /\ view.v2[id] \in CallRec
BY DEF ToolInv, CallInv, Good, ViewsAlike, ViewTypes

\* The invariant gives the type invariant,
LEMMA Typed ==
    ASSUME ToolInv
    PROVE  TypeOK
<1>1. QueueTypes /\ maps \in MapRec /\ stray = {} /\ ViewTypes
  BY SeenTypes
<1>2. /\ way \in Ways /\ file \in 0 .. MaxWrites /\ Len(events) <= MaxEvents
      /\ turn \in {"none", "waiting", "going"} /\ stray \subseteq Ids
  BY <1>1 DEF QueueTypes
<1>3. /\ maps.current \in [Ids -> {Absent, "pending", "in_progress"}]
      /\ maps.executing \subseteq Ids /\ maps.mutation \subseteq Ids /\ maps.bash \subseteq Ids
      /\ maps.old \in [Ids -> {Absent} \cup 0 .. MaxWrites]
      /\ maps.output \in [Ids -> {Absent} \cup Seq(Chars)]
      /\ maps.command \in [Ids -> {Absent, "name", "command"}]
  BY <1>1 DEF MapRec
<1>4. \A id \in Ids : maps.output[id] = Absent \/ maps.output[id] \in Seq(Chars)
  BY <1>3
<1>5. ASSUME NEW c \in Clients, NEW id \in Ids
      PROVE  /\ view[c][id].status \in {Absent, "pending", "in_progress", "completed", "failed"}
             /\ view[c][id].term \in Seq(Chars)
  <2>1. view[c][id] \in CallRec
    BY <1>1 DEF ViewTypes, Clients
  <2> QED BY <2>1 DEF CallRec, Statuses
<1> QED BY <1>2, <1>3, <1>4, <1>5 DEF TypeOK

\* MapsAgree: a finished call is in no map, since its end is what finished it,
LEMMA MapsFollow ==
    ASSUME ToolInv
    PROVE  MapsAgree
<1>1. QueueTypes /\ maps \in MapRec /\ \A id \in Ids : MapsOf(id) /\ Waiting(id)
  BY SeenTypes DEF Seen
<1>2. maps.executing \subseteq Ids /\ maps.mutation \subseteq Ids /\ maps.bash \subseteq Ids
  BY <1>1 DEF MapRec
<1>3. maps.executing = {id \in Ids : maps.current[id] = "in_progress"}
  BY <1>1, <1>2 DEF MapsOf
<1>4. maps.bash = {id \in Ids : Tracked(id) /\ IsBash(id)}
  BY <1>1, <1>2 DEF MapsOf
<1>5. maps.mutation = {id \in maps.executing : IsMutation(id)}
  BY <1>1, <1>2 DEF MapsOf
<1>6. \A id \in Ids : Finished(id) => ~Tracked(id)
  BY <1>1, NotFinished
<1>7. \A id \in Ids : /\ maps.command[id] # Absent <=> id \in maps.bash
                      /\ maps.output[id] # Absent => id \in maps.bash
                      /\ maps.old[id] # Absent <=> id \in maps.mutation
  BY <1>1 DEF MapsOf
<1> QED BY <1>3, <1>4, <1>5, <1>6, <1>7, Typed DEF MapsAgree

\* v1 and v2 show the same but for the embedded terminal,
LEMMA BothShow ==
    ASSUME ToolInv, NEW c \in Clients, NEW id \in Ids
    PROVE  /\ view[c][id].title = view.v2[id].title /\ view[c][id].status = view.v2[id].status
           /\ view[c][id].term = view.v2[id].term /\ view[c][id].exit = view.v2[id].exit
           /\ ~IsBash(id) => view[c][id].content = view.v2[id].content
BY SeenTypes DEF Clients, Alike

\* ClientsSeeTheCall
LEMMA ClientsFollow ==
    ASSUME ToolInv
    PROVE  ClientsSeeTheCall
<1>1. OpenedOnce
  BY SeenTypes DEF OpenedOnce
<1>2. DiffIsReal
  <2>1. ASSUME NEW c \in Clients, NEW id \in Ids, IsMutation(id), view[c][id].content # Absent,
               "old" \in DOMAIN view[c][id].content
        PROVE  /\ ~pi[id].err
               /\ pi[id].before <= view[c][id].content.old
               /\ view[c][id].content.old < view[c][id].content.new
    <3>1. view[c][id].content = view.v2[id].content
      BY <2>1, BothShow DEF IsBash, IsMutation
    <3>2. RealDiff(id)
      BY SeenTypes DEF Seen
    <3> QED BY <2>1, <3>1, <3>2 DEF RealDiff
  <2> QED BY <2>1 DEF DiffIsReal
<1>3. ASSUME NEW id \in Ids
      PROVE  /\ IF IsBash(id)
                THEN [view.v1[id] EXCEPT !.content = Absent] = [view.v2[id] EXCEPT !.content = Absent]
                ELSE view.v1[id] = view.v2[id]
             /\ Tracked(id) => view.v2[id].status = maps.current[id]
             /\ Finished(id) => \A c \in Clients :
                   /\ view[c][id].status = IF pi[id].err THEN "failed" ELSE "completed"
                   /\ IsBash(id) => /\ view[c][id].exit = IF pi[id].err THEN 1 ELSE 0
                                    /\ ~way.late => view[c][id].title = "command"
  <2>1. /\ Alike(IsBash(id), view.v1[id], view.v2[id])
        /\ view.v1[id] \in CallRec /\ view.v2[id] \in CallRec /\ Known(id) /\ Ended(id)
    BY SeenTypes DEF Seen
  <2>2. Tracked(id) => view.v2[id].status = maps.current[id]
    BY <2>1 DEF Known
  <2>3. Finished(id) => \A c \in Clients :
           /\ view[c][id].status = IF pi[id].err THEN "failed" ELSE "completed"
           /\ IsBash(id) => /\ view[c][id].exit = IF pi[id].err THEN 1 ELSE 0
                            /\ ~way.late => view[c][id].title = "command"
    BY <2>1, BothShow DEF Ended
  <2>4. CASE IsBash(id)
    <3>1. /\ [view.v1[id] EXCEPT !.content = Absent] =
                [title |-> view.v2[id].title, kind |-> view.v2[id].kind,
                 status |-> view.v2[id].status, content |-> Absent,
                 term |-> view.v2[id].term, exit |-> view.v2[id].exit]
          /\ [view.v2[id] EXCEPT !.content = Absent] =
                [title |-> view.v2[id].title, kind |-> view.v2[id].kind,
                 status |-> view.v2[id].status, content |-> Absent,
                 term |-> view.v2[id].term, exit |-> view.v2[id].exit]
      BY <2>1 DEF Alike, CallRec
    <3> QED BY <2>2, <2>3, <2>4, <3>1
  <2>5. CASE ~IsBash(id)
    <3>1. view.v1[id] = view.v2[id]
      BY <2>1, <2>5 DEF Alike, CallRec
    <3> QED BY <2>2, <2>3, <2>5, <3>1
  <2> QED BY <2>4, <2>5
<1> QED BY <1>1, <1>2, <1>3 DEF ClientsSeeTheCall

\* and TerminalIsOutput.
LEMMA TerminalsFollow ==
    ASSUME ToolInv
    PROVE  TerminalIsOutput
<1>1. ASSUME NEW c \in Clients, NEW id \in Ids, IsBash(id)
      PROVE  /\ maps.output[id] # Absent => IsSuffix(maps.output[id], view[c][id].term)
             /\ ~way.truncates /\ way.forms[id] \in {{"snapshot"}, {"delta"}} =>
                   /\ IsPrefix(view[c][id].term, pi[id].out)
                   /\ Finished(id) => view[c][id].term = pi[id].out
  <2>1. view[c][id].term = view.v2[id].term /\ EndsWithOutput(id) /\ Shows(id)
    BY SeenTypes, BothShow DEF Printed
  <2>2. ASSUME maps.output[id] # Absent
        PROVE  IsSuffix(maps.output[id], view[c][id].term)
    <3>1. PICK before \in Seq(Chars) : view.v2[id].term = before \o maps.output[id]
      BY <1>1, <2>1, <2>2 DEF EndsWithOutput
    <3>2. maps.output[id] \in Seq(Chars)
      BY <2>2, SeenTypes DEF MapRec
    <3> QED BY <2>1, <3>1, <3>2, SuffixOfConcat
  <2> QED BY <1>1, <2>1, <2>2 DEF Shows, OneForm
<1> QED BY <1>1 DEF TerminalIsOutput

\* In every reachable state the pump's seven maps tell one story, and a call whose end was
\* handled is in none of them (session.rs 2826-3163, cleanup_tool_call).
THEOREM MapsHold == Spec => []MapsAgree
<1>1. ToolInv => MapsAgree
  BY MapsFollow
<1> QED BY <1>1, ToolsHold, PTL

\* In every reachable state a v1 and a v2 client show the same call: opened once, under the
\* tracked status, after its end as it ended, and with no diff but of a real change
\* (render.rs; surface_tool_call and on_tool_execution_end of session.rs).
THEOREM ClientsHold == Spec => []ClientsSeeTheCall
<1>1. ToolInv => ClientsSeeTheCall
  BY ClientsFollow
<1> QED BY <1>1, ToolsHold, PTL

\* In every reachable state a terminal ends with the output the pump holds, and of a pi that
\* sends a call's output in one form it shows what was printed, each part once
\* (bash_output_delta and emit_bash_output_update of session.rs).
THEOREM TerminalsHold == Spec => []TerminalIsOutput
<1>1. ToolInv => TerminalIsOutput
  BY TerminalsFollow
<1> QED BY <1>1, ToolsHold, PTL

-----------------------------------------------------------------------------
\* Dialogs.
\* What is on its way: a request, a text and the requests answered before it, a message to
\* the client, an answer; and what may have become of a dialog.
DialogAsks == [kind : {"ask"}, id : Requests]
DialogTexts == [kind : {"text"}, after : SUBSET Requests]
DialogNotices == [kind : {"notice"}, id : Requests]
DialogOffers == [kind : {"permission"}, id : Requests]
DialogAnswers == [id : Requests, kind : {"cancelled", "value", "confirmed"},
                  value : {"", "yes", "no"} \cup STRING]
DialogEnds(r) == {<<"cancelled">>, <<"failed">>} \cup
                 {<<"selected", o>> : o \in Dialogs!Shown(r) \cup Dialogs!Strange}

DialogTypes ==
    /\ asked \subseteq Requests /\ texts \in 0 .. Sayings
    /\ queue \in Seq(DialogAsks \cup DialogTexts)
    /\ host \in {"on", "sending", "off"} /\ connector \in {"on", "off"}
    /\ parked \in Seq(DialogTexts) /\ Len(parked) <= 1 /\ (parked # <<>> <=> host = "sending")
    /\ outbound \in Seq(DialogTexts \cup DialogNotices \cup DialogOffers)
    /\ seen \in Seq(DialogTexts \cup DialogNotices)
    /\ replies \in Seq(DialogAnswers) /\ got \in Seq(DialogAnswers)
    /\ Len(outbound) <= Room /\ Len(replies) <= ReplyRoom
    /\ task \in [Requests -> [pc : {"none", "start", "asked", "answer", "done"},
                              answer : DialogAnswers]]
    /\ \A r \in Requests : task[r].answer.id = r
    /\ DOMAIN dialog = Requests
    /\ \A r \in Requests : dialog[r] \in {<<"none">>, <<"open">>} \cup DialogEnds(r)
    /\ cancel \in {"no", "sent", "handled"}

\* A request is asked once, and its task begins when the pump takes it.
AskedOnce ==
    /\ \A r \in Requests : r \notin asked => task[r].pc = "none"
    /\ \A i \in DOMAIN queue : queue[i].kind = "ask" =>
           queue[i].id \in asked /\ task[queue[i].id].pc = "none"
    /\ \A i, j \in DOMAIN queue :
           queue[i].kind = "ask" /\ queue[j].kind = "ask" /\ queue[i].id = queue[j].id => i = j

\* An answer is its task's, which is done; it is on its way or given, once.
AnswersOfTasks ==
    /\ \A i \in DOMAIN got : task[got[i].id].pc = "done" /\ got[i] = task[got[i].id].answer
    /\ \A i \in DOMAIN replies :
           task[replies[i].id].pc = "done" /\ replies[i] = task[replies[i].id].answer
    /\ \A i, j \in DOMAIN got : got[i].id = got[j].id => i = j
    /\ \A i, j \in DOMAIN replies : replies[i].id = replies[j].id => i = j
    /\ \A i \in DOMAIN got, j \in DOMAIN replies : got[i].id # replies[j].id

\* A dialog is opened once, by its task; only a timed one's task goes on without its end.
OfferedOnce ==
    /\ \A r \in Requests : /\ task[r].pc \in {"none", "start"} => dialog[r] = <<"none">>
                           /\ task[r].pc = "asked" => r \in Dialogs!Interactive
                           /\ task[r].pc \in {"answer", "done"} /\ r \in Dialogs!Interactive \ Timed =>
                                  dialog[r] \in DialogEnds(r)
    /\ \A i \in DOMAIN outbound : outbound[i].kind = "permission" =>
           /\ dialog[outbound[i].id] = <<"none">>
           /\ task[outbound[i].id].pc \notin {"none", "start"}
    /\ \A i, j \in DOMAIN outbound :
           /\ outbound[i].kind = "permission" /\ outbound[j].kind = "permission"
           /\ outbound[i].id = outbound[j].id
           => i = j

\* The answer a task found is the choice of the client in that dialog.
TaskIsHonest(r) ==
    LET a == task[r].answer
    IN  /\ a.kind = "value" =>
               \E k \in DOMAIN Options[r] : /\ dialog[r] = <<"selected", <<"choice", k - 1>>>>
                                            /\ a.value = Options[r][k]
        /\ a.kind = "confirmed" =>
               /\ dialog[r] \in DialogEnds(r)
               /\ a.value = "yes" <=> dialog[r] = <<"selected", <<"yes", 0>>>>
        /\ a.kind = "cancelled" /\ r \in Dialogs!Interactive \ Timed =>
               dialog[r] \notin {<<"selected", o>> : o \in Dialogs!Shown(r)}
TasksAreHonest == \A r \in Requests : task[r].pc \in {"answer", "done"} => TaskIsHonest(r)

\* The notice of a request that is answered was sent before the answer.
Notifies(s, n, r) == \E j \in 1 .. n : s[j] = [kind |-> "notice", id |-> r]
NoticeSent(r) == Notifies(seen, Len(seen), r) \/ Notifies(outbound, Len(outbound), r)
Told(r) == task[r].pc \in {"answer", "done"}
NoticesSent == \A r \in Dialogs!Noticed : Told(r) => NoticeSent(r)
\* What a text waits for, wherever it is.
EventsFollow ==
    \A i \in DOMAIN queue : queue[i].kind = "text" =>
        \A r \in queue[i].after \cap Dialogs!Noticed : Told(r)
HeldFollows == \A i \in DOMAIN parked : \A r \in parked[i].after \cap Dialogs!Noticed : Told(r)
OutboundFollows ==
    \A i \in DOMAIN outbound : outbound[i].kind = "text" =>
        \A r \in outbound[i].after \cap Dialogs!Noticed :
            Notifies(seen, Len(seen), r) \/ Notifies(outbound, i - 1, r)
SeenFollows ==
    \A i \in DOMAIN seen : seen[i].kind = "text" =>
        \A r \in seen[i].after \cap Dialogs!Noticed : Notifies(seen, i - 1, r)
Noticing == NoticesSent /\ EventsFollow /\ HeldFollows /\ OutboundFollows /\ SeenFollows

DialogInv == DialogTypes /\ AskedOnce /\ AnswersOfTasks /\ OfferedOnce /\ TasksAreHonest /\ Noticing

-----------------------------------------------------------------------------
\* What a task makes of the client's answer is an answer to its request.
LEMMA OutcomeIsAnswer ==
    ASSUME Dialogs!RequestAssumption, NEW r \in Requests, NEW d \in DialogEnds(r)
    PROVE  Dialogs!Outcome(r, d) \in DialogAnswers /\ Dialogs!Outcome(r, d).id = r
<1>1. Options[r] \in Seq(STRING)
  BY DEF Dialogs!RequestAssumption
<1>2. Dialogs!Cancelled(r) \in DialogAnswers /\ Dialogs!Cancelled(r).id = r
  BY DEF Dialogs!Cancelled, DialogAnswers
<1>3. CASE d[1] = "selected"
  <2> DEFINE i == Dialogs!option_index(d[2])
  <2>1. CASE Method[r] = "confirm"
    BY <1>3, <2>1 DEF Dialogs!Outcome, Dialogs!Selected, DialogAnswers
  <2>2. CASE Method[r] # "confirm" /\ i + 1 \in DOMAIN Options[r]
    <3>1. Options[r][i + 1] \in STRING
      BY <1>1, <2>2
    <3>2. Dialogs!Outcome(r, d) = [id |-> r, kind |-> "value", value |-> Options[r][i + 1]]
      BY <1>3, <2>2 DEF Dialogs!Outcome, Dialogs!Selected
    <3>3. \A v \in STRING : [id |-> r, kind |-> "value", value |-> v] \in DialogAnswers
      BY DEF DialogAnswers
    <3>4. Dialogs!Outcome(r, d) \in DialogAnswers
      BY <3>1, <3>2, <3>3
    <3>5. Dialogs!Outcome(r, d).id = r
      BY <3>2
    <3> QED BY <3>4, <3>5
  <2>3. CASE Method[r] # "confirm" /\ i + 1 \notin DOMAIN Options[r]
    BY <1>2, <1>3, <2>3 DEF Dialogs!Outcome, Dialogs!Selected
  <2> QED BY <2>1, <2>2, <2>3
<1>4. CASE d[1] # "selected"
  BY <1>2, <1>4 DEF Dialogs!Outcome
<1> QED BY <1>3, <1>4

\* A dialog that is neither unopened nor open is over.
LEMMA OverOrNot ==
    ASSUME DialogTypes, NEW r \in Requests
    PROVE  dialog[r][1] \notin {"none", "open"} <=> dialog[r] \in DialogEnds(r)
BY DEF DialogTypes, DialogEnds

\* The dialogs' types, at the start and after every step.
LEMMA DialogTypesBegin == Dialogs!RequestAssumption /\ Dialogs!Init => DialogTypes
<1> SUFFICES ASSUME Dialogs!RequestAssumption, Dialogs!Init PROVE DialogTypes
  OBVIOUS
<1>1. \A r \in Requests : Dialogs!Cancelled(r) \in DialogAnswers /\ Dialogs!Cancelled(r).id = r
  BY DEF Dialogs!Cancelled, DialogAnswers
<1>2. task \in [Requests -> [pc : {"none", "start", "asked", "answer", "done"},
                            answer : DialogAnswers]]
  BY <1>1 DEF Dialogs!Init
<1> QED BY <1>1, <1>2 DEF Dialogs!RequestAssumption, Dialogs!Init, DialogTypes

\* A step of pi, the pump, a task, the connector or the client keeps them.
LEMMA DialogTypesStep ==
    ASSUME Dialogs!RequestAssumption, DialogTypes, [Dialogs!Next]_(Dialogs!vars)
    PROVE  DialogTypes'
<1>0. Room \in Nat /\ ReplyRoom \in Nat /\ Sayings \in Nat
  BY DEF Dialogs!RequestAssumption
<1> USE <1>0 DEF DialogTypes
<1>1. ASSUME NEW r \in Requests, Dialogs!PiAsks(r) PROVE DialogTypes'
  BY <1>1 DEF Dialogs!PiAsks, DialogAsks
<1>2. CASE Dialogs!PiSays
  BY <1>2 DEF Dialogs!PiSays, DialogTexts
<1>3. CASE Dialogs!OnRequest
  <2>1. Head(queue).id \in Requests
    BY <1>3 DEF Dialogs!OnRequest, DialogAsks, DialogTexts
  <2>2. task' \in [Requests -> [pc : {"none", "start", "asked", "answer", "done"},
                               answer : DialogAnswers]]
    BY <1>3, <2>1 DEF Dialogs!OnRequest
  <2>3. \A q \in Requests : task'[q].answer.id = q
    BY <1>3, <2>1 DEF Dialogs!OnRequest
  <2>4. queue' \in Seq(DialogAsks \cup DialogTexts)
    BY <1>3 DEF Dialogs!OnRequest
  <2> QED BY <1>3, <2>2, <2>3, <2>4 DEF Dialogs!OnRequest
<1>4. CASE Dialogs!OnText
  BY <1>4 DEF Dialogs!OnText, DialogAsks, DialogTexts
<1>5. CASE Dialogs!PumpSends
  BY <1>5 DEF Dialogs!PumpSends
<1>6. CASE Dialogs!on_extension_ui_response
  BY <1>6 DEF Dialogs!on_extension_ui_response
<1>7. CASE Dialogs!ClientCancels \/ Dialogs!OnCancel \/ Dialogs!Shutdown
  BY <1>7 DEF Dialogs!ClientCancels, Dialogs!OnCancel, Dialogs!Shutdown
<1>8. ASSUME NEW r \in Requests, Dialogs!AnswerAtOnce(r) PROVE DialogTypes'
  BY <1>8 DEF Dialogs!AnswerAtOnce, Dialogs!Goto, Dialogs!Cancelled, DialogAnswers
<1>9. ASSUME NEW r \in Requests, Dialogs!send_extension_notice(r) PROVE DialogTypes'
  <2>1. Dialogs!Cancelled(r) \in DialogAnswers /\ Dialogs!Cancelled(r).id = r
    BY DEF Dialogs!Cancelled, DialogAnswers
  <2>2. task' \in [Requests -> [pc : {"none", "start", "asked", "answer", "done"},
                               answer : DialogAnswers]]
    BY <1>9, <2>1 DEF Dialogs!send_extension_notice, Dialogs!Goto
  <2>3. \A q \in Requests : task'[q].answer.id = q
    BY <1>9, <2>1 DEF Dialogs!send_extension_notice, Dialogs!Goto
  <2>4. [kind |-> "notice", id |-> r] \in DialogNotices
    BY DEF DialogNotices
  <2>5. /\ outbound' \in Seq(DialogTexts \cup DialogNotices \cup DialogOffers)
        /\ Len(outbound') <= Room
    BY <1>9, <2>4 DEF Dialogs!send_extension_notice
  <2> QED BY <1>9, <2>2, <2>3, <2>5 DEF Dialogs!send_extension_notice
<1>10. ASSUME NEW r \in Requests, Dialogs!request_permission(r) PROVE DialogTypes'
  <2>1. Dialogs!Cancelled(r) \in DialogAnswers /\ Dialogs!Cancelled(r).id = r
    BY DEF Dialogs!Cancelled, DialogAnswers
  <2>2. task' \in [Requests -> [pc : {"none", "start", "asked", "answer", "done"},
                               answer : DialogAnswers]]
    BY <1>10, <2>1 DEF Dialogs!request_permission, Dialogs!Goto
  <2>3. \A q \in Requests : task'[q].answer.id = q
    BY <1>10, <2>1 DEF Dialogs!request_permission, Dialogs!Goto
  <2>4. [kind |-> "permission", id |-> r] \in DialogOffers
    BY DEF DialogOffers
  <2>5. /\ outbound' \in Seq(DialogTexts \cup DialogNotices \cup DialogOffers)
        /\ Len(outbound') <= Room
    BY <1>10, <2>4 DEF Dialogs!request_permission
  <2> QED BY <1>10, <2>2, <2>3, <2>5 DEF Dialogs!request_permission
<1>11. ASSUME NEW r \in Requests, Dialogs!TakeOutcome(r) PROVE DialogTypes'
  <2>1. Dialogs!Outcome(r, dialog[r]) \in DialogAnswers /\ Dialogs!Outcome(r, dialog[r]).id = r
    BY <1>11, OverOrNot, OutcomeIsAnswer DEF Dialogs!TakeOutcome
  <2> QED BY <1>11, <2>1 DEF Dialogs!TakeOutcome, Dialogs!Goto
<1>12. ASSUME NEW r \in Requests, Dialogs!TimeOut(r) PROVE DialogTypes'
  BY <1>12 DEF Dialogs!TimeOut, Dialogs!Goto, Dialogs!Cancelled, DialogAnswers
<1>13. ASSUME NEW r \in Requests, Dialogs!Reply(r) PROVE DialogTypes'
  <2>1. task[r].answer \in DialogAnswers /\ task[r].answer.id = r
    OBVIOUS
  <2>2. replies' \in Seq(DialogAnswers) /\ Len(replies') <= ReplyRoom
    <3>1. CASE replies' = Append(replies, task[r].answer) /\ Len(replies) < ReplyRoom
      BY <2>1, <3>1
    <3> QED BY <1>13, <3>1 DEF Dialogs!Reply
  <2>3. task' \in [Requests -> [pc : {"none", "start", "asked", "answer", "done"},
                               answer : DialogAnswers]]
    BY <1>13, <2>1 DEF Dialogs!Reply, Dialogs!Goto
  <2>4. \A q \in Requests : task'[q].answer.id = q
    BY <1>13, <2>1 DEF Dialogs!Reply, Dialogs!Goto
  <2> QED BY <1>13, <2>2, <2>3, <2>4 DEF Dialogs!Reply
<1>14. CASE Dialogs!Forward
  <2> DEFINE m == Head(outbound)
  <2>1. m \in DialogTexts \cup DialogNotices \cup DialogOffers
    BY <1>14 DEF Dialogs!Forward
  <2>2. /\ outbound' \in Seq(DialogTexts \cup DialogNotices \cup DialogOffers)
        /\ Len(outbound') <= Room
    BY <1>14 DEF Dialogs!Forward
  <2>3. CASE m.kind = "permission"
    <3>1. m.id \in Requests
      BY <2>1, <2>3 DEF DialogTexts, DialogNotices, DialogOffers
    <3> QED BY <1>14, <2>2, <2>3, <3>1 DEF Dialogs!Forward
  <2>4. CASE m.kind # "permission"
    <3>1. m \in DialogTexts \cup DialogNotices
      BY <2>1, <2>4 DEF DialogOffers
    <3>2. seen' = Append(seen, m)
      BY <1>14, <2>4 DEF Dialogs!Forward
    <3>3. seen' \in Seq(DialogTexts \cup DialogNotices)
      BY <3>1, <3>2
    <3> QED BY <1>14, <2>2, <2>4, <3>3 DEF Dialogs!Forward
  <2> QED BY <2>3, <2>4
<1>15. CASE Dialogs!ConnectorEnds
  BY <1>15 DEF Dialogs!ConnectorEnds
<1>16. ASSUME NEW r \in Requests, Dialogs!Answers(r) PROVE DialogTypes'
  BY <1>16 DEF Dialogs!Answers, DialogEnds
<1>17. CASE UNCHANGED Dialogs!vars
  BY <1>17 DEF Dialogs!vars
<1> QED BY <1>1, <1>2, <1>3, <1>4, <1>5, <1>6, <1>7, <1>8, <1>9, <1>10, <1>11, <1>12, <1>13, <1>14,
           <1>15, <1>16, <1>17 DEF Dialogs!Next, Dialogs!Pi, Dialogs!Pump, Dialogs!Task,
           Dialogs!Client

-----------------------------------------------------------------------------
\* What changes a task: its own actions, from where the code has it to where it goes.
Moves(r) ==
    /\ task' = [task EXCEPT ![r] = [pc |-> task'[r].pc, answer |-> task'[r].answer]]
    /\ task[r].pc # "none" /\ task'[r].pc \in {"asked", "answer", "done"}
    /\ task[r].pc # "done"
    /\ UNCHANGED <<asked, texts, queue, parked, dialog, seen, got>>

\* A task of a request moves that request alone.
LEMMA TaskMoves ==
    ASSUME DialogTypes, NEW r \in Requests, Dialogs!Task(r)
    PROVE  Moves(r)
BY DEF DialogTypes, Moves, Dialogs!Task, Dialogs!AnswerAtOnce, Dialogs!send_extension_notice,
   Dialogs!request_permission, Dialogs!TakeOutcome, Dialogs!TimeOut, Dialogs!Reply, Dialogs!Goto

\* AskedOnce is inductive.
LEMMA AskedOnceStep ==
    ASSUME Dialogs!RequestAssumption, DialogTypes, AskedOnce, [Dialogs!Next]_(Dialogs!vars)
    PROVE  AskedOnce'
<1> USE DEF DialogTypes, AskedOnce
<1>1. ASSUME NEW r \in Requests, Dialogs!PiAsks(r) PROVE AskedOnce'
  BY <1>1 DEF Dialogs!PiAsks, DialogAsks, DialogTexts
<1>2. CASE Dialogs!PiSays
  BY <1>2 DEF Dialogs!PiSays, DialogAsks, DialogTexts
<1>3. CASE Dialogs!OnRequest
  <2>1. Head(queue).id \in Requests /\ Head(queue) = queue[1] /\ 1 \in DOMAIN queue
    BY <1>3 DEF Dialogs!OnRequest, DialogAsks, DialogTexts
  <2>2. \A r \in Requests \ {Head(queue).id} : task'[r] = task[r]
    BY <1>3, <2>1 DEF Dialogs!OnRequest
  <2>3. \A i \in DOMAIN queue' : i + 1 \in DOMAIN queue /\ queue'[i] = queue[i + 1]
    BY <1>3 DEF Dialogs!OnRequest
  <2>4. \A i \in DOMAIN queue' : queue'[i].kind = "ask" => queue'[i].id # Head(queue).id
    BY <1>3, <2>1, <2>3 DEF Dialogs!OnRequest
  <2>5. \A i \in DOMAIN queue' : queue'[i].kind = "ask" => queue'[i].id \in Requests
    BY <2>3 DEF DialogAsks, DialogTexts
  <2>6. asked' = asked /\ Head(queue).id \in asked
    BY <1>3, <2>1 DEF Dialogs!OnRequest
  <2>7. \A r \in Requests : r \notin asked' => task'[r].pc = "none"
    BY <2>2, <2>6
  <2>8. \A i \in DOMAIN queue' : queue'[i].kind = "ask" =>
            queue'[i].id \in asked' /\ task'[queue'[i].id].pc = "none"
    BY <2>2, <2>3, <2>4, <2>5, <2>6
  <2>9. \A i, j \in DOMAIN queue' :
            /\ queue'[i].kind = "ask" /\ queue'[j].kind = "ask"
            /\ queue'[i].id = queue'[j].id
            => i = j
    <3>1. \A i, j \in DOMAIN queue' :
              /\ queue'[i].kind = "ask" /\ queue'[j].kind = "ask"
              /\ queue'[i].id = queue'[j].id
              => i + 1 = j + 1
      <4>1. \A i, j \in DOMAIN queue :
                /\ queue[i].kind = "ask" /\ queue[j].kind = "ask"
                /\ queue[i].id = queue[j].id
                => i = j
        OBVIOUS
      <4> QED BY ONLY <2>3, <4>1
    <3>2. DOMAIN queue' \subseteq Int
      BY <1>3 DEF Dialogs!OnRequest
    <3> QED BY <3>1, <3>2
  <2> QED BY <2>7, <2>8, <2>9
<1>4. CASE Dialogs!OnText
  <2>1. queue' = Tail(queue) /\ asked' = asked /\ task' = task /\ queue # <<>>
    BY <1>4 DEF Dialogs!OnText
  <2>2. DOMAIN queue' \subseteq Int
        /\ \A i \in DOMAIN queue' : i + 1 \in DOMAIN queue /\ queue'[i] = queue[i + 1]
    BY <2>1
  <2>3. \A r \in Requests : r \notin asked' => task'[r].pc = "none"
    BY <2>1
  <2>4. \A i \in DOMAIN queue' : queue'[i].kind = "ask" =>
            queue'[i].id \in asked' /\ task'[queue'[i].id].pc = "none"
    BY <2>1, <2>2
  <2>5. \A i, j \in DOMAIN queue' :
            queue'[i].kind = "ask" /\ queue'[j].kind = "ask" /\ queue'[i].id = queue'[j].id => i = j
    <3>1. \A i, j \in DOMAIN queue :
              /\ queue[i].kind = "ask" /\ queue[j].kind = "ask"
              /\ queue[i].id = queue[j].id
              => i = j
      OBVIOUS
    <3> QED BY ONLY <2>2, <3>1
  <2> QED BY ONLY <2>3, <2>4, <2>5 DEF AskedOnce
<1>5. CASE \/ Dialogs!PumpSends \/ Dialogs!on_extension_ui_response \/ Dialogs!OnCancel
           \/ Dialogs!Client \/ Dialogs!Forward \/ Dialogs!ConnectorEnds
  BY <1>5 DEF Dialogs!PumpSends, Dialogs!on_extension_ui_response, Dialogs!OnCancel,
     Dialogs!Client, Dialogs!ClientCancels, Dialogs!Answers, Dialogs!Forward, Dialogs!ConnectorEnds
<1>6. CASE Dialogs!Shutdown
  BY <1>6 DEF Dialogs!Shutdown
<1>7. ASSUME NEW r \in Requests, Dialogs!Task(r) PROVE AskedOnce'
  <2>1. Moves(r)
    BY <1>7, TaskMoves
  <2>2. asked' = asked /\ queue' = queue /\ task[r].pc # "none"
    BY <2>1 DEF Moves
  <2>3. \A q \in Requests : task[q].pc = "none" => task'[q].pc = "none"
    BY <2>1 DEF Moves
  <2>4. \A i \in DOMAIN queue : queue[i].kind = "ask" => queue[i].id \in Requests
    BY DEF DialogAsks, DialogTexts
  <2> QED BY <2>2, <2>3, <2>4
<1>8. CASE UNCHANGED Dialogs!vars
  BY <1>8 DEF Dialogs!vars
<1> QED BY <1>1, <1>2, <1>3, <1>4, <1>5, <1>6, <1>7, <1>8 DEF Dialogs!Next, Dialogs!Pi,
           Dialogs!Pump

\* Answers name requests.
LEMMA AnswersName ==
    ASSUME DialogTypes
    PROVE  /\ \A i \in DOMAIN got : got[i].id \in Requests
           /\ \A i \in DOMAIN replies : replies[i].id \in Requests
<1>1. \A s \in Seq(DialogAnswers) : \A i \in DOMAIN s : s[i] \in DialogAnswers
  OBVIOUS
<1>2. \A answer \in DialogAnswers : answer.id \in Requests
  BY DEF DialogAnswers
<1> QED BY <1>1, <1>2 DEF DialogTypes

\* AnswersOfTasks is inductive: a done task's answer does not change.
LEMMA AnswersOfTasksStep ==
    ASSUME Dialogs!RequestAssumption, DialogTypes, AskedOnce, AnswersOfTasks,
           [Dialogs!Next]_(Dialogs!vars)
    PROVE  AnswersOfTasks'
<1> USE DEF DialogTypes, AnswersOfTasks
<1>1. CASE \/ Dialogs!Pi \/ Dialogs!OnText \/ Dialogs!PumpSends \/ Dialogs!OnCancel
           \/ Dialogs!Client \/ Dialogs!Forward \/ Dialogs!ConnectorEnds
  <2>1. UNCHANGED <<got, replies, task>>
    BY <1>1 DEF Dialogs!Pi, Dialogs!PiAsks, Dialogs!PiSays, Dialogs!OnText, Dialogs!PumpSends,
       Dialogs!OnCancel, Dialogs!Client, Dialogs!ClientCancels, Dialogs!Answers, Dialogs!Forward,
       Dialogs!ConnectorEnds
  <2> QED BY <2>1
<1>2. CASE Dialogs!OnRequest
  <2>1. Head(queue).id \in Requests /\ task[Head(queue).id].pc = "none"
    BY <1>2 DEF Dialogs!OnRequest, DialogAsks, DialogTexts, AskedOnce
  <2>2. \A r \in Requests : task[r].pc = "done" => task'[r] = task[r]
    BY <1>2, <2>1 DEF Dialogs!OnRequest
  <2>3. got' = got /\ replies' = replies
    BY <1>2 DEF Dialogs!OnRequest
  <2>4. /\ \A i \in DOMAIN got : got[i].id \in Requests
        /\ \A i \in DOMAIN replies : replies[i].id \in Requests
    BY AnswersName
  <2> QED BY <2>2, <2>3, <2>4
<1>3. CASE Dialogs!on_extension_ui_response
  <2>1. /\ 1 \in DOMAIN replies /\ Head(replies) = replies[1]
        /\ got' = Append(got, replies[1]) /\ task' = task
        /\ \A i \in DOMAIN replies' : i + 1 \in DOMAIN replies /\ replies'[i] = replies[i + 1]
    BY <1>3 DEF Dialogs!on_extension_ui_response
  <2>2. \A i \in DOMAIN got' : got'[i] = IF i = Len(got) + 1 THEN replies[1] ELSE got[i]
    BY <2>1
  <2>3. \A i \in DOMAIN got' : i \in DOMAIN got \/ i = Len(got) + 1
    BY <2>1
  <2>4. DOMAIN got' = 1 .. Len(got) + 1 /\ DOMAIN replies' = 1 .. Len(replies) - 1
    BY <1>3 DEF Dialogs!on_extension_ui_response
  <2>5. \A i \in DOMAIN got' : task'[got'[i].id].pc = "done" /\ got'[i] = task'[got'[i].id].answer
    BY <2>1, <2>2, <2>3
  <2>6. \A i \in DOMAIN replies' : /\ task'[replies'[i].id].pc = "done"
                                  /\ replies'[i] = task'[replies'[i].id].answer
    <3>1. \A i \in DOMAIN replies' : /\ task[replies[i + 1].id].pc = "done"
                                    /\ replies[i + 1] = task[replies[i + 1].id].answer
      <4>1. \A i \in DOMAIN replies : /\ task[replies[i].id].pc = "done"
                                     /\ replies[i] = task[replies[i].id].answer
        OBVIOUS
      <4> QED BY ONLY <2>1, <4>1
    <3> QED BY ONLY <2>1, <3>1
  <2>7. \A i, j \in DOMAIN got' : got'[i].id = got'[j].id => i = j
    BY <2>1, <2>2, <2>3
  <2>8. \A i, j \in DOMAIN replies' : replies'[i].id = replies'[j].id => i = j
    <3> SUFFICES ASSUME NEW i \in DOMAIN replies', NEW j \in DOMAIN replies',
                        replies'[i].id = replies'[j].id
                 PROVE  i = j
      OBVIOUS
    <3>1. i + 1 = j + 1
      <4>1. \A k, l \in DOMAIN replies : replies[k].id = replies[l].id => k = l
        OBVIOUS
      <4> QED BY <2>1, <4>1
    <3> QED BY <2>4, <3>1
  <2>9. \A i \in DOMAIN got', j \in DOMAIN replies' : got'[i].id # replies'[j].id
    <3> SUFFICES ASSUME NEW i \in DOMAIN got', NEW j \in DOMAIN replies',
                        got'[i].id = replies'[j].id
                 PROVE  FALSE
      OBVIOUS
    <3>1. CASE i = Len(got) + 1
      <4>1. j + 1 = 1
        BY <2>1, <2>2, <3>1
      <4> QED BY <2>4, <4>1
    <3>2. CASE i # Len(got) + 1
      BY <2>1, <2>2, <2>3, <3>2
    <3> QED BY <3>1, <3>2
  <2> QED BY <2>5, <2>6, <2>7, <2>8, <2>9
<1>4. CASE Dialogs!Shutdown
  BY <1>4 DEF Dialogs!Shutdown
<1>5. ASSUME NEW r \in Requests, Dialogs!Task(r) PROVE AnswersOfTasks'
  <2>1. Moves(r)
    BY <1>5, TaskMoves
  <2>0. /\ \A i \in DOMAIN got : got[i].id \in Requests
        /\ \A i \in DOMAIN replies : replies[i].id \in Requests
    BY AnswersName
  <2>2. \A q \in Requests : task[q].pc = "done" => task'[q] = task[q]
    BY <2>1 DEF Moves
  <2>3. CASE replies' = replies
    <3>1. got' = got
      BY <2>1 DEF Moves
    <3> QED BY <2>2, <2>3, <2>0, <3>1
  <2>4. CASE replies' # replies
    <3>1. Dialogs!Reply(r) /\ replies' = Append(replies, task[r].answer)
      BY <1>5, <2>4 DEF Dialogs!Task, Dialogs!AnswerAtOnce, Dialogs!send_extension_notice,
         Dialogs!request_permission, Dialogs!TakeOutcome, Dialogs!TimeOut, Dialogs!Reply
    <3>2. task'[r].pc = "done" /\ task'[r].answer = task[r].answer /\ task[r].answer.id = r
      BY <3>1 DEF Dialogs!Reply, Dialogs!Goto
    <3>3. /\ \A i \in DOMAIN got : got[i].id # r
          /\ \A i \in DOMAIN replies : replies[i].id # r
      BY <2>1 DEF Moves
    <3>4. \A i \in DOMAIN replies' :
              replies'[i] = IF i = Len(replies) + 1 THEN task[r].answer ELSE replies[i]
      BY <3>1
    <3>5. \A i \in DOMAIN replies' : i \in DOMAIN replies \/ i = Len(replies) + 1
      BY <3>1
    <3>6. got' = got
      BY <2>1 DEF Moves
    <3>7. \A i \in DOMAIN got' : task'[got'[i].id].pc = "done" /\ got'[i] = task'[got'[i].id].answer
      BY <2>0, <2>2, <3>6
    <3>8. \A i \in DOMAIN replies' : /\ task'[replies'[i].id].pc = "done"
                                    /\ replies'[i] = task'[replies'[i].id].answer
      <4> SUFFICES ASSUME NEW i \in DOMAIN replies'
                   PROVE  /\ task'[replies'[i].id].pc = "done"
                          /\ replies'[i] = task'[replies'[i].id].answer
        OBVIOUS
      <4>1. CASE i = Len(replies) + 1
        <5>1. replies'[i] = task[r].answer
          BY <3>4, <4>1
        <5> QED BY ONLY <3>2, <5>1
      <4>2. CASE i \in DOMAIN replies /\ i # Len(replies) + 1
        <5>1. replies'[i] = replies[i]
          BY <3>4, <4>2
        <5>2. replies[i].id \in Requests /\ task[replies[i].id].pc = "done"
              /\ replies[i] = task[replies[i].id].answer
          BY <2>0, <4>2
        <5> QED BY ONLY <2>2, <5>1, <5>2
      <4> QED BY <3>5, <4>1, <4>2
    <3>9. \A i, j \in DOMAIN replies' : replies'[i].id = replies'[j].id => i = j
      <4>1. \A i \in DOMAIN replies' : replies'[i].id = r => i = Len(replies) + 1
        BY <3>3, <3>4, <3>5
      <4>2. replies'[Len(replies) + 1].id = r \/ Len(replies) + 1 \notin DOMAIN replies'
        BY <3>2, <3>4
      <4>3. \A i \in DOMAIN replies' : replies'[i].id # r =>
                i \in DOMAIN replies /\ replies'[i] = replies[i]
        BY <3>2, <3>4, <3>5, <4>2
      <4>4. \A i, j \in DOMAIN replies : replies[i].id = replies[j].id => i = j
        OBVIOUS
      <4> QED BY ONLY <4>1, <4>3, <4>4
    <3>10. \A i \in DOMAIN got', j \in DOMAIN replies' : got'[i].id # replies'[j].id
      BY <3>2, <3>3, <3>4, <3>5, <3>6
    <3> QED BY <3>6, <3>7, <3>8, <3>9, <3>10
  <2> QED BY <2>3, <2>4
<1>6. CASE UNCHANGED Dialogs!vars
  BY <1>6 DEF Dialogs!vars
<1> QED BY <1>1, <1>2, <1>3, <1>4, <1>5, <1>6 DEF Dialogs!Next, Dialogs!Pump

-----------------------------------------------------------------------------
\* What goes to the client names requests.
LEMMA OutboundNames ==
    ASSUME DialogTypes
    PROVE  /\ \A i \in DOMAIN outbound :
                  outbound[i] \in DialogTexts \cup DialogNotices \cup DialogOffers
           /\ \A i \in DOMAIN outbound : outbound[i].kind \in {"permission", "notice"} =>
                  outbound[i].id \in Requests
<1>1. \A i \in DOMAIN outbound : outbound[i] \in DialogTexts \cup DialogNotices \cup DialogOffers
  BY DEF DialogTypes
<1>2. \A m \in DialogTexts \cup DialogNotices \cup DialogOffers :
          m.kind \in {"permission", "notice"} => m.id \in Requests
  BY DEF DialogTexts, DialogNotices, DialogOffers
<1> QED BY <1>1, <1>2

\* One permission for a request at most, of a dialog that is not open.
OneOffer(s) ==
    \A i, j \in DOMAIN s :
        s[i].kind = "permission" /\ s[j].kind = "permission" /\ s[i].id = s[j].id => i = j
UnopenedOffers ==
    \A i \in DOMAIN outbound : outbound[i].kind = "permission" =>
        /\ dialog[outbound[i].id] = <<"none">>
        /\ task[outbound[i].id].pc \notin {"none", "start"}

\* OfferedOnce is inductive.
LEMMA OfferedOnceStep ==
    ASSUME Dialogs!RequestAssumption, DialogTypes, AskedOnce, OfferedOnce,
           [Dialogs!Next]_(Dialogs!vars)
    PROVE  OfferedOnce'
<1>1. CASE UNCHANGED <<outbound, task, dialog>>
  BY <1>1 DEF OfferedOnce
<1>2. CASE Dialogs!OnRequest
  <2>1. Head(queue).id \in Requests /\ task[Head(queue).id].pc = "none"
    BY <1>2 DEF Dialogs!OnRequest, DialogAsks, DialogTexts, AskedOnce, DialogTypes
  <2>2. outbound' = outbound /\ dialog' = dialog
    BY <1>2 DEF Dialogs!OnRequest
  <2>3. \A r \in Requests : \/ task'[r] = task[r]
                            \/ task[r].pc = "none" /\ task'[r].pc = "start" /\ r = Head(queue).id
    BY <1>2, <2>1 DEF Dialogs!OnRequest, DialogTypes
  <2>4. \A i \in DOMAIN outbound : outbound[i].kind = "permission" =>
            outbound[i].id \in Requests /\ outbound[i].id # Head(queue).id
    BY <2>1, OutboundNames DEF OfferedOnce
  <2>5. \A r \in Requests : /\ task'[r].pc \in {"none", "start"} => dialog[r] = <<"none">>
                            /\ task'[r].pc = "asked" => r \in Dialogs!Interactive
                            /\ task'[r].pc \in {"answer", "done"} /\ r \in Dialogs!Interactive \ Timed =>
                                   dialog[r] \in DialogEnds(r)
    BY <2>3 DEF OfferedOnce
  <2>6. \A i \in DOMAIN outbound : outbound[i].kind = "permission" =>
            /\ dialog[outbound[i].id] = <<"none">>
            /\ task'[outbound[i].id].pc \notin {"none", "start"}
    BY <2>3, <2>4 DEF OfferedOnce
  <2> QED BY <2>2, <2>5, <2>6 DEF OfferedOnce
<1>3. CASE Dialogs!PumpSends
  <2>1. /\ \A i \in DOMAIN outbound' : outbound'[i].kind = "permission" =>
               i \in DOMAIN outbound /\ outbound'[i] = outbound[i]
        /\ UNCHANGED <<task, dialog>>
    <3>1. \A i \in DOMAIN parked : parked[i].kind = "text"
      <4>1. \A i \in DOMAIN parked : parked[i] \in DialogTexts
        BY DEF DialogTypes
      <4> QED BY <4>1 DEF DialogTexts
    <3>2. \A i \in DOMAIN (outbound \o parked) :
              \/ i \in DOMAIN outbound /\ (outbound \o parked)[i] = outbound[i]
              \/ /\ i - Len(outbound) \in DOMAIN parked
                 /\ (outbound \o parked)[i] = parked[i - Len(outbound)]
      BY DEF DialogTypes
    <3> QED BY <1>3, <3>1, <3>2 DEF Dialogs!PumpSends
  <2> QED BY <2>1 DEF OfferedOnce
<1>4. ASSUME NEW r \in Requests, Dialogs!Task(r) PROVE OfferedOnce'
  <2>1. Moves(r)
    BY <1>4, TaskMoves
  <2>2. dialog' = dialog /\ \A q \in Requests \ {r} : task'[q] = task[q]
    BY <2>1 DEF Moves, DialogTypes
  <2>3. CASE outbound' = outbound
    <3>1. task'[r].pc \in {"answer", "done"}
      BY <1>4, <2>3 DEF Dialogs!Task, Dialogs!AnswerAtOnce, Dialogs!send_extension_notice,
         Dialogs!request_permission, Dialogs!TakeOutcome, Dialogs!TimeOut, Dialogs!Reply,
         Dialogs!Goto, DialogTypes
    <3>2. r \in Dialogs!Interactive \ Timed => dialog[r] \in DialogEnds(r)
      BY <1>4, <2>3, OverOrNot DEF Dialogs!Task, Dialogs!AnswerAtOnce,
         Dialogs!send_extension_notice, Dialogs!request_permission, Dialogs!TakeOutcome,
         Dialogs!TimeOut, Dialogs!Reply, OfferedOnce, DialogTypes
    <3> QED BY <2>2, <2>3, <3>1, <3>2, OutboundNames DEF OfferedOnce
  <2>4. CASE Dialogs!send_extension_notice(r)
    <3>1. /\ \A i \in DOMAIN outbound' : outbound'[i].kind = "permission" =>
                 i \in DOMAIN outbound /\ outbound'[i] = outbound[i]
          /\ task'[r].pc = "answer" /\ r \notin Dialogs!Interactive
      BY <2>4 DEF Dialogs!send_extension_notice, Dialogs!Goto, DialogTypes, Dialogs!Interactive,
         Dialogs!Noticed
    <3>2. \A q \in Requests : /\ task'[q].pc \in {"none", "start"} => dialog[q] = <<"none">>
                              /\ task'[q].pc = "asked" => q \in Dialogs!Interactive
                              /\ task'[q].pc \in {"answer", "done"} /\ q \in Dialogs!Interactive \ Timed =>
                                     dialog[q] \in DialogEnds(q)
      BY <2>2, <3>1 DEF OfferedOnce
    <3>3. UnopenedOffers'
      BY <2>2, <3>1, OutboundNames DEF OfferedOnce, UnopenedOffers
    <3>4. OneOffer(outbound')
      BY <3>1 DEF OfferedOnce, OneOffer
    <3> QED BY <2>2, <3>2, <3>3, <3>4 DEF OfferedOnce, OneOffer, UnopenedOffers
  <2>5. CASE Dialogs!request_permission(r)
    <3>1. /\ outbound' = Append(outbound, [kind |-> "permission", id |-> r])
          /\ task'[r].pc = "asked" /\ r \in Dialogs!Interactive /\ dialog[r] = <<"none">>
      BY <2>5 DEF Dialogs!request_permission, Dialogs!Goto, DialogTypes, OfferedOnce
    <3>2. \A i \in DOMAIN outbound : outbound[i].kind = "permission" => outbound[i].id # r
      BY <2>5 DEF Dialogs!request_permission, OfferedOnce
    <3>3. \A i \in DOMAIN outbound' :
              \/ i \in DOMAIN outbound /\ outbound'[i] = outbound[i]
              \/ i = Len(outbound) + 1 /\ outbound'[i].id = r /\ i \notin DOMAIN outbound
      BY <3>1 DEF DialogTypes
    <3>4. UnopenedOffers'
      <4>1. \A i \in DOMAIN outbound : outbound[i].kind = "permission" =>
                /\ dialog'[outbound[i].id] = <<"none">>
                /\ task'[outbound[i].id].pc \notin {"none", "start"}
        BY <2>2, <3>2, OutboundNames DEF OfferedOnce
      <4>2. /\ dialog'[r] = <<"none">>
            /\ task'[r].pc \notin {"none", "start"}
        BY <2>2, <3>1
      <4> QED BY <3>3, <4>1, <4>2 DEF UnopenedOffers
    <3>5. OneOffer(outbound')
      BY <3>2, <3>3 DEF OfferedOnce, OneOffer
    <3> QED BY <2>2, <3>1, <3>4, <3>5 DEF OfferedOnce, OneOffer, UnopenedOffers
  <2> QED BY <1>4, <2>3, <2>4, <2>5 DEF Dialogs!Task, Dialogs!AnswerAtOnce, Dialogs!TakeOutcome,
             Dialogs!TimeOut, Dialogs!Reply
<1>5. CASE Dialogs!Forward
  <2>1. /\ \A i \in DOMAIN outbound' : i + 1 \in DOMAIN outbound /\ outbound'[i] = outbound[i + 1]
        /\ 1 \in DOMAIN outbound /\ Head(outbound) = outbound[1]
        /\ task' = task /\ DOMAIN outbound' \subseteq Int
    BY <1>5 DEF Dialogs!Forward, DialogTypes
  <2>2. /\ \A r \in Requests : \/ dialog'[r] = dialog[r]
                               \/ /\ outbound[1].kind = "permission" /\ outbound[1].id = r
                                  /\ dialog'[r] = <<"open">>
    BY <1>5, <2>1 DEF Dialogs!Forward, DialogTypes
  <2>3. OneOffer(outbound')
    <3>1. \A i, j \in DOMAIN outbound' :
              /\ outbound'[i].kind = "permission" /\ outbound'[j].kind = "permission"
              /\ outbound'[i].id = outbound'[j].id
              => i + 1 = j + 1
      BY <2>1 DEF OfferedOnce
    <3> QED BY <2>1, <3>1 DEF OneOffer
  <2>4. \A i \in DOMAIN outbound' :
            /\ outbound'[i].kind = "permission" /\ outbound[1].kind = "permission"
            => outbound'[i].id # outbound[1].id
    <3>1. \A i \in DOMAIN outbound' :
              /\ outbound'[i].kind = "permission" /\ outbound[1].kind = "permission"
              /\ outbound'[i].id = outbound[1].id
              => i + 1 = 1
      BY <2>1 DEF OfferedOnce
    <3>2. \A i \in DOMAIN outbound' : i > 0
      BY <1>5 DEF Dialogs!Forward, DialogTypes
    <3> QED BY <2>1, <3>1, <3>2
  <2>5. UnopenedOffers'
    <3>1. \A i \in DOMAIN outbound' : outbound'[i].kind = "permission" =>
              /\ outbound'[i].id \in Requests
              /\ dialog[outbound'[i].id] = <<"none">>
              /\ task[outbound'[i].id].pc \notin {"none", "start"}
      BY <2>1, OutboundNames DEF OfferedOnce
    <3> QED BY <2>1, <2>2, <2>4, <3>1 DEF UnopenedOffers
  <2>6. \A r \in Requests :
            /\ task[r].pc \in {"none", "start"} => dialog'[r] = <<"none">>
            /\ task[r].pc \in {"answer", "done"} /\ r \in Dialogs!Interactive \ Timed =>
                   dialog'[r] \in DialogEnds(r)
    <3>1. outbound[1].kind = "permission" =>
              /\ dialog[outbound[1].id] = <<"none">>
              /\ task[outbound[1].id].pc \notin {"none", "start"}
      BY <2>1 DEF OfferedOnce
    <3>2. \A r \in Requests : dialog[r] = <<"none">> => dialog[r] \notin DialogEnds(r)
      BY DEF DialogEnds
    <3> QED BY <2>2, <3>1, <3>2 DEF OfferedOnce
  <2> QED BY <2>1, <2>3, <2>5, <2>6 DEF OfferedOnce, OneOffer, UnopenedOffers
<1>6. ASSUME NEW r \in Requests, Dialogs!Answers(r) PROVE OfferedOnce'
  <2>1. /\ dialog[r] = <<"open">> /\ dialog'[r] \in DialogEnds(r)
        /\ \A q \in Requests \ {r} : dialog'[q] = dialog[q]
        /\ UNCHANGED <<outbound, task>>
    BY <1>6 DEF Dialogs!Answers, DialogTypes, DialogEnds
  <2> QED BY <2>1, OutboundNames DEF OfferedOnce
<1>7. \/ Dialogs!OnRequest \/ Dialogs!PumpSends \/ Dialogs!Forward \/ UNCHANGED <<outbound, task,
                                                                                  dialog>>
      \/ \E r \in Requests : Dialogs!Task(r) \/ Dialogs!Answers(r)
  BY DEF Dialogs!Next, Dialogs!Pi, Dialogs!PiAsks, Dialogs!PiSays, Dialogs!Pump, Dialogs!OnText,
     Dialogs!on_extension_ui_response, Dialogs!OnCancel, Dialogs!Shutdown, Dialogs!ConnectorEnds,
     Dialogs!Client, Dialogs!ClientCancels, Dialogs!vars
<1> QED BY <1>1, <1>2, <1>3, <1>4, <1>5, <1>6, <1>7

-----------------------------------------------------------------------------
\* What the client chose is what the task makes of it.
LEMMA OutcomeIsHonest ==
    ASSUME Dialogs!RequestAssumption, NEW r \in Dialogs!Interactive, NEW d \in DialogEnds(r)
    PROVE  LET a == Dialogs!Outcome(r, d)
           IN  /\ a.kind = "value" =>
                      \E k \in DOMAIN Options[r] : /\ d = <<"selected", <<"choice", k - 1>>>>
                                                   /\ a.value = Options[r][k]
               /\ a.kind = "confirmed" => (a.value = "yes" <=> d = <<"selected", <<"yes", 0>>>>)
               /\ a.kind = "cancelled" => d \notin {<<"selected", o>> : o \in Dialogs!Shown(r)}
<1>1. CASE d[1] # "selected"
  BY <1>1 DEF Dialogs!Outcome, Dialogs!Cancelled, DialogEnds
<1>2. CASE d[1] = "selected"
  <2>1. PICK o \in Dialogs!Shown(r) \cup Dialogs!Strange : d = <<"selected", o>>
    BY <1>2 DEF DialogEnds
  <2>2. CASE Method[r] = "confirm"
    BY <2>1, <2>2 DEF Dialogs!Outcome, Dialogs!Selected
  <2>3. CASE Method[r] # "confirm"
    <3> DEFINE i == Dialogs!option_index(o)
    <3>1. Method[r] = "select"
      BY <2>3 DEF Dialogs!Interactive
    <3>2. Dialogs!Shown(r) = {<<"choice", j>> : j \in 0 .. Len(Options[r]) - 1}
      BY <3>1 DEF Dialogs!Shown
    <3>3. CASE i + 1 \in DOMAIN Options[r]
      <4>1. Dialogs!Outcome(r, d) = [id |-> r, kind |-> "value", value |-> Options[r][i + 1]]
        BY <2>1, <2>3, <3>3 DEF Dialogs!Outcome, Dialogs!Selected
      <4>2. o = <<"choice", i>>
        <5>1. CASE o \in Dialogs!Shown(r)
          BY <3>2, <5>1 DEF Dialogs!option_index
        <5>2. CASE o = <<"choice", 9>>
          BY <5>2 DEF Dialogs!option_index
        <5>3. CASE o = <<"other", 0>>
          <6>1. i + 1 = 0
            BY <5>3 DEF Dialogs!option_index
          <6>2. Options[r] \in Seq(STRING)
            BY DEF Dialogs!RequestAssumption, Dialogs!Interactive
          <6> QED BY <3>3, <6>1, <6>2
        <5> QED BY <2>1, <5>1, <5>2, <5>3 DEF Dialogs!Strange
      <4>3. i \in Int
        BY <2>1, <3>2, <4>2 DEF Dialogs!option_index, Dialogs!Strange
      <4> QED BY <2>1, <3>3, <4>1, <4>2, <4>3
    <3>4. CASE i + 1 \notin DOMAIN Options[r]
      <4>1. Dialogs!Outcome(r, d) = Dialogs!Cancelled(r)
        BY <2>1, <2>3, <3>4 DEF Dialogs!Outcome, Dialogs!Selected
      <4>2. ASSUME o \in Dialogs!Shown(r) PROVE FALSE
        <5>1. PICK j \in 0 .. Len(Options[r]) - 1 : o = <<"choice", j>>
          BY <3>2, <4>2
        <5>2. i = j
          BY <5>1 DEF Dialogs!option_index
        <5>3. Options[r] \in Seq(STRING)
          BY DEF Dialogs!RequestAssumption, Dialogs!Interactive
        <5> QED BY <3>4, <5>1, <5>2, <5>3
      <4>3. d \notin {<<"selected", p>> : p \in Dialogs!Shown(r)}
        BY <2>1, <4>2
      <4>4. Dialogs!Cancelled(r).kind = "cancelled"
        BY DEF Dialogs!Cancelled
      <4> QED BY <4>1, <4>3, <4>4
    <3> QED BY <3>3, <3>4
  <2> QED BY <2>2, <2>3
<1> QED BY <1>1, <1>2

\* TasksAreHonest is inductive: an answer is made of the dialog's end, or of its time-out.
LEMMA TasksAreHonestStep ==
    ASSUME Dialogs!RequestAssumption, DialogTypes, AskedOnce, OfferedOnce, TasksAreHonest,
           [Dialogs!Next]_(Dialogs!vars)
    PROVE  TasksAreHonest'
<1>1. CASE UNCHANGED <<task, dialog>>
  BY <1>1 DEF TasksAreHonest, TaskIsHonest
<1>2. CASE Dialogs!OnRequest
  <2>1. \A r \in Requests : task'[r].pc = "start" \/ task'[r] = task[r]
    BY <1>2 DEF Dialogs!OnRequest, DialogTypes
  <2>2. dialog' = dialog
    BY <1>2 DEF Dialogs!OnRequest
  <2> QED BY <2>1, <2>2 DEF TasksAreHonest, TaskIsHonest
<1>3. ASSUME NEW r \in Requests, Dialogs!Task(r) PROVE TasksAreHonest'
  <2>1. dialog' = dialog /\ \A q \in Requests \ {r} : task'[q] = task[q]
    BY <1>3, TaskMoves DEF Moves, DialogTypes
  <2>2. task'[r].pc \in {"answer", "done"} => TaskIsHonest(r)'
    <3>1. CASE Dialogs!AnswerAtOnce(r) \/ Dialogs!send_extension_notice(r) \/ Dialogs!TimeOut(r)
      <4>1. task'[r].answer.kind = "cancelled" /\ r \notin Dialogs!Interactive \ Timed
        <5>1. CASE Dialogs!AnswerAtOnce(r)
          BY <5>1 DEF Dialogs!AnswerAtOnce, Dialogs!Goto, Dialogs!Cancelled, DialogTypes
        <5>2. CASE Dialogs!send_extension_notice(r)
          BY <5>2 DEF Dialogs!send_extension_notice, Dialogs!Goto, Dialogs!Cancelled, DialogTypes,
             Dialogs!Interactive, Dialogs!Noticed
        <5>3. CASE Dialogs!TimeOut(r)
          BY <5>3 DEF Dialogs!TimeOut, Dialogs!Goto, Dialogs!Cancelled, DialogTypes
        <5> QED BY <3>1, <5>1, <5>2, <5>3
      <4> QED BY <4>1 DEF TaskIsHonest
    <3>2. CASE Dialogs!request_permission(r)
      BY <3>2 DEF Dialogs!request_permission, Dialogs!Goto, DialogTypes
    <3>3. CASE Dialogs!TakeOutcome(r)
      <4>1. task'[r].answer = Dialogs!Outcome(r, dialog[r]) /\ task[r].pc = "asked"
        BY <3>3 DEF Dialogs!TakeOutcome, Dialogs!Goto, DialogTypes
      <4>2. r \in Dialogs!Interactive /\ dialog[r] \in DialogEnds(r)
        BY <3>3, <4>1, OverOrNot DEF Dialogs!TakeOutcome, OfferedOnce
      <4> QED BY <2>1, <4>1, <4>2, OutcomeIsHonest DEF TaskIsHonest
    <3>4. CASE Dialogs!Reply(r)
      <4>1. task'[r].answer = task[r].answer /\ task[r].pc = "answer"
        BY <3>4 DEF Dialogs!Reply, Dialogs!Goto, DialogTypes
      <4> QED BY <2>1, <4>1 DEF TaskIsHonest, TasksAreHonest
    <3> QED BY <1>3, <3>1, <3>2, <3>3, <3>4 DEF Dialogs!Task
  <2>3. ASSUME NEW q \in Requests \ {r}, task'[q].pc \in {"answer", "done"}
        PROVE  TaskIsHonest(q)'
    BY <2>1, <2>3 DEF TasksAreHonest, TaskIsHonest
  <2> QED BY <2>2, <2>3 DEF TasksAreHonest
<1>4. ASSUME NEW r \in Requests,
             r \notin Dialogs!Interactive \ Timed \/ task[r].pc \notin {"answer", "done"},
             dialog[r] \in {<<"none">>, <<"open">>}, task' = task,
             \A q \in Requests \ {r} : dialog'[q] = dialog[q]
      PROVE  TasksAreHonest'
  <2>1. task[r].pc \in {"answer", "done"} => TaskIsHonest(r)'
    <3> SUFFICES ASSUME task[r].pc \in {"answer", "done"} PROVE TaskIsHonest(r)'
      OBVIOUS
    <3>1. TaskIsHonest(r)
      BY DEF TasksAreHonest
    <3>2. task[r].answer.kind \notin {"value", "confirmed"}
      BY <1>4, <3>1 DEF TaskIsHonest, DialogEnds
    <3>3. r \notin Dialogs!Interactive \ Timed
      BY <1>4
    <3> QED BY <1>4, <3>2, <3>3 DEF TaskIsHonest
  <2>2. ASSUME NEW q \in Requests \ {r}, task[q].pc \in {"answer", "done"}
        PROVE  TaskIsHonest(q)'
    BY <1>4, <2>2 DEF TasksAreHonest, TaskIsHonest
  <2> QED BY <1>4, <2>1, <2>2 DEF TasksAreHonest
<1>5. CASE Dialogs!Forward
  <2>1. /\ 1 \in DOMAIN outbound /\ Head(outbound) = outbound[1] /\ task' = task
    BY <1>5 DEF Dialogs!Forward, DialogTypes
  <2>2. CASE dialog' = dialog
    BY <1>1, <2>1, <2>2
  <2>3. CASE dialog' # dialog
    <3> DEFINE r == outbound[1].id
    <3>1. outbound[1].kind = "permission" /\ dialog' = [dialog EXCEPT ![r] = <<"open">>]
      BY <1>5, <2>1, <2>3 DEF Dialogs!Forward
    <3>2. r \in Requests /\ dialog[r] = <<"none">>
      BY <2>1, <3>1, OutboundNames DEF OfferedOnce
    <3>3. r \notin Dialogs!Interactive \ Timed \/ task[r].pc \notin {"answer", "done"}
      BY <3>2 DEF OfferedOnce, DialogEnds
    <3>4. \A q \in Requests \ {r} : dialog'[q] = dialog[q]
      BY <3>1 DEF DialogTypes
    <3> HIDE DEF r
    <3> QED BY <1>4, <2>1, <3>2, <3>3, <3>4
  <2> QED BY <2>2, <2>3
<1>6. ASSUME NEW r \in Requests, Dialogs!Answers(r) PROVE TasksAreHonest'
  <2>1. dialog[r] = <<"open">> /\ task' = task /\ \A q \in Requests \ {r} : dialog'[q] = dialog[q]
    BY <1>6 DEF Dialogs!Answers, DialogTypes
  <2>2. r \notin Dialogs!Interactive \ Timed \/ task[r].pc \notin {"answer", "done"}
    BY <2>1 DEF OfferedOnce, DialogEnds
  <2> QED BY <1>4, <2>1, <2>2
<1>7. \/ Dialogs!OnRequest \/ Dialogs!Forward \/ UNCHANGED <<task, dialog>>
      \/ \E r \in Requests : Dialogs!Task(r) \/ Dialogs!Answers(r)
  BY DEF Dialogs!Next, Dialogs!Pi, Dialogs!PiAsks, Dialogs!PiSays, Dialogs!Pump, Dialogs!OnText,
     Dialogs!PumpSends, Dialogs!on_extension_ui_response, Dialogs!OnCancel, Dialogs!Shutdown,
     Dialogs!ConnectorEnds, Dialogs!Client, Dialogs!ClientCancels, Dialogs!vars
<1> QED BY <1>1, <1>2, <1>3, <1>5, <1>6, <1>7

-----------------------------------------------------------------------------
\* A request is noticed or it opens a dialog.
LEMMA NoticedRequests ==
    Dialogs!Noticed \subseteq Requests /\ Dialogs!Noticed \cap Dialogs!Interactive = {}
BY DEF Dialogs!Noticed, Dialogs!Interactive

\* An answered request stays answered.
LEMMA ToldStays ==
    ASSUME DialogTypes, AskedOnce, [Dialogs!Next]_(Dialogs!vars), NEW r \in Requests, Told(r)
    PROVE  Told(r)'
<1>1. CASE Dialogs!OnRequest
  <2>1. Head(queue).id \in Requests /\ task[Head(queue).id].pc = "none"
    BY <1>1 DEF Dialogs!OnRequest, DialogAsks, DialogTexts, AskedOnce, DialogTypes
  <2> QED BY <1>1, <2>1 DEF Dialogs!OnRequest, Told, DialogTypes
<1>2. ASSUME NEW q \in Requests, Dialogs!Task(q) PROVE Told(r)'
  <2>1. Moves(q)
    BY <1>2, TaskMoves
  <2>2. \A p \in Requests \ {q} : task'[p] = task[p]
    BY <2>1 DEF Moves, DialogTypes
  <2>3. task[q].pc = "answer" => task'[q].pc = "done"
    BY <1>2 DEF Dialogs!Task, Dialogs!AnswerAtOnce, Dialogs!send_extension_notice,
       Dialogs!request_permission, Dialogs!TakeOutcome, Dialogs!TimeOut, Dialogs!Reply,
       Dialogs!Goto, DialogTypes
  <2>4. task[q].pc # "done"
    BY <2>1 DEF Moves
  <2> QED BY <2>2, <2>3, <2>4 DEF Told
<1>3. CASE UNCHANGED task
  BY <1>3 DEF Told
<1>4. Dialogs!OnRequest \/ UNCHANGED task \/ \E q \in Requests : Dialogs!Task(q)
  BY DEF Dialogs!Next, Dialogs!Pi, Dialogs!PiAsks, Dialogs!PiSays, Dialogs!Pump, Dialogs!OnText,
     Dialogs!PumpSends, Dialogs!on_extension_ui_response, Dialogs!OnCancel, Dialogs!Shutdown,
     Dialogs!Forward, Dialogs!ConnectorEnds, Dialogs!Client, Dialogs!ClientCancels,
     Dialogs!Answers, Dialogs!vars
<1> QED BY <1>1, <1>2, <1>3, <1>4

\* A sequence of at most one element.
LEMMA OnlyOne ==
    ASSUME NEW S, NEW s \in Seq(S), s # <<>>, Len(s) <= 1
    PROVE  s[1] \in S /\ s = <<s[1]>>
<1>1. Len(s) \in Nat /\ Len(s) # 0
  BY EmptySeq
<1>2. Len(s) = 1
  BY <1>1
<1> QED BY <1>2

\* How the messages to the client move: one is added at the end, or the first is shown.
LEMMA MessagesMove ==
    ASSUME DialogTypes, [Dialogs!Next]_(Dialogs!vars)
    PROVE  \/ UNCHANGED <<outbound, seen>>
           \/ UNCHANGED seen /\ \E m : outbound' = Append(outbound, m)
           \/ Dialogs!Forward
<1>1. CASE Dialogs!PumpSends
  <2>1. parked = <<parked[1]>> /\ outbound' = outbound \o parked /\ seen' = seen
    <3>1. parked \in Seq(DialogTexts) /\ parked # <<>> /\ Len(parked) <= 1
      BY <1>1 DEF Dialogs!PumpSends, DialogTypes
    <3> QED BY <1>1, <3>1, OnlyOne DEF Dialogs!PumpSends
  <2>2. outbound' = Append(outbound, parked[1])
    <3>1. \A s \in Seq(DialogTexts \cup DialogNotices \cup DialogOffers) : \A x \in DialogTexts :
              s \o <<x>> = Append(s, x)
      OBVIOUS
    <3>2. parked[1] \in DialogTexts
      <4>1. parked \in Seq(DialogTexts) /\ parked # <<>> /\ Len(parked) <= 1
        BY <1>1 DEF Dialogs!PumpSends, DialogTypes
      <4> QED BY <4>1, OnlyOne
    <3> QED BY <2>1, <3>1, <3>2 DEF DialogTypes
  <2> QED BY <2>1, <2>2
<1>2. ASSUME NEW r \in Requests, Dialogs!Task(r)
      PROVE  \/ UNCHANGED <<outbound, seen>>
             \/ UNCHANGED seen /\ \E m : outbound' = Append(outbound, m)
  BY <1>2 DEF Dialogs!Task, Dialogs!AnswerAtOnce, Dialogs!send_extension_notice,
     Dialogs!request_permission, Dialogs!TakeOutcome, Dialogs!TimeOut, Dialogs!Reply
<1> QED BY <1>1, <1>2 DEF Dialogs!Next, Dialogs!Pi, Dialogs!PiAsks, Dialogs!PiSays, Dialogs!Pump,
           Dialogs!OnRequest, Dialogs!OnText, Dialogs!on_extension_ui_response, Dialogs!OnCancel,
           Dialogs!Shutdown, Dialogs!ConnectorEnds, Dialogs!Client, Dialogs!ClientCancels,
           Dialogs!Answers, Dialogs!vars

\* A notice stays where it is when a message is appended.
LEMMA NotifiesAppended ==
    ASSUME NEW S, NEW s \in Seq(S), NEW m, NEW r, NEW n \in 0 .. Len(s), Notifies(s, n, r)
    PROVE  Notifies(Append(s, m), n, r)
BY DEF Notifies

\* What the first message of the channel leaves to the others.
LEMMA ForwardNotifies ==
    ASSUME DialogTypes, Dialogs!Forward, NEW r
    PROVE  /\ \A n \in 0 .. Len(seen) : Notifies(seen, n, r) => Notifies(seen', n, r)
           /\ Notifies(seen, Len(seen), r) => Notifies(seen', Len(seen'), r)
           /\ \A n \in 0 .. Len(outbound) :
                  Notifies(outbound, n, r) => \/ Notifies(seen', Len(seen'), r)
                                              \/ Notifies(outbound', n - 1, r)
<1>1. /\ \A i \in 2 .. Len(outbound) : i - 1 \in DOMAIN outbound' /\ outbound'[i - 1] = outbound[i]
      /\ 1 \in DOMAIN outbound /\ Head(outbound) = outbound[1] /\ Len(outbound') = Len(outbound) - 1
      /\ Len(outbound) \in Nat /\ Len(seen) \in Nat
  BY DEF Dialogs!Forward, DialogTypes
<1>2. \/ seen' = seen /\ outbound[1].kind = "permission"
      \/ seen' = Append(seen, outbound[1])
  BY <1>1 DEF Dialogs!Forward
<1>3. \A i \in DOMAIN seen : i \in DOMAIN seen' /\ seen'[i] = seen[i]
  <2>1. CASE seen' = Append(seen, outbound[1])
    BY <2>1 DEF DialogTypes
  <2> QED BY <1>2, <2>1
<1>4. \A n \in 0 .. Len(seen) : Notifies(seen, n, r) => Notifies(seen', n, r)
  BY <1>3 DEF Notifies, DialogTypes
<1>5. Notifies(seen, Len(seen), r) => Notifies(seen', Len(seen'), r)
  BY <1>1, <1>2, <1>3 DEF Notifies, DialogTypes
<1>6. ASSUME NEW n \in 0 .. Len(outbound), Notifies(outbound, n, r)
      PROVE  Notifies(seen', Len(seen'), r) \/ Notifies(outbound', n - 1, r)
  <2>1. PICK j \in 1 .. n : outbound[j] = [kind |-> "notice", id |-> r]
    BY <1>6 DEF Notifies
  <2>2. CASE j = 1
    <3>1. seen' = Append(seen, outbound[1])
      BY <1>2, <2>1, <2>2
    <3>2. Len(seen') \in 1 .. Len(seen') /\ seen'[Len(seen')] = outbound[1]
      BY <1>1, <3>1 DEF DialogTypes
    <3> QED BY <2>1, <2>2, <3>2 DEF Notifies
  <2>3. CASE j # 1
    <3>1. j \in 2 .. Len(outbound) /\ j - 1 \in 1 .. n - 1
      BY <1>1, <2>3
    <3> QED BY <1>1, <2>1, <3>1 DEF Notifies
  <2> QED BY <2>2, <2>3
<1> QED BY <1>4, <1>5, <1>6

\* A notice that was sent stays sent: the connector takes it to the client.
LEMMA NoticeSentStays ==
    ASSUME DialogTypes, [Dialogs!Next]_(Dialogs!vars), NEW r, NoticeSent(r)
    PROVE  NoticeSent(r)'
<1>1. CASE UNCHANGED <<outbound, seen>>
  BY <1>1 DEF NoticeSent, Notifies
<1>2. ASSUME seen' = seen, NEW m, outbound' = Append(outbound, m)
      PROVE  NoticeSent(r)'
  <2>1. Len(outbound') = Len(outbound) + 1 /\ Len(outbound) \in Nat
    BY <1>2 DEF DialogTypes
  <2>2. Notifies(outbound, Len(outbound), r) => Notifies(outbound', Len(outbound), r)
    BY <1>2, <2>1, NotifiesAppended DEF DialogTypes
  <2> QED BY <1>2, <2>1, <2>2 DEF NoticeSent, Notifies
<1>3. CASE Dialogs!Forward
  <2>1. Len(outbound) \in 0 .. Len(outbound) /\ Len(outbound') = Len(outbound) - 1
    BY <1>3 DEF Dialogs!Forward, DialogTypes
  <2> QED BY <1>3, <2>1, ForwardNotifies DEF NoticeSent
<1> QED BY <1>1, <1>2, <1>3, MessagesMove

\* Noticing is inductive: the channel keeps the order of notices and texts.
LEMMA NoticingStep ==
    ASSUME Dialogs!RequestAssumption, DialogTypes, AskedOnce, AnswersOfTasks, OfferedOnce, Noticing,
           [Dialogs!Next]_(Dialogs!vars)
    PROVE  Noticing'
<1>1. NoticesSent'
  <2> SUFFICES ASSUME NEW r \in Dialogs!Noticed, Told(r)' PROVE NoticeSent(r)'
    BY DEF NoticesSent
  <2>1. r \in Requests /\ r \notin Dialogs!Interactive
    BY NoticedRequests
  <2>2. CASE Told(r)
    BY <2>2, NoticeSentStays DEF Noticing, NoticesSent
  <2>3. CASE ~Told(r)
    <3>1. Dialogs!send_extension_notice(r)
      <4>1. task[r].pc # "asked" /\ r \notin Timed
        BY <2>1 DEF OfferedOnce, Dialogs!RequestAssumption
      <4>2. ~Dialogs!OnRequest
        <5> SUFFICES ASSUME Dialogs!OnRequest PROVE FALSE
          OBVIOUS
        <5> DEFINE q == Head(queue).id
        <5>1. task' = [task EXCEPT ![q].pc = "start"]
          BY DEF Dialogs!OnRequest
        <5> HIDE DEF q
        <5>2. r \in DOMAIN task /\ DOMAIN task[r] = {"pc", "answer"}
          BY <2>1 DEF DialogTypes
        <5>3. task'[r].pc \in {"start", task[r].pc}
          BY ONLY <5>1, <5>2
        <5> QED BY ONLY <2>3, <5>3, Told(r)' DEF Told
      <4>3. ASSUME NEW q \in Requests, Dialogs!Task(q) PROVE q = r
        BY <2>1, <2>3, <4>3 DEF Dialogs!Task, Dialogs!AnswerAtOnce, Dialogs!send_extension_notice,
           Dialogs!request_permission, Dialogs!TakeOutcome, Dialogs!TimeOut, Dialogs!Reply,
           Dialogs!Goto, Told, DialogTypes
      <4>4. Dialogs!Task(r)
        <5>1. task' # task
          BY <2>3 DEF Told
        <5>2. Dialogs!OnRequest \/ \E q \in Requests : Dialogs!Task(q)
          BY <5>1 DEF Dialogs!Next, Dialogs!Pi, Dialogs!PiAsks, Dialogs!PiSays, Dialogs!Pump,
             Dialogs!OnText, Dialogs!PumpSends, Dialogs!on_extension_ui_response, Dialogs!OnCancel,
             Dialogs!Shutdown, Dialogs!Forward, Dialogs!ConnectorEnds, Dialogs!Client,
             Dialogs!ClientCancels, Dialogs!Answers, Dialogs!vars
        <5> QED BY <4>2, <4>3, <5>2
      <4> QED BY <2>1, <2>3, <4>1, <4>4 DEF Dialogs!Task, Dialogs!AnswerAtOnce,
                 Dialogs!request_permission, Dialogs!TakeOutcome, Dialogs!TimeOut, Dialogs!Reply,
                 Dialogs!Goto, Told, DialogTypes
    <3>2. outbound' = Append(outbound, [kind |-> "notice", id |-> r])
      BY <3>1 DEF Dialogs!send_extension_notice
    <3>3. /\ Len(outbound') \in 1 .. Len(outbound')
          /\ outbound'[Len(outbound')] = [kind |-> "notice", id |-> r]
      BY <3>2 DEF DialogTypes
    <3> QED BY <3>3 DEF NoticeSent, Notifies
  <2> QED BY <2>2, <2>3
<1>2. EventsFollow'
  <2>1. CASE Dialogs!PiSays
    <3> DEFINE m == [kind |-> "text", after |-> {r \in asked : Dialogs!Answered(r)}]
    <3>1. queue' = Append(queue, m) /\ task' = task
      BY <2>1 DEF Dialogs!PiSays
    <3>2. \A r \in m.after : Told(r)
      BY DEF Dialogs!Answered, AnswersOfTasks, Told
    <3>3. \A i \in DOMAIN queue' : \/ i \in DOMAIN queue /\ queue'[i] = queue[i]
                                   \/ queue'[i] = m
      BY <3>1 DEF DialogTypes
    <3> HIDE DEF m
    <3> QED BY <3>1, <3>2, <3>3 DEF Noticing, EventsFollow, Told
  <2>2. CASE ~Dialogs!PiSays
    <3>1. \A i \in DOMAIN queue' : queue'[i].kind = "text" =>
              \E j \in DOMAIN queue : queue'[i] = queue[j]
      <4>1. CASE queue' = queue \/ queue' = <<>>
        BY <4>1
      <4>2. CASE Dialogs!OnRequest \/ Dialogs!OnText
        <5>1. queue' = Tail(queue) /\ queue # <<>>
          BY <4>2 DEF Dialogs!OnRequest, Dialogs!OnText
        <5>2. \A i \in DOMAIN queue' : i + 1 \in DOMAIN queue /\ queue'[i] = queue[i + 1]
          BY <5>1 DEF DialogTypes
        <5> QED BY <5>2
      <4>3. ASSUME NEW r \in Requests, Dialogs!PiAsks(r)
            PROVE  \A i \in DOMAIN queue' : queue'[i].kind = "text" =>
                       \E j \in DOMAIN queue : queue'[i] = queue[j]
        BY <4>3 DEF Dialogs!PiAsks, DialogTypes
      <4>4. \/ queue' = queue \/ queue' = <<>> \/ Dialogs!OnRequest \/ Dialogs!OnText
            \/ \E r \in Requests : Dialogs!PiAsks(r)
        <5>1. \A r \in Requests : Dialogs!Task(r) => queue' = queue
          BY TaskMoves DEF Moves
        <5> QED BY <2>2, <5>1 DEF Dialogs!Next, Dialogs!Pi, Dialogs!Pump, Dialogs!PumpSends,
                   Dialogs!on_extension_ui_response, Dialogs!OnCancel, Dialogs!Shutdown,
                   Dialogs!Forward, Dialogs!ConnectorEnds, Dialogs!Client, Dialogs!ClientCancels,
                   Dialogs!Answers, Dialogs!vars
      <4> QED BY <4>1, <4>2, <4>3, <4>4
    <3>2. \A r \in Dialogs!Noticed : Told(r) => Told(r)'
      BY NoticedRequests, ToldStays
    <3> QED BY <3>1, <3>2 DEF Noticing, EventsFollow
  <2> QED BY <2>1, <2>2
<1>3. HeldFollows'
  <2>1. \A r \in Dialogs!Noticed : Told(r) => Told(r)'
    BY NoticedRequests, ToldStays
  <2>2. CASE Dialogs!OnText
    <3>1. 1 \in DOMAIN queue /\ queue[1] = Head(queue) /\ queue[1].kind = "text"
      BY <2>2 DEF Dialogs!OnText, DialogTypes
    <3>2. \A i \in DOMAIN parked' : parked'[i] = queue[1]
      BY <2>2, <3>1 DEF Dialogs!OnText
    <3> QED BY <2>1, <3>1, <3>2 DEF Noticing, HeldFollows, EventsFollow
  <2>3. CASE parked' = parked \/ parked' = <<>>
    BY <2>1, <2>3 DEF Noticing, HeldFollows
  <2>4. Dialogs!OnText \/ parked' = parked \/ parked' = <<>>
    <3>1. \A r \in Requests : Dialogs!Task(r) => parked' = parked
      BY TaskMoves DEF Moves
    <3> QED BY <3>1 DEF Dialogs!Next, Dialogs!Pi, Dialogs!PiAsks, Dialogs!PiSays, Dialogs!Pump,
               Dialogs!OnRequest, Dialogs!PumpSends, Dialogs!on_extension_ui_response,
               Dialogs!OnCancel, Dialogs!Shutdown, Dialogs!Forward, Dialogs!ConnectorEnds,
               Dialogs!Client, Dialogs!ClientCancels, Dialogs!Answers, Dialogs!vars
  <2> QED BY <2>2, <2>3, <2>4
<1>4. OutboundFollows' /\ SeenFollows'
  <2>1. CASE UNCHANGED <<outbound, seen>>
    BY <2>1 DEF Noticing, OutboundFollows, SeenFollows, Notifies
  <2>2. ASSUME seen' = seen, NEW m, outbound' = Append(outbound, m)
        PROVE  OutboundFollows' /\ SeenFollows'
    <3>1. m.kind = "text" => \A r \in m.after \cap Dialogs!Noticed : NoticeSent(r)
      <4>1. m = outbound'[Len(outbound) + 1]
        BY <2>2 DEF DialogTypes
      <4>2. CASE Dialogs!PumpSends
        <5>1. 1 \in DOMAIN parked /\ m = parked[1]
          BY <4>1, <4>2 DEF Dialogs!PumpSends, DialogTypes
        <5> QED BY <5>1 DEF Noticing, HeldFollows, NoticesSent
      <4>3. ASSUME NEW r \in Requests, Dialogs!Task(r) PROVE m.kind # "text"
        BY <2>2, <4>1, <4>3 DEF Dialogs!Task, Dialogs!AnswerAtOnce, Dialogs!send_extension_notice,
           Dialogs!request_permission, Dialogs!TakeOutcome, Dialogs!TimeOut, Dialogs!Reply,
           DialogTypes
      <4>4. outbound' # outbound
        BY <2>2 DEF DialogTypes
      <4>5. Dialogs!PumpSends \/ \E r \in Requests : Dialogs!Task(r)
        <5>1. Len(outbound') = Len(outbound) + 1 /\ Len(outbound) \in Nat
          BY <2>2 DEF DialogTypes
        <5>2. ~Dialogs!Forward
          BY <5>1 DEF Dialogs!Forward, DialogTypes
        <5> QED BY <4>4, <5>2 DEF Dialogs!Next, Dialogs!Pi, Dialogs!PiAsks, Dialogs!PiSays,
                   Dialogs!Pump, Dialogs!OnRequest, Dialogs!OnText,
                   Dialogs!on_extension_ui_response, Dialogs!OnCancel, Dialogs!Shutdown,
                   Dialogs!ConnectorEnds, Dialogs!Client, Dialogs!ClientCancels, Dialogs!Answers,
                   Dialogs!vars
      <4> QED BY <4>2, <4>3, <4>5
    <3>2. /\ \A i \in DOMAIN outbound' : \/ i \in DOMAIN outbound /\ outbound'[i] = outbound[i]
                                         \/ i = Len(outbound) + 1 /\ outbound'[i] = m
          /\ DOMAIN outbound = 1 .. Len(outbound) /\ Len(outbound) \in Nat
      BY <2>2 DEF DialogTypes
    <3>3. \A r : \A n \in 0 .. Len(outbound) : Notifies(outbound, n, r) => Notifies(outbound', n, r)
      BY <2>2, NotifiesAppended DEF DialogTypes
    <3>4. ASSUME NEW i \in DOMAIN outbound', outbound'[i].kind = "text",
                 NEW r \in outbound'[i].after \cap Dialogs!Noticed
          PROVE  Notifies(seen, Len(seen), r) \/ Notifies(outbound', i - 1, r)
      <4>1. CASE i \in DOMAIN outbound /\ outbound'[i] = outbound[i]
        <5>1. i - 1 \in 0 .. Len(outbound)
          BY <3>2, <4>1
        <5> QED BY <3>3, <3>4, <4>1, <5>1 DEF Noticing, OutboundFollows
      <4>2. CASE i = Len(outbound) + 1 /\ outbound'[i] = m
        <5>1. i - 1 = Len(outbound) /\ Len(outbound) \in 0 .. Len(outbound)
          BY <3>2, <4>2
        <5> QED BY <3>1, <3>3, <3>4, <4>2, <5>1 DEF NoticeSent
      <4> QED BY <3>2, <4>1, <4>2
    <3> QED BY <2>2, <3>4 DEF OutboundFollows, Noticing, SeenFollows
  <2>3. CASE Dialogs!Forward
    <3>1. /\ \A i \in DOMAIN outbound' : i + 1 \in DOMAIN outbound /\ outbound'[i] = outbound[i + 1]
          /\ 1 \in DOMAIN outbound /\ Head(outbound) = outbound[1]
          /\ DOMAIN outbound = 1 .. Len(outbound) /\ Len(outbound) \in Nat
          /\ DOMAIN outbound' \subseteq Nat
      BY <2>3 DEF Dialogs!Forward, DialogTypes
    <3>2. OutboundFollows'
      <4> SUFFICES ASSUME NEW i \in DOMAIN outbound', outbound'[i].kind = "text",
                          NEW r \in outbound'[i].after \cap Dialogs!Noticed
                   PROVE  Notifies(seen', Len(seen'), r) \/ Notifies(outbound', i - 1, r)
        BY DEF OutboundFollows
      <4>1. Notifies(seen, Len(seen), r) \/ Notifies(outbound, i + 1 - 1, r)
        BY <3>1 DEF Noticing, OutboundFollows
      <4>2. i + 1 - 1 = i /\ i \in 0 .. Len(outbound)
        BY <3>1
      <4> QED BY <2>3, <4>1, <4>2, ForwardNotifies
    <3>3. SeenFollows'
      <4>1. CASE seen' = seen
        BY <4>1 DEF Noticing, SeenFollows, Notifies
      <4>2. CASE seen' # seen
        <5>1. seen' = Append(seen, outbound[1])
          BY <2>3, <3>1, <4>2 DEF Dialogs!Forward
        <5>2. /\ \A i \in DOMAIN seen' : \/ i \in DOMAIN seen /\ seen'[i] = seen[i]
                                         \/ i = Len(seen) + 1 /\ seen'[i] = outbound[1]
              /\ DOMAIN seen = 1 .. Len(seen) /\ Len(seen) \in Nat
          BY <5>1 DEF DialogTypes
        <5>3. outbound[1].kind = "text" =>
                  \A r \in outbound[1].after \cap Dialogs!Noticed : Notifies(seen, Len(seen), r)
          BY <3>1 DEF Noticing, OutboundFollows, Notifies
        <5>4. \A r : \A n \in 0 .. Len(seen) : Notifies(seen, n, r) => Notifies(seen', n, r)
          BY <2>3, ForwardNotifies
        <5>5. ASSUME NEW i \in DOMAIN seen', seen'[i].kind = "text",
                     NEW r \in seen'[i].after \cap Dialogs!Noticed
              PROVE  Notifies(seen', i - 1, r)
          <6>1. CASE i \in DOMAIN seen /\ seen'[i] = seen[i]
            <7>1. i - 1 \in 0 .. Len(seen)
              BY <5>2, <6>1
            <7> QED BY <5>4, <5>5, <6>1, <7>1 DEF Noticing, SeenFollows
          <6>2. CASE i = Len(seen) + 1 /\ seen'[i] = outbound[1]
            <7>1. i - 1 = Len(seen) /\ Len(seen) \in 0 .. Len(seen)
              BY <5>2, <6>2
            <7> QED BY <5>3, <5>4, <5>5, <6>2, <7>1
          <6> QED BY <5>2, <6>1, <6>2
        <5> QED BY <5>5 DEF SeenFollows
      <4> QED BY <4>1, <4>2
    <3> QED BY <3>2, <3>3
  <2> QED BY <2>1, <2>2, <2>3, MessagesMove
<1> QED BY <1>1, <1>2, <1>3, <1>4 DEF Noticing

-----------------------------------------------------------------------------
\* DialogInv is an invariant of the dialogs,
LEMMA DialogInvBegins == Dialogs!RequestAssumption /\ Dialogs!Init => DialogInv
<1> SUFFICES ASSUME Dialogs!RequestAssumption, Dialogs!Init PROVE DialogInv
  OBVIOUS
<1>1. DialogTypes
  BY DialogTypesBegin
<1>2. \A r \in Requests : task[r].pc = "none" /\ dialog[r] = <<"none">>
  BY DEF Dialogs!Init
<1> QED BY <1>1, <1>2, NoticedRequests DEF Dialogs!Init, DialogInv, AskedOnce, AnswersOfTasks,
           OfferedOnce, TasksAreHonest, Noticing, NoticesSent, Told, EventsFollow, HeldFollows,
           OutboundFollows, SeenFollows

\* of every step of theirs,
LEMMA DialogInvStep == Dialogs!RequestAssumption /\ DialogInv /\ [Dialogs!Next]_(Dialogs!vars) =>
    DialogInv'
BY DialogTypesStep, AskedOnceStep, AnswersOfTasksStep, OfferedOnceStep, TasksAreHonestStep,
   NoticingStep DEF DialogInv

\* and what the run checks is a part of it.
LEMMA DialogInvIsHonest == Dialogs!RequestAssumption /\ DialogInv => Dialogs!DialogsAreHonest
<1> SUFFICES ASSUME Dialogs!RequestAssumption, DialogInv PROVE Dialogs!DialogsAreHonest
  OBVIOUS
<1>1. Dialogs!TypeOK
  <2>1. \A r \in Requests : /\ task[r].pc \in {"none", "start", "asked", "answer", "done"}
                            /\ task[r].answer.id = r
                            /\ task[r].answer.kind \in {"cancelled", "value", "confirmed"}
    BY DEF DialogInv, DialogTypes, DialogAnswers
  <2>2. \A r \in Requests :
            dialog[r][1] \in {"none", "open", "selected", "cancelled", "failed"}
    BY DEF DialogInv, DialogTypes, DialogEnds
  <2> QED BY <2>1, <2>2 DEF DialogInv, DialogTypes, Dialogs!TypeOK
<1>2. Dialogs!AnsweredOnce
  BY DEF DialogInv, AnswersOfTasks, Dialogs!AnsweredOnce
<1>3. Dialogs!AnswerIsClients
  <2>1. \A i \in DOMAIN got : /\ got[i].id \in Requests /\ got[i] = task[got[i].id].answer
                              /\ TaskIsHonest(got[i].id)
    BY AnswersName DEF DialogInv, AnswersOfTasks, TasksAreHonest
  <2> QED BY <2>1 DEF Dialogs!AnswerIsClients, TaskIsHonest
<1>4. Dialogs!NoticesInOrder
  BY DEF DialogInv, Noticing, SeenFollows, Dialogs!NoticesInOrder, Notifies
<1> QED BY <1>1, <1>2, <1>3, <1>4 DEF Dialogs!DialogsAreHonest

\* A step of the session is one of its parts', or leaves the dialogs as they are.
LEMMA DialogsMove == [SessionNext]_sessionVars => [Dialogs!Next]_(Dialogs!vars)
BY DEF SessionNext, sessionVars, dialogVars, Dialogs!vars

\* What pi is answered is what the client was shown and said, once and in order, in every session:
\* the pump, its tasks and the connector of handle_extension_ui_request keep DialogInv.
THEOREM DialogsHold == SessionSpec => []DialogsAreHonest
<1>1. SessionInit => DialogInv
  BY DialogInvBegins, SessionAssumption DEF SessionInit
<1>2. DialogInv /\ [SessionNext]_sessionVars => DialogInv'
  BY DialogsMove, DialogInvStep, SessionAssumption
<1>3. DialogInv => DialogsAreHonest
  BY DialogInvIsHonest, SessionAssumption DEF DialogsAreHonest
<1> QED BY <1>1, <1>2, <1>3, PTL DEF SessionSpec

-----------------------------------------------------------------------------
\* The title.
\* The types of what a thread keeps, and of what is on its way to the client.
TitleEntries == ({"user"} \X Prompts) \cup ({"name"} \X Names)
TitleTypes ==
    /\ Title!TypeOK
    /\ entries \in Seq(TitleEntries) /\ titles \in Seq(Names)
    /\ naming \in [Names -> {"idle", "set", "told"}]

\* With the client as calm as that, one name is under way at most, the last one, and once it
\* arrived the client shows it.
LastName == Title!Last(Title!Entries("name"))[2]
NameArrives ==
    /\ Len(titles) <= 1
    /\ titles # <<>> => Title!Named /\ Head(titles) = LastName
    /\ \A n \in Names : naming[n] = "set" => Title!Named /\ n = LastName
    /\ Title!Quiet /\ Title!Named => shown = LastName

\* A prompt is in the file, and its thread titled.
PromptIsKept ==
    /\ claimed => prompted # {}
    /\ prompted # {} => Title!Entries("user") # <<>> /\ shown # "none"

TitleInv == TitleTypes /\ NameArrives /\ PromptIsKept

-----------------------------------------------------------------------------
\* The module's Only is the one the lemmas are about.
LEMMA TitleOnly ==
    ASSUME NEW s, NEW T
    PROVE  Title!Only(s, T) = Only(s, T)
BY DEF Title!Only, Only, Title!Subsequence, Subsequence, Title!Nth, Nth, Title!Rank, Rank,
       Title!Cardinality, Cardinality

\* The entries of a kind are of that kind, and one more entry of a kind is its last.
LEMMA EntriesOfKind ==
    ASSUME TitleTypes, NEW kind \in {"user", "name"}
    PROVE  /\ Title!Entries(kind) \in Seq({kind} \X (Prompts \cup Names))
           /\ Title!Entries(kind) # <<>> => /\ Head(Title!Entries(kind))[2] \in Prompts \cup Names
                                            /\ Title!Last(Title!Entries(kind))[2] \in Prompts \cup Names
<1> DEFINE s == Title!Entries(kind)
<1>1. s \in Seq({kind} \X (Prompts \cup Names))
  BY OnlyAt, TitleOnly DEF Title!Entries, TitleTypes
<1> HIDE DEF s
<1>2. ASSUME s # <<>> PROVE s[1][2] \in Prompts \cup Names /\ s[Len(s)][2] \in Prompts \cup Names
  <2>1. Len(s) \in 1 .. Len(s) /\ 1 \in 1 .. Len(s)
    BY <1>1, <1>2, EmptySeq
  <2> QED BY <1>1, <2>1
<1>3. s # <<>> => Head(s) = s[1]
  BY <1>1
<1>4. s # <<>> => Head(s)[2] \in Prompts \cup Names /\ Title!Last(s)[2] \in Prompts \cup Names
  BY <1>2, <1>3 DEF Title!Last
<1> QED BY <1>1, <1>4 DEF s

\* An entry more is the last of its kind and leaves the other kind alone.
LEMMA EntryAdded ==
    ASSUME TitleTypes, NEW e \in TitleEntries, entries' = Append(entries, e),
           NEW kind \in {"user", "name"}
    PROVE  /\ e[1] = kind => /\ Title!Entries(kind)' # <<>>
                             /\ Title!Last(Title!Entries(kind)') = e
           /\ e[1] # kind => Title!Entries(kind)' = Title!Entries(kind)
           /\ Title!Entries(kind) # <<>> => Title!Entries(kind)' # <<>>
<1> DEFINE T == {kind} \X (Prompts \cup Names)
           s == Only(entries, T)
           t == Only(entries', T)
<1>1. t = IF e \in T THEN Append(s, e) ELSE s
  BY OnlyAppend, TitleOnly DEF TitleTypes
<1>2. s \in Seq(T)
  BY OnlyAt, TitleOnly DEF TitleTypes
<1>3. e \in T <=> e[1] = kind
  BY DEF TitleEntries
<1>4. s = Title!Entries(kind) /\ t = Title!Entries(kind)'
  <2>1. s = Title!Entries(kind)
    BY ONLY TitleOnly DEF Title!Entries, s, T
  <2>2. t = Title!Entries(kind)'
    BY ONLY TitleOnly DEF Title!Entries, t, T
  <2> QED BY <2>1, <2>2
<1> HIDE DEF s, t, T
<1>5. CASE e[1] = kind
  <2>1. t = Append(s, e) /\ e \in T
    BY <1>1, <1>3, <1>5
  <2>2. Len(t) = Len(s) + 1 /\ Len(s) \in Nat /\ t[Len(t)] = e
    BY <1>2, <2>1
  <2>3. t # <<>>
    BY <1>2, <2>1, <2>2
  <2> QED BY <1>4, <1>5, <2>2, <2>3 DEF Title!Last
<1>6. CASE e[1] # kind
  BY <1>1, <1>3, <1>4, <1>6
<1> QED BY <1>5, <1>6

\* What is left of a sequence of at most one element.
LEMMA OneLeft ==
    ASSUME NEW S, NEW s \in Seq(S), s # <<>>, Len(s) <= 1
    PROVE  Tail(s) = <<>>
<1>1. Len(s) \in Nat /\ Len(s) # 0
  BY EmptySeq
<1>2. Len(s) = 1
  BY <1>1
<1>3. Tail(s) \in Seq(S) /\ Len(Tail(s)) = 0
  BY <1>2
<1> QED BY <1>3, EmptySeq

\* TitleInv at the start.
LEMMA TitleInvBegins == Title!TitleAssumption /\ Title!Init => TitleInv
<1> SUFFICES ASSUME Title!TitleAssumption, Title!Init PROVE TitleInv
  OBVIOUS
<1>0. Lives \in Nat
  BY DEF Title!TitleAssumption
<1>1. TitleTypes
  <2>1. Title!TypeOK
    <3>1. lives \in 0 .. Lives
      BY <1>0 DEF Title!Init
    <3>2. shown = "none" /\ prompted = {} /\ given = {}
      BY DEF Title!Init
    <3>3. live \in BOOLEAN /\ claimed \in BOOLEAN
      BY Zenon DEF Title!Init
    <3> QED BY <3>1, <3>2, <3>3 DEF Title!TypeOK
  <2>2. entries \in Seq(TitleEntries) /\ titles \in Seq(Names)
    BY DEF Title!Init
  <2>3. naming \in [Names -> {"idle", "set", "told"}]
    BY DEF Title!Init
  <2> QED BY <2>1, <2>2, <2>3 DEF TitleTypes
<1>2. Title!Entries("name") = <<>>
  BY OnlyEmpty, TitleOnly DEF Title!Init, Title!Entries
<1> QED BY <1>1, <1>2 DEF Title!Init, TitleInv, NameArrives, PromptIsKept, Title!Named

\* What the file has, a title is made of.
LEMMA TitleOfFile ==
    ASSUME Title!TitleAssumption, TitleTypes
    PROVE  /\ Title!title_from_session_file \in Prompts \cup Names \cup {"none"}
           /\ Title!Named => Title!title_from_session_file = LastName
           /\ Title!Entries("user") # <<>> => Title!title_from_session_file # "none"
<1>1. Title!Named => LastName \in Prompts \cup Names
  BY EntriesOfKind DEF Title!Named, LastName
<1>2. Title!Entries("user") # <<>> => Head(Title!Entries("user"))[2] \in Prompts \cup Names
  BY EntriesOfKind
<1> QED BY <1>1, <1>2 DEF Title!title_from_session_file, LastName, Title!TitleAssumption

\* The title's types are kept.
LEMMA TitleTypesStep ==
    ASSUME Title!TitleAssumption, TitleTypes, [Title!Next]_(Title!vars)
    PROVE  TitleTypes'
<1> USE DEF TitleTypes, Title!TypeOK
<1>0. Lives \in Nat
  BY DEF Title!TitleAssumption
<1>1. ASSUME NEW t \in Prompts, Title!handle_prompt_turn(t) PROVE TitleTypes'
  <2>1. <<"user", t>> \in TitleEntries
    BY DEF TitleEntries
  <2> QED BY <1>1, <2>1 DEF Title!handle_prompt_turn
<1>2. ASSUME NEW n \in Names, Title!NameSets(n) \/ Title!SessionInfoChanged(n) PROVE TitleTypes'
  <2>1. <<"name", n>> \in TitleEntries
    BY DEF TitleEntries
  <2>2. entries' = Append(entries, <<"name", n>>) /\ titles' = Append(titles, n)
    BY <1>2 DEF Title!NameSets, Title!SessionInfoChanged, Title!PiIsNamed
  <2>3. entries' \in Seq(TitleEntries) /\ titles' \in Seq(Names)
    BY <2>1, <2>2
  <2>4. naming' \in [Names -> {"idle", "set", "told"}]
    BY <1>2 DEF Title!NameSets, Title!SessionInfoChanged
  <2>5. Title!TypeOK'
    BY <1>2 DEF Title!NameSets, Title!SessionInfoChanged, Title!PiIsNamed
  <2> QED BY <2>3, <2>4, <2>5
<1>3. ASSUME NEW n \in Names, Title!NameTells(n) PROVE TitleTypes'
  BY <1>3 DEF Title!NameTells
<1>4. CASE Title!Deliver
  BY <1>4 DEF Title!Deliver
<1>5. CASE Title!Close \/ Title!restore_session \/ UNCHANGED Title!vars
  <2>1. lives' \in 0 .. Lives
    BY <1>0, <1>5 DEF Title!Close, Title!restore_session, Title!vars
  <2> QED BY <1>5, <2>1 DEF Title!Close, Title!restore_session, Title!vars
<1>6. CASE Title!LoadSession
  <2>1. shown' \in Prompts \cup Names \cup {"none"}
    BY <1>6, TitleOfFile DEF Title!LoadSession
  <2>2. lives' \in 0 .. Lives
    BY <1>0, <1>6 DEF Title!LoadSession
  <2> QED BY <1>6, <2>1, <2>2 DEF Title!LoadSession
<1> QED BY <1>1, <1>2, <1>3, <1>4, <1>5, <1>6 DEF Title!Next

\* NameArrives is inductive for a careful and calm client.
LEMMA NameArrivesStep ==
    ASSUME Title!TitleAssumption, Careful, Calm, TitleTypes, NameArrives, [Title!Next]_(Title!vars)
    PROVE  NameArrives'
<1>1. ASSUME NEW t \in Prompts, Title!handle_prompt_turn(t) PROVE NameArrives'
  <2>1. <<"user", t>> \in TitleEntries
    BY DEF TitleEntries
  <2>2. Title!Entries("name")' = Title!Entries("name") /\ Title!Entries("name") = <<>>
    BY <1>1, <2>1, EntryAdded DEF Title!handle_prompt_turn, Title!Named
  <2> QED BY <1>1, <2>2 DEF Title!handle_prompt_turn, NameArrives, Title!Named, LastName
<1>2. ASSUME NEW n \in Names, Title!NameSets(n) \/ Title!SessionInfoChanged(n) PROVE NameArrives'
  <2>1. /\ titles = <<>> /\ \A m \in Names : naming[m] # "set"
        /\ entries' = Append(entries, <<"name", n>>) /\ titles' = Append(titles, n)
        /\ naming' = naming \/ naming' = [naming EXCEPT ![n] = "set"]
    BY <1>2 DEF Title!NameSets, Title!SessionInfoChanged, Title!PiIsNamed, Title!Quiet
  <2>2. <<"name", n>> \in TitleEntries
    BY DEF TitleEntries
  <2>3. Title!Named' /\ LastName' = n
    BY <2>1, <2>2, EntryAdded DEF Title!Named, LastName
  <2>4. titles' = <<n>> /\ \A m \in Names : naming'[m] = "set" => m = n
    BY <2>1 DEF TitleTypes
  <2> QED BY <2>3, <2>4 DEF NameArrives, Title!Quiet
<1>3. ASSUME NEW n \in Names, Title!NameTells(n) PROVE NameArrives'
  <2>1. n = LastName /\ LastName' = LastName /\ Title!Named' = Title!Named
    BY <1>3 DEF Title!NameTells, NameArrives, LastName, Title!Named, Title!Entries
  <2> QED BY <1>3, <2>1 DEF Title!NameTells, NameArrives, TitleTypes
<1>4. CASE Title!Deliver
  <2>1. LastName' = LastName /\ Title!Named' = Title!Named
    BY <1>4 DEF Title!Deliver, LastName, Title!Named, Title!Entries
  <2>2. titles' = <<>>
    BY <1>4, OneLeft DEF Title!Deliver, NameArrives, TitleTypes
  <2> QED BY <1>4, <2>1, <2>2 DEF Title!Deliver, NameArrives
<1>5. CASE Title!Close \/ Title!restore_session \/ UNCHANGED Title!vars
  BY <1>5 DEF Title!Close, Title!restore_session, Title!vars, NameArrives, LastName, Title!Named,
     Title!Entries, Title!Quiet
<1>6. CASE Title!LoadSession
  <2>1. LastName' = LastName /\ Title!Named' = Title!Named
    BY <1>6 DEF Title!LoadSession, LastName, Title!Named, Title!Entries
  <2>2. Title!Named => shown' = LastName
    BY <1>6, TitleOfFile DEF Title!LoadSession
  <2> QED BY <1>6, <2>1, <2>2 DEF Title!LoadSession, NameArrives
<1> QED BY <1>1, <1>2, <1>3, <1>4, <1>5, <1>6 DEF Title!Next

\* PromptIsKept is inductive.
LEMMA PromptIsKeptStep ==
    ASSUME Title!TitleAssumption, Careful, TitleTypes, NameArrives, PromptIsKept,
           [Title!Next]_(Title!vars)
    PROVE  PromptIsKept'
<1>0. "none" \notin Prompts \cup Names
  BY DEF Title!TitleAssumption
<1>1. ASSUME NEW t \in Prompts, Title!handle_prompt_turn(t) PROVE PromptIsKept'
  <2>1. <<"user", t>> \in TitleEntries
    BY DEF TitleEntries
  <2>2. Title!Entries("user")' # <<>>
    BY <1>1, <2>1, EntryAdded DEF Title!handle_prompt_turn
  <2> QED BY <1>0, <1>1, <2>2 DEF Title!handle_prompt_turn, PromptIsKept
<1>2. ASSUME NEW n \in Names, Title!NameSets(n) \/ Title!SessionInfoChanged(n) PROVE PromptIsKept'
  <2>1. <<"name", n>> \in TitleEntries
    BY DEF TitleEntries
  <2>2. Title!Entries("user") # <<>> => Title!Entries("user")' # <<>>
    BY <1>2, <2>1, EntryAdded DEF Title!NameSets, Title!SessionInfoChanged, Title!PiIsNamed
  <2> QED BY <1>2, <2>2 DEF Title!NameSets, Title!SessionInfoChanged, PromptIsKept
<1>3. ASSUME NEW n \in Names, Title!NameTells(n) PROVE PromptIsKept'
  BY <1>0, <1>3 DEF Title!NameTells, PromptIsKept, Title!Entries
<1>4. CASE Title!Deliver
  <2>1. Head(titles) \in Names
    BY <1>4 DEF Title!Deliver, TitleTypes
  <2> QED BY <1>0, <1>4, <2>1 DEF Title!Deliver, PromptIsKept, Title!Entries
<1>5. CASE Title!Close \/ Title!restore_session \/ UNCHANGED Title!vars
  BY <1>5 DEF Title!Close, Title!restore_session, Title!vars, PromptIsKept, Title!Entries
<1>6. CASE Title!LoadSession
  BY <1>6, TitleOfFile DEF Title!LoadSession, PromptIsKept, Title!Entries
<1> QED BY <1>1, <1>2, <1>3, <1>4, <1>5, <1>6 DEF Title!Next

\* The title a client is shown is the one session/list finds in pi's file, whoever named the
\* session last: for a thread that is prompted once before it is named (Careful) and is named or
\* loaded when nothing else is under way (Calm), whatever it is told and how often.
THEOREM TitlesHold ==
    ASSUME Careful, Calm
    PROVE  SessionSpec => []TitleAgrees
<1>0. Title!TitleAssumption
  BY SessionAssumption
<1>1. SessionInit => TitleInv
  BY <1>0, TitleInvBegins DEF SessionInit
<1>2. TitleInv /\ [SessionNext]_sessionVars => TitleInv'
  <2>1. [SessionNext]_sessionVars => [Title!Next]_(Title!vars)
    BY DEF SessionNext, sessionVars, titleVars, Title!vars
  <2> QED BY <1>0, <2>1, TitleTypesStep, NameArrivesStep, PromptIsKeptStep DEF TitleInv
<1>3. TitleInv => TitleAgrees
  BY <1>0, TitleOfFile DEF TitleInv, TitleTypes, NameArrives, PromptIsKept, TitleAgrees, Title!TitleAgrees,
     Title!NamedAgrees, Title!PromptedIsTitled, LastName
<1> QED BY <1>1, <1>2, <1>3, PTL DEF SessionSpec

-----------------------------------------------------------------------------
(* The replayed history.                                                   *)

HistoryIds == {"none", "own", "msg", "call", "synthetic", "replay"} \X Nat
HistoryMessages == [role : {"user", "assistant", "toolResult"}, text : BOOLEAN, id : HistoryIds,
                    failed : BOOLEAN]
HistoryEntries == [id : HistoryIds, of : SUBSET Nat, failed : BOOLEAN]

HistoryTypes ==
    /\ protocol \in {"v1", "v2"} /\ history \in Seq(HistoryMessages)
    /\ transcript \in Seq(HistoryEntries)
    /\ seq \in Nat /\ synthetic \in Nat /\ fresh \in BOOLEAN

\* Only a result has an id or has failed; the id is its own.
ResultsAreNamed ==
    \A m \in DOMAIN history :
        /\ history[m].id = <<"none", 0>> \/ history[m].id = <<"call", m>>
        /\ history[m].role # "toolResult" => ~history[m].failed

\* v tells the first n messages of h, each in its place and alone.
TellsAll(h, v, n) ==
    /\ \A i \in DOMAIN v : \E m \in DOMAIN h : History!replay_message(h[m]) /\ m <= n /\ v[i].of = {m}
    /\ \A m \in DOMAIN h : History!replay_message(h[m]) /\ m <= n => \E i \in DOMAIN v : v[i].of = {m}
    /\ \A i, j \in DOMAIN v : i < j => \A k \in v[i].of, m \in v[j].of : k < m

\* An entry is of messages there are, and failed if one of them did.
EntriesAreOf(h, v) ==
    \A i \in DOMAIN v : /\ v[i].of \subseteq DOMAIN h
                        /\ v[i].failed = (\E m \in v[i].of : h[m].failed)

\* The ids that may be minted next are on no entry; a message's id is not on a result's entry.
IdsAreAhead ==
    \A i \in DOMAIN transcript :
        /\ transcript[i].id[1] \in {"own", "call"} => transcript[i].id[2] <= Len(history)
        /\ transcript[i].id[1] = "msg" =>
              /\ fresh => transcript[i].id[2] <= seq
              /\ ~transcript[i].failed

HistoryInv ==
    /\ HistoryTypes /\ ResultsAreNamed /\ IdsAreAhead /\ EntriesAreOf(history, transcript)
    /\ fresh => TellsAll(history, transcript, Len(history))

-----------------------------------------------------------------------------
\* An entry under a new id.
LEMMA ShowNew ==
    ASSUME NEW v \in Seq(HistoryEntries), NEW id \in HistoryIds, NEW m \in Nat, NEW failed \in BOOLEAN,
           id = History!Unnamed \/ \A i \in DOMAIN v : v[i].id # id
    PROVE  History!Show(v, id, m, failed) = Append(v, [id |-> id, of |-> {m}, failed |-> failed])
BY DEF History!Show

LEMMA AppendEntry ==
    ASSUME NEW v \in Seq(HistoryEntries), NEW e \in HistoryEntries
    PROVE  /\ Append(v, e) \in Seq(HistoryEntries) /\ DOMAIN Append(v, e) = 1 .. Len(v) + 1
           /\ DOMAIN v = 1 .. Len(v) /\ Len(v) \in Nat
           /\ Append(v, e)[Len(v) + 1] = e /\ \A i \in 1 .. Len(v) : Append(v, e)[i] = v[i]
OBVIOUS

\* A result's two frames make one entry.
LEMMA ResultsMakeOne ==
    ASSUME NEW v \in Seq(HistoryEntries), NEW id \in HistoryIds, NEW m \in Nat, history[m].failed \in BOOLEAN,
           id # History!Unnamed, \A i \in DOMAIN v : v[i].id # id
    PROVE  History!Results(v, id, m) = Append(v, [id |-> id, of |-> {m}, failed |-> history[m].failed])
<1> DEFINE e == [id |-> id, of |-> {m}, failed |-> FALSE]
           d == [id |-> id, of |-> {m}, failed |-> history[m].failed]
           w == Append(v, e)
           u == Append(v, d)
           n == Len(v) + 1
<1>1. History!Show(v, id, m, FALSE) = w
  BY ShowNew
<1>2. e \in HistoryEntries /\ d \in HistoryEntries
  BY DEF HistoryEntries
<1>3. /\ w \in Seq(HistoryEntries) /\ DOMAIN w = 1 .. n /\ DOMAIN v = 1 .. Len(v) /\ Len(v) \in Nat
      /\ w[n] = e /\ \A i \in 1 .. Len(v) : w[i] = v[i]
  BY <1>2, AppendEntry
<1>4. /\ u \in Seq(HistoryEntries) /\ DOMAIN u = 1 .. n
      /\ u[n] = d /\ \A i \in 1 .. Len(v) : u[i] = v[i]
  BY <1>2, AppendEntry
<1> DEFINE x == [i \in DOMAIN w |-> IF w[i].id = id
                                    THEN [id |-> id, of |-> w[i].of \cup {m}, failed |-> history[m].failed] ELSE w[i]]
<1>5. History!Show(w, id, m, history[m].failed) = x
  <2>1. w[n].id = id /\ n \in DOMAIN w
    BY <1>3
  <2> QED BY <2>1 DEF History!Show
<1>6. x = u
  <2>1. DOMAIN x = DOMAIN u
    BY <1>3, <1>4
  <2>2. ASSUME NEW i \in 1 .. n PROVE x[i] = u[i]
    <3>0. i \in DOMAIN w /\ e.id = id /\ d.id = id
      BY <1>3
    <3>1. CASE i = n
      <4>1. w[i] = e /\ u[i] = d
        BY <1>3, <1>4, <3>1
      <4>2. x[i] = [id |-> id, of |-> w[i].of \cup {m}, failed |-> history[m].failed]
        <5> HIDE DEF w, e, n
        <5> QED BY <3>0, <4>1
      <4>3. e.of \cup {m} = {m}
        OBVIOUS
      <4>4. x[i] = d
        <5> HIDE DEF w, e, x
        <5> QED BY <4>1, <4>2, <4>3
      <4> HIDE DEF x, w, u, e, d
      <4> QED BY <4>1, <4>4
    <3>2. CASE i \in 1 .. Len(v)
      <4>1. w[i] = v[i] /\ u[i] = v[i] /\ v[i].id # id
        BY <1>3, <1>4, <3>2
      <4> HIDE DEF w, u, e, d, n
      <4> QED BY <3>0, <4>1
    <3>3. i = n \/ i \in 1 .. Len(v)
      <4> HIDE DEF x, w, u, e, d
      <4> QED BY <1>3
    <3> QED BY <3>1, <3>2, <3>3
  <2>3. u = [i \in 1 .. n |-> u[i]]
    BY <1>4
  <2> HIDE DEF u, n
  <2> QED BY <2>1, <2>2, <2>3, <1>3, <1>4
<1> QED BY <1>1, <1>5, <1>6 DEF History!Results

LEMMA TellsNext ==
    ASSUME NEW h \in Seq(HistoryMessages), NEW v \in Seq(HistoryEntries), NEW n \in Nat, n + 1 \in DOMAIN h,
           TellsAll(h, v, n), NEW e \in HistoryEntries, e.of = {n + 1}, History!replay_message(h[n + 1])
    PROVE  TellsAll(h, Append(v, e), n + 1)
<1> DEFINE w == Append(v, e)
           k == Len(v) + 1
<1>1. /\ DOMAIN w = 1 .. k /\ DOMAIN v = 1 .. Len(v) /\ Len(v) \in Nat
      /\ w[k] = e /\ \A i \in 1 .. Len(v) : w[i] = v[i]
  BY AppendEntry
<1>2. DOMAIN h = 1 .. Len(h) /\ Len(h) \in Nat
  OBVIOUS
<1> HIDE DEF w
<1>3. ASSUME NEW i \in DOMAIN w
      PROVE  \E m \in DOMAIN h : History!replay_message(h[m]) /\ m <= n + 1 /\ w[i].of = {m}
  <2>1. CASE i = k
    BY <1>1, <1>2, <2>1
  <2>2. CASE i \in DOMAIN v
    <3>1. PICK m \in DOMAIN h : History!replay_message(h[m]) /\ m <= n /\ v[i].of = {m}
      BY <2>2 DEF TellsAll
    <3>2. m <= n + 1 /\ w[i] = v[i]
      BY <1>1, <1>2, <2>2, <3>1
    <3> QED BY <3>1, <3>2
  <2> QED BY <1>1, <2>1, <2>2
<1>4. ASSUME NEW m \in DOMAIN h, History!replay_message(h[m]), m <= n + 1
      PROVE  \E i \in DOMAIN w : w[i].of = {m}
  <2>1. CASE m = n + 1
    BY <1>1, <2>1
  <2>2. CASE m <= n
    <3>1. PICK i \in DOMAIN v : v[i].of = {m}
      BY <1>4, <2>2 DEF TellsAll
    <3> QED BY <1>1, <3>1
  <2> QED BY <1>2, <1>4, <2>1, <2>2
<1>5. ASSUME NEW i \in DOMAIN w, NEW j \in DOMAIN w, i < j, NEW x \in w[i].of, NEW y \in w[j].of
      PROVE  x < y
  <2>1. i \in DOMAIN v /\ w[i] = v[i]
    BY <1>1, <1>5
  <2>2. x \in Nat /\ x <= n
    BY <1>2, <1>5, <2>1 DEF TellsAll
  <2>3. CASE j = k
    BY <1>1, <1>5, <2>2, <2>3
  <2>4. CASE j \in DOMAIN v
    BY <1>1, <1>5, <2>1, <2>4 DEF TellsAll
  <2> QED BY <1>1, <2>3, <2>4
<1> HIDE DEF k
<1> QED BY <1>3, <1>4, <1>5 DEF TellsAll, w

\* What has no text is not told.
LEMMA TellsNothing ==
    ASSUME NEW h \in Seq(HistoryMessages), NEW v \in Seq(HistoryEntries), NEW n \in Nat, n + 1 \in DOMAIN h,
           TellsAll(h, v, n), ~History!replay_message(h[n + 1])
    PROVE  TellsAll(h, v, n + 1)
<1>1. DOMAIN h = 1 .. Len(h) /\ Len(h) \in Nat
  OBVIOUS
<1>2. \A m \in DOMAIN h : History!replay_message(h[m]) => (m <= n <=> m <= n + 1)
  BY <1>1
<1> QED BY <1>2 DEF TellsAll

LEMMA EntriesNext ==
    ASSUME NEW h, NEW v \in Seq(HistoryEntries), NEW m \in DOMAIN h, EntriesAreOf(h, v),
           NEW e \in HistoryEntries, e.of = {m}, e.failed = h[m].failed
    PROVE  EntriesAreOf(h, Append(v, e))
<1> DEFINE w == Append(v, e)
           k == Len(v) + 1
<1>1. /\ DOMAIN w = 1 .. k /\ DOMAIN v = 1 .. Len(v) /\ Len(v) \in Nat
      /\ w[k] = e /\ \A i \in 1 .. Len(v) : w[i] = v[i]
  BY AppendEntry
<1>2. e.failed \in BOOLEAN
  BY DEF HistoryEntries
<1> HIDE DEF w
<1>3. ASSUME NEW i \in DOMAIN w
      PROVE  w[i].of \subseteq DOMAIN h /\ w[i].failed = (\E x \in w[i].of : h[x].failed)
  <2>1. CASE i = k
    <3>1. e.failed = (\E x \in e.of : h[x].failed)
      BY <1>2
    <3> QED BY <1>1, <2>1, <3>1
  <2>2. CASE i \in DOMAIN v
    BY <1>1, <2>2 DEF EntriesAreOf
  <2>3. i = k \/ i \in DOMAIN v
    BY <1>1
  <2> HIDE DEF k
  <2> QED BY <2>1, <2>2, <2>3
<1> HIDE DEF k
<1> QED BY <1>3 DEF EntriesAreOf, w

\* A message more leaves what was told of the others.
LEMMA HistoryGrows ==
    ASSUME NEW h \in Seq(HistoryMessages), NEW msg \in HistoryMessages, NEW v
    PROVE  /\ TellsAll(h, v, Len(h)) => TellsAll(Append(h, msg), v, Len(h))
           /\ EntriesAreOf(h, v) => EntriesAreOf(Append(h, msg), v)
           /\ Append(h, msg) \in Seq(HistoryMessages) /\ Len(Append(h, msg)) = Len(h) + 1
           /\ DOMAIN Append(h, msg) = 1 .. Len(h) + 1 /\ DOMAIN h = 1 .. Len(h) /\ Len(h) \in Nat
           /\ Append(h, msg)[Len(h) + 1] = msg /\ \A m \in DOMAIN h : Append(h, msg)[m] = h[m]
<1> DEFINE g == Append(h, msg)
<1>1. /\ g \in Seq(HistoryMessages) /\ Len(g) = Len(h) + 1
      /\ DOMAIN g = 1 .. Len(h) + 1 /\ DOMAIN h = 1 .. Len(h) /\ Len(h) \in Nat
      /\ g[Len(h) + 1] = msg /\ \A m \in DOMAIN h : g[m] = h[m]
  OBVIOUS
<1> HIDE DEF g
<1>2. TellsAll(h, v, Len(h)) => TellsAll(g, v, Len(h))
  <2>1. \A m \in DOMAIN g : m <= Len(h) <=> m \in DOMAIN h
    BY <1>1
  <2>2. SUFFICES ASSUME TellsAll(h, v, Len(h)) PROVE TellsAll(g, v, Len(h))
    OBVIOUS
  <2>3. \A i \in DOMAIN v : \E m \in DOMAIN g : History!replay_message(g[m]) /\ m <= Len(h) /\ v[i].of = {m}
    <3>1. SUFFICES ASSUME NEW i \in DOMAIN v
                   PROVE  \E m \in DOMAIN g : History!replay_message(g[m]) /\ m <= Len(h) /\ v[i].of = {m}
      OBVIOUS
    <3>2. PICK m \in DOMAIN h : History!replay_message(h[m]) /\ m <= Len(h) /\ v[i].of = {m}
      BY <2>2 DEF TellsAll
    <3> QED BY <1>1, <3>2
  <2>4. \A m \in DOMAIN g : History!replay_message(g[m]) /\ m <= Len(h) => \E i \in DOMAIN v : v[i].of = {m}
    BY <1>1, <2>1, <2>2 DEF TellsAll
  <2> QED BY <2>2, <2>3, <2>4 DEF TellsAll
<1>3. EntriesAreOf(h, v) => EntriesAreOf(g, v)
  <2>1. ASSUME EntriesAreOf(h, v), NEW i \in DOMAIN v
        PROVE  v[i].of \subseteq DOMAIN g /\ v[i].failed = (\E m \in v[i].of : g[m].failed)
    <3>1. \A m \in v[i].of : m \in DOMAIN h /\ g[m] = h[m]
      BY <1>1, <2>1 DEF EntriesAreOf
    <3>2. (\E m \in v[i].of : g[m].failed) <=> (\E m \in v[i].of : h[m].failed)
      BY <3>1
    <3>3. v[i].failed = (\E m \in v[i].of : h[m].failed)
      BY <2>1 DEF EntriesAreOf
    <3>4. v[i].of \subseteq DOMAIN g
      BY <1>1, <3>1
    <3> QED BY <3>2, <3>3, <3>4
  <2> QED BY <2>1 DEF EntriesAreOf
<1> QED BY <1>1, <1>2, <1>3 DEF g

-----------------------------------------------------------------------------
\* The replay goes through the history a message at a time.
ReplayRecs == [view : Seq(HistoryEntries), text : Nat, bare : Nat]
ReplayOf(s, n) ==
    /\ \A i \in DOMAIN s.view :
          /\ s.view[i].id[1] \notin {"own", "msg"}
          /\ s.view[i].id[1] = "synthetic" => s.view[i].id[2] <= s.text
          /\ s.view[i].id[1] = "call" => s.view[i].id[2] <= n
          /\ s.view[i].id[1] = "replay" => s.view[i].id[2] <= s.bare
    /\ TellsAll(history, s.view, n) /\ EntriesAreOf(history, s.view)

LEMMA ShowType ==
    ASSUME NEW v \in Seq(HistoryEntries), NEW id \in HistoryIds, NEW m \in Nat, NEW failed \in BOOLEAN
    PROVE  History!Show(v, id, m, failed) \in Seq(HistoryEntries)
<1>1. CASE id # History!Unnamed /\ \E i \in DOMAIN v : v[i].id = id
  <2> DEFINE w == [i \in DOMAIN v |-> IF v[i].id = id THEN [id |-> id, of |-> v[i].of \cup {m}, failed |-> failed]
                                     ELSE v[i]]
  <2>1. \A i \in DOMAIN v : w[i] \in HistoryEntries
    <3>1. SUFFICES ASSUME NEW i \in DOMAIN v PROVE w[i] \in HistoryEntries
      OBVIOUS
    <3>2. v[i] \in HistoryEntries
      OBVIOUS
    <3>3. v[i].of \cup {m} \in SUBSET Nat
      BY <3>2 DEF HistoryEntries
    <3>4. [id |-> id, of |-> v[i].of \cup {m}, failed |-> failed] \in HistoryEntries
      BY <3>3 DEF HistoryEntries
    <3> QED BY <3>2, <3>4
  <2>2. w \in Seq(HistoryEntries)
    <3>1. DOMAIN v = 1 .. Len(v) /\ Len(v) \in Nat /\ DOMAIN w = DOMAIN v
      OBVIOUS
    <3>2. w = [i \in 1 .. Len(v) |-> w[i]]
      BY <3>1
    <3> HIDE DEF w
    <3> QED BY <2>1, <3>1, <3>2, IsASeq
  <2> QED BY <1>1, <2>2 DEF History!Show
<1>2. CASE ~(id # History!Unnamed /\ \E i \in DOMAIN v : v[i].id = id)
  <2>1. [id |-> id, of |-> {m}, failed |-> failed] \in HistoryEntries
    BY DEF HistoryEntries
  <2> QED BY <1>2, <2>1, AppendEntry DEF History!Show
<1> QED BY <1>1, <1>2

LEMMA MessageType ==
    ASSUME HistoryTypes, ResultsAreNamed, NEW m \in DOMAIN history
    PROVE  /\ history[m].failed \in BOOLEAN /\ history[m].text \in BOOLEAN /\ m \in Nat
           /\ history[m].role \in {"user", "assistant", "toolResult"}
           /\ history[m].id \in HistoryIds
           /\ history[m].id = History!Unnamed \/ history[m].id = <<"call", m>>
<1>1. history[m] \in HistoryMessages /\ m \in Nat
  BY DEF HistoryTypes
<1> QED BY <1>1 DEF HistoryMessages, ResultsAreNamed, History!Unnamed

LEMMA IdTypes ==
    /\ \A k \in Nat : History!ResultId(k) \in HistoryIds /\ History!ResultId(k) # History!Unnamed
    /\ \A k \in Nat : History!TextId(k) \in HistoryIds
    /\ \A k \in Nat : <<"call", k>> # History!Unnamed
    /\ History!Unnamed \in HistoryIds
BY DEF HistoryIds, History!ResultId, History!TextId, History!Unnamed

LEMMA ReplayRecord ==
    ASSUME NEW v \in Seq(HistoryEntries), NEW t \in Nat, NEW b \in Nat
    PROVE  [view |-> v, text |-> t, bare |-> b] \in ReplayRecs
BY DEF ReplayRecs

LEMMA EntryType ==
    ASSUME NEW v \in Seq(HistoryEntries), NEW i \in DOMAIN v
    PROVE  v[i].id \in HistoryIds /\ v[i].id[2] \in Nat /\ v[i].failed \in BOOLEAN /\ v[i].of \in SUBSET Nat
<1>1. v[i] \in HistoryEntries
  OBVIOUS
<1> QED BY <1>1 DEF HistoryEntries, HistoryIds

LEMMA ReplayType ==
    ASSUME HistoryTypes, ResultsAreNamed, NEW m \in DOMAIN history, NEW s \in ReplayRecs
    PROVE  History!Replay(s, m) \in ReplayRecs
<1>1. s.view \in Seq(HistoryEntries) /\ s.text \in Nat /\ s.bare \in Nat
  BY DEF ReplayRecs
<1>2. CASE ~History!replay_message(history[m])
  BY <1>2, MessageType DEF History!Replay, History!replay_message
<1>3. ASSUME NEW k \in HistoryIds PROVE History!Results(s.view, k, m) \in Seq(HistoryEntries)
  BY <1>1, ShowType, MessageType DEF History!Results
<1>4. CASE History!replay_message(history[m]) /\ history[m].role = "toolResult" /\ history[m].id = History!Unnamed
  <2>1. History!Replay(s, m) = 
          [view |-> History!Results(s.view, History!ResultId(s.bare + 1), m), text |-> s.text, bare |-> s.bare + 1]
    BY <1>4 DEF History!Replay
  <2>2. History!Results(s.view, History!ResultId(s.bare + 1), m) \in Seq(HistoryEntries)
    BY <1>1, <1>3, IdTypes
  <2> QED BY <1>1, <2>1, <2>2 DEF ReplayRecs
<1>5. CASE History!replay_message(history[m]) /\ history[m].role = "toolResult" /\ history[m].id # History!Unnamed
  <2>1. History!Replay(s, m) = 
          [view |-> History!Results(s.view, history[m].id, m), text |-> s.text, bare |-> s.bare]
    BY <1>5 DEF History!Replay
  <2>2. History!Results(s.view, history[m].id, m) \in Seq(HistoryEntries)
    BY <1>1, <1>3, MessageType
  <2> QED BY <1>1, <2>1, <2>2 DEF ReplayRecs
<1>6. CASE History!replay_message(history[m]) /\ history[m].role # "toolResult"
  <2>1. History!Replay(s, m) = 
          [view |-> History!Show(s.view, History!TextId(s.text + 1), m, FALSE), text |-> s.text + 1,
           bare |-> s.bare]
    BY <1>6 DEF History!Replay
  <2>2. History!Show(s.view, History!TextId(s.text + 1), m, FALSE) \in Seq(HistoryEntries)
    <3>1. s.text + 1 \in Nat
      BY <1>1
    <3>2. History!TextId(s.text + 1) \in HistoryIds
      BY <3>1, IdTypes
    <3>3. m \in Nat
      BY MessageType
    <3> QED BY <1>1, <3>2, <3>3, ShowType
  <2>3. s.text + 1 \in Nat
    BY <1>1
  <2> QED BY <1>1, <2>1, <2>2, <2>3, ReplayRecord
<1> QED BY <1>2, <1>4, <1>5, <1>6

LEMMA ReplayedIs ==
    ASSUME HistoryTypes, ResultsAreNamed
    PROVE  /\ \A n \in 0 .. Len(history) : History!Replayed[n] \in ReplayRecs
           /\ History!Replayed[0] = [view |-> <<>>, text |-> synthetic, bare |-> 0]
           /\ \A n \in 1 .. Len(history) : History!Replayed[n] = History!Replay(History!Replayed[n - 1], n)
<1> DEFINE N == Len(history)
           z == [view |-> <<>>, text |-> synthetic, bare |-> 0]
           step == [p \in (1 .. N) \X ReplayRecs |-> History!Replay(p[2], p[1])]
           Fits(f) == f = [n \in 0 .. N |-> IF n = 0 THEN z ELSE History!Replay(f[n - 1], n)]
<1>1. N \in Nat /\ DOMAIN history = 1 .. N
  BY DEF HistoryTypes
<1>2. z \in ReplayRecs
  BY DEF ReplayRecs, HistoryTypes
<1>3. step \in [(1 .. N) \X ReplayRecs -> ReplayRecs]
  BY <1>1, ReplayType
<1>4. PICK f \in [0 .. N -> ReplayRecs] : f = [n \in 0 .. N |-> IF n = 0 THEN z ELSE step[<<n, f[n - 1]>>]]
  <2> HIDE DEF z, step, N, Fits
  <2> QED BY ONLY <1>1, <1>2, <1>3, Recursion, SMTT(60)
<1>5. Fits(f)
  <2>1. \A n \in 0 .. N : n # 0 => n - 1 \in 0 .. N /\ n \in 1 .. N
    BY <1>1
  <2>2. \A n \in 0 .. N : n # 0 => step[<<n, f[n - 1]>>] = History!Replay(f[n - 1], n)
    BY <2>1
  <2> HIDE DEF step, z
  <2> QED BY <1>4, <2>2
<1>6. Fits(History!Replayed)
  <2> HIDE DEF Fits
  <2>1. History!Replayed = CHOOSE g : Fits(g)
    BY DEF History!Replayed, Fits
  <2> QED BY <1>5, <2>1
<1>7. /\ History!Replayed[0] = z
      /\ \A n \in 1 .. N : History!Replayed[n] = History!Replay(History!Replayed[n - 1], n)
  <2> HIDE DEF z
  <2> QED BY <1>1, <1>6
<1> DEFINE T == {n \in Nat : n <= N => History!Replayed[n] \in ReplayRecs}
<1>8. 0 \in T /\ \A n \in Nat : n \in T => n + 1 \in T
  <2> HIDE DEF z, Fits
  <2>1. 0 \in T
    BY <1>2, <1>7
  <2>2. ASSUME NEW n \in Nat, n \in T, n + 1 <= N PROVE History!Replayed[n + 1] \in ReplayRecs
    <3>1. n + 1 \in 1 .. N /\ n + 1 - 1 = n /\ n <= N
      BY <1>1, <2>2
    <3>2. History!Replayed[n + 1] = History!Replay(History!Replayed[n], n + 1)
      BY <1>7, <3>1
    <3> QED BY <1>1, <2>2, <3>1, <3>2, ReplayType
  <2> QED BY <2>1, <2>2
<1>9. Nat \subseteq T
  <2> HIDE DEF T
  <2> QED BY <1>8, Induction
<1> HIDE DEF z
<1> QED BY <1>1, <1>7, <1>9 DEF z

\* A message's frames are one entry at the end, under an id of its own.
LEMMA ReplayStep ==
    ASSUME HistoryTypes, ResultsAreNamed, NEW n \in Nat, n + 1 \in DOMAIN history, NEW s \in ReplayRecs,
           ReplayOf(s, n)
    PROVE  ReplayOf(History!Replay(s, n + 1), n + 1)
<1> DEFINE m == n + 1
           r == History!Replay(s, m)
<1>1. s.view \in Seq(HistoryEntries) /\ s.text \in Nat /\ s.bare \in Nat
  BY DEF ReplayRecs
<1>2. history \in Seq(HistoryMessages) /\ m \in Nat
  BY DEF HistoryTypes
<1>3. CASE ~History!replay_message(history[m])
  <2>1. r = s
    BY <1>3, MessageType DEF History!Replay, History!replay_message
  <2>2. TellsAll(history, s.view, m)
    BY <1>1, <1>2, <1>3, TellsNothing DEF ReplayOf
  <2>3. \A i \in DOMAIN s.view : s.view[i].id[1] = "call" => s.view[i].id[2] <= m
    <3>1. ASSUME NEW i \in DOMAIN s.view PROVE s.view[i].id[2] \in Nat
      BY <1>1, EntryType
    <3> QED BY <3>1 DEF ReplayOf
  <2> QED BY <2>1, <2>2, <2>3 DEF ReplayOf
<1> HIDE DEF r
\* The entry is new, and nothing else has changed but the counters.
<1>4. ASSUME NEW k \in HistoryIds, NEW text \in Nat, NEW bare \in Nat, s.text <= text, s.bare <= bare,
             History!replay_message(history[m]),
             r = [view |-> Append(s.view, [id |-> k, of |-> {m}, failed |-> history[m].failed]),
                  text |-> text, bare |-> bare],
             k[1] \notin {"own", "msg"}, k[1] = "synthetic" => k[2] <= text,
             k[1] = "call" => k[2] <= m, k[1] = "replay" => k[2] <= bare
      PROVE  ReplayOf(r, m)
  <2> DEFINE e == [id |-> k, of |-> {m}, failed |-> history[m].failed]
             w == Append(s.view, e)
  <2>1. e \in HistoryEntries /\ e.of = {m} /\ e.failed = history[m].failed /\ e.id = k
    BY <1>2, MessageType DEF HistoryEntries
  <2>2. /\ DOMAIN w = 1 .. Len(s.view) + 1 /\ DOMAIN s.view = 1 .. Len(s.view) /\ Len(s.view) \in Nat
        /\ w[Len(s.view) + 1] = e /\ \A i \in 1 .. Len(s.view) : w[i] = s.view[i]
    BY <1>1, <2>1, AppendEntry
  <2>3. r.view = w /\ r.text = text /\ r.bare = bare
    BY <1>4
  <2> HIDE DEF e
  <2>4. TellsAll(history, w, m)
    <3> HIDE DEF w
    <3> QED BY <1>1, <1>2, <1>4, <2>1, TellsNext DEF ReplayOf, w
  <2>5. EntriesAreOf(history, w)
    <3> HIDE DEF w
    <3> QED BY <1>1, <1>2, <1>4, <2>1, EntriesNext DEF ReplayOf, w
  <2> HIDE DEF w
  <2>6. ASSUME NEW i \in DOMAIN w
        PROVE  /\ w[i].id[1] \notin {"own", "msg"}
               /\ w[i].id[1] = "synthetic" => w[i].id[2] <= text
               /\ w[i].id[1] = "call" => w[i].id[2] <= m
               /\ w[i].id[1] = "replay" => w[i].id[2] <= bare
    <3>1. CASE i = Len(s.view) + 1
      BY <1>4, <2>1, <2>2, <3>1
    <3>2. CASE i \in DOMAIN s.view
      <4>1. w[i] = s.view[i]
        BY <2>2, <3>2
      <4>2. s.view[i].id[2] \in Nat
        BY <1>1, <3>2, EntryType
      <4> QED BY <1>1, <1>4, <4>1, <4>2, <3>2 DEF ReplayOf
    <3>3. i = Len(s.view) + 1 \/ i \in DOMAIN s.view
      BY <2>2
    <3> QED BY <3>1, <3>2, <3>3
  <2> QED BY <2>3, <2>4, <2>5, <2>6 DEF ReplayOf
<1>5. CASE /\ History!replay_message(history[m]) /\ history[m].role = "toolResult"
           /\ history[m].id = History!Unnamed
  <2> DEFINE k == History!ResultId(s.bare + 1)
  <2>1. r = [view |-> History!Results(s.view, k, m), text |-> s.text, bare |-> s.bare + 1]
    BY <1>5 DEF History!Replay, r
  <2>2. k \in HistoryIds /\ k # History!Unnamed /\ k[1] = "replay" /\ k[2] = s.bare + 1
    <3>1. s.bare + 1 \in Nat
      BY <1>1
    <3> QED BY <3>1, IdTypes DEF History!ResultId
  <2>3. \A i \in DOMAIN s.view : s.view[i].id # k
    <3>1. ASSUME NEW i \in DOMAIN s.view, s.view[i].id = k PROVE FALSE
      BY <1>1, <2>2, <3>1 DEF ReplayOf
    <3> QED BY <3>1
  <2> HIDE DEF k
  <2>4. History!Results(s.view, k, m) = Append(s.view, [id |-> k, of |-> {m}, failed |-> history[m].failed])
    BY <1>1, <1>2, <2>2, <2>3, ResultsMakeOne, MessageType
  <2>5. s.bare + 1 \in Nat /\ s.bare <= s.bare + 1 /\ s.text <= s.text /\ k[2] <= s.bare + 1
    BY <1>1, <2>2
  <2>7. r = [view |-> Append(s.view, [id |-> k, of |-> {m}, failed |-> history[m].failed]),
             text |-> s.text, bare |-> s.bare + 1]
    BY <2>1, <2>4
  <2>8. ReplayOf(r, m)
    BY <1>1, <1>4, <1>5, <2>2, <2>5, <2>7
  <2> QED BY <2>8 DEF r
<1>6. CASE /\ History!replay_message(history[m]) /\ history[m].role = "toolResult"
           /\ history[m].id # History!Unnamed
  <2> DEFINE k == history[m].id
  <2>1. r = [view |-> History!Results(s.view, k, m), text |-> s.text, bare |-> s.bare]
    BY <1>6 DEF History!Replay, r
  <2>2. k \in HistoryIds /\ k = <<"call", m>>
    BY <1>6, MessageType
  <2>3. \A i \in DOMAIN s.view : s.view[i].id # k
    <3>1. ASSUME NEW i \in DOMAIN s.view, s.view[i].id = k PROVE FALSE
      BY <1>1, <2>2, <3>1 DEF ReplayOf
    <3> QED BY <3>1
  <2> HIDE DEF k
  <2>4. History!Results(s.view, k, m) = Append(s.view, [id |-> k, of |-> {m}, failed |-> history[m].failed])
    <3>1. k # History!Unnamed
      BY <1>2, <2>2, IdTypes
    <3> QED BY <1>1, <1>2, <2>2, <2>3, <3>1, ResultsMakeOne, MessageType
  <2>5. s.bare <= s.bare /\ s.text <= s.text /\ k[1] = "call" /\ k[2] <= m
    BY <1>1, <1>2, <2>2
  <2>7. r = [view |-> Append(s.view, [id |-> k, of |-> {m}, failed |-> history[m].failed]),
             text |-> s.text, bare |-> s.bare]
    BY <2>1, <2>4
  <2>8. ReplayOf(r, m)
    BY <1>1, <1>4, <1>6, <2>2, <2>5, <2>7
  <2> QED BY <2>8 DEF r
<1>7. CASE History!replay_message(history[m]) /\ history[m].role # "toolResult"
  <2> DEFINE k == History!TextId(s.text + 1)
  <2>1. r = [view |-> History!Show(s.view, k, m, FALSE), text |-> s.text + 1, bare |-> s.bare]
    BY <1>7 DEF History!Replay, r
  <2>2. /\ k \in HistoryIds
        /\ k = History!Unnamed \/ (k[1] = "synthetic" /\ k[2] = s.text + 1)
    <3>1. s.text + 1 \in Nat
      BY <1>1
    <3> QED BY <3>1, IdTypes DEF History!TextId
  <2>3. k = History!Unnamed \/ \A i \in DOMAIN s.view : s.view[i].id # k
    <3>1. ASSUME NEW i \in DOMAIN s.view, s.view[i].id = k, k # History!Unnamed PROVE FALSE
      BY <1>1, <2>2, <3>1 DEF ReplayOf
    <3> QED BY <3>1
  <2> HIDE DEF k
  <2>4. history[m].failed = FALSE
    BY <1>7, MessageType DEF ResultsAreNamed
  <2>5. History!Show(s.view, k, m, FALSE) = Append(s.view, [id |-> k, of |-> {m}, failed |-> history[m].failed])
    BY <1>1, <1>2, <2>2, <2>3, <2>4, ShowNew
  <2>6. /\ s.bare <= s.bare /\ s.text + 1 \in Nat /\ s.text <= s.text + 1
        /\ k[1] = "synthetic" => k[2] <= s.text + 1
        /\ k[1] \notin {"own", "msg", "call", "replay"}
    BY <1>1, <2>2 DEF History!Unnamed
  <2>7. r = [view |-> Append(s.view, [id |-> k, of |-> {m}, failed |-> history[m].failed]),
             text |-> s.text + 1, bare |-> s.bare]
    BY <2>1, <2>5
  <2>8. ReplayOf(r, m)
    BY <1>1, <1>4, <1>7, <2>2, <2>6, <2>7
  <2> QED BY <2>8 DEF r
<1> QED BY <1>3, <1>5, <1>6, <1>7 DEF r

LEMMA ReplayIsWhole ==
    ASSUME HistoryTypes, ResultsAreNamed
    PROVE  History!replay_history \in ReplayRecs /\ ReplayOf(History!replay_history, Len(history))
<1> DEFINE T == {n \in Nat : n <= Len(history) => ReplayOf(History!Replayed[n], n)}
<1>1. Len(history) \in Nat /\ DOMAIN history = 1 .. Len(history)
  BY DEF HistoryTypes
<1>2. 0 \in T
  <2>1. History!Replayed[0].view = <<>>
    BY ReplayedIs
  <2>2. ASSUME NEW m \in DOMAIN history PROVE ~(m <= 0)
    BY <1>1
  <2>3. DOMAIN <<>> = {}
    OBVIOUS
  <2> QED BY <2>1, <2>2, <2>3 DEF ReplayOf, TellsAll, EntriesAreOf
<1>3. ASSUME NEW n \in Nat, n \in T PROVE n + 1 \in T
  <2>1. SUFFICES ASSUME n + 1 <= Len(history) PROVE ReplayOf(History!Replayed[n + 1], n + 1)
    OBVIOUS
  <2>2. /\ n + 1 \in 1 .. Len(history) /\ n + 1 - 1 = n /\ n \in 0 .. Len(history)
        /\ ReplayOf(History!Replayed[n], n)
    BY <1>1, <1>3, <2>1
  <2>3. History!Replayed[n] \in ReplayRecs /\ History!Replayed[n + 1] = History!Replay(History!Replayed[n], n + 1)
    BY <2>2, ReplayedIs
  <2> QED BY <1>1, <2>2, <2>3, ReplayStep
<1>4. Nat \subseteq T
  <2> HIDE DEF T
  <2> QED BY <1>2, <1>3, Induction
<1> QED BY <1>1, <1>4, ReplayedIs DEF History!replay_history

-----------------------------------------------------------------------------
\* The steps.

\* A message that is not shown, or one that is shown in an entry of its own.
LEMMA MessageInv ==
    ASSUME HistoryInv, NEW msg \in HistoryMessages, history' = Append(history, msg),
           msg.id = History!Unnamed \/ msg.id = <<"call", Len(history) + 1>>,
           msg.role # "toolResult" => ~msg.failed,
           protocol' = protocol, seq' \in Nat, synthetic' \in Nat, fresh' \in BOOLEAN,
           fresh' => fresh /\ seq <= seq',
           \/ transcript' = transcript /\ ~History!replay_message(msg)
           \/ /\ History!replay_message(msg)
              /\ \E e \in HistoryEntries :
                    /\ transcript' = Append(transcript, e)
                    /\ e.of = {Len(history) + 1} /\ e.failed = msg.failed
                    /\ e.id[1] \in {"own", "call"} => e.id[2] <= Len(history) + 1
                    /\ e.id[1] = "msg" => (fresh' => e.id[2] <= seq') /\ ~e.failed
    PROVE  HistoryInv'
<1> DEFINE h == Append(history, msg)
           n == Len(history)
<1>1. history \in Seq(HistoryMessages) /\ transcript \in Seq(HistoryEntries) /\ n \in Nat
  BY DEF HistoryInv, HistoryTypes
<1>2. /\ h \in Seq(HistoryMessages) /\ Len(h) = n + 1
      /\ DOMAIN h = 1 .. n + 1 /\ DOMAIN history = 1 .. n
      /\ h[n + 1] = msg /\ \A m \in DOMAIN history : h[m] = history[m]
  BY <1>1, HistoryGrows
<1>3. /\ fresh => TellsAll(h, transcript, n)
      /\ EntriesAreOf(h, transcript)
  BY <1>1, HistoryGrows DEF HistoryInv
<1> HIDE DEF h
<1>4. history' = h
  BY DEF h
<1>5. ResultsAreNamed'
  <2>1. \A m \in DOMAIN h : m \in DOMAIN history \/ m = n + 1
    BY <1>1, <1>2
  <2>2. \A m \in DOMAIN h : /\ h[m].id = <<"none", 0>> \/ h[m].id = <<"call", m>>
                            /\ h[m].role # "toolResult" => ~h[m].failed
    BY <1>2, <2>1 DEF HistoryInv, ResultsAreNamed, History!Unnamed
  <2>3. \A m \in DOMAIN history' : /\ history'[m].id = <<"none", 0>> \/ history'[m].id = <<"call", m>>
                                   /\ history'[m].role # "toolResult" => ~history'[m].failed
    BY <1>4, <2>2
  <2> QED BY ONLY <2>3 DEF ResultsAreNamed
<1>6. CASE transcript' = transcript /\ ~History!replay_message(msg)
  <2>1. HistoryTypes'
    BY <1>1, <1>2, <1>4, <1>6 DEF HistoryInv, HistoryTypes
  <2>2. IdsAreAhead'
    <3>1. ASSUME NEW i \in DOMAIN transcript
          PROVE  /\ transcript[i].id[1] \in {"own", "call"} => transcript[i].id[2] <= n + 1
                 /\ transcript[i].id[1] = "msg" => (fresh' => transcript[i].id[2] <= seq') /\ ~transcript[i].failed
      <4>1. transcript[i].id[2] \in Nat
        BY <1>1, EntryType
      <4>2. seq \in Nat
        BY DEF HistoryInv, HistoryTypes
      <4> QED BY <1>1, <4>1, <4>2 DEF HistoryInv, IdsAreAhead
    <3> QED BY <1>2, <1>4, <1>6, <3>1 DEF IdsAreAhead
  <2>3. fresh' => TellsAll(h, transcript, n + 1)
    BY <1>1, <1>2, <1>3, <1>6, TellsNothing
  <2>4. EntriesAreOf(history', transcript') /\ (fresh' => TellsAll(history', transcript', Len(history')))
    BY <1>2, <1>3, <1>4, <1>6, <2>3
  <2> QED BY ONLY <1>5, <2>1, <2>2, <2>4 DEF HistoryInv, TellsAll, EntriesAreOf
<1>7. CASE /\ History!replay_message(msg)
           /\ \E e \in HistoryEntries :
                    /\ transcript' = Append(transcript, e)
                    /\ e.of = {n + 1} /\ e.failed = msg.failed
                    /\ e.id[1] \in {"own", "call"} => e.id[2] <= n + 1
                    /\ e.id[1] = "msg" => (fresh' => e.id[2] <= seq') /\ ~e.failed
  <2>1. PICK e \in HistoryEntries :
                    /\ transcript' = Append(transcript, e)
                    /\ e.of = {n + 1} /\ e.failed = msg.failed
                    /\ e.id[1] \in {"own", "call"} => e.id[2] <= n + 1
                    /\ e.id[1] = "msg" => (fresh' => e.id[2] <= seq') /\ ~e.failed
    BY <1>7
  <2> DEFINE w == Append(transcript, e)
             k == Len(transcript) + 1
  <2>2. /\ w \in Seq(HistoryEntries) /\ DOMAIN w = 1 .. k
        /\ DOMAIN transcript = 1 .. Len(transcript) /\ Len(transcript) \in Nat
        /\ w[k] = e /\ \A i \in 1 .. Len(transcript) : w[i] = transcript[i]
    BY <1>1, AppendEntry
  <2>3. EntriesAreOf(h, w)
    <3>1. n + 1 \in DOMAIN h /\ EntriesAreOf(h, transcript) /\ h[n + 1] = msg
      BY <1>1, <1>2, <1>3
    <3> QED BY <1>1, <2>1, <3>1, EntriesNext
  <2>4. fresh' => TellsAll(h, w, n + 1)
    <3>1. n + 1 \in DOMAIN h /\ (fresh' => TellsAll(h, transcript, n)) /\ h[n + 1] = msg
      BY <1>1, <1>2, <1>3
    <3> QED BY <1>1, <1>2, <1>7, <2>1, <3>1, TellsNext
  <2> HIDE DEF w
  <2>5. transcript' = w
    BY <2>1 DEF w
  <2>6. HistoryTypes'
    BY <1>1, <1>2, <1>4, <2>2, <2>5 DEF HistoryInv, HistoryTypes
  <2>7. IdsAreAhead'
    <3>1. ASSUME NEW i \in DOMAIN w
          PROVE  /\ w[i].id[1] \in {"own", "call"} => w[i].id[2] <= n + 1
                 /\ w[i].id[1] = "msg" => (fresh' => w[i].id[2] <= seq') /\ ~w[i].failed
      <4>1. CASE i = k
        BY <2>1, <2>2, <4>1
      <4>2. CASE i \in DOMAIN transcript
        <5>1. transcript[i].id[2] \in Nat /\ w[i] = transcript[i]
          BY <1>1, <2>2, <4>2, EntryType
        <5>2. seq \in Nat
          BY DEF HistoryInv, HistoryTypes
        <5> QED BY <1>1, <4>2, <5>1, <5>2 DEF HistoryInv, IdsAreAhead
      <4>3. i = k \/ i \in DOMAIN transcript
        BY <2>2
      <4> QED BY <4>1, <4>2, <4>3
    <3> QED BY <1>2, <1>4, <2>5, <3>1 DEF IdsAreAhead
  <2>8. EntriesAreOf(history', transcript') /\ (fresh' => TellsAll(history', transcript', Len(history')))
    BY <1>2, <1>4, <2>3, <2>4, <2>5
  <2> QED BY ONLY <1>5, <2>6, <2>7, <2>8 DEF HistoryInv, TellsAll, EntriesAreOf
<1> QED BY <1>6, <1>7

LEMMA HistoryInvTypes ==
    ASSUME HistoryInv
    PROVE  /\ history \in Seq(HistoryMessages) /\ transcript \in Seq(HistoryEntries)
           /\ Len(history) \in Nat /\ DOMAIN history = 1 .. Len(history) /\ seq \in Nat /\ synthetic \in Nat
           /\ fresh \in BOOLEAN /\ protocol \in {"v1", "v2"} /\ History!Now = Len(history) + 1
           /\ HistoryTypes /\ ResultsAreNamed
BY DEF HistoryInv, HistoryTypes, History!Now

\* The client's prompt has an id of its own.
LEMMA PromptedInv ==
    ASSUME HistoryInv, NEW text \in BOOLEAN, History!Prompted(text),
           protocol' = protocol, seq' \in Nat, synthetic' \in Nat, fresh' \in BOOLEAN,
           fresh' => fresh /\ seq <= seq'
    PROVE  HistoryInv'
<1> DEFINE n == Len(history) + 1
           msg == History!Message("user", text, History!Unnamed, FALSE)
           k == <<"own", n>>
           e == [id |-> k, of |-> {n}, failed |-> FALSE]
<1>1. n \in Nat /\ History!Now = n /\ transcript \in Seq(HistoryEntries)
  BY HistoryInvTypes
<1>2. /\ msg \in HistoryMessages /\ msg.id = History!Unnamed /\ ~msg.failed /\ msg.failed = FALSE
      /\ History!replay_message(msg) <=> text
  BY IdTypes DEF History!Message, HistoryMessages, History!replay_message
<1>3. k \in HistoryIds /\ k[1] = "own" /\ k[2] = n
  BY <1>1 DEF HistoryIds
<1>4. e \in HistoryEntries /\ e.of = {n} /\ e.failed = FALSE /\ e.id = k
  BY <1>1, <1>3 DEF HistoryEntries
<1>5. history' = Append(history, msg)
      /\ transcript' = IF text THEN History!Show(transcript, k, n, FALSE) ELSE transcript
  BY <1>1 DEF History!Prompted
<1>6. \A i \in DOMAIN transcript : transcript[i].id # k
  <2>1. ASSUME NEW i \in DOMAIN transcript, transcript[i].id = k PROVE FALSE
    BY <1>1, <1>3, <2>1, HistoryInvTypes DEF HistoryInv, IdsAreAhead
  <2> QED BY <2>1
<1>7. History!Show(transcript, k, n, FALSE) = Append(transcript, e)
  BY <1>1, <1>3, <1>6, ShowNew
<1> HIDE DEF n, msg, k, e
<1>8. \/ transcript' = transcript /\ ~History!replay_message(msg)
      \/ /\ History!replay_message(msg)
         /\ \E d \in HistoryEntries :
               /\ transcript' = Append(transcript, d)
               /\ d.of = {n} /\ d.failed = msg.failed
               /\ d.id[1] \in {"own", "call"} => d.id[2] <= n
               /\ d.id[1] = "msg" => (fresh' => d.id[2] <= seq') /\ ~d.failed
  <2>1. CASE text
    <3>1. e.id[1] = "own" /\ e.id[2] <= n
      BY <1>1, <1>3, <1>4
    <3> QED BY <1>2, <1>4, <1>5, <1>7, <2>1, <3>1
  <2>2. CASE ~text
    BY <1>2, <1>5, <2>2
  <2> QED BY <2>1, <2>2
<1> QED BY <1>2, <1>5, <1>8, MessageInv DEF n

\* A reply joins the entry of its id, which is a new one unless a life began without a replay.
LEMMA ReplyInv ==
    ASSUME HistoryInv, History!Reply, protocol' = protocol
    PROVE  HistoryInv'
<1> DEFINE n == Len(history) + 1
           k == <<"msg", seq + 1>>
           e == [id |-> k, of |-> {n}, failed |-> FALSE]
           msg(text) == History!Message("assistant", text, History!Unnamed, FALSE)
<1>1. /\ n \in Nat /\ History!Now = n /\ transcript \in Seq(HistoryEntries) /\ seq + 1 \in Nat
      /\ seq <= seq + 1 /\ DOMAIN history = 1 .. Len(history) /\ fresh \in BOOLEAN
      /\ history \in Seq(HistoryMessages) /\ synthetic \in Nat /\ protocol \in {"v1", "v2"}
      /\ Len(history) \in Nat /\ n = Len(history) + 1
  BY HistoryInvTypes
<1>2. ASSUME NEW text \in BOOLEAN
      PROVE  /\ msg(text) \in HistoryMessages /\ msg(text).id = History!Unnamed /\ msg(text).failed = FALSE
             /\ History!replay_message(msg(text)) <=> text
  BY IdTypes DEF History!Message, HistoryMessages, History!replay_message
<1>3. k \in HistoryIds /\ k[1] = "msg" /\ k[2] = seq + 1 /\ k # History!Unnamed
  BY <1>1 DEF HistoryIds, History!Unnamed
<1>4. e \in HistoryEntries /\ e.of = {n} /\ e.failed = FALSE /\ e.id = k
  BY <1>1, <1>3 DEF HistoryEntries
<1> DEFINE patched == History!message_patch(History!Show(transcript, k, n, FALSE), k, n)
<1>5. PICK text \in BOOLEAN :
        /\ history' = Append(history, msg(text))
        /\ transcript' = IF text THEN patched ELSE transcript
  BY <1>1 DEF History!Reply, History!mint_message_id
<1>6. seq' = seq + 1 /\ synthetic' = synthetic /\ fresh' = fresh
  BY DEF History!Reply, History!mint_message_id
<1> HIDE DEF n, k, e
<1>7. CASE \A i \in DOMAIN transcript : transcript[i].id # k
  <2>1. History!Show(transcript, k, n, FALSE) = Append(transcript, e)
    BY <1>1, <1>3, <1>7, ShowNew DEF e
  <2>2. patched = Append(transcript, e)
    <3> DEFINE w == Append(transcript, e)
    <3>1. /\ DOMAIN w = 1 .. Len(transcript) + 1 /\ DOMAIN transcript = 1 .. Len(transcript)
          /\ w[Len(transcript) + 1] = e /\ \A i \in 1 .. Len(transcript) : w[i] = transcript[i]
          /\ Len(transcript) \in Nat /\ w \in Seq(HistoryEntries)
      BY <1>1, <1>4, AppendEntry
    <3> HIDE DEF w
    <3>2. ASSUME NEW i \in DOMAIN w
          PROVE  w[i] = IF w[i].id = k THEN [id |-> k, of |-> {n}, failed |-> w[i].failed] ELSE w[i]
      <4>1. CASE i = Len(transcript) + 1
        BY <1>4, <3>1, <4>1 DEF e
      <4>2. CASE i \in DOMAIN transcript
        BY <1>7, <3>1, <4>2
      <4> QED BY <3>1, <4>1, <4>2
    <3>3. w = [i \in DOMAIN w |-> w[i]]
      BY <3>1
    <3>4. w = [i \in DOMAIN w |-> IF w[i].id = k THEN [id |-> k, of |-> {n}, failed |-> w[i].failed] ELSE w[i]]
      BY <3>2, <3>3
    <3> QED BY <2>1, <3>4 DEF History!message_patch, w
  <2> HIDE DEF patched, msg
  <2>3. \/ transcript' = transcript /\ ~History!replay_message(msg(text))
        \/ /\ History!replay_message(msg(text))
           /\ \E d \in HistoryEntries :
                 /\ transcript' = Append(transcript, d)
                 /\ d.of = {n} /\ d.failed = msg(text).failed
                 /\ d.id[1] \in {"own", "call"} => d.id[2] <= n
                 /\ d.id[1] = "msg" => (fresh' => d.id[2] <= seq') /\ ~d.failed
    <3>1. CASE text
      <4>1. e.id[1] = "msg" /\ e.id[2] <= seq' /\ ~e.failed
        BY <1>1, <1>3, <1>4, <1>6
      <4> QED BY <1>2, <1>4, <1>5, <2>2, <3>1, <4>1
    <3>2. CASE ~text
      BY <1>2, <1>5, <3>2
    <3> QED BY <3>1, <3>2
  <2> QED BY <1>1, <1>2, <1>5, <1>6, <2>3, MessageInv DEF n
<1>8. CASE ~text
  <2> HIDE DEF patched, msg
  <2>1. transcript' = transcript /\ ~History!replay_message(msg(text))
    BY <1>2, <1>5, <1>8
  <2> QED BY <1>1, <1>2, <1>5, <1>6, <2>1, MessageInv DEF n
<1>9. CASE text /\ \E i \in DOMAIN transcript : transcript[i].id = k
  <2>1. ~fresh
    <3>1. PICK i \in DOMAIN transcript : transcript[i].id = k
      BY <1>9
    <3>2. ~(seq + 1 <= seq)
      BY HistoryInvTypes
    <3> QED BY <1>3, <3>1, <3>2 DEF HistoryInv, IdsAreAhead
  <2> DEFINE h == Append(history, msg(text))
             w == [i \in DOMAIN transcript |->
                     IF transcript[i].id = k THEN [id |-> k, of |-> transcript[i].of \cup {n}, failed |-> FALSE]
                                             ELSE transcript[i]]
  <2>2. History!Show(transcript, k, n, FALSE) = w
    BY <1>3, <1>9 DEF History!Show
  <2>3. /\ h \in Seq(HistoryMessages) /\ Len(h) = n
        /\ DOMAIN h = 1 .. n /\ h[n] = msg(text) /\ \A m \in DOMAIN history : h[m] = history[m]
        /\ EntriesAreOf(h, transcript)
    <3> HIDE DEF msg
    <3> QED BY <1>1, <1>2, HistoryGrows DEF HistoryInv
  <2>4. h[n].failed = FALSE
    BY <1>2, <2>3
  <2> HIDE DEF h, msg, w
  <2>5. history' = h /\ transcript' = patched
    BY <1>5, <1>9 DEF h
  <2>6. /\ DOMAIN patched = DOMAIN transcript
        /\ \A i \in DOMAIN transcript :
              IF transcript[i].id = k
              THEN \E S \in {{n}, transcript[i].of \cup {n}} : patched[i] = [id |-> k, of |-> S, failed |-> FALSE]
              ELSE patched[i] = transcript[i]
    <3>1. /\ DOMAIN w = DOMAIN transcript
          /\ \A i \in DOMAIN transcript :
                w[i] = IF transcript[i].id = k THEN [id |-> k, of |-> transcript[i].of \cup {n}, failed |-> FALSE]
                                               ELSE transcript[i]
      BY DEF w
    <3>2. CASE protocol = "v1"
      <4>1. patched = w
        BY <2>2, <3>2 DEF History!message_patch
      <4> QED BY <3>1, <4>1
    <3>3. CASE protocol # "v1"
      <4>1. patched = [i \in DOMAIN w |-> IF w[i].id = k THEN [id |-> k, of |-> {n}, failed |-> w[i].failed] ELSE w[i]]
        BY <2>2, <3>3 DEF History!message_patch
      <4> HIDE DEF patched
      <4>2. ASSUME NEW i \in DOMAIN transcript, transcript[i].id = k
            PROVE  patched[i] = [id |-> k, of |-> {n}, failed |-> FALSE]
        <5>1. w[i] = [id |-> k, of |-> transcript[i].of \cup {n}, failed |-> FALSE]
          BY <3>1, <4>2
        <5>2. w[i].id = k /\ w[i].failed = FALSE /\ i \in DOMAIN w
          BY <3>1, <5>1
        <5> QED BY <4>1, <5>2
      <4>3. ASSUME NEW i \in DOMAIN transcript, transcript[i].id # k
            PROVE  patched[i] = transcript[i]
        BY <3>1, <4>1, <4>3
      <4>4. DOMAIN patched = DOMAIN transcript
        BY <3>1, <4>1
      <4> QED BY <4>2, <4>3, <4>4
    <3> QED BY <3>2, <3>3
  <2> HIDE DEF patched
  <2>7. ASSUME NEW i \in DOMAIN transcript
        PROVE  /\ patched[i] \in HistoryEntries
               /\ patched[i].of \subseteq DOMAIN h
               /\ patched[i].failed = (\E m \in patched[i].of : h[m].failed)
               /\ patched[i].id[1] \in {"own", "call"} => patched[i].id[2] <= n
               /\ patched[i].id[1] = "msg" => ~patched[i].failed
    <3>1. /\ transcript[i] \in HistoryEntries /\ transcript[i].id[2] \in Nat /\ transcript[i].of \in SUBSET Nat
          /\ transcript[i].failed \in BOOLEAN
      BY <1>1, EntryType
    <3>2. /\ transcript[i].of \subseteq DOMAIN h
          /\ transcript[i].failed = (\E m \in transcript[i].of : h[m].failed)
      BY <2>3 DEF EntriesAreOf
    <3>3. CASE transcript[i].id = k
      <4>1. PICK S \in {{n}, transcript[i].of \cup {n}} : patched[i] = [id |-> k, of |-> S, failed |-> FALSE]
        BY <2>6, <3>3
      <4>2. S \subseteq DOMAIN h /\ S \in SUBSET Nat
        BY <1>1, <2>3, <3>1, <3>2
      <4>3. ~transcript[i].failed
        BY <1>3, <3>3 DEF HistoryInv, IdsAreAhead
      <4>4. \A m \in S : ~h[m].failed
        BY <2>4, <3>2, <4>3
      <4>5. patched[i] \in HistoryEntries
        BY <1>3, <4>1, <4>2 DEF HistoryEntries
      <4> QED BY <1>3, <4>1, <4>2, <4>4, <4>5
    <3>4. CASE transcript[i].id # k
      <4>1. patched[i] = transcript[i]
        BY <2>6, <3>4
      <4>2. transcript[i].id[1] \in {"own", "call"} => transcript[i].id[2] <= n
        BY <1>1, <3>1 DEF HistoryInv, IdsAreAhead
      <4>3. transcript[i].id[1] = "msg" => ~transcript[i].failed
        BY DEF HistoryInv, IdsAreAhead
      <4> QED BY <3>1, <3>2, <4>1, <4>2, <4>3
    <3> QED BY <3>3, <3>4
  <2>8. patched \in Seq(HistoryEntries)
    <3>1. DOMAIN transcript = 1 .. Len(transcript) /\ Len(transcript) \in Nat
      BY <1>1
    <3>2. patched = [i \in DOMAIN patched |-> patched[i]]
      <4>1. CASE protocol = "v1"
        BY <2>2, <4>1 DEF patched, History!message_patch, w
      <4>2. CASE protocol # "v1"
        BY <2>2, <4>2 DEF patched, History!message_patch
      <4> QED BY <4>1, <4>2
    <3>3. patched \in [1 .. Len(transcript) -> HistoryEntries]
      BY <2>6, <2>7, <3>1, <3>2
    <3> QED BY <3>1, <3>3, SeqDef
  <2>9. HistoryTypes'
    BY <1>1, <1>6, <2>3, <2>5, <2>8 DEF HistoryTypes
  <2>10. ResultsAreNamed'
    <3>1. \A m \in DOMAIN h : m \in DOMAIN history \/ m = n
      BY <1>1, <2>3
    <3>2. \A m \in DOMAIN h : /\ h[m].id = <<"none", 0>> \/ h[m].id = <<"call", m>>
                              /\ h[m].role # "toolResult" => ~h[m].failed
      BY <1>2, <2>3, <3>1 DEF HistoryInv, ResultsAreNamed, History!Unnamed
    <3> QED BY <2>5, <3>2 DEF ResultsAreNamed
  <2>11. IdsAreAhead'
    BY <1>6, <2>1, <2>3, <2>5, <2>6, <2>7 DEF IdsAreAhead
  <2>12. EntriesAreOf(history', transcript')
    BY <2>5, <2>6, <2>7 DEF EntriesAreOf
  <2> QED BY <1>6, <2>1, <2>9, <2>10, <2>11, <2>12 DEF HistoryInv, EntriesAreOf
<1> QED BY <1>7, <1>8, <1>9

LEMMA ToolRunInv ==
    ASSUME HistoryInv, History!Tool, protocol' = protocol
    PROVE  HistoryInv'
<1> DEFINE n == Len(history) + 1
           k == <<"call", n>>
           msg(id, failed) == History!Message("toolResult", TRUE, id, failed)
           e(failed) == [id |-> k, of |-> {n}, failed |-> failed]
<1>1. /\ n \in Nat /\ History!Now = n /\ transcript \in Seq(HistoryEntries) /\ Len(history) \in Nat
      /\ seq \in Nat /\ synthetic \in Nat /\ fresh \in BOOLEAN
  BY HistoryInvTypes
<1>2. k \in HistoryIds /\ k[1] = "call" /\ k[2] = n /\ k # History!Unnamed
  BY <1>1 DEF HistoryIds, History!Unnamed
<1>3. PICK id \in {k, History!Unnamed}, failed \in BOOLEAN :
        /\ history' = Append(history, msg(id, failed))
        /\ transcript' = History!Show(transcript, k, n, failed)
  BY <1>1 DEF History!Tool
<1>4. seq' = seq /\ synthetic' = synthetic /\ fresh' = fresh
  BY DEF History!Tool
<1> HIDE DEF n
<1>5. \A i \in DOMAIN transcript : transcript[i].id # k
  <2>1. ASSUME NEW i \in DOMAIN transcript, transcript[i].id = k PROVE FALSE
    BY <1>1, <1>2, <2>1 DEF HistoryInv, IdsAreAhead, n
  <2> QED BY <2>1
<1>6. /\ e(failed) \in HistoryEntries /\ e(failed).of = {n} /\ e(failed).failed = failed
      /\ e(failed).id = k
  BY <1>1, <1>2 DEF HistoryEntries
<1>7. History!Show(transcript, k, n, failed) = Append(transcript, e(failed))
  BY <1>1, <1>2, <1>5, ShowNew
<1>8. /\ msg(id, failed) \in HistoryMessages /\ msg(id, failed).id = id /\ msg(id, failed).failed = failed
      /\ msg(id, failed).role = "toolResult" /\ History!replay_message(msg(id, failed))
  <2>1. id \in HistoryIds
    BY <1>2, IdTypes
  <2> QED BY <2>1 DEF History!Message, HistoryMessages, History!replay_message
<1> HIDE DEF msg, e
<1>9. /\ e(failed).id[1] \in {"own", "call"} => e(failed).id[2] <= n
      /\ e(failed).id[1] # "msg"
  BY <1>1, <1>2, <1>6
<1>10. \E d \in HistoryEntries :
          /\ transcript' = Append(transcript, d)
          /\ d.of = {n} /\ d.failed = msg(id, failed).failed
          /\ d.id[1] \in {"own", "call"} => d.id[2] <= n
          /\ d.id[1] = "msg" => (fresh' => d.id[2] <= seq') /\ ~d.failed
  BY <1>3, <1>6, <1>7, <1>8, <1>9
<1>11. msg(id, failed).id = History!Unnamed \/ msg(id, failed).id = <<"call", n>>
  BY <1>8
<1>12. seq <= seq
  BY <1>1
<1> QED BY <1>1, <1>3, <1>4, <1>8, <1>10, <1>11, <1>12, MessageInv DEF n

LEMMA LoadInv ==
    ASSUME HistoryInv, History!Load, protocol' = protocol
    PROVE  HistoryInv'
<1> DEFINE r == History!replay_history
<1>1. r \in ReplayRecs /\ ReplayOf(r, Len(history))
  BY HistoryInvTypes, ReplayIsWhole
<1> HIDE DEF r
<1>2. r.view \in Seq(HistoryEntries) /\ r.text \in Nat /\ r.bare \in Nat
  BY <1>1 DEF ReplayRecs
<1>3. /\ history' = history /\ transcript' = r.view /\ synthetic' = r.text /\ seq' = 0 /\ fresh' = TRUE
  BY DEF History!Load, r
<1>4. HistoryTypes'
  BY <1>2, <1>3 DEF HistoryInv, HistoryTypes
<1>5. ResultsAreNamed'
  BY <1>3 DEF HistoryInv, ResultsAreNamed
<1>6. IdsAreAhead'
  <2>1. \A i \in DOMAIN r.view : /\ r.view[i].id[1] \notin {"own", "msg"}
                                 /\ r.view[i].id[1] = "call" => r.view[i].id[2] <= Len(history)
    BY <1>1 DEF ReplayOf
  <2> QED BY <1>3, <2>1 DEF IdsAreAhead
<1>7. EntriesAreOf(history', transcript') /\ TellsAll(history', transcript', Len(history'))
  BY <1>1, <1>3 DEF ReplayOf
<1> QED BY <1>4, <1>5, <1>6, <1>7 DEF HistoryInv, TellsAll, EntriesAreOf

\* Nothing is told or written.
LEMMA SilentInv ==
    ASSUME HistoryInv, history' = history, transcript' = transcript, protocol' = protocol,
           seq' \in Nat, synthetic' = synthetic, fresh' \in BOOLEAN, fresh' => fresh /\ seq' = seq
    PROVE  HistoryInv'
<1>1. HistoryTypes' /\ ResultsAreNamed' /\ IdsAreAhead'
  BY DEF HistoryInv, HistoryTypes, ResultsAreNamed, IdsAreAhead
<1>2. EntriesAreOf(history', transcript') /\ (fresh' => TellsAll(history', transcript', Len(history')))
  BY DEF HistoryInv
<1> QED BY <1>1, <1>2 DEF HistoryInv, TellsAll, EntriesAreOf

\* A client's transcript is the session's history over all lives that began with a replay, and a
\* tool that failed is shown as failed and no other is, live and replayed: however many messages,
\* lives and loads there are, and however lives begin.
THEOREM TranscriptsHold == SessionSpec => []TranscriptIsHistory
<1>1. SessionInit => HistoryInv
  <2>1. SUFFICES ASSUME SessionInit PROVE HistoryInv
    OBVIOUS
  <2>2. /\ history = <<>> /\ transcript = <<>> /\ seq = 0 /\ synthetic = 0 /\ fresh = TRUE
        /\ protocol \in {"v1", "v2"}
    BY <2>1, SessionAssumption DEF SessionInit, History!Init, History!ReplayAssumption
  <2>3. HistoryTypes /\ ResultsAreNamed /\ IdsAreAhead /\ EntriesAreOf(history, transcript)
    BY <2>2 DEF HistoryTypes, ResultsAreNamed, IdsAreAhead, EntriesAreOf
  <2>4. TellsAll(history, transcript, Len(history))
    BY <2>2 DEF TellsAll
  <2> QED BY <2>3, <2>4 DEF HistoryInv
<1>2. HistoryInv /\ [SessionNext]_sessionVars => HistoryInv'
  <2>1. SUFFICES ASSUME HistoryInv, [History!Next]_(History!vars) PROVE HistoryInv'
    BY DEF SessionNext, sessionVars, replayVars, History!vars
  <2>2. /\ seq \in Nat /\ synthetic \in Nat /\ fresh \in BOOLEAN /\ seq <= seq + 1 /\ seq + 1 \in Nat
    <3>1. seq \in Nat /\ synthetic \in Nat /\ fresh \in BOOLEAN
      BY <2>1, HistoryInvTypes
    <3> QED BY <3>1
  <2>3. CASE History!Prompt /\ UNCHANGED protocol
    BY <2>1, <2>2, <2>3, PromptedInv DEF History!Prompt, History!mint_message_id
  <2>4. CASE History!Reply /\ UNCHANGED protocol
    BY <2>1, <2>4, ReplyInv
  <2>5. CASE History!Tool /\ UNCHANGED protocol
    BY <2>1, <2>5, ToolRunInv
  <2>6. CASE History!Leave /\ UNCHANGED protocol
    BY <2>1, <2>2, <2>6, SilentInv DEF History!Leave
  <2>10. CASE History!Resume /\ UNCHANGED protocol
    <3>1. seq' = 0 /\ fresh' = FALSE /\ UNCHANGED <<history, synthetic, transcript>>
      BY <2>10 DEF History!Resume, History!Restored
    <3> QED BY <2>1, <2>2, <2>10, <3>1, SilentInv
  <2>7. CASE History!PromptRestores /\ UNCHANGED protocol
    BY <2>1, <2>2, <2>7, PromptedInv DEF History!PromptRestores
  <2>8. CASE History!Load /\ UNCHANGED protocol
    BY <2>1, <2>8, LoadInv
  <2>9. CASE UNCHANGED History!vars
    BY <2>1, <2>2, <2>9, SilentInv DEF History!vars
  <2> QED BY <2>1, <2>3, <2>4, <2>5, <2>6, <2>7, <2>8, <2>9, <2>10 DEF History!Next
<1>3. HistoryInv => TranscriptIsHistory
  <2>1. SUFFICES ASSUME HistoryInv PROVE TranscriptIsHistory
    OBVIOUS
  <2>2. \A m \in DOMAIN history : m <= Len(history)
    BY <2>1, HistoryInvTypes
  <2>3. fresh => History!Transcript
    BY <2>1, <2>2 DEF HistoryInv, TellsAll, History!Transcript, History!Sayable
  <2> QED BY <2>1, <2>3 DEF HistoryInv, EntriesAreOf, TranscriptIsHistory, History!TranscriptIsHistory
<1> QED BY <1>1, <1>2, <1>3, PTL DEF SessionSpec

-----------------------------------------------------------------------------
\* Texts: every character of lines, arguments and templates.
TextChars == Glyphs \cup Letters \cup Lines!Others

\* The parser of arguments, the filler of `$@` and that of `$N` are machines that read a text.
Parsers == [args : Seq(Seq(TextChars)), current : Seq(TextChars), in_quote : {"none"} \cup Lines!Quotes]
Feeding == [p \in Parsers \X TextChars |-> Lines!Feed(p[1], p[2])]
Parsed(text) == After(text, Lines!Fresh, Feeding, Parsers)

Fillers == [done : Seq(TextChars), held : BOOLEAN]
NothingHeld == [done |-> <<>>, held |-> FALSE]
Replacing(args) == [p \in Fillers \X TextChars |-> Lines!Replace(p[1], p[2], args)]
Replacement(text, args) == After(text, NothingHeld, Replacing(args), Fillers)

Tallies == [done : Seq(TextChars), after : {"text", "dollar", "digits"}, number : Nat]
NothingTallied == [done |-> <<>>, after |-> "text", number |-> 0]
Tallying(args) == [p \in Tallies \X TextChars |-> Lines!Substitute(p[1], p[2], args)]
Tallied(text, args) == After(text, NothingTallied, Tallying(args), Tallies)

\* Texts are joined one after the other.
LEMMA JoinGrows ==
    ASSUME NEW C, NEW seqs \in Seq(Seq(C)), NEW s \in Seq(C)
    PROVE  /\ Lines!FlattenSeq(seqs) \in Seq(C)
           /\ Lines!FlattenSeq(Append(seqs, s)) = Lines!FlattenSeq(seqs) \o s
           /\ Lines!FlattenSeq(<<>>) = <<>>
<1>1. \A u : Lines!FlattenSeq(u) = Seqs!FlattenSeq(u)
  BY Zenon DEF Lines!FlattenSeq, Seqs!FlattenSeq
<1> QED BY <1>1, FlatGrows, FlatNone

\* The arguments with a blank between any two.
LEMMA JoinedType ==
    ASSUME NEW C, "blank" \in C, NEW args \in Seq(Seq(C))
    PROVE  Lines!Joined(args) \in Seq(C)
<1> DEFINE seqs == [i \in DOMAIN args |-> IF i = 1 THEN args[i] ELSE <<"blank">> \o args[i]]
<1>1. seqs \in Seq(Seq(C))
  <2>1. Len(args) \in Nat /\ DOMAIN args = 1 .. Len(args)
    OBVIOUS
  <2>2. ASSUME NEW i \in 1 .. Len(args)
        PROVE  (IF i = 1 THEN args[i] ELSE <<"blank">> \o args[i]) \in Seq(C)
    OBVIOUS
  <2> QED BY <2>1, <2>2
<1>2. Lines!FlattenSeq(seqs) \in Seq(C)
  <2>1. <<>> \in Seq(C)
    OBVIOUS
  <2> HIDE DEF seqs
  <2> QED BY <1>1, <2>1, JoinGrows
<1> QED BY <1>2 DEF Lines!Joined

\* What is assumed of the characters.
LEMMA TextParts ==
    ASSUME Lines!TextAssumption
    PROVE  /\ Letters \cap {"all", "10", "blank", "dollar", "at", "single", "double", "0", "1", "2"} = {}
           /\ Glyphs \cap {"blank", "none", "single", "double"} = {}
           /\ Lines!Quotes = {"single", "double"} /\ Lines!Digits = {"0", "1", "2"}
           /\ {"blank", "dollar", "at", "single", "double", "0", "1", "2"} \subseteq TextChars
           /\ Glyphs \subseteq TextChars /\ Letters \subseteq TextChars
  BY DEF Lines!TextAssumption, TextChars, Lines!Others, Lines!Quotes, Lines!Digits

\* The argument parser.
LEMMA FeedType ==
    ASSUME NEW s \in Parsers, NEW ch \in TextChars
    PROVE  Lines!Feed(s, ch) \in Parsers
<1>1. /\ s.args \in Seq(Seq(TextChars)) /\ s.current \in Seq(TextChars)
      /\ s.in_quote \in {"none"} \cup Lines!Quotes
  BY DEF Parsers
<1>2. Append(s.args, s.current) \in Seq(Seq(TextChars)) /\ Append(s.current, ch) \in Seq(TextChars)
  BY <1>1
<1>3. <<>> \in Seq(TextChars)
  OBVIOUS
<1>4. Lines!Flush(s) \in Parsers /\ Lines!Push(s, ch) \in Parsers
  BY <1>1, <1>2, <1>3 DEF Parsers, Lines!Flush, Lines!Push
<1>5. \A quote \in {"none"} \cup Lines!Quotes : Lines!Quote(s, quote) \in Parsers
  BY <1>1 DEF Parsers, Lines!Quote
<1>6. CASE s.in_quote # "none"
  BY <1>4, <1>5, <1>6 DEF Lines!Feed
<1>7. CASE s.in_quote = "none"
  BY <1>4, <1>5, <1>7 DEF Lines!Feed
<1> QED BY <1>6, <1>7

LEMMA FeedingType ==
    /\ IsMachine(TextChars, Parsers, Lines!Fresh, Feeding)
    /\ \A s \in Parsers, ch \in TextChars : Stepped(Feeding, s, ch) = Lines!Feed(s, ch)
<1>1. Lines!Fresh \in Parsers
  <2>1. <<>> \in Seq(Seq(TextChars)) /\ <<>> \in Seq(TextChars)
    OBVIOUS
  <2> QED BY <2>1 DEF Lines!Fresh, Parsers
<1>2. ASSUME NEW s \in Parsers, NEW ch \in TextChars PROVE Stepped(Feeding, s, ch) = Lines!Feed(s, ch)
  BY DEF Feeding, Stepped
<1>3. Feeding = [p \in Parsers \X TextChars |-> Feeding[p]]
  BY DEF Feeding
<1>4. \A s \in Parsers, ch \in TextChars : Stepped(Feeding, s, ch) \in Parsers
  BY <1>2, FeedType
<1> QED BY <1>1, <1>2, <1>3, <1>4, MachineIs

LEMMA ParsedIs ==
    ASSUME NEW text \in Seq(TextChars)
    PROVE  Lines!parse_command_args(text) = Lines!Flush(Parsed(text)).args
<1> DEFINE N == Len(text)
           z == Lines!Fresh
           Goes(g, n) == Lines!Feed(g[n - 1], text[n])
           Computes(g) == g = [n \in 0 .. N |-> IF n = 0 THEN z ELSE Goes(g, n)]
           loop == CHOOSE g : Computes(g)
           step == Feeding
<1>1. N \in Nat /\ \A n \in 1 .. N : text[n] \in TextChars
  OBVIOUS
<1>2. IsMachine(TextChars, Parsers, z, step)
  BY FeedingType
<1>3. ASSUME NEW g, NEW n \in 1 .. N, g[n - 1] \in Parsers PROVE Goes(g, n) = Stepped(step, g[n - 1], text[n])
  BY <1>1, <1>3, FeedingType
<1> HIDE DEF z, step, Goes
<1>4. PICK f : ReadsBy(f, text, z, step, Parsers)
  BY <1>2, MachineRuns
<1>5. f \in [0 .. N -> Parsers] /\ f[0] = z /\ \A n \in 1 .. N : f[n] = Goes(f, n)
  <2>1. f \in [0 .. N -> Parsers] /\ \A n \in 1 .. N : n - 1 \in 0 .. N
    BY <1>1, <1>4 DEF ReadsBy
  <2> QED BY <1>3, <1>4, <2>1 DEF ReadsBy
<1>6. Computes(f)
  BY <1>1, <1>5
<1>7. Computes(loop)
  <2> HIDE DEF Computes
  <2> QED BY <1>6
<1> HIDE DEF loop
<1>8. 0 \in 0 .. N /\ \A n \in 1 .. N : n \in 0 .. N /\ n # 0
  BY <1>1
<1>9. loop[0] = z /\ \A n \in 1 .. N : loop[n] = Goes(loop, n)
  <2>1. loop = [n \in 0 .. N |-> IF n = 0 THEN z ELSE Goes(loop, n)]
    BY <1>7
  <2> HIDE DEF N, Computes
  <2> QED BY <1>8, <2>1, Zenon
<1>10. loop[N] = After(text, z, step, Parsers)
  BY <1>2, <1>3, <1>9, LoopEnds
<1>11. Lines!parse_command_args(text) = Lines!Flush(loop[N]).args
  BY DEF Lines!parse_command_args, Goes, z, loop
<1> QED BY <1>10, <1>11 DEF z, step, Parsed

\* The filler of `$@`.
LEMMA ReplaceType ==
    ASSUME Lines!TextAssumption, NEW args \in Seq(Seq(TextChars)), NEW s \in Fillers, NEW ch \in TextChars
    PROVE  Lines!Replace(s, ch, args) \in Fillers /\ Lines!Released(s) \in Seq(TextChars)
<1>1. s.done \in Seq(TextChars) /\ s.held \in BOOLEAN
  BY DEF Fillers
<1>2. Lines!Joined(args) \in Seq(TextChars)
  BY JoinedType, TextParts
<1>3. Lines!Released(s) \in Seq(TextChars)
  <2>1. "dollar" \in TextChars
    BY TextParts
  <2>2. Append(s.done, "dollar") \in Seq(TextChars)
    BY <1>1, <2>1
  <2> QED BY <1>1, <2>2 DEF Lines!Released
<1>4. s.done \o Lines!Joined(args) \in Seq(TextChars) /\ Append(Lines!Released(s), ch) \in Seq(TextChars)
  BY <1>1, <1>2, <1>3
<1>5. Lines!Replace(s, ch, args) \in Fillers
  BY <1>3, <1>4 DEF Fillers, Lines!Replace
<1> QED BY <1>3, <1>5

LEMMA ReplacingType ==
    ASSUME Lines!TextAssumption, NEW args \in Seq(Seq(TextChars))
    PROVE  /\ IsMachine(TextChars, Fillers, NothingHeld, Replacing(args))
           /\ \A s \in Fillers, ch \in TextChars : Stepped(Replacing(args), s, ch) = Lines!Replace(s, ch, args)
<1>1. NothingHeld \in Fillers
  <2>1. <<>> \in Seq(TextChars)
    OBVIOUS
  <2> QED BY <2>1 DEF NothingHeld, Fillers
<1>2. ASSUME NEW s \in Fillers, NEW ch \in TextChars PROVE Stepped(Replacing(args), s, ch) = Lines!Replace(s, ch, args)
  BY DEF Replacing, Stepped
<1>3. Replacing(args) = [p \in Fillers \X TextChars |-> Replacing(args)[p]]
  BY DEF Replacing
<1>4. \A s \in Fillers, ch \in TextChars : Stepped(Replacing(args), s, ch) \in Fillers
  BY <1>2, ReplaceType
<1> QED BY <1>1, <1>2, <1>3, <1>4, MachineIs

LEMMA AllArgumentsIs ==
    ASSUME Lines!TextAssumption, NEW args \in Seq(Seq(TextChars)), NEW text \in Seq(TextChars)
    PROVE  Lines!AllArguments(text, args) = Lines!Released(Replacement(text, args))
<1> DEFINE N == Len(text)
           z == [done |-> <<>>, held |-> FALSE]
           Goes(g, n) == Lines!Replace(g[n - 1], text[n], args)
           Computes(g) == g = [n \in 0 .. N |-> IF n = 0 THEN z ELSE Goes(g, n)]
           loop == CHOOSE g : Computes(g)
           step == Replacing(args)
<1>1. N \in Nat /\ \A n \in 1 .. N : text[n] \in TextChars
  OBVIOUS
<1>2. IsMachine(TextChars, Fillers, z, step)
  BY ReplacingType DEF NothingHeld
<1>3. ASSUME NEW g, NEW n \in 1 .. N, g[n - 1] \in Fillers PROVE Goes(g, n) = Stepped(step, g[n - 1], text[n])
  BY <1>1, <1>3, ReplacingType
<1> HIDE DEF z, step, Goes
<1>4. PICK f : ReadsBy(f, text, z, step, Fillers)
  BY <1>2, MachineRuns
<1>5. f \in [0 .. N -> Fillers] /\ f[0] = z /\ \A n \in 1 .. N : f[n] = Goes(f, n)
  <2>1. f \in [0 .. N -> Fillers] /\ \A n \in 1 .. N : n - 1 \in 0 .. N
    BY <1>1, <1>4 DEF ReadsBy
  <2> QED BY <1>3, <1>4, <2>1 DEF ReadsBy
<1>6. Computes(f)
  BY <1>1, <1>5
<1>7. Computes(loop)
  <2> HIDE DEF Computes
  <2> QED BY <1>6
<1> HIDE DEF loop
<1>8. 0 \in 0 .. N /\ \A n \in 1 .. N : n \in 0 .. N /\ n # 0
  BY <1>1
<1>9. loop[0] = z /\ \A n \in 1 .. N : loop[n] = Goes(loop, n)
  <2>1. loop = [n \in 0 .. N |-> IF n = 0 THEN z ELSE Goes(loop, n)]
    BY <1>7
  <2> HIDE DEF N, Computes
  <2> QED BY <1>8, <2>1, Zenon
<1>10. loop[N] = After(text, z, step, Fillers)
  BY <1>2, <1>3, <1>9, LoopEnds
<1>11. Lines!AllArguments(text, args) = Lines!Released(loop[N])
  BY DEF Lines!AllArguments, Goes, z, loop
<1> QED BY <1>10, <1>11 DEF NothingHeld, z, step, Replacement

\* The filler of `$N`.
LEMMA SettledType ==
    ASSUME NEW args \in Seq(Seq(TextChars)), NEW number \in Nat
    PROVE  Lines!Positional(args, number) \in Seq(TextChars)
<1>1. \A i \in DOMAIN args : args[i] \in Seq(TextChars)
  OBVIOUS
<1>2. <<>> \in Seq(TextChars)
  OBVIOUS
<1> QED BY <1>1, <1>2 DEF Lines!Positional

LEMMA SubstituteType ==
    ASSUME Lines!TextAssumption, NEW args \in Seq(Seq(TextChars)), NEW s \in Tallies, NEW ch \in TextChars
    PROVE  Lines!Substitute(s, ch, args) \in Tallies /\ Lines!Settled(s, args) \in Seq(TextChars)
<1>1. s.done \in Seq(TextChars) /\ s.after \in {"text", "dollar", "digits"} /\ s.number \in Nat
  BY DEF Tallies
<1>2. Lines!Settled(s, args) \in Seq(TextChars)
  <2>1. "dollar" \in TextChars
    BY TextParts
  <2>2. Append(s.done, "dollar") \in Seq(TextChars)
    BY <1>1, <2>1
  <2>3. Lines!Positional(args, s.number) \in Seq(TextChars)
    BY <1>1, SettledType
  <2>4. s.done \o Lines!Positional(args, s.number) \in Seq(TextChars)
    BY <1>1, <2>3
  <2> QED BY <1>1, <2>2, <2>4 DEF Lines!Settled
<1>3. Append(Lines!Settled(s, args), ch) \in Seq(TextChars)
  BY <1>2
<1>4. \A c \in Lines!Digits : Lines!Value[c] \in Nat
  BY DEF Lines!Digits, Lines!Value
<1>5. \A c \in Lines!Digits : s.number * 10 + Lines!Value[c] \in Nat
  BY <1>1, <1>4
<1>6. Lines!Substitute(s, ch, args) \in Tallies
  BY <1>1, <1>2, <1>3, <1>5 DEF Tallies, Lines!Substitute
<1> QED BY <1>2, <1>6

LEMMA TallyingType ==
    ASSUME Lines!TextAssumption, NEW args \in Seq(Seq(TextChars))
    PROVE  /\ IsMachine(TextChars, Tallies, NothingTallied, Tallying(args))
           /\ \A s \in Tallies, ch \in TextChars : Stepped(Tallying(args), s, ch) = Lines!Substitute(s, ch, args)
<1>1. NothingTallied \in Tallies
  <2>1. <<>> \in Seq(TextChars)
    OBVIOUS
  <2> QED BY <2>1 DEF NothingTallied, Tallies
<1>2. ASSUME NEW s \in Tallies, NEW ch \in TextChars PROVE Stepped(Tallying(args), s, ch) = Lines!Substitute(s, ch, args)
  BY DEF Tallying, Stepped
<1>3. Tallying(args) = [p \in Tallies \X TextChars |-> Tallying(args)[p]]
  BY DEF Tallying
<1>4. \A s \in Tallies, ch \in TextChars : Stepped(Tallying(args), s, ch) \in Tallies
  BY <1>2, SubstituteType
<1> QED BY <1>1, <1>2, <1>3, <1>4, MachineIs

LEMMA SubstitutedIs ==
    ASSUME Lines!TextAssumption, NEW args \in Seq(Seq(TextChars)), NEW text \in Seq(TextChars)
    PROVE  \A content : text = Lines!AllArguments(content, args) =>
                 Lines!substitute_args(content, args) = Lines!Settled(Tallied(text, args), args)
<1> DEFINE N == Len(text)
           z == [done |-> <<>>, after |-> "text", number |-> 0]
           Goes(g, n) == Lines!Substitute(g[n - 1], text[n], args)
           Computes(g) == g = [n \in 0 .. N |-> IF n = 0 THEN z ELSE Goes(g, n)]
           loop == CHOOSE g : Computes(g)
           step == Tallying(args)
<1>1. N \in Nat /\ \A n \in 1 .. N : text[n] \in TextChars
  OBVIOUS
<1>2. IsMachine(TextChars, Tallies, z, step)
  BY TallyingType DEF NothingTallied
<1>3. ASSUME NEW g, NEW n \in 1 .. N, g[n - 1] \in Tallies PROVE Goes(g, n) = Stepped(step, g[n - 1], text[n])
  BY <1>1, <1>3, TallyingType
<1> HIDE DEF z, step, Goes
<1>4. PICK f : ReadsBy(f, text, z, step, Tallies)
  BY <1>2, MachineRuns
<1>5. f \in [0 .. N -> Tallies] /\ f[0] = z /\ \A n \in 1 .. N : f[n] = Goes(f, n)
  <2>1. f \in [0 .. N -> Tallies] /\ \A n \in 1 .. N : n - 1 \in 0 .. N
    BY <1>1, <1>4 DEF ReadsBy
  <2> QED BY <1>3, <1>4, <2>1 DEF ReadsBy
<1>6. Computes(f)
  BY <1>1, <1>5
<1>7. Computes(loop)
  <2> HIDE DEF Computes
  <2> QED BY <1>6
<1> HIDE DEF loop
<1>8. 0 \in 0 .. N /\ \A n \in 1 .. N : n \in 0 .. N /\ n # 0
  BY <1>1
<1>9. loop[0] = z /\ \A n \in 1 .. N : loop[n] = Goes(loop, n)
  <2>1. loop = [n \in 0 .. N |-> IF n = 0 THEN z ELSE Goes(loop, n)]
    BY <1>7
  <2> HIDE DEF N, Computes
  <2> QED BY <1>8, <2>1, Zenon
<1>10. loop[N] = After(text, z, step, Tallies)
  BY <1>2, <1>3, <1>9, LoopEnds
<1>11. ASSUME NEW content, text = Lines!AllArguments(content, args)
       PROVE  Lines!substitute_args(content, args) = Lines!Settled(loop[N], args)
  BY <1>11 DEF Lines!substitute_args, Goes, z, loop
<1> QED BY <1>10, <1>11 DEF NothingTallied, z, step, Tallied

\* How each goes on.
LEMMA ParsedNext ==
    ASSUME NEW text \in Seq(TextChars), NEW ch \in TextChars
    PROVE  Parsed(Append(text, ch)) = Lines!Feed(Parsed(text), ch)
<1>1. Parsed(text) \in Parsers
  BY FeedingType, AfterType DEF Parsed
<1>2. Parsed(Append(text, ch)) = Stepped(Feeding, Parsed(text), ch)
  BY FeedingType, AfterNext DEF Parsed
<1> QED BY <1>1, <1>2, FeedingType

LEMMA ReplacementNext ==
    ASSUME Lines!TextAssumption, NEW args \in Seq(Seq(TextChars)), NEW text \in Seq(TextChars), NEW ch \in TextChars
    PROVE  /\ Replacement(text, args) \in Fillers
           /\ Replacement(Append(text, ch), args) = Lines!Replace(Replacement(text, args), ch, args)
<1>0. IsMachine(TextChars, Fillers, NothingHeld, Replacing(args))
  BY ReplacingType
<1>1. Replacement(text, args) \in Fillers
  BY <1>0, AfterType DEF Replacement
<1>2. Replacement(Append(text, ch), args) = Stepped(Replacing(args), Replacement(text, args), ch)
  BY <1>0, AfterNext DEF Replacement
<1>3. Stepped(Replacing(args), Replacement(text, args), ch) = Lines!Replace(Replacement(text, args), ch, args)
  BY <1>1, ReplacingType
<1> QED BY <1>1, <1>2, <1>3

LEMMA TalliedNext ==
    ASSUME Lines!TextAssumption, NEW args \in Seq(Seq(TextChars)), NEW text \in Seq(TextChars), NEW ch \in TextChars
    PROVE  /\ Tallied(text, args) \in Tallies
           /\ Tallied(Append(text, ch), args) = Lines!Substitute(Tallied(text, args), ch, args)
<1>0. IsMachine(TextChars, Tallies, NothingTallied, Tallying(args))
  BY TallyingType
<1>1. Tallied(text, args) \in Tallies
  BY <1>0, AfterType DEF Tallied
<1>2. Tallied(Append(text, ch), args) = Stepped(Tallying(args), Tallied(text, args), ch)
  BY <1>0, AfterNext DEF Tallied
<1>3. Stepped(Tallying(args), Tallied(text, args), ch) = Lines!Substitute(Tallied(text, args), ch, args)
  BY <1>1, TallyingType
<1> QED BY <1>1, <1>2, <1>3

\* A template with `$@` replaced, character by character.
LEMMA AllArgumentsNext ==
    ASSUME Lines!TextAssumption, NEW args \in Seq(Seq(TextChars)), NEW text \in Seq(TextChars), NEW ch \in TextChars
    PROVE  /\ Lines!AllArguments(text, args) \in Seq(TextChars)
           /\ ch # "at" => Lines!AllArguments(Append(text, ch), args) = Append(Lines!AllArguments(text, args), ch)
           /\ Lines!AllArguments(Append(Append(text, "dollar"), "at"), args)
              = Lines!AllArguments(text, args) \o Lines!Joined(args)
<1> DEFINE s == Replacement(text, args)
           more == Append(text, ch)
           one == Append(text, "dollar")
           two == Append(one, "at")
<1>0. "dollar" \in TextChars /\ "at" \in TextChars
  BY TextParts
<1>1. more \in Seq(TextChars) /\ one \in Seq(TextChars) /\ two \in Seq(TextChars)
  <2>1. one \in Seq(TextChars)
    BY <1>0
  <2> HIDE DEF one
  <2> QED BY <1>0, <2>1
<1>2. s \in Fillers /\ Lines!AllArguments(text, args) = Lines!Released(s)
  BY ReplacementNext, AllArgumentsIs
<1>3. Lines!Released(s) \in Seq(TextChars)
  <2> HIDE DEF s
  <2> QED BY <1>2, ReplaceType
<1>4. ASSUME ch # "at" PROVE Lines!AllArguments(more, args) = Append(Lines!AllArguments(text, args), ch)
  <2>1. Replacement(more, args) = Lines!Replace(s, ch, args)
    BY ReplacementNext
  <2>2. Lines!AllArguments(more, args) = Lines!Released(Replacement(more, args))
    <3> HIDE DEF more
    <3> QED BY <1>1, AllArgumentsIs
  <2>3. Lines!Released(Lines!Replace(s, ch, args)) = Append(Lines!Released(s), ch)
    <3> HIDE DEF s
    <3>1. CASE ch = "dollar"
      <4>1. Lines!Replace(s, ch, args) = [done |-> Lines!Released(s), held |-> TRUE]
        BY <1>4, <3>1 DEF Lines!Replace
      <4> QED BY <3>1, <4>1 DEF Lines!Released
    <3>2. CASE ch # "dollar"
      <4>1. Lines!Replace(s, ch, args) = [done |-> Append(Lines!Released(s), ch), held |-> FALSE]
        BY <1>4, <3>2 DEF Lines!Replace
      <4>2. Lines!Released([done |-> Append(Lines!Released(s), ch), held |-> FALSE]) = Append(Lines!Released(s), ch)
        BY DEF Lines!Released
      <4> QED BY <4>1, <4>2
    <3> QED BY <3>1, <3>2
  <2> HIDE DEF s, more
  <2> QED BY <1>2, <2>1, <2>2, <2>3
<1>5. Lines!AllArguments(two, args) = Lines!AllArguments(text, args) \o Lines!Joined(args)
  <2>1. Replacement(one, args) = Lines!Replace(s, "dollar", args)
    BY <1>0, ReplacementNext
  <2>2. Replacement(two, args) = Lines!Replace(Replacement(one, args), "at", args)
    <3> HIDE DEF one
    <3> QED BY <1>0, <1>1, ReplacementNext
  <2>3. Lines!AllArguments(two, args) = Lines!Released(Replacement(two, args))
    <3> HIDE DEF two
    <3> QED BY <1>1, AllArgumentsIs
  <2> HIDE DEF s, one, two
  <2>4. Lines!Replace(s, "dollar", args) = [done |-> Lines!Released(s), held |-> TRUE]
    BY DEF Lines!Replace
  <2>5. Lines!Replace([done |-> Lines!Released(s), held |-> TRUE], "at", args)
        = [done |-> Lines!Released(s) \o Lines!Joined(args), held |-> FALSE]
    BY DEF Lines!Replace
  <2>6. Lines!Released([done |-> Lines!Released(s) \o Lines!Joined(args), held |-> FALSE])
        = Lines!Released(s) \o Lines!Joined(args)
    BY DEF Lines!Released
  <2> QED BY <1>2, <2>1, <2>2, <2>3, <2>4, <2>5, <2>6
<1> HIDE DEF s
<1> QED BY <1>2, <1>3, <1>4, <1>5

\* And with its numbers replaced.
Filled(text, args) == Lines!Settled(Tallied(text, args), args)

LEMMA FilledNext ==
    ASSUME Lines!TextAssumption, NEW args \in Seq(Seq(TextChars)), NEW text \in Seq(TextChars), NEW ch \in TextChars
    PROVE  /\ Filled(text, args) \in Seq(TextChars)
           /\ ch \notin Lines!Digits => Filled(Append(text, ch), args) = Append(Filled(text, args), ch)
           /\ Tallied(Append(text, "dollar"), args) = [done |-> Filled(text, args), after |-> "dollar", number |-> 0]
<1> DEFINE s == Tallied(text, args)
<1>0. "dollar" \in TextChars /\ "dollar" \notin Lines!Digits
  BY TextParts DEF Lines!Digits
<1>1. s \in Tallies /\ Tallied(Append(text, ch), args) = Lines!Substitute(s, ch, args)
  BY TalliedNext
<1>2. Tallied(Append(text, "dollar"), args) = Lines!Substitute(s, "dollar", args)
  BY <1>0, TalliedNext
<1> HIDE DEF s
<1>3. Lines!Settled(s, args) \in Seq(TextChars)
  BY <1>1, SubstituteType
<1>4. Lines!Substitute(s, "dollar", args) = [done |-> Lines!Settled(s, args), after |-> "dollar", number |-> 0]
  BY <1>0 DEF Lines!Substitute
<1>5. ASSUME ch \notin Lines!Digits
      PROVE  Lines!Settled(Lines!Substitute(s, ch, args), args) = Append(Lines!Settled(s, args), ch)
  <2>1. CASE ch = "dollar"
    <3>1. Lines!Settled([done |-> Lines!Settled(s, args), after |-> "dollar", number |-> 0], args)
          = Append(Lines!Settled(s, args), "dollar")
      BY DEF Lines!Settled
    <3> QED BY <1>4, <2>1, <3>1
  <2>2. CASE ch # "dollar"
    <3>1. Lines!Substitute(s, ch, args) = [done |-> Append(Lines!Settled(s, args), ch), after |-> "text", number |-> 0]
      BY <1>5, <2>2 DEF Lines!Substitute
    <3>2. Lines!Settled([done |-> Append(Lines!Settled(s, args), ch), after |-> "text", number |-> 0], args)
          = Append(Lines!Settled(s, args), ch)
      BY DEF Lines!Settled
    <3> QED BY <3>1, <3>2
  <2> QED BY <2>1, <2>2
<1>6. Filled(text, args) = Lines!Settled(s, args)
  BY DEF Filled, s
<1>7. Filled(Append(text, ch), args) = Lines!Settled(Lines!Substitute(s, ch, args), args)
  BY <1>1 DEF Filled
<1> QED BY <1>2, <1>3, <1>4, <1>5, <1>6, <1>7

\* A number: a dollar sign and its digits.
LEMMA FilledNumber ==
    ASSUME Lines!TextAssumption, NEW args \in Seq(Seq(TextChars)), NEW text \in Seq(TextChars),
           NEW c \in Lines!Digits, NEW d \in Lines!Digits
    PROVE  LET one == Append(Append(text, "dollar"), c) IN
           /\ Filled(one, args) = Filled(text, args) \o Lines!Positional(args, Lines!Value[c])
           /\ Filled(Append(one, d), args)
              = Filled(text, args) \o Lines!Positional(args, Lines!Value[c] * 10 + Lines!Value[d])
<1> DEFINE zero == Append(text, "dollar")
           one == Append(zero, c)
           two == Append(one, d)
           f == Filled(text, args)
<1>0. /\ "dollar" \in TextChars /\ c \in TextChars /\ d \in TextChars
      /\ c # "dollar" /\ d # "dollar"
  <2>1. "dollar" \notin Lines!Digits
    BY DEF Lines!Digits
  <2> QED BY <2>1, TextParts
<1>1. zero \in Seq(TextChars) /\ one \in Seq(TextChars)
  <2>1. zero \in Seq(TextChars)
    BY <1>0
  <2> HIDE DEF zero
  <2> QED BY <1>0, <2>1
<1>2. Lines!Value[c] \in Nat /\ Lines!Value[d] \in Nat
  BY DEF Lines!Value, Lines!Digits
<1>3. Tallied(zero, args) = [done |-> f, after |-> "dollar", number |-> 0]
  BY <1>0, FilledNext
<1>4. Tallied(one, args) = Lines!Substitute(Tallied(zero, args), c, args)
  <2> HIDE DEF zero
  <2> QED BY <1>0, <1>1, TalliedNext
<1>5. Tallied(two, args) = Lines!Substitute(Tallied(one, args), d, args)
  <2> HIDE DEF one
  <2> QED BY <1>0, <1>1, TalliedNext
<1> HIDE DEF zero, one, two, f
<1>6. Lines!Substitute([done |-> f, after |-> "dollar", number |-> 0], c, args)
      = [done |-> f, after |-> "digits", number |-> Lines!Value[c]]
  <2> DEFINE s == [done |-> f, after |-> "dollar", number |-> 0]
  <2>1. s.after # "text" /\ s.done = f /\ s.number = 0
    OBVIOUS
  <2> HIDE DEF s
  <2>2. s.number * 10 + Lines!Value[c] = Lines!Value[c]
    BY <1>2, <2>1
  <2>3. Lines!Substitute(s, c, args) = [done |-> s.done, after |-> "digits", number |-> s.number * 10 + Lines!Value[c]]
    BY <1>0, <2>1 DEF Lines!Substitute
  <2>4. Lines!Substitute(s, c, args) = [done |-> f, after |-> "digits", number |-> Lines!Value[c]]
    BY <2>1, <2>2, <2>3
  <2> QED BY <2>4 DEF s
<1>7. Lines!Substitute([done |-> f, after |-> "digits", number |-> Lines!Value[c]], d, args)
      = [done |-> f, after |-> "digits", number |-> Lines!Value[c] * 10 + Lines!Value[d]]
  <2> DEFINE s == [done |-> f, after |-> "digits", number |-> Lines!Value[c]]
  <2>1. s.after # "text" /\ s.done = f /\ s.number = Lines!Value[c]
    OBVIOUS
  <2> HIDE DEF s
  <2>2. Lines!Substitute(s, d, args) = [done |-> s.done, after |-> "digits", number |-> s.number * 10 + Lines!Value[d]]
    BY <1>0, <2>1 DEF Lines!Substitute
  <2>3. Lines!Substitute(s, d, args) = [done |-> f, after |-> "digits", number |-> Lines!Value[c] * 10 + Lines!Value[d]]
    BY <2>1, <2>2
  <2> QED BY <2>3 DEF s
<1>8. \A n : Lines!Settled([done |-> f, after |-> "digits", number |-> n], args) = f \o Lines!Positional(args, n)
  BY DEF Lines!Settled
<1>9. /\ Filled(one, args) = f \o Lines!Positional(args, Lines!Value[c])
      /\ Filled(two, args) = f \o Lines!Positional(args, Lines!Value[c] * 10 + Lines!Value[d])
  BY <1>3, <1>4, <1>5, <1>6, <1>7, <1>8 DEF Filled
<1> QED BY <1>9 DEF f, one, two, zero

\* A text without digits stays as it is, whatever is in front of it.
LEMMA FilledPlain ==
    ASSUME Lines!TextAssumption, NEW args \in Seq(Seq(TextChars)),
           NEW text \in Seq(TextChars), NEW plain \in Seq(TextChars \ Lines!Digits)
    PROVE  Filled(text \o plain, args) = Filled(text, args) \o plain
<1> DEFINE C == TextChars \ Lines!Digits
           Plain(t, u) == Filled(t \o u, args) = Filled(t, args) \o u
           T == {n \in Nat : \A t \in Seq(TextChars), u \in Seq(C) : Len(u) = n => Plain(t, u)}
<1>1. 0 \in T
  <2> SUFFICES ASSUME NEW t \in Seq(TextChars), NEW u \in Seq(C), Len(u) = 0 PROVE Plain(t, u)
    OBVIOUS
  <2>1. "dollar" \in TextChars
    BY TextParts
  <2>2. Filled(t, args) \in Seq(TextChars)
    BY <2>1, FilledNext
  <2>3. u = <<>> /\ t \o u = t /\ Filled(t, args) \o <<>> = Filled(t, args)
    BY <2>2
  <2> QED BY <2>3
<1>2. ASSUME NEW n \in Nat, n \in T PROVE n + 1 \in T
  <2> SUFFICES ASSUME NEW t \in Seq(TextChars), NEW u \in Seq(C), Len(u) = n + 1 PROVE Plain(t, u)
    OBVIOUS
  <2> DEFINE h == Head(u)
             v == Tail(u)
             more == Append(t, h)
             f == Filled(t, args)
  <2>1. u # <<>> /\ h \in C /\ v \in Seq(C) /\ Len(v) = n /\ u \in Seq(TextChars) /\ h \in TextChars
    OBVIOUS
  <2>2. more \in Seq(TextChars) /\ more \o v = t \o u
    <3>1. Append(t, Head(u)) \o Tail(u) = t \o u
      BY <2>1, SeqMoved
    <3> QED BY <2>1, <3>1
  <2>3. f \in Seq(TextChars) /\ Filled(more, args) = Append(f, h)
    <3> HIDE DEF h
    <3>1. h \in TextChars /\ h \notin Lines!Digits
      BY <2>1
    <3> QED BY <3>1, FilledNext
  <2>4. Append(f, h) \o v = f \o u
    <3> HIDE DEF f
    <3> QED BY <2>1, <2>3, SeqMoved
  <2>5. Plain(more, v)
    <3> HIDE DEF more, v, Plain, C
    <3> QED BY <1>2, <2>1, <2>2
  <2> HIDE DEF more, v, f, h
  <2> QED BY <2>2, <2>3, <2>4, <2>5 DEF f
<1>3. Nat \subseteq T
  <2> HIDE DEF T
  <2> QED BY <1>1, <1>2, Induction
<1>4. Len(plain) \in T /\ Len(plain) \in Nat
  <2>1. Len(plain) \in Nat
    OBVIOUS
  <2> HIDE DEF T
  <2> QED BY <1>3, <2>1
<1>5. Plain(text, plain)
  <2> HIDE DEF Plain
  <2> QED BY <1>4
<1> QED BY <1>5

\* What a piece of the template stands for, given the arguments.
Yields(what, args) ==
    CASE what = "all" -> Lines!Joined(args)
      [] what \in Lines!Numbers -> IF Lines!Index(what) \in DOMAIN args THEN args[Lines!Index(what)] ELSE <<>>
      [] what \in Letters \cup {"dollar"} -> <<what>>

LEMMA PieceKinds ==
    ASSUME Lines!TextAssumption, ~Zeros, NEW what \in Lines!Pieces
    PROVE  \/ what = "all" /\ Lines!Written[what] = <<"dollar", "at">> /\ \A args : Yields(what, args) = Lines!Joined(args)
           \/ what = "1" /\ Lines!Written[what] = <<"dollar", "1">> /\ Lines!Index(what) = 1
           \/ what = "2" /\ Lines!Written[what] = <<"dollar", "2">> /\ Lines!Index(what) = 2
           \/ what = "10" /\ Lines!Written[what] = <<"dollar", "1", "0">> /\ Lines!Index(what) = 10
           \/ /\ what \in TextChars \ Lines!Digits /\ what # "at" /\ Lines!Written[what] = <<what>>
              /\ \A args : Yields(what, args) = <<what>>
<1>1. Lines!Numbers = {"1", "2", "10"} /\ Lines!Digits = {"0", "1", "2"}
  BY DEF Lines!Numbers, Lines!Digits
<1>2. what \in {"1", "2", "10", "all"} \cup Letters \cup {"dollar"}
  BY <1>1 DEF Lines!Pieces
<1>3. Letters \cap {"all", "10", "at", "dollar", "0", "1", "2"} = {}
  BY TextParts
<1>4. Letters \subseteq TextChars /\ "dollar" \in TextChars
  BY TextParts
<1>5. CASE what = "all"
  <2>1. Lines!Written[what] = <<"dollar", "at">>
    BY <1>1, <1>3, <1>5 DEF Lines!Written, Lines!Pieces
  <2>2. \A args : Yields(what, args) = Lines!Joined(args)
    BY <1>1, <1>3, <1>5 DEF Yields
  <2> QED BY <1>5, <2>1, <2>2
<1>6. CASE what = "1"
  BY <1>1, <1>3, <1>6 DEF Lines!Written, Lines!Pieces, Lines!Index
<1>7. CASE what = "2"
  BY <1>1, <1>3, <1>7 DEF Lines!Written, Lines!Pieces, Lines!Index
<1>8. CASE what = "10"
  BY <1>1, <1>3, <1>8 DEF Lines!Written, Lines!Pieces, Lines!Index
<1>9. CASE what \in Letters \cup {"dollar"}
  <2>1. what \notin {"all", "1", "2", "10", "0", "at"}
    BY <1>3, <1>9
  <2>2. Lines!Written[what] = <<what>>
    BY <1>1, <1>9, <2>1 DEF Lines!Written, Lines!Pieces
  <2>3. \A args : Yields(what, args) = <<what>>
    BY <1>1, <1>9, <2>1 DEF Yields
  <2> QED BY <1>1, <1>4, <1>9, <2>1, <2>2, <2>3
<1> QED BY <1>2, <1>5, <1>6, <1>7, <1>8, <1>9

LEMMA YieldsNumber ==
    ASSUME Lines!TextAssumption, ~Zeros, NEW what \in {"1", "2", "10"}, NEW args \in Seq(Seq(TextChars)), Lines!Index(what) \in Nat \ {0}
    PROVE  Yields(what, args) = Lines!Positional(args, Lines!Index(what))
<1>1. what \in Lines!Numbers /\ what # "all" /\ what \notin Letters \cup {"dollar"}
  <2>1. Letters \cap {"10", "1", "2"} = {}
    BY TextParts
  <2> QED BY <2>1 DEF Lines!Numbers
<1> DEFINE n == Lines!Index(what)
<1>2. Lines!Positional(args, n) = IF n \in DOMAIN args THEN args[n] ELSE <<>>
  <2>1. n # 0
    OBVIOUS
  <2> HIDE DEF n
  <2> QED BY <2>1 DEF Lines!Positional
<1> QED BY <1>1, <1>2 DEF Yields

LEMMA PieceFills ==
    ASSUME Lines!TextAssumption, ~Zeros, NEW args \in Seq(Seq(TextChars)),
           NEW text \in Seq(TextChars), NEW what \in Lines!Pieces,
           what = "all" => \A i \in DOMAIN args : Lines!Range(args[i]) \cap Lines!Digits = {}
    PROVE  LET more == text \o Lines!Written[what] IN
           /\ more \in Seq(TextChars)
           /\ Yields(what, args) \in Seq(TextChars)
           /\ Lines!substitute_args(more, args) = Lines!substitute_args(text, args) \o Yields(what, args)
<1> DEFINE more == text \o Lines!Written[what]
           all == Lines!AllArguments(text, args)
           one == Append(text, "dollar")
           Goal == /\ more \in Seq(TextChars)
                   /\ Yields(what, args) \in Seq(TextChars)
                   /\ Lines!substitute_args(more, args) = Lines!substitute_args(text, args) \o Yields(what, args)
<1> SUFFICES Goal
  OBVIOUS
<1>0. /\ {"dollar", "at", "0", "1", "2", "blank"} \subseteq TextChars
      /\ Lines!Digits = {"0", "1", "2"}
  BY TextParts
<1>1. one \in Seq(TextChars)
  BY <1>0
<1>2. all \in Seq(TextChars)
  BY <1>0, AllArgumentsNext
<1>3. Filled(all, args) \in Seq(TextChars)
  <2> HIDE DEF all
  <2> QED BY <1>0, <1>2, FilledNext
<1>4. ASSUME NEW t \in Seq(TextChars) PROVE Lines!substitute_args(t, args) = Filled(Lines!AllArguments(t, args), args)
  <2> DEFINE u == Lines!AllArguments(t, args)
  <2>1. u \in Seq(TextChars) /\ u = Lines!AllArguments(t, args)
    BY <1>0, AllArgumentsNext
  <2> HIDE DEF u
  <2>2. Lines!substitute_args(t, args) = Lines!Settled(Tallied(u, args), args)
    BY <2>1, SubstitutedIs
  <2> QED BY <2>1, <2>2 DEF Filled
<1>5. CASE what = "all" /\ Lines!Written[what] = <<"dollar", "at">> /\ \A a : Yields(what, a) = Lines!Joined(a)
  <2> DEFINE J == Lines!Joined(args)
             C == TextChars \ Lines!Digits
  <2>1. more = Append(one, "at") /\ more \in Seq(TextChars)
    BY <1>0, <1>5
  <2>2. args \in Seq(Seq(C))
    <3>1. ASSUME NEW i \in DOMAIN args PROVE args[i] \in Seq(C)
      <4>1. args[i] \in Seq(TextChars) /\ Lines!Range(args[i]) \cap Lines!Digits = {}
        BY <1>5
      <4>2. \A k \in DOMAIN args[i] : args[i][k] \in C
        BY <4>1 DEF Lines!Range
      <4>3. args[i] \in [1 .. Len(args[i]) -> C] /\ Len(args[i]) \in Nat
        BY <4>1, <4>2
      <4> QED BY <4>3
    <3> HIDE DEF C
    <3> QED BY <3>1, SeqIs
  <2>3. J \in Seq(C)
    <3>1. "blank" \in C
      BY <1>0
    <3> HIDE DEF C
    <3> QED BY <2>2, <3>1, JoinedType
  <2>4. Lines!AllArguments(Append(Append(text, "dollar"), "at"), args) = all \o J
    BY <1>0, AllArgumentsNext
  <2>5. Filled(all \o J, args) = Filled(all, args) \o J
    <3> HIDE DEF all, J
    <3> QED BY <1>2, <2>3, FilledPlain
  <2>6. Lines!substitute_args(more, args) = Filled(Lines!AllArguments(more, args), args)
    <3> HIDE DEF more
    <3> QED BY <1>4, <2>1
  <2>7. Lines!substitute_args(text, args) = Filled(all, args)
    BY <1>4
  <2>8. J \in Seq(TextChars) /\ Yields(what, args) = J
    BY <2>3, <1>5
  <2> HIDE DEF J, all
  <2> QED BY <2>1, <2>4, <2>5, <2>6, <2>7, <2>8
<1>6. ASSUME NEW c \in {"1", "2"}, NEW n \in {1, 2, 10}, what \in {"1", "2", "10"}, Lines!Index(what) = n,
             \/ Lines!Written[what] = <<"dollar", c>> /\ n = Lines!Value[c]
             \/ Lines!Written[what] = <<"dollar", c, "0">> /\ n = Lines!Value[c] * 10 + Lines!Value["0"]
      PROVE  Goal
  <2> DEFINE two == Append(one, c)
             three == Append(two, "0")
             atwo == Append(Append(all, "dollar"), c)
             athree == Append(atwo, "0")
  <2>0. c \in TextChars /\ c \in Lines!Digits /\ c # "at" /\ "0" \in Lines!Digits
    BY <1>0
  <2>1. Yields(what, args) = Lines!Positional(args, n)
    BY <1>6, YieldsNumber
  <2>2. Yields(what, args) \in Seq(TextChars)
    BY <2>1, SettledType
  <2>3. two \in Seq(TextChars) /\ three \in Seq(TextChars)
    <3>1. two \in Seq(TextChars)
      BY <1>1, <2>0
    <3> HIDE DEF two
    <3> QED BY <1>0, <3>1
  <2>4. Lines!AllArguments(one, args) = Append(all, "dollar")
    BY <1>0, AllArgumentsNext
  <2>5. Lines!AllArguments(two, args) = atwo
    <3>1. Lines!AllArguments(two, args) = Append(Lines!AllArguments(one, args), c)
      <4> HIDE DEF one, all
      <4> QED BY <1>1, <2>0, AllArgumentsNext
    <3> HIDE DEF two, one, all
    <3> QED BY <2>4, <3>1
  <2>6. Lines!AllArguments(three, args) = athree
    <3>1. Lines!AllArguments(three, args) = Append(Lines!AllArguments(two, args), "0")
      <4> HIDE DEF two, atwo, all
      <4> QED BY <1>0, <2>3, AllArgumentsNext
    <3> HIDE DEF two, three, atwo, all
    <3> QED BY <2>5, <3>1
  <2>7. /\ Filled(atwo, args) = Filled(all, args) \o Lines!Positional(args, Lines!Value[c])
        /\ Filled(athree, args) = Filled(all, args) \o Lines!Positional(args, Lines!Value[c] * 10 + Lines!Value["0"])
    <3> HIDE DEF all
    <3> QED BY <1>2, <2>0, FilledNumber
  <2>8. Lines!substitute_args(text, args) = Filled(all, args)
    BY <1>4
  <2>9. /\ Lines!substitute_args(two, args) = Filled(atwo, args)
        /\ Lines!substitute_args(three, args) = Filled(athree, args)
    <3> HIDE DEF two, three, atwo, athree
    <3> QED BY <1>4, <2>3, <2>5, <2>6
  <2>10. \/ more = two /\ n = Lines!Value[c]
         \/ more = three /\ n = Lines!Value[c] * 10 + Lines!Value["0"]
    <3>1. "dollar" \in TextChars /\ "0" \in TextChars
      BY <1>0
    <3>2. text \o <<"dollar", c>> = two
      BY <2>0, <3>1
    <3>3. text \o <<"dollar", c, "0">> = three
      BY <2>0, <3>1
    <3> HIDE DEF two, three
    <3> QED BY <1>6, <3>2, <3>3
  <2> HIDE DEF two, three, atwo, athree, all, more
  <2> QED BY <2>1, <2>2, <2>3, <2>7, <2>8, <2>9, <2>10
<1>7. CASE /\ what \in TextChars \ Lines!Digits /\ what # "at" /\ Lines!Written[what] = <<what>>
           /\ \A a : Yields(what, a) = <<what>>
  <2>0. what \in TextChars /\ Lines!Written[what] = <<what>> /\ Yields(what, args) = <<what>>
    BY <1>7
  <2>1. more = Append(text, what) /\ more \in Seq(TextChars) /\ Yields(what, args) \in Seq(TextChars)
    <3>1. more = text \o <<what>>
      BY <2>0
    <3>2. text \o <<what>> = Append(text, what) /\ Append(text, what) \in Seq(TextChars) /\ <<what>> \in Seq(TextChars)
      BY <2>0
    <3> HIDE DEF more
    <3> QED BY <2>0, <3>1, <3>2
  <2>2. Lines!AllArguments(more, args) = Append(all, what)
    <3>1. Lines!AllArguments(Append(text, what), args) = Append(all, what)
      BY <1>7, AllArgumentsNext
    <3> HIDE DEF more, all
    <3> QED BY <2>1, <3>1
  <2>3. Filled(Append(all, what), args) = Append(Filled(all, args), what)
    <3> HIDE DEF all
    <3> QED BY <1>2, <1>7, FilledNext
  <2>4. Lines!substitute_args(more, args) = Filled(Lines!AllArguments(more, args), args)
    <3> HIDE DEF more
    <3> QED BY <1>4, <2>1
  <2>5. Lines!substitute_args(text, args) = Filled(all, args)
    BY <1>4
  <2>6. Append(Filled(all, args), what) = Filled(all, args) \o Yields(what, args)
    <3> DEFINE f == Filled(all, args)
    <3>1. f \in Seq(TextChars)
      BY <1>3
    <3> HIDE DEF f
    <3>2. Append(f, what) = f \o <<what>>
      BY <2>0, <3>1
    <3> QED BY <2>0, <3>2 DEF f
  <2> HIDE DEF more, all
  <2> QED BY <2>1, <2>2, <2>3, <2>4, <2>5, <2>6
<1>8. Lines!Value["1"] = 1 /\ Lines!Value["2"] = 2 /\ Lines!Value["0"] = 0
  BY <1>0 DEF Lines!Value
<1>9. Goal
  <2>1. CASE what = "1" /\ Lines!Written[what] = <<"dollar", "1">> /\ Lines!Index(what) = 1
    <3> HIDE DEF Goal
    <3> QED BY <1>6, <1>8, <2>1
  <2>2. CASE what = "2" /\ Lines!Written[what] = <<"dollar", "2">> /\ Lines!Index(what) = 2
    <3> HIDE DEF Goal
    <3> QED BY <1>6, <1>8, <2>2
  <2>3. CASE what = "10" /\ Lines!Written[what] = <<"dollar", "1", "0">> /\ Lines!Index(what) = 10
    <3>1. 10 = Lines!Value["1"] * 10 + Lines!Value["0"]
      BY <1>8
    <3> HIDE DEF Goal
    <3> QED BY <1>6, <2>3, <3>1
  <2> HIDE DEF Goal
  <2> QED BY <1>5, <1>7, <2>1, <2>2, <2>3, PieceKinds
<1> QED BY <1>9

LEMMA YieldsType ==
    ASSUME Lines!TextAssumption, ~Zeros, NEW args \in Seq(Seq(TextChars)), NEW what \in Lines!Pieces
    PROVE  Yields(what, args) \in Seq(TextChars)
<1>1. CASE Yields(what, args) = Lines!Joined(args)
  <2>1. "blank" \in TextChars
    BY TextParts
  <2> QED BY <1>1, <2>1, JoinedType
<1>2. ASSUME what \in {"1", "2", "10"}, Lines!Index(what) \in {1, 2, 10} PROVE Yields(what, args) \in Seq(TextChars)
  <2>1. Lines!Index(what) \in Nat \ {0}
    BY <1>2
  <2>2. Yields(what, args) = Lines!Positional(args, Lines!Index(what))
    BY <1>2, <2>1, YieldsNumber
  <2> QED BY <2>1, <2>2, SettledType
<1>3. CASE what \in TextChars \ Lines!Digits /\ Yields(what, args) = <<what>>
  BY <1>3
<1>4. \/ Yields(what, args) = Lines!Joined(args)
      \/ what \in {"1", "2", "10"} /\ Lines!Index(what) \in {1, 2, 10}
      \/ what \in TextChars \ Lines!Digits /\ Yields(what, args) = <<what>>
  BY PieceKinds
<1> QED BY <1>1, <1>2, <1>3, <1>4

\* The template's pieces, each replaced by what it stands for.
Filling(pieces, args) == Lines!FlattenSeq([i \in DOMAIN pieces |-> Yields(pieces[i], args)])

LEMMA FillingGrows ==
    ASSUME Lines!TextAssumption, ~Zeros, NEW args \in Seq(Seq(TextChars)),
           NEW pieces \in Seq(Lines!Pieces), NEW what \in Lines!Pieces
    PROVE  Filling(Append(pieces, what), args) = Filling(pieces, args) \o Yields(what, args)
<1> DEFINE w == [p \in Lines!Pieces |-> Yields(p, args)]
           more == Append(pieces, what)
<1>1. w[what] = Yields(what, args) /\ Gives(w, Lines!Pieces, Seq(TextChars))
  BY YieldsType DEF Gives
<1>2. ASSUME NEW s \in Seq(Lines!Pieces) PROVE Filling(s, args) = Seqs!FlattenSeq(Each(w, s))
  <2>1. [i \in DOMAIN s |-> Yields(s[i], args)] = Each(w, s)
    BY DEF Each
  <2> HIDE DEF w
  <2>2. Filling(s, args) = Lines!FlattenSeq(Each(w, s))
    BY <2>1 DEF Filling
  <2>3. Lines!FlattenSeq(Each(w, s)) = Seqs!FlattenSeq(Each(w, s))
    BY Zenon DEF Lines!FlattenSeq, Seqs!FlattenSeq
  <2> QED BY <2>2, <2>3
<1>3. more \in Seq(Lines!Pieces)
  OBVIOUS
<1> HIDE DEF w
<1>4. Seqs!FlattenSeq(Each(w, more)) = Seqs!FlattenSeq(Each(w, pieces)) \o w[what]
  <2> DEFINE D == Lines!Pieces
             C == TextChars
  <2>1. Gives(w, D, Seq(C)) /\ pieces \in Seq(D) /\ what \in D
    BY <1>1
  <2> HIDE DEF D, C
  <2> QED BY <2>1, JoinedGrows
<1> QED BY <1>1, <1>2, <1>3, <1>4

LEMMA NothingFills ==
    ASSUME Lines!TextAssumption, NEW args \in Seq(Seq(TextChars))
    PROVE  Lines!substitute_args(<<>>, args) = <<>> /\ Filling(<<>>, args) = <<>>
<1> DEFINE none == <<>>
<1>1. none \in Seq(TextChars)
  OBVIOUS
<1>2. Replacement(<<>>, args) = NothingHeld /\ Tallied(<<>>, args) = NothingTallied
  <2>1. IsMachine(TextChars, Fillers, NothingHeld, Replacing(args))
    BY ReplacingType
  <2>2. IsMachine(TextChars, Tallies, NothingTallied, Tallying(args))
    BY TallyingType
  <2> QED BY <2>1, <2>2, AfterNone DEF Replacement, Tallied
<1>3. Lines!AllArguments(none, args) = none
  <2> HIDE DEF none
  <2>1. Lines!AllArguments(none, args) = Lines!Released(Replacement(none, args))
    BY <1>1, AllArgumentsIs
  <2> QED BY <1>2, <2>1 DEF none, Lines!Released, NothingHeld
<1>4. Lines!substitute_args(none, args) = Lines!Settled(Tallied(none, args), args)
  <2> HIDE DEF none
  <2> QED BY <1>1, <1>3, SubstitutedIs
<1>5. Lines!Settled(NothingTallied, args) = <<>>
  BY DEF Lines!Settled, NothingTallied
<1>6. Filling(<<>>, args) = Lines!FlattenSeq(<<>>)
  <2>1. DOMAIN <<>> = {} /\ [i \in {} |-> Yields(<<>>[i], args)] = <<>>
    OBVIOUS
  <2> QED BY <2>1 DEF Filling
<1>7. Lines!FlattenSeq(<<>>) = <<>>
  BY FlatNone, Zenon DEF Lines!FlattenSeq, Seqs!FlattenSeq
<1> QED BY <1>2, <1>4, <1>5, <1>6, <1>7

-----------------------------------------------------------------------------
\* The parser is where the user is; the template so far is filled.
Arguments == IF begun THEN Append(meant, word) ELSE meant
LineInv ==
    /\ line \in Seq(TextChars) /\ body \in Seq(TextChars) /\ filled \in Seq(Lines!Pieces)
    /\ meant \in Seq(Seq(TextChars)) /\ word \in Seq(TextChars)
    /\ within \in {"none"} \cup Lines!Quotes /\ begun \in BOOLEAN /\ slots \in BOOLEAN
    /\ Parsed(line) = [args |-> meant, current |-> word, in_quote |-> within]
    /\ begun \/ word = <<>>
    /\ IF slots THEN begun => word # <<>> ELSE body = <<>> /\ filled = <<>>
    /\ slots => (("all" \in Lines!Range(filled) => \A i \in DOMAIN Arguments : Lines!Range(Arguments[i]) \cap Lines!Digits = {})
                 => Lines!substitute_args(body, Arguments) = Filling(filled, Arguments))

LEMMA ArgumentsType ==
    ASSUME meant \in Seq(Seq(TextChars)), word \in Seq(TextChars)
    PROVE  Arguments \in Seq(Seq(TextChars))
<1> DEFINE S == Seq(TextChars)
<1>1. Append(meant, word) \in Seq(S)
  OBVIOUS
<1> QED BY <1>1 DEF Arguments

LEMMA TextStart == ASSUME Lines!TextAssumption PROVE Lines!Init => LineInv
<1> SUFFICES ASSUME Lines!Init PROVE LineInv
  OBVIOUS
<1>1. /\ line = <<>> /\ meant = <<>> /\ word = <<>> /\ within = "none" /\ begun = FALSE
      /\ body = <<>> /\ filled = <<>> /\ slots = FALSE
  BY DEF Lines!Init
<1>2. /\ line \in Seq(TextChars) /\ body \in Seq(TextChars) /\ filled \in Seq(Lines!Pieces)
      /\ meant \in Seq(Seq(TextChars)) /\ word \in Seq(TextChars)
  BY <1>1
<1>3. Parsed(line) = [args |-> meant, current |-> word, in_quote |-> within]
  <2>1. Parsed(<<>>) = Lines!Fresh
    BY FeedingType, AfterNone DEF Parsed
  <2> QED BY <1>1, <2>1 DEF Lines!Fresh
<1> QED BY <1>1, <1>2, <1>3 DEF LineInv

\* The user writes a character.
LEMMA TextWrite ==
    ASSUME Lines!TextAssumption, ~Empties, LineInv, NEW ch \in Glyphs \cup Lines!Quotes \cup {"blank"}, Lines!Write(ch)
    PROVE  LineInv'
<1> DEFINE p == [args |-> meant, current |-> word, in_quote |-> within]
<1>1. /\ line \in Seq(TextChars) /\ body \in Seq(TextChars) /\ filled \in Seq(Lines!Pieces)
      /\ meant \in Seq(Seq(TextChars)) /\ word \in Seq(TextChars)
      /\ within \in {"none"} \cup Lines!Quotes /\ begun \in BOOLEAN /\ slots \in BOOLEAN
      /\ Parsed(line) = p /\ (begun \/ word = <<>>)
  BY DEF LineInv
<1>2. /\ ~slots /\ line' = Append(line, ch) /\ body' = body /\ filled' = filled /\ slots' = slots
      /\ CASE ch \in Lines!Quotes /\ within = "none" -> within' = ch /\ begun' = TRUE /\ meant' = meant /\ word' = word
           [] ch = within -> within' = "none" /\ meant' = meant /\ word' = word /\ begun' = begun
           [] ch = "blank" /\ within = "none" -> /\ Lines!Complete
                                                 /\ meant' = IF begun THEN Append(meant, word) ELSE meant
                                                 /\ word' = <<>> /\ begun' = FALSE /\ within' = within
           [] OTHER -> word' = Append(word, ch) /\ begun' = TRUE /\ meant' = meant /\ within' = within
  BY DEF Lines!Write
<1>3. body = <<>> /\ filled = <<>>
  BY <1>2 DEF LineInv
<1>4. /\ ch \in TextChars /\ ch # "none" /\ "blank" \notin Lines!Quotes /\ "none" \notin Lines!Quotes
      /\ Lines!Quotes = {"single", "double"}
  BY TextParts
<1>5. p.args = meant /\ p.current = word /\ p.in_quote = within
  OBVIOUS
<1>6. line' \in Seq(TextChars) /\ Parsed(line') = Lines!Feed(p, ch)
  <2>1. Parsed(Append(line, ch)) = Lines!Feed(Parsed(line), ch)
    BY <1>1, <1>4, ParsedNext
  <2> QED BY <1>1, <1>2, <1>4, <2>1
<1> DEFINE Kept == /\ meant' \in Seq(Seq(TextChars)) /\ word' \in Seq(TextChars)
                   /\ within' \in {"none"} \cup Lines!Quotes /\ begun' \in BOOLEAN
                   /\ Lines!Feed(p, ch) = [args |-> meant', current |-> word', in_quote |-> within']
                   /\ begun' \/ word' = <<>>
<1>7. ASSUME ch \in Lines!Quotes /\ within = "none" PROVE Kept
  <2>1. within' = ch /\ begun' = TRUE /\ meant' = meant /\ word' = word
    BY <1>2, <1>4, <1>7
  <2>2. Lines!Feed(p, ch) = [args |-> meant, current |-> word, in_quote |-> ch]
    BY <1>4, <1>5, <1>7 DEF Lines!Feed, Lines!Quote
  <2> QED BY <1>1, <1>7, <2>1, <2>2
<1>8. ASSUME ch = within PROVE Kept
  <2>1. within' = "none" /\ begun' = begun /\ meant' = meant /\ word' = word
    BY <1>2, <1>4, <1>8
  <2>2. Lines!Feed(p, ch) = [args |-> meant, current |-> word, in_quote |-> "none"]
    BY <1>4, <1>5, <1>8 DEF Lines!Feed, Lines!Quote
  <2> QED BY <1>1, <1>8, <2>1, <2>2
<1>9. ASSUME ch = "blank" /\ within = "none" PROVE Kept
  <2>1. /\ Lines!Complete /\ meant' = IF begun THEN Append(meant, word) ELSE meant
        /\ word' = <<>> /\ begun' = FALSE /\ within' = within
    BY <1>2, <1>4, <1>9
  <2>2. begun <=> word # <<>>
    BY <1>1, <2>1 DEF Lines!Complete
  <2>3. Lines!Feed(p, ch) = Lines!Flush(p)
    BY <1>4, <1>5, <1>9 DEF Lines!Feed
  <2>4. CASE begun
    <3>1. Lines!Flush(p) = [args |-> Append(meant, word), current |-> <<>>, in_quote |-> within]
      BY <1>5, <2>2, <2>4 DEF Lines!Flush
    <3>2. Append(meant, word) \in Seq(Seq(TextChars)) /\ <<>> \in Seq(TextChars)
      BY <1>1
    <3> QED BY <1>1, <2>1, <2>3, <2>4, <3>1, <3>2
  <2>5. CASE ~begun
    <3>1. Lines!Flush(p) = p
      BY <1>5, <2>2, <2>5 DEF Lines!Flush
    <3> QED BY <1>1, <2>1, <2>2, <2>3, <2>5, <3>1
  <2> QED BY <2>4, <2>5
<1>10. ASSUME ~(ch \in Lines!Quotes /\ within = "none") /\ ch # within /\ ~(ch = "blank" /\ within = "none") PROVE Kept
  <2>1. word' = Append(word, ch) /\ begun' = TRUE /\ meant' = meant /\ within' = within
    BY <1>2, <1>10
  <2>2. Lines!Feed(p, ch) = [args |-> meant, current |-> Append(word, ch), in_quote |-> within]
    <3>1. CASE within = "none"
      BY <1>4, <1>5, <1>10, <3>1 DEF Lines!Feed, Lines!Push
    <3>2. CASE within # "none"
      BY <1>4, <1>5, <1>10, <3>2 DEF Lines!Feed, Lines!Push
    <3> QED BY <3>1, <3>2
  <2> QED BY <1>1, <1>4, <2>1, <2>2
<1>11. Kept
  BY <1>7, <1>8, <1>9, <1>10
<1>12. body' \in Seq(TextChars) /\ filled' \in Seq(Lines!Pieces) /\ slots' = FALSE /\ body' = <<>> /\ filled' = <<>>
  BY <1>1, <1>2, <1>3
<1> HIDE DEF p
<1> QED BY <1>6, <1>11, <1>12 DEF LineInv

\* The author writes a piece of the template.
LEMMA TextCompose ==
    ASSUME Lines!TextAssumption, ~Empties, ~Zeros, LineInv, NEW what \in Lines!Pieces, Lines!Compose(what)
    PROVE  LineInv'
<1>1. /\ line \in Seq(TextChars) /\ body \in Seq(TextChars) /\ filled \in Seq(Lines!Pieces)
      /\ meant \in Seq(Seq(TextChars)) /\ word \in Seq(TextChars)
      /\ within \in {"none"} \cup Lines!Quotes /\ begun \in BOOLEAN
      /\ Parsed(line) = [args |-> meant, current |-> word, in_quote |-> within] /\ (begun \/ word = <<>>)
  BY DEF LineInv
<1>2. /\ Lines!Complete /\ slots' = TRUE /\ body' = body \o Lines!Written[what] /\ filled' = Append(filled, what)
      /\ line' = line /\ meant' = meant /\ word' = word /\ within' = within /\ begun' = begun
  BY DEF Lines!Compose
<1>3. begun => word # <<>>
  BY <1>2 DEF Lines!Complete
<1>4. Arguments \in Seq(Seq(TextChars)) /\ Arguments' = Arguments
  BY <1>1, <1>2, ArgumentsType DEF Arguments
<1> DEFINE args == Arguments
           Safe(pieces) == "all" \in Lines!Range(pieces) => \A i \in DOMAIN args : Lines!Range(args[i]) \cap Lines!Digits = {}
           more == Append(filled, what)
<1>5. Safe(more) => Safe(filled) /\ (what = "all" => \A i \in DOMAIN args : Lines!Range(args[i]) \cap Lines!Digits = {})
  <2> DEFINE N == Len(filled)
  <2>1. /\ N \in Nat /\ DOMAIN filled = 1 .. N /\ DOMAIN more = 1 .. N + 1
        /\ more[N + 1] = what /\ \A i \in 1 .. N : more[i] = filled[i]
    BY <1>1
  <2>2. \A i \in 1 .. N : i \in 1 .. N + 1
    BY <2>1
  <2>3. N + 1 \in 1 .. N + 1
    BY <2>1
  <2> HIDE DEF more, N
  <2>4. Lines!Range(filled) \subseteq Lines!Range(more) /\ what \in Lines!Range(more)
    BY <2>1, <2>2, <2>3 DEF Lines!Range
  <2> QED BY <2>4
<1>6. Safe(filled) => Lines!substitute_args(body, args) = Filling(filled, args)
  <2>1. CASE slots
    BY <2>1 DEF LineInv
  <2>2. CASE ~slots
    <3>1. body = <<>> /\ filled = <<>>
      BY <2>2 DEF LineInv
    <3>2. Lines!substitute_args(<<>>, args) = <<>> /\ Filling(<<>>, args) = <<>>
      <4> HIDE DEF args
      <4>1. args \in Seq(Seq(TextChars))
        BY <1>4 DEF args
      <4> QED BY <4>1, NothingFills
    <3> HIDE DEF args, Safe
    <3> QED BY <3>1, <3>2
  <2> QED BY <2>1, <2>2
<1>7. ASSUME Safe(more) PROVE Lines!substitute_args(body', args) = Filling(more, args)
  <2>1. Lines!substitute_args(body, args) = Filling(filled, args)
    BY <1>5, <1>6, <1>7
  <2>2. what = "all" => \A i \in DOMAIN args : Lines!Range(args[i]) \cap Lines!Digits = {}
    BY <1>5, <1>7
  <2>3. args \in Seq(Seq(TextChars))
    BY <1>4
  <2> HIDE DEF args
  <2>4. Lines!substitute_args(body \o Lines!Written[what], args) = Lines!substitute_args(body, args) \o Yields(what, args)
    BY <1>1, <2>2, <2>3, PieceFills
  <2>5. Filling(more, args) = Filling(filled, args) \o Yields(what, args)
    BY <1>1, <2>3, FillingGrows
  <2> HIDE DEF more
  <2> QED BY <1>2, <2>1, <2>4, <2>5
<1>8. body' \in Seq(TextChars)
  <2> DEFINE quiet == <<>>
  <2>1. quiet \in Seq(Seq(TextChars)) /\ \A i \in DOMAIN quiet : Lines!Range(quiet[i]) \cap Lines!Digits = {}
    OBVIOUS
  <2> HIDE DEF quiet
  <2>2. body \o Lines!Written[what] \in Seq(TextChars)
    BY <1>1, <2>1, PieceFills
  <2> QED BY <1>2, <2>2
<1>9. filled' \in Seq(Lines!Pieces)
  BY <1>1, <1>2
<1>10. ("all" \in Lines!Range(filled) => \A i \in DOMAIN Arguments : Lines!Range(Arguments[i]) \cap Lines!Digits = {})'
       => (Lines!substitute_args(body, Arguments) = Filling(filled, Arguments))'
  <2> SUFFICES ASSUME ("all" \in Lines!Range(filled) => \A i \in DOMAIN Arguments : Lines!Range(Arguments[i]) \cap Lines!Digits = {})'
               PROVE  Lines!substitute_args(body', Arguments') = Filling(filled', Arguments')
    OBVIOUS
  <2>1. Safe(more)
    BY <1>2, <1>4
  <2>2. Lines!substitute_args(body', args) = Filling(more, args)
    BY <1>7, <2>1
  <2> HIDE DEF Safe
  <2> QED BY <1>2, <1>4, <2>2
<1> HIDE DEF args, Safe, more
<1> QED BY <1>1, <1>2, <1>3, <1>8, <1>9, <1>10 DEF LineInv

LEMMA TextStep ==
    ASSUME Lines!TextAssumption, ~Empties, ~Zeros, LineInv, [Lines!Next]_(Lines!vars)
    PROVE  LineInv'
<1>1. CASE Lines!Next
  BY <1>1, TextWrite, TextCompose DEF Lines!Next
<1>2. CASE UNCHANGED Lines!vars
  BY <1>2 DEF LineInv, Arguments, Lines!vars
<1> QED BY <1>1, <1>2

LEMMA TextFollows ==
    ASSUME Lines!TextAssumption, ~Empties, ~Zeros, LineInv
    PROVE  Lines!TextIsMeant
<1>1. /\ line \in Seq(TextChars) /\ meant \in Seq(Seq(TextChars)) /\ word \in Seq(TextChars)
      /\ Parsed(line) = [args |-> meant, current |-> word, in_quote |-> within] /\ (begun \/ word = <<>>)
      /\ begun \in BOOLEAN
  BY DEF LineInv
<1>2. Lines!Intended = Arguments
  BY DEF Lines!Intended, Arguments
<1>3. ASSUME begun => word # <<>> PROVE Lines!parse_command_args(line) = Arguments
  <2> DEFINE p == [args |-> meant, current |-> word, in_quote |-> within]
  <2>1. p.args = meant /\ p.current = word
    OBVIOUS
  <2>2. Lines!parse_command_args(line) = Lines!Flush(p).args
    BY <1>1, ParsedIs
  <2> HIDE DEF p
  <2>3. CASE begun
    BY <1>3, <2>1, <2>2, <2>3 DEF Lines!Flush, Arguments
  <2>4. CASE ~begun
    BY <1>1, <2>1, <2>2, <2>4 DEF Lines!Flush, Arguments
  <2> QED BY <2>3, <2>4
<1>4. Lines!ArgsAreMeant
  BY <1>2, <1>3 DEF Lines!ArgsAreMeant, Lines!Complete
<1>5. \A what : Lines!Stands(what) = Yields(what, Arguments)
  BY <1>2 DEF Lines!Stands, Yields
<1>6. Lines!FlattenSeq([i \in DOMAIN filled |-> Lines!Stands(filled[i])]) = Filling(filled, Arguments)
  BY <1>5 DEF Filling
<1>7. Lines!TemplateIsFilled
  <2> SUFFICES ASSUME "all" \in Lines!Range(filled) =>
                          \A i \in DOMAIN Lines!Intended : Lines!Range(Lines!Intended[i]) \cap Lines!Digits = {}
               PROVE  Lines!expand_slash_command = Filling(filled, Arguments)
    BY <1>6 DEF Lines!TemplateIsFilled
  <2>1. CASE slots
    <3>1. Lines!parse_command_args(line) = Arguments
      BY <1>3, <2>1 DEF LineInv
    <3>2. Lines!substitute_args(body, Arguments) = Filling(filled, Arguments)
      BY <1>2, <2>1 DEF LineInv
    <3> QED BY <3>1, <3>2 DEF Lines!expand_slash_command
  <2>2. CASE ~slots
    <3> DEFINE args == Lines!parse_command_args(line)
    <3>1. body = <<>> /\ filled = <<>>
      BY <2>2 DEF LineInv
    <3>2. args \in Seq(Seq(TextChars))
      <4>1. args = Lines!Flush(Parsed(line)).args
        BY <1>1, ParsedIs
      <4>2. Append(meant, word) \in Seq(Seq(TextChars))
        BY <1>1
      <4> QED BY <1>1, <4>1, <4>2 DEF Lines!Flush
    <3> HIDE DEF args
    <3>3. Lines!substitute_args(<<>>, args) = <<>>
      BY <3>2, NothingFills
    <3>4. Filling(<<>>, Arguments) = <<>>
      BY <1>1, ArgumentsType, NothingFills
    <3> QED BY <3>1, <3>3, <3>4 DEF Lines!expand_slash_command, args
  <2> QED BY <2>1, <2>2
<1> QED BY <1>4, <1>7 DEF Lines!TextIsMeant

\* A prompt's template is filled with the arguments the user means by the line, for any characters
\* and any lengths: when no argument is empty and the template does not write $0.
THEOREM TextHolds ==
    ASSUME ~Empties, ~Zeros
    PROVE  SessionSpec => []TextIsMeant
<1>0. Lines!TextAssumption
  BY SessionAssumption
<1>1. SessionInit => LineInv
  BY <1>0, TextStart DEF SessionInit
<1>2. LineInv /\ [SessionNext]_sessionVars => LineInv'
  <2> SUFFICES ASSUME LineInv, [SessionNext]_sessionVars PROVE LineInv'
    OBVIOUS
  <2>1. [Lines!Next]_(Lines!vars)
    BY DEF SessionNext, sessionVars, textVars, Lines!vars
  <2> QED BY <1>0, <2>1, TextStep
<1>3. LineInv => TextIsMeant
  BY <1>0, TextFollows DEF TextIsMeant
<1> QED BY <1>1, <1>2, <1>3, PTL DEF SessionSpec

-----------------------------------------------------------------------------
\* Patterns: the characters they are written with, but for the level's.
Signs == {"star", "question", "open", "close", "escape", "not", "dash", "a", "b", "c", "colon"}
PatternChars == (Globs!Characters \cup Signs) \ {"high"}
ModelChars == Globs!Characters \cup {"slash"}

\* A piece stands in the pattern p from position i on, and the next one from position next on.
Placed(what, p, i, next) ==
    /\ i \in 1 .. Len(p) /\ next \in i + 1 .. Len(p) + 1
    /\ what = "some" => next = i + 1 /\ p[i] = "star"
    /\ what = "any" => next = i + 2 /\ p[i] = "star" /\ p[i + 1] = "star"
    /\ what \in Globs!Wild => next > Len(p) \/ p[next] # "star"
    /\ what = "one" => next = i + 1 /\ p[i] = "question"
    /\ what = "either" => /\ next = i + 5 /\ p[i] = "open" /\ p[i + 1] = "escape" /\ p[i + 2] = "a"
                          /\ p[i + 3] = "b" /\ p[i + 4] = "close"
    /\ what = "range" => /\ next = i + 5 /\ p[i] = "open" /\ p[i + 1] = "a" /\ p[i + 2] = "dash"
                         /\ p[i + 3] = "c" /\ p[i + 4] = "close"
    /\ what = "except" => /\ next = i + 4 /\ p[i] = "open" /\ p[i + 1] = "not" /\ p[i + 2] = "a"
                          /\ p[i + 3] = "close"
    /\ what = "quoted" => next = i + 2 /\ p[i] = "escape" /\ p[i + 1] = "star"
    /\ what = "bracket" => next = i + 1 /\ p[i] = "open" /\ \A m \in i + 1 .. Len(p) : p[m] # "close"
    /\ what \notin Globs!Kinds => next = i + 1 /\ p[i] = what

\* The pieces stand one behind the other.
Laid(pieces, p, start) ==
    /\ start \in [1 .. Len(pieces) + 1 -> Nat] /\ start[1] = 1 /\ start[Len(pieces) + 1] = Len(p) + 1
    /\ \A k \in 1 .. Len(pieces) : Placed(pieces[k], p, start[k], start[k + 1])

LEMMA WrittenIs ==
    ASSUME NEW what \in Marks
    PROVE  /\ what = "some" => Globs!Written[what] = <<"star">>
           /\ what = "any" => Globs!Written[what] = <<"star", "star">>
           /\ what = "one" => Globs!Written[what] = <<"question">>
           /\ what = "either" => Globs!Written[what] = <<"open", "escape", "a", "b", "close">>
           /\ what = "range" => Globs!Written[what] = <<"open", "a", "dash", "c", "close">>
           /\ what = "except" => Globs!Written[what] = <<"open", "not", "a", "close">>
           /\ what = "quoted" => Globs!Written[what] = <<"escape", "star">>
           /\ what = "bracket" => Globs!Written[what] = <<"open">>
           /\ what \notin Globs!Kinds => Globs!Written[what] = <<what>>
  BY DEF Globs!Written, Globs!Kinds

LEMMA WrittenType ==
    ASSUME Globs!PatternAssumption, NEW what \in Marks
    PROVE  Globs!Written[what] \in Seq(PatternChars) /\ Globs!Written[what] # <<>>
<1>1. what \in Globs!Kinds \/ what \in Globs!Characters \ {"star", "question", "open", "escape", "high"}
  BY DEF Globs!PatternAssumption
<1>2. CASE what \in Globs!Kinds
  <2>1. {"star", "question", "open", "close", "escape", "not", "dash", "a", "b", "c"} \subseteq PatternChars
    BY DEF PatternChars, Signs
  <2> DEFINE S == Seq(PatternChars) \ {<<>>}
  <2>2. /\ <<"star">> \in S /\ <<"star", "star">> \in S /\ <<"question">> \in S /\ <<"open">> \in S
        /\ <<"open", "escape", "a", "b", "close">> \in S /\ <<"open", "a", "dash", "c", "close">> \in S
        /\ <<"open", "not", "a", "close">> \in S /\ <<"escape", "star">> \in S
    BY <2>1
  <2> HIDE DEF S
  <2>3. Globs!Written[what] \in S
    BY <1>2, <2>2, WrittenIs DEF Globs!Kinds
  <2> QED BY <2>3 DEF S
<1>3. CASE what \notin Globs!Kinds
  <2>1. Globs!Written[what] = <<what>> /\ what \in PatternChars
    BY <1>1, <1>3, WrittenIs DEF PatternChars
  <2> QED BY <2>1
<1> QED BY <1>2, <1>3

\* What stood in a pattern stands in a longer one: unless a star meets a star, or a bracket is closed.
LEMMA StaysPlaced ==
    ASSUME NEW C, NEW p \in Seq(C), NEW w \in Seq(C), w # <<>>, NEW what, NEW i, NEW next, Placed(what, p, i, next),
           what \in Globs!Wild /\ next = Len(p) + 1 => w[1] # "star",
           what = "bracket" => \A m \in 1 .. Len(w) : w[m] # "close"
    PROVE  Placed(what, p \o w, i, next)
<1> DEFINE q == p \o w
<1>1. /\ q \in Seq(C) /\ Len(q) = Len(p) + Len(w) /\ Len(p) \in Nat /\ Len(w) \in Nat /\ Len(w) >= 1
      /\ i \in 1 .. Len(p) /\ next \in i + 1 .. Len(p) + 1
  BY DEF Placed
<1>2. \A m \in 1 .. Len(p) : q[m] = p[m]
  OBVIOUS
<1>3. \A m \in 1 .. Len(w) : q[Len(p) + m] = w[m]
  OBVIOUS
<1> HIDE DEF q
<1>4. i \in 1 .. Len(q) /\ next \in i + 1 .. Len(q) + 1
  BY <1>1
<1>5. q[i] = p[i]
  BY <1>1, <1>2
<1>6. what \in Globs!Wild => next > Len(q) \/ q[next] # "star"
  <2> SUFFICES ASSUME what \in Globs!Wild PROVE q[next] # "star"
    OBVIOUS
  <2>1. CASE next <= Len(p)
    BY <1>1, <1>2, <2>1 DEF Placed
  <2>2. CASE next = Len(p) + 1
    <3>1. 1 \in 1 .. Len(w) /\ q[Len(p) + 1] = w[1]
      BY <1>1, <1>3
    <3> QED BY <2>2, <3>1
  <2> QED BY <1>1, <2>1, <2>2
<1>7. what = "bracket" => \A m \in i + 1 .. Len(q) : q[m] # "close"
  <2> SUFFICES ASSUME what = "bracket", NEW m \in i + 1 .. Len(q) PROVE q[m] # "close"
    OBVIOUS
  <2>1. CASE m <= Len(p)
    <3>1. m \in 1 .. Len(p) /\ m \in i + 1 .. Len(p)
      BY <1>1, <2>1
    <3> QED BY <1>2, <3>1 DEF Placed
  <2>2. CASE m > Len(p)
    <3>1. m - Len(p) \in 1 .. Len(w) /\ Len(p) + (m - Len(p)) = m
      BY <1>1, <2>2
    <3>2. q[Len(p) + (m - Len(p))] = w[m - Len(p)]
      BY <1>3, <3>1
    <3> QED BY <3>1, <3>2
  <2> QED BY <1>1, <2>1, <2>2
<1>8. /\ next >= i + 2 => q[i + 1] = p[i + 1]
      /\ next >= i + 3 => q[i + 2] = p[i + 2]
      /\ next >= i + 4 => q[i + 3] = p[i + 3]
      /\ next >= i + 5 => q[i + 4] = p[i + 4]
  <2>1. /\ next >= i + 2 => i + 1 \in 1 .. Len(p)
        /\ next >= i + 3 => i + 2 \in 1 .. Len(p)
        /\ next >= i + 4 => i + 3 \in 1 .. Len(p)
        /\ next >= i + 5 => i + 4 \in 1 .. Len(p)
    BY <1>1
  <2> QED BY <1>2, <2>1
<1>9. Placed(what, q, i, next)
  BY <1>1, <1>4, <1>5, <1>6, <1>7, <1>8 DEF Placed
<1> QED BY <1>9 DEF q

\* A piece that is written at the end stands there.
LEMMA IsPlaced ==
    ASSUME Globs!PatternAssumption, NEW what \in Marks, NEW p \in Seq(PatternChars)
    PROVE  Placed(what, p \o Globs!Written[what], Len(p) + 1, Len(p) + Len(Globs!Written[what]) + 1)
<1> DEFINE w == Globs!Written[what]
           q == p \o w
<1>1. w \in Seq(PatternChars) /\ w # <<>>
  BY WrittenType
<1>2. /\ q \in Seq(PatternChars) /\ Len(q) = Len(p) + Len(w) /\ Len(p) \in Nat /\ Len(w) \in Nat /\ Len(w) >= 1
      /\ \A m \in 1 .. Len(w) : q[Len(p) + m] = w[m]
  <2> HIDE DEF w
  <2> QED BY <1>1
<1>3. /\ what = "some" => w = <<"star">>
      /\ what = "any" => w = <<"star", "star">>
      /\ what = "one" => w = <<"question">>
      /\ what = "either" => w = <<"open", "escape", "a", "b", "close">>
      /\ what = "range" => w = <<"open", "a", "dash", "c", "close">>
      /\ what = "except" => w = <<"open", "not", "a", "close">>
      /\ what = "quoted" => w = <<"escape", "star">>
      /\ what = "bracket" => w = <<"open">>
      /\ what \notin Globs!Kinds => w = <<what>>
  BY WrittenIs
<1> HIDE DEF q, w
<1> DEFINE i == Len(p) + 1
           next == Len(p) + Len(w) + 1
<1>4. i \in 1 .. Len(q) /\ next = Len(q) + 1 /\ next = i + Len(w) /\ next \in i + 1 .. Len(q) + 1
  BY <1>2
<1>5. /\ q[i] = w[1]
      /\ Len(w) >= 2 => q[i + 1] = w[2]
      /\ Len(w) >= 3 => q[i + 2] = w[3]
      /\ Len(w) >= 4 => q[i + 3] = w[4]
      /\ Len(w) >= 5 => q[i + 4] = w[5]
  <2>1. /\ 1 \in 1 .. Len(w) /\ q[Len(p) + 1] = w[1]
        /\ Len(w) >= 2 => q[Len(p) + 2] = w[2]
        /\ Len(w) >= 3 => q[Len(p) + 3] = w[3]
        /\ Len(w) >= 4 => q[Len(p) + 4] = w[4]
        /\ Len(w) >= 5 => q[Len(p) + 5] = w[5]
    BY <1>2
  <2>2. i + 1 = Len(p) + 2 /\ i + 2 = Len(p) + 3 /\ i + 3 = Len(p) + 4 /\ i + 4 = Len(p) + 5
    BY <1>2
  <2> QED BY <2>1, <2>2
<1> HIDE DEF i, next
<1>6. ASSUME NEW m \in i + 1 .. Len(q) PROVE Len(w) > 1
  BY <1>2, <1>4
<1>7. Placed(what, q, i, next)
  <2>1. CASE what = "some"
    <3>1. w = <<"star">> /\ Len(w) = 1
      BY <1>3, <2>1
    <3>2. w[1] = "star"
      BY <3>1
    <3> QED BY <1>2, <1>4, <1>5, <2>1, <3>1, <3>2 DEF Placed, Globs!Wild, Globs!Kinds
  <2>2. CASE what = "any"
    <3>1. w = <<"star", "star">> /\ Len(w) = 2
      BY <1>3, <2>2
    <3>2. w[1] = "star" /\ w[2] = "star"
      BY <3>1
    <3> QED BY <1>2, <1>4, <1>5, <2>2, <3>1, <3>2 DEF Placed, Globs!Wild, Globs!Kinds
  <2>5. CASE what = "one"
    <3>1. w = <<"question">> /\ Len(w) = 1
      BY <1>3, <2>5
    <3>2. w[1] = "question"
      BY <3>1
    <3> QED BY <1>2, <1>4, <1>5, <2>5, <3>1, <3>2 DEF Placed, Globs!Wild, Globs!Kinds
  <2>6. CASE what = "either"
    <3>1. w = <<"open", "escape", "a", "b", "close">> /\ Len(w) = 5
      BY <1>3, <2>6
    <3>2. w[1] = "open" /\ w[2] = "escape" /\ w[3] = "a" /\ w[4] = "b" /\ w[5] = "close"
      BY <3>1
    <3> QED BY <1>2, <1>4, <1>5, <2>6, <3>1, <3>2 DEF Placed, Globs!Wild, Globs!Kinds
  <2>7. CASE what = "range"
    <3>1. w = <<"open", "a", "dash", "c", "close">> /\ Len(w) = 5
      BY <1>3, <2>7
    <3>2. w[1] = "open" /\ w[2] = "a" /\ w[3] = "dash" /\ w[4] = "c" /\ w[5] = "close"
      BY <3>1
    <3> QED BY <1>2, <1>4, <1>5, <2>7, <3>1, <3>2 DEF Placed, Globs!Wild, Globs!Kinds
  <2>8. CASE what = "except"
    <3>1. w = <<"open", "not", "a", "close">> /\ Len(w) = 4
      BY <1>3, <2>8
    <3>2. w[1] = "open" /\ w[2] = "not" /\ w[3] = "a" /\ w[4] = "close"
      BY <3>1
    <3> QED BY <1>2, <1>4, <1>5, <2>8, <3>1, <3>2 DEF Placed, Globs!Wild, Globs!Kinds
  <2>9. CASE what = "quoted"
    <3>1. w = <<"escape", "star">> /\ Len(w) = 2
      BY <1>3, <2>9
    <3>2. w[1] = "escape" /\ w[2] = "star"
      BY <3>1
    <3> QED BY <1>2, <1>4, <1>5, <2>9, <3>1, <3>2 DEF Placed, Globs!Wild, Globs!Kinds
  <2>3. CASE what = "bracket"
    <3>1. w = <<"open">>
      BY <1>3, <2>3
    <3> QED BY <1>2, <1>4, <1>5, <1>6, <2>3, <3>1 DEF Placed, Globs!Wild, Globs!Kinds
  <2>4. CASE what \notin Globs!Kinds
    <3>1. w = <<what>>
      BY <1>3, <2>4 DEF Globs!Kinds
    <3> QED BY <1>2, <1>4, <1>5, <2>4, <3>1 DEF Placed, Globs!Wild, Globs!Kinds
  <2> QED BY <2>1, <2>2, <2>3, <2>4, <2>5, <2>6, <2>7, <2>8, <2>9 DEF Globs!Kinds
<1> QED BY <1>7 DEF i, next, q, w

\* Which signs a piece begins with and has.
LEMMA WrittenHas ==
    ASSUME Globs!PatternAssumption, NEW what \in Marks
    PROVE  /\ what \notin Globs!Wild => Globs!Written[what][1] # "star"
           /\ what \notin Globs!Classes \cup {"close"} =>
                 \A m \in 1 .. Len(Globs!Written[what]) : Globs!Written[what][m] # "close"
<1> DEFINE w == Globs!Written[what]
<1>1. what \notin Globs!Kinds => what \notin {"star", "question", "open", "escape", "high"}
  BY DEF Globs!PatternAssumption
<1>2. what \notin Globs!Wild => w[1] # "star"
  BY <1>1, WrittenIs DEF Globs!Wild, Globs!Kinds
<1>3. ASSUME what \notin Globs!Classes \cup {"close"}, NEW m \in 1 .. Len(w) PROVE w[m] # "close"
  <2>1. w = <<"star">> \/ w = <<"star", "star">> \/ w = <<"question">> \/ w = <<"escape", "star">> \/ w = <<"open">> \/ w = <<what>>
    BY <1>3, WrittenIs DEF Globs!Classes, Globs!Kinds
  <2> HIDE DEF w
  <2>2. what # "close" /\ m \in 1 .. Len(w)
    BY <1>3
  <2> QED BY <2>1, <2>2
<1> QED BY <1>2, <1>3

\* Another piece stands behind those that stand.
LEMMA LaidGrows ==
    ASSUME Globs!PatternAssumption, NEW pieces \in Seq(Marks), NEW what \in Marks, NEW p \in Seq(PatternChars),
           NEW start, Laid(pieces, p, start),
           pieces # <<>> /\ pieces[Len(pieces)] \in Globs!Wild => what \notin Globs!Wild,
           (\E k \in 1 .. Len(pieces) : pieces[k] = "bracket") => what \notin Globs!Classes \cup {"close"}
    PROVE  \E more : Laid(Append(pieces, what), p \o Globs!Written[what], more)
<1> DEFINE w == Globs!Written[what]
           q == p \o w
           n == Len(pieces)
           all == Append(pieces, what)
           more == [k \in 1 .. n + 2 |-> IF k <= n + 1 THEN start[k] ELSE Len(p) + Len(w) + 1]
<1>1. w \in Seq(PatternChars) /\ w # <<>>
  BY WrittenType
<1>2. /\ q \in Seq(PatternChars) /\ Len(q) = Len(p) + Len(w) /\ Len(p) \in Nat /\ Len(w) \in Nat /\ n \in Nat
      /\ Len(all) = n + 1 /\ all[n + 1] = what /\ \A k \in 1 .. n : all[k] = pieces[k]
  <2> HIDE DEF w
  <2> QED BY <1>1
<1>3. Placed(what, q, Len(p) + 1, Len(p) + Len(w) + 1)
  BY IsPlaced
<1>4. start \in [1 .. n + 1 -> Nat] /\ start[1] = 1 /\ start[n + 1] = Len(p) + 1
  BY DEF Laid
<1>5. ASSUME NEW k \in 1 .. n PROVE Placed(pieces[k], q, start[k], start[k + 1])
  <2>1. Placed(pieces[k], p, start[k], start[k + 1])
    BY DEF Laid
  <2>2. ASSUME pieces[k] \in Globs!Wild, start[k + 1] = Len(p) + 1 PROVE w[1] # "star"
    <3>1. k = n
      <4>1. CASE k < n
        <5>1. k + 1 \in 1 .. n
          BY <1>2, <4>1
        <5>2. Placed(pieces[k + 1], p, start[k + 1], start[k + 1 + 1])
          BY <5>1 DEF Laid
        <5>3. start[k + 1] \in 1 .. Len(p)
          BY <5>2 DEF Placed
        <5> QED BY <1>2, <2>2, <5>3
      <4> QED BY <1>2, <4>1
    <3>2. what \notin Globs!Wild
      BY <2>2, <3>1
    <3> QED BY <3>2, WrittenHas
  <2>3. ASSUME pieces[k] = "bracket" PROVE \A m \in 1 .. Len(w) : w[m] # "close"
    <3>1. what \notin Globs!Classes \cup {"close"}
      BY <2>3
    <3> QED BY <3>1, WrittenHas
  <2> HIDE DEF w
  <2>4. Placed(pieces[k], p \o w, start[k], start[k + 1])
    BY <1>1, <2>1, <2>2, <2>3, StaysPlaced
  <2> QED BY <2>4
<1> HIDE DEF q, w, n, all
<1>6. more \in [1 .. n + 2 -> Nat] /\ more[n + 2] = Len(q) + 1 /\ \A k \in 1 .. n + 1 : more[k] = start[k]
  BY <1>2, <1>4
<1> HIDE DEF more
<1>7. Laid(all, q, more)
  <2>1. more \in [1 .. Len(all) + 1 -> Nat] /\ more[1] = 1 /\ more[Len(all) + 1] = Len(q) + 1
    BY <1>2, <1>4, <1>6
  <2>2. ASSUME NEW k \in 1 .. Len(all) PROVE Placed(all[k], q, more[k], more[k + 1])
    <3>1. CASE k \in 1 .. n
      <4>1. more[k] = start[k] /\ more[k + 1] = start[k + 1] /\ all[k] = pieces[k]
        BY <1>2, <1>6, <3>1
      <4> QED BY <1>5, <3>1, <4>1
    <3>2. CASE k = n + 1
      <4>1. more[k] = Len(p) + 1 /\ more[k + 1] = Len(p) + Len(w) + 1 /\ all[k] = what
        BY <1>2, <1>4, <1>6, <3>2
      <4> QED BY <1>3, <4>1
    <3> QED BY <1>2, <3>1, <3>2
  <2> QED BY <2>1, <2>2 DEF Laid
<1> QED BY <1>7 DEF all, q, w

\* How many stars stand in a row.
LEMMA StarsAre ==
    ASSUME NEW C, NEW p \in Seq(C), NEW i \in 1 .. Len(p), p[i] = "star"
    PROVE  Streak(p, i, "star", Globs!Stars(p, i))
<1>1. \E n : Streak(p, i, "star", n)
  BY RowIs
<1> QED BY <1>1, Zenon DEF Streak, Globs!Stars

\* Where a class ends.
LEMMA ClassEnds ==
    ASSUME NEW C, NEW p \in Seq(C), NEW i \in 1 .. Len(p)
    PROVE  \/ Globs!ClassEnd(p, i) = 0 /\ \A m \in i + 1 .. Len(p) : p[m] # "close"
           \/ FirstAt(p, i + 1, "close", Globs!ClassEnd(p, i))
<1> DEFINE ends == {j \in i + 1 .. Len(p) : p[j] = "close"}
           e == Globs!ClassEnd(p, i)
<1>1. Len(p) \in Nat /\ i + 1 \in Nat
  OBVIOUS
<1>2. e = IF ends = {} THEN 0 ELSE CHOOSE j \in ends : \A k \in ends : j <= k
  BY DEF Globs!ClassEnd
<1> HIDE DEF e
<1>3. CASE ends = {}
  BY <1>2, <1>3 DEF e
<1>4. CASE ends # {}
  BY <1>1, <1>2, <1>4, FirstIs DEF e
<1> QED BY <1>3, <1>4

LEMMA WidthIs ==
    ASSUME NEW C, NEW p \in Seq(C), NEW i \in 1 .. Len(p)
    PROVE  i + Globs!Width(p, i) \in i + 1 .. Len(p) + 1
<1>1. Len(p) \in Nat /\ i \in Nat /\ i <= Len(p)
  OBVIOUS
<1>2. CASE p[i] = "open" /\ Globs!Closed(p, i)
  <2>1. Globs!Width(p, i) = Globs!ClassEnd(p, i) - i + 1
    BY <1>2 DEF Globs!Width
  <2>2. Globs!ClassEnd(p, i) \in i + 1 .. Len(p)
    BY <1>2, ClassEnds DEF Globs!Closed, FirstAt
  <2> HIDE DEF Globs!ClassEnd
  <2> QED BY <1>1, <2>1, <2>2
<1>3. CASE p[i] = "escape" /\ i < Len(p)
  <2>1. Globs!Width(p, i) = 2
    BY <1>3 DEF Globs!Width
  <2> QED BY <1>1, <1>3, <2>1
<1>4. CASE ~(p[i] = "open" /\ Globs!Closed(p, i)) /\ ~(p[i] = "escape" /\ i < Len(p))
  <2>1. Globs!Width(p, i) = 1
    BY <1>4 DEF Globs!Width
  <2> QED BY <1>1, <2>1
<1> QED BY <1>2, <1>3, <1>4

\* How far a star goes.
LEMMA ReachIs ==
    ASSUME NEW C, NEW v \in Seq(C), NEW p, NEW i, NEW j \in 1 .. Len(v) + 1
    PROVE  /\ Globs!Reach(p, v, i, j) \in j .. Len(v) + 1
           /\ Globs!Stars(p, i) > 1 => Globs!Reach(p, v, i, j) = Len(v) + 1
           /\ ~(Globs!Stars(p, i) > 1) =>
                 \A k \in j .. Len(v) + 1 : k <= Globs!Reach(p, v, i, j) <=> \A l \in j .. k - 1 : v[l] # "slash"
<1> DEFINE slashes == {k \in j .. Len(v) : v[k] = "slash"}
           r == Globs!Reach(p, v, i, j)
           many == Globs!Stars(p, i) > 1
<1>1. Len(v) \in Nat /\ j \in Nat /\ j <= Len(v) + 1 /\ j >= 1
  OBVIOUS
<1>2. r = IF many \/ slashes = {} THEN Len(v) + 1 ELSE CHOOSE k \in slashes : \A l \in slashes : k <= l
  BY DEF Globs!Reach
<1> HIDE DEF many, r
<1>3. CASE many
  <2>1. r = Len(v) + 1
    BY <1>2, <1>3
  <2> QED BY <1>1, <1>3, <2>1 DEF many, r
<1>4. CASE ~many /\ slashes = {}
  <2>1. r = Len(v) + 1
    BY <1>2, <1>4
  <2>2. ASSUME NEW k \in j .. Len(v) + 1, NEW l \in j .. k - 1 PROVE v[l] # "slash"
    <3>1. l \in j .. Len(v)
      BY <1>1
    <3> QED BY <1>4, <3>1
  <2>3. \A k \in j .. Len(v) + 1 : k <= r <=> \A l \in j .. k - 1 : v[l] # "slash"
    BY <1>1, <2>1, <2>2
  <2> QED BY <1>1, <1>4, <2>1, <2>3 DEF many, r
<1>5. CASE ~many /\ slashes # {}
  <2>1. r = CHOOSE k \in slashes : \A l \in slashes : k <= l
    BY <1>2, <1>5
  <2>2. FirstAt(v, j, "slash", r)
    BY <1>1, <1>5, <2>1, FirstIs
  <2>3. r \in j .. Len(v) /\ v[r] = "slash" /\ \A l \in j .. r - 1 : v[l] # "slash"
    BY <2>2 DEF FirstAt
  <2>4. ASSUME NEW k \in j .. Len(v) + 1 PROVE k <= r <=> \A l \in j .. k - 1 : v[l] # "slash"
    <3>1. ASSUME k <= r, NEW l \in j .. k - 1 PROVE v[l] # "slash"
      <4>1. l \in j .. r - 1
        BY <1>1, <2>3, <3>1
      <4> QED BY <2>3, <4>1
    <3>2. ASSUME ~(k <= r) PROVE ~ \A l \in j .. k - 1 : v[l] # "slash"
      <4>1. r \in j .. k - 1
        BY <1>1, <2>3, <3>2
      <4> QED BY <2>3, <4>1
    <3> QED BY <3>1, <3>2
  <2> HIDE DEF slashes
  <2> QED BY <1>1, <1>5, <2>3, <2>4 DEF many, r
<1> QED BY <1>3, <1>4, <1>5

\* The matcher's answers for every position in the pattern and in the text.
Cell(g, v, p, i, j) ==
    IF i > Len(p) THEN j > Len(v)
    ELSE IF p[i] = "star" THEN \E k \in j .. Globs!Reach(p, v, i, j) : g[i + Globs!Stars(p, i)][k]
    ELSE j <= Len(v) /\ Globs!Fits(p, i, v[j]) /\ g[i + Globs!Width(p, i)][j + 1]
Cells(g, v, p, i) == [j \in 1 .. Len(v) + 1 |-> Cell(g, v, p, i, j)]
Solved(g, v, p, from) == \A i \in from .. Len(p) + 1 : g[i] = Cells(g, v, p, i)

\* They depend on those for later positions only.
LEMMA CellsLookAhead ==
    ASSUME NEW C, NEW D, NEW v \in Seq(C), NEW p \in Seq(D), NEW i \in 1 .. Len(p) + 1, NEW g, NEW h,
           \A m \in i + 1 .. Len(p) + 1 : g[m] = h[m]
    PROVE  Cells(g, v, p, i) = Cells(h, v, p, i)
<1>1. Len(p) \in Nat /\ Len(v) \in Nat /\ i \in Nat
  OBVIOUS
<1>2. ASSUME NEW j \in 1 .. Len(v) + 1 PROVE Cell(g, v, p, i, j) = Cell(h, v, p, i, j)
  <2>1. CASE i > Len(p)
    BY <2>1 DEF Cell
  <2>2. CASE i <= Len(p) /\ p[i] = "star"
    <3>1. i \in 1 .. Len(p) /\ ~(i > Len(p))
      BY <1>1, <2>2
    <3>2. Streak(p, i, "star", Globs!Stars(p, i))
      BY <2>2, <3>1, StarsAre
    <3>3. i + Globs!Stars(p, i) \in i + 1 .. Len(p) + 1
      BY <1>1, <3>1, <3>2 DEF Streak
    <3>4. g[i + Globs!Stars(p, i)] = h[i + Globs!Stars(p, i)]
      BY <3>3
    <3> QED BY <2>2, <3>1, <3>4, Zenon DEF Cell
  <2>3. CASE i <= Len(p) /\ p[i] # "star"
    <3>1. i \in 1 .. Len(p) /\ ~(i > Len(p))
      BY <1>1, <2>3
    <3>2. i + Globs!Width(p, i) \in i + 1 .. Len(p) + 1
      BY <3>1, WidthIs
    <3>3. g[i + Globs!Width(p, i)] = h[i + Globs!Width(p, i)]
      BY <3>2
    <3> QED BY <2>3, <3>1, <3>3, Zenon DEF Cell
  <2> QED BY <1>1, <2>1, <2>2, <2>3
<1> QED BY <1>2, Zenon DEF Cells

\* So there is one table of them, and the matcher's answer is in it.
LEMMA TableIs ==
    ASSUME NEW C, NEW D, NEW v \in Seq(C), NEW p \in Seq(D)
    PROVE  \E g : Solved(g, v, p, 1) /\ Globs!glob_matches(v, p) = g[1][1]
<1> DEFINE N == Len(p)
           T == {d \in Nat : d <= N + 1 => \E g : Solved(g, v, p, N + 2 - d)}
<1>1. N \in Nat
  OBVIOUS
<1>2. 0 \in T
  <2>1. \A g : Solved(g, v, p, N + 2 - 0)
    BY <1>1 DEF Solved
  <2> QED BY <2>1
<1>3. ASSUME NEW d \in Nat, d \in T PROVE d + 1 \in T
  <2> SUFFICES ASSUME d + 1 <= N + 1 PROVE \E g : Solved(g, v, p, N + 2 - (d + 1))
    OBVIOUS
  <2> DEFINE at == N + 1 - d
  <2>1. /\ at \in 1 .. N + 1 /\ N + 2 - d = at + 1 /\ N + 2 - (d + 1) = at
        /\ at .. N + 1 = {at} \cup (at + 1 .. N + 1) /\ at + 1 .. N + 1 \subseteq 1 .. N + 1 /\ at \in Nat
    BY <1>1
  <2>2. PICK g : Solved(g, v, p, at + 1)
    BY <1>1, <1>3, <2>1
  <2> HIDE DEF at, T
  <2> DEFINE h == [i \in 1 .. N + 1 |-> IF i = at THEN Cells(g, v, p, at) ELSE g[i]]
  <2>3. h[at] = Cells(g, v, p, at) /\ \A m \in at + 1 .. N + 1 : h[m] = g[m]
    BY <1>1, <2>1
  <2> HIDE DEF h
  <2>4. ASSUME NEW i \in at .. N + 1 PROVE h[i] = Cells(h, v, p, i)
    <3>1. i \in 1 .. Len(p) + 1 /\ \A m \in i + 1 .. Len(p) + 1 : m \in at + 1 .. N + 1
      BY <1>1, <2>1
    <3>2. \A m \in i + 1 .. Len(p) + 1 : g[m] = h[m]
      BY <2>3, <3>1
    <3> HIDE DEF N
    <3>3. Cells(g, v, p, i) = Cells(h, v, p, i)
      BY <3>1, <3>2, CellsLookAhead
    <3>4. CASE i = at
      BY <2>3, <3>3, <3>4
    <3>5. CASE i # at
      <4>1. i \in at + 1 .. N + 1
        BY <2>1, <3>5
      <4>2. g[i] = Cells(g, v, p, i)
        BY <2>2, <4>1 DEF Solved, N
      <4> QED BY <2>3, <3>3, <4>1, <4>2
    <3> QED BY <3>4, <3>5
  <2>5. Solved(h, v, p, at)
    BY <2>4 DEF Solved
  <2> QED BY <2>1, <2>5
<1>4. Nat \subseteq T
  <2> HIDE DEF T
  <2> QED BY <1>2, <1>3, Induction
<1>5. PICK g : Solved(g, v, p, 1)
  <2>1. N + 1 \in T /\ N + 2 - (N + 1) = 1
    <3> HIDE DEF T
    <3> QED BY <1>1, <1>4
  <2> QED BY <1>1, <2>1
<1> DEFINE Computes(f) == f = [i \in 1 .. N + 1 |-> Cells(f, v, p, i)]
           h == [i \in 1 .. N + 1 |-> g[i]]
           f == CHOOSE f : Computes(f)
<1>6. Computes(h)
  <2>1. ASSUME NEW i \in 1 .. N + 1 PROVE g[i] = Cells(h, v, p, i)
    <3>1. \A m \in i + 1 .. Len(p) + 1 : g[m] = h[m]
      BY <1>1
    <3> HIDE DEF h
    <3>2. Cells(g, v, p, i) = Cells(h, v, p, i)
      BY <3>1, CellsLookAhead
    <3> QED BY <1>5, <3>2 DEF Solved
  <2> QED BY <2>1, Zenon
<1>7. Computes(f)
  <2> HIDE DEF Computes
  <2> QED BY <1>6
<1>8. Globs!glob_matches(v, p) = f[1][1]
  BY DEF Globs!glob_matches, Cells, Cell
<1>9. Solved(f, v, p, 1)
  <2> HIDE DEF f
  <2> QED BY <1>7 DEF Solved
<1> QED BY <1>8, <1>9

\* What a class takes in from position at on.
TakenIn(f, p, end, at) ==
    CASE at >= end -> {}
      [] at + 1 < end /\ p[at] = "escape" -> {p[at + 1]} \cup f[at + 2]
      [] at + 2 < end /\ p[at] # "escape" /\ p[at + 1] = "dash" -> Globs!Between(p[at], p[at + 2]) \cup f[at + 3]
      [] OTHER -> {p[at]} \cup f[at + 1]

LEMMA TakenLooksAhead ==
    ASSUME NEW end \in Nat, NEW at \in Nat, NEW p, NEW g, NEW h, \A m \in at + 1 .. end + 2 : g[m] = h[m]
    PROVE  TakenIn(g, p, end, at) = TakenIn(h, p, end, at)
<1>1. CASE at >= end
  BY <1>1 DEF TakenIn
<1>2. CASE at < end
  <2>1. at + 1 \in at + 1 .. end + 2 /\ at + 2 \in at + 1 .. end + 2 /\ (at + 2 < end => at + 3 \in at + 1 .. end + 2)
    BY <1>2
  <2>2. g[at + 1] = h[at + 1] /\ g[at + 2] = h[at + 2] /\ (at + 2 < end => g[at + 3] = h[at + 3])
    BY <2>1
  <2> QED BY <1>2, <2>2 DEF TakenIn
<1> QED BY <1>1, <1>2

LEMMA MembersAre ==
    ASSUME NEW p, NEW i \in Nat, NEW end \in Nat, end = Globs!ClassEnd(p, i)
    PROVE  \E f : /\ \A at \in i + 1 .. end + 2 : f[at] = TakenIn(f, p, end, at)
                  /\ Globs!Members(p, i) = f[Globs!ClassStart(p, i)]
<1> DEFINE Right(g, from) == \A at \in i + 1 .. end + 2 : at >= from => g[at] = TakenIn(g, p, end, at)
           T == {d \in Nat : \E g : Right(g, end + 3 - d)}
<1>1. 0 \in T
  <2>1. \A g : Right(g, end + 3 - 0)
    OBVIOUS
  <2> QED BY <2>1
<1>2. ASSUME NEW d \in Nat, d \in T PROVE d + 1 \in T
  <2> DEFINE here == end + 2 - d
  <2>1. here \in Int /\ end + 3 - d = here + 1 /\ end + 3 - (d + 1) = here
    OBVIOUS
  <2>2. PICK g : Right(g, here + 1)
    BY <1>2, <2>1
  <2> HIDE DEF here
  <2> DEFINE h == [at \in i + 1 .. end + 2 |-> IF at = here THEN TakenIn(g, p, end, at) ELSE g[at]]
  <2>3. ASSUME NEW at \in i + 1 .. end + 2, at >= here PROVE h[at] = TakenIn(h, p, end, at)
    <3>1. \A m \in at + 1 .. end + 2 : m \in i + 1 .. end + 2 /\ m # here
      BY <2>1, <2>3
    <3>2. \A m \in at + 1 .. end + 2 : g[m] = h[m]
      BY <3>1
    <3>3. h[at] = IF at = here THEN TakenIn(g, p, end, at) ELSE g[at]
      OBVIOUS
    <3> HIDE DEF h
    <3>4. at \in Nat
      OBVIOUS
    <3>5. TakenIn(g, p, end, at) = TakenIn(h, p, end, at)
      BY <3>2, <3>4, TakenLooksAhead
    <3>6. CASE at = here
      BY <3>3, <3>5, <3>6
    <3>7. CASE at # here
      <4>1. g[at] = TakenIn(g, p, end, at)
        BY <2>1, <2>2, <2>3, <3>7
      <4> QED BY <3>3, <3>5, <3>7, <4>1
    <3> QED BY <3>6, <3>7
  <2> HIDE DEF h
  <2>4. Right(h, here)
    BY <2>3
  <2> QED BY <2>1, <2>4
<1>3. Nat \subseteq T
  <2> HIDE DEF T
  <2> QED BY <1>1, <1>2, Induction
<1>4. PICK g : Right(g, 0)
  <2>1. end + 3 \in T /\ end + 3 - (end + 3) = 0
    <3> HIDE DEF T
    <3> QED BY <1>3
  <2> QED BY <2>1
<1> DEFINE Computes(f) == f = [at \in i + 1 .. end + 2 |-> TakenIn(f, p, end, at)]
           h == [at \in i + 1 .. end + 2 |-> g[at]]
           f == CHOOSE f : Computes(f)
<1>5. Computes(h)
  <2>1. ASSUME NEW at \in i + 1 .. end + 2 PROVE g[at] = TakenIn(h, p, end, at)
    <3>1. at \in Nat /\ \A m \in at + 1 .. end + 2 : g[m] = h[m]
      OBVIOUS
    <3> HIDE DEF h
    <3>2. TakenIn(g, p, end, at) = TakenIn(h, p, end, at)
      BY <3>1, TakenLooksAhead
    <3>3. g[at] = TakenIn(g, p, end, at)
      BY <1>4
    <3> QED BY <3>2, <3>3
  <2> QED BY <2>1, Zenon
<1>6. Computes(f)
  <2> HIDE DEF Computes
  <2> QED BY <1>5
<1>7. Globs!Members(p, i) = f[Globs!ClassStart(p, i)]
  BY DEF Globs!Members, TakenIn
<1>8. \A at \in i + 1 .. end + 2 : f[at] = TakenIn(f, p, end, at)
  <2> HIDE DEF f
  <2> QED BY <1>6
<1> QED BY <1>7, <1>8

\* A class ends at the first bracket that closes it, and takes in what stands before that.
ClassFrom(p, i, end, f) ==
    /\ Globs!ClassEnd(p, i) = end /\ Globs!Closed(p, i) /\ (Globs!Negated(p, i) <=> p[i + 1] = "not")
    /\ \A at \in i + 1 .. end : f[at] = TakenIn(f, p, end, at)
    /\ Globs!Members(p, i) = f[IF p[i + 1] = "not" THEN i + 2 ELSE i + 1]
    /\ f[end] = {}

LEMMA ClassIs ==
    ASSUME NEW C, NEW p \in Seq(C), NEW i \in 1 .. Len(p), NEW end, FirstAt(p, i + 1, "close", end),
           end # i + 1, end # i + 2, p[i + 1] # "caret"
    PROVE  \E f : ClassFrom(p, i, end, f)
<1>1. Len(p) \in Nat /\ i \in Nat /\ i + 1 \in Nat /\ end \in Nat /\ end >= i + 1
  BY DEF FirstAt
<1>2. Globs!ClassEnd(p, i) = end
  <2>1. FirstAt(p, i + 1, "close", Globs!ClassEnd(p, i))
    BY ClassEnds DEF FirstAt
  <2> QED BY <1>1, <2>1, FirstIsOne
<1>3. /\ Globs!Negated(p, i) <=> p[i + 1] = "not"
      /\ Globs!ClassStart(p, i) = IF p[i + 1] = "not" THEN i + 2 ELSE i + 1
  BY DEF Globs!Negated, Globs!ClassStart
<1>4. Globs!Closed(p, i)
  BY <1>1, <1>2, <1>3 DEF Globs!Closed
<1>5. PICK f : /\ \A at \in i + 1 .. end + 2 : f[at] = TakenIn(f, p, end, at)
               /\ Globs!Members(p, i) = f[Globs!ClassStart(p, i)]
  BY <1>1, <1>2, MembersAre
<1>6. f[end] = {}
  <2>1. end \in i + 1 .. end + 2 /\ TakenIn(f, p, end, end) = {}
    BY <1>1 DEF TakenIn
  <2> QED BY <1>5, <2>1
<1>7. \A at \in i + 1 .. end : f[at] = TakenIn(f, p, end, at)
  BY <1>1, <1>5
<1> QED BY <1>2, <1>3, <1>4, <1>5, <1>6, <1>7 DEF ClassFrom

LEMMA EitherTakes ==
    ASSUME NEW C, NEW p \in Seq(C), NEW i, NEW next, Placed("either", p, i, next)
    PROVE  /\ Globs!ClassEnd(p, i) = i + 4 /\ ~Globs!Negated(p, i) /\ Globs!Closed(p, i)
           /\ Globs!Members(p, i) = {"a", "b"}
<1> DEFINE end == i + 4
<1>1. /\ i \in Nat /\ i >= 1 /\ Len(p) \in Nat /\ end <= Len(p) /\ i \in 1 .. Len(p)
      /\ p[i + 1] = "escape" /\ p[i + 2] = "a" /\ p[i + 3] = "b" /\ p[i + 4] = "close"
  BY DEF Placed, Globs!Wild, Globs!Kinds
<1>2. FirstAt(p, i + 1, "close", end)
  <2>1. \A m \in i + 1 .. end - 1 : m = i + 1 \/ m = i + 2 \/ m = i + 3
    BY <1>1
  <2> QED BY <1>1, <2>1 DEF FirstAt
<1>3. PICK f : ClassFrom(p, i, end, f)
  <2>1. end # i + 1 /\ end # i + 2 /\ p[i + 1] # "caret"
    BY <1>1
  <2> HIDE DEF end
  <2> QED BY <1>1, <1>2, <2>1, ClassIs
<1>4. \A at \in i + 1 .. end : f[at] = TakenIn(f, p, end, at)
  BY <1>3 DEF ClassFrom
<1>5. f[i + 3] = {"b"}
  <2>1. TakenIn(f, p, end, i + 3) = {p[i + 3]} \cup f[i + 3 + 1]
    BY <1>1 DEF TakenIn
  <2> QED BY <1>1, <1>3, <1>4, <2>1 DEF ClassFrom
<1>6. f[i + 1] = {"a", "b"}
  <2>1. TakenIn(f, p, end, i + 1) = {p[i + 1 + 1]} \cup f[i + 1 + 2]
    BY <1>1 DEF TakenIn
  <2>2. i + 1 + 1 = i + 2 /\ i + 1 + 2 = i + 3
    BY <1>1
  <2> QED BY <1>1, <1>4, <1>5, <2>1, <2>2
<1> QED BY <1>1, <1>3, <1>6 DEF ClassFrom

LEMMA RangeTakes ==
    ASSUME NEW C, NEW p \in Seq(C), NEW i, NEW next, Placed("range", p, i, next)
    PROVE  /\ Globs!ClassEnd(p, i) = i + 4 /\ ~Globs!Negated(p, i) /\ Globs!Closed(p, i)
           /\ Globs!Members(p, i) = Globs!Between("a", "c")
<1> DEFINE end == i + 4
<1>1. /\ i \in Nat /\ i >= 1 /\ Len(p) \in Nat /\ end <= Len(p) /\ i \in 1 .. Len(p)
      /\ p[i + 1] = "a" /\ p[i + 2] = "dash" /\ p[i + 3] = "c" /\ p[i + 4] = "close"
  BY DEF Placed, Globs!Wild, Globs!Kinds
<1>2. FirstAt(p, i + 1, "close", end)
  <2>1. \A m \in i + 1 .. end - 1 : m = i + 1 \/ m = i + 2 \/ m = i + 3
    BY <1>1
  <2> QED BY <1>1, <2>1 DEF FirstAt
<1>3. PICK f : ClassFrom(p, i, end, f)
  <2>1. end # i + 1 /\ end # i + 2 /\ p[i + 1] # "caret"
    BY <1>1
  <2> HIDE DEF end
  <2> QED BY <1>1, <1>2, <2>1, ClassIs
<1>4. \A at \in i + 1 .. end : f[at] = TakenIn(f, p, end, at)
  BY <1>3 DEF ClassFrom
<1>5. f[i + 1] = Globs!Between("a", "c")
  <2>1. TakenIn(f, p, end, i + 1) = Globs!Between(p[i + 1], p[i + 1 + 2]) \cup f[i + 1 + 3]
    <3>1. p[i + 1 + 1] = "dash" /\ p[i + 1] # "escape" /\ i + 1 + 2 < end /\ ~(i + 1 >= end)
      BY <1>1
    <3> QED BY <3>1 DEF TakenIn
  <2>2. i + 1 + 2 = i + 3 /\ i + 1 + 3 = end /\ i + 1 \in i + 1 .. end
    BY <1>1
  <2>3. f[end] = {} /\ f[i + 1] = TakenIn(f, p, end, i + 1)
    BY <1>3, <1>4, <2>2 DEF ClassFrom
  <2> HIDE DEF end
  <2> QED BY <1>1, <2>1, <2>2, <2>3
<1> QED BY <1>1, <1>3, <1>5 DEF ClassFrom

LEMMA ExceptTakes ==
    ASSUME NEW C, NEW p \in Seq(C), NEW i, NEW next, Placed("except", p, i, next)
    PROVE  /\ Globs!ClassEnd(p, i) = i + 3 /\ Globs!Negated(p, i) /\ Globs!Closed(p, i)
           /\ Globs!Members(p, i) = {"a"}
<1> DEFINE end == i + 3
<1>1. /\ i \in Nat /\ i >= 1 /\ Len(p) \in Nat /\ end <= Len(p) /\ i \in 1 .. Len(p)
      /\ p[i + 1] = "not" /\ p[i + 2] = "a" /\ p[i + 3] = "close"
  BY DEF Placed, Globs!Wild, Globs!Kinds
<1>2. FirstAt(p, i + 1, "close", end)
  <2>1. \A m \in i + 1 .. end - 1 : m = i + 1 \/ m = i + 2
    BY <1>1
  <2> QED BY <1>1, <2>1 DEF FirstAt
<1>3. PICK f : ClassFrom(p, i, end, f)
  <2>1. end # i + 1 /\ end # i + 2 /\ p[i + 1] # "caret"
    BY <1>1
  <2> HIDE DEF end
  <2> QED BY <1>1, <1>2, <2>1, ClassIs
<1>4. \A at \in i + 1 .. end : f[at] = TakenIn(f, p, end, at)
  BY <1>3 DEF ClassFrom
<1>5. f[i + 2] = {"a"}
  <2>1. TakenIn(f, p, end, i + 2) = {p[i + 2]} \cup f[i + 2 + 1]
    BY <1>1 DEF TakenIn
  <2> QED BY <1>1, <1>3, <1>4, <2>1 DEF ClassFrom
<1> QED BY <1>1, <1>3, <1>5 DEF ClassFrom

\* A piece that is no star takes one character.
LEMMA OneTaken ==
    ASSUME Globs!PatternAssumption, NEW what \in Marks, what \notin Globs!Wild,
           NEW C, NEW p \in Seq(C), NEW i, NEW next, Placed(what, p, i, next)
    PROVE  /\ p[i] # "star" /\ i + Globs!Width(p, i) = next
           /\ \A c \in ModelChars : Globs!Fits(p, i, c) <=> Globs!Stands(what, <<c>>)
           /\ \A text \in Seq(ModelChars) : Globs!Stands(what, text) => Len(text) = 1
<1>1. i \in Nat /\ i >= 1 /\ i <= Len(p) /\ Len(p) \in Nat /\ next \in i + 1 .. Len(p) + 1
  BY DEF Placed
<1> DEFINE Right == /\ p[i] # "star" /\ i + Globs!Width(p, i) = next
                    /\ \A c \in ModelChars : Globs!Fits(p, i, c) <=> Globs!Stands(what, <<c>>)
                    /\ \A text \in Seq(ModelChars) : Globs!Stands(what, text) => Len(text) = 1
<1>2. CASE what = "one"
  <2>1. next = i + 1 /\ p[i] = "question"
    BY <1>2 DEF Placed
  <2>2. Globs!Width(p, i) = 1 /\ \A c : Globs!Fits(p, i, c) <=> c # "slash"
    BY <2>1 DEF Globs!Width, Globs!Fits
  <2>3. \A text : Globs!Stands(what, text) <=> Len(text) = 1 /\ text # <<"slash">>
    BY <1>2 DEF Globs!Stands, Globs!Kinds
  <2>4. \A c \in ModelChars : Globs!Stands(what, <<c>>) <=> c # "slash"
    BY <2>3
  <2> QED BY <1>1, <2>1, <2>2, <2>3, <2>4
<1>3. CASE what = "either"
  <2>1. next = i + 5 /\ p[i] = "open"
    BY <1>3 DEF Placed
  <2>2. Placed("either", p, i, next)
    BY <1>3
  <2>3. Globs!Closed(p, i) /\ Globs!ClassEnd(p, i) = i + 4 /\ ~Globs!Negated(p, i) /\ Globs!Members(p, i) = {"a", "b"}
    BY <2>2, EitherTakes
  <2>4. Globs!Width(p, i) = 5 /\ \A c : Globs!Fits(p, i, c) <=> c \in {"a", "b"}
    BY <1>1, <2>1, <2>3 DEF Globs!Width, Globs!Fits, Globs!char_class_match
  <2>5. \A text : Globs!Stands(what, text) <=> text \in {<<"a">>, <<"b">>}
    BY <1>3 DEF Globs!Stands, Globs!Kinds
  <2> QED BY <1>1, <2>1, <2>4, <2>5
<1>4. CASE what = "range"
  <2>1. next = i + 5 /\ p[i] = "open"
    BY <1>4 DEF Placed
  <2>2. Placed("range", p, i, next)
    BY <1>4
  <2>3. Globs!Closed(p, i) /\ Globs!ClassEnd(p, i) = i + 4 /\ ~Globs!Negated(p, i) /\ Globs!Members(p, i) = Globs!Between("a", "c")
    BY <2>2, RangeTakes
  <2>4. Globs!Between("a", "c") = {"a", "b", "c"} \cap Globs!Characters
    BY <1>4 DEF Globs!PatternAssumption
  <2>5. Globs!Width(p, i) = 5 /\ \A c : Globs!Fits(p, i, c) <=> c \in {"a", "b", "c"} \cap Globs!Characters
    BY <1>1, <2>1, <2>3, <2>4 DEF Globs!Width, Globs!Fits, Globs!char_class_match
  <2>6. \A text : Globs!Stands(what, text) <=> text \in {<<"a">>, <<"b">>, <<"c">>}
    BY <1>4 DEF Globs!Stands, Globs!Kinds
  <2>7. \A c \in ModelChars : c \in {"a", "b", "c"} \cap Globs!Characters <=> c \in {"a", "b", "c"}
    BY DEF ModelChars
  <2> QED BY <1>1, <2>1, <2>5, <2>6, <2>7
<1>5. CASE what = "except"
  <2>1. next = i + 4 /\ p[i] = "open"
    BY <1>5 DEF Placed
  <2>2. Placed("except", p, i, next)
    BY <1>5
  <2>3. Globs!Closed(p, i) /\ Globs!ClassEnd(p, i) = i + 3 /\ Globs!Negated(p, i) /\ Globs!Members(p, i) = {"a"}
    BY <2>2, ExceptTakes
  <2>4. Globs!Width(p, i) = 4 /\ \A c : Globs!Fits(p, i, c) <=> c # "a"
    BY <1>1, <2>1, <2>3 DEF Globs!Width, Globs!Fits, Globs!char_class_match
  <2>5. \A text : Globs!Stands(what, text) <=> Len(text) = 1 /\ text # <<"a">>
    BY <1>5 DEF Globs!Stands, Globs!Kinds
  <2>6. \A c \in ModelChars : Globs!Stands(what, <<c>>) <=> c # "a"
    BY <2>5
  <2> QED BY <1>1, <2>1, <2>4, <2>5, <2>6
<1>6. CASE what = "quoted"
  <2>1. next = i + 2 /\ p[i] = "escape" /\ p[i + 1] = "star" /\ i < Len(p)
    BY <1>1, <1>6 DEF Placed
  <2>2. Globs!Width(p, i) = 2 /\ \A c : Globs!Fits(p, i, c) <=> c = "star"
    BY <2>1 DEF Globs!Width, Globs!Fits
  <2>3. \A text : Globs!Stands(what, text) <=> text = <<"star">>
    BY <1>6 DEF Globs!Stands, Globs!Kinds
  <2> QED BY <1>1, <2>1, <2>2, <2>3
<1>7. CASE what = "bracket"
  <2>1. next = i + 1 /\ p[i] = "open" /\ \A m \in i + 1 .. Len(p) : p[m] # "close"
    BY <1>7 DEF Placed
  <2>2. Globs!ClassEnd(p, i) = 0
    BY <1>1, <2>1, ClassEnds DEF FirstAt
  <2>3. ~Globs!Closed(p, i)
    BY <2>2 DEF Globs!Closed
  <2>4. Globs!Width(p, i) = 1 /\ \A c : Globs!Fits(p, i, c) <=> c = "open"
    BY <2>1, <2>3 DEF Globs!Width, Globs!Fits
  <2>5. \A text : Globs!Stands(what, text) <=> text = <<"open">>
    BY <1>7 DEF Globs!Stands, Globs!Kinds
  <2> QED BY <1>1, <2>1, <2>4, <2>5
<1>8. CASE what \notin Globs!Kinds
  <2>1. next = i + 1 /\ p[i] = what /\ what \notin {"star", "question", "open", "escape"}
    BY <1>8 DEF Placed, Globs!PatternAssumption
  <2>2. Globs!Width(p, i) = 1 /\ \A c : Globs!Fits(p, i, c) <=> c = what
    BY <2>1 DEF Globs!Width, Globs!Fits
  <2>3. \A text : Globs!Stands(what, text) <=> text = <<what>>
    BY <1>8 DEF Globs!Stands, Globs!Kinds
  <2> QED BY <1>1, <2>1, <2>2, <2>3
<1>9. Right
  BY <1>2, <1>3, <1>4, <1>5, <1>6, <1>7, <1>8 DEF Globs!Kinds, Globs!Wild
<1> QED BY <1>9

\* The texts a piece may take from position j on, and what is left of the text.
Taking(what, v, j, m) == Globs!Stands(what, SubSeq(v, j, m - 1))

\* The matcher's answer at a piece: some text that the piece stands for, and then the answer at the next.
LEMMA CellOfPiece ==
    ASSUME Globs!PatternAssumption, NEW what \in Marks, NEW C, NEW p \in Seq(C), NEW i, NEW next,
           Placed(what, p, i, next), NEW v \in Seq(ModelChars), NEW g, Solved(g, v, p, 1), NEW j \in 1 .. Len(v) + 1
    PROVE  g[i][j] <=> \E m \in j .. Len(v) + 1 : Taking(what, v, j, m) /\ g[next][m]
<1>1. /\ i \in 1 .. Len(p) /\ i \in Nat /\ Len(p) \in Nat /\ next \in i + 1 .. Len(p) + 1
      /\ Len(v) \in Nat /\ j \in Nat /\ j >= 1 /\ j <= Len(v) + 1
  BY DEF Placed
<1>2. g[i][j] <=> Cell(g, v, p, i, j)
  <2>1. i \in 1 .. Len(p) + 1 /\ g[i] = Cells(g, v, p, i)
    BY <1>1 DEF Solved
  <2>2. g[i][j] = Cell(g, v, p, i, j)
    BY <2>1 DEF Cells
  <2> QED BY <2>2, Zenon
<1>3. CASE what \in Globs!Wild
  <2>1. p[i] = "star"
    BY <1>3 DEF Placed, Globs!Wild
  <2>2. Globs!Stars(p, i) = next - i
    <3> DEFINE n == next - i
    <3>1. n \in 1 .. Len(p) - i + 1 /\ i + n = next /\ (next > Len(p) \/ p[next] # "star")
      BY <1>1, <1>3 DEF Placed
    <3>2. ASSUME NEW k \in 0 .. n - 1 PROVE p[i + k] = "star"
      <4>1. CASE what = "some"
        <5>1. next = i + 1
          BY <4>1 DEF Placed
        <5>2. k = 0 /\ i + k = i
          BY <1>1, <5>1
        <5> QED BY <2>1, <5>2
      <4>2. CASE what = "any"
        <5>1. next = i + 2 /\ p[i + 1] = "star"
          BY <4>2 DEF Placed
        <5>2. (k = 0 /\ i + k = i) \/ (k = 1 /\ i + k = i + 1)
          BY <1>1, <5>1
        <5> QED BY <2>1, <5>1, <5>2
      <4> QED BY <1>3, <4>1, <4>2 DEF Globs!Wild
    <3> HIDE DEF n
    <3>3. Streak(p, i, "star", n)
      BY <3>1, <3>2 DEF Streak
    <3>4. Globs!Stars(p, i) = n
      BY <1>1, <2>1, <3>3, StarsAre, RowIsOne
    <3> QED BY <3>4 DEF n
  <2> DEFINE r == Globs!Reach(p, v, i, j)
  <2>3. Cell(g, v, p, i, j) <=> \E k \in j .. r : g[next][k]
    <3>1. ~(i > Len(p)) /\ i + Globs!Stars(p, i) = next
      BY <1>1, <2>2
    <3> QED BY <2>1, <3>1, Zenon DEF Cell
  <2>4. /\ r \in j .. Len(v) + 1
        /\ \A m \in j .. Len(v) + 1 : m <= r <=> Taking(what, v, j, m)
    <3>1. /\ Globs!Reach(p, v, i, j) \in j .. Len(v) + 1
          /\ Globs!Stars(p, i) > 1 => Globs!Reach(p, v, i, j) = Len(v) + 1
          /\ ~(Globs!Stars(p, i) > 1) =>
                \A k \in j .. Len(v) + 1 : k <= Globs!Reach(p, v, i, j) <=> \A l \in j .. k - 1 : v[l] # "slash"
      BY ReachIs
    <3> HIDE DEF r
    <3>2. CASE what = "some"
      <4>1. ~(Globs!Stars(p, i) > 1)
        BY <1>1, <2>2, <3>2 DEF Placed
      <4>2. ASSUME NEW m \in j .. Len(v) + 1
            PROVE  Taking(what, v, j, m) <=> \A l \in j .. m - 1 : v[l] # "slash"
        <5> DEFINE t == SubSeq(v, j, m - 1)
        <5>1. Len(t) = m - j /\ \A k \in 1 .. m - j : t[k] = v[j + k - 1]
          BY <1>1
        <5>2. Globs!Range(t) = {t[k] : k \in 1 .. m - j}
          <6>1. DOMAIN t = 1 .. m - j
            BY <1>1
          <6> QED BY <6>1 DEF Globs!Range
        <5> HIDE DEF t
        <5>3. "slash" \notin Globs!Range(t) <=> \A k \in 1 .. m - j : t[k] # "slash"
          BY <5>2
        <5>4. ASSUME NEW k \in 1 .. m - j PROVE j + k - 1 \in j .. m - 1
          BY <1>1
        <5>5. ASSUME NEW l \in j .. m - 1 PROVE l - j + 1 \in 1 .. m - j /\ j + (l - j + 1) - 1 = l
          BY <1>1
        <5>6. ASSUME \A k \in 1 .. m - j : t[k] # "slash", NEW l \in j .. m - 1 PROVE v[l] # "slash"
          <6>1. l - j + 1 \in 1 .. m - j /\ j + (l - j + 1) - 1 = l
            BY <5>5
          <6>2. t[l - j + 1] = v[j + (l - j + 1) - 1]
            BY <5>1, <6>1
          <6> QED BY <5>6, <6>1, <6>2
        <5>7. ASSUME \A l \in j .. m - 1 : v[l] # "slash", NEW k \in 1 .. m - j PROVE t[k] # "slash"
          BY <5>1, <5>4, <5>7
        <5>8. Globs!Stands(what, t) <=> "slash" \notin Globs!Range(t)
          BY <3>2 DEF Globs!Stands, Globs!Kinds
        <5> QED BY <5>3, <5>6, <5>7, <5>8 DEF Taking, t
      <4> QED BY <3>1, <4>1, <4>2 DEF r
    <3>3. CASE what = "any"
      <4>1. Globs!Stars(p, i) > 1
        BY <1>1, <2>2, <3>3 DEF Placed
      <4>2. r = Len(v) + 1
        BY <3>1, <4>1 DEF r
      <4>3. \A m : Taking(what, v, j, m)
        BY <3>3 DEF Taking, Globs!Stands, Globs!Kinds
      <4> QED BY <1>1, <4>2, <4>3
    <3> QED BY <1>3, <3>2, <3>3 DEF Globs!Wild
  <2> HIDE DEF r
  <2>5. (\E k \in j .. r : g[next][k]) <=> \E m \in j .. Len(v) + 1 : m <= r /\ g[next][m]
    <3>1. \A k : k \in j .. r <=> k \in j .. Len(v) + 1 /\ k <= r
      BY <1>1, <2>4
    <3> QED BY <3>1, Zenon
  <2> QED BY <1>2, <2>3, <2>4, <2>5, Zenon
<1>4. CASE what \notin Globs!Wild
  <2>1. p[i] # "star" /\ i + Globs!Width(p, i) = next
    BY <1>4, OneTaken
  <2>2. \A c \in ModelChars : Globs!Fits(p, i, c) <=> Globs!Stands(what, <<c>>)
    BY <1>4, OneTaken
  <2>3. \A text \in Seq(ModelChars) : Globs!Stands(what, text) => Len(text) = 1
    BY <1>4, OneTaken
  <2>4. Cell(g, v, p, i, j) <=> j <= Len(v) /\ Globs!Fits(p, i, v[j]) /\ g[next][j + 1]
    <3>1. ~(i > Len(p))
      BY <1>1
    <3> QED BY <2>1, <3>1, Zenon DEF Cell
  <2>5. ASSUME NEW m \in j .. Len(v) + 1, Taking(what, v, j, m) PROVE m = j + 1
    <3>1. SubSeq(v, j, m - 1) \in Seq(ModelChars) /\ Len(SubSeq(v, j, m - 1)) = m - j
      BY <1>1
    <3>2. Len(SubSeq(v, j, m - 1)) = 1
      BY <2>3, <2>5, <3>1 DEF Taking
    <3> QED BY <1>1, <3>1, <3>2
  <2>6. ASSUME j <= Len(v) PROVE Taking(what, v, j, j + 1) <=> Globs!Fits(p, i, v[j])
    <3> DEFINE t == SubSeq(v, j, j)
    <3>1. v[j] \in ModelChars /\ j + 1 - 1 = j
      BY <1>1, <2>6
    <3>2. t \in Seq(ModelChars) /\ Len(t) = 1 /\ t[1] = v[j]
      BY <1>1, <2>6
    <3> HIDE DEF t
    <3>3. t = <<v[j]>>
      BY <3>2
    <3>4. Globs!Stands(what, t) <=> Globs!Fits(p, i, v[j])
      BY <2>2, <3>1, <3>3
    <3> QED BY <3>1, <3>4 DEF Taking, t
  <2>7. ASSUME j <= Len(v) PROVE j + 1 \in j .. Len(v) + 1
    BY <1>1, <2>7
  <2>8. ASSUME j + 1 \in j .. Len(v) + 1 PROVE j <= Len(v)
    BY <1>1, <2>8
  <2> QED BY <1>2, <2>4, <2>5, <2>6, <2>7, <2>8, Zenon
<1> QED BY <1>3, <1>4

\* The text can be cut from position j on so that each piece from the k-th on stands for its part.
MeantFrom(v, k, j) ==
    \E cut \in [0 .. Len(pattern) -> 0 .. Len(v)] :
        /\ cut[k - 1] = j - 1 /\ cut[Len(pattern)] = Len(v)
        /\ \A l \in k .. Len(pattern) :
              cut[l - 1] <= cut[l] /\ Globs!Stands(pattern[l], SubSeq(v, cut[l - 1] + 1, cut[l]))

\* The first piece takes some of it, and the others the rest.
LEMMA MeantNext ==
    ASSUME NEW C, NEW v \in Seq(C), NEW P, pattern \in Seq(P), NEW k \in 1 .. Len(pattern), NEW j \in 1 .. Len(v) + 1
    PROVE  MeantFrom(v, k, j) <=> \E m \in j .. Len(v) + 1 : Taking(pattern[k], v, j, m) /\ MeantFrom(v, k + 1, m)
<1> DEFINE n == Len(pattern)
<1>1. /\ n \in Nat /\ k \in Nat /\ k >= 1 /\ k <= n /\ Len(v) \in Nat /\ j \in Nat /\ j >= 1 /\ j <= Len(v) + 1
      /\ k + 1 - 1 = k
  OBVIOUS
<1>2. ASSUME MeantFrom(v, k, j)
      PROVE  \E m \in j .. Len(v) + 1 : Taking(pattern[k], v, j, m) /\ MeantFrom(v, k + 1, m)
  <2>1. PICK cut \in [0 .. n -> 0 .. Len(v)] :
            /\ cut[k - 1] = j - 1 /\ cut[n] = Len(v)
            /\ \A l \in k .. n :
                  cut[l - 1] <= cut[l] /\ Globs!Stands(pattern[l], SubSeq(v, cut[l - 1] + 1, cut[l]))
    BY <1>2 DEF MeantFrom
  <2> DEFINE m == cut[k] + 1
  <2>2. k \in k .. n /\ cut[k] \in 0 .. Len(v) /\ cut[k - 1] <= cut[k] /\ m - 1 = cut[k] /\ cut[k - 1] + 1 = j
    BY <1>1, <2>1
  <2>3. m \in j .. Len(v) + 1
    BY <1>1, <2>1, <2>2
  <2>4. Taking(pattern[k], v, j, m)
    <3>1. Globs!Stands(pattern[k], SubSeq(v, cut[k - 1] + 1, cut[k]))
      BY <2>1, <2>2
    <3> QED BY <2>2, <3>1 DEF Taking
  <2>5. MeantFrom(v, k + 1, m)
    <3>1. cut[k + 1 - 1] = m - 1
      BY <1>1, <2>2
    <3>2. \A l \in k + 1 .. n : l \in k .. n
      BY <1>1
    <3> DEFINE later == k + 1
    <3>3. cut[later - 1] = m - 1 /\ \A l \in later .. n : l \in k .. n
      BY <3>1, <3>2
    <3> HIDE DEF m, later
    <3>4. MeantFrom(v, later, m)
      BY <2>1, <3>3 DEF MeantFrom
    <3> QED BY <3>4 DEF later
  <2> QED BY <2>3, <2>4, <2>5
<1>3. ASSUME NEW m \in j .. Len(v) + 1, Taking(pattern[k], v, j, m), MeantFrom(v, k + 1, m)
      PROVE  MeantFrom(v, k, j)
  <2>1. PICK cut \in [0 .. n -> 0 .. Len(v)] :
            /\ cut[k + 1 - 1] = m - 1 /\ cut[n] = Len(v)
            /\ \A l \in k + 1 .. n :
                  cut[l - 1] <= cut[l] /\ Globs!Stands(pattern[l], SubSeq(v, cut[l - 1] + 1, cut[l]))
    <3> DEFINE later == k + 1
    <3>1. MeantFrom(v, later, m)
      BY <1>3
    <3> HIDE DEF later
    <3>2. \E cut \in [0 .. n -> 0 .. Len(v)] :
            /\ cut[later - 1] = m - 1 /\ cut[n] = Len(v)
            /\ \A l \in later .. n :
                  cut[l - 1] <= cut[l] /\ Globs!Stands(pattern[l], SubSeq(v, cut[l - 1] + 1, cut[l]))
      BY <3>1 DEF MeantFrom
    <3> QED BY <3>2 DEF later
  <2> DEFINE new == [l \in 0 .. n |-> IF l = k - 1 THEN j - 1 ELSE cut[l]]
  <2>2. new \in [0 .. n -> 0 .. Len(v)] /\ new[k - 1] = j - 1 /\ \A l \in 0 .. n : l # k - 1 => new[l] = cut[l]
    BY <1>1, <2>1
  <2> HIDE DEF new
  <2>3. new[n] = Len(v) /\ new[k] = m - 1
    BY <1>1, <2>1, <2>2
  <2>4. ASSUME NEW l \in k .. n
        PROVE  new[l - 1] <= new[l] /\ Globs!Stands(pattern[l], SubSeq(v, new[l - 1] + 1, new[l]))
    <3>1. CASE l = k
      <4>1. new[l - 1] + 1 = j /\ new[l] = m - 1 /\ j - 1 <= m - 1
        BY <1>1, <2>2, <2>3, <3>1
      <4>2. Globs!Stands(pattern[k], SubSeq(v, j, m - 1))
        BY <1>3 DEF Taking
      <4> QED BY <2>2, <2>3, <3>1, <4>1, <4>2
    <3>2. CASE l # k
      <4>1. l \in k + 1 .. n /\ l - 1 \in 0 .. n /\ l \in 0 .. n /\ l - 1 # k - 1 /\ l # k - 1
        BY <1>1, <3>2
      <4>2. new[l - 1] = cut[l - 1] /\ new[l] = cut[l]
        BY <2>2, <4>1
      <4> QED BY <2>1, <4>1, <4>2
    <3> QED BY <3>1, <3>2
  <2> QED BY <2>2, <2>3, <2>4 DEF MeantFrom
<1> QED BY <1>2, <1>3

LEMMA MeantAtEnd ==
    ASSUME NEW C, NEW v \in Seq(C), NEW P, pattern \in Seq(P), NEW j \in 1 .. Len(v) + 1
    PROVE  MeantFrom(v, Len(pattern) + 1, j) <=> j > Len(v)
<1> DEFINE n == Len(pattern)
<1>1. n \in Nat /\ Len(v) \in Nat /\ n + 1 - 1 = n /\ n \in 0 .. n
  OBVIOUS
<1>2. ASSUME MeantFrom(v, n + 1, j) PROVE j > Len(v)
  <2>1. PICK cut \in [0 .. n -> 0 .. Len(v)] : cut[n + 1 - 1] = j - 1 /\ cut[n] = Len(v)
    BY <1>2 DEF MeantFrom
  <2> QED BY <1>1, <2>1
<1>3. ASSUME j > Len(v) PROVE MeantFrom(v, n + 1, j)
  <2> DEFINE cut == [l \in 0 .. n |-> Len(v)]
  <2>1. cut \in [0 .. n -> 0 .. Len(v)] /\ cut[n] = Len(v) /\ j - 1 = Len(v) /\ \A l : l \notin n + 1 .. n
    BY <1>1, <1>3
  <2> HIDE DEF cut
  <2> QED BY <1>1, <2>1 DEF MeantFrom
<1> QED BY <1>2, <1>3

\* The matcher enables what the pattern means.
LEMMA GlobIsMeant ==
    ASSUME Globs!PatternAssumption, pattern \in Seq(Marks), NEW p \in Seq(PatternChars), NEW start,
           Laid(pattern, p, start), NEW v \in Seq(ModelChars)
    PROVE  Globs!glob_matches(v, p) <=> Globs!Meant(v)
<1>1. PICK g : Solved(g, v, p, 1) /\ Globs!glob_matches(v, p) = g[1][1]
  BY TableIs
<1> DEFINE n == Len(pattern)
           Right(k) == \A j \in 1 .. Len(v) + 1 : g[start[k]][j] <=> MeantFrom(v, k, j)
           T == {d \in Nat : d <= n => Right(n + 1 - d)}
<1>2. n \in Nat /\ Len(v) \in Nat /\ Len(p) \in Nat
  OBVIOUS
<1>3. 0 \in T
  <2>1. n + 1 - 0 = n + 1
    BY <1>2
  <2>2. ASSUME NEW j \in 1 .. Len(v) + 1 PROVE g[start[n + 1]][j] <=> MeantFrom(v, n + 1, j)
    <3>1. start[n + 1] = Len(p) + 1
      BY DEF Laid
    <3>2. g[Len(p) + 1] = Cells(g, v, p, Len(p) + 1)
      <4>1. Len(p) + 1 \in 1 .. Len(p) + 1
        BY <1>2
      <4> QED BY <1>1, <4>1 DEF Solved
    <3>3. Len(p) + 1 > Len(p)
      BY <1>2
    <3>4. g[Len(p) + 1][j] = (j > Len(v))
      BY <3>2, <3>3, Zenon DEF Cells, Cell
    <3>5. g[start[n + 1]][j] <=> j > Len(v)
      BY <3>1, <3>4, Zenon
    <3>6. MeantFrom(v, n + 1, j) <=> j > Len(v)
      BY MeantAtEnd
    <3> QED BY <3>5, <3>6, Zenon
  <2>3. Right(n + 1)
    BY <2>2
  <2> QED BY <2>1, <2>3
<1>4. ASSUME NEW d \in Nat, d \in T PROVE d + 1 \in T
  <2> SUFFICES ASSUME d + 1 <= n PROVE Right(n + 1 - (d + 1))
    OBVIOUS
  <2> DEFINE k == n - d
  <2>1. k \in 1 .. n /\ n + 1 - (d + 1) = k /\ n + 1 - d = k + 1
    BY <1>2
  <2>2. Right(k + 1)
    BY <1>2, <1>4, <2>1
  <2> HIDE DEF k
  <2>3. ASSUME NEW j \in 1 .. Len(v) + 1 PROVE g[start[k]][j] <=> MeantFrom(v, k, j)
    <3>1. pattern[k] \in Marks /\ Placed(pattern[k], p, start[k], start[k + 1])
      BY <2>1 DEF Laid
    <3>2. g[start[k]][j] <=> \E m \in j .. Len(v) + 1 : Taking(pattern[k], v, j, m) /\ g[start[k + 1]][m]
      BY <1>1, <3>1, CellOfPiece
    <3>3. MeantFrom(v, k, j) <=> \E m \in j .. Len(v) + 1 : Taking(pattern[k], v, j, m) /\ MeantFrom(v, k + 1, m)
      BY <2>1, MeantNext
    <3>4. ASSUME NEW m \in j .. Len(v) + 1 PROVE g[start[k + 1]][m] <=> MeantFrom(v, k + 1, m)
      <4>1. m \in 1 .. Len(v) + 1
        BY <1>2
      <4> QED BY <2>2, <4>1
    <3> QED BY <3>2, <3>3, <3>4, Zenon
  <2> QED BY <2>1, <2>3
<1>5. Nat \subseteq T
  <2> HIDE DEF T
  <2> QED BY <1>3, <1>4, Induction
<1>6. Right(1)
  <2>1. n \in T /\ n + 1 - n = 1 /\ n <= n
    <3> HIDE DEF T
    <3> QED BY <1>2, <1>5
  <2> QED BY <2>1
<1>7. g[1][1] <=> MeantFrom(v, 1, 1)
  <2>1. start[1] = 1 /\ 1 \in 1 .. Len(v) + 1
    BY <1>2 DEF Laid
  <2> QED BY <1>6, <2>1
<1>8. MeantFrom(v, 1, 1) <=> Globs!Meant(v)
  <2>1. 1 - 1 = 0
    OBVIOUS
  <2> QED BY <2>1 DEF MeantFrom, Globs!Meant
<1> QED BY <1>1, <1>7, <1>8, Zenon

\* The pattern as it is written, but for the level.
Glob == Globs!FlattenSeq([i \in DOMAIN pattern |-> Globs!Written[pattern[i]]])

\* The pieces of the pattern stand one behind the other in what is written.
GlobInv ==
    /\ pattern \in Seq(Marks) /\ levelled \in BOOLEAN /\ model_id \in Seq(Globs!Characters)
    /\ Glob \in Seq(PatternChars) /\ \E at : Laid(pattern, Glob, at)

LEMMA GlobGrows ==
    ASSUME Globs!PatternAssumption, pattern \in Seq(Marks), NEW what \in Marks, pattern' = Append(pattern, what),
           Glob \in Seq(PatternChars)
    PROVE  Glob' = Glob \o Globs!Written[what] /\ Glob' \in Seq(PatternChars)
<1> DEFINE w == Globs!Written
<1>1. Glob = Seqs!FlattenSeq(Each(w, pattern)) /\ Glob' = Seqs!FlattenSeq(Each(w, pattern'))
  BY Zenon DEF Glob, Each, Seqs!FlattenSeq, Globs!FlattenSeq
<1>2. w[what] \in Seq(PatternChars) /\ Gives(w, Marks, Seq(PatternChars))
  BY WrittenType DEF Gives
<1> HIDE DEF w
<1>3. Seqs!FlattenSeq(Each(w, Append(pattern, what))) = Seqs!FlattenSeq(Each(w, pattern)) \o w[what]
  BY <1>2, JoinedGrows
<1>4. Glob' = Glob \o w[what]
  BY <1>1, <1>3
<1> QED BY <1>2, <1>4 DEF w

LEMMA GlobStart == ASSUME Globs!PatternAssumption PROVE Globs!Init => GlobInv
<1> SUFFICES ASSUME Globs!Init PROVE GlobInv
  OBVIOUS
<1>1. pattern = <<>> /\ levelled \in BOOLEAN /\ model_id = <<>>
  BY DEF Globs!Init
<1>2. Glob = <<>>
  <2>1. [i \in DOMAIN pattern |-> Globs!Written[pattern[i]]] = <<>>
    BY <1>1
  <2>2. Globs!FlattenSeq(<<>>) = <<>>
    BY DEF Globs!FlattenSeq
  <2> QED BY <2>1, <2>2 DEF Glob
<1>3. Laid(pattern, Glob, [k \in 1 .. 1 |-> 1])
  <2>1. Len(pattern) = 0 /\ Len(Glob) = 0
    BY <1>1, <1>2
  <2> QED BY <2>1 DEF Laid
<1> QED BY <1>1, <1>2, <1>3 DEF GlobInv

LEMMA GlobStep ==
    ASSUME Globs!PatternAssumption, GlobInv, [Globs!Next]_(Globs!vars)
    PROVE  GlobInv'
<1>0. ASSUME pattern' = pattern, Glob' = Glob PROVE (\E at : Laid(pattern, Glob, at))'
  <2>1. \E at : Laid(pattern, Glob, at)
    BY DEF GlobInv
  <2>2. \E at : Laid(pattern', Glob', at)
    BY <1>0, <2>1
  <2> QED BY <2>2 DEF Laid, Placed
<1>1. CASE UNCHANGED Globs!vars
  <2>1. pattern' = pattern /\ levelled' = levelled /\ model_id' = model_id
    BY <1>1 DEF Globs!vars
  <2>2. Glob' = Glob
    BY <2>1 DEF Glob
  <2> QED BY <1>0, <2>1, <2>2 DEF GlobInv
<1>2. ASSUME NEW what \in Marks, Globs!Compose(what) PROVE GlobInv'
  <2>1. /\ pattern' = Append(pattern, what) /\ levelled' = levelled /\ model_id' = model_id
        /\ pattern \in Seq(Marks) /\ Glob \in Seq(PatternChars)
    BY <1>2 DEF Globs!Compose, GlobInv
  <2>2. PICK start : Laid(pattern, Glob, start)
    BY DEF GlobInv
  <2>3. pattern # <<>> /\ pattern[Len(pattern)] \in Globs!Wild => what \notin Globs!Wild
    BY <1>2 DEF Globs!Compose, Globs!Last
  <2>4. (\E k \in 1 .. Len(pattern) : pattern[k] = "bracket") => what \notin Globs!Classes \cup {"close"}
    <3>1. (\E k \in 1 .. Len(pattern) : pattern[k] = "bracket") => "bracket" \in Globs!Range(pattern)
      BY <2>1 DEF Globs!Range
    <3> QED BY <1>2, <3>1 DEF Globs!Compose
  <2>5. Glob' = Glob \o Globs!Written[what]
    BY <2>1, GlobGrows
  <2>6. Glob' \in Seq(PatternChars)
    BY <2>1, GlobGrows
  <2>7. \E more : Laid(Append(pattern, what), Glob \o Globs!Written[what], more)
    BY <2>1, <2>2, <2>3, <2>4, LaidGrows
  <2>8. \E more : Laid(pattern', Glob', more)
    BY <2>1, <2>5, <2>7
  <2>9. (\E at : Laid(pattern, Glob, at))'
    BY <2>8 DEF Laid, Placed
  <2>10. pattern' \in Seq(Marks) /\ levelled' \in BOOLEAN /\ model_id' \in Seq(Globs!Characters)
    BY <2>1 DEF GlobInv
  <2> QED BY <2>6, <2>9, <2>10 DEF GlobInv
<1>3. ASSUME NEW c \in Globs!Characters, Globs!Read(c) PROVE GlobInv'
  <2>1. pattern' = pattern /\ levelled' = levelled /\ model_id' = Append(model_id, c)
    BY <1>3 DEF Globs!Read
  <2>2. Glob' = Glob
    BY <2>1 DEF Glob
  <2>3. model_id' \in Seq(Globs!Characters)
    BY <2>1 DEF GlobInv
  <2> QED BY <1>0, <2>1, <2>2, <2>3 DEF GlobInv
<1> QED BY <1>1, <1>2, <1>3 DEF Globs!Next

\* A level is taken off a text that ends with one.
LEMMA LevelIsTaken ==
    ASSUME NEW C, "high" \notin C, NEW p \in Seq(C)
    PROVE  /\ Globs!strip_thinking_suffix(p) = p
           /\ Globs!strip_thinking_suffix(p \o <<"colon", "high">>) = p
<1>1. Len(p) \in Nat
  OBVIOUS
<1>2. ~Globs!Levelled(p)
  <2> SUFFICES ASSUME Globs!Levelled(p) PROVE FALSE
    OBVIOUS
  <2>1. Len(p) > 1 /\ p[Len(p)] = "high"
    BY DEF Globs!Levelled
  <2>2. Len(p) \in 1 .. Len(p)
    BY <1>1, <2>1
  <2>3. p[Len(p)] \in C
    BY <2>2
  <2> QED BY <2>1, <2>3
<1> DEFINE q == p \o <<"colon", "high">>
<1>3. /\ Len(q) = Len(p) + 2 /\ q[Len(p) + 1] = "colon" /\ q[Len(p) + 2] = "high"
      /\ \A k \in 1 .. Len(p) : q[k] = p[k]
      /\ q \in Seq(C \cup {"colon", "high"})
  OBVIOUS
<1> HIDE DEF q
<1>4. Globs!Levelled(q)
  <2>1. Len(q) - 1 = Len(p) + 1 /\ Len(q) > 1
    BY <1>1, <1>3
  <2> QED BY <1>3, <2>1 DEF Globs!Levelled
<1>5. SubSeq(q, 1, Len(q) - 2) = p
  <2>1. Len(q) - 2 = Len(p)
    BY <1>1, <1>3
  <2>2. SubSeq(q, 1, Len(p)) = p
    BY <1>1, <1>3
  <2> QED BY <2>1, <2>2
<1>6. Globs!strip_thinking_suffix(q) = p
  BY <1>4, <1>5 DEF Globs!strip_thinking_suffix
<1> QED BY <1>2, <1>6 DEF Globs!strip_thinking_suffix, q

LEMMA GlobFollows == ASSUME Globs!PatternAssumption, GlobInv PROVE Globs!PatternMeansIt
<1> DEFINE C == Globs!Characters
           levels == Len(model_id) > 1 /\ SubSeq(model_id, Len(model_id) - 1, Len(model_id)) = <<"colon", "high">>
           model == IF levels THEN SubSeq(model_id, 1, Len(model_id) - 2) ELSE model_id
           full == Provider \o <<"slash">> \o model
<1>1. /\ pattern \in Seq(Marks) /\ levelled \in BOOLEAN /\ model_id \in Seq(C) /\ Glob \in Seq(PatternChars)
      /\ Provider \in Seq(C)
  BY DEF GlobInv, Globs!PatternAssumption
<1>2. PICK start : Laid(pattern, Glob, start)
  BY DEF GlobInv
<1> HIDE DEF C
<1>3. levels <=> Globs!Levelled(model_id)
  <2>1. Len(model_id) \in Nat
    BY <1>1
  <2>2. ASSUME Len(model_id) > 1
        PROVE  /\ Len(SubSeq(model_id, Len(model_id) - 1, Len(model_id))) = 2
               /\ SubSeq(model_id, Len(model_id) - 1, Len(model_id)) \in Seq(C)
               /\ SubSeq(model_id, Len(model_id) - 1, Len(model_id))[1] = model_id[Len(model_id) - 1]
               /\ SubSeq(model_id, Len(model_id) - 1, Len(model_id))[2] = model_id[Len(model_id)]
    BY <1>1, <2>1, <2>2
  <2> DEFINE t == SubSeq(model_id, Len(model_id) - 1, Len(model_id))
  <2>3. ASSUME Len(model_id) > 1
        PROVE  t = <<"colon", "high">> <=> model_id[Len(model_id) - 1] = "colon" /\ model_id[Len(model_id)] = "high"
    <3>1. Len(t) = 2 /\ t \in Seq(C) /\ t[1] = model_id[Len(model_id) - 1] /\ t[2] = model_id[Len(model_id)]
      BY <2>2, <2>3
    <3> HIDE DEF t
    <3> QED BY <3>1
  <2> HIDE DEF t
  <2>4. levels <=> Len(model_id) > 1 /\ t = <<"colon", "high">>
    BY DEF t
  <2> QED BY <2>3, <2>4 DEF Globs!Levelled
<1>4. model = Globs!strip_thinking_suffix(model_id)
  BY <1>3, Zenon DEF Globs!strip_thinking_suffix
<1>5. model \in Seq(C)
  <2>1. SubSeq(model_id, 1, Len(model_id) - 2) \in Seq(C)
    BY <1>1
  <2> QED BY <1>1, <2>1
<1> DEFINE short == model
<1> HIDE DEF model, levels
<1>6. model \in Seq(ModelChars) /\ full \in Seq(ModelChars)
  <2>1. C \subseteq ModelChars /\ "slash" \in ModelChars
    BY DEF ModelChars, C
  <2>2. Provider \in Seq(ModelChars) /\ model \in Seq(ModelChars)
    BY <1>1, <1>5, <2>1
  <2> QED BY <2>1, <2>2
<1>7. Globs!strip_thinking_suffix(Globs!Pattern) = Glob
  <2>1. Globs!Pattern = Glob \o IF levelled THEN <<"colon", "high">> ELSE <<>>
    BY DEF Globs!Pattern, Glob
  <2>2. "high" \notin PatternChars
    BY DEF PatternChars
  <2>3. CASE levelled
    <3>1. Globs!Pattern = Glob \o <<"colon", "high">>
      BY <2>1, <2>3
    <3> QED BY <1>1, <2>2, <3>1, LevelIsTaken
  <2>4. CASE ~levelled
    <3>1. Globs!Pattern = Glob \o <<>>
      BY <2>1, <2>4
    <3>2. Globs!Pattern = Glob
      BY <1>1, <3>1
    <3> QED BY <1>1, <2>2, <3>2, LevelIsTaken
  <2> QED BY <2>3, <2>4
<1>8. Globs!glob_matches(model, Glob) <=> Globs!Meant(model)
  BY <1>1, <1>2, <1>6, GlobIsMeant
<1>9. Globs!glob_matches(full, Glob) <=> Globs!Meant(full)
  <2> HIDE DEF full
  <2> QED BY <1>1, <1>2, <1>6, GlobIsMeant
<1>10. ASSUME pattern # <<>> PROVE Glob # <<>>
  <2>1. 1 \in 1 .. Len(pattern)
    BY <1>1, <1>10
  <2>2. Placed(pattern[1], Glob, start[1], start[1 + 1])
    BY <1>2, <2>1 DEF Laid
  <2>3. start[1] \in 1 .. Len(Glob)
    BY <2>2 DEF Placed
  <2> QED BY <2>3
<1>11. Globs!model_matches_enabled_pattern <=>
          /\ model # <<>> /\ Glob # <<>>
          /\ Globs!glob_matches(full, Glob) \/ Globs!glob_matches(model, Glob)
  BY <1>4, <1>7, Zenon DEF Globs!model_matches_enabled_pattern
<1>12. pattern # <<>> /\ model # <<>> =>
          (Globs!model_matches_enabled_pattern <=> Globs!Meant(model) \/ Globs!Meant(full))
  BY <1>8, <1>9, <1>10, <1>11, Zenon
<1> QED BY <1>12, Zenon DEF Globs!PatternMeansIt, model, levels

\* A pattern enables the models that its author describes, whatever level either names: for any
\* characters, and patterns and ids of any length.
THEOREM PatternsHold == SessionSpec => []PatternMeansIt
<1>0. Globs!PatternAssumption
  BY SessionAssumption
<1>1. SessionInit => GlobInv
  BY <1>0, GlobStart DEF SessionInit
<1>2. GlobInv /\ [SessionNext]_sessionVars => GlobInv'
  <2> SUFFICES ASSUME GlobInv, [SessionNext]_sessionVars PROVE GlobInv'
    OBVIOUS
  <2>1. [Globs!Next]_(Globs!vars)
    BY DEF SessionNext, sessionVars, patternVars, Globs!vars
  <2> QED BY <1>0, <2>1, GlobStep
<1>3. GlobInv => PatternMeansIt
  BY <1>0, GlobFollows DEF PatternMeansIt
<1> QED BY <1>1, <1>2, <1>3, PTL DEF SessionSpec
=============================================================================
