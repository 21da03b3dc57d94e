------------------------- MODULE RpcTransportProofs -------------------------
(***************************************************************************)
(* Theorems about RpcTransport, for every set of requests, every channel   *)
(* capacity and any number of events.                                      *)
(***************************************************************************)
EXTENDS RpcTransport, SubsequenceProofs, TLAPS

-----------------------------------------------------------------------------
(* Types                                                                   *)

LEMMA ItemTypes ==
    /\ \A r \in Requests : Answer(r) \in Items
    /\ \A n \in 1 .. MaxEvents : Event(n) \in Items
BY DEF Items

LEMMA ReaderTypes ==
    /\ Reading \in Readers
    /\ Ended \in Readers
    /\ \A r \in Requests : [state |-> "handing", item |-> Answer(r)] \in Readers
    /\ \A i \in Items : [state |-> "sending", item |-> i] \in Readers
    /\ \A x \in Readers : x.state = "sending" => x.item \in Items
BY DEF Readers, Reading, Ended

LEMMA NoneIsASeq == \A S : <<>> \in Seq(S)
OBVIOUS

RequestTypes ==
    /\ pc \in [Requests -> {"idle", "checked", "abandoned", "done"} \cup Alive]
    /\ result \in [Requests -> {"none", "answer"} \cup Errors]
    /\ slot \in [Requests -> {"empty", "answer", "PiExited"}]
    /\ pending \subseteq Requests
StdinTypes ==
    /\ holder \in Requests \cup {None}
    /\ partial \subseteq Requests
    /\ stdin \in Seq(SUBSET Requests)
    /\ asked \subseteq Requests
    /\ said \subseteq Requests
EventTypes ==
    /\ stdout \in Seq(Items)
    /\ reader \in Readers
    /\ channel \in Seq(Items)
    /\ Len(channel) <= EventCapacity
    /\ emitted \in 0 .. MaxEvents
    /\ received \in Nat
ChildTypes ==
    /\ child \in {"running", "exited", "reaped"}
    /\ exit \in BOOLEAN
    /\ watcher \in {"waiting", "draining", "recorded", "rejecting", "ended"}
    /\ rejecting \subseteq Requests
    /\ teardown \in {"no", "terminated", "killed", "ended"}
    /\ pid \in BOOLEAN
    /\ stray \in BOOLEAN

LEMMA TypeParts == TypeOK <=> RequestTypes /\ StdinTypes /\ EventTypes /\ ChildTypes
BY DEF TypeOK, RequestTypes, StdinTypes, EventTypes, ChildTypes

LEMMA TypesPrime ==
    RequestTypes' /\ StdinTypes' /\ EventTypes' /\ ChildTypes' => TypeOK'
BY DEF TypeOK, RequestTypes, StdinTypes, EventTypes, ChildTypes

LEMMA InitTypes == Init => TypeOK
<1> SUFFICES ASSUME Init PROVE TypeOK
  OBVIOUS
<1>1. RequestTypes
  BY DEF Init, RequestTypes
<1>2. StdinTypes
  BY NoneIsASeq DEF Init, StdinTypes
<1>3. EventTypes
  <2>1. channel \in Seq(Items) /\ Len(channel) <= EventCapacity
    BY TransportAssumption, NoneIsASeq DEF Init
  <2>2. stdout \in Seq(Items)
    BY NoneIsASeq DEF Init
  <2>3. QED
    BY <2>1, <2>2, TransportAssumption, ReaderTypes DEF Init, EventTypes
<1>4. ChildTypes
  BY DEF Init, ChildTypes
<1>5. QED
  BY <1>1, <1>2, <1>3, <1>4, TypeParts

LEMMA StepTypes == TypeOK /\ [Next]_vars => TypeOK'
<1> SUFFICES ASSUME TypeOK, [Next]_vars PROVE TypeOK'
  OBVIOUS
<1> USE DEF requestVars, stdinVars, piVars, readerVars, childVars, teardownVars
<1>1. ASSUME NEW r \in Requests, Check(r) PROVE TypeOK'
  BY <1>1, TransportAssumption, ItemTypes, ReaderTypes, NoneIsASeq
     DEF TypeOK, Alive, Errors, Check
<1>2. ASSUME NEW r \in Requests, Register(r) PROVE TypeOK'
  BY <1>2, TransportAssumption, ItemTypes, ReaderTypes, NoneIsASeq
     DEF TypeOK, Alive, Errors, Register
<1>3. ASSUME NEW r \in Requests, Write(r) PROVE TypeOK'
  BY <1>3, TransportAssumption, ItemTypes, ReaderTypes, NoneIsASeq
     DEF TypeOK, Alive, Errors, Write
<1>4. ASSUME NEW r \in Requests, Written(r) PROVE TypeOK'
  BY <1>4, TransportAssumption, ItemTypes, ReaderTypes, NoneIsASeq
     DEF TypeOK, Alive, Errors, Written, FinishLine
<1>5. ASSUME NEW r \in Requests, WriteFails(r) PROVE TypeOK'
  BY <1>5, TransportAssumption, ItemTypes, ReaderTypes, NoneIsASeq
     DEF TypeOK, Alive, Errors, WriteFails, Abandon
<1>6. ASSUME NEW r \in Requests, WriteTimeout(r) PROVE TypeOK'
  <2>1. StdinTypes'
    <3>1. stdin \in Seq(SUBSET Requests) /\ partial \in SUBSET Requests
      BY DEF TypeOK
    <3>2. Append(stdin, partial) \in Seq(SUBSET Requests)
      BY <3>1
    <3>3. CASE UNCHANGED stdinVars
      BY <1>6, <3>3 DEF TypeOK, StdinTypes, WriteTimeout, Abandon
    <3>4. CASE holder' = None /\ (UNCHANGED <<partial, stdin>> \/ FinishLine(r))
      <4>1. stdin' \in Seq(SUBSET Requests) /\ partial' \subseteq Requests
        BY <3>1, <3>4, <3>2 DEF FinishLine
      <4>2. QED
        BY <1>6, <3>4, <4>1 DEF TypeOK, StdinTypes, WriteTimeout, Abandon
    <3>5. QED
      BY <1>6, <3>3, <3>4 DEF WriteTimeout
  <2>2. RequestTypes'
    BY <1>6 DEF TypeOK, RequestTypes, Alive, Errors, WriteTimeout, Abandon
  <2>3. EventTypes' /\ ChildTypes'
    BY <1>6 DEF TypeOK, EventTypes, ChildTypes, WriteTimeout, Abandon
  <2>4. QED
    BY <2>1, <2>2, <2>3, TypesPrime
<1>7. ASSUME NEW r \in Requests, AnswerTimeout(r) PROVE TypeOK'
  BY <1>7, TransportAssumption, ItemTypes, ReaderTypes, NoneIsASeq
     DEF TypeOK, Alive, Errors, AnswerTimeout, Abandon
<1>8. ASSUME NEW r \in Requests, Remove(r) PROVE TypeOK'
  BY <1>8, TransportAssumption, ItemTypes, ReaderTypes, NoneIsASeq
     DEF TypeOK, Alive, Errors, Remove
<1>9. ASSUME NEW r \in Requests, Receive(r) PROVE TypeOK'
  BY <1>9, TransportAssumption, ItemTypes, ReaderTypes, NoneIsASeq
     DEF TypeOK, Alive, Errors, Receive
<1>10. ASSUME NEW r \in Requests, ReadAnswer(r) PROVE TypeOK'
  BY <1>10, TransportAssumption, ItemTypes, ReaderTypes, NoneIsASeq
     DEF TypeOK, Alive, Errors, ReadAnswer, Match, InHand
<1>11. ASSUME NEW r \in Requests, HandOver(r) PROVE TypeOK'
  BY <1>11, TransportAssumption, ItemTypes, ReaderTypes, NoneIsASeq
     DEF TypeOK, Alive, Errors, HandOver
<1>12. CASE ReadEvent
  BY <1>12, TransportAssumption, ItemTypes, ReaderTypes, NoneIsASeq
     DEF TypeOK, Alive, Errors, ReadEvent, InHand
<1>13. CASE SendEvent
  <2>1. EventTypes'
    <3>1. channel' \in Seq(Items) /\ Len(channel') <= EventCapacity
      <4>1. reader.item \in Items
        BY <1>13, ReaderTypes DEF TypeOK, SendEvent
      <4>2. channel \in Seq(Items) /\ Len(channel) <= EventCapacity
        BY DEF TypeOK
      <4>3. /\ Append(channel, reader.item) \in Seq(Items)
            /\ Len(Append(channel, reader.item)) = Len(channel) + 1
        BY <4>1, <4>2
      <4>4. \/ Len(channel) < EventCapacity /\ channel' = Append(channel, reader.item)
            \/ channel' = channel
        BY <1>13 DEF SendEvent
      <4>5. QED
        BY <4>2, <4>3, <4>4, TransportAssumption
    <3>2. QED
      BY <1>13, <3>1, ReaderTypes DEF TypeOK, EventTypes, SendEvent
  <2>2. RequestTypes' /\ StdinTypes' /\ ChildTypes'
    BY <1>13 DEF TypeOK, RequestTypes, StdinTypes, ChildTypes, SendEvent
  <2>3. QED
    BY <2>1, <2>2, TypesPrime
<1>14. CASE ReadEnd
  BY <1>14, TransportAssumption, ItemTypes, ReaderTypes, NoneIsASeq
     DEF TypeOK, Alive, Errors, ReadEnd
<1>15. CASE TakeEvent
  BY <1>15, TransportAssumption, ItemTypes, ReaderTypes, NoneIsASeq
     DEF TypeOK, Alive, Errors, TakeEvent
<1>16. CASE Reap
  BY <1>16, TransportAssumption, ItemTypes, ReaderTypes, NoneIsASeq
     DEF TypeOK, Alive, Errors, Reap
<1>17. CASE RecordExit
  BY <1>17, TransportAssumption, ItemTypes, ReaderTypes, NoneIsASeq
     DEF TypeOK, Alive, Errors, RecordExit
<1>18. CASE TakePending
  BY <1>18, TransportAssumption, ItemTypes, ReaderTypes, NoneIsASeq
     DEF TypeOK, Alive, Errors, TakePending
<1>19. CASE Reject
  BY <1>19, TransportAssumption, ItemTypes, ReaderTypes, NoneIsASeq
     DEF TypeOK, Alive, Errors, Reject
<1>20. CASE Dispose
  BY <1>20, TransportAssumption, ItemTypes, ReaderTypes, NoneIsASeq
     DEF TypeOK, Alive, Errors, Dispose, Signal
<1>21. CASE DisposeKill
  BY <1>21, TransportAssumption, ItemTypes, ReaderTypes, NoneIsASeq
     DEF TypeOK, Alive, Errors, DisposeKill, Signal
<1>22. CASE DisposeEnd
  <2>1. EventTypes'
    <3>1. channel' \in Seq(Items) /\ Len(channel') <= EventCapacity
      BY <1>22, TransportAssumption, NoneIsASeq DEF DisposeEnd
    <3>2. QED
      BY <1>22, <3>1 DEF TypeOK, EventTypes, DisposeEnd
  <2>2. RequestTypes' /\ StdinTypes' /\ ChildTypes'
    BY <1>22 DEF TypeOK, RequestTypes, StdinTypes, ChildTypes, DisposeEnd
  <2>3. QED
    BY <2>1, <2>2, TypesPrime
<1>23. CASE DropProcess
  <2>1. EventTypes'
    <3>1. channel' \in Seq(Items) /\ Len(channel') <= EventCapacity
      BY <1>23, TransportAssumption, NoneIsASeq DEF DropProcess
    <3>2. QED
      BY <1>23, <3>1 DEF TypeOK, EventTypes, DropProcess
  <2>2. StdinTypes'
    <3>1. stdin' \in Seq(SUBSET Requests)
      BY <1>23, NoneIsASeq DEF TypeOK, DropProcess
    <3>2. QED
      BY <1>23, <3>1 DEF TypeOK, StdinTypes, DropProcess
  <2>3. RequestTypes' /\ ChildTypes'
    BY <1>23 DEF TypeOK, RequestTypes, ChildTypes, DropProcess, Signal
  <2>4. QED
    BY <2>1, <2>2, <2>3, TypesPrime
<1>24. CASE PiReads
  BY <1>24, TransportAssumption, ItemTypes, ReaderTypes, NoneIsASeq
     DEF TypeOK, Alive, Errors, PiReads
<1>25. ASSUME NEW r \in Requests, PiAnswers(r) PROVE TypeOK'
  BY <1>25, TransportAssumption, ItemTypes, ReaderTypes, NoneIsASeq
     DEF TypeOK, Alive, Errors, PiAnswers
<1>26. CASE PiEmits
  BY <1>26, TransportAssumption, ItemTypes, ReaderTypes, NoneIsASeq
     DEF TypeOK, Alive, Errors, PiEmits
<1>27. CASE PiExits
  BY <1>27, TransportAssumption, ItemTypes, ReaderTypes, NoneIsASeq
     DEF TypeOK, Alive, Errors, PiExits
<1>28. CASE UNCHANGED vars
  BY <1>28 DEF TypeOK, vars
<1>29. QED
  BY <1>1, <1>2, <1>3, <1>4, <1>5, <1>6, <1>7, <1>8, <1>9, <1>10, <1>11, <1>12, <1>13, <1>14, <1>15, <1>16, <1>17, <1>18, <1>19, <1>20, <1>21, <1>22, <1>23, <1>24, <1>25, <1>26, <1>27, <1>28
     DEF Next, Request, Reader, Watcher, Teardown, Pi

\* Every variable keeps its type, and the event channel its capacity, in every
\* reachable state (RpcClient, read_loop, wait_loop, dispose).
THEOREM TypeCorrect == Spec => []TypeOK
BY InitTypes, StepTypes, PTL DEF Spec

-----------------------------------------------------------------------------
(* The strengthened invariant of the transport.                            *)

\* Past the check and the registration.
Begun(r) == pc[r] \notin {"idle", "checked"}

\* A request's sender is in one place at a time (the map, the watcher's hand,
\* the reader's hand) and in none once its slot is filled.
OneSender ==
    /\ rejecting # {} => watcher = "rejecting"
    /\ \A r \in Requests :
         /\ r \in rejecting => r \notin pending /\ Begun(r)
         /\ InHandOf(r) => r \notin pending \cup rejecting /\ Begun(r)
         /\ slot[r] # "empty" => /\ r \notin pending \cup rejecting
                                 /\ ~InHandOf(r)
                                 /\ Begun(r)

\* What is in the unfinished line was put there by the lock's holder or by a
\* write that its deadline cut.
LineIsHeld ==
    /\ \A r \in Requests : pc[r] \notin {"abandoned", "done"} => result[r] = "none"
    /\ \A r \in Requests : pc[r] = "writing" => holder = r
    /\ PipeOpen => \A r \in partial : r = holder \/ result[r] = "RpcTimeout"

\* The watcher is past its wait only when the child is reaped; after it took
\* the map, nobody awaits on an entry put there later.
ExitIsFinal ==
    /\ watcher # "waiting" => child = "reaped"
    /\ ~PipeOutlives /\ watcher \in {"rejecting", "ended"} =>
         \A r \in pending : pc[r] # "awaiting"

\* Lines come from requests that began, answers from pi.
LineOrigin ==
    /\ \A r \in partial : pc[r] # "idle"
    /\ \A i \in DOMAIN stdin : \A r \in stdin[i] : pc[r] # "idle"
AnswerOrigin ==
    /\ \A i \in DOMAIN stdout :
         stdout[i].kind = "answer" => stdout[i].of \in said
    /\ \A r \in Requests : InHandOf(r) \/ slot[r] = "answer" => r \in said
Provenance == LineOrigin /\ AnswerOrigin

TransportInv ==
    /\ NoLeakedEntry
    /\ OneSender
    /\ WaiterHasSender
    /\ LineIsHeld
    /\ LinesAreWhole
    /\ ExitIsFinal
    /\ Provenance

USE DEF requestVars, stdinVars, piVars, readerVars, childVars, teardownVars

LEMMA HandTypes ==
    /\ \A r, q : [state |-> "handing", item |-> Answer(r)]
                   = [state |-> "handing", item |-> Answer(q)] => r = q
    /\ \A r : /\ Reading # [state |-> "handing", item |-> Answer(r)]
              /\ Ended # [state |-> "handing", item |-> Answer(r)]
    /\ \A i, r : [state |-> "sending", item |-> i]
                   # [state |-> "handing", item |-> Answer(r)]
<1>1. \A r, q : [state |-> "handing", item |-> Answer(r)]
                   = [state |-> "handing", item |-> Answer(q)] => r = q
  <2> SUFFICES ASSUME NEW r, NEW q,
                      [state |-> "handing", item |-> Answer(r)]
                        = [state |-> "handing", item |-> Answer(q)]
               PROVE  r = q
    OBVIOUS
  <2>1. Answer(r) = Answer(q)
    OBVIOUS
  <2>2. Answer(r).of = Answer(q).of
    BY <2>1
  <2>3. QED
    BY <2>2 DEF Answer
<1>2. QED
  BY <1>1 DEF Reading, Ended

\* How a step of the reader changes what it has in hand.
LEMMA ReadAnswerHand ==
    ASSUME NEW r \in Requests, ReadAnswer(r)
    PROVE  /\ \A q : ~InHandOf(q)
           /\ \A q : InHandOf(q)' <=> q = r /\ r \in pending
<1>1. \A q : ~InHandOf(q)
  BY HandTypes DEF ReadAnswer, InHandOf
<1>2. CASE r \in pending
  <2>1. reader' = [state |-> "handing", item |-> Answer(r)]
    BY <1>2 DEF ReadAnswer, Match, InHand
  <2>2. QED
    BY <1>1, <1>2, <2>1, HandTypes DEF InHandOf
<1>3. CASE r \notin pending
  <2>1. reader' = [state |-> "sending", item |-> Answer(r)]
    BY <1>3 DEF ReadAnswer, Match, InHand
  <2>2. QED
    BY <1>1, <1>3, <2>1, HandTypes DEF InHandOf
<1>4. QED
  BY <1>2, <1>3

LEMMA HandOverHand ==
    ASSUME NEW r \in Requests, HandOver(r)
    PROVE  /\ \A q : InHandOf(q) <=> q = r
           /\ \A q : ~InHandOf(q)'
BY HandTypes DEF HandOver, InHandOf

LEMMA EventHand ==
    ASSUME ReadEvent \/ SendEvent \/ ReadEnd
    PROVE  /\ \A q : ~InHandOf(q)
           /\ \A q : ~InHandOf(q)'
<1>1. CASE ReadEvent
  BY <1>1, HandTypes DEF ReadEvent, InHand, InHandOf
<1>2. CASE SendEvent
  <2>1. \A q : ~InHandOf(q)
    BY <1>2 DEF SendEvent, InHandOf
  <2>2. QED
    BY <1>2, <2>1, HandTypes DEF SendEvent, InHandOf
<1>3. CASE ReadEnd
  BY <1>3, HandTypes DEF ReadEnd, InHandOf
<1>4. QED
  BY <1>1, <1>2, <1>3

LEMMA SameHand ==
    ASSUME reader' = reader
    PROVE  \A q : InHandOf(q)' <=> InHandOf(q)
BY DEF InHandOf

LEMMA InitTransport == Init => TransportInv
<1> SUFFICES ASSUME Init PROVE TransportInv
  OBVIOUS
<1>1. \A r : ~InHandOf(r)
  BY HandTypes DEF Init, InHandOf
<1>2. NoLeakedEntry /\ OneSender /\ WaiterHasSender
  BY <1>1 DEF Init, NoLeakedEntry, OneSender, WaiterHasSender, Alive
<1>3. LineIsHeld /\ LinesAreWhole
  BY DEF Init, LineIsHeld, LinesAreWhole
<1>4. ExitIsFinal /\ Provenance
  BY <1>1 DEF Init, ExitIsFinal, Provenance, LineOrigin, AnswerOrigin
<1>5. QED
  BY <1>2, <1>3, <1>4 DEF TransportInv

-----------------------------------------------------------------------------
(* Each part is preserved by every step.                                   *)

SenderInv == NoLeakedEntry /\ OneSender /\ WaiterHasSender

LEMMA SenderUnchanged ==
    ASSUME SenderInv, UNCHANGED <<pc, slot, pending, reader, rejecting>>,
           rejecting = {} \/ watcher' = watcher
    PROVE  SenderInv'
BY SameHand DEF SenderInv, NoLeakedEntry, OneSender, WaiterHasSender, Begun

LEMMA SenderStep == TypeOK /\ SenderInv /\ [Next]_vars => SenderInv'
<1> SUFFICES ASSUME TypeOK, SenderInv, [Next]_vars PROVE SenderInv'
  OBVIOUS
<1> USE DEF SenderInv, NoLeakedEntry, OneSender, WaiterHasSender, Begun, Alive
<1>1. ASSUME NEW r \in Requests, Check(r) PROVE SenderInv'
  BY <1>1, SameHand DEF TypeOK, Check
<1>2. ASSUME NEW r \in Requests, Register(r) PROVE SenderInv'
  BY <1>2, SameHand DEF TypeOK, Register
<1>3. ASSUME NEW r \in Requests, Write(r) PROVE SenderInv'
  BY <1>3, SameHand DEF TypeOK, Write
<1>4. ASSUME NEW r \in Requests, Written(r) PROVE SenderInv'
  BY <1>4, SameHand DEF TypeOK, Written, FinishLine
<1>5. ASSUME NEW r \in Requests, WriteFails(r) PROVE SenderInv'
  BY <1>5, SameHand DEF TypeOK, WriteFails, Abandon
<1>6. ASSUME NEW r \in Requests, WriteTimeout(r) PROVE SenderInv'
  BY <1>6, SameHand DEF TypeOK, WriteTimeout, Abandon, FinishLine
<1>7. ASSUME NEW r \in Requests, AnswerTimeout(r) PROVE SenderInv'
  BY <1>7, SameHand DEF TypeOK, AnswerTimeout, Abandon
<1>8. ASSUME NEW r \in Requests, Remove(r) PROVE SenderInv'
  BY <1>8, SameHand DEF TypeOK, Remove
<1>9. ASSUME NEW r \in Requests, Receive(r) PROVE SenderInv'
  BY <1>9, SameHand DEF TypeOK, Receive
<1>10. ASSUME NEW r \in Requests, ReadAnswer(r) PROVE SenderInv'
  <2>1. /\ pending' = pending \ {r}
        /\ UNCHANGED <<pc, slot, rejecting, watcher>>
    BY <1>10 DEF ReadAnswer, Match
  <2>2. QED
    BY <1>10, <2>1, ReadAnswerHand
<1>11. ASSUME NEW r \in Requests, HandOver(r) PROVE SenderInv'
  <2>1. /\ slot' = [slot EXCEPT ![r] = "answer"]
        /\ UNCHANGED <<pc, pending, rejecting, watcher>>
    BY <1>11 DEF HandOver
  <2>2. QED
    BY <1>11, <2>1, HandOverHand DEF TypeOK
<1>12. CASE ReadEvent \/ SendEvent \/ ReadEnd
  <2>1. UNCHANGED <<pc, slot, pending, rejecting, watcher>>
    BY <1>12 DEF ReadEvent, SendEvent, ReadEnd
  <2>2. QED
    BY <1>12, <2>1, EventHand
<1>13. CASE TakePending
  BY <1>13, SameHand DEF TypeOK, TakePending
<1>14. CASE Reject
  BY <1>14, SameHand DEF TypeOK, Reject
<1>15. CASE \/ TakeEvent \/ Reap \/ RecordExit \/ Teardown \/ PiReads
            \/ (\E r \in Requests : PiAnswers(r)) \/ PiEmits \/ PiExits
            \/ UNCHANGED vars
  <2>1. UNCHANGED <<pc, slot, pending, reader, rejecting>>
    BY <1>15 DEF TakeEvent, Reap, RecordExit, Teardown, Dispose, DisposeKill,
                 DisposeEnd, DropProcess, Signal, PiReads, PiAnswers, PiEmits,
                 PiExits, vars
  <2>2. rejecting = {} \/ watcher' = watcher
    BY <1>15 DEF TakeEvent, Reap, RecordExit, Teardown, Dispose, DisposeKill,
                 DisposeEnd, DropProcess, Signal, PiReads, PiAnswers, PiEmits,
                 PiExits, vars
  <2>3. QED
    BY <2>1, <2>2, SenderUnchanged
<1>16. QED
  BY <1>1, <1>2, <1>3, <1>4, <1>5, <1>6, <1>7, <1>8, <1>9, <1>10, <1>11, <1>12, <1>13, <1>14, <1>15
     DEF Next, Request, Reader, Watcher, Pi

LineInv == LineIsHeld /\ LinesAreWhole

LEMMA PipeStaysBroken == TypeOK /\ [Next]_vars /\ PipeOpen' => PipeOpen
BY DEF TypeOK, Next, Request, Reader, Watcher, Teardown, Pi, vars, PipeOpen,
       Check, Register, Write, Written, FinishLine, WriteFails, WriteTimeout,
       Abandon, AnswerTimeout, Remove, Receive, ReadAnswer, HandOver, ReadEvent,
       SendEvent, ReadEnd, TakeEvent, Reap, RecordExit, TakePending, Reject,
       Dispose, DisposeKill, DisposeEnd, DropProcess, Signal, PiReads,
       PiAnswers, PiEmits, PiExits

\* A finished line keeps its bytes, and a result that is a timeout stays one.
LEMMA LineAppended ==
    ASSUME stdin \in Seq(SUBSET Requests), partial \subseteq Requests,
           LinesAreWhole,
           \A r \in Requests : result[r] = "RpcTimeout" => result'[r] = "RpcTimeout",
           \A r, q \in partial :
              r = q \/ result'[r] = "RpcTimeout" \/ result'[q] = "RpcTimeout",
           stdin' = Append(stdin, partial)
    PROVE  LinesAreWhole'
<1>1. /\ Len(stdin) \in Nat
      /\ DOMAIN stdin = 1 .. Len(stdin)
      /\ DOMAIN stdin' = 1 .. Len(stdin) + 1
      /\ \A i \in 1 .. Len(stdin) : stdin'[i] = stdin[i] /\ stdin[i] \subseteq Requests
      /\ stdin'[Len(stdin) + 1] = partial
  OBVIOUS
<1>2. QED
  BY <1>1 DEF LinesAreWhole

LEMMA LineKept ==
    ASSUME stdin \in Seq(SUBSET Requests), LinesAreWhole,
           \A r \in Requests : result[r] = "RpcTimeout" => result'[r] = "RpcTimeout",
           \/ stdin' = stdin
           \/ stdin # <<>> /\ stdin' = Tail(stdin)
           \/ stdin' = <<>>
    PROVE  LinesAreWhole'
<1>1. CASE stdin' = stdin
  <2>1. \A i \in DOMAIN stdin : stdin[i] \subseteq Requests
    OBVIOUS
  <2>2. QED
    BY <1>1, <2>1 DEF LinesAreWhole
<1>2. CASE stdin' = Tail(stdin) /\ stdin # <<>>
  <2>1. /\ \A i \in DOMAIN stdin : stdin[i] \subseteq Requests
        /\ \A i \in DOMAIN stdin' : i + 1 \in DOMAIN stdin /\ stdin'[i] = stdin[i + 1]
    BY <1>2
  <2>2. QED
    BY <2>1 DEF LinesAreWhole
<1>3. CASE stdin' = <<>>
  BY <1>3 DEF LinesAreWhole
<1>4. QED
  BY <1>1, <1>2, <1>3

LEMMA LineStep == TypeOK /\ LineInv /\ [Next]_vars => LineInv'
<1> SUFFICES ASSUME TypeOK, LineInv, [Next]_vars PROVE LineInv'
  OBVIOUS
<1>a. stdin \in Seq(SUBSET Requests) /\ partial \subseteq Requests
  BY DEF TypeOK
<1>b. PipeOpen' => PipeOpen
  BY PipeStaysBroken
<1>c. LineIsHeld /\ LinesAreWhole
  BY DEF LineInv
<1>1. ASSUME NEW r \in Requests, Check(r) PROVE LineInv'
  <2>1. LineIsHeld'
    BY <1>1, <1>b, <1>c, TransportAssumption DEF TypeOK, LineIsHeld, Check, Errors
  <2>2. \A q \in Requests : result[q] = "RpcTimeout" => result'[q] = "RpcTimeout"
    BY <1>1, <1>c DEF TypeOK, LineIsHeld, Check
  <2>3. stdin' = stdin
    BY <1>1 DEF Check
  <2>4. QED
    BY <1>a, <1>c, <2>1, <2>2, <2>3, LineKept DEF LineInv
<1>2. ASSUME NEW r \in Requests, Register(r) PROVE LineInv'
  <2>1. LineIsHeld'
    BY <1>2, <1>b, <1>c, TransportAssumption DEF TypeOK, LineIsHeld, Register, Errors
  <2>2. \A q \in Requests : result[q] = "RpcTimeout" => result'[q] = "RpcTimeout"
    BY <1>2, <1>c DEF TypeOK, LineIsHeld, Register
  <2>3. stdin' = stdin
    BY <1>2 DEF Register
  <2>4. QED
    BY <1>a, <1>c, <2>1, <2>2, <2>3, LineKept DEF LineInv
<1>3. ASSUME NEW r \in Requests, Write(r) PROVE LineInv'
  <2>1. LineIsHeld'
    BY <1>3, <1>b, <1>c, TransportAssumption DEF TypeOK, LineIsHeld, Write, Errors
  <2>2. \A q \in Requests : result[q] = "RpcTimeout" => result'[q] = "RpcTimeout"
    BY <1>3, <1>c DEF TypeOK, LineIsHeld, Write
  <2>3. stdin' = stdin
    BY <1>3 DEF Write
  <2>4. QED
    BY <1>a, <1>c, <2>1, <2>2, <2>3, LineKept DEF LineInv
<1>4. ASSUME NEW r \in Requests, Written(r) PROVE LineInv'
  <2>1. LineIsHeld'
    BY <1>4, <1>b, <1>c, TransportAssumption DEF TypeOK, LineIsHeld, Written, FinishLine, Errors
  <2>2. \A q \in Requests : result[q] = "RpcTimeout" => result'[q] = "RpcTimeout"
    BY <1>4, <1>c DEF TypeOK, LineIsHeld, Written
  <2>3. CASE stdin' = stdin
    BY <1>a, <1>c, <2>1, <2>2, <2>3, LineKept DEF LineInv
  <2>4. CASE child = "running" /\ stdin' = Append(stdin, partial)
    <3>1. \A x, y \in partial : x = y \/ result'[x] = "RpcTimeout" \/ result'[y] = "RpcTimeout"
      BY <1>4, <1>a, <1>c, <2>2 DEF LineIsHeld, Written
    <3>2. QED
      BY <1>a, <1>c, <2>1, <2>2, <2>4, <3>1, LineAppended DEF LineInv
  <2>5. QED
    BY <1>4, <2>3, <2>4 DEF Written, FinishLine
<1>5. ASSUME NEW r \in Requests, WriteFails(r) PROVE LineInv'
  <2>1. LineIsHeld'
    BY <1>5, <1>b, <1>c, TransportAssumption DEF TypeOK, LineIsHeld, WriteFails, Abandon, Errors
  <2>2. \A q \in Requests : result[q] = "RpcTimeout" => result'[q] = "RpcTimeout"
    BY <1>5, <1>c DEF TypeOK, LineIsHeld, WriteFails, Abandon
  <2>3. stdin' = stdin
    BY <1>5 DEF WriteFails, Abandon
  <2>4. QED
    BY <1>a, <1>c, <2>1, <2>2, <2>3, LineKept DEF LineInv
<1>6. ASSUME NEW r \in Requests, WriteTimeout(r) PROVE LineInv'
  <2>1. LineIsHeld'
    BY <1>6, <1>b, <1>c, TransportAssumption DEF TypeOK, LineIsHeld, WriteTimeout, Abandon, FinishLine, Errors
  <2>2. \A q \in Requests : result[q] = "RpcTimeout" => result'[q] = "RpcTimeout"
    BY <1>6, <1>c DEF TypeOK, LineIsHeld, WriteTimeout, Abandon
  <2>3. CASE stdin' = stdin
    BY <1>a, <1>c, <2>1, <2>2, <2>3, LineKept DEF LineInv
  <2>4. CASE child = "running" /\ stdin' = Append(stdin, partial)
    <3>1. \A x, y \in partial : x = y \/ result'[x] = "RpcTimeout" \/ result'[y] = "RpcTimeout"
      <4>1. CASE pc[r] = "writing"
        <5>1. result'[r] = "RpcTimeout"
          BY <1>6 DEF TypeOK, WriteTimeout, Abandon
        <5>2. \A x \in partial : x = r \/ result[x] = "RpcTimeout"
          BY <1>c, <2>4, <4>1 DEF LineIsHeld, PipeOpen
        <5>3. QED
          BY <1>a, <2>2, <5>1, <5>2
      <4>2. CASE pc[r] = "registered"
        <5>1. stdin' = stdin
          BY <1>6, <4>2 DEF WriteTimeout
        <5>2. Len(Append(stdin, partial)) = Len(stdin) + 1 /\ Len(stdin) \in Nat
          BY <1>a
        <5>3. QED
          BY <2>4, <5>1, <5>2
      <4>3. QED
        BY <1>6, <4>1, <4>2 DEF WriteTimeout
    <3>2. QED
      BY <1>a, <1>c, <2>1, <2>2, <2>4, <3>1, LineAppended DEF LineInv
  <2>5. QED
    BY <1>6, <2>3, <2>4 DEF WriteTimeout, Abandon, FinishLine
<1>7. ASSUME NEW r \in Requests, AnswerTimeout(r) PROVE LineInv'
  <2>1. LineIsHeld'
    BY <1>7, <1>b, <1>c, TransportAssumption DEF TypeOK, LineIsHeld, AnswerTimeout, Abandon, Errors
  <2>2. \A q \in Requests : result[q] = "RpcTimeout" => result'[q] = "RpcTimeout"
    BY <1>7, <1>c DEF TypeOK, LineIsHeld, AnswerTimeout, Abandon
  <2>3. stdin' = stdin
    BY <1>7 DEF AnswerTimeout, Abandon
  <2>4. QED
    BY <1>a, <1>c, <2>1, <2>2, <2>3, LineKept DEF LineInv
<1>8. ASSUME NEW r \in Requests, Remove(r) PROVE LineInv'
  <2>1. LineIsHeld'
    BY <1>8, <1>b, <1>c, TransportAssumption DEF TypeOK, LineIsHeld, Remove, Errors
  <2>2. \A q \in Requests : result[q] = "RpcTimeout" => result'[q] = "RpcTimeout"
    BY <1>8, <1>c DEF TypeOK, LineIsHeld, Remove
  <2>3. stdin' = stdin
    BY <1>8 DEF Remove
  <2>4. QED
    BY <1>a, <1>c, <2>1, <2>2, <2>3, LineKept DEF LineInv
<1>9. ASSUME NEW r \in Requests, Receive(r) PROVE LineInv'
  <2>1. LineIsHeld'
    BY <1>9, <1>b, <1>c, TransportAssumption DEF TypeOK, LineIsHeld, Receive, Errors
  <2>2. \A q \in Requests : result[q] = "RpcTimeout" => result'[q] = "RpcTimeout"
    BY <1>9, <1>c DEF TypeOK, LineIsHeld, Receive
  <2>3. stdin' = stdin
    BY <1>9 DEF Receive
  <2>4. QED
    BY <1>a, <1>c, <2>1, <2>2, <2>3, LineKept DEF LineInv
<1>10. CASE \/ Reader \/ TakeEvent \/ Watcher \/ Teardown \/ Pi \/ UNCHANGED vars
  <2>1. UNCHANGED <<pc, result, holder, partial>>
    BY <1>10 DEF Reader, Watcher, Teardown, Pi, vars, ReadAnswer, HandOver, ReadEvent, SendEvent, ReadEnd,
                 TakeEvent, Reap, RecordExit, TakePending, Reject, Dispose,
                 DisposeKill, DisposeEnd, DropProcess, Signal, PiReads,
                 PiAnswers, PiEmits, PiExits
  <2>2. \/ stdin' = stdin
        \/ stdin # <<>> /\ stdin' = Tail(stdin)
        \/ stdin' = <<>>
    BY <1>10 DEF Reader, Watcher, Teardown, Pi, vars, ReadAnswer, HandOver, ReadEvent, SendEvent, ReadEnd,
                 TakeEvent, Reap, RecordExit, TakePending, Reject, Dispose,
                 DisposeKill, DisposeEnd, DropProcess, Signal, PiReads,
                 PiAnswers, PiEmits, PiExits
  <2>3. LineIsHeld'
    BY <1>b, <1>c, <2>1 DEF LineIsHeld
  <2>4. LinesAreWhole'
    BY <1>a, <1>c, <2>1, <2>2, LineKept
  <2>5. QED
    BY <2>3, <2>4 DEF LineInv
<1>11. QED
  BY <1>1, <1>2, <1>3, <1>4, <1>5, <1>6, <1>7, <1>8, <1>9, <1>10
     DEF Next, Request

LEMMA ExitStep == TypeOK /\ ExitIsFinal /\ [Next]_vars => ExitIsFinal'
<1> SUFFICES ASSUME TypeOK, ExitIsFinal, [Next]_vars PROVE ExitIsFinal'
  OBVIOUS
<1> USE DEF ExitIsFinal
<1>1. ASSUME NEW r \in Requests, Request(r) PROVE ExitIsFinal'
  <2>1. UNCHANGED <<child, watcher>>
    BY <1>1 DEF Request, Check, Register, Write, Written, WriteFails, WriteTimeout, Abandon,
              AnswerTimeout, Remove, Receive
  <2>2. /\ pending' \subseteq pending \cup {r}
        /\ \A q \in Requests : pc'[q] = "awaiting" =>
              \/ pc[q] = "awaiting" /\ (q \in pending' => q \in pending)
              \/ PipeOpen
    BY <1>1 DEF TypeOK, Request, Check, Register, Write, Written, WriteFails, WriteTimeout, Abandon,
              AnswerTimeout, Remove, Receive
  <2>3. pending' \subseteq Requests
    BY <2>2 DEF TypeOK
  <2>4. QED
    BY <2>1, <2>2, <2>3 DEF PipeOpen
<1>2. CASE TakePending
  BY <1>2 DEF TakePending
<1>3. CASE Reader \/ TakeEvent \/ Pi \/ UNCHANGED vars
  BY <1>3 DEF TypeOK, Reader, Pi, vars, Match, ReadAnswer, HandOver, ReadEvent,
              SendEvent, ReadEnd, TakeEvent, PiReads, PiAnswers, PiEmits, PiExits
<1>4. CASE Reap \/ RecordExit \/ Reject
  BY <1>4 DEF TypeOK, Reap, RecordExit, Reject
<1>5. CASE Teardown
  BY <1>5 DEF TypeOK, Teardown, Dispose, DisposeKill, DisposeEnd, DropProcess,
              Signal
<1>6. QED
  BY <1>1, <1>2, <1>3, <1>4, <1>5 DEF Next, Watcher

LEMMA LineOriginStep == TypeOK /\ LineOrigin /\ [Next]_vars => LineOrigin'
<1> SUFFICES ASSUME TypeOK, LineOrigin, [Next]_vars PROVE LineOrigin'
  OBVIOUS
<1>1. /\ stdin \in Seq(SUBSET Requests)
      /\ partial \subseteq Requests
      /\ pc \in [Requests -> {"idle", "checked", "abandoned", "done"} \cup Alive]
  BY DEF TypeOK
<1>2. \A r \in Requests : pc[r] # "idle" => pc'[r] # "idle"
  BY <1>1 DEF Next, Request, Reader, Watcher, Teardown, Pi, vars, Check, Register, Write, Written, WriteFails, WriteTimeout, Abandon,
              AnswerTimeout, Remove, Receive,
              ReadAnswer, HandOver, ReadEvent, SendEvent, ReadEnd, TakeEvent,
              Reap, RecordExit, TakePending, Reject, Dispose, DisposeKill,
              DisposeEnd, DropProcess, Signal, PiReads, PiAnswers, PiEmits,
              PiExits
<1>3. /\ partial' \subseteq Requests
      /\ \A r \in partial' : r \in partial \/ pc'[r] # "idle"
  BY <1>1 DEF Next, Request, Reader, Watcher, Teardown, Pi, vars, FinishLine,
              Check, Register, Write, Written, WriteFails, WriteTimeout, Abandon,
              AnswerTimeout, Remove, Receive,
              ReadAnswer, HandOver, ReadEvent, SendEvent, ReadEnd, TakeEvent,
              Reap, RecordExit, TakePending, Reject, Dispose, DisposeKill,
              DisposeEnd, DropProcess, Signal, PiReads, PiAnswers, PiEmits,
              PiExits
<1>4. \/ stdin' = stdin
      \/ stdin' = Append(stdin, partial)
      \/ stdin # <<>> /\ stdin' = Tail(stdin)
      \/ stdin' = <<>>
  BY DEF Next, Request, Reader, Watcher, Teardown, Pi, vars, FinishLine,
         Check, Register, Write, Written, WriteFails, WriteTimeout, Abandon,
              AnswerTimeout, Remove, Receive,
         ReadAnswer, HandOver, ReadEvent, SendEvent, ReadEnd, TakeEvent,
              Reap, RecordExit, TakePending, Reject, Dispose, DisposeKill,
              DisposeEnd, DropProcess, Signal, PiReads, PiAnswers, PiEmits,
              PiExits
<1>5. \A i \in DOMAIN stdin' :
         stdin'[i] = partial \/ \E j \in DOMAIN stdin : stdin'[i] = stdin[j]
  BY <1>1, <1>4
<1>6. \A i \in DOMAIN stdin : stdin[i] \subseteq Requests
  BY <1>1
<1>7. QED
  BY <1>1, <1>2, <1>3, <1>5, <1>6 DEF LineOrigin

LEMMA AnswerOriginStep == TypeOK /\ AnswerOrigin /\ [Next]_vars => AnswerOrigin'
<1> SUFFICES ASSUME TypeOK, AnswerOrigin, [Next]_vars PROVE AnswerOrigin'
  OBVIOUS
<1> USE DEF AnswerOrigin
<1>1. stdout \in Seq(Items) /\ slot \in [Requests -> {"empty", "answer", "PiExited"}]
  BY DEF TypeOK
<1>2. ASSUME NEW r \in Requests, ReadAnswer(r) PROVE AnswerOrigin'
  <2>1. stdout # <<>> /\ Head(stdout) = Answer(r) /\ stdout' = Tail(stdout)
    BY <1>2 DEF ReadAnswer
  <2>2. stdout[1] = Answer(r) /\ 1 \in DOMAIN stdout
    BY <1>1, <2>1
  <2>3. r \in said
    BY <2>2 DEF Answer
  <2>4. \A i \in DOMAIN stdout' : i + 1 \in DOMAIN stdout /\ stdout'[i] = stdout[i + 1]
    BY <1>1, <2>1
  <2>5. UNCHANGED <<slot, said>>
    BY <1>2 DEF ReadAnswer
  <2>6. QED
    BY <1>2, <2>3, <2>4, <2>5, ReadAnswerHand
<1>3. ASSUME NEW r \in Requests, HandOver(r) PROVE AnswerOrigin'
  <2>1. slot' = [slot EXCEPT ![r] = "answer"] /\ UNCHANGED <<stdout, said>>
    BY <1>3 DEF HandOver
  <2>2. QED
    BY <1>1, <1>3, <2>1, HandOverHand
<1>4. CASE ReadEvent \/ SendEvent \/ ReadEnd
  <2>1. UNCHANGED <<slot, said>>
    BY <1>4 DEF ReadEvent, SendEvent, ReadEnd
  <2>2. \A i \in DOMAIN stdout' :
           \E j \in DOMAIN stdout : stdout'[i] = stdout[j]
    <3>1. CASE ReadEvent
      <4>1. stdout # <<>> /\ stdout' = Tail(stdout)
        BY <3>1 DEF ReadEvent
      <4>2. QED
        BY <1>1, <4>1
    <3>2. CASE SendEvent \/ ReadEnd
      BY <3>2 DEF SendEvent, ReadEnd
    <3>3. QED
      BY <1>4, <3>1, <3>2
  <2>3. QED
    BY <1>4, <2>1, <2>2, EventHand
<1>5. ASSUME NEW r \in Requests, PiAnswers(r) PROVE AnswerOrigin'
  <2>1. /\ said' = said \cup {r}
        /\ stdout' = Append(stdout, Answer(r))
        /\ UNCHANGED <<slot, reader>>
    BY <1>5 DEF PiAnswers
  <2>2. \A i \in DOMAIN stdout' :
           stdout'[i] = Answer(r) \/ \E j \in DOMAIN stdout : stdout'[i] = stdout[j]
    BY <1>1, <2>1
  <2>3. Answer(r).of = r
    BY DEF Answer
  <2>4. QED
    BY <2>1, <2>2, <2>3, SameHand
<1>6. CASE PiEmits
  <2>1. /\ stdout' = Append(stdout, Event(emitted'))
        /\ UNCHANGED <<slot, reader, said>>
    BY <1>6 DEF PiEmits
  <2>2. \A i \in DOMAIN stdout' :
           stdout'[i] = Event(emitted') \/ \E j \in DOMAIN stdout : stdout'[i] = stdout[j]
    BY <1>1, <2>1
  <2>3. Event(emitted').kind # "answer"
    BY DEF Event
  <2>4. QED
    BY <2>1, <2>2, <2>3, SameHand
<1>7. CASE Reject
  BY <1>1, <1>7, SameHand DEF Reject
<1>8. CASE \/ \E r \in Requests : Request(r)
           \/ TakeEvent \/ Reap \/ RecordExit \/ TakePending \/ Teardown
           \/ PiReads \/ PiExits \/ UNCHANGED vars
  <2>1. UNCHANGED <<slot, reader, said, stdout>>
    BY <1>8 DEF vars, Request, Check, Register, Write, Written, WriteFails, WriteTimeout, Abandon,
              AnswerTimeout, Remove, Receive,
                TakeEvent, Reap, RecordExit, TakePending, Teardown, Dispose,
                DisposeKill, DisposeEnd, DropProcess, Signal, PiReads, PiExits
  <2>2. QED
    BY <2>1, SameHand
<1>9. QED
  BY <1>2, <1>3, <1>4, <1>5, <1>6, <1>7, <1>8 DEF Next, Reader, Watcher, Pi

LEMMA TransportStep == TypeOK /\ TransportInv /\ [Next]_vars => TransportInv'
BY SenderStep, LineStep, ExitStep, LineOriginStep, AnswerOriginStep
   DEF TransportInv, SenderInv, LineInv, Provenance

\* The strengthened invariant holds in every reachable state.
THEOREM TransportHolds == Spec => []TransportInv
<1>1. Spec => []TypeOK
  BY TypeCorrect
<1>2. QED
  BY <1>1, InitTransport, TransportStep, PTL DEF Spec

-----------------------------------------------------------------------------
(* What follows from it.                                                   *)

\* No request leaves its entry behind in the pending map, whichever of write
\* error, deadline, answer and exit ends it (request_response_with_started).
THEOREM EntriesEnd == Spec => []NoLeakedEntry
<1>1. TransportInv => NoLeakedEntry
  BY DEF TransportInv
<1>2. QED
  BY <1>1, TransportHolds, PTL

\* A live request without a value always has a sender: the oneshot is never
\* dropped empty (the Ok(Err(_)) branch of request_response_with_started).
THEOREM SendersStay == Spec => []WaiterHasSender
<1>1. TransportInv => WaiterHasSender
  BY DEF TransportInv
<1>2. QED
  BY <1>1, TransportHolds, PTL

\* Two requests share a line of stdin only after a deadline cut a write
\* (write_line and its lock).
THEOREM LinesStayWhole == Spec => []LinesAreWhole
<1>1. TransportInv => LinesAreWhole
  BY DEF TransportInv
<1>2. QED
  BY <1>1, TransportHolds, PTL

\* Once pi's exit is handled, and unless a descendant keeps the pipes, no
\* request waits for an answer that cannot come (wait_loop against
\* request_response_with_started).
THEOREM NobodyWaitsInVain == Spec => []NoHopelessWait
<1>1. TypeOK /\ TransportInv => NoHopelessWait
  <2> SUFFICES ASSUME TypeOK, TransportInv, watcher = "ended", ~PipeOutlives,
                      NEW r \in Requests, pc[r] = "awaiting", slot[r] = "empty"
               PROVE  InHandOf(r)
    BY DEF NoHopelessWait
  <2>1. r \in pending \cup rejecting \/ InHandOf(r)
    BY DEF TransportInv, WaiterHasSender, Alive
  <2>2. rejecting = {}
    BY DEF TransportInv, OneSender
  <2>3. r \notin pending
    BY DEF TransportInv, ExitIsFinal
  <2>4. QED
    BY <2>1, <2>2, <2>3
<1>2. QED
  BY <1>1, TypeCorrect, TransportHolds, PTL

-----------------------------------------------------------------------------
(* The transport implements RequestService.                                *)

States == [r \in Requests |-> StateOf(r)]

LEMMA StatesMove ==
    ASSUME TypeOK, NEW r \in Requests,
           \A q \in Requests \ {r} : pc'[q] = pc[q] /\ result'[q] = result[q]
    PROVE  States' = [States EXCEPT ![r] = StateOf(r)']
<1>1. \A q \in Requests \ {r} : StateOf(q)' = StateOf(q)
  BY DEF StateOf
<1>2. QED
  BY <1>1 DEF States

LEMMA StatesStay ==
    ASSUME \A q \in Requests : pc'[q] = pc[q] /\ result'[q] = result[q]
    PROVE  States' = States
<1>1. \A q \in Requests : StateOf(q)' = StateOf(q)
  BY DEF StateOf
<1>2. QED
  BY <1>1 DEF States

\* What each step of a request is to its caller.
LEMMA RequestMoves ==
    ASSUME TypeOK, TransportInv, NEW r \in Requests, Request(r)
    PROVE  \/ States' = States
           \/ Service!Start(r)
           \/ Service!Written(r)
           \/ Service!Answered(r)
           \/ Service!Fails(r)
<1>1. /\ pc \in [Requests -> {"idle", "checked", "abandoned", "done"} \cup Alive]
      /\ result \in [Requests -> {"none", "answer"} \cup Errors]
      /\ slot \in [Requests -> {"empty", "answer", "PiExited"}]
  BY DEF TypeOK
<1>2. /\ \A q \in Requests \ {r} : pc'[q] = pc[q] /\ result'[q] = result[q]
      /\ UNCHANGED <<asked, said>>
  BY <1>1 DEF Request, Check, Register, Write, Written, WriteFails,
              WriteTimeout, Abandon, AnswerTimeout, Remove, Receive
<1>3. States' = [States EXCEPT ![r] = StateOf(r)']
  BY <1>2, StatesMove
<1>4. States[r] = StateOf(r)
  BY DEF States
<1>5. ASSUME StateOf(r)' = StateOf(r) PROVE States' = States
  BY <1>3, <1>4, <1>5 DEF States
<1>6. CASE Check(r)
  <2>1. StateOf(r) = "none" /\ StateOf(r)' \in {"writing", "err"}
    BY <1>1, <1>6 DEF Check, StateOf, Alive
  <2>2. QED
    BY <1>2, <1>3, <1>4, <2>1
       DEF Service!Start, Service!Fails, Service!Move, States
<1>7. CASE Register(r) \/ Write(r) \/ Remove(r)
  <2>1. StateOf(r)' = StateOf(r)
    BY <1>1, <1>7 DEF Register, Write, Remove, StateOf
  <2>2. QED
    BY <1>5, <2>1
<1>8. CASE Written(r)
  <2>1. StateOf(r) = "writing" /\ StateOf(r)' = "awaiting"
    BY <1>1, <1>8 DEF Written, StateOf
  <2>2. QED
    BY <1>2, <1>3, <1>4, <2>1 DEF Service!Written, Service!Move, States
<1>9. CASE WriteFails(r) \/ WriteTimeout(r) \/ AnswerTimeout(r)
  <2>1. StateOf(r) \in {"writing", "awaiting"} /\ StateOf(r)' = "err"
    BY <1>1, <1>9 DEF WriteFails, WriteTimeout, AnswerTimeout, Abandon, StateOf
  <2>2. QED
    BY <1>2, <1>3, <1>4, <2>1 DEF Service!Fails, Service!Move, States
<1>10. CASE Receive(r)
  <2>1. StateOf(r) = "awaiting"
    BY <1>10 DEF Receive, StateOf
  <2>2. CASE slot[r] = "answer"
    <3>1. r \in said
      BY <2>2 DEF TransportInv, Provenance, AnswerOrigin
    <3>2. StateOf(r)' = "ok"
      BY <1>1, <1>10, <2>2 DEF Receive, StateOf
    <3>3. QED
      BY <1>2, <1>3, <1>4, <2>1, <3>1, <3>2
         DEF Service!Answered, Service!Move, States
  <2>3. CASE slot[r] = "PiExited"
    <3>1. StateOf(r)' = "err"
      BY <1>1, <1>10, <2>3 DEF Receive, StateOf
    <3>2. QED
      BY <1>2, <1>3, <1>4, <2>1, <3>1 DEF Service!Fails, Service!Move, States
  <2>4. QED
    BY <1>1, <1>10, <2>2, <2>3 DEF Receive
<1>11. QED
  BY <1>6, <1>7, <1>8, <1>9, <1>10 DEF Request

LEMMA ServiceStep ==
    TypeOK /\ TransportInv /\ [Next]_vars
        => [Service!Next]_<<States, asked, said>>
<1> SUFFICES ASSUME TypeOK, TransportInv, [Next]_vars
             PROVE  Service!Next \/ UNCHANGED <<States, asked, said>>
  OBVIOUS
<1>1. ASSUME NEW r \in Requests, Request(r)
      PROVE  Service!Next \/ UNCHANGED <<States, asked, said>>
  <2>1. UNCHANGED <<asked, said>>
    BY <1>1 DEF Request, Check, Register, Write, Written, WriteFails,
                WriteTimeout, Abandon, AnswerTimeout, Remove, Receive
  <2>2. QED
    BY <1>1, <2>1, RequestMoves DEF Service!Next
<1>2. CASE Reader \/ TakeEvent \/ Watcher \/ Teardown \/ PiEmits \/ PiExits
           \/ UNCHANGED vars
  <2>1. UNCHANGED <<pc, result, asked, said>>
    BY <1>2 DEF Reader, Watcher, Teardown, vars, ReadAnswer, HandOver,
                ReadEvent, SendEvent, ReadEnd, TakeEvent, Reap, RecordExit,
                TakePending, Reject, Dispose, DisposeKill, DisposeEnd,
                DropProcess, Signal, PiEmits, PiExits
  <2>2. QED
    BY <2>1, StatesStay
<1>3. ASSUME NEW r \in Requests, PiAnswers(r) PROVE Service!PiAnswers(r)
  <2>1. UNCHANGED <<pc, result>>
    BY <1>3 DEF PiAnswers
  <2>2. QED
    BY <1>3, <2>1, StatesStay DEF PiAnswers, Service!PiAnswers, States
<1>4. ASSUME PiReads
      PROVE  \/ \E r \in Requests : Service!PiTakes(r)
             \/ UNCHANGED <<States, asked, said>>
  <2>1. States' = States /\ said' = said
    BY <1>4, StatesStay DEF PiReads
  <2>2. asked' = asked \cup {r \in Requests : Head(stdin) = {r}}
    BY <1>4 DEF PiReads
  <2>3. CASE \E r \in Requests \ asked : Head(stdin) = {r}
    <3>1. PICK r \in Requests \ asked : Head(stdin) = {r}
      BY <2>3
    <3>2. r \in stdin[1] /\ 1 \in DOMAIN stdin
      BY <1>4, <3>1 DEF PiReads, TypeOK
    <3>3. StateOf(r) # "none"
      BY <3>2 DEF TransportInv, Provenance, LineOrigin, StateOf
    <3>4. asked' = asked \cup {r}
      BY <2>2, <3>1
    <3>5. QED
      BY <2>1, <3>1, <3>3, <3>4 DEF Service!PiTakes, States
  <2>4. CASE ~\E r \in Requests \ asked : Head(stdin) = {r}
    BY <2>1, <2>2, <2>4
  <2>5. QED
    BY <2>3, <2>4
<1>5. QED
  BY <1>1, <1>2, <1>3, <1>4 DEF Next, Pi, Service!Next

\* An answer reaches only the request that pi read and answered, every request
\* ends once, and with an error otherwise: the transport implements
\* RequestService (RpcClient, read_loop and wait_loop together).
THEOREM TransportIsGenuine == Spec => AnswersAreGenuine
<1>1. Init => Service!Init
  BY DEF Init, Service!Init, StateOf
<1>2. TypeOK /\ TransportInv /\ [Next]_vars
        => [Service!Next]_(Service!serviceVars)
  BY ServiceStep DEF Service!serviceVars, States
<1>3. QED
  BY <1>1, <1>2, TypeCorrect, TransportHolds, PTL
     DEF Spec, AnswersAreGenuine, Service!Spec

-----------------------------------------------------------------------------
(* Events in order.                                                        *)

\* What is on the way, in its three places.
InChannel == Only(channel, EventItems)
AtReader == Only(InHandOfReader, EventItems)
InPipe == Only(stdout, EventItems)

LEMMA EventPlaces ==
    TypeOK => /\ InChannel \in Seq(EventItems) /\ AtReader \in Seq(EventItems)
              /\ InPipe \in Seq(EventItems) /\ InHandOfReader \in Seq(Items)
              /\ EventsInFlight \in Seq(EventItems)
<1> SUFFICES ASSUME TypeOK
             PROVE  /\ InChannel \in Seq(EventItems) /\ AtReader \in Seq(EventItems)
                    /\ InPipe \in Seq(EventItems) /\ InHandOfReader \in Seq(Items)
                    /\ EventsInFlight \in Seq(EventItems)
  OBVIOUS
<1>1. channel \in Seq(Items) /\ stdout \in Seq(Items)
  BY DEF TypeOK
<1>2. InHandOfReader \in Seq(Items)
  BY ReaderTypes DEF InHandOfReader, TypeOK
<1>3. /\ InChannel \in Seq(EventItems) /\ AtReader \in Seq(EventItems)
      /\ InPipe \in Seq(EventItems)
  BY <1>1, <1>2, OnlyAt DEF InChannel, AtReader, InPipe
<1>4. QED
  BY <1>2, <1>3 DEF EventsInFlight, InChannel, AtReader, InPipe

LEMMA ItemIsEvent == \A x \in Items : x.kind = "event" <=> x \in EventItems
BY DEF Items, EventItems, Event, Answer

\* One item in the reader's hand.
LEMMA OneItem ==
    ASSUME NEW x \in Items
    PROVE  Only(<<x>>, EventItems) = IF x \in EventItems THEN <<x>> ELSE <<>>
<1>1. <<x>> = Append(<<>>, x) /\ <<>> \in Seq(Items)
  OBVIOUS
<1>2. Only(Append(<<>>, x), EventItems)
        = IF x \in EventItems THEN Append(Only(<<>>, EventItems), x) ELSE Only(<<>>, EventItems)
  BY <1>1, OnlyAppend
<1>3. QED
  BY <1>1, <1>2, OnlyEmpty

\* The three places as one sequence.
LEMMA InLine ==
    /\ EventsInFlight = InChannel \o AtReader \o InPipe
    /\ EventsInFlight' = InChannel' \o AtReader' \o InPipe'
BY DEF EventsInFlight, InChannel, AtReader, InPipe

LEMMA ConcatItem ==
    ASSUME NEW S, NEW a \in Seq(S), NEW b \in Seq(S), NEW x \in S
    PROVE  Append(a, x) \o <<>> \o b = a \o <<x>> \o b
OBVIOUS

LEMMA ConcatMoves ==
    ASSUME NEW S, NEW a \in Seq(S), NEW b \in Seq(S)
    PROVE  /\ a \o <<>> \o b = a \o b
           /\ b # <<>> => a \o <<Head(b)>> \o Tail(b) = a \o b
<1>1. a \o <<>> \o b = a \o b
  OBVIOUS
<1>2. ASSUME b # <<>> PROVE a \o <<Head(b)>> \o Tail(b) = a \o b
  <2>1. <<Head(b)>> \in Seq(S) /\ Tail(b) \in Seq(S) /\ b = <<Head(b)>> \o Tail(b)
    BY <1>2
  <2>2. QED
    BY <2>1, ConcatAssociative
<1>3. QED
  BY <1>1, <1>2

\* What a step does to the events on their way.
EventMoves ==
    \/ UNCHANGED <<EventsInFlight, emitted, received>>
    \/ /\ emitted' = emitted + 1 /\ received' = received
       /\ Event(emitted + 1) \in EventItems
       /\ EventsInFlight' = Append(EventsInFlight, Event(emitted + 1))
    \/ /\ emitted' = emitted /\ received' = received + 1
       /\ EventsInFlight # <<>> /\ EventsInFlight' = Tail(EventsInFlight)

LEMMA EventStay ==
    ASSUME UNCHANGED <<channel, stdout, emitted, received>>, InHandOfReader' = InHandOfReader
    PROVE  EventMoves
BY DEF EventMoves, EventsInFlight

LEMMA ReaderMoves ==
    ASSUME TypeOK, teardown # "ended", Reader
    PROVE  EventMoves
<1>0. /\ InChannel \in Seq(EventItems) /\ InPipe \in Seq(EventItems)
      /\ channel \in Seq(Items) /\ stdout \in Seq(Items)
  BY EventPlaces DEF TypeOK
<1>1. ASSUME NEW r \in Requests, ReadAnswer(r) PROVE EventMoves
  <2>1. Answer(r) \in Items /\ Answer(r) \notin EventItems /\ stdout # <<>> /\ Head(stdout) = Answer(r)
    BY <1>1 DEF ReadAnswer, Items, EventItems, Answer, Event
  <2>2. InPipe' = InPipe
    BY <1>0, <1>1, <2>1, OnlyTail DEF ReadAnswer, InPipe
  <2>3. InHandOfReader = <<>>
    BY <1>1 DEF ReadAnswer, Reading, InHandOfReader
  <2>4. InHandOfReader' = <<>> \/ InHandOfReader' = <<Answer(r)>>
    BY <1>1 DEF ReadAnswer, InHand, InHandOfReader
  <2>5. AtReader' = AtReader
    BY <2>1, <2>3, <2>4, OneItem, OnlyEmpty DEF AtReader
  <2>6. UNCHANGED <<InChannel, emitted, received>>
    BY <1>1 DEF ReadAnswer, InChannel
  <2>7. QED
    BY <2>2, <2>5, <2>6, InLine DEF EventMoves
<1>2. ASSUME NEW r \in Requests, HandOver(r) PROVE EventMoves
  <2>1. InHandOfReader' = InHandOfReader
    BY <1>2 DEF HandOver, Reading, InHandOfReader
  <2>2. QED
    BY <1>2, <2>1, EventStay DEF HandOver
<1>3. CASE ReadEvent
  <2>1. stdout # <<>> /\ Head(stdout) \in EventItems /\ Head(stdout) \in Items
    BY <1>0, <1>3, ItemIsEvent DEF ReadEvent
  <2>2. InPipe # <<>> /\ Head(InPipe) = Head(stdout) /\ InPipe' = Tail(InPipe)
    BY <1>0, <1>3, <2>1, OnlyTail DEF ReadEvent, InPipe
  <2>3. AtReader = <<>>
    BY <1>3, OnlyEmpty DEF ReadEvent, Reading, InHandOfReader, AtReader
  <2>4. AtReader' = <<Head(stdout)>>
    BY <1>3, <2>1, OneItem DEF ReadEvent, InHand, InHandOfReader, AtReader
  <2>5. UNCHANGED <<InChannel, emitted, received>>
    BY <1>3 DEF ReadEvent, InChannel
  <2>6. EventsInFlight' = InChannel \o <<Head(InPipe)>> \o Tail(InPipe)
    BY <2>2, <2>4, <2>5 DEF EventsInFlight, InChannel, AtReader, InPipe
  <2>7. EventsInFlight = InChannel \o <<>> \o InPipe
    BY <2>3, InLine
  <2>8. /\ InChannel \o <<Head(InPipe)>> \o Tail(InPipe) = InChannel \o InPipe
        /\ InChannel \o <<>> \o InPipe = InChannel \o InPipe
    BY <1>0, <2>2, ConcatMoves, Zenon
  <2>9. EventsInFlight' = EventsInFlight
    BY <2>6, <2>7, <2>8, Zenon
  <2>10. QED
    BY <2>5, <2>9 DEF EventMoves
<1>4. CASE SendEvent
  <2>1. reader.item \in Items /\ InHandOfReader = <<reader.item>> /\ InHandOfReader' = <<>>
    BY <1>4, ReaderTypes DEF SendEvent, Reading, InHandOfReader, TypeOK
  <2>2. channel' = Append(channel, reader.item) /\ UNCHANGED <<InPipe, emitted, received>>
    BY <1>4 DEF SendEvent, InPipe
  <2>3. InChannel' = IF reader.item \in EventItems THEN Append(InChannel, reader.item)
                     ELSE InChannel
    BY <1>0, <2>1, <2>2, OnlyAppend DEF InChannel
  <2>4. /\ AtReader = IF reader.item \in EventItems THEN <<reader.item>> ELSE <<>>
        /\ AtReader' = <<>>
    BY <2>1, OneItem, OnlyEmpty DEF AtReader
  <2>5. EventsInFlight' = InChannel' \o <<>> \o InPipe
    BY <2>2, <2>4 DEF EventsInFlight, InChannel, AtReader, InPipe
  <2>6. EventsInFlight' = EventsInFlight
    <3>1. CASE reader.item \in EventItems
      <4>1. EventsInFlight' = Append(InChannel, reader.item) \o <<>> \o InPipe
        BY <2>3, <2>5, <3>1
      <4>2. EventsInFlight = InChannel \o <<reader.item>> \o InPipe
        BY <2>4, <3>1, InLine
      <4>3. Append(InChannel, reader.item) \o <<>> \o InPipe
              = InChannel \o <<reader.item>> \o InPipe
        BY <1>0, <3>1, ConcatItem
      <4>4. QED
        BY <4>1, <4>2, <4>3, Zenon
    <3>2. CASE reader.item \notin EventItems
      BY <2>3, <2>4, <2>5, <3>2, InLine
    <3>3. QED
      BY <3>1, <3>2
  <2>7. QED
    BY <2>2, <2>6 DEF EventMoves
<1>5. CASE ReadEnd
  <2>1. InHandOfReader' = InHandOfReader
    BY <1>5 DEF ReadEnd, Reading, Ended, InHandOfReader
  <2>2. QED
    BY <1>5, <2>1, EventStay DEF ReadEnd
<1>6. QED
  BY <1>1, <1>2, <1>3, <1>4, <1>5 DEF Reader

LEMMA TakeEventMoves ==
    ASSUME TypeOK, TakeEvent
    PROVE  EventMoves
<1>0. /\ InChannel \in Seq(EventItems) /\ InPipe \in Seq(EventItems)
      /\ AtReader \in Seq(EventItems) /\ channel \in Seq(Items) /\ channel # <<>>
      /\ Head(channel) \in Items
  BY EventPlaces DEF TypeOK, TakeEvent
<1>1. UNCHANGED <<AtReader, InPipe, emitted>>
  BY DEF TakeEvent, AtReader, InHandOfReader, InPipe
<1>2. EventsInFlight' = InChannel' \o AtReader \o InPipe
  BY <1>1 DEF EventsInFlight, InChannel, AtReader, InPipe
<1>3. CASE Head(channel) \in EventItems
  <2>1. InChannel # <<>> /\ InChannel' = Tail(InChannel) /\ received' = received + 1
    BY <1>0, <1>3, OnlyTail, ItemIsEvent DEF TakeEvent, InChannel
  <2>2. EventsInFlight # <<>> /\ EventsInFlight' = Tail(EventsInFlight)
    <3> DEFINE q == InChannel \o AtReader
    <3>1. q # <<>> /\ q \in Seq(EventItems) /\ Tail(q) = Tail(InChannel) \o AtReader
      BY <1>0, <2>1, SeqHead
    <3>2. q \o InPipe # <<>> /\ Tail(q \o InPipe) = Tail(q) \o InPipe
      <4> HIDE DEF q
      <4>1. QED
        BY <1>0, <3>1, SeqHead
    <3>3. EventsInFlight = q \o InPipe /\ EventsInFlight' = Tail(q) \o InPipe
      BY <1>2, <2>1, <3>1, InLine
    <3>4. QED
      BY <3>2, <3>3
  <2>3. QED
    BY <1>1, <2>1, <2>2 DEF EventMoves
<1>4. CASE Head(channel) \notin EventItems
  <2>1. InChannel' = InChannel /\ received' = received
    BY <1>0, <1>4, OnlyTail, ItemIsEvent DEF TakeEvent, InChannel
  <2>2. QED
    BY <1>1, <1>2, <2>1, InLine DEF EventMoves
<1>5. QED
  BY <1>3, <1>4

LEMMA PiMoves ==
    ASSUME TypeOK, Pi
    PROVE  EventMoves
<1>0. InPipe \in Seq(EventItems) /\ InChannel \o AtReader \in Seq(EventItems)
      /\ stdout \in Seq(Items)
  BY EventPlaces DEF TypeOK
<1>1. ASSUME NEW r \in Requests, PiAnswers(r) PROVE EventMoves
  <2>1. Answer(r) \in Items /\ Answer(r) \notin EventItems
    BY DEF Items, EventItems, Answer, Event
  <2>2. InPipe' = InPipe
    BY <1>0, <1>1, <2>1, OnlyAppend DEF PiAnswers, InPipe
  <2>3. UNCHANGED <<InChannel, AtReader, emitted, received>>
    BY <1>1 DEF PiAnswers, InChannel, AtReader, InHandOfReader
  <2>4. QED
    BY <2>2, <2>3, InLine DEF EventMoves
<1>2. CASE PiEmits
  <2>1. emitted' = emitted + 1 /\ emitted + 1 \in 1 .. MaxEvents
    BY <1>2, TransportAssumption DEF PiEmits, TypeOK
  <2>2. Event(emitted + 1) \in Items /\ Event(emitted + 1) \in EventItems
    BY <2>1 DEF Items, EventItems
  <2>3. InPipe' = Append(InPipe, Event(emitted + 1))
    BY <1>0, <1>2, <2>1, <2>2, OnlyAppend DEF PiEmits, InPipe
  <2>4. UNCHANGED <<InChannel, AtReader, received>>
    BY <1>2 DEF PiEmits, InChannel, AtReader, InHandOfReader
  <2>5. EventsInFlight' = (InChannel \o AtReader) \o Append(InPipe, Event(emitted + 1))
    BY <2>3, <2>4 DEF EventsInFlight, InChannel, AtReader, InPipe
  <2>6. EventsInFlight' = Append(EventsInFlight, Event(emitted + 1))
    BY <1>0, <2>2, <2>5, InLine
  <2>7. QED
    BY <2>1, <2>2, <2>4, <2>6 DEF EventMoves
<1>3. CASE PiReads \/ PiExits
  BY <1>3, EventStay DEF PiReads, PiExits, InHandOfReader
<1>4. QED
  BY <1>1, <1>2, <1>3 DEF Pi

\* The events on their way are numbered on from those received: so are they when
\* pi emits the next one, and when the pump takes the first.
LEMMA NumberedAppend ==
    ASSUME NEW s \in Seq(EventItems), NEW r \in Nat, NEW e \in Nat, Event(e + 1) \in EventItems,
           Len(s) = e - r, \A i \in 1 .. Len(s) : s[i] = Event(r + i),
           NEW t, t = Append(s, Event(e + 1))
    PROVE  Len(t) = (e + 1) - r /\ \A i \in DOMAIN t : t[i] = Event(r + i)
<1>1. /\ Len(t) = Len(s) + 1 /\ DOMAIN t = 1 .. Len(s) + 1 /\ t[Len(s) + 1] = Event(e + 1)
      /\ \A i \in 1 .. Len(s) : t[i] = s[i]
  OBVIOUS
<1>2. Len(s) \in Nat /\ r + (Len(s) + 1) = e + 1
  OBVIOUS
<1>3. ASSUME NEW i \in 1 .. Len(s) + 1
      PROVE  t[i] = Event(r + i)
  <2>1. CASE i = Len(s) + 1
    BY <1>1, <1>2, <2>1
  <2>2. CASE i \in 1 .. Len(s)
    BY <1>1, <2>2
  <2> QED BY <1>2, <2>1, <2>2
<1> QED BY <1>1, <1>2, <1>3

LEMMA NumberedTail ==
    ASSUME NEW s \in Seq(EventItems), NEW r \in Nat, NEW e \in Nat, s # <<>>,
           Len(s) = e - r, \A i \in 1 .. Len(s) : s[i] = Event(r + i),
           NEW t, t = Tail(s)
    PROVE  Len(t) = e - (r + 1) /\ \A i \in DOMAIN t : t[i] = Event((r + 1) + i)
<1>1. /\ Len(s) \in Nat \ {0} /\ Len(t) = Len(s) - 1 /\ DOMAIN t = 1 .. Len(s) - 1
      /\ \A i \in 1 .. Len(s) - 1 : t[i] = s[i + 1]
  OBVIOUS
<1>2. ASSUME NEW i \in 1 .. Len(s) - 1
      PROVE  t[i] = Event((r + 1) + i)
  <2>1. i + 1 \in 1 .. Len(s) /\ r + (i + 1) = (r + 1) + i
    BY <1>1
  <2>2. s[i + 1] = Event(r + (i + 1))
    BY <2>1
  <2> QED BY <1>1, <2>1, <2>2
<1> QED BY <1>1, <1>2

LEMMA EventStep ==
    TypeOK /\ EventsInOrder /\ [Next]_vars => EventsInOrder'
<1> SUFFICES ASSUME TypeOK, EventsInOrder, [Next]_vars, teardown' # "ended"
             PROVE  /\ Len(EventsInFlight') = emitted' - received'
                    /\ \A i \in DOMAIN EventsInFlight' :
                         EventsInFlight'[i] = Event(received' + i)
  BY DEF EventsInOrder
<1>1. teardown # "ended"
  BY DEF Next, Request, Check, Register, Write, Written, WriteFails, WriteTimeout, Abandon,
         AnswerTimeout, Remove, Receive, Reader, ReadAnswer, HandOver, ReadEvent, SendEvent,
         ReadEnd, TakeEvent, Watcher, Reap, RecordExit, TakePending, Reject, Teardown, Dispose,
         DisposeKill, DisposeEnd, DropProcess, Pi, PiReads, PiAnswers, PiEmits, PiExits, vars
<1>2. EventMoves
  <2>1. CASE \/ \E r \in Requests : Request(r)
             \/ Watcher \/ Dispose \/ DisposeKill \/ UNCHANGED vars
    BY <2>1, EventStay DEF Request, Check, Register, Write, Written, WriteFails, WriteTimeout,
       Abandon, AnswerTimeout, Remove, Receive, Watcher, Reap, RecordExit, TakePending, Reject,
       Dispose, DisposeKill, vars, InHandOfReader
  <2>2. ~DisposeEnd /\ ~DropProcess
    BY DEF DisposeEnd, DropProcess
  <2>3. QED
    BY <1>1, <2>1, <2>2, ReaderMoves, TakeEventMoves, PiMoves DEF Next, Teardown
<1>3. /\ EventsInFlight \in Seq(EventItems) /\ Len(EventsInFlight) = emitted - received
      /\ \A i \in 1 .. Len(EventsInFlight) : EventsInFlight[i] = Event(received + i)
      /\ received \in Nat /\ emitted \in Nat
  BY <1>1, EventPlaces DEF EventsInOrder, TypeOK
<1>4. CASE UNCHANGED <<EventsInFlight, emitted, received>>
  BY <1>3, <1>4
<1> DEFINE next == EventsInFlight'
<1>5. CASE /\ emitted' = emitted + 1 /\ received' = received
           /\ Event(emitted + 1) \in EventItems
           /\ EventsInFlight' = Append(EventsInFlight, Event(emitted + 1))
  <2>1. next = Append(EventsInFlight, Event(emitted + 1))
    BY <1>5
  <2>2. Event(emitted + 1) \in EventItems
    BY <1>5
  <2> HIDE DEF next
  <2>3. Len(next) = (emitted + 1) - received /\ \A i \in DOMAIN next : next[i] = Event(received + i)
    <3>1. PICK now : now = EventsInFlight
      OBVIOUS
    <3> HIDE DEF EventsInFlight
    <3>2. /\ now \in Seq(EventItems) /\ Len(now) = emitted - received
          /\ \A i \in 1 .. Len(now) : now[i] = Event(received + i)
      BY <1>3, <3>1
    <3>3. next = Append(now, Event(emitted + 1))
      BY <2>1, <3>1
    <3> QED BY <1>3, <2>2, <3>2, <3>3, NumberedAppend
  <2> QED BY <1>5, <2>3 DEF next
<1>6. CASE /\ emitted' = emitted /\ received' = received + 1
           /\ EventsInFlight # <<>> /\ EventsInFlight' = Tail(EventsInFlight)
  <2>1. next = Tail(EventsInFlight)
    BY <1>6
  <2> HIDE DEF next
  <2>2. Len(next) = emitted - (received + 1)
        /\ \A i \in DOMAIN next : next[i] = Event((received + 1) + i)
    BY <1>3, <1>6, <2>1, NumberedTail
  <2> QED BY <1>6, <2>2 DEF next
<1>7. QED
  BY <1>2, <1>4, <1>5, <1>6 DEF EventMoves

LEMMA InitEvents == Init => EventsInOrder
<1> SUFFICES ASSUME Init PROVE EventsInOrder
  OBVIOUS
<1>1. Only(channel, EventItems) = <<>> /\ Only(stdout, EventItems) = <<>>
  BY OnlyEmpty DEF Init
<1>2. Only(InHandOfReader, EventItems) = <<>>
  BY OnlyEmpty DEF Init, Reading, InHandOfReader
<1>3. EventsInFlight = <<>>
  BY <1>1, <1>2 DEF EventsInFlight
<1>4. QED
  BY <1>3 DEF EventsInOrder, Init

\* No event is lost, doubled or overtaken between pi and the pump while the channel
\* lives, whatever its capacity and however many late answers are forwarded among
\* them (read_loop's bounded send).
THEOREM EventsStayInOrder == Spec => []EventsInOrder
BY TypeCorrect, InitEvents, EventStep, PTL DEF Spec

=============================================================================
