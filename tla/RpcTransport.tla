---------------------------- MODULE RpcTransport ----------------------------
(***************************************************************************)
(* The request transport to one pi child (pi/process.rs): RpcClient's      *)
(* `request_response_with_started`, the reader task, the watcher task and  *)
(* the teardown of PiProcess.                                              *)
(*                                                                         *)
(* Any number of tasks request at once.  They share the stdin lock, the    *)
(* map of pending requests and the exit record, and await in between: a    *)
(* step below is what runs between two awaits.  A request's id is the      *)
(* request itself (`next_id` is an atomic counter).  Time is abstracted: a *)
(* deadline may pass whenever its request still waits.                     *)
(***************************************************************************)
EXTENDS Integers, Sequences, FiniteSets, Subsequences

CONSTANTS
    Requests,
    PumpRequests, \* those the session's pump awaits itself (on_rpc, on_cancel)
    None,         \* no request
    PipeOutlives, \* a descendant of pi keeps the pipes open after pi's exit
    EventCapacity,\* EVENT_CHANNEL_CAPACITY
    MaxEvents     \* bound: events pi emits

ASSUME TransportAssumption ==
    /\ PumpRequests \subseteq Requests
    /\ None \notin Requests
    /\ PipeOutlives \in BOOLEAN
    /\ EventCapacity \in Nat \ {0}
    /\ MaxEvents \in Nat

VARIABLES
    pc,       \* where each request is
    result,   \* what its caller gets
    slot,     \* the oneshot of each request: what was sent into it
    pending,  \* Shared::pending
    holder,   \* who holds the stdin lock
    partial,  \* the requests with bytes in stdin's unfinished line
    stdin,    \* finished lines, each the set of requests with bytes in it
    asked,    \* requests pi has read
    said,     \* requests pi has answered
    stdout,   \* what pi wrote and the reader has not read
    reader,   \* the reader task and the item it has in hand
    channel,  \* the event channel
    emitted,  \* events pi emitted (bounded by MaxEvents)
    received, \* events the pump took
    child,    \* "running", "exited" or "reaped"
    exit,     \* Shared::exit is set
    watcher,  \* the watcher task
    rejecting,\* the pending requests the watcher took to reject
    teardown, \* how far the teardown is
    pid,      \* PiProcess::pid is Some
    stray     \* ghost: a signal was sent to a pid whose child was reaped

requestVars == <<pc, result, slot>>
stdinVars == <<holder, partial, stdin>>
piVars == <<asked, said, stdout, emitted>>
readerVars == <<reader, channel>>
childVars == <<child, exit, watcher, rejecting>>
teardownVars == <<teardown, pid, stray>>
vars == <<requestVars, pending, stdinVars, piVars, readerVars, received,
          childVars, teardownVars>>

-----------------------------------------------------------------------------
Answer(r) == [kind |-> "answer", of |-> r]
Event(n) == [kind |-> "event", of |-> n]
Items == {Answer(r) : r \in Requests} \cup {Event(n) : n \in 1 .. MaxEvents}
Reading == [state |-> "reading", item |-> Event(0)]
Ended == [state |-> "ended", item |-> Event(0)]
Readers == {Reading, Ended}
           \cup [state : {"handing"}, item : {Answer(r) : r \in Requests}]
           \cup [state : {"sending"}, item : Items]

Alive == {"registered", "writing", "awaiting"}  \* its oneshot receiver exists
Errors == {"Io", "RpcTimeout", "PiExited"}

TypeOK ==
    /\ pc \in [Requests -> {"idle", "checked", "abandoned", "done"} \cup Alive]
    /\ result \in [Requests -> {"none", "answer"} \cup Errors]
    /\ slot \in [Requests -> {"empty", "answer", "PiExited"}]
    /\ pending \subseteq Requests
    /\ holder \in Requests \cup {None}
    /\ partial \subseteq Requests
    /\ stdin \in Seq(SUBSET Requests)
    /\ asked \subseteq Requests
    /\ said \subseteq Requests
    /\ stdout \in Seq(Items)
    /\ reader \in Readers
    /\ channel \in Seq(Items)
    /\ Len(channel) <= EventCapacity
    /\ emitted \in 0 .. MaxEvents
    /\ received \in Nat
    /\ child \in {"running", "exited", "reaped"}
    /\ exit \in BOOLEAN
    /\ watcher \in {"waiting", "draining", "recorded", "rejecting", "ended"}
    /\ rejecting \subseteq Requests
    /\ teardown \in {"no", "terminated", "killed", "ended"}
    /\ pid \in BOOLEAN
    /\ stray \in BOOLEAN

Init ==
    /\ pc = [r \in Requests |-> "idle"]
    /\ result = [r \in Requests |-> "none"]
    /\ slot = [r \in Requests |-> "empty"]
    /\ pending = {}
    /\ holder = None
    /\ partial = {}
    /\ stdin = <<>>
    /\ asked = {}
    /\ said = {}
    /\ stdout = <<>>
    /\ reader = Reading
    /\ channel = <<>>
    /\ emitted = 0
    /\ received = 0
    /\ child = "running"
    /\ exit = FALSE
    /\ watcher = "waiting"
    /\ rejecting = {}
    /\ teardown = "no"
    /\ pid = TRUE
    /\ stray = FALSE

-----------------------------------------------------------------------------
(* A request (request_response_with_started).                              *)

InProgress(r) == pc[r] \notin {"idle", "done"}
PumpBusy == \E r \in PumpRequests : InProgress(r)
PipeOpen == child = "running" \/ PipeOutlives

\* The fail-fast check.  A pump in its teardown makes no more requests.
Check(r) ==
    /\ pc[r] = "idle"
    /\ r \in PumpRequests => teardown = "no"
    /\ \/ /\ exit
          /\ pc' = [pc EXCEPT ![r] = "done"]
          /\ result' = [result EXCEPT ![r] = "PiExited"]
       \/ /\ ~exit
          /\ pc' = [pc EXCEPT ![r] = "checked"]
          /\ UNCHANGED result
    /\ UNCHANGED <<slot, pending, stdinVars, piVars, readerVars, received,
                   childVars, teardownVars>>

Register(r) ==
    /\ pc[r] = "checked"
    /\ pc' = [pc EXCEPT ![r] = "registered"]
    /\ pending' = pending \cup {r}
    /\ UNCHANGED <<result, slot, stdinVars, piVars, readerVars, received,
                   childVars, teardownVars>>

\* write_line takes the lock; its first bytes go out.
Write(r) ==
    /\ pc[r] = "registered"
    /\ holder = None
    /\ PipeOpen
    /\ pc' = [pc EXCEPT ![r] = "writing"]
    /\ holder' = r
    /\ partial' = partial \cup {r}
    /\ UNCHANGED <<result, slot, pending, stdin, piVars, readerVars, received,
                   childVars, teardownVars>>

\* The line is out, and `started` is told.
FinishLine(r) ==
    /\ stdin' = IF child = "running" THEN Append(stdin, partial) ELSE stdin
    /\ partial' = {}

Written(r) ==
    /\ pc[r] = "writing"
    /\ PipeOpen
    /\ FinishLine(r)
    /\ holder' = None
    /\ pc' = [pc EXCEPT ![r] = "awaiting"]
    /\ UNCHANGED <<result, slot, pending, piVars, readerVars, received,
                   childVars, teardownVars>>

\* The entry is still in the map, and is removed next.
Abandon(r, error) ==
    /\ pc' = [pc EXCEPT ![r] = "abandoned"]
    /\ result' = [result EXCEPT ![r] = error]
    /\ UNCHANGED <<slot, pending, piVars, readerVars, received, childVars,
                   teardownVars>>

WriteFails(r) ==
    /\ \/ pc[r] = "registered" /\ holder = None
       \/ pc[r] = "writing"
    /\ ~PipeOpen
    /\ holder' = None
    /\ Abandon(r, "Io")
    /\ UNCHANGED <<partial, stdin>>

\* The write's deadline passes while it waits for the lock, or with none,
\* part or all of the line written: dropping write_all leaves its bytes.
WriteTimeout(r) ==
    /\ \/ /\ pc[r] = "registered"
          /\ UNCHANGED stdinVars
       \/ /\ pc[r] = "writing"
          /\ holder' = None
          /\ \/ UNCHANGED <<partial, stdin>>
             \/ FinishLine(r)
    /\ Abandon(r, "RpcTimeout")

\* Mutant: no deadline for the answer, only pi's exit ends the wait.
AnswerTimeout_OfDeadPi(r) ==
    /\ exit
    /\ pc[r] = "awaiting"
    /\ slot[r] = "empty"
    /\ Abandon(r, "RpcTimeout")
    /\ UNCHANGED stdinVars

AnswerTimeout(r) ==
    /\ pc[r] = "awaiting"
    /\ slot[r] = "empty"
    /\ Abandon(r, "RpcTimeout")
    /\ UNCHANGED stdinVars

Remove(r) ==
    /\ pc[r] = "abandoned"
    /\ pc' = [pc EXCEPT ![r] = "done"]
    /\ pending' = pending \ {r}
    /\ UNCHANGED <<result, slot, stdinVars, piVars, readerVars, received,
                   childVars, teardownVars>>

Receive(r) ==
    /\ pc[r] = "awaiting"
    /\ slot[r] # "empty"
    /\ pc' = [pc EXCEPT ![r] = "done"]
    /\ result' = [result EXCEPT ![r] = slot[r]]
    /\ UNCHANGED <<slot, pending, stdinVars, piVars, readerVars, received,
                   childVars, teardownVars>>

-----------------------------------------------------------------------------
(* read_loop                                                               *)

InHand(state, item) == reader' = [state |-> state, item |-> item]

\* Mutant: an answer resolves the only request in flight, whatever its id.
Match_OnlyInFlight(r) == IF Cardinality(pending) = 1 THEN pending ELSE {r} \cap pending
\* The request an answer resolves, as a set: the one with its id, if pending.
Match(r) == {r} \cap pending

\* Take an answer's sender from the map; one without is forwarded as an event.
ReadAnswer(r) ==
    /\ reader = Reading
    /\ stdout # <<>>
    /\ Head(stdout) = Answer(r)
    /\ stdout' = Tail(stdout)
    /\ pending' = pending \ Match(r)
    /\ IF Match(r) = {}
       THEN InHand("sending", Answer(r))
       ELSE \E q \in Match(r) : InHand("handing", Answer(q))
    /\ UNCHANGED <<requestVars, stdinVars, asked, said, emitted, channel,
                   received, childVars, teardownVars>>

\* The oneshot send; its receiver may be gone, and then the value is dropped.
HandOver(r) ==
    /\ reader = [state |-> "handing", item |-> Answer(r)]
    /\ slot' = [slot EXCEPT ![r] = "answer"]
    /\ reader' = Reading
    /\ UNCHANGED <<pc, result, pending, stdinVars, piVars, channel, received,
                   childVars, teardownVars>>

ReadEvent ==
    /\ reader = Reading
    /\ stdout # <<>>
    /\ Head(stdout).kind = "event"
    /\ stdout' = Tail(stdout)
    /\ InHand("sending", Head(stdout))
    /\ UNCHANGED <<requestVars, pending, stdinVars, asked, said, emitted,
                   channel, received, childVars, teardownVars>>

\* Mutant: try_send, an event is dropped when the channel is full.
SendEvent_Try ==
    /\ reader.state = "sending"
    /\ channel' = IF Len(channel) < EventCapacity /\ teardown # "ended"
                  THEN Append(channel, reader.item) ELSE channel
    /\ reader' = Reading
    /\ UNCHANGED <<requestVars, pending, stdinVars, piVars, received,
                   childVars, teardownVars>>

\* The bounded send waits for room; once the pump's task is gone, and the
\* channel with it, events are dropped.
SendEvent ==
    /\ reader.state = "sending"
    /\ IF teardown # "ended"
       THEN /\ Len(channel) < EventCapacity
            /\ channel' = Append(channel, reader.item)
       ELSE UNCHANGED channel
    /\ reader' = Reading
    /\ UNCHANGED <<requestVars, pending, stdinVars, piVars, received,
                   childVars, teardownVars>>

ReadEnd ==
    /\ reader = Reading
    /\ stdout = <<>>
    /\ ~PipeOpen
    /\ reader' = Ended
    /\ UNCHANGED <<requestVars, pending, stdinVars, piVars, channel, received,
                   childVars, teardownVars>>

\* The pump takes an event, unless a request of its own keeps it.
TakeEvent ==
    /\ teardown = "no"
    /\ ~PumpBusy
    /\ channel # <<>>
    /\ channel' = Tail(channel)
    /\ received' = IF Head(channel).kind = "event" THEN received + 1 ELSE received
    /\ UNCHANGED <<requestVars, pending, stdinVars, piVars, reader, childVars,
                   teardownVars>>

-----------------------------------------------------------------------------
(* wait_loop                                                               *)

\* Child::wait returns; then stderr is drained, within a bound.
Reap ==
    /\ watcher = "waiting"
    /\ child = "exited"
    /\ child' = "reaped"
    /\ watcher' = "draining"
    /\ UNCHANGED <<requestVars, pending, stdinVars, piVars, readerVars,
                   received, exit, rejecting, teardownVars>>

RecordExit ==
    /\ watcher = "draining"
    /\ exit' = TRUE
    /\ watcher' = "recorded"
    /\ UNCHANGED <<requestVars, pending, stdinVars, piVars, readerVars,
                   received, child, rejecting, teardownVars>>

\* Mutant: the map is cleared without rejecting its requests.
TakePending_Forgets ==
    /\ watcher = "recorded"
    /\ pending' = {}
    /\ watcher' = "ended"
    /\ UNCHANGED <<requestVars, stdinVars, piVars, readerVars, received, child,
                   exit, rejecting, teardownVars>>

TakePending ==
    /\ watcher = "recorded"
    /\ rejecting' = pending
    /\ pending' = {}
    /\ watcher' = "rejecting"
    /\ UNCHANGED <<requestVars, stdinVars, piVars, readerVars, received, child,
                   exit, teardownVars>>

Reject ==
    /\ watcher = "rejecting"
    /\ slot' = [r \in Requests |-> IF r \in rejecting THEN "PiExited" ELSE slot[r]]
    /\ rejecting' = {}
    /\ watcher' = "ended"
    /\ UNCHANGED <<pc, result, pending, stdinVars, piVars, readerVars,
                   received, child, exit, teardownVars>>

-----------------------------------------------------------------------------
(* The teardown: the pump ends and disposes of the process, or its task is *)
(* dropped.                                                                *)

\* signal_pi with the pid, if it is still there; SIGTERM may be ignored.
Signal(kill) ==
    /\ stray' = (stray \/ (pid /\ child = "reaped"))
    /\ child' = IF kill /\ pid /\ child = "running" THEN "exited" ELSE child

Dispose ==
    /\ teardown = "no"
    /\ ~PumpBusy
    /\ Signal(FALSE)
    /\ teardown' = "terminated"
    /\ UNCHANGED <<requestVars, pending, stdinVars, piVars, readerVars,
                   received, exit, watcher, rejecting, pid>>

\* The grace period passes without the watcher's end.
DisposeKill ==
    /\ teardown = "terminated"
    /\ watcher # "ended"
    /\ Signal(TRUE)
    /\ stdin' = IF child' = "running" THEN stdin ELSE <<>>
    /\ teardown' = "killed"
    /\ UNCHANGED <<requestVars, pending, holder, partial, piVars, readerVars,
                   received, exit, watcher, rejecting, pid>>

\* The watcher has ended or the second grace period has passed: the pump's
\* task ends.
DisposeEnd ==
    /\ \/ teardown = "terminated" /\ watcher = "ended"
       \/ teardown = "killed"
    /\ teardown' = "ended"
    /\ pid' = FALSE
    /\ channel' = <<>>
    /\ UNCHANGED <<requestVars, pending, stdinVars, piVars, reader, received,
                   childVars, stray>>

\* Drop without dispose: SIGKILL at once.
DropProcess ==
    /\ teardown = "no"
    /\ ~PumpBusy
    /\ Signal(TRUE)
    /\ stdin' = IF child' = "running" THEN stdin ELSE <<>>
    /\ pid' = FALSE
    /\ teardown' = "ended"
    /\ channel' = <<>>
    /\ UNCHANGED <<requestVars, pending, holder, partial, piVars, reader,
                   received, exit, watcher, rejecting>>

-----------------------------------------------------------------------------
(* pi (external): it reads lines in order, skips one it cannot parse,      *)
(* answers a request at most once and in any order, and may exit.          *)

PiReads ==
    /\ child = "running"
    /\ stdin # <<>>
    /\ stdin' = Tail(stdin)
    /\ asked' = asked \cup {r \in Requests : Head(stdin) = {r}}
    /\ UNCHANGED <<requestVars, pending, holder, partial, said, stdout, emitted,
                   readerVars, received, childVars, teardownVars>>

PiAnswers(r) ==
    /\ child = "running"
    /\ r \in asked \ said
    /\ said' = said \cup {r}
    /\ stdout' = Append(stdout, Answer(r))
    /\ UNCHANGED <<requestVars, pending, stdinVars, asked, emitted, readerVars,
                   received, childVars, teardownVars>>

PiEmits ==
    /\ child = "running"
    /\ emitted < MaxEvents
    /\ emitted' = emitted + 1
    /\ stdout' = Append(stdout, Event(emitted'))
    /\ UNCHANGED <<requestVars, pending, stdinVars, asked, said, readerVars,
                   received, childVars, teardownVars>>

PiExits ==
    /\ child = "running"
    /\ child' = "exited"
    /\ stdin' = <<>>
    /\ UNCHANGED <<requestVars, pending, holder, partial, piVars, readerVars,
                   received, exit, watcher, rejecting, teardownVars>>

-----------------------------------------------------------------------------
Request(r) == \/ Check(r) \/ Register(r) \/ Write(r) \/ Written(r)
              \/ WriteFails(r) \/ WriteTimeout(r)
              \/ AnswerTimeout(r) \/ Remove(r) \/ Receive(r)
Reader == (\E r \in Requests : ReadAnswer(r) \/ HandOver(r))
          \/ ReadEvent \/ SendEvent \/ ReadEnd
Watcher == Reap \/ RecordExit \/ TakePending \/ Reject
Teardown == Dispose \/ DisposeKill \/ DisposeEnd \/ DropProcess
Pi == PiReads \/ (\E r \in Requests : PiAnswers(r)) \/ PiEmits \/ PiExits

Next == (\E r \in Requests : Request(r)) \/ Reader \/ TakeEvent \/ Watcher
        \/ Teardown \/ Pi

Spec == Init /\ [][Next]_vars

-----------------------------------------------------------------------------
(* Fairness: tokio runs every task that can run, a deadline that is never  *)
(* met passes, the stdin lock is granted, the pump takes events whenever   *)
(* it is not in a handler.  pi owes nothing, and whether a teardown ever   *)
(* starts is the client's choice.                                          *)
RequestFairness(r) ==
    /\ WF_vars(Register(r))
    /\ WF_vars(WriteTimeout(r))
    /\ WF_vars(WriteFails(r))
    /\ WF_vars(AnswerTimeout(r))
    /\ WF_vars(Remove(r))
    /\ WF_vars(Receive(r))
DisposeFairness == WF_vars(DisposeKill) /\ WF_vars(DisposeEnd)

FairSpec == /\ Spec
            /\ \A r \in Requests : RequestFairness(r)
            /\ WF_vars(Reader)
            /\ WF_vars(TakeEvent)
            /\ WF_vars(Watcher)
            /\ DisposeFairness

-----------------------------------------------------------------------------
(* Properties                                                              *)

InHandOf(r) == reader = [state |-> "handing", item |-> Answer(r)]

\* The map holds only requests that still wait or are about to remove
\* themselves: whichever of write failure, deadline, answer and exit ends a
\* request, and in whatever order, its entry does not outlive it.
NoLeakedEntry ==
    \A r \in pending : pc[r] \in Alive \cup {"abandoned"}

\* A live request with no value yet still has its sender, in the map, in the
\* reader's hand or in the watcher's: the branch for a sender dropped without
\* a payload (process.rs:726) is never taken.
WaiterHasSender ==
    \A r \in Requests :
        pc[r] \in Alive /\ slot[r] = "empty"
            => r \in pending \cup rejecting \/ InHandOf(r)

\* The lock keeps the lines of concurrent requests whole: bytes of two
\* requests share a line only if the deadline of one cut its write.
LinesAreWhole ==
    \A i \in DOMAIN stdin : \A r, q \in stdin[i] :
        r = q \/ result[r] = "RpcTimeout" \/ result[q] = "RpcTimeout"

\* After pi's exit is handled nobody waits for a deadline that nothing can
\* meet, although the check of the exit record and the entry in the map are
\* two steps: a request that slips between them finds the pipe broken.
NoHopelessWait ==
    watcher = "ended" /\ ~PipeOutlives =>
        \A r \in Requests :
            pc[r] = "awaiting" => slot[r] # "empty" \/ InHandOf(r)

\* However slow the pump is, no event is lost, doubled or overtaken between
\* pi and the pump, and late answers among them disturb nothing.
EventItems == {Event(n) : n \in 1 .. MaxEvents}
InHandOfReader == IF reader.state = "sending" THEN <<reader.item>> ELSE <<>>
EventsInFlight ==
    Only(channel, EventItems) \o Only(InHandOfReader, EventItems) \o Only(stdout, EventItems)
EventsInOrder ==
    teardown # "ended" =>
        /\ Len(EventsInFlight) = emitted - received
        /\ \A i \in DOMAIN EventsInFlight : EventsInFlight[i] = Event(received + i)

\* A request ends with an answer only if pi read that request whole and
\* answered it; it ends once, and never changes its result.
StateOf(r) ==
    CASE pc[r] = "idle" -> "none"
      [] pc[r] \in {"checked", "registered", "writing"} -> "writing"
      [] pc[r] = "awaiting" -> "awaiting"
      [] OTHER -> IF result[r] = "answer" THEN "ok" ELSE "err"
Service == INSTANCE RequestService WITH state <- [r \in Requests |-> StateOf(r)]
AnswersAreGenuine == Service!Spec

\* "bounded by the per-request deadline (... fixes #94)" (process.rs:336):
\* every request ends, whatever pi, the reader and the watcher do.
EveryRequestEnds == \A r \in Requests : InProgress(r) ~> pc[r] = "done"

\* A full event channel cannot stall the reader for good, although the pump
\* may wait for an answer that is behind the event in the reader's hand.
StallEnds == reader.state = "sending" ~> reader.state # "sending"

\* Both: requests and a stalled reader end, whatever the other one waits for.
RequestsEnd == EveryRequestEnds /\ StallEnds

\* "The resulting agent_settled event is buffered by the event channel while
\* the RPC is in flight" (session.rs:1800): the pump's own request is never
\* kept from its answer by the channel that the pump itself does not drain.
PumpIsNotStalled ==
    ~\E r \in PumpRequests :
        /\ pc[r] = "awaiting"
        /\ r \in said
        /\ reader.state = "sending"
        /\ Len(channel) = EventCapacity

\* "route to the event stream rather than dropping" (process.rs:864): an
\* answer that no request takes is not dropped.
LateAnswerIsKept ==
    \A r \in Requests : slot[r] = "answer" => result[r] \in {"none", "answer"}

\* "risk signaling a reused PID" (process.rs:756), what Drop avoids by
\* signalling at once: no signal goes to a pid whose process was reaped.
SignalsOwnChild == ~stray
=============================================================================
