------------------------------ MODULE ExtensionUi ------------------------------
(* The bridge of pi's extension dialogs to the client.  pi blocks its turn on  *)
(* the answer to each request; the pump spawns a task per request; the task    *)
(* sends a session/request_permission through the session's outbound channel;  *)
(* the connector hands it to a task of its own that waits for the client; the  *)
(* answer goes back to the pump, which writes it to pi.  The client may answer *)
(* with anything, late, or never.                                              *)
EXTENDS Integers, Sequences, FiniteSets, SequencesExt

CONSTANTS
    Requests,   \* the ids of pi's requests
    Method,     \* [Requests -> the method]
    Options,    \* [Requests -> Seq of choices] of a select
    Timed,      \* the requests with a timeout
    Capacity,   \* the bound of the outbound channel
    ReplyRoom,  \* the bound of the answers' channel
    Texts       \* bound: how many texts pi streams

Interactive == {r \in Requests : \/ Method[r] = "confirm"
                                 \/ Method[r] = "select" /\ Options[r] # <<>>}
Noticed == {r \in Requests : Method[r] \in {"input", "editor", "notify"}}

RequestAssumption ==
    /\ \A r \in Requests :
           /\ Method[r] \in {"select", "confirm", "input", "editor", "notify", "display"}
           /\ Options[r] \in Seq(STRING)
    /\ Timed \subseteq Interactive
    /\ Capacity \in Nat \ {0} /\ ReplyRoom \in Nat \ {0} /\ Texts \in Nat

VARIABLES
    asked,      \* the requests pi has made
    said,       \* how many texts pi has streamed
    events,     \* from pi to the pump
    pump,       \* "on", "sending" (awaiting room in outbound) or "off"
    held,       \* the message the pump awaits room for
    outbound,   \* from the pump and its tasks to the connector
    connector,  \* "on" or "off"
    task,       \* request -> its task: where it is and the answer it found
    dialog,     \* request -> what became of its dialog at the client
    seen,       \* what the client was shown, in order
    replies,    \* from the tasks to the pump
    got,        \* what pi was answered, in order
    cancel      \* "no", "sent" or "handled": the client's cancel

vars == <<asked, said, events, pump, held, outbound, connector, task, dialog, seen, replies,
          got, cancel>>

Cancelled(r) == [id |-> r, kind |-> "cancelled", value |-> ""]

\* A permission option's id: choice-<i> with a canonical index, yes, no, or any other text.
Shown(r) ==
    CASE Method[r] = "select"  -> {<<"choice", i>> : i \in 0 .. Len(Options[r]) - 1}
      [] Method[r] = "confirm" -> {<<"yes", 0>>, <<"no", 0>>}
      [] OTHER                 -> {}
Strange == {<<"choice", 9>>, <<"other", 0>>}

option_index(o) == IF o[1] = "choice" THEN o[2] ELSE -1

\* What pi is answered when the client selected option o of r's dialog.
Selected(r, o) ==
    LET i == option_index(o)
    IN  IF Method[r] = "confirm"
        THEN [id |-> r, kind |-> "confirmed", value |-> IF o = <<"yes", 0>> THEN "yes" ELSE "no"]
        ELSE IF i + 1 \in DOMAIN Options[r]
             THEN [id |-> r, kind |-> "value", value |-> Options[r][i + 1]]
             ELSE Cancelled(r)

\* The neutral outcome of a client's response: any but a selection dismisses the dialog.
Outcome(r, d) == IF d[1] = "selected" THEN Selected(r, d[2]) ELSE Cancelled(r)

Holds(r) == task[r].pc \in {"start", "asked", "answer"}

Init ==
    /\ asked = {} /\ said = 0 /\ events = <<>> /\ pump = "on" /\ held = <<>>
    /\ outbound = <<>> /\ connector = "on"
    /\ task = [r \in Requests |-> [pc |-> "none", answer |-> Cancelled(r)]]
    /\ dialog = [r \in Requests |-> <<"none">>]
    /\ seen = <<>> /\ replies = <<>> /\ got = <<>> /\ cancel = "no"

\* pi: a text is marked with the requests that were answered before it.
Answered(r) == \E i \in DOMAIN got : got[i].id = r

PiAsks(r) ==
    /\ r \notin asked
    /\ asked' = asked \cup {r}
    /\ events' = Append(events, [kind |-> "ask", id |-> r])
    /\ UNCHANGED <<said, pump, held, outbound, connector, task, dialog, seen, replies, got, cancel>>

PiSays ==
    /\ said < Texts
    /\ said' = said + 1
    /\ events' = Append(events, [kind |-> "text", after |-> {r \in asked : Answered(r)}])
    /\ UNCHANGED <<asked, pump, held, outbound, connector, task, dialog, seen, replies, got, cancel>>

\* The pump.
OnRequest ==
    /\ pump = "on" /\ events # <<>> /\ Head(events).kind = "ask"
    /\ events' = Tail(events)
    /\ task' = [task EXCEPT ![Head(events).id].pc = "start"]
    /\ UNCHANGED <<asked, said, pump, held, outbound, connector, dialog, seen, replies, got, cancel>>

OnText ==
    /\ pump = "on" /\ events # <<>> /\ Head(events).kind = "text"
    /\ events' = Tail(events)
    /\ pump' = "sending"
    /\ held' = <<Head(events)>>
    /\ UNCHANGED <<asked, said, outbound, connector, task, dialog, seen, replies, got, cancel>>

PumpSends ==
    /\ pump = "sending" /\ Len(outbound) < Capacity
    /\ outbound' = outbound \o held
    /\ pump' = "on" /\ held' = <<>>
    /\ UNCHANGED <<asked, said, events, connector, task, dialog, seen, replies, got, cancel>>

on_extension_ui_response ==
    /\ pump = "on" /\ replies # <<>>
    /\ replies' = Tail(replies)
    /\ got' = Append(got, Head(replies))
    /\ UNCHANGED <<asked, said, events, pump, held, outbound, connector, task, dialog, seen, cancel>>

ClientCancels ==
    /\ cancel = "no"
    /\ cancel' = "sent"
    /\ UNCHANGED <<asked, said, events, pump, held, outbound, connector, task, dialog, seen, replies, got>>

OnCancel ==
    /\ pump = "on" /\ cancel = "sent"
    /\ cancel' = "handled"
    /\ UNCHANGED <<asked, said, events, pump, held, outbound, connector, task, dialog, seen, replies, got>>

\* The session is closed once the client has cancelled: what pi still says is dropped.
Shutdown ==
    /\ pump = "on" /\ cancel = "handled"
    /\ pump' = "off"
    /\ events' = <<>> /\ replies' = <<>>
    /\ UNCHANGED <<asked, said, held, outbound, connector, task, dialog, seen, got, cancel>>

\* A request's task.  What needs nobody is answered at once, a notice is shown first.
Goto(r, pc, a) == task' = [task EXCEPT ![r] = [pc |-> pc, answer |-> a]]

AnswerAtOnce(r) ==
    /\ task[r].pc = "start" /\ r \notin Interactive \cup Noticed
    /\ Goto(r, "answer", Cancelled(r))
    /\ UNCHANGED <<asked, said, events, pump, held, outbound, connector, dialog, seen, replies, got, cancel>>

send_extension_notice(r) ==
    /\ task[r].pc = "start" /\ r \in Noticed
    /\ Len(outbound) < Capacity
    /\ outbound' = Append(outbound, [kind |-> "notice", id |-> r])
    /\ Goto(r, "answer", Cancelled(r))
    /\ UNCHANGED <<asked, said, events, pump, held, connector, dialog, seen, replies, got, cancel>>

request_permission(r) ==
    /\ task[r].pc = "start" /\ r \in Interactive
    /\ Len(outbound) < Capacity
    /\ outbound' = Append(outbound, [kind |-> "permission", id |-> r])
    /\ Goto(r, "asked", Cancelled(r))
    /\ UNCHANGED <<asked, said, events, pump, held, connector, dialog, seen, replies, got, cancel>>

TakeOutcome_Late(r) ==
    /\ task[r].pc \in {"asked", "done"} /\ dialog[r][1] \notin {"none", "open"}
    /\ Goto(r, "answer", Outcome(r, dialog[r]))
    /\ UNCHANGED <<asked, said, events, pump, held, outbound, connector, dialog, seen, replies, got, cancel>>
TakeOutcome(r) ==
    /\ task[r].pc = "asked" /\ dialog[r][1] \notin {"none", "open"}
    /\ Goto(r, "answer", Outcome(r, dialog[r]))
    /\ UNCHANGED <<asked, said, events, pump, held, outbound, connector, dialog, seen, replies, got, cancel>>

TimeOut_Never(r) == FALSE /\ UNCHANGED vars
TimeOut(r) ==
    /\ task[r].pc = "asked" /\ r \in Timed
    /\ Goto(r, "answer", Cancelled(r))
    /\ UNCHANGED <<asked, said, events, pump, held, outbound, connector, dialog, seen, replies, got, cancel>>

Reply(r) ==
    /\ task[r].pc = "answer"
    /\ \/ /\ pump # "off" /\ Len(replies) < ReplyRoom
          /\ replies' = Append(replies, task[r].answer)
       \/ pump = "off" /\ UNCHANGED replies
    /\ Goto(r, "done", task[r].answer)
    /\ UNCHANGED <<asked, said, events, pump, held, outbound, connector, dialog, seen, got, cancel>>

\* The connector forwards in order; a dialog waits in a task of its own.  It ends with the last
\* sender: the pump's and those the requests' tasks hold.
Forward ==
    /\ connector = "on" /\ outbound # <<>>
    /\ LET m == Head(outbound)
       IN  IF m.kind = "permission"
           THEN dialog' = [dialog EXCEPT ![m.id] = <<"open">>] /\ UNCHANGED seen
           ELSE seen' = Append(seen, m) /\ UNCHANGED dialog
    /\ outbound' = Tail(outbound)
    /\ UNCHANGED <<asked, said, events, pump, held, connector, task, replies, got, cancel>>

ConnectorEnds ==
    /\ connector = "on" /\ outbound = <<>> /\ pump = "off"
    /\ \A r \in Requests : ~Holds(r)
    /\ connector' = "off"
    /\ UNCHANGED <<asked, said, events, pump, held, outbound, task, dialog, seen, replies, got, cancel>>

\* The client picks an option, answers with an id it was not offered, dismisses the dialog (or
\* uses an outcome unknown here), or the call fails.
Answers(r) ==
    /\ dialog[r] = <<"open">>
    /\ \E d \in {<<"selected", o>> : o \in Shown(r) \cup Strange} \cup {<<"cancelled">>, <<"failed">>} :
           dialog' = [dialog EXCEPT ![r] = d]
    /\ UNCHANGED <<asked, said, events, pump, held, outbound, connector, task, seen, replies, got, cancel>>

Pi == PiSays \/ \E r \in Requests : PiAsks(r)
Pump == OnRequest \/ OnText \/ PumpSends \/ on_extension_ui_response \/ OnCancel
Task(r) == \/ AnswerAtOnce(r) \/ send_extension_notice(r) \/ request_permission(r)
           \/ TakeOutcome(r) \/ TimeOut(r) \/ Reply(r)
Client == ClientCancels \/ \E r \in Requests : Answers(r)

Next == \/ pump # "off" /\ Pi
        \/ Pump \/ Shutdown \/ Forward \/ ConnectorEnds \/ Client
        \/ \E r \in Requests : Task(r)

\* Tokio runs every ready task: the pump (whose select is fair among its channels), the tasks
\* and the connector.  Nothing is assumed of pi or of the client.
Fairness ==
    /\ WF_vars(OnRequest \/ OnText \/ PumpSends)
    /\ SF_vars(on_extension_ui_response) /\ SF_vars(OnCancel)
    /\ WF_vars(Forward \/ ConnectorEnds)
    /\ \A r \in Requests : SF_vars(Task(r))

Spec == Init /\ [][Next]_vars

-------------------------------------------------------------------------------
\* The state of ExtensionUiRequest, PermissionRequest and ExtensionUiResponse: types and bounds.
TypeOK ==
    /\ asked \subseteq Requests /\ said \in 0 .. Texts
    /\ pump \in {"on", "sending", "off"} /\ connector \in {"on", "off"}
    /\ (held # <<>>) <=> pump = "sending"
    /\ Len(outbound) <= Capacity /\ Len(replies) <= ReplyRoom
    /\ \A r \in Requests :
           /\ task[r].pc \in {"none", "start", "asked", "answer", "done"}
           /\ task[r].answer.id = r /\ task[r].answer.kind \in {"cancelled", "value", "confirmed"}
           /\ dialog[r][1] \in {"none", "open", "selected", "cancelled", "failed"}
    /\ cancel \in {"no", "sent", "handled"}

\* handle_extension_ui_request: pi, which forgets a request at its answer, is never answered
\* twice, however late the client's choice comes after the timeout.
AnsweredOnce == \A i, j \in DOMAIN got : got[i].id = got[j].id => i = j

\* handle_extension_select, handle_extension_confirm: what pi is told is what the client chose in
\* that very dialog; a choice made in time is not turned into a cancel.
AnswerIsClients ==
    \A i \in DOMAIN got :
        LET r == got[i].id
        IN  /\ got[i].kind = "value" =>
                   \E k \in DOMAIN Options[r] : /\ dialog[r] = <<"selected", <<"choice", k - 1>>>>
                                                /\ got[i].value = Options[r][k]
            /\ got[i].kind = "confirmed" =>
                   (got[i].value = "yes" <=> dialog[r] = <<"selected", <<"yes", 0>>>>)
            /\ got[i].kind = "cancelled" /\ r \in Interactive \ Timed =>
                   dialog[r] \notin {<<"selected", o>> : o \in Shown(r)}

\* send_extension_notice before the answer: what pi says once it was answered is shown after the
\* request's notice.
NoticesInOrder ==
    \A i \in DOMAIN seen :
        seen[i].kind = "text" =>
            \A r \in seen[i].after \cap Noticed :
                \E j \in 1 .. i - 1 : seen[j] = [kind |-> "notice", id |-> r]

\* What pi and the client are told of pi's requests.
DialogsAreHonest == TypeOK /\ AnsweredOnce /\ AnswerIsClients /\ NoticesInOrder

\* spawn_outbound_connector: a client that never answers a dialog cannot keep the pump from
\* handling its cancel.
CancelIsHandled == cancel = "sent" ~> cancel = "handled"

\* Every request the pump took is answered, or the session is closed: nobody is needed for the
\* ones that are not dialogs, and the timeout answers the others.
AlwaysAnswered ==
    \A r \in Requests \ (Interactive \ Timed) :
        task[r].pc = "start" ~> (Answered(r) \/ pump = "off")

================================================================================
