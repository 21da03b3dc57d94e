------------------------------ MODULE TurnPump ------------------------------
(***************************************************************************)
(* The pump task of one ACP session (session/session.rs, `pump_loop` and   *)
(* the `impl Pump` handlers that decide when a turn starts and ends).      *)
(*                                                                         *)
(* A prompt is queued or becomes the pending turn; its `prompt` RPC runs   *)
(* in a task of its own; pi answers early and signals the end of the run   *)
(* with an `agent_settled` event that carries NO turn id.  The pump takes, *)
(* in any order, from the command channel, the event channel, the prompt   *)
(* results, the result of a recovery abort and two deadlines (the branches *)
(* of its `select!`).  A handler is one step, except that `on_cancel`      *)
(* holds the pump while it awaits the prompt's write and the abort's       *)
(* answer (`blocked`).                                                     *)
(*                                                                         *)
(* A prompt starts at most one turn, so a prompt also stands for the       *)
(* `turn_id` of its turn.  Time is abstracted: a deadline that is armed    *)
(* may fire.  Fields marked ghost are read by properties, by no handler.   *)
(***************************************************************************)
EXTENDS Integers, Sequences, FiniteSets, Functions, Subsequences

CONSTANTS
    Prompts,      \* the prompts clients may send, one turn each at most
    ExtPrompts,   \* those that name a pi extension command
    Tools,        \* tool call ids pi may use
    None,         \* "no turn"
    SettleFallback, \* SessionParams::settle_timeout > 0
    MaxCancels,   \* bound: cancels a client sends
    MaxEvents     \* bound: tool events pi lets pile up in the event channel

ASSUME PumpAssumption ==
    /\ ExtPrompts \subseteq Prompts
    /\ None \notin Prompts
    /\ SettleFallback \in BOOLEAN
    /\ MaxCancels \in Nat
    /\ MaxEvents \in Nat

VARIABLES
    outcome,     \* what each prompt's caller has: unsent, waiting or a result
    cancels,     \* cancels sent so far (bounded by MaxCancels)
    cmds,        \* cmd_rx, the session's command channel
    closed,      \* "no", or the error of commands sent after the pump's end
    blocked,     \* where on_cancel is awaiting: "no", "write" or "abort"
    queue,       \* Pump::queue
    flagged,     \* prompts sent with extension_command = true
    pending,     \* Pump::pending_turn
    cancelRequested, \* Pump::cancel_requested
    poisoned,    \* Pump::poisoned
    recovery,    \* recovering, recovery_abort_confirmed, recovery_settled
    settleArmed, \* settle_deadline.is_some()
    executing,   \* Pump::executing_tool_calls
    shown,       \* the last queue depth published
    foreground,  \* the last ForegroundState published
    promptRpc,   \* the task of each turn's `prompt` RPC, then its result
    cancelAbort, \* the `abort` RPC on_cancel awaits
    recoverAbort,\* the task of the recovery's `abort` RPC, then its result
    stdin,       \* lines written to pi and not yet handled by it
    events,      \* event_rx, the event channel
    piUp,        \* the pi process runs
    piRun,       \* the turn pi's agent loop works on
    piTools,     \* what pi has done with each tool call id
    ended,       \* ghost: turns whose run pi has settled
    strayed      \* ghost: pi has settled for an abort that found nothing to stop

clientVars == <<outcome, cancels, cmds, flagged>>
turnVars   == <<queue, pending, cancelRequested, poisoned, recovery, settleArmed>>
shownVars  == <<shown, foreground>>
rpcVars    == <<promptRpc, cancelAbort, recoverAbort>>
piVars     == <<piUp, piRun, piTools, ended, strayed>>
vars == <<clientVars, closed, blocked, turnVars, executing, shownVars, rpcVars,
          stdin, events, piVars>>

-----------------------------------------------------------------------------
Results == {"EndTurn", "Cancelled", "Rejected", "SettleTimeout",
            "SessionClosed", "PiExited"}

NoTurn == [id |-> None, accepted |-> FALSE, settledEarly |-> FALSE]
Fresh(p) == [id |-> p, accepted |-> FALSE, settledEarly |-> FALSE]
NoRecovery == [on |-> FALSE, aborted |-> FALSE, settled |-> FALSE]

\* A request: being written, awaiting its answer, then its result.
RpcState == {"none", "writing", "awaiting", "ok", "err"}
NoAbort == [state |-> "none", turn |-> None]

PromptCmd(p) == [op |-> "prompt", turn |-> p]
CancelCmd == [op |-> "cancel", turn |-> None]
ShutdownCmd == [op |-> "shutdown", turn |-> None]
Commands == {PromptCmd(p) : p \in Prompts} \cup {CancelCmd, ShutdownCmd}

\* A line on pi's stdin; the turn of an abort is a ghost.
PromptLine(p) == [op |-> "prompt", turn |-> p]
CancelLine(p) == [op |-> "cancelAbort", turn |-> p]
RecoverLine(p) == [op |-> "recoverAbort", turn |-> p]
Lines == [op : {"prompt", "cancelAbort", "recoverAbort"},
          turn : Prompts \cup {None}]

\* An event of pi; the turn of a settle is a ghost.
Settled(p) == [kind |-> "settled", of |-> p]
ToolStart(t) == [kind |-> "toolStart", of |-> t]
ToolEnd(t) == [kind |-> "toolEnd", of |-> t]
Events == [kind : {"settled"}, of : Prompts]
          \cup [kind : {"toolStart", "toolEnd"}, of : Tools]

Outcomes == [Prompts -> {"unsent", "waiting"} \cup Results]
Turns == [id : Prompts \cup {None}, accepted : BOOLEAN, settledEarly : BOOLEAN]
Recoveries == [on : BOOLEAN, aborted : BOOLEAN, settled : BOOLEAN]
QueueStatus == [depth : Nat, running : BOOLEAN]
Foregrounds == {"Idle", "Running"}
PromptRpcs == [Prompts -> RpcState]
Aborts == [state : RpcState, turn : Prompts \cup {None}]

TypeOK ==
    /\ outcome \in Outcomes
    /\ cancels \in Nat
    /\ cmds \in Seq(Commands)
    /\ closed \in {"no", "SessionClosed", "PiExited"}
    /\ blocked \in {"no", "write", "abort"}
    /\ queue \in Seq(Prompts)
    /\ flagged \subseteq ExtPrompts
    /\ pending \in Turns
    /\ cancelRequested \in BOOLEAN
    /\ poisoned \in BOOLEAN
    /\ recovery \in Recoveries
    /\ settleArmed \in BOOLEAN
    /\ executing \subseteq Tools
    /\ shown \in QueueStatus
    /\ foreground \in Foregrounds
    /\ promptRpc \in PromptRpcs
    /\ cancelAbort \in Aborts
    /\ recoverAbort \in Aborts
    /\ stdin \in Seq(Lines)
    /\ events \in Seq(Events)
    /\ piUp \in BOOLEAN
    /\ piRun \in Prompts \cup {None}
    /\ piTools \in [Tools -> {"unused", "running", "ended"}]
    /\ ended \subseteq Prompts
    /\ strayed \in BOOLEAN

Init ==
    /\ outcome = [p \in Prompts |-> "unsent"]
    /\ cancels = 0
    /\ cmds = <<>>
    /\ closed = "no"
    /\ blocked = "no"
    /\ queue = <<>>
    /\ flagged = {}
    /\ pending = NoTurn
    /\ cancelRequested = FALSE
    /\ poisoned = FALSE
    /\ recovery = NoRecovery
    /\ settleArmed = FALSE
    /\ executing = {}
    /\ shown = [depth |-> 0, running |-> FALSE]
    /\ foreground = "Idle"
    /\ promptRpc = [p \in Prompts |-> "none"]
    /\ cancelAbort = NoAbort
    /\ recoverAbort = NoAbort
    /\ stdin = <<>>
    /\ events = <<>>
    /\ piUp = TRUE
    /\ piRun = None
    /\ piTools = [t \in Tools |-> "unused"]
    /\ ended = {}
    /\ strayed = FALSE

-----------------------------------------------------------------------------
(* Clients: the PiAcpSession handle.                                       *)

\* prompt(): `flag` is what is_extension_command found; discovery may have
\* failed, and then a command goes out as an ordinary prompt.
Submit(p, flag) ==
    /\ outcome[p] = "unsent"
    /\ flag => p \in ExtPrompts
    /\ flagged' = IF flag THEN flagged \cup {p} ELSE flagged
    /\ IF closed = "no"
       THEN /\ cmds' = Append(cmds, PromptCmd(p))
            /\ outcome' = [outcome EXCEPT ![p] = "waiting"]
       ELSE /\ outcome' = [outcome EXCEPT ![p] = closed]
            /\ UNCHANGED cmds
    /\ UNCHANGED <<cancels, closed, blocked, turnVars, executing, shownVars,
                   rpcVars, stdin, events, piVars>>

Cancel ==
    /\ closed = "no"
    /\ cancels < MaxCancels
    /\ cancels' = cancels + 1
    /\ cmds' = Append(cmds, CancelCmd)
    /\ UNCHANGED <<outcome, flagged, closed, blocked, turnVars, executing,
                   shownVars, rpcVars, stdin, events, piVars>>

\* dispose(); a second one while the first waits changes nothing more.
Dispose ==
    /\ closed = "no"
    /\ ShutdownCmd \notin Range(cmds)
    /\ cmds' = Append(cmds, ShutdownCmd)
    /\ UNCHANGED <<outcome, cancels, flagged, closed, blocked, turnVars,
                   executing, shownVars, rpcVars, stdin, events, piVars>>

-----------------------------------------------------------------------------
(* What the handlers share.                                                *)

Listening == closed = "no" /\ blocked = "no"
NextCmd(c) == cmds # <<>> /\ Head(cmds) = c /\ cmds' = Tail(cmds)
Resolve(ps, r) == [p \in Prompts |-> IF p \in ps THEN r ELSE outcome[p]]

Depth(q, running) == [depth |-> Len(q), running |-> running]

\* start_turn; `rpc` is promptRpc but for this turn's request.
StartTurn(p, rest, rpc) ==
    /\ pending' = Fresh(p)
    /\ queue' = rest
    /\ promptRpc' = [rpc EXCEPT ![p] = "writing"]
    /\ shown' = Depth(rest, TRUE)
    /\ foreground' = "Running"

\* Mutants: the queue is left to the next prompt; the newest prompt goes first.
StartNext_NextPrompt(rpc, idle) ==
    /\ pending' = NoTurn
    /\ queue' = queue
    /\ promptRpc' = rpc
    /\ shown' = Depth(queue, FALSE)
    /\ foreground' = idle

StartNext_NewestFirst(rpc, idle) ==
    IF queue = <<>>
    THEN StartNext_NextPrompt(rpc, idle)
    ELSE StartTurn(queue[Len(queue)], SubSeq(queue, 1, Len(queue) - 1), rpc)

\* Start the next queued turn, or publish that nothing runs.
StartNext(rpc, idle) ==
    IF queue = <<>>
    THEN /\ pending' = NoTurn
         /\ queue' = queue
         /\ promptRpc' = rpc
         /\ shown' = Depth(queue, FALSE)
         /\ foreground' = idle
    ELSE StartTurn(Head(queue), Tail(queue), rpc)

\* Mutant: the cancel flag is cleared before the stop reason is read.
SettlePendingTurn_FlagCleared(rpc) ==
    /\ settleArmed' = FALSE
    /\ outcome' = Resolve({pending.id}, "EndTurn")
    /\ cancelRequested' = FALSE
    /\ StartNext(rpc, "Idle")

\* settle_pending_turn
SettlePendingTurn(rpc) ==
    /\ settleArmed' = FALSE
    /\ outcome' = Resolve({pending.id},
                          IF cancelRequested THEN "Cancelled" ELSE "EndTurn")
    /\ cancelRequested' = FALSE
    /\ StartNext(rpc, "Idle")

\* Mutants: the queue is not closed; it is dropped without answering it.
Retire_KeepsQueue(r) ==
    /\ poisoned' = TRUE
    /\ cancelRequested' = FALSE
    /\ outcome' = Resolve({pending.id}, r)
    /\ pending' = NoTurn
    /\ UNCHANGED queue
    /\ shown' = Depth(queue, FALSE)

Retire_DropsQueue(r) ==
    /\ poisoned' = TRUE
    /\ cancelRequested' = FALSE
    /\ outcome' = Resolve({pending.id}, r)
    /\ pending' = NoTurn
    /\ queue' = <<>>
    /\ shown' = Depth(<<>>, FALSE)

\* Retire the session: the pending turn fails with r, the queue is closed.
Retire(r) ==
    /\ poisoned' = TRUE
    /\ cancelRequested' = FALSE
    /\ outcome' = [p \in Prompts |->
                     IF p = pending.id THEN r
                     ELSE IF p \in Range(queue) THEN "SessionClosed"
                     ELSE outcome[p]]
    /\ pending' = NoTurn
    /\ queue' = <<>>
    /\ shown' = Depth(<<>>, FALSE)

\* poison_recovery
PoisonRecovery ==
    /\ recovery' = NoRecovery
    /\ Retire("SessionClosed")
    /\ UNCHANGED <<foreground, promptRpc, settleArmed>>

\* Mutants: one half of the handshake is enough to start the retry.
FinishRecovery_OnAbort(rec) ==
    /\ IF rec.on /\ rec.aborted
       THEN recovery' = NoRecovery /\ StartNext(promptRpc, foreground)
       ELSE recovery' = rec /\ UNCHANGED <<queue, pending, promptRpc, shown,
                                           foreground>>
    /\ UNCHANGED <<outcome, cancelRequested, poisoned, settleArmed>>

FinishRecovery_OnSettle(rec) ==
    /\ IF rec.on /\ rec.settled
       THEN recovery' = NoRecovery /\ StartNext(promptRpc, foreground)
       ELSE recovery' = rec /\ UNCHANGED <<queue, pending, promptRpc, shown,
                                           foreground>>
    /\ UNCHANGED <<outcome, cancelRequested, poisoned, settleArmed>>

\* finish_recovery_if_confirmed, with rec the confirmations so far
FinishRecoveryIfConfirmed(rec) ==
    /\ IF rec.on /\ rec.aborted /\ rec.settled
       THEN /\ recovery' = NoRecovery
            /\ IF queue = <<>>
               THEN UNCHANGED cancelRequested
               ELSE cancelRequested' = FALSE
            /\ StartNext(promptRpc, foreground)
       ELSE /\ recovery' = rec
            /\ UNCHANGED <<cancelRequested, queue, pending, promptRpc, shown,
                           foreground>>
    /\ UNCHANGED <<outcome, poisoned, settleArmed>>

\* The tool calls still executing once the tool events of evs are handled: an
\* end removes the call (on_tool_execution_end, cleanup_tool_call).
ExecutingAfter(evs) ==
    {t \in Tools :
       \/ /\ t \in executing
          /\ ToolEnd(t) \notin Range(evs)
       \/ \E i \in DOMAIN evs :
            /\ evs[i] = ToolStart(t)
            /\ \A j \in DOMAIN evs : j > i => evs[j] # ToolEnd(t)}

-----------------------------------------------------------------------------
(* The command branch.                                                     *)

\* on_prompt
RecvPrompt(p) ==
    /\ Listening
    /\ NextCmd(PromptCmd(p))
    /\ \/ /\ poisoned
          /\ outcome' = Resolve({p}, "SessionClosed")
          /\ UNCHANGED <<turnVars, shownVars, promptRpc>>
       \/ /\ ~poisoned
          /\ pending # NoTurn \/ recovery.on
          /\ queue' = Append(queue, p)
          /\ shown' = Depth(queue', pending # NoTurn)
          /\ UNCHANGED <<outcome, pending, cancelRequested, poisoned, recovery,
                         settleArmed, foreground, promptRpc>>
       \/ /\ ~poisoned
          /\ pending = NoTurn
          /\ ~recovery.on
          /\ cancelRequested' = FALSE
          /\ StartTurn(p, queue, promptRpc)
          /\ UNCHANGED <<outcome, poisoned, recovery, settleArmed>>
    /\ UNCHANGED <<cancels, flagged, closed, blocked, executing, cancelAbort,
                   recoverAbort, stdin, events, piVars>>

\* on_cancel: the queue is cleared in every case; a pending turn is aborted
\* after its prompt has been written.
RecvCancel ==
    /\ Listening
    /\ NextCmd(CancelCmd)
    /\ IF poisoned
       THEN UNCHANGED <<outcome, blocked, turnVars, shown>>
       ELSE /\ cancelRequested' = (pending # NoTurn)
            /\ blocked' = IF pending = NoTurn THEN "no" ELSE "write"
            /\ outcome' = Resolve(Range(queue), "Cancelled")
            /\ queue' = <<>>
            /\ shown' = IF queue = <<>> THEN shown
                        ELSE Depth(<<>>, pending # NoTurn)
            /\ UNCHANGED <<pending, poisoned, recovery, settleArmed>>
    /\ UNCHANGED <<cancels, flagged, closed, executing, foreground, rpcVars,
                   stdin, events, piVars>>

\* on_cancel, once prompt_started completed (or its sender was dropped)
RequestAbort ==
    /\ closed = "no"
    /\ blocked = "write"
    /\ promptRpc[pending.id] # "writing"
    /\ blocked' = "abort"
    /\ cancelAbort' = [state |-> "writing", turn |-> pending.id]
    /\ UNCHANGED <<clientVars, closed, turnVars, executing, shownVars,
                   promptRpc, recoverAbort, stdin, events, piVars>>

\* on_cancel, once the abort is answered: a failed abort retires the session.
AbortAnswered ==
    /\ closed = "no"
    /\ blocked = "abort"
    /\ \/ /\ cancelAbort.state = "ok"
          /\ UNCHANGED <<outcome, turnVars, shown>>
       \/ /\ cancelAbort.state = "err"
          /\ Retire("SessionClosed")
          /\ settleArmed' = FALSE
          /\ UNCHANGED recovery
    /\ blocked' = "no"
    /\ cancelAbort' = NoAbort
    /\ UNCHANGED <<cancels, cmds, flagged, closed, executing, foreground,
                   promptRpc, recoverAbort, stdin, events, piVars>>

-----------------------------------------------------------------------------
(* The event branch.                                                       *)

NextEvent(e) == events # <<>> /\ Head(events) = e /\ events' = Tail(events)

\* on_agent_settled
RecvSettled(p) ==
    /\ Listening
    /\ NextEvent(Settled(p))
    /\ \/ /\ pending = NoTurn
          /\ recovery.on
          /\ FinishRecoveryIfConfirmed([recovery EXCEPT !.settled = TRUE])
       \/ /\ pending # NoTurn
          /\ ~pending.accepted
          /\ ~cancelRequested
          /\ pending' = [pending EXCEPT !.settledEarly = TRUE]
          /\ UNCHANGED <<outcome, queue, cancelRequested, poisoned, recovery,
                         settleArmed, shownVars, promptRpc>>
       \/ /\ pending = NoTurn
          /\ ~recovery.on
          /\ UNCHANGED <<outcome, turnVars, shownVars, promptRpc>>
       \/ /\ pending # NoTurn
          /\ pending.accepted \/ cancelRequested
          /\ SettlePendingTurn(promptRpc)
          /\ UNCHANGED <<poisoned, recovery>>
    /\ UNCHANGED <<cancels, cmds, flagged, closed, blocked, executing,
                   cancelAbort, recoverAbort, stdin, piVars>>

\* on_tool_execution_start and on_tool_execution_end
RecvToolEvent(t) ==
    /\ Listening
    /\ NextEvent(ToolStart(t)) \/ NextEvent(ToolEnd(t))
    /\ executing' = ExecutingAfter(<<Head(events)>>)
    /\ UNCHANGED <<clientVars, closed, blocked, turnVars, shownVars, rpcVars,
                   stdin, piVars>>

-----------------------------------------------------------------------------
(* The prompt results, the recovery abort's result and the deadlines.      *)

\* on_prompt_result
RecvPromptResult(p) ==
    /\ Listening
    /\ promptRpc[p] \in {"ok", "err"}
    /\ LET received == [promptRpc EXCEPT ![p] = "none"] IN
       \/ /\ pending.id # p
          /\ promptRpc' = received
          /\ UNCHANGED <<outcome, turnVars, shownVars>>
       \/ /\ pending.id = p
          /\ promptRpc[p] = "ok"
          /\ p \in flagged \/ pending.settledEarly
          /\ SettlePendingTurn(received)
          /\ UNCHANGED <<poisoned, recovery>>
       \/ /\ pending.id = p
          /\ promptRpc[p] = "ok"
          /\ p \notin flagged
          /\ ~pending.settledEarly
          /\ pending' = [pending EXCEPT !.accepted = TRUE]
          /\ settleArmed' = (SettleFallback \/ settleArmed)
          /\ promptRpc' = received
          /\ UNCHANGED <<outcome, queue, cancelRequested, poisoned, recovery,
                         shownVars>>
       \/ /\ pending.id = p
          /\ promptRpc[p] = "err"
          /\ Retire("Rejected")
          /\ settleArmed' = FALSE
          /\ promptRpc' = received
          /\ UNCHANGED <<recovery, foreground>>
    /\ UNCHANGED <<cancels, cmds, flagged, closed, blocked, executing,
                   cancelAbort, recoverAbort, stdin, events, piVars>>

\* on_settle_timeout: a cancelled turn keeps its queue, and its abort is
\* confirmed already; otherwise everything fails and the abort is spawned.
SettleTimeout ==
    /\ Listening
    /\ settleArmed
    /\ executing = {}
    /\ settleArmed' = FALSE
    /\ IF pending = NoTurn
       THEN UNCHANGED <<outcome, queue, pending, cancelRequested, recovery,
                        shown, recoverAbort>>
       ELSE /\ pending' = NoTurn
            /\ cancelRequested' = FALSE
            /\ recovery' = [on |-> TRUE, aborted |-> cancelRequested,
                            settled |-> FALSE]
            /\ \/ /\ cancelRequested
                  /\ outcome' = Resolve({pending.id}, "Cancelled")
                  /\ UNCHANGED <<queue, recoverAbort>>
               \/ /\ ~cancelRequested
                  /\ outcome' = Resolve({pending.id} \cup Range(queue),
                                        "SettleTimeout")
                  /\ queue' = <<>>
                  /\ recoverAbort' = [state |-> "writing", turn |-> pending.id]
            /\ shown' = Depth(queue', FALSE)
    /\ UNCHANGED <<cancels, cmds, flagged, closed, blocked, poisoned, executing,
                   foreground, promptRpc, cancelAbort, stdin, events, piVars>>

\* on_recovery_abort_result
RecvRecoverAbort ==
    /\ Listening
    /\ recoverAbort.state \in {"ok", "err"}
    /\ recoverAbort' = NoAbort
    /\ \/ /\ ~recovery.on
          /\ UNCHANGED <<outcome, turnVars, shownVars, promptRpc>>
       \/ /\ recovery.on
          /\ recoverAbort.state = "ok"
          /\ FinishRecoveryIfConfirmed([recovery EXCEPT !.aborted = TRUE])
       \/ /\ recovery.on
          /\ recoverAbort.state = "err"
          /\ PoisonRecovery
    /\ UNCHANGED <<cancels, cmds, flagged, closed, blocked, executing,
                   cancelAbort, stdin, events, piVars>>

\* on_recover_timeout: the abort's result and the events that have already
\* arrived are taken first; only a complete handshake saves the session.
RecoverTimeout ==
    /\ Listening
    /\ recovery.on
    /\ LET result == recoverAbort.state
           confirmed == recovery.aborted \/ result = "ok"
           seen == [recovery EXCEPT
                      !.aborted = confirmed,
                      !.settled = @ \/ \E e \in Range(events) : e.kind = "settled"]
           undrained == result = "err" \/ (confirmed /\ recovery.settled)
       IN /\ IF result # "err" /\ seen.aborted /\ seen.settled
             THEN FinishRecoveryIfConfirmed(seen)
             ELSE PoisonRecovery
          /\ IF undrained
             THEN UNCHANGED <<events, executing>>
             ELSE events' = <<>> /\ executing' = ExecutingAfter(events)
    /\ recoverAbort' = IF recoverAbort.state \in {"ok", "err"} THEN NoAbort
                       ELSE recoverAbort
    /\ UNCHANGED <<cancels, cmds, flagged, closed, blocked, cancelAbort, stdin,
                   piVars>>

-----------------------------------------------------------------------------
(* The pump's end: its turns fail, the commands it never took get          *)
(* death_error, and pi is disposed of.                                     *)

Stop(error) ==
    /\ closed' = error
    /\ outcome' = [p \in Prompts |->
                     IF p = pending.id \/ p \in Range(queue) THEN "PiExited"
                     ELSE IF PromptCmd(p) \in Range(cmds) THEN error
                     ELSE outcome[p]]
    /\ cmds' = <<>>
    /\ pending' = NoTurn
    /\ queue' = <<>>
    /\ recovery' = NoRecovery
    /\ settleArmed' = FALSE
    /\ events' = <<>>
    /\ stdin' = <<>>
    /\ piUp' = FALSE
    /\ piRun' = None
    /\ UNCHANGED <<cancels, flagged, blocked, cancelRequested, poisoned,
                   executing, shownVars, rpcVars, piTools, ended, strayed>>

RecvShutdown ==
    /\ Listening
    /\ cmds # <<>>
    /\ Head(cmds) = ShutdownCmd
    /\ Stop("SessionClosed")

\* on_stream_end and the teardown; the exit status may not be known in time.
StreamEnd ==
    /\ Listening
    /\ ~piUp
    /\ events = <<>>
    /\ \E error \in {"PiExited", "SessionClosed"} : Stop(error)

-----------------------------------------------------------------------------
(* The request tasks (pi/process.rs, seen from the pump).                  *)

WritePrompt(p) ==
    /\ promptRpc[p] = "writing"
    /\ piUp
    /\ promptRpc' = [promptRpc EXCEPT ![p] = "awaiting"]
    /\ stdin' = Append(stdin, PromptLine(p))
    /\ UNCHANGED <<clientVars, closed, blocked, turnVars, executing, shownVars,
                   cancelAbort, recoverAbort, events, piVars>>

WriteAbort ==
    /\ piUp
    /\ \/ /\ cancelAbort.state = "writing"
          /\ cancelAbort' = [cancelAbort EXCEPT !.state = "awaiting"]
          /\ stdin' = Append(stdin, CancelLine(cancelAbort.turn))
          /\ UNCHANGED recoverAbort
       \/ /\ recoverAbort.state = "writing"
          /\ recoverAbort' = [recoverAbort EXCEPT !.state = "awaiting"]
          /\ stdin' = Append(stdin, RecoverLine(recoverAbort.turn))
          /\ UNCHANGED cancelAbort
    /\ UNCHANGED <<clientVars, closed, blocked, turnVars, executing, shownVars,
                   promptRpc, events, piVars>>

\* A request fails: it cannot be written, it times out, or pi is gone.
InFlight == {"writing", "awaiting"}

PromptRequestFails(p) ==
    /\ promptRpc[p] \in InFlight
    /\ promptRpc' = [promptRpc EXCEPT ![p] = "err"]
    /\ UNCHANGED <<clientVars, closed, blocked, turnVars, executing, shownVars,
                   cancelAbort, recoverAbort, stdin, events, piVars>>

AbortRequestFails ==
    /\ \/ /\ cancelAbort.state \in InFlight
          /\ cancelAbort' = [cancelAbort EXCEPT !.state = "err"]
          /\ UNCHANGED recoverAbort
       \/ /\ recoverAbort.state \in InFlight
          /\ recoverAbort' = [recoverAbort EXCEPT !.state = "err"]
          /\ UNCHANGED cancelAbort
    /\ UNCHANGED <<clientVars, closed, blocked, turnVars, executing, shownVars,
                   promptRpc, stdin, events, piVars>>

-----------------------------------------------------------------------------
(* pi (external): it handles its lines in order, answers a prompt early,   *)
(* settles each run once, may settle for an abort too, and may hang or     *)
(* exit.                                                                   *)

NextLine(l) == piUp /\ stdin # <<>> /\ Head(stdin) = l /\ stdin' = Tail(stdin)
Answer(rpc, p, r) == IF rpc = [state |-> "awaiting", turn |-> p]
                     THEN [rpc EXCEPT !.state = r] ELSE rpc

\* pi rejects a prompt, or takes it and answers at once or later.
PiTakesPrompt(p) ==
    /\ NextLine(PromptLine(p))
    /\ \E r \in {"ok", "err", "later"} :
         /\ promptRpc' = IF promptRpc[p] = "awaiting" /\ r # "later"
                         THEN [promptRpc EXCEPT ![p] = r] ELSE promptRpc
         /\ r # "err" => piRun = None
         /\ piRun' = IF r # "err" /\ p \notin ExtPrompts THEN p ELSE piRun
    /\ UNCHANGED <<clientVars, closed, blocked, turnVars, executing, shownVars,
                   cancelAbort, recoverAbort, events, piUp, piTools, ended,
                   strayed>>

PiAnswersPrompt(p) ==
    /\ piUp
    /\ promptRpc[p] = "awaiting"
    /\ PromptLine(p) \notin Range(stdin)
    /\ promptRpc' = [promptRpc EXCEPT ![p] = "ok"]
    /\ UNCHANGED <<clientVars, closed, blocked, turnVars, executing, shownVars,
                   cancelAbort, recoverAbort, stdin, events, piVars>>

\* pi carries an abort out or refuses it.  One that finds nothing to stop is
\* answered too, and pi may settle for it all the same, as the scripted pi of
\* main.rs always does; the turn of that settle is the abort's.
PiTakesAbort(p) ==
    /\ \E r \in {"ok", "err"} :
         /\ \/ /\ NextLine(CancelLine(p))
               /\ cancelAbort' = Answer(cancelAbort, p, r)
               /\ UNCHANGED recoverAbort
            \/ /\ NextLine(RecoverLine(p))
               /\ recoverAbort' = Answer(recoverAbort, p, r)
               /\ UNCHANGED cancelAbort
         /\ \/ UNCHANGED <<events, strayed>>
            \/ /\ r = "ok"
               /\ piRun = None
               /\ events' = Append(events, Settled(p))
               /\ strayed' = TRUE
    /\ UNCHANGED <<clientVars, closed, blocked, turnVars, executing, shownVars,
                   promptRpc, piUp, piRun, piTools, ended>>

PiSettles ==
    /\ piRun # None
    /\ \A t \in Tools : piTools[t] # "running"
    /\ events' = Append(events, Settled(piRun))
    /\ ended' = ended \cup {piRun}
    /\ piRun' = None
    /\ UNCHANGED <<clientVars, closed, blocked, turnVars, executing, shownVars,
                   rpcVars, stdin, piUp, piTools, strayed>>

PiStartsTool(t) ==
    /\ piRun # None
    /\ piTools[t] = "unused"
    /\ Len(events) < MaxEvents
    /\ piTools' = [piTools EXCEPT ![t] = "running"]
    /\ events' = Append(events, ToolStart(t))
    /\ UNCHANGED <<clientVars, closed, blocked, turnVars, executing, shownVars,
                   rpcVars, stdin, piUp, piRun, ended, strayed>>

PiEndsTool(t) ==
    /\ piRun # None
    /\ piTools[t] = "running"
    /\ Len(events) < MaxEvents
    /\ piTools' = [piTools EXCEPT ![t] = "ended"]
    /\ events' = Append(events, ToolEnd(t))
    /\ UNCHANGED <<clientVars, closed, blocked, turnVars, executing, shownVars,
                   rpcVars, stdin, piUp, piRun, ended, strayed>>

PiExits ==
    /\ piUp
    /\ piUp' = FALSE
    /\ piRun' = None
    /\ stdin' = <<>>
    /\ UNCHANGED <<clientVars, closed, blocked, turnVars, executing, shownVars,
                   rpcVars, events, piTools, ended, strayed>>

-----------------------------------------------------------------------------
Next ==
    \/ \E p \in Prompts, flag \in BOOLEAN : Submit(p, flag)
    \/ Cancel
    \/ Dispose
    \/ \E p \in Prompts : RecvPrompt(p)
    \/ RecvCancel
    \/ RequestAbort
    \/ AbortAnswered
    \/ \E p \in Prompts : RecvSettled(p)
    \/ \E t \in Tools : RecvToolEvent(t)
    \/ \E p \in Prompts : RecvPromptResult(p)
    \/ SettleTimeout
    \/ RecvRecoverAbort
    \/ RecoverTimeout
    \/ RecvShutdown
    \/ StreamEnd
    \/ \E p \in Prompts : WritePrompt(p)
    \/ WriteAbort
    \/ \E p \in Prompts : PromptRequestFails(p)
    \/ AbortRequestFails
    \/ \E p \in Prompts : PiTakesPrompt(p)
    \/ \E p \in Prompts : PiAnswersPrompt(p)
    \/ \E p \in Prompts : PiTakesAbort(p)
    \/ PiSettles
    \/ \E t \in Tools : PiStartsTool(t)
    \/ \E t \in Tools : PiEndsTool(t)
    \/ PiExits

Spec == Init /\ [][Next]_vars

-----------------------------------------------------------------------------
(* Fairness.  tokio polls every ready branch of the select! in random      *)
(* order and keeps running spawned tasks; every request ends in an answer  *)
(* or its timeout; an armed deadline fires.  pi owes nothing but the end   *)
(* of the tools it starts ("a tool that never ends is the host's to        *)
(* bound", session.rs:2350).                                               *)
PumpFairness ==
    /\ \A p \in Prompts : WF_vars(RecvPrompt(p))
    /\ WF_vars(RecvCancel)
    /\ WF_vars(RequestAbort)
    /\ WF_vars(AbortAnswered)
    /\ \A p \in Prompts : WF_vars(RecvSettled(p))
    /\ \A t \in Tools : WF_vars(RecvToolEvent(t))
    /\ \A p \in Prompts : WF_vars(RecvPromptResult(p))
    /\ WF_vars(SettleTimeout)
    /\ WF_vars(RecvRecoverAbort)
    /\ WF_vars(RecoverTimeout)
    /\ WF_vars(RecvShutdown)
    /\ WF_vars(StreamEnd)
RequestFairness ==
    /\ \A p \in Prompts : WF_vars(WritePrompt(p))
    /\ \A p \in Prompts : WF_vars(PromptRequestFails(p))
    /\ WF_vars(WriteAbort)
    /\ WF_vars(AbortRequestFails)
ToolFairness == \A t \in Tools : WF_vars(PiEndsTool(t))

FairSpec == Spec /\ PumpFairness /\ RequestFairness /\ ToolFairness

-----------------------------------------------------------------------------
(* Properties                                                              *)

Live == closed = "no"

\* "The aborted turn's late `agent_settled` carries no turn id and must never
\* complete a fresh turn" (session.rs:1041): a prompt reports EndTurn only if pi
\* has settled its own run, or if it is an extension command, which its response
\* ends.
StaleSettleNeverCompletes ==
    \A p \in Prompts : outcome[p] = "EndTurn" => p \in ended \cup flagged

\* W-480 as far as the code keeps it: it does as long as pi settles runs and
\* nothing else.  A settle for an abort that found nothing to stop is the one
\* thing that can end another turn (on_agent_settled).
EndTurnEarned == ~strayed => StaleSettleNeverCompletes

\* An abort, of a cancel or of a recovery, can only hit the turn it was sent
\* for: pi is not running, and will not meet, another turn's prompt before it.
AbortsHitTheirTurn ==
    \A i \in DOMAIN stdin : stdin[i].op # "prompt" =>
        /\ piRun \in {None, stdin[i].turn}
        /\ \A j \in DOMAIN stdin : j < i /\ stdin[j].op = "prompt"
                                      => stdin[j].turn = stdin[i].turn

\* One turn at a time reaches pi: the prompts on their way to it and the run
\* it is working on never belong to two turns, whatever was cancelled, timed
\* out or failed meanwhile.
OneTurnAtPi ==
    Cardinality({p \in Prompts :
                   \/ promptRpc[p] = "writing"
                   \/ PromptLine(p) \in Range(stdin)
                   \/ piRun = p}) <= 1

\* pi only ever sees one turn, and an abort only that one's (start_turn, on_cancel,
\* finish_recovery_if_confirmed), unless a settle without a run ended a turn early.
TurnsAtPi == ~strayed => OneTurnAtPi /\ AbortsHitTheirTurn

\* A retired session runs and queues nothing, and has no deadline left; a
\* recovering one has no turn of its own.
RetiredIsQuiet ==
    /\ poisoned => pending = NoTurn /\ queue = <<>> /\ ~settleArmed
                   /\ ~recovery.on
    /\ recovery.on => pending = NoTurn /\ ~settleArmed

\* A queued prompt always has a turn or a recovery ahead of it whose end will
\* start it: no order of cancel, settle, timeout and failure strands one.
NoStrandedPrompt == Live /\ queue # <<>> => pending # NoTurn \/ recovery.on

\* Every unresolved prompt is in exactly one place: the command channel, the
\* queue or the pending turn; a resolved one is in none of them.
Holders(p) ==
    Cardinality({i \in DOMAIN cmds : cmds[i] = PromptCmd(p)})
    + Cardinality({i \in DOMAIN queue : queue[i] = p})
    + (IF pending.id = p THEN 1 ELSE 0)
NoPromptLost ==
    \A p \in Prompts : Holders(p) = IF outcome[p] = "waiting" THEN 1 ELSE 0

\* The recovery's abort is out exactly while that recovery still lacks its
\* confirmation, so the untagged result of one recovery is never taken for
\* the next one's.
AbortResultIsCurrent ==
    Live /\ ~poisoned =>
        (recoverAbort # NoAbort <=> recovery.on /\ ~recovery.aborted)

\* What the client was last shown of the queue is what the queue is.
ShownQueueIsCurrent ==
    Live => shown = [depth |-> Len(queue), running |-> pending # NoTurn]

\* A prompt is answered once: no later event changes what its caller got.
AnsweredOnce ==
    [][\A p \in Prompts : outcome[p] \in Results => outcome'[p] = outcome[p]]_vars

\* A turn the pump began to cancel never reports a normal end, whichever of
\* settle, response, timeout or failure comes next.
CancelSticks ==
    \A p \in Prompts : [](blocked # "no" /\ pending.id = p
                            => [](outcome[p] # "EndTurn"))

\* "so session/prompt can never hang forever" (session.rs:2600): whatever pi
\* does, every prompt is answered.
EveryPromptAnswered ==
    \A p \in Prompts : outcome[p] = "waiting" ~> outcome[p] \in Results

\* "v2 clients see the same stop reason a v1 client reads from the prompt
\* response" (session.rs:446): a turn that reports a stop reason publishes
\* Idle with it, and only the next turn's Running may follow.
StopReasonIsPublished ==
    [][\A p \in Prompts :
         pending.id = p /\ outcome[p] # outcome'[p]
                        /\ outcome'[p] \in {"EndTurn", "Cancelled"}
         => foreground' = "Idle" \/ pending' # NoTurn]_vars

\* The pump implements the service: the line is its queue followed by the
\* prompts still in its command channel, the active prompt its pending turn.
PromptsOf(cs) ==
    Subsequence([i \in DOMAIN cs |-> cs[i].turn], {i \in DOMAIN cs : cs[i].op = "prompt"})
Line == queue \o PromptsOf(cmds)
Service == INSTANCE TurnService WITH line <- Line, active <- pending.id
ServesInOrder == Service!Spec
\* Prompts are begun in the order they came, one at a time, and each is answered once
\* (start_next, complete).
ServedOnceInOrder == ServesInOrder /\ AnsweredOnce

=============================================================================
