--------------------------- MODULE TurnPumpProofs ---------------------------
(***************************************************************************)
(* Theorems about TurnPump, for every set of prompts, tools and bounds.    *)
(***************************************************************************)
EXTENDS TurnPump, SubsequenceProofs, TLAPS

-----------------------------------------------------------------------------
(* The helpers the handlers share keep the types.                          *)

LEMMA ValueTypes ==
    /\ NoTurn \in Turns
    /\ \A p \in Prompts : Fresh(p) \in Turns
    /\ NoRecovery \in Recoveries
    /\ \A q \in Seq(Prompts), b \in BOOLEAN : Depth(q, b) \in QueueStatus
    /\ <<>> \in Seq(Prompts)
BY DEF NoTurn, Fresh, NoRecovery, Depth, Turns, QueueStatus, Recoveries

LEMMA NoneIsASeq == \A S : <<>> \in Seq(S)
OBVIOUS

LEMMA ResolveType ==
    ASSUME outcome \in Outcomes, NEW ps, NEW r \in Results
    PROVE  Resolve(ps, r) \in Outcomes
BY DEF Outcomes, Resolve

LEMMA StartTurnType ==
    ASSUME NEW p \in Prompts, NEW rest \in Seq(Prompts), NEW rpc \in PromptRpcs,
           StartTurn(p, rest, rpc)
    PROVE  /\ pending' \in Turns
           /\ queue' \in Seq(Prompts)
           /\ promptRpc' \in PromptRpcs
           /\ shown' \in QueueStatus
           /\ foreground' \in Foregrounds
<1>1. /\ pending' = Fresh(p)
      /\ queue' = rest
      /\ promptRpc' = [rpc EXCEPT ![p] = "writing"]
      /\ shown' = Depth(rest, TRUE)
      /\ foreground' = "Running"
  BY DEF StartTurn
<1>2. promptRpc' \in PromptRpcs
  BY <1>1 DEF PromptRpcs, RpcState
<1>3. QED
  BY <1>1, <1>2, ValueTypes DEF Foregrounds

LEMMA StartNextType ==
    ASSUME queue \in Seq(Prompts), NEW rpc \in PromptRpcs,
           NEW idle \in Foregrounds, StartNext(rpc, idle)
    PROVE  /\ pending' \in Turns
           /\ queue' \in Seq(Prompts)
           /\ promptRpc' \in PromptRpcs
           /\ shown' \in QueueStatus
           /\ foreground' \in Foregrounds
<1>1. CASE queue = <<>>
  <2>1. /\ pending' = NoTurn
        /\ queue' = queue
        /\ promptRpc' = rpc
        /\ shown' = Depth(queue, FALSE)
        /\ foreground' = idle
    BY <1>1 DEF StartNext
  <2>2. QED
    BY <2>1, ValueTypes
<1>2. CASE queue # <<>>
  <2>1. Head(queue) \in Prompts /\ Tail(queue) \in Seq(Prompts)
    BY <1>2
  <2>2. StartTurn(Head(queue), Tail(queue), rpc)
    BY <1>2 DEF StartNext
  <2>3. QED
    BY <2>1, <2>2, StartTurnType
<1>3. QED
  BY <1>1, <1>2

LEMMA RetireType ==
    ASSUME outcome \in Outcomes, NEW r \in Results, Retire(r)
    PROVE  /\ poisoned' = TRUE
           /\ cancelRequested' = FALSE
           /\ outcome' \in Outcomes
           /\ pending' = NoTurn
           /\ queue' = <<>>
           /\ shown' \in QueueStatus
<1>1. shown' = Depth(<<>>, FALSE)
  BY DEF Retire
<1>2. outcome' \in Outcomes
  BY DEF Retire, Outcomes, Results
<1>3. QED
  BY <1>1, <1>2, ValueTypes DEF Retire

LEMMA FinishRecoveryType ==
    ASSUME TypeOK, NEW rec \in Recoveries, FinishRecoveryIfConfirmed(rec)
    PROVE  /\ UNCHANGED <<outcome, poisoned, settleArmed>>
           /\ cancelRequested' \in BOOLEAN
           /\ recovery' \in Recoveries
           /\ pending' \in Turns
           /\ queue' \in Seq(Prompts)
           /\ promptRpc' \in PromptRpcs
           /\ shown' \in QueueStatus
           /\ foreground' \in Foregrounds
<1> USE DEF TypeOK
<1>1. CASE rec.on /\ rec.aborted /\ rec.settled
  <2>1. /\ StartNext(promptRpc, foreground)
        /\ recovery' = NoRecovery
        /\ cancelRequested' \in {FALSE, cancelRequested}
    BY <1>1 DEF FinishRecoveryIfConfirmed
  <2>2. QED
    BY <2>1, StartNextType, ValueTypes DEF FinishRecoveryIfConfirmed
<1>2. CASE ~(rec.on /\ rec.aborted /\ rec.settled)
  BY <1>2 DEF FinishRecoveryIfConfirmed
<1>3. QED
  BY <1>1, <1>2

LEMMA SettlePendingType ==
    ASSUME TypeOK, NEW rpc \in PromptRpcs, SettlePendingTurn(rpc)
    PROVE  /\ settleArmed' = FALSE
           /\ outcome' \in Outcomes
           /\ cancelRequested' = FALSE
           /\ pending' \in Turns
           /\ queue' \in Seq(Prompts)
           /\ promptRpc' \in PromptRpcs
           /\ shown' \in QueueStatus
           /\ foreground' \in Foregrounds
<1>1. StartNext(rpc, "Idle") /\ "Idle" \in Foregrounds
  BY DEF SettlePendingTurn, Foregrounds
<1>2. outcome' \in Outcomes
  <2>1. {"EndTurn", "Cancelled"} \subseteq Results
    BY DEF Results
  <2>2. QED
    BY <2>1, ResolveType DEF SettlePendingTurn, TypeOK
<1>3. QED
  BY <1>1, <1>2, StartNextType DEF TypeOK, SettlePendingTurn

LEMMA PoisonRecoveryType ==
    ASSUME TypeOK, PoisonRecovery
    PROVE  /\ outcome' \in Outcomes /\ pending' \in Turns
           /\ queue' \in Seq(Prompts) /\ cancelRequested' \in BOOLEAN
           /\ promptRpc' \in PromptRpcs /\ shown' \in QueueStatus
           /\ foreground' \in Foregrounds /\ recovery' \in Recoveries
           /\ poisoned' \in BOOLEAN /\ settleArmed' \in BOOLEAN
<1>1. /\ Retire("SessionClosed") /\ recovery' = NoRecovery
      /\ UNCHANGED <<foreground, promptRpc, settleArmed>>
  BY DEF PoisonRecovery
<1>2. "SessionClosed" \in Results /\ outcome \in Outcomes
  BY DEF Results, TypeOK
<1>3. QED
  BY <1>1, <1>2, RetireType, ValueTypes DEF TypeOK

LEMMA LineTypes ==
    ASSUME NEW p \in Prompts
    PROVE  /\ PromptCmd(p) \in Commands
           /\ PromptLine(p) \in Lines
           /\ CancelLine(p) \in Lines
           /\ RecoverLine(p) \in Lines
           /\ Settled(p) \in Events
BY DEF PromptCmd, Commands, PromptLine, CancelLine, RecoverLine, Lines,
       Settled, Events

LEMMA ToolTypes ==
    /\ \A t \in Tools : ToolStart(t) \in Events /\ ToolEnd(t) \in Events
    /\ \A evs : ExecutingAfter(evs) \subseteq Tools
    /\ CancelCmd \in Commands /\ ShutdownCmd \in Commands
    /\ NoAbort \in Aborts
BY DEF ToolStart, ToolEnd, Events, ExecutingAfter, Commands, NoAbort, Aborts,
       RpcState

-----------------------------------------------------------------------------
(* Type correctness.                                                       *)

LEMMA InitType == Init => TypeOK
<1> SUFFICES ASSUME Init PROVE TypeOK
  OBVIOUS
<1>1. outcome \in Outcomes /\ promptRpc \in PromptRpcs
  BY DEF Init, Outcomes, PromptRpcs, RpcState
<1>2. shown \in QueueStatus /\ foreground \in Foregrounds
  BY DEF Init, QueueStatus, Foregrounds
<1>3. piTools \in [Tools -> {"unused", "running", "ended"}]
  BY DEF Init
<1>4. cmds \in Seq(Commands) /\ stdin \in Seq(Lines) /\ events \in Seq(Events)
      /\ queue \in Seq(Prompts)
  BY DEF Init
<1>5. pending \in Turns /\ recovery \in Recoveries
      /\ cancelAbort \in Aborts /\ recoverAbort \in Aborts
  BY ValueTypes, ToolTypes DEF Init
<1>6. QED
  BY <1>1, <1>2, <1>3, <1>4, <1>5 DEF Init, TypeOK

LEMMA ClientSteps ==
    ASSUME TypeOK,
           \/ \E p \in Prompts, flag \in BOOLEAN : Submit(p, flag)
           \/ Cancel \/ Dispose
    PROVE  TypeOK'
<1>1. ASSUME NEW p \in Prompts, NEW flag \in BOOLEAN, Submit(p, flag)
      PROVE  TypeOK'
  <2>1. flagged' \subseteq ExtPrompts
    BY <1>1 DEF Submit, TypeOK
  <2>2. cmds' \in Seq(Commands)
    <3>1. cmds' = cmds \/ cmds' = Append(cmds, PromptCmd(p))
      BY <1>1 DEF Submit
    <3>2. PromptCmd(p) \in Commands /\ cmds \in Seq(Commands)
      BY LineTypes DEF TypeOK
    <3>3. QED
      BY <3>1, <3>2
  <2>3. outcome' \in Outcomes
    <3>1. CASE closed = "no"
      BY <1>1, <3>1 DEF Submit, TypeOK, Outcomes
    <3>2. CASE closed # "no"
      <4>1. closed \in Results /\ outcome \in Outcomes
        BY <3>2 DEF TypeOK, Results
      <4>2. outcome' = [outcome EXCEPT ![p] = closed]
        BY <1>1, <3>2 DEF Submit
      <4>3. QED
        BY <4>1, <4>2 DEF Outcomes
    <3>3. QED
      BY <3>1, <3>2
  <2>4. QED
    BY <1>1, <2>1, <2>2, <2>3
       DEF Submit, TypeOK, turnVars, shownVars, rpcVars, piVars
<1>2. CASE Cancel
  BY <1>2, ToolTypes DEF Cancel, TypeOK, turnVars, shownVars, rpcVars, piVars
<1>3. CASE Dispose
  BY <1>3, ToolTypes DEF Dispose, TypeOK, turnVars, shownVars, rpcVars, piVars
<1>4. QED
  BY <1>1, <1>2, <1>3

LEMMA CommandSteps ==
    ASSUME TypeOK,
           \/ \E p \in Prompts : RecvPrompt(p)
           \/ RecvCancel \/ RequestAbort \/ AbortAnswered
    PROVE  TypeOK'
<1> USE DEF piVars
<1>1. ASSUME NEW p \in Prompts, RecvPrompt(p) PROVE TypeOK'
  <2>1. cmds' \in Seq(Commands)
    BY <1>1 DEF RecvPrompt, NextCmd, TypeOK
  <2>2. /\ outcome' \in Outcomes /\ pending' \in Turns
        /\ queue' \in Seq(Prompts) /\ cancelRequested' \in BOOLEAN
        /\ promptRpc' \in PromptRpcs /\ shown' \in QueueStatus
        /\ foreground' \in Foregrounds
        /\ UNCHANGED <<poisoned, recovery, settleArmed>>
    <3>1. CASE poisoned
      <4>1. outcome' = Resolve({p}, "SessionClosed") /\ "SessionClosed" \in Results
        BY <1>1, <3>1 DEF RecvPrompt, Results
      <4>2. outcome' \in Outcomes
        BY <4>1, ResolveType DEF TypeOK
      <4>3. QED
        BY <1>1, <3>1, <4>2 DEF RecvPrompt, TypeOK, turnVars, shownVars
    <3>2. CASE ~poisoned /\ (pending # NoTurn \/ recovery.on)
      <4>1. queue' = Append(queue, p) /\ shown' = Depth(queue', pending # NoTurn)
        BY <1>1, <3>2 DEF RecvPrompt
      <4>2. queue' \in Seq(Prompts)
        BY <4>1 DEF TypeOK
      <4>3. shown' \in QueueStatus
        BY <4>1, <4>2, ValueTypes
      <4>4. QED
        BY <1>1, <3>2, <4>2, <4>3 DEF RecvPrompt, TypeOK
    <3>3. CASE ~poisoned /\ pending = NoTurn /\ ~recovery.on
      <4>1. StartTurn(p, queue, promptRpc) /\ cancelRequested' = FALSE
            /\ UNCHANGED <<outcome, poisoned, recovery, settleArmed>>
        BY <1>1, <3>3 DEF RecvPrompt
      <4>2. QED
        BY <4>1, StartTurnType DEF TypeOK
    <3>4. QED
      BY <1>1, <3>1, <3>2, <3>3 DEF RecvPrompt
  <2>3. QED
    BY <1>1, <2>1, <2>2 DEF RecvPrompt, TypeOK
<1>2. CASE RecvCancel
  <2>1. cmds' \in Seq(Commands)
    BY <1>2 DEF RecvCancel, NextCmd, TypeOK
  <2>2. outcome' \in Outcomes
    <3>1. outcome' \in {outcome, Resolve(Range(queue), "Cancelled")}
      BY <1>2 DEF RecvCancel
    <3>2. QED
      BY <3>1, ResolveType DEF TypeOK, Results
  <2>3. queue' \in Seq(Prompts) /\ shown' \in QueueStatus
    <3>1. queue' \in {queue, <<>>}
          /\ shown' \in {shown, Depth(<<>>, TRUE), Depth(<<>>, FALSE)}
      BY <1>2 DEF RecvCancel, turnVars
    <3>2. QED
      BY <3>1, ValueTypes DEF TypeOK
  <2>4. cancelRequested' \in BOOLEAN /\ blocked' \in {"no", "write", "abort"}
    BY <1>2 DEF RecvCancel, turnVars, TypeOK
  <2>5. UNCHANGED <<pending, poisoned, recovery, settleArmed>>
    BY <1>2 DEF RecvCancel, turnVars
  <2>6. QED
    BY <1>2, <2>1, <2>2, <2>3, <2>4, <2>5 DEF RecvCancel, TypeOK, rpcVars
<1>3. CASE RequestAbort
  <2>1. cancelAbort' \in Aborts
    BY <1>3 DEF RequestAbort, TypeOK, Aborts, RpcState, Turns
  <2>2. QED
    BY <1>3, <2>1 DEF RequestAbort, TypeOK, clientVars, turnVars, shownVars
<1>4. CASE AbortAnswered
  <2>1. /\ outcome' \in Outcomes /\ pending' \in Turns
        /\ queue' \in Seq(Prompts) /\ cancelRequested' \in BOOLEAN
        /\ poisoned' \in BOOLEAN /\ shown' \in QueueStatus
        /\ settleArmed' \in BOOLEAN /\ UNCHANGED recovery
    <3>1. CASE cancelAbort.state = "ok"
      BY <1>4, <3>1 DEF AbortAnswered, TypeOK, turnVars
    <3>2. CASE cancelAbort.state = "err"
      <4>1. Retire("SessionClosed") /\ settleArmed' = FALSE /\ UNCHANGED recovery
        BY <1>4, <3>2 DEF AbortAnswered
      <4>2. "SessionClosed" \in Results /\ outcome \in Outcomes
        BY DEF Results, TypeOK
      <4>3. QED
        BY <4>1, <4>2, RetireType, ValueTypes
    <3>3. QED
      BY <1>4, <3>1, <3>2 DEF AbortAnswered
  <2>2. cancelAbort' \in Aborts /\ blocked' = "no"
    BY <1>4, ToolTypes DEF AbortAnswered
  <2>3. QED
    BY <1>4, <2>1, <2>2 DEF AbortAnswered, TypeOK
<1>5. QED
  BY <1>1, <1>2, <1>3, <1>4

LEMMA EventSteps ==
    ASSUME TypeOK,
           \/ \E p \in Prompts : RecvSettled(p)
           \/ \E t \in Tools : RecvToolEvent(t)
    PROVE  TypeOK'
<1> USE DEF piVars
<1>1. ASSUME NEW p \in Prompts, RecvSettled(p) PROVE TypeOK'
  <2>1. events' \in Seq(Events)
    BY <1>1 DEF RecvSettled, NextEvent, TypeOK
  <2>2. /\ outcome' \in Outcomes /\ pending' \in Turns
        /\ queue' \in Seq(Prompts) /\ cancelRequested' \in BOOLEAN
        /\ promptRpc' \in PromptRpcs /\ shown' \in QueueStatus
        /\ foreground' \in Foregrounds /\ recovery' \in Recoveries
        /\ poisoned' \in BOOLEAN /\ settleArmed' \in BOOLEAN
    <3>1. CASE pending = NoTurn /\ recovery.on
      <4>1. FinishRecoveryIfConfirmed([recovery EXCEPT !.settled = TRUE])
        BY <1>1, <3>1 DEF RecvSettled
      <4>2. [recovery EXCEPT !.settled = TRUE] \in Recoveries
        BY DEF TypeOK, Recoveries
      <4>3. QED
        BY <4>1, <4>2, FinishRecoveryType DEF TypeOK
    <3>2. CASE pending # NoTurn /\ ~pending.accepted /\ ~cancelRequested
      <4>1. pending' = [pending EXCEPT !.settledEarly = TRUE]
            /\ UNCHANGED <<outcome, queue, cancelRequested, poisoned, recovery,
                           settleArmed, shownVars, promptRpc>>
        BY <1>1, <3>2 DEF RecvSettled
      <4>2. pending' \in Turns
        BY <4>1 DEF TypeOK, Turns
      <4>3. QED
        BY <4>1, <4>2 DEF TypeOK, shownVars
    <3>3. CASE pending = NoTurn /\ ~recovery.on
      BY <1>1, <3>3 DEF RecvSettled, TypeOK, turnVars, shownVars
    <3>4. CASE pending # NoTurn /\ (pending.accepted \/ cancelRequested)
      <4>1. SettlePendingTurn(promptRpc) /\ UNCHANGED <<poisoned, recovery>>
        BY <1>1, <3>4 DEF RecvSettled
      <4>2. QED
        BY <4>1, SettlePendingType DEF TypeOK
    <3>5. QED
      BY <3>1, <3>2, <3>3, <3>4
  <2>3. QED
    BY <1>1, <2>1, <2>2 DEF RecvSettled, TypeOK
<1>2. ASSUME NEW t \in Tools, RecvToolEvent(t) PROVE TypeOK'
  <2>1. events' \in Seq(Events)
    <3>1. events # <<>> /\ events' = Tail(events)
      BY <1>2 DEF RecvToolEvent, NextEvent
    <3>2. QED
      BY <3>1 DEF TypeOK
  <2>2. executing' \subseteq Tools
    BY <1>2, ToolTypes DEF RecvToolEvent
  <2>3. QED
    BY <1>2, <2>1, <2>2
       DEF RecvToolEvent, TypeOK, clientVars, turnVars, shownVars, rpcVars
<1>3. QED
  BY <1>1, <1>2

LEMMA ResultSteps ==
    ASSUME TypeOK,
           \/ \E p \in Prompts : RecvPromptResult(p)
           \/ RecvRecoverAbort
    PROVE  TypeOK'
<1> USE DEF piVars
<1>1. ASSUME NEW p \in Prompts, RecvPromptResult(p) PROVE TypeOK'
  <2> DEFINE received == [promptRpc EXCEPT ![p] = "none"]
  <2>1. received \in PromptRpcs
    BY DEF TypeOK, PromptRpcs, RpcState
  <2> HIDE DEF received
  <2>2. /\ outcome' \in Outcomes /\ pending' \in Turns
        /\ queue' \in Seq(Prompts) /\ cancelRequested' \in BOOLEAN
        /\ promptRpc' \in PromptRpcs /\ shown' \in QueueStatus
        /\ foreground' \in Foregrounds /\ recovery' \in Recoveries
        /\ poisoned' \in BOOLEAN /\ settleArmed' \in BOOLEAN
    <3>1. CASE pending.id # p
      BY <1>1, <2>1, <3>1
         DEF RecvPromptResult, received, TypeOK, turnVars, shownVars
    <3>2. CASE /\ pending.id = p /\ promptRpc[p] = "ok"
               /\ p \in flagged \/ pending.settledEarly
      <4>1. \/ SettlePendingTurn(received) /\ UNCHANGED <<poisoned, recovery>>
        BY <1>1, <3>2 DEF RecvPromptResult, received
      <4>2. QED
        BY <4>1, <2>1, SettlePendingType DEF TypeOK
    <3>3. CASE /\ pending.id = p /\ promptRpc[p] = "ok"
               /\ p \notin flagged /\ ~pending.settledEarly
      <4>1. /\ pending' = [pending EXCEPT !.accepted = TRUE]
            /\ settleArmed' = (SettleFallback \/ settleArmed)
            /\ promptRpc' = received
            /\ UNCHANGED <<outcome, queue, cancelRequested, poisoned, recovery,
                           shownVars>>
        BY <1>1, <3>3 DEF RecvPromptResult, received
      <4>2. pending' \in Turns
        BY <4>1 DEF TypeOK, Turns
      <4>3. settleArmed' \in BOOLEAN
        BY <4>1
      <4>4. QED
        BY <2>1, <4>1, <4>2, <4>3 DEF TypeOK, shownVars
    <3>4. CASE pending.id = p /\ promptRpc[p] = "err"
      <4>1. /\ Retire("Rejected") /\ settleArmed' = FALSE
            /\ promptRpc' = received /\ UNCHANGED <<recovery, foreground>>
        BY <1>1, <3>4 DEF RecvPromptResult, received
      <4>2. "Rejected" \in Results /\ outcome \in Outcomes
        BY DEF Results, TypeOK
      <4>3. QED
        BY <2>1, <4>1, <4>2, RetireType, ValueTypes DEF TypeOK
    <3>5. QED
      BY <1>1, <3>1, <3>2, <3>3, <3>4 DEF RecvPromptResult
  <2>3. QED
    BY <1>1, <2>2 DEF RecvPromptResult, TypeOK
<1>2. CASE RecvRecoverAbort
  <2>1. recoverAbort' \in Aborts
    BY <1>2, ToolTypes DEF RecvRecoverAbort
  <2>2. /\ outcome' \in Outcomes /\ pending' \in Turns
        /\ queue' \in Seq(Prompts) /\ cancelRequested' \in BOOLEAN
        /\ promptRpc' \in PromptRpcs /\ shown' \in QueueStatus
        /\ foreground' \in Foregrounds /\ recovery' \in Recoveries
        /\ poisoned' \in BOOLEAN /\ settleArmed' \in BOOLEAN
    <3>1. CASE ~recovery.on
      BY <1>2, <3>1 DEF RecvRecoverAbort, TypeOK, turnVars, shownVars
    <3>2. CASE recovery.on /\ recoverAbort.state = "ok"
      <4>1. FinishRecoveryIfConfirmed([recovery EXCEPT !.aborted = TRUE])
        BY <1>2, <3>2 DEF RecvRecoverAbort
      <4>2. [recovery EXCEPT !.aborted = TRUE] \in Recoveries
        BY DEF TypeOK, Recoveries
      <4>3. QED
        BY <4>1, <4>2, FinishRecoveryType DEF TypeOK
    <3>3. CASE recovery.on /\ recoverAbort.state = "err"
      <4>1. PoisonRecovery
        BY <1>2, <3>3 DEF RecvRecoverAbort
      <4>2. QED
        BY <4>1, PoisonRecoveryType
    <3>4. QED
      BY <1>2, <3>1, <3>2, <3>3 DEF RecvRecoverAbort
  <2>3. QED
    BY <1>2, <2>1, <2>2 DEF RecvRecoverAbort, TypeOK
<1>3. QED
  BY <1>1, <1>2


LEMMA SettleTimeoutStep == TypeOK /\ SettleTimeout => TypeOK'
<1> SUFFICES ASSUME TypeOK, SettleTimeout PROVE TypeOK'
  OBVIOUS
<1>1. /\ settleArmed' = FALSE
      /\ UNCHANGED <<cancels, cmds, flagged, closed, blocked, poisoned,
                     executing, foreground, promptRpc, cancelAbort, stdin,
                     events, piVars>>
  BY DEF SettleTimeout
<1>2. /\ outcome' \in Outcomes /\ pending' \in Turns
      /\ queue' \in Seq(Prompts) /\ cancelRequested' \in BOOLEAN
      /\ shown' \in QueueStatus /\ recovery' \in Recoveries
      /\ recoverAbort' \in Aborts
  <2>1. CASE pending = NoTurn
    BY <2>1 DEF SettleTimeout, TypeOK
  <2>2. CASE pending # NoTurn
    <3>1. /\ pending' = NoTurn
          /\ cancelRequested' = FALSE
          /\ recovery' = [on |-> TRUE, aborted |-> cancelRequested,
                          settled |-> FALSE]
          /\ \/ outcome' = Resolve({pending.id}, "Cancelled")
             \/ outcome' = Resolve({pending.id} \cup Range(queue),
                                   "SettleTimeout")
          /\ queue' \in {queue, <<>>}
          /\ recoverAbort' \in {recoverAbort, [state |-> "writing",
                                               turn |-> pending.id]}
          /\ shown' = Depth(queue', FALSE)
      BY <2>2 DEF SettleTimeout
    <3>2. recovery' \in Recoveries
      BY <3>1 DEF TypeOK, Recoveries
    <3>3. outcome' \in Outcomes
      <4>1. /\ outcome \in Outcomes
            /\ "Cancelled" \in Results /\ "SettleTimeout" \in Results
        BY DEF TypeOK, Results
      <4>2. CASE outcome' = Resolve({pending.id}, "Cancelled")
        BY <4>1, <4>2, ResolveType
      <4>3. CASE outcome' = Resolve({pending.id} \cup Range(queue), "SettleTimeout")
        BY <4>1, <4>3, ResolveType
      <4>4. QED
        BY <3>1, <4>2, <4>3
    <3>4. queue' \in Seq(Prompts)
      BY <3>1, NoneIsASeq DEF TypeOK
    <3>5. recoverAbort' \in Aborts
      BY <3>1 DEF TypeOK, Aborts, RpcState, Turns
    <3>6. QED
      BY <3>1, <3>2, <3>3, <3>4, <3>5, ValueTypes
  <2>3. QED
    BY <2>1, <2>2
<1>3. QED
  BY <1>1, <1>2 DEF TypeOK, piVars

LEMMA RecoverTimeoutStep == TypeOK /\ RecoverTimeout => TypeOK'
<1> SUFFICES ASSUME TypeOK, RecoverTimeout PROVE TypeOK'
  OBVIOUS
<1>1. UNCHANGED <<cancels, cmds, flagged, closed, blocked, cancelAbort, stdin,
                  piVars>>
  BY DEF RecoverTimeout
<1>2. /\ outcome' \in Outcomes /\ pending' \in Turns
      /\ queue' \in Seq(Prompts) /\ cancelRequested' \in BOOLEAN
      /\ promptRpc' \in PromptRpcs /\ shown' \in QueueStatus
      /\ foreground' \in Foregrounds /\ recovery' \in Recoveries
      /\ poisoned' \in BOOLEAN /\ settleArmed' \in BOOLEAN
  <2>1. PICK a \in BOOLEAN, b \in BOOLEAN :
          LET seen == [recovery EXCEPT !.aborted = a, !.settled = b]
          IN FinishRecoveryIfConfirmed(seen) \/ PoisonRecovery
    <3> DEFINE a == recovery.aborted \/ recoverAbort.state = "ok"
               b == recovery.settled
                    \/ \E e \in Range(events) : e.kind = "settled"
    <3>1. a \in BOOLEAN /\ b \in BOOLEAN
      BY DEF TypeOK, Recoveries
    <3>2. LET seen == [recovery EXCEPT !.aborted = a, !.settled = b]
          IN FinishRecoveryIfConfirmed(seen) \/ PoisonRecovery
      <4>1. [recovery EXCEPT !.aborted = a, !.settled = b]
            = [recovery EXCEPT !.aborted = a,
                 !.settled = @ \/ \E e \in Range(events) : e.kind = "settled"]
        BY DEF TypeOK, Recoveries
      <4>2. QED
        BY <4>1 DEF RecoverTimeout
    <3>3. QED
      BY <3>1, <3>2
  <2>2. [recovery EXCEPT !.aborted = a, !.settled = b] \in Recoveries
    BY DEF TypeOK, Recoveries
  <2>3. CASE FinishRecoveryIfConfirmed([recovery EXCEPT !.aborted = a,
                                                        !.settled = b])
    BY <2>2, <2>3, FinishRecoveryType DEF TypeOK
  <2>4. CASE PoisonRecovery
    BY <2>4, PoisonRecoveryType
  <2>5. QED
    BY <2>1, <2>3, <2>4
<1>3. events' \in Seq(Events) /\ executing' \subseteq Tools
  <2>1. \/ UNCHANGED <<events, executing>>
        \/ events' = <<>> /\ executing' = ExecutingAfter(events)
    BY DEF RecoverTimeout
  <2>2. events \in Seq(Events) /\ executing \subseteq Tools
    BY DEF TypeOK
  <2>3. QED
    BY <2>1, <2>2, ToolTypes, NoneIsASeq
<1>4. recoverAbort' \in Aborts
  <2>1. recoverAbort' \in {NoAbort, recoverAbort}
    BY DEF RecoverTimeout
  <2>2. QED
    BY <2>1, ToolTypes DEF TypeOK
<1>5. QED
  BY <1>1, <1>2, <1>3, <1>4 DEF TypeOK, piVars

LEMMA StopStep ==
    ASSUME TypeOK, RecvShutdown \/ StreamEnd
    PROVE  TypeOK'
<1>1. PICK error \in {"PiExited", "SessionClosed"} : Stop(error)
  BY DEF RecvShutdown, StreamEnd
<1>2. outcome' \in Outcomes
  <2>1. outcome \in Outcomes /\ "PiExited" \in Results /\ error \in Results
    BY DEF TypeOK, Results
  <2>2. \A p \in Prompts : outcome[p] \in {"unsent", "waiting"} \cup Results
    BY <2>1 DEF Outcomes
  <2>3. outcome' = [p \in Prompts |->
                     IF p = pending.id \/ p \in Range(queue) THEN "PiExited"
                     ELSE IF PromptCmd(p) \in Range(cmds) THEN error
                     ELSE outcome[p]]
    BY <1>1 DEF Stop
  <2>4. QED
    BY <2>1, <2>2, <2>3 DEF Outcomes
<1>3. pending' \in Turns /\ recovery' \in Recoveries
  BY <1>1, ValueTypes DEF Stop
<1>4. /\ closed' \in {"no", "SessionClosed", "PiExited"}
      /\ cmds' \in Seq(Commands) /\ queue' \in Seq(Prompts)
      /\ events' \in Seq(Events) /\ stdin' \in Seq(Lines)
      /\ settleArmed' \in BOOLEAN /\ piUp' \in BOOLEAN
      /\ piRun' \in Prompts \cup {None}
  BY <1>1, NoneIsASeq DEF Stop
<1>5. UNCHANGED <<cancels, flagged, blocked, cancelRequested, poisoned,
                  executing, shown, foreground, promptRpc, cancelAbort,
                  recoverAbort, piTools, ended, strayed>>
  BY <1>1 DEF Stop, shownVars, rpcVars
<1>6. QED
  BY <1>2, <1>3, <1>4, <1>5 DEF TypeOK

LEMMA RequestSteps ==
    ASSUME TypeOK,
           \/ \E p \in Prompts : WritePrompt(p)
           \/ WriteAbort
           \/ \E p \in Prompts : PromptRequestFails(p)
           \/ AbortRequestFails
    PROVE  TypeOK'
<1> USE DEF clientVars, turnVars, shownVars, piVars
<1>1. ASSUME NEW p \in Prompts, WritePrompt(p) PROVE TypeOK'
  <2>1. promptRpc' \in PromptRpcs
    BY <1>1 DEF WritePrompt, TypeOK, PromptRpcs, RpcState
  <2>2. stdin' \in Seq(Lines)
    BY <1>1, LineTypes DEF WritePrompt, TypeOK
  <2>3. QED
    BY <1>1, <2>1, <2>2 DEF WritePrompt, TypeOK
<1>2. CASE WriteAbort
  <2>1. CASE /\ cancelAbort.state = "writing"
             /\ cancelAbort' = [cancelAbort EXCEPT !.state = "awaiting"]
             /\ stdin' = Append(stdin, CancelLine(cancelAbort.turn))
             /\ UNCHANGED recoverAbort
    <3>1. cancelAbort' \in Aborts /\ cancelAbort.turn \in Prompts \cup {None}
      BY <2>1 DEF TypeOK, Aborts, RpcState
    <3>2. CancelLine(cancelAbort.turn) \in Lines
      BY <3>1 DEF CancelLine, Lines
    <3>3. stdin' \in Seq(Lines)
      BY <2>1, <3>2 DEF TypeOK
    <3>4. QED
      BY <1>2, <2>1, <3>1, <3>3 DEF WriteAbort, TypeOK
  <2>2. CASE /\ recoverAbort.state = "writing"
             /\ recoverAbort' = [recoverAbort EXCEPT !.state = "awaiting"]
             /\ stdin' = Append(stdin, RecoverLine(recoverAbort.turn))
             /\ UNCHANGED cancelAbort
    <3>1. recoverAbort' \in Aborts /\ recoverAbort.turn \in Prompts \cup {None}
      BY <2>2 DEF TypeOK, Aborts, RpcState
    <3>2. RecoverLine(recoverAbort.turn) \in Lines
      BY <3>1 DEF RecoverLine, Lines
    <3>3. stdin' \in Seq(Lines)
      BY <2>2, <3>2 DEF TypeOK
    <3>4. QED
      BY <1>2, <2>2, <3>1, <3>3 DEF WriteAbort, TypeOK
  <2>3. QED
    BY <1>2, <2>1, <2>2 DEF WriteAbort
<1>3. ASSUME NEW p \in Prompts, PromptRequestFails(p) PROVE TypeOK'
  <2>1. promptRpc' \in PromptRpcs
    BY <1>3 DEF PromptRequestFails, TypeOK, PromptRpcs, RpcState
  <2>2. QED
    BY <1>3, <2>1 DEF PromptRequestFails, TypeOK
<1>4. CASE AbortRequestFails
  <2>1. cancelAbort' \in Aborts /\ recoverAbort' \in Aborts
    BY <1>4 DEF AbortRequestFails, TypeOK, Aborts, RpcState
  <2>2. QED
    BY <1>4, <2>1 DEF AbortRequestFails, TypeOK
<1>5. QED
  BY <1>1, <1>2, <1>3, <1>4

LEMMA PiSteps ==
    ASSUME TypeOK,
           \/ \E p \in Prompts : \/ PiTakesPrompt(p)
                                 \/ PiAnswersPrompt(p)
                                 \/ PiTakesAbort(p)
           \/ PiSettles
           \/ \E t \in Tools : PiStartsTool(t) \/ PiEndsTool(t)
           \/ PiExits
    PROVE  TypeOK'
<1> USE DEF clientVars, turnVars, shownVars
<1>1. ASSUME NEW p \in Prompts, PiTakesPrompt(p) PROVE TypeOK'
  <2>1. stdin' \in Seq(Lines)
    BY <1>1 DEF PiTakesPrompt, NextLine, TypeOK
  <2>2. promptRpc' \in PromptRpcs
    <3>1. PICK r \in {"ok", "err", "later"} :
            promptRpc' = IF promptRpc[p] = "awaiting" /\ r # "later"
                         THEN [promptRpc EXCEPT ![p] = r] ELSE promptRpc
      BY <1>1 DEF PiTakesPrompt
    <3>2. QED
      BY <3>1 DEF TypeOK, PromptRpcs, RpcState
  <2>3. piRun' \in Prompts \cup {None}
    BY <1>1 DEF PiTakesPrompt, TypeOK
  <2>4. QED
    BY <1>1, <2>1, <2>2, <2>3 DEF PiTakesPrompt, TypeOK
<1>2. ASSUME NEW p \in Prompts, PiAnswersPrompt(p) PROVE TypeOK'
  <2>1. promptRpc' \in PromptRpcs
    BY <1>2 DEF PiAnswersPrompt, TypeOK, PromptRpcs, RpcState
  <2>2. QED
    BY <1>2, <2>1 DEF PiAnswersPrompt, TypeOK, piVars
<1>3. ASSUME NEW p \in Prompts, PiTakesAbort(p) PROVE TypeOK'
  <2>1. stdin' \in Seq(Lines)
    <3>1. stdin # <<>> /\ stdin' = Tail(stdin)
      BY <1>3 DEF PiTakesAbort, NextLine
    <3>2. QED
      BY <3>1 DEF TypeOK
  <2>2. ASSUME NEW a \in Aborts, NEW r \in {"ok", "err"}
        PROVE  Answer(a, p, r) \in Aborts
    BY DEF Answer, Aborts, RpcState
  <2>3. cancelAbort' \in Aborts /\ recoverAbort' \in Aborts
    BY <1>3, <2>2 DEF PiTakesAbort, TypeOK
  <2>4. events' \in Seq(Events) /\ strayed' \in BOOLEAN
    <3>1. \/ UNCHANGED <<events, strayed>>
          \/ events' = Append(events, Settled(p)) /\ strayed' = TRUE
      BY <1>3 DEF PiTakesAbort
    <3>2. Settled(p) \in Events /\ events \in Seq(Events) /\ strayed \in BOOLEAN
      BY LineTypes DEF TypeOK
    <3>3. Append(events, Settled(p)) \in Seq(Events)
      BY <3>2
    <3>4. QED
      BY <3>1, <3>2, <3>3, Zenon
  <2>5. QED
    BY <1>3, <2>1, <2>3, <2>4 DEF PiTakesAbort, TypeOK
<1>4. CASE PiSettles
  <2>1. piRun \in Prompts
    BY <1>4 DEF PiSettles, TypeOK
  <2>2. events' \in Seq(Events)
    BY <1>4, <2>1, LineTypes DEF PiSettles, TypeOK
  <2>3. QED
    BY <1>4, <2>1, <2>2 DEF PiSettles, TypeOK, rpcVars
<1>5. ASSUME NEW t \in Tools, PiStartsTool(t) \/ PiEndsTool(t) PROVE TypeOK'
  <2>1. events' \in Seq(Events)
    <3>1. events' = Append(events, ToolStart(t)) \/ events' = Append(events, ToolEnd(t))
      BY <1>5 DEF PiStartsTool, PiEndsTool
    <3>2. ToolStart(t) \in Events /\ ToolEnd(t) \in Events
      BY ToolTypes
    <3>3. events \in Seq(Events)
      BY DEF TypeOK
    <3>4. QED
      BY <3>1, <3>2, <3>3
  <2>2. piTools' \in [Tools -> {"unused", "running", "ended"}]
    BY <1>5 DEF PiStartsTool, PiEndsTool, TypeOK
  <2>3. UNCHANGED <<clientVars, closed, blocked, turnVars, executing, shownVars,
                    rpcVars, stdin, piUp, piRun, ended, strayed>>
    BY <1>5 DEF PiStartsTool, PiEndsTool
  <2>4. QED
    BY <2>1, <2>2, <2>3 DEF TypeOK, rpcVars
<1>6. CASE PiExits
  <2>1. /\ stdin' = <<>> /\ piUp' = FALSE /\ piRun' = None
        /\ UNCHANGED <<clientVars, closed, blocked, turnVars, executing,
                       shownVars, rpcVars, events, piTools, ended, strayed>>
    BY <1>6 DEF PiExits
  <2>2. stdin' \in Seq(Lines)
    BY <2>1, NoneIsASeq
  <2>3. QED
    BY <2>1, <2>2 DEF TypeOK, rpcVars
<1>7. QED
  BY <1>1, <1>2, <1>3, <1>4, <1>5, <1>6

LEMMA StepType == TypeOK /\ [Next]_vars => TypeOK'
<1> SUFFICES ASSUME TypeOK, [Next]_vars PROVE TypeOK'
  OBVIOUS
<1>1. CASE Next
  BY <1>1, ClientSteps, CommandSteps, EventSteps, ResultSteps,
     SettleTimeoutStep, RecoverTimeoutStep, StopStep, RequestSteps, PiSteps
     DEF Next
<1>2. CASE UNCHANGED vars
  BY <1>2 DEF vars, clientVars, turnVars, shownVars, rpcVars, piVars, TypeOK
<1>3. QED
  BY <1>1, <1>2

\* The variables of the pump, its channels, its requests and pi keep their
\* types whatever the prompts, tools and bounds: no handler of the select!
\* leaves, for one, a settle deadline, a queue or a request slot in a shape
\* the next handler cannot read.
THEOREM TypeCorrect == Spec => []TypeOK
<1>1. QED
  BY InitType, StepType, PTL DEF Spec

-----------------------------------------------------------------------------
(* The control invariant: which turn, queue, recovery, deadline and abort  *)
(* go together between two handlers.  RetiredIsQuiet is not inductive: a   *)
(* failed abort retires the session only while a turn is pending, and that *)
(* takes HeldByItsTurn; the abort slot takes RetiredIsQuiet in its turn.   *)

PendingIsNamed == pending.id = None => pending = NoTurn
HeldByItsTurn == blocked # "no" => Live /\ pending # NoTurn

ControlInv ==
    /\ PendingIsNamed
    /\ HeldByItsTurn
    /\ RetiredIsQuiet
    /\ NoStrandedPrompt
    /\ AbortResultIsCurrent
    /\ ShownQueueIsCurrent

\* What most handlers leave alone.
controlVars == <<closed, blocked, turnVars, shown, recoverAbort>>

LEMMA ControlUnchanged == ControlInv /\ UNCHANGED controlVars => ControlInv'
BY DEF ControlInv, controlVars, PendingIsNamed, HeldByItsTurn, RetiredIsQuiet,
       NoStrandedPrompt, AbortResultIsCurrent, ShownQueueIsCurrent, Live,
       turnVars

LEMMA FreshIsATurn ==
    \A p \in Prompts : Fresh(p) # NoTurn /\ Fresh(p).id # None /\ Fresh(p).id = p
BY PumpAssumption DEF Fresh, NoTurn

LEMMA InitControl == Init => ControlInv
<1> SUFFICES ASSUME Init PROVE ControlInv
  OBVIOUS
<1>1. /\ blocked = "no" /\ pending = NoTurn /\ queue = <<>>
      /\ ~poisoned /\ recoverAbort = NoAbort
      /\ shown = [depth |-> 0, running |-> FALSE]
  BY DEF Init
<1>2. ~recovery.on
  BY DEF Init, NoRecovery
<1>3. QED
  BY <1>1, <1>2 DEF ControlInv, PendingIsNamed, HeldByItsTurn, RetiredIsQuiet,
     NoStrandedPrompt, AbortResultIsCurrent, ShownQueueIsCurrent

\* Whatever ends a turn leaves the queue, the turn and the published status in
\* agreement.
Agreed(turn, q, status) ==
    /\ turn.id = None => turn = NoTurn
    /\ q # <<>> => turn # NoTurn
    /\ status = [depth |-> Len(q), running |-> turn # NoTurn]

LEMMA StartTurnAgrees ==
    ASSUME NEW p \in Prompts, NEW rest, NEW rpc, StartTurn(p, rest, rpc)
    PROVE  Agreed(pending', queue', shown') /\ pending' # NoTurn
<1>1. pending' = Fresh(p) /\ queue' = rest /\ shown' = Depth(rest, TRUE)
  BY DEF StartTurn
<1>2. QED
  BY <1>1, FreshIsATurn DEF Agreed, Depth

LEMMA StartNextAgrees ==
    ASSUME queue \in Seq(Prompts), NEW rpc, NEW idle, StartNext(rpc, idle)
    PROVE  Agreed(pending', queue', shown')
<1>1. CASE queue = <<>>
  <2>1. pending' = NoTurn /\ queue' = <<>> /\ shown' = Depth(<<>>, FALSE)
    BY <1>1 DEF StartNext
  <2>2. QED
    BY <2>1 DEF Agreed, Depth
<1>2. CASE queue # <<>>
  <2>1. Head(queue) \in Prompts /\ StartTurn(Head(queue), Tail(queue), rpc)
    BY <1>2 DEF StartNext
  <2>2. QED
    BY <2>1, StartTurnAgrees
<1>3. QED
  BY <1>1, <1>2

LEMMA RetireAgrees ==
    ASSUME NEW r, Retire(r)
    PROVE  /\ Agreed(pending', queue', shown')
           /\ poisoned' = TRUE /\ pending' = NoTurn /\ queue' = <<>>
<1>1. /\ pending' = NoTurn /\ queue' = <<>> /\ shown' = Depth(<<>>, FALSE)
      /\ poisoned' = TRUE
  BY DEF Retire
<1>2. QED
  BY <1>1 DEF Agreed, Depth

LEMMA RecvPromptControl ==
    ASSUME TypeOK, ControlInv, NEW p \in Prompts, RecvPrompt(p)
    PROVE  ControlInv'
<1>1. closed = "no" /\ blocked = "no" /\ UNCHANGED <<closed, blocked, recoverAbort>>
  BY DEF RecvPrompt, Listening
<1>2. CASE poisoned
  <2>1. UNCHANGED <<turnVars, shownVars>>
    BY <1>2 DEF RecvPrompt
  <2>2. QED
    BY <1>1, <2>1, ControlUnchanged DEF controlVars, shownVars
<1>3. CASE ~poisoned /\ (pending # NoTurn \/ recovery.on)
  <2>1. /\ queue' = Append(queue, p)
        /\ shown' = [depth |-> Len(queue'), running |-> pending # NoTurn]
        /\ UNCHANGED <<pending, poisoned, recovery, settleArmed>>
    BY <1>3 DEF RecvPrompt, Depth
  <2>2. QED
    BY <1>1, <1>3, <2>1
       DEF ControlInv, PendingIsNamed, HeldByItsTurn, RetiredIsQuiet,
           NoStrandedPrompt, AbortResultIsCurrent, ShownQueueIsCurrent, Live
<1>4. CASE ~poisoned /\ pending = NoTurn /\ ~recovery.on
  <2>1. StartTurn(p, queue, promptRpc) /\ UNCHANGED <<poisoned, recovery, settleArmed>>
    BY <1>4 DEF RecvPrompt
  <2>2. Agreed(pending', queue', shown') /\ pending' # NoTurn
    BY <2>1, StartTurnAgrees
  <2>3. QED
    BY <1>1, <1>4, <2>1, <2>2
       DEF ControlInv, PendingIsNamed, HeldByItsTurn, RetiredIsQuiet,
           NoStrandedPrompt, AbortResultIsCurrent, ShownQueueIsCurrent, Live,
           Agreed
<1>5. QED
  BY <1>2, <1>3, <1>4

LEMMA CancelControl ==
    ASSUME TypeOK, ControlInv, RecvCancel \/ RequestAbort
    PROVE  ControlInv'
<1>1. CASE RecvCancel
  <2>1. closed = "no" /\ blocked = "no" /\ UNCHANGED <<closed, recoverAbort>>
    BY <1>1 DEF RecvCancel, Listening, rpcVars
  <2>2. CASE poisoned
    BY <1>1, <2>1, <2>2, ControlUnchanged DEF RecvCancel, controlVars
  <2>3. CASE ~poisoned
    <3>1. /\ blocked' = IF pending = NoTurn THEN "no" ELSE "write"
          /\ queue' = <<>>
          /\ shown' = IF queue = <<>> THEN shown ELSE Depth(<<>>, pending # NoTurn)
          /\ UNCHANGED <<pending, poisoned, recovery, settleArmed>>
      BY <1>1, <2>3 DEF RecvCancel
    <3>2. shown' = [depth |-> Len(queue'), running |-> pending' # NoTurn]
      BY <2>1, <3>1 DEF Depth, ControlInv, ShownQueueIsCurrent, Live
    <3>3. QED
      BY <2>1, <3>1, <3>2
         DEF ControlInv, PendingIsNamed, HeldByItsTurn, RetiredIsQuiet,
             NoStrandedPrompt, AbortResultIsCurrent, ShownQueueIsCurrent, Live
  <2>4. QED
    BY <2>2, <2>3
<1>2. CASE RequestAbort
  <2>1. blocked = "write" /\ UNCHANGED <<closed, turnVars, shown, recoverAbort>>
    BY <1>2 DEF RequestAbort, shownVars
  <2>2. QED
    BY <2>1 DEF ControlInv, PendingIsNamed, HeldByItsTurn, RetiredIsQuiet,
        NoStrandedPrompt, AbortResultIsCurrent, ShownQueueIsCurrent, Live,
        turnVars
<1>3. QED
  BY <1>1, <1>2

\* How a handler that ends or starts a turn restores the invariant: what it
\* leaves is in agreement, and the recovery and its abort fit together.
LEMMA AgreedControl ==
    ASSUME Agreed(pending', queue', shown'),
           blocked' = "no",
           poisoned' => pending' = NoTurn /\ ~settleArmed' /\ ~recovery.on',
           recovery.on' => pending' = NoTurn /\ ~settleArmed',
           ~poisoned' /\ Live' =>
               (recoverAbort' # NoAbort <=> recovery.on' /\ ~recovery.aborted')
    PROVE  ControlInv'
BY DEF Agreed, ControlInv, PendingIsNamed, HeldByItsTurn, RetiredIsQuiet,
       NoStrandedPrompt, AbortResultIsCurrent, ShownQueueIsCurrent

LEMMA AbortAnsweredControl ==
    ASSUME TypeOK, ControlInv, AbortAnswered
    PROVE  ControlInv'
<1>1. /\ closed = "no" /\ pending # NoTurn /\ ~poisoned /\ ~recovery.on
      /\ blocked' = "no" /\ UNCHANGED <<closed, recoverAbort>>
  BY DEF AbortAnswered, ControlInv, HeldByItsTurn, RetiredIsQuiet
<1>2. CASE cancelAbort.state = "ok"
  <2>1. UNCHANGED <<turnVars, shown>>
    BY <1>2 DEF AbortAnswered
  <2>2. QED
    BY <1>1, <2>1 DEF ControlInv, PendingIsNamed, HeldByItsTurn,
       RetiredIsQuiet, NoStrandedPrompt, AbortResultIsCurrent,
       ShownQueueIsCurrent, Live, turnVars
<1>3. CASE cancelAbort.state = "err"
  <2>1. Retire("SessionClosed") /\ settleArmed' = FALSE /\ UNCHANGED recovery
    BY <1>3 DEF AbortAnswered
  <2>2. QED
    BY <1>1, <2>1, RetireAgrees, AgreedControl DEF Live
<1>4. QED
  BY <1>2, <1>3 DEF AbortAnswered

LEMMA FinishRecoveryControl ==
    ASSUME TypeOK, ControlInv, recovery.on, blocked' = "no", UNCHANGED closed,
           NEW a \in BOOLEAN, NEW b \in BOOLEAN,
           FinishRecoveryIfConfirmed([recovery EXCEPT !.aborted = a,
                                                      !.settled = b]),
           Live => (recoverAbort' # NoAbort <=> ~a)
    PROVE  ControlInv'
<1> DEFINE rec == [recovery EXCEPT !.aborted = a, !.settled = b]
<1>1. rec.on /\ rec.aborted = a /\ rec.settled = b
  BY DEF TypeOK, Recoveries
<1>2. /\ ~poisoned /\ pending = NoTurn /\ ~settleArmed
      /\ UNCHANGED <<poisoned, settleArmed>>
  BY DEF FinishRecoveryIfConfirmed, ControlInv, RetiredIsQuiet
<1> HIDE DEF rec
<1>3. CASE a /\ b
  <2>1. StartNext(promptRpc, foreground) /\ recovery' = NoRecovery
    BY <1>1, <1>3 DEF FinishRecoveryIfConfirmed, rec
  <2>2. Agreed(pending', queue', shown')
    BY <2>1, StartNextAgrees DEF TypeOK
  <2>3. ~recovery.on'
    BY <2>1 DEF NoRecovery
  <2>4. QED
    BY <1>2, <1>3, <2>2, <2>3, AgreedControl DEF Live
<1>4. CASE ~(a /\ b)
  <2>1. recovery' = rec /\ UNCHANGED <<queue, pending, shown>>
    BY <1>1, <1>4 DEF FinishRecoveryIfConfirmed, rec
  <2>2. recovery.on' /\ recovery.aborted' = a
    BY <1>1, <2>1
  <2>3. QED
    BY <1>2, <2>1, <2>2 DEF ControlInv, PendingIsNamed, HeldByItsTurn,
       RetiredIsQuiet, NoStrandedPrompt, AbortResultIsCurrent,
       ShownQueueIsCurrent, Live
<1>5. QED
  BY <1>3, <1>4

LEMMA PoisonControl ==
    ASSUME ControlInv, recovery.on, PoisonRecovery, blocked' = "no"
    PROVE  ControlInv'
<1>1. /\ Retire("SessionClosed") /\ recovery' = NoRecovery
      /\ UNCHANGED settleArmed
  BY DEF PoisonRecovery
<1>2. ~settleArmed' /\ ~recovery.on'
  BY <1>1 DEF ControlInv, RetiredIsQuiet, NoRecovery
<1>3. QED
  BY <1>1, <1>2, RetireAgrees, AgreedControl

LEMMA RecvSettledControl ==
    ASSUME TypeOK, ControlInv, NEW p \in Prompts, RecvSettled(p)
    PROVE  ControlInv'
<1>1. /\ closed = "no" /\ blocked' = "no"
      /\ UNCHANGED <<closed, blocked, recoverAbort>>
  BY DEF RecvSettled, Listening
<1>2. CASE pending = NoTurn /\ recovery.on
  <2>1. FinishRecoveryIfConfirmed([recovery EXCEPT !.settled = TRUE])
    BY <1>2 DEF RecvSettled
  <2>2. [recovery EXCEPT !.settled = TRUE]
        = [recovery EXCEPT !.aborted = recovery.aborted, !.settled = TRUE]
    BY DEF TypeOK, Recoveries
  <2>3. recovery.aborted \in BOOLEAN
    BY DEF TypeOK, Recoveries
  <2>4. ~poisoned /\ (recoverAbort' # NoAbort <=> ~recovery.aborted)
    BY <1>1, <1>2 DEF ControlInv, RetiredIsQuiet, AbortResultIsCurrent, Live
  <2>5. QED
    BY <1>1, <1>2, <2>1, <2>2, <2>3, <2>4, FinishRecoveryControl
<1>3. CASE pending # NoTurn /\ ~pending.accepted /\ ~cancelRequested
  <2>1. pending' = [pending EXCEPT !.settledEarly = TRUE]
        /\ UNCHANGED <<queue, poisoned, recovery, settleArmed, shown>>
    BY <1>3 DEF RecvSettled, shownVars
  <2>2. pending'.id = pending.id /\ pending.id # None
    BY <1>3, <2>1 DEF TypeOK, Turns, ControlInv, PendingIsNamed
  <2>3. pending' # NoTurn
    BY <2>2 DEF NoTurn
  <2>4. QED
    BY <1>1, <1>3, <2>1, <2>2, <2>3 DEF ControlInv, PendingIsNamed,
       HeldByItsTurn, RetiredIsQuiet, NoStrandedPrompt, AbortResultIsCurrent,
       ShownQueueIsCurrent, Live
<1>4. CASE pending = NoTurn /\ ~recovery.on
  <2>1. UNCHANGED <<turnVars, shown>>
    BY <1>4 DEF RecvSettled, turnVars, shownVars
  <2>2. QED
    BY <1>1, <2>1, ControlUnchanged DEF controlVars
<1>5. CASE pending # NoTurn /\ (pending.accepted \/ cancelRequested)
  <2>1. StartNext(promptRpc, "Idle") /\ settleArmed' = FALSE
        /\ UNCHANGED <<poisoned, recovery>>
    BY <1>5 DEF RecvSettled, SettlePendingTurn
  <2>2. ~poisoned /\ ~recovery.on
    BY <1>5 DEF ControlInv, RetiredIsQuiet
  <2>3. Agreed(pending', queue', shown')
    BY <2>1, StartNextAgrees DEF TypeOK
  <2>4. Live => recoverAbort' = NoAbort
    BY <1>1, <2>2 DEF ControlInv, AbortResultIsCurrent
  <2>5. QED
    BY <1>1, <2>1, <2>2, <2>3, <2>4, AgreedControl DEF Live
<1>6. QED
  BY <1>2, <1>3, <1>4, <1>5

LEMMA RecvPromptResultControl ==
    ASSUME TypeOK, ControlInv, NEW p \in Prompts, RecvPromptResult(p)
    PROVE  ControlInv'
<1> DEFINE received == [promptRpc EXCEPT ![p] = "none"]
<1>1. /\ closed = "no" /\ blocked' = "no"
      /\ UNCHANGED <<closed, blocked, recoverAbort>>
  BY DEF RecvPromptResult, Listening
<1>2. CASE pending.id # p
  <2>1. UNCHANGED <<turnVars, shown>>
    BY <1>2 DEF RecvPromptResult, shownVars
  <2>2. QED
    BY <1>1, <2>1, ControlUnchanged DEF controlVars
<1>3. ASSUME pending.id = p
      PROVE  /\ pending # NoTurn /\ ~poisoned /\ ~recovery.on
             /\ recoverAbort' = NoAbort
  <2>1. pending # NoTurn
    BY <1>3, PumpAssumption DEF NoTurn
  <2>2. QED
    BY <1>1, <2>1 DEF ControlInv, RetiredIsQuiet, AbortResultIsCurrent, Live
<1>4. CASE /\ pending.id = p /\ promptRpc[p] = "ok"
           /\ p \in flagged \/ pending.settledEarly
  <2>1. StartNext(received, "Idle") /\ settleArmed' = FALSE
        /\ UNCHANGED <<poisoned, recovery>>
    BY <1>4 DEF RecvPromptResult, SettlePendingTurn
  <2>2. Agreed(pending', queue', shown')
    BY <2>1, StartNextAgrees DEF TypeOK
  <2>3. QED
    BY <1>1, <1>3, <1>4, <2>1, <2>2, AgreedControl
<1>5. CASE /\ pending.id = p /\ promptRpc[p] = "ok"
           /\ p \notin flagged /\ ~pending.settledEarly
  <2>1. pending' = [pending EXCEPT !.accepted = TRUE]
        /\ UNCHANGED <<queue, poisoned, recovery, shown>>
    BY <1>5 DEF RecvPromptResult, shownVars
  <2>2. pending'.id = p
    BY <1>5, <2>1 DEF TypeOK, Turns
  <2>3. pending' # NoTurn /\ pending'.id # None
    BY <2>2, PumpAssumption DEF NoTurn
  <2>4. QED
    BY <1>1, <1>3, <1>5, <2>1, <2>3 DEF ControlInv, PendingIsNamed,
       HeldByItsTurn, RetiredIsQuiet, NoStrandedPrompt, AbortResultIsCurrent,
       ShownQueueIsCurrent, Live
<1>6. CASE pending.id = p /\ promptRpc[p] = "err"
  <2>1. Retire("Rejected") /\ settleArmed' = FALSE /\ UNCHANGED recovery
    BY <1>6 DEF RecvPromptResult
  <2>2. QED
    BY <1>1, <1>3, <1>6, <2>1, RetireAgrees, AgreedControl
<1>7. QED
  BY <1>2, <1>4, <1>5, <1>6 DEF RecvPromptResult

LEMMA SettleTimeoutControl ==
    ASSUME TypeOK, ControlInv, SettleTimeout
    PROVE  ControlInv'
<1>1. /\ closed = "no" /\ blocked' = "no" /\ settleArmed' = FALSE
      /\ UNCHANGED <<closed, blocked, poisoned>>
  BY DEF SettleTimeout, Listening
<1>2. CASE pending = NoTurn
  <2>1. UNCHANGED <<queue, pending, recovery, shown, recoverAbort>>
    BY <1>2 DEF SettleTimeout
  <2>2. QED
    BY <1>1, <1>2, <2>1 DEF ControlInv, PendingIsNamed, HeldByItsTurn,
       RetiredIsQuiet, NoStrandedPrompt, AbortResultIsCurrent,
       ShownQueueIsCurrent, Live
<1>3. CASE pending # NoTurn
  <2>1. ~poisoned /\ recoverAbort = NoAbort
    BY <1>1, <1>3 DEF ControlInv, RetiredIsQuiet, AbortResultIsCurrent, Live
  <2>2. /\ pending' = NoTurn
        /\ recovery' = [on |-> TRUE, aborted |-> cancelRequested,
                        settled |-> FALSE]
        /\ shown' = [depth |-> Len(queue'), running |-> FALSE]
    BY <1>3 DEF SettleTimeout, Depth
  <2>3. \/ cancelRequested /\ recoverAbort' = NoAbort
        \/ ~cancelRequested /\ recoverAbort' = [state |-> "writing",
                                                turn |-> pending.id]
    BY <1>3, <2>1 DEF SettleTimeout
  <2>4. recoverAbort' # NoAbort <=> ~cancelRequested
    <3>1. [state |-> "writing", turn |-> pending.id].state # NoAbort.state
      BY DEF NoAbort
    <3>2. QED
      BY <2>3, <3>1
  <2>5. recovery.on' /\ (recovery.aborted' <=> cancelRequested)
    BY <2>2 DEF TypeOK
  <2>6. QED
    BY <1>1, <2>1, <2>2, <2>4, <2>5 DEF ControlInv, PendingIsNamed,
       HeldByItsTurn, RetiredIsQuiet, NoStrandedPrompt, AbortResultIsCurrent,
       ShownQueueIsCurrent, Live
<1>4. QED
  BY <1>2, <1>3

LEMMA RecvRecoverAbortControl ==
    ASSUME TypeOK, ControlInv, RecvRecoverAbort
    PROVE  ControlInv'
<1>1. /\ closed = "no" /\ blocked' = "no" /\ recoverAbort' = NoAbort
      /\ UNCHANGED <<closed, blocked>>
  BY DEF RecvRecoverAbort, Listening
<1>2. CASE ~recovery.on
  <2>1. UNCHANGED <<turnVars, shown>>
    BY <1>2 DEF RecvRecoverAbort, shownVars
  <2>2. QED
    BY <1>1, <1>2, <2>1 DEF ControlInv, PendingIsNamed, HeldByItsTurn,
       RetiredIsQuiet, NoStrandedPrompt, AbortResultIsCurrent,
       ShownQueueIsCurrent, Live, turnVars
<1>3. CASE recovery.on /\ recoverAbort.state = "ok"
  <2>1. FinishRecoveryIfConfirmed([recovery EXCEPT !.aborted = TRUE])
    BY <1>3 DEF RecvRecoverAbort
  <2>2. /\ recovery.settled \in BOOLEAN
        /\ [recovery EXCEPT !.aborted = TRUE]
           = [recovery EXCEPT !.aborted = TRUE, !.settled = recovery.settled]
    BY DEF TypeOK, Recoveries
  <2>3. QED
    BY <1>1, <1>3, <2>1, <2>2, FinishRecoveryControl
<1>4. CASE recovery.on /\ recoverAbort.state = "err"
  <2>1. PoisonRecovery
    BY <1>4 DEF RecvRecoverAbort
  <2>2. QED
    BY <1>1, <1>4, <2>1, PoisonControl
<1>5. QED
  BY <1>2, <1>3, <1>4 DEF RecvRecoverAbort

LEMMA RecoverTimeoutControl ==
    ASSUME TypeOK, ControlInv, RecoverTimeout
    PROVE  ControlInv'
<1> DEFINE a == recovery.aborted \/ recoverAbort.state = "ok"
           b == recovery.settled \/ \E e \in Range(events) : e.kind = "settled"
           seen == [recovery EXCEPT !.aborted = a, !.settled = b]
<1>1. /\ closed = "no" /\ blocked' = "no" /\ recovery.on
      /\ UNCHANGED <<closed, blocked>>
  BY DEF RecoverTimeout, Listening
<1>2. /\ a \in BOOLEAN /\ b \in BOOLEAN
      /\ seen = [recovery EXCEPT !.aborted = a,
                   !.settled = @ \/ \E e \in Range(events) : e.kind = "settled"]
      /\ seen.aborted = a /\ seen.settled = b
  BY DEF TypeOK, Recoveries
<1>3. \/ /\ recoverAbort.state # "err" /\ a /\ b
         /\ FinishRecoveryIfConfirmed(seen)
      \/ PoisonRecovery
  BY <1>2 DEF RecoverTimeout
<1> HIDE DEF b
<1>4. CASE /\ recoverAbort.state # "err" /\ a /\ b
           /\ FinishRecoveryIfConfirmed(seen)
  <2>1. ~poisoned /\ (recoverAbort # NoAbort <=> ~recovery.aborted)
    BY <1>1 DEF ControlInv, RetiredIsQuiet, AbortResultIsCurrent, Live
  <2>2. recoverAbort' = NoAbort
    <3>1. recoverAbort' = IF recoverAbort.state \in {"ok", "err"} THEN NoAbort
                          ELSE recoverAbort
      BY DEF RecoverTimeout
    <3>2. QED
      BY <1>4, <2>1, <3>1
  <2> HIDE DEF a
  <2>3. QED
    BY <1>1, <1>2, <1>4, <2>2, FinishRecoveryControl
<1>5. CASE PoisonRecovery
  BY <1>1, <1>5, PoisonControl
<1>6. QED
  BY <1>3, <1>4, <1>5

LEMMA StopControl ==
    ASSUME TypeOK, ControlInv, RecvShutdown \/ StreamEnd
    PROVE  ControlInv'
<1>1. PICK error \in {"PiExited", "SessionClosed"} : Stop(error)
  BY DEF RecvShutdown, StreamEnd
<1>2. /\ closed' # "no" /\ pending' = NoTurn /\ queue' = <<>>
      /\ settleArmed' = FALSE /\ recovery' = NoRecovery
      /\ UNCHANGED <<blocked, shown, recoverAbort, poisoned>>
  BY <1>1 DEF Stop, shownVars, rpcVars
<1>3. blocked' = "no"
  BY <1>2 DEF RecvShutdown, StreamEnd, Listening
<1>4. ~recovery.on'
  BY <1>2 DEF NoRecovery
<1>5. QED
  BY <1>2, <1>3, <1>4 DEF ControlInv, PendingIsNamed, HeldByItsTurn,
     RetiredIsQuiet, NoStrandedPrompt, AbortResultIsCurrent,
     ShownQueueIsCurrent, Live

\* The abort of a recovery stays in its slot until the pump takes its result.
LEMMA AbortSlotControl ==
    ASSUME TypeOK, ControlInv,
           WriteAbort \/ AbortRequestFails \/ \E p \in Prompts : PiTakesAbort(p)
    PROVE  ControlInv'
<1>1. UNCHANGED <<closed, blocked, turnVars, shown>>
  BY DEF WriteAbort, AbortRequestFails, PiTakesAbort, shownVars
<1>2. recoverAbort' # NoAbort <=> recoverAbort # NoAbort
  <2>1. ASSUME NEW s \in RpcState, recoverAbort.state # "none", s # "none",
               recoverAbort' = [recoverAbort EXCEPT !.state = s]
        PROVE  recoverAbort' # NoAbort /\ recoverAbort # NoAbort
    <3>1. recoverAbort.state # NoAbort.state /\ recoverAbort'.state # NoAbort.state
      BY <2>1 DEF NoAbort, TypeOK, Aborts
    <3>2. QED
      BY <3>1
  <2>2. CASE WriteAbort \/ AbortRequestFails
    <3>1. \/ UNCHANGED recoverAbort
          \/ /\ recoverAbort.state # "none"
             /\ \/ recoverAbort' = [recoverAbort EXCEPT !.state = "awaiting"]
                \/ recoverAbort' = [recoverAbort EXCEPT !.state = "err"]
      BY <2>2 DEF WriteAbort, AbortRequestFails, InFlight
    <3>2. QED
      BY <2>1, <3>1 DEF RpcState
  <2>3. CASE \E p \in Prompts : PiTakesAbort(p)
    <3>1. \/ UNCHANGED recoverAbort
          \/ \E p \in Prompts, r \in {"ok", "err"} :
               recoverAbort' = Answer(recoverAbort, p, r)
      BY <2>3 DEF PiTakesAbort
    <3>2. \/ UNCHANGED recoverAbort
          \/ /\ recoverAbort.state # "none"
             /\ \/ recoverAbort' = [recoverAbort EXCEPT !.state = "ok"]
                \/ recoverAbort' = [recoverAbort EXCEPT !.state = "err"]
      BY <3>1 DEF Answer
    <3>3. QED
      BY <2>1, <3>2 DEF RpcState
  <2>4. QED
    BY <2>2, <2>3
<1>3. QED
  BY <1>1, <1>2 DEF ControlInv, PendingIsNamed, HeldByItsTurn,
     RetiredIsQuiet, NoStrandedPrompt, AbortResultIsCurrent,
     ShownQueueIsCurrent, Live, turnVars

LEMMA OtherControl ==
    ASSUME TypeOK, ControlInv,
           \/ \E p \in Prompts, flag \in BOOLEAN : Submit(p, flag)
           \/ Cancel \/ Dispose
           \/ \E t \in Tools : RecvToolEvent(t)
           \/ \E p \in Prompts : \/ WritePrompt(p) \/ PromptRequestFails(p)
                                 \/ PiTakesPrompt(p) \/ PiAnswersPrompt(p)
           \/ PiSettles
           \/ \E t \in Tools : PiStartsTool(t) \/ PiEndsTool(t)
           \/ PiExits
    PROVE  ControlInv'
<1>1. UNCHANGED controlVars
  BY DEF Submit, Cancel, Dispose, RecvToolEvent, WritePrompt,
     PromptRequestFails, PiTakesPrompt, PiAnswersPrompt, PiSettles,
     PiStartsTool, PiEndsTool, PiExits, controlVars, shownVars, rpcVars
<1>2. QED
  BY <1>1, ControlUnchanged

LEMMA StepControl == TypeOK /\ ControlInv /\ [Next]_vars => ControlInv'
<1> SUFFICES ASSUME TypeOK, ControlInv, [Next]_vars PROVE ControlInv'
  OBVIOUS
<1>1. CASE Next
  BY <1>1, RecvPromptControl, CancelControl, AbortAnsweredControl,
     RecvSettledControl, RecvPromptResultControl, SettleTimeoutControl,
     RecvRecoverAbortControl, RecoverTimeoutControl, StopControl,
     AbortSlotControl, OtherControl
     DEF Next
<1>2. CASE UNCHANGED vars
  BY <1>2, ControlUnchanged DEF vars, controlVars, shownVars, rpcVars
<1>3. QED
  BY <1>1, <1>2

\* The control invariant holds in every reachable state.
THEOREM ControlHolds == Spec => []ControlInv
<1>1. Spec => []TypeOK
  BY TypeCorrect
<1>2. QED
  BY <1>1, InitControl, StepControl, PTL DEF Spec

\* A retired session runs and queues nothing and keeps no deadline, and a
\* recovering one has no turn (poison_recovery, the failed abort of on_cancel,
\* the rejected prompt of on_prompt_result).
THEOREM RetiredStaysQuiet == Spec => []RetiredIsQuiet
<1>1. ControlInv => RetiredIsQuiet
  BY DEF ControlInv
<1>2. QED
  BY <1>1, ControlHolds, PTL

\* No order of cancel, settle, timeout, failure and retirement leaves a prompt
\* queued with neither a turn nor a recovery ahead of it (on_prompt,
\* settle_pending_turn, finish_recovery_if_confirmed).
THEOREM NeverStranded == Spec => []NoStrandedPrompt
<1>1. ControlInv => NoStrandedPrompt
  BY DEF ControlInv
<1>2. QED
  BY <1>1, ControlHolds, PTL

\* The untagged result in the recovery channel always belongs to the recovery
\* that is running (on_recovery_abort_result).
THEOREM AbortResultBelongs == Spec => []AbortResultIsCurrent
<1>1. ControlInv => AbortResultIsCurrent
  BY DEF ControlInv
<1>2. QED
  BY <1>1, ControlHolds, PTL

\* The queue status clients were last sent is the queue's (emit_queue_depth).
THEOREM ShownStaysCurrent == Spec => []ShownQueueIsCurrent
<1>1. ControlInv => ShownQueueIsCurrent
  BY DEF ControlInv
<1>2. QED
  BY <1>1, ControlHolds, PTL

-----------------------------------------------------------------------------
(* The channel invariant: what is on its way between the pump and pi.      *)

\* The four places where a turn's request leaves its trace: the task that writes it,
\* the pipe, pi's agent loop (piRun) and the signal that the run has settled.
Writing == {p \in Prompts : promptRpc[p] = "writing"}
PromptLines == {i \in DOMAIN stdin : stdin[i].op = "prompt"}
Settles == {i \in DOMAIN events : events[i].kind = "settled"}
CancelLines == {i \in DOMAIN stdin : stdin[i].op = "cancelAbort"}
RecoverLines == {i \in DOMAIN stdin : stdin[i].op = "recoverAbort"}


Clean == Writing = {} /\ PromptLines = {} /\ piRun = None /\ Settles = {}

\* At most one trace is anywhere, whatever became of the turn it is of.
OneTrace ==
    /\ \A p, q \in Writing : p = q
    /\ \A i, j \in PromptLines : i = j
    /\ \A i, j \in Settles : i = j
    /\ Writing # {} => PromptLines = {} /\ piRun = None /\ Settles = {}
    /\ PromptLines # {} => piRun = None /\ Settles = {}
    /\ piRun # None => Settles = {}

\* Whatever is on its way is of turn q.
TraceOf(q) ==
    /\ Writing \subseteq {q}
    /\ \A i \in PromptLines : stdin[i].turn = q
    /\ piRun \in {None, q}
    /\ \A i \in Settles : events[i].of = q

\* The aborts that are written, or will be, are of the turn on its way.
AbortsMatch ==
    /\ \A i \in CancelLines \cup RecoverLines : TraceOf(stdin[i].turn)
    /\ cancelAbort.state = "writing" => TraceOf(cancelAbort.turn)
    /\ recoverAbort.state = "writing" => TraceOf(recoverAbort.turn)
    /\ blocked # "abort" => cancelAbort = NoAbort

\* While the session serves, its aborts are still awaited (or failed), the trace is
\* of the pending turn, and none is left when the next turn may start.
AbortsAwaited ==
    /\ \A i, j \in CancelLines : i = j
    /\ \A i, j \in RecoverLines : i = j
    /\ CancelLines # {} => cancelAbort.state \in {"awaiting", "err"}
    /\ RecoverLines # {} => recoverAbort.state \in {"awaiting", "err"}
Serving == Live /\ ~poisoned
ServesOneTurn ==
    /\ AbortsAwaited
    /\ pending = NoTurn /\ ~recovery.on => Clean
    /\ pending # NoTurn => TraceOf(pending.id)
    /\ recovery.on /\ recovery.settled => Clean

\* What an event, a run and an answer say of the prompt they are of.
RunsAreReal ==
    /\ \A i \in Settles : events[i].of \in ended \ ExtPrompts
    /\ piRun \notin ExtPrompts
    /\ \A i \in PromptLines : stdin[i].turn \in Prompts /\ promptRpc[stdin[i].turn] # "ok"
    /\ pending.settledEarly => Clean /\ pending.id \in ended

ChannelInv ==
    /\ OneTrace
    /\ AbortsMatch
    /\ Serving => ServesOneTurn
    /\ RunsAreReal

-----------------------------------------------------------------------------
(* How a channel moves under Tail and Append.                              *)

LEMMA EventsTail ==
    ASSUME TypeOK, events # <<>>, events' = Tail(events)
    PROVE  /\ \A i \in Settles' : i + 1 \in Settles /\ events'[i] = events[i + 1]
           /\ 1 \in Settles => \A i \in Settles' : i + 1 # 1
<1>1. events \in Seq(Events)
  BY DEF TypeOK
<1>2. /\ DOMAIN events = 1 .. Len(events) /\ DOMAIN events' = 1 .. (Len(events) - 1)
      /\ \A i \in DOMAIN events' : events'[i] = events[i + 1]
  BY <1>1
<1>3. QED
  BY <1>1, <1>2 DEF Settles

LEMMA EventsAppend ==
    ASSUME TypeOK, NEW e \in Events, events' = Append(events, e)
    PROVE  /\ \A i \in Settles : i \in Settles' /\ events'[i] = events[i]
           /\ \A i \in Settles' : \/ i \in Settles /\ events'[i] = events[i]
                                  \/ i = Len(events) + 1 /\ events'[i] = e
                                     /\ e.kind = "settled"
<1>1. events \in Seq(Events)
  BY DEF TypeOK
<1>2. /\ DOMAIN events = 1 .. Len(events) /\ DOMAIN events' = 1 .. (Len(events) + 1)
      /\ \A i \in DOMAIN events : events'[i] = events[i]
      /\ events'[Len(events) + 1] = e
  BY <1>1
<1>3. QED
  BY <1>1, <1>2 DEF Settles

LEMMA LinesTail ==
    ASSUME TypeOK, stdin # <<>>, stdin' = Tail(stdin)
    PROVE  /\ \A i \in DOMAIN stdin' : i + 1 \in DOMAIN stdin /\ stdin'[i] = stdin[i + 1]
           /\ \A i \in DOMAIN stdin' : i \in Nat /\ i + 1 # 1
           /\ 1 \in DOMAIN stdin /\ stdin[1] = Head(stdin)
<1>1. stdin \in Seq(Lines)
  BY DEF TypeOK
<1>2. /\ DOMAIN stdin = 1 .. Len(stdin) /\ DOMAIN stdin' = 1 .. (Len(stdin) - 1)
      /\ \A i \in DOMAIN stdin' : stdin'[i] = stdin[i + 1]
      /\ stdin[1] = Head(stdin) /\ 1 \in DOMAIN stdin
  BY <1>1
<1>3. QED
  BY <1>1, <1>2

LEMMA LinesAppend ==
    ASSUME TypeOK, NEW l \in Lines, stdin' = Append(stdin, l)
    PROVE  \A i \in DOMAIN stdin' : \/ i \in DOMAIN stdin /\ stdin'[i] = stdin[i]
                                    \/ i = Len(stdin) + 1 /\ stdin'[i] = l
<1>1. stdin \in Seq(Lines)
  BY DEF TypeOK
<1>2. QED
  BY <1>1

-----------------------------------------------------------------------------
(* Traces are never made but by the start of a turn: every other step      *)
(* leaves at most what was there, of the turn it was of.                   *)

Keeps == OneTrace' /\ (\A q : TraceOf(q) => TraceOf(q)') /\ (Clean => Clean')

Shrinks ==
    /\ Writing' \subseteq Writing
    /\ UNCHANGED <<stdin, piRun>>
    /\ \/ events' \in {events, <<>>}
       \/ events # <<>> /\ events' = Tail(events)

LEMMA ShrinkKeeps ==
    ASSUME TypeOK, ChannelInv, Shrinks
    PROVE  Keeps /\ \A i \in Settles' : \E j \in Settles : events'[i] = events[j]
<1>1. PromptLines' = PromptLines /\ piRun' = piRun /\ stdin' = stdin
      /\ Writing' \subseteq Writing
  BY DEF Shrinks, PromptLines
<1>2. \E k \in {0, 1} : \A i \in Settles' : i + k \in Settles /\ events'[i] = events[i + k]
                                            /\ i \in Int
  <2>1. CASE events' = events
    <3>1. Settles' = Settles /\ \A i \in Settles : i \in Int /\ i + 0 = i
      BY <2>1 DEF Settles, TypeOK
    <3>2. QED
      BY <2>1, <3>1
  <2>2. CASE events' = <<>>
    BY <2>2 DEF Settles
  <2>3. CASE events # <<>> /\ events' = Tail(events)
    <3>1. \A i \in Settles' : i \in Int
      BY <2>3 DEF Settles, TypeOK
    <3>2. QED
      BY <2>3, <3>1, EventsTail
  <2>4. QED
    BY <2>1, <2>2, <2>3 DEF Shrinks
<1>3. PICK k \in {0, 1} : \A i \in Settles' : i + k \in Settles /\ events'[i] = events[i + k]
                                              /\ i \in Int
  BY <1>2
<1>4. OneTrace'
  <2>1. \A i, j \in Settles' : i = j
    <3>1. \A i, j \in Settles : i = j
      BY DEF ChannelInv, OneTrace
    <3>2. ASSUME NEW i \in Settles', NEW j \in Settles' PROVE i = j
      <4>1. i + k = j + k
        BY <1>3, <3>1
      <4>2. i \in Int /\ j \in Int /\ k \in Int
        BY <1>3
      <4>3. QED
        BY <4>1, <4>2
    <3>3. QED
      BY <3>2
  <2>2. (\A i, j \in Writing' : i = j) /\ (\A i, j \in PromptLines' : i = j)
    BY <1>1 DEF ChannelInv, OneTrace
  <2>3. Settles = {} => Settles' = {}
    BY <1>3
  <2>4. QED
    BY <1>1, <2>1, <2>2, <2>3 DEF ChannelInv, OneTrace
<1>5. ASSUME NEW q, TraceOf(q) PROVE TraceOf(q)'
  <2>1. \A i \in Settles' : events'[i].of = q
    BY <1>3, <1>5 DEF TraceOf
  <2>2. QED
    BY <1>1, <1>5, <2>1 DEF TraceOf
<1>6. Clean => Clean'
  BY <1>1, <1>3 DEF Clean
<1>7. QED
  BY <1>3, <1>4, <1>5, <1>6 DEF Keeps

LEMMA SendKeeps ==
    ASSUME TypeOK, ChannelInv, \/ \E p \in Prompts : WritePrompt(p)
                               \/ WriteAbort
    PROVE  Keeps
<1>1. PICK l \in Lines : /\ stdin' = Append(stdin, l)
                         /\ \/ /\ l.op # "prompt"
                               /\ Writing' = Writing
                            \/ /\ l.op = "prompt" /\ l.turn \in Writing
                               /\ Writing' = Writing \ {l.turn}
  <2>1. ASSUME NEW p \in Prompts, WritePrompt(p)
        PROVE  /\ PromptLine(p) \in Lines /\ stdin' = Append(stdin, PromptLine(p))
               /\ PromptLine(p).op = "prompt" /\ PromptLine(p).turn = p
               /\ p \in Writing /\ Writing' = Writing \ {p}
    BY <2>1, LineTypes DEF WritePrompt, PromptLine, Writing, TypeOK, PromptRpcs
  <2>2. CASE WriteAbort
    <3>1. Writing' = Writing
      BY <2>2 DEF WriteAbort, Writing
    <3>2. \E q \in Prompts \cup {None} : \/ stdin' = Append(stdin, CancelLine(q))
                                         \/ stdin' = Append(stdin, RecoverLine(q))
      BY <2>2 DEF WriteAbort, TypeOK, Aborts
    <3>3. \A q \in Prompts \cup {None} :
             /\ CancelLine(q) \in Lines /\ CancelLine(q).op # "prompt"
             /\ RecoverLine(q) \in Lines /\ RecoverLine(q).op # "prompt"
      BY DEF CancelLine, RecoverLine, Lines
    <3>4. QED
      BY <3>1, <3>2, <3>3
  <2>3. QED
    BY <2>1, <2>2
<1>2. UNCHANGED <<piRun, events>> /\ Settles' = Settles
  BY DEF WritePrompt, WriteAbort, piVars, Settles
<1>3. \A i \in PromptLines' : \/ i \in PromptLines /\ stdin'[i] = stdin[i]
                              \/ i = Len(stdin) + 1 /\ stdin'[i] = l /\ l.op = "prompt"
  BY <1>1, LinesAppend DEF PromptLines
<1>4. CASE l.op # "prompt"
  <2>1. Writing' = Writing /\ PromptLines' \subseteq PromptLines
        /\ \A i \in PromptLines' : stdin'[i] = stdin[i]
    BY <1>1, <1>3, <1>4
  <2>2. OneTrace'
    BY <1>2, <2>1 DEF ChannelInv, OneTrace
  <2>3. \A q : TraceOf(q) => TraceOf(q)'
    BY <1>2, <2>1 DEF TraceOf
  <2>4. QED
    BY <1>2, <2>1, <2>2, <2>3 DEF Keeps, Clean
<1>5. CASE l.op = "prompt"
  <2>1. /\ l.turn \in Writing /\ Writing' = {} /\ PromptLines = {}
        /\ piRun = None /\ Settles = {}
    BY <1>1, <1>5 DEF ChannelInv, OneTrace
  <2>2. \A i \in PromptLines' : i = Len(stdin) + 1 /\ stdin'[i] = l
    BY <1>3, <2>1
  <2>3. OneTrace'
    BY <1>2, <2>1, <2>2 DEF OneTrace
  <2>4. \A q : TraceOf(q) => TraceOf(q)'
    BY <1>2, <2>1, <2>2 DEF TraceOf
  <2>5. QED
    BY <2>1, <2>3, <2>4 DEF Keeps, Clean
<1>6. QED
  BY <1>4, <1>5

\* pi takes the line at the head of the pipe: an abort, or a prompt it works on or not.
LEMMA TakeKeeps ==
    ASSUME TypeOK, ChannelInv, NEW p \in Prompts, PiTakesPrompt(p) \/ PiTakesAbort(p),
           ~strayed'
    PROVE  Keeps
<1>1. /\ stdin # <<>> /\ stdin' = Tail(stdin) /\ UNCHANGED events
      /\ \/ Head(stdin) = PromptLine(p) /\ piRun' \in {p, piRun}
         \/ Head(stdin).op # "prompt" /\ piRun' = piRun
  BY DEF PiTakesPrompt, PiTakesAbort, NextLine, CancelLine, RecoverLine, piVars
<1>2. Writing' \subseteq Writing
  BY DEF PiTakesPrompt, PiTakesAbort, Writing, TypeOK, PromptRpcs
<1>3. \A i \in PromptLines' : /\ i + 1 \in PromptLines /\ stdin'[i] = stdin[i + 1]
                              /\ i \in Nat /\ i + 1 # 1
  BY <1>1, LinesTail DEF PromptLines
<1>4. Settles' = Settles
  BY <1>1 DEF Settles
<1>5. CASE Head(stdin).op # "prompt"
  <2>1. piRun' = piRun
    BY <1>1, <1>5 DEF PromptLine
  <2>2. \A i, j \in PromptLines' : i = j
    <3>1. ASSUME NEW i \in PromptLines', NEW j \in PromptLines' PROVE i = j
      <4>1. i + 1 = j + 1
        BY <1>3 DEF ChannelInv, OneTrace
      <4>2. QED
        BY <1>3, <4>1
    <3>2. QED
      BY <3>1
  <2>3. PromptLines = {} => PromptLines' = {}
    BY <1>3
  <2>4. OneTrace'
    BY <1>2, <1>4, <2>1, <2>2, <2>3 DEF ChannelInv, OneTrace
  <2>5. \A q : TraceOf(q) => TraceOf(q)'
    BY <1>1, <1>2, <1>3, <1>4, <2>1 DEF TraceOf
  <2>6. QED
    BY <1>2, <1>4, <2>1, <2>3, <2>4, <2>5 DEF Keeps, Clean
<1>6. CASE Head(stdin).op = "prompt"
  <2>1. Head(stdin) = PromptLine(p) /\ piRun' \in {p, piRun}
    BY <1>1, <1>6
  <2>2. 1 \in PromptLines /\ stdin[1].turn = p
    BY <1>1, <2>1, LinesTail DEF PromptLines, PromptLine
  <2>3. PromptLines' = {} /\ Writing' = {} /\ piRun = None /\ Settles = {}
    BY <1>2, <1>3, <2>2 DEF ChannelInv, OneTrace
  <2>4. OneTrace'
    BY <1>4, <2>3 DEF OneTrace
  <2>5. \A q : TraceOf(q) => TraceOf(q)'
    BY <1>4, <2>1, <2>2, <2>3 DEF TraceOf
  <2>6. QED
    BY <2>2, <2>4, <2>5 DEF Keeps, Clean
<1>7. QED
  BY <1>5, <1>6

LEMMA SettleKeeps ==
    ASSUME TypeOK, ChannelInv, PiSettles
    PROVE  Keeps
<1>1. /\ piRun \in Prompts /\ piRun # None /\ piRun' = None
      /\ events' = Append(events, Settled(piRun)) /\ UNCHANGED stdin
      /\ Writing' = Writing /\ PromptLines' = PromptLines
  BY DEF PiSettles, TypeOK, rpcVars, Writing, PromptLines
<1>2. Writing = {} /\ PromptLines = {} /\ Settles = {}
  BY <1>1 DEF ChannelInv, OneTrace
<1>3. Settled(piRun) \in Events /\ Settled(piRun).of = piRun
  BY <1>1, LineTypes DEF Settled
<1>4. \A i \in Settles' : i = Len(events) + 1 /\ events'[i].of = piRun
  BY <1>1, <1>2, <1>3, EventsAppend
<1>5. OneTrace'
  BY <1>1, <1>2, <1>4 DEF OneTrace
<1>6. \A q : TraceOf(q) => TraceOf(q)'
  BY <1>1, <1>2, <1>4 DEF TraceOf
<1>7. QED
  BY <1>1, <1>5, <1>6 DEF Keeps, Clean

LEMMA ToolKeeps ==
    ASSUME TypeOK, ChannelInv, NEW t \in Tools, PiStartsTool(t) \/ PiEndsTool(t)
    PROVE  Keeps /\ Settles' = Settles /\ \A i \in Settles' : events'[i] = events[i]
<1>1. /\ UNCHANGED <<stdin, piRun>> /\ Writing' = Writing /\ PromptLines' = PromptLines
      /\ \E e \in Events : events' = Append(events, e) /\ e.kind # "settled"
  BY ToolTypes DEF PiStartsTool, PiEndsTool, rpcVars, Writing, PromptLines, ToolStart, ToolEnd
<1>2. Settles' = Settles /\ \A i \in Settles' : events'[i] = events[i]
  BY <1>1, EventsAppend
<1>3. OneTrace'
  BY <1>1, <1>2 DEF ChannelInv, OneTrace
<1>4. \A q : TraceOf(q) => TraceOf(q)'
  BY <1>1, <1>2 DEF TraceOf
<1>5. QED
  BY <1>1, <1>2, <1>3, <1>4 DEF Keeps, Clean

LEMMA ExitKeeps ==
    ASSUME TypeOK, ChannelInv, piRun' = None, stdin' = <<>>, Writing' \subseteq Writing,
           events' \in {events, <<>>}
    PROVE  Keeps
<1>1. PromptLines' = {} /\ (events' = events \/ Settles' = {})
  BY DEF PromptLines, Settles
<1>2. events' = events => Settles' = Settles
  BY DEF Settles
<1>3. OneTrace'
  BY <1>1, <1>2 DEF ChannelInv, OneTrace
<1>4. \A q : TraceOf(q) => TraceOf(q)'
  BY <1>1, <1>2 DEF TraceOf
<1>5. QED
  BY <1>1, <1>2, <1>3, <1>4 DEF Keeps, Clean

-----------------------------------------------------------------------------
(* Steps of the request tasks and of pi.                                   *)

LEMMA WorldStep ==
    ASSUME TypeOK, ChannelInv, Keeps,
           UNCHANGED <<closed, blocked, poisoned, pending, recovery>>,
           \A i \in (CancelLines \cup RecoverLines)' : TraceOf(stdin'[i].turn),
           cancelAbort'.state = "writing" => TraceOf(cancelAbort'.turn),
           recoverAbort'.state = "writing" => TraceOf(recoverAbort'.turn),
           blocked # "abort" => cancelAbort' = NoAbort,
           Serving => AbortsAwaited',
           \A i \in Settles' : events'[i].of \in ended' \ ExtPrompts,
           piRun' \notin ExtPrompts,
           \A i \in PromptLines' : stdin'[i].turn \in Prompts /\ promptRpc'[stdin'[i].turn] # "ok",
           ended \subseteq ended'
    PROVE  ChannelInv'
<1>1. OneTrace' /\ (\A q : TraceOf(q) => TraceOf(q)') /\ (Clean => Clean')
  BY DEF Keeps
<1>2. AbortsMatch'
  <2>1. ASSUME NEW i \in (CancelLines \cup RecoverLines)'
        PROVE  TraceOf(stdin[i].turn)'
    <3>1. PICK q : q = stdin'[i].turn
      OBVIOUS
    <3>2. TraceOf(q)'
      BY <1>1, <3>1
    <3>3. QED
      BY <3>1, <3>2 DEF TraceOf
  <2>2. ASSUME cancelAbort'.state = "writing" PROVE TraceOf(cancelAbort.turn)'
    <3>1. PICK q : q = cancelAbort'.turn
      OBVIOUS
    <3>2. TraceOf(q)'
      BY <1>1, <2>2, <3>1
    <3>3. QED
      BY <3>1, <3>2 DEF TraceOf
  <2>3. ASSUME recoverAbort'.state = "writing" PROVE TraceOf(recoverAbort.turn)'
    <3>1. PICK q : q = recoverAbort'.turn
      OBVIOUS
    <3>2. TraceOf(q)'
      BY <1>1, <2>3, <3>1
    <3>3. QED
      BY <3>1, <3>2 DEF TraceOf
  <2>4. QED
    BY <2>1, <2>2, <2>3 DEF AbortsMatch
<1>3. Serving' => ServesOneTurn'
  <2>1. Serving' = Serving /\ pending' = pending /\ recovery' = recovery
    BY DEF Serving, Live
  <2>2. ASSUME Serving PROVE ServesOneTurn'
    <3>1. ServesOneTurn
      BY <2>2 DEF ChannelInv
    <3>2. pending # NoTurn => TraceOf(pending.id)'
      BY <1>1, <3>1 DEF ServesOneTurn
    <3>3. QED
      BY <1>1, <2>1, <2>2, <3>1, <3>2 DEF ServesOneTurn, TraceOf
  <2>3. QED
    BY <2>1, <2>2
<1>4. RunsAreReal'
  BY <1>1 DEF ChannelInv, RunsAreReal
<1>5. QED
  BY <1>1, <1>2, <1>3, <1>4 DEF ChannelInv

LEMMA WritePromptChannel ==
    ASSUME TypeOK, ChannelInv, NEW p \in Prompts, WritePrompt(p)
    PROVE  ChannelInv'
<1>1. Keeps
  BY SendKeeps
<1>2. /\ UNCHANGED <<closed, blocked, poisoned, pending, recovery, cancelAbort,
                     recoverAbort, events, piRun, ended>>
      /\ stdin' = Append(stdin, PromptLine(p)) /\ PromptLine(p) \in Lines
      /\ promptRpc' = [promptRpc EXCEPT ![p] = "awaiting"]
  BY LineTypes DEF WritePrompt, turnVars, piVars
<1>3. \A i \in DOMAIN stdin' : \/ i \in DOMAIN stdin /\ stdin'[i] = stdin[i]
                               \/ i = Len(stdin) + 1 /\ stdin'[i] = PromptLine(p)
  BY <1>2, LinesAppend
<1>4. /\ CancelLines' \subseteq CancelLines /\ RecoverLines' \subseteq RecoverLines
      /\ \A i \in (CancelLines \cup RecoverLines)' : stdin'[i] = stdin[i]
  BY <1>3 DEF CancelLines, RecoverLines, PromptLine
<1>5. \A i \in PromptLines' : stdin'[i].turn \in Prompts /\ promptRpc'[stdin'[i].turn] # "ok"
  BY <1>2, <1>3 DEF ChannelInv, RunsAreReal, PromptLines, PromptLine, TypeOK, PromptRpcs
<1>6. Serving => AbortsAwaited'
  BY <1>2, <1>4 DEF ChannelInv, ServesOneTurn, AbortsAwaited
<1>7. Settles' = Settles
  BY <1>2 DEF Settles
<1>8. QED
  BY <1>1, <1>2, <1>4, <1>5, <1>6, <1>7, WorldStep DEF ChannelInv, AbortsMatch, RunsAreReal

LEMMA WriteAbortChannel ==
    ASSUME TypeOK, ChannelInv, WriteAbort
    PROVE  ChannelInv'
<1>1. Keeps
  BY SendKeeps
<1>2. UNCHANGED <<closed, blocked, poisoned, pending, recovery, events, piRun, ended, promptRpc>>
  BY DEF WriteAbort, turnVars, piVars
<1>3. PICK l \in Lines :
        /\ stdin' = Append(stdin, l) /\ l.op # "prompt" /\ TraceOf(l.turn)
        /\ \/ /\ l.op = "cancelAbort" /\ cancelAbort.state = "writing"
              /\ cancelAbort' = [cancelAbort EXCEPT !.state = "awaiting"]
              /\ UNCHANGED recoverAbort
           \/ /\ l.op = "recoverAbort" /\ recoverAbort.state = "writing"
              /\ recoverAbort' = [recoverAbort EXCEPT !.state = "awaiting"]
              /\ UNCHANGED cancelAbort
  <2>1. /\ CancelLine(cancelAbort.turn) \in Lines /\ RecoverLine(recoverAbort.turn) \in Lines
        /\ CancelLine(cancelAbort.turn).op = "cancelAbort"
        /\ CancelLine(cancelAbort.turn).turn = cancelAbort.turn
        /\ RecoverLine(recoverAbort.turn).op = "recoverAbort"
        /\ RecoverLine(recoverAbort.turn).turn = recoverAbort.turn
    BY DEF CancelLine, RecoverLine, Lines, TypeOK, Aborts
  <2>2. AbortsMatch
    BY DEF ChannelInv
  <2>3. QED
    BY <2>1, <2>2 DEF WriteAbort, AbortsMatch
<1>4. \A i \in DOMAIN stdin' : \/ i \in DOMAIN stdin /\ stdin'[i] = stdin[i]
                               \/ i = Len(stdin) + 1 /\ stdin'[i] = l
  BY <1>3, LinesAppend
<1>5. /\ \A i \in CancelLines' :
              \/ i \in CancelLines /\ stdin'[i] = stdin[i]
              \/ i = Len(stdin) + 1 /\ stdin'[i] = l /\ l.op = "cancelAbort"
      /\ \A i \in RecoverLines' :
              \/ i \in RecoverLines /\ stdin'[i] = stdin[i]
              \/ i = Len(stdin) + 1 /\ stdin'[i] = l /\ l.op = "recoverAbort"
      /\ \A i \in PromptLines' : i \in PromptLines /\ stdin'[i] = stdin[i]
  BY <1>3, <1>4 DEF CancelLines, RecoverLines, PromptLines
<1>6. \A i \in (CancelLines \cup RecoverLines)' : TraceOf(stdin'[i].turn)
  BY <1>3, <1>5 DEF ChannelInv, AbortsMatch
<1>7. \A i \in PromptLines' : stdin'[i].turn \in Prompts /\ promptRpc'[stdin'[i].turn] # "ok"
  BY <1>2, <1>5 DEF ChannelInv, RunsAreReal
<1>8. cancelAbort'.state = "writing" => TraceOf(cancelAbort'.turn)
  BY <1>3 DEF ChannelInv, AbortsMatch, TypeOK, Aborts
<1>9. recoverAbort'.state = "writing" => TraceOf(recoverAbort'.turn)
  BY <1>3 DEF ChannelInv, AbortsMatch, TypeOK, Aborts
<1>10. blocked # "abort" => cancelAbort' = NoAbort
  BY <1>3 DEF ChannelInv, AbortsMatch, NoAbort
<1>11. ASSUME Serving PROVE AbortsAwaited'
  <2>1. AbortsAwaited
    BY <1>11 DEF ChannelInv, ServesOneTurn
  <2>2. CASE l.op = "cancelAbort"
    <3>1. CancelLines = {} /\ cancelAbort'.state = "awaiting" /\ UNCHANGED recoverAbort
      BY <1>3, <2>1, <2>2 DEF AbortsAwaited, TypeOK, Aborts
    <3>2. RecoverLines' \subseteq RecoverLines
      BY <1>5, <2>2
    <3>3. QED
      BY <1>5, <2>1, <3>1, <3>2 DEF AbortsAwaited
  <2>3. CASE l.op = "recoverAbort"
    <3>1. RecoverLines = {} /\ recoverAbort'.state = "awaiting" /\ UNCHANGED cancelAbort
      BY <1>3, <2>1, <2>3 DEF AbortsAwaited, TypeOK, Aborts
    <3>2. CancelLines' \subseteq CancelLines
      BY <1>5, <2>3
    <3>3. QED
      BY <1>5, <2>1, <3>1, <3>2 DEF AbortsAwaited
  <2>4. QED
    BY <1>3, <2>2, <2>3
<1>12. Settles' = Settles
  BY <1>2 DEF Settles
<1>13. QED
  BY <1>1, <1>2, <1>6, <1>7, <1>8, <1>9, <1>10, <1>11, <1>12, WorldStep
     DEF ChannelInv, RunsAreReal

LEMMA RequestFailsChannel ==
    ASSUME TypeOK, ChannelInv, AbortRequestFails \/ \E p \in Prompts : PromptRequestFails(p)
    PROVE  ChannelInv'
<1>1. /\ UNCHANGED <<closed, blocked, poisoned, pending, recovery, stdin, events, piRun, ended>>
      /\ cancelAbort' \in {cancelAbort, [cancelAbort EXCEPT !.state = "err"]}
      /\ recoverAbort' \in {recoverAbort, [recoverAbort EXCEPT !.state = "err"]}
      /\ cancelAbort' # cancelAbort => cancelAbort.state \in InFlight
      /\ recoverAbort' # recoverAbort => recoverAbort.state \in InFlight
  BY DEF AbortRequestFails, PromptRequestFails, turnVars, piVars
<1>2. \A q \in Prompts : promptRpc'[q] = "ok" => promptRpc[q] = "ok"
  BY DEF AbortRequestFails, PromptRequestFails, TypeOK, PromptRpcs
<1>3. Writing' \subseteq Writing
  BY DEF AbortRequestFails, PromptRequestFails, Writing, TypeOK, PromptRpcs
<1>4. Keeps
  BY <1>1, <1>3, ShrinkKeeps DEF Shrinks
<1>5. /\ CancelLines' = CancelLines /\ RecoverLines' = RecoverLines
      /\ PromptLines' = PromptLines /\ Settles' = Settles
  BY <1>1 DEF CancelLines, RecoverLines, PromptLines, Settles
<1>6. /\ cancelAbort'.state = "writing" => cancelAbort' = cancelAbort
      /\ recoverAbort'.state = "writing" => recoverAbort' = recoverAbort
      /\ cancelAbort = NoAbort => cancelAbort' = NoAbort
  BY <1>1 DEF TypeOK, Aborts, NoAbort, InFlight
<1>7. Serving => AbortsAwaited'
  <2>1. /\ cancelAbort.state \in {"awaiting", "err"} => cancelAbort'.state \in {"awaiting", "err"}
        /\ recoverAbort.state \in {"awaiting", "err"} => recoverAbort'.state \in {"awaiting", "err"}
    BY <1>1 DEF TypeOK, Aborts
  <2>2. QED
    BY <1>5, <2>1 DEF ChannelInv, ServesOneTurn, AbortsAwaited
<1>8. QED
  BY <1>1, <1>2, <1>4, <1>5, <1>6, <1>7, WorldStep DEF ChannelInv, AbortsMatch, RunsAreReal

LEMMA PiTakesPromptChannel ==
    ASSUME TypeOK, ChannelInv, NEW p \in Prompts, PiTakesPrompt(p), ~strayed'
    PROVE  ChannelInv'
<1>1. Keeps
  BY TakeKeeps
<1>2. /\ UNCHANGED <<closed, blocked, poisoned, pending, recovery, cancelAbort,
                     recoverAbort, events, ended>>
      /\ stdin # <<>> /\ stdin' = Tail(stdin) /\ Head(stdin) = PromptLine(p)
      /\ piRun' = piRun \/ (piRun' = p /\ p \notin ExtPrompts)
  BY DEF PiTakesPrompt, turnVars, NextLine
<1>3. \A i \in DOMAIN stdin' : /\ i + 1 \in DOMAIN stdin /\ stdin'[i] = stdin[i + 1]
                               /\ i \in Nat /\ i + 1 # 1
  BY <1>2, LinesTail
<1>4. 1 \in PromptLines
  BY <1>2, LinesTail DEF PromptLines, PromptLine
<1>5. PromptLines' = {}
  BY <1>3, <1>4 DEF ChannelInv, OneTrace, PromptLines
<1>6. /\ \A i \in CancelLines' : i + 1 \in CancelLines /\ stdin'[i] = stdin[i + 1] /\ i \in Nat
      /\ \A i \in RecoverLines' : i + 1 \in RecoverLines /\ stdin'[i] = stdin[i + 1] /\ i \in Nat
  BY <1>3 DEF CancelLines, RecoverLines
<1>7. ASSUME Serving PROVE AbortsAwaited'
  <2>1. AbortsAwaited
    BY <1>7 DEF ChannelInv, ServesOneTurn
  <2>2. ASSUME NEW i \in CancelLines', NEW j \in CancelLines' PROVE i = j
    <3>1. i + 1 = j + 1
      BY <1>6, <2>1 DEF AbortsAwaited
    <3>2. QED
      BY <1>6, <3>1
  <2>3. ASSUME NEW i \in RecoverLines', NEW j \in RecoverLines' PROVE i = j
    <3>1. i + 1 = j + 1
      BY <1>6, <2>1 DEF AbortsAwaited
    <3>2. QED
      BY <1>6, <3>1
  <2>4. QED
    BY <1>2, <1>6, <2>1, <2>2, <2>3 DEF AbortsAwaited
<1>8. Settles' = Settles
  BY <1>2 DEF Settles
<1>9. QED
  BY <1>1, <1>2, <1>5, <1>6, <1>7, <1>8, WorldStep DEF ChannelInv, AbortsMatch, RunsAreReal

LEMMA PiAnswersPromptChannel ==
    ASSUME TypeOK, ChannelInv, NEW p \in Prompts, PiAnswersPrompt(p)
    PROVE  ChannelInv'
<1>1. /\ UNCHANGED <<closed, blocked, poisoned, pending, recovery, cancelAbort,
                     recoverAbort, stdin, events, piRun, ended>>
      /\ promptRpc' = [promptRpc EXCEPT ![p] = "ok"] /\ promptRpc[p] = "awaiting"
      /\ PromptLine(p) \notin Range(stdin)
  BY DEF PiAnswersPrompt, turnVars, piVars
<1>2. Writing' \subseteq Writing
  BY <1>1 DEF Writing, TypeOK, PromptRpcs
<1>3. Keeps
  BY <1>1, <1>2, ShrinkKeeps DEF Shrinks
<1>4. /\ CancelLines' = CancelLines /\ RecoverLines' = RecoverLines
      /\ PromptLines' = PromptLines /\ Settles' = Settles
  BY <1>1 DEF CancelLines, RecoverLines, PromptLines, Settles
<1>5. \A i \in PromptLines : stdin[i].turn # p
  <2>1. \A i \in PromptLines : stdin[i] \in Lines /\ stdin[i].op = "prompt"
                               /\ stdin[i] \in Range(stdin)
    BY DEF PromptLines, TypeOK, Range
  <2>2. QED
    BY <1>1, <2>1 DEF Lines, PromptLine
<1>6. \A i \in PromptLines' : stdin'[i].turn \in Prompts /\ promptRpc'[stdin'[i].turn] # "ok"
  BY <1>1, <1>4, <1>5 DEF ChannelInv, RunsAreReal, TypeOK, PromptRpcs
<1>7. Serving => AbortsAwaited'
  BY <1>1, <1>4 DEF ChannelInv, ServesOneTurn, AbortsAwaited
<1>8. QED
  BY <1>1, <1>3, <1>4, <1>6, <1>7, WorldStep DEF ChannelInv, AbortsMatch, RunsAreReal

LEMMA PiTakesAbortChannel ==
    ASSUME TypeOK, ChannelInv, NEW p \in Prompts, PiTakesAbort(p), ~strayed'
    PROVE  ChannelInv'
<1>1. Keeps
  BY TakeKeeps
<1>2. /\ UNCHANGED <<closed, blocked, poisoned, pending, recovery, promptRpc,
                     events, piRun, ended>>
      /\ stdin # <<>> /\ stdin' = Tail(stdin)
  BY DEF PiTakesAbort, turnVars, NextLine, piVars
<1>3. PICK r \in {"ok", "err"} :
        \/ /\ Head(stdin).op = "cancelAbort" /\ UNCHANGED recoverAbort
           /\ cancelAbort' = Answer(cancelAbort, p, r)
        \/ /\ Head(stdin).op = "recoverAbort" /\ UNCHANGED cancelAbort
           /\ recoverAbort' = Answer(recoverAbort, p, r)
  BY DEF PiTakesAbort, NextLine, CancelLine, RecoverLine
<1>4. \A i \in DOMAIN stdin' : /\ i + 1 \in DOMAIN stdin /\ stdin'[i] = stdin[i + 1]
                               /\ i \in Nat /\ i + 1 # 1
  BY <1>2, LinesTail
<1>5. /\ \A i \in CancelLines' : i + 1 \in CancelLines /\ stdin'[i] = stdin[i + 1] /\ i \in Nat
                                 /\ i + 1 # 1
      /\ \A i \in RecoverLines' : i + 1 \in RecoverLines /\ stdin'[i] = stdin[i + 1] /\ i \in Nat
                                  /\ i + 1 # 1
      /\ \A i \in PromptLines' : i + 1 \in PromptLines /\ stdin'[i] = stdin[i + 1]
  BY <1>4 DEF CancelLines, RecoverLines, PromptLines
<1>6. /\ cancelAbort'.state = "writing" => cancelAbort' = cancelAbort
      /\ recoverAbort'.state = "writing" => recoverAbort' = recoverAbort
      /\ cancelAbort = NoAbort => cancelAbort' = NoAbort
  BY <1>3 DEF Answer, NoAbort
<1>7. ASSUME Serving PROVE AbortsAwaited'
  <2>1. AbortsAwaited
    BY <1>7 DEF ChannelInv, ServesOneTurn
  <2>2. ASSUME NEW i \in CancelLines', NEW j \in CancelLines' PROVE i = j
    <3>1. i + 1 = j + 1
      BY <1>5, <2>1 DEF AbortsAwaited
    <3>2. QED
      BY <1>5, <3>1
  <2>3. ASSUME NEW i \in RecoverLines', NEW j \in RecoverLines' PROVE i = j
    <3>1. i + 1 = j + 1
      BY <1>5, <2>1 DEF AbortsAwaited
    <3>2. QED
      BY <1>5, <3>1
  <2>4. CASE Head(stdin).op = "cancelAbort" /\ UNCHANGED recoverAbort
    <3>1. 1 \in CancelLines
      BY <1>2, <2>4, LinesTail DEF CancelLines
    <3>2. CancelLines' = {}
      BY <1>5, <2>1, <3>1 DEF AbortsAwaited
    <3>3. RecoverLines' # {} => RecoverLines # {}
      BY <1>5
    <3>4. QED
      BY <2>1, <2>3, <2>4, <3>2, <3>3 DEF AbortsAwaited
  <2>5. CASE Head(stdin).op = "recoverAbort" /\ UNCHANGED cancelAbort
    <3>1. 1 \in RecoverLines
      BY <1>2, <2>5, LinesTail DEF RecoverLines
    <3>2. RecoverLines' = {}
      BY <1>5, <2>1, <3>1 DEF AbortsAwaited
    <3>3. CancelLines' # {} => CancelLines # {}
      BY <1>5
    <3>4. QED
      BY <2>1, <2>2, <2>5, <3>2, <3>3 DEF AbortsAwaited
  <2>6. QED
    BY <1>3, <2>4, <2>5
<1>8. Settles' = Settles
  BY <1>2 DEF Settles
<1>9. QED
  BY <1>1, <1>2, <1>5, <1>6, <1>7, <1>8, WorldStep DEF ChannelInv, AbortsMatch, RunsAreReal

LEMMA PiRunsChannel ==
    ASSUME TypeOK, ChannelInv,
           PiSettles \/ \E t \in Tools : PiStartsTool(t) \/ PiEndsTool(t)
    PROVE  ChannelInv'
<1>1. /\ UNCHANGED <<closed, blocked, poisoned, pending, recovery, promptRpc, cancelAbort,
                     recoverAbort, stdin>>
      /\ ended \subseteq ended'
      /\ piRun' \in {None, piRun}
  BY DEF PiSettles, PiStartsTool, PiEndsTool, turnVars, rpcVars
<1>2. Keeps /\ \A i \in Settles' : events'[i].of \in ended' \ ExtPrompts
  <2>1. CASE PiSettles
    <3>1. /\ piRun \in Prompts /\ piRun # None
          /\ events' = Append(events, Settled(piRun)) /\ ended' = ended \cup {piRun}
      BY <2>1 DEF PiSettles, TypeOK
    <3>2. /\ Settled(piRun) \in Events /\ Settled(piRun).of = piRun
          /\ events' = Append(events, Settled(piRun))
      BY <3>1, LineTypes DEF Settled
    <3>3. \A i \in Settles' : \/ i \in Settles /\ events'[i] = events[i]
                              \/ events'[i].of = piRun
      BY <3>2, EventsAppend
    <3>4. QED
      BY <2>1, <3>1, <3>3, SettleKeeps DEF ChannelInv, RunsAreReal
  <2>2. ASSUME NEW t \in Tools, PiStartsTool(t) \/ PiEndsTool(t)
        PROVE  Keeps /\ \A i \in Settles' : events'[i].of \in ended' \ ExtPrompts
    <3>1. Keeps /\ Settles' = Settles /\ \A i \in Settles' : events'[i] = events[i]
      BY <2>2, ToolKeeps
    <3>2. QED
      BY <1>1, <3>1 DEF ChannelInv, RunsAreReal
  <2>3. QED
    BY <2>1, <2>2
<1>3. /\ CancelLines' = CancelLines /\ RecoverLines' = RecoverLines
      /\ PromptLines' = PromptLines
  BY <1>1 DEF CancelLines, RecoverLines, PromptLines
<1>4. Serving => AbortsAwaited'
  BY <1>1, <1>3 DEF ChannelInv, ServesOneTurn, AbortsAwaited
<1>5. piRun' \notin ExtPrompts
  BY <1>1, PumpAssumption DEF ChannelInv, RunsAreReal
<1>6. QED
  BY <1>1, <1>2, <1>3, <1>4, <1>5, WorldStep DEF ChannelInv, AbortsMatch, RunsAreReal

LEMMA PiExitsChannel ==
    ASSUME TypeOK, ChannelInv, PiExits
    PROVE  ChannelInv'
<1>1. /\ UNCHANGED <<closed, blocked, poisoned, pending, recovery, promptRpc, cancelAbort,
                     recoverAbort, events, ended>>
      /\ piRun' = None /\ stdin' = <<>>
  BY DEF PiExits, turnVars, rpcVars
<1>2. Writing' = Writing /\ Settles' = Settles
  BY <1>1 DEF Writing, Settles
<1>3. Keeps
  BY <1>1, <1>2, ExitKeeps
<1>4. CancelLines' = {} /\ RecoverLines' = {} /\ PromptLines' = {}
  BY <1>1 DEF CancelLines, RecoverLines, PromptLines
<1>5. Serving => AbortsAwaited'
  BY <1>4 DEF AbortsAwaited
<1>6. QED
  BY <1>1, <1>2, <1>3, <1>4, <1>5, PumpAssumption, WorldStep
     DEF ChannelInv, AbortsMatch, RunsAreReal

-----------------------------------------------------------------------------
(* Steps of the pump.                                                      *)

\* A handler that starts no turn.
LEMMA HandlerStep ==
    ASSUME TypeOK, ChannelInv, Shrinks, UNCHANGED ended,
           \A p \in Prompts : promptRpc'[p] = "ok" => promptRpc[p] = "ok",
           cancelAbort'.state = "writing" => TraceOf(cancelAbort'.turn),
           recoverAbort'.state = "writing" => TraceOf(recoverAbort'.turn),
           blocked' # "abort" => cancelAbort' = NoAbort,
           Serving' => ServesOneTurn',
           pending'.settledEarly => Clean' /\ pending'.id \in ended
    PROVE  ChannelInv'
<1>1. /\ OneTrace' /\ (\A q : TraceOf(q) => TraceOf(q)') /\ (Clean => Clean')
      /\ \A i \in Settles' : \E j \in Settles : events'[i] = events[j]
  BY ShrinkKeeps DEF Keeps
<1>2. UNCHANGED <<stdin, piRun>>
  BY DEF Shrinks
<1>3. /\ CancelLines' = CancelLines /\ RecoverLines' = RecoverLines
      /\ PromptLines' = PromptLines
  BY <1>2 DEF CancelLines, RecoverLines, PromptLines
<1>4. AbortsMatch'
  <2>1. ASSUME NEW i \in (CancelLines \cup RecoverLines)'
        PROVE  TraceOf(stdin[i].turn)'
    <3>1. PICK q : q = stdin[i].turn
      OBVIOUS
    <3>2. TraceOf(q)
      BY <1>3, <2>1, <3>1 DEF ChannelInv, AbortsMatch
    <3>3. TraceOf(q)'
      BY <1>1, <3>2
    <3>4. QED
      BY <1>2, <3>1, <3>3 DEF TraceOf
  <2>2. ASSUME cancelAbort'.state = "writing" PROVE TraceOf(cancelAbort.turn)'
    <3>1. PICK q : q = cancelAbort'.turn
      OBVIOUS
    <3>2. TraceOf(q)'
      BY <1>1, <2>2, <3>1
    <3>3. QED
      BY <3>1, <3>2 DEF TraceOf
  <2>3. ASSUME recoverAbort'.state = "writing" PROVE TraceOf(recoverAbort.turn)'
    <3>1. PICK q : q = recoverAbort'.turn
      OBVIOUS
    <3>2. TraceOf(q)'
      BY <1>1, <2>3, <3>1
    <3>3. QED
      BY <3>1, <3>2 DEF TraceOf
  <2>4. QED
    BY <2>1, <2>2, <2>3 DEF AbortsMatch
<1>5. RunsAreReal'
  BY <1>1, <1>2, <1>3 DEF ChannelInv, RunsAreReal
<1>6. QED
  BY <1>1, <1>4, <1>5 DEF ChannelInv

\* A handler that leaves nothing on its way but the request of the turn it starts.
LEMMA NextTurnStep ==
    ASSUME CancelLines' = {}, RecoverLines' = {}, PromptLines' = {}, Settles' = {},
           piRun' = None, cancelAbort' = NoAbort, recoverAbort' = NoAbort,
           Writing' \subseteq {pending'.id}, pending' = NoTurn => Writing' = {},
           ~pending'.settledEarly, ~recovery'.on
    PROVE  ChannelInv'
<1>1. OneTrace'
  BY DEF OneTrace
<1>2. AbortsMatch'
  BY DEF AbortsMatch, NoAbort
<1>3. Serving' => ServesOneTurn'
  BY DEF ServesOneTurn, AbortsAwaited, Clean, TraceOf
<1>4. RunsAreReal'
  BY PumpAssumption DEF RunsAreReal
<1>5. QED
  BY <1>1, <1>2, <1>3, <1>4 DEF ChannelInv

LEMMA StartTurnTrace ==
    ASSUME NEW p \in Prompts, NEW rest, NEW rpc \in PromptRpcs,
           \A q \in Prompts : rpc[q] # "writing", StartTurn(p, rest, rpc)
    PROVE  /\ Writing' \subseteq {pending'.id} /\ (pending' = NoTurn => Writing' = {})
           /\ ~pending'.settledEarly
<1>1. pending' = Fresh(p) /\ promptRpc' = [rpc EXCEPT ![p] = "writing"]
  BY DEF StartTurn
<1>2. Writing' \subseteq {p}
  BY <1>1 DEF Writing, PromptRpcs
<1>3. QED
  BY <1>1, <1>2, FreshIsATurn DEF Fresh

LEMMA StartNextTrace ==
    ASSUME TypeOK, NEW rpc \in PromptRpcs, NEW idle,
           \A q \in Prompts : rpc[q] # "writing", StartNext(rpc, idle)
    PROVE  /\ Writing' \subseteq {pending'.id} /\ (pending' = NoTurn => Writing' = {})
           /\ ~pending'.settledEarly
<1>1. CASE queue = <<>>
  <2>1. pending' = NoTurn /\ promptRpc' = rpc
    BY <1>1 DEF StartNext
  <2>2. Writing' = {}
    BY <2>1 DEF Writing
  <2>3. QED
    BY <2>1, <2>2 DEF NoTurn
<1>2. CASE queue # <<>>
  <2>1. Head(queue) \in Prompts /\ StartTurn(Head(queue), Tail(queue), rpc)
    BY <1>2 DEF StartNext, TypeOK
  <2>2. QED
    BY <2>1, StartTurnTrace
<1>3. QED
  BY <1>1, <1>2

\* The pipe has no abort once the one awaited was answered.
LEMMA NoAbortLines ==
    ASSUME ChannelInv, Serving
    PROVE  /\ cancelAbort.state \notin {"awaiting", "err"} => CancelLines = {}
           /\ recoverAbort.state \notin {"awaiting", "err"} => RecoverLines = {}
           /\ cancelAbort = NoAbort => CancelLines = {}
           /\ recoverAbort = NoAbort => RecoverLines = {}
BY DEF ChannelInv, ServesOneTurn, AbortsAwaited, NoAbort

channelVars == <<closed, poisoned, pending, recovery, promptRpc, cancelAbort, recoverAbort,
                 stdin, events, piRun, ended>>

LEMMA ChannelUnchanged ==
    ASSUME ChannelInv, UNCHANGED channelVars, blocked' # "abort" => cancelAbort = NoAbort
    PROVE  ChannelInv'
<1>1. /\ Writing' = Writing /\ PromptLines' = PromptLines /\ Settles' = Settles
      /\ CancelLines' = CancelLines /\ RecoverLines' = RecoverLines
      /\ Serving' = Serving
  BY DEF channelVars, Writing, PromptLines, Settles, CancelLines, RecoverLines, Serving, Live
<1>2. Clean' = Clean /\ OneTrace' = OneTrace
  BY <1>1 DEF channelVars, Clean, OneTrace
<1>3. AbortsMatch'
  BY <1>1 DEF channelVars, ChannelInv, AbortsMatch, TraceOf
<1>4. Serving' => ServesOneTurn'
  BY <1>1, <1>2 DEF channelVars, ChannelInv, ServesOneTurn, AbortsAwaited, TraceOf
<1>5. RunsAreReal'
  BY <1>1, <1>2 DEF channelVars, ChannelInv, RunsAreReal
<1>6. QED
  BY <1>2, <1>3, <1>4, <1>5 DEF ChannelInv

LEMMA RecvPromptChannel ==
    ASSUME TypeOK, ControlInv, ChannelInv, NEW p \in Prompts, RecvPrompt(p)
    PROVE  ChannelInv'
<1>1. /\ closed = "no" /\ blocked = "no" /\ cancelAbort = NoAbort
      /\ UNCHANGED <<closed, blocked, cancelAbort, recoverAbort, stdin, events, piRun, ended>>
  BY DEF RecvPrompt, Listening, piVars, ChannelInv, AbortsMatch
<1>2. CASE poisoned \/ pending # NoTurn \/ recovery.on
  <2>1. UNCHANGED <<poisoned, pending, recovery, promptRpc>>
    BY <1>2 DEF RecvPrompt, turnVars
  <2>2. QED
    BY <1>1, <2>1, ChannelUnchanged DEF channelVars
<1>3. CASE ~poisoned /\ pending = NoTurn /\ ~recovery.on
  <2>1. StartTurn(p, queue, promptRpc) /\ UNCHANGED recovery
    BY <1>3 DEF RecvPrompt
  <2>2. Serving /\ recoverAbort = NoAbort
    BY <1>1, <1>3 DEF Serving, Live, ControlInv, AbortResultIsCurrent
  <2>3. Clean /\ CancelLines = {} /\ RecoverLines = {}
    BY <1>1, <1>3, <2>2, NoAbortLines DEF ChannelInv, ServesOneTurn
  <2>4. /\ Writing' \subseteq {pending'.id} /\ (pending' = NoTurn => Writing' = {})
        /\ ~pending'.settledEarly
    <3>1. promptRpc \in PromptRpcs /\ \A q \in Prompts : promptRpc[q] # "writing"
      BY <2>3 DEF Clean, Writing, TypeOK
    <3>2. QED
      BY <2>1, <3>1, StartTurnTrace
  <2>5. /\ CancelLines' = {} /\ RecoverLines' = {} /\ PromptLines' = {} /\ Settles' = {}
        /\ piRun' = None /\ ~recovery'.on
    BY <1>1, <1>3, <2>1, <2>3
       DEF CancelLines, RecoverLines, PromptLines, Settles, Clean
  <2>6. QED
    BY <1>1, <2>2, <2>4, <2>5, NextTurnStep
<1>4. QED
  BY <1>2, <1>3

LEMMA CancelChannel ==
    ASSUME TypeOK, ControlInv, ChannelInv, RecvCancel \/ RequestAbort \/ AbortAnswered
    PROVE  ChannelInv'
<1>1. CASE RecvCancel
  <2>1. UNCHANGED channelVars
    BY <1>1 DEF RecvCancel, channelVars, turnVars, rpcVars, piVars
  <2>2. blocked = "no"
    BY <1>1 DEF RecvCancel, Listening
  <2>3. QED
    BY <2>1, <2>2, ChannelUnchanged DEF ChannelInv, AbortsMatch
<1>2. CASE RequestAbort
  <2>1. /\ closed = "no" /\ blocked = "write" /\ blocked' = "abort"
        /\ cancelAbort' = [state |-> "writing", turn |-> pending.id]
        /\ UNCHANGED <<closed, poisoned, pending, recovery, promptRpc, recoverAbort,
                       stdin, events, piRun, ended>>
    BY <1>2 DEF RequestAbort, turnVars, piVars
  <2>2. Serving /\ pending # NoTurn
    BY <2>1 DEF ControlInv, HeldByItsTurn, RetiredIsQuiet, Serving, Live
  <2>3. TraceOf(pending.id) /\ CancelLines = {}
    BY <2>1, <2>2, NoAbortLines DEF ChannelInv, ServesOneTurn, AbortsMatch
  <2>4. /\ CancelLines' = {} /\ RecoverLines' = RecoverLines /\ Writing' = Writing
        /\ PromptLines' = PromptLines /\ Settles' = Settles
    BY <2>1, <2>3 DEF CancelLines, RecoverLines, Writing, PromptLines, Settles
  <2>5. Clean' = Clean /\ TraceOf(pending.id)' = TraceOf(pending.id)
    BY <2>1, <2>4 DEF Clean, TraceOf
  <2>6. ServesOneTurn'
    BY <2>1, <2>2, <2>3, <2>4, <2>5 DEF ChannelInv, ServesOneTurn, AbortsAwaited
  <2>7. Shrinks
    BY <2>1, <2>4 DEF Shrinks
  <2>8. QED
    BY <2>1, <2>3, <2>5, <2>6, <2>7, HandlerStep DEF ChannelInv, AbortsMatch, RunsAreReal
<1>3. CASE AbortAnswered
  <2>1. /\ closed = "no" /\ blocked = "abort" /\ blocked' = "no" /\ cancelAbort' = NoAbort
        /\ UNCHANGED <<closed, promptRpc, recoverAbort, stdin, events, piRun, ended>>
    BY <1>3 DEF AbortAnswered, piVars
  <2>2. Serving
    BY <2>1 DEF ControlInv, HeldByItsTurn, RetiredIsQuiet, Serving, Live
  <2>3. /\ CancelLines' = CancelLines /\ RecoverLines' = RecoverLines /\ Writing' = Writing
        /\ PromptLines' = PromptLines /\ Settles' = Settles /\ Clean' = Clean
    BY <2>1 DEF CancelLines, RecoverLines, Writing, PromptLines, Settles, Clean
  <2>4. Shrinks
    BY <2>1, <2>3 DEF Shrinks
  <2>5. CASE cancelAbort.state = "ok"
    <3>1. UNCHANGED <<poisoned, pending, recovery>>
      BY <1>3, <2>5 DEF AbortAnswered, turnVars
    <3>2. CancelLines = {}
      BY <2>2, <2>5, NoAbortLines
    <3>3. TraceOf(pending.id)' = TraceOf(pending.id)
      BY <2>1, <2>3, <3>1 DEF TraceOf
    <3>4. ServesOneTurn'
      BY <2>1, <2>2, <2>3, <3>1, <3>2, <3>3 DEF ChannelInv, ServesOneTurn, AbortsAwaited
    <3>5. QED
      BY <2>1, <2>3, <2>4, <3>1, <3>4, HandlerStep
         DEF ChannelInv, AbortsMatch, RunsAreReal, NoAbort
  <2>6. CASE cancelAbort.state = "err"
    <3>1. poisoned' = TRUE /\ pending' = NoTurn
      BY <1>3, <2>6 DEF AbortAnswered, Retire
    <3>2. ~Serving' /\ ~pending'.settledEarly
      BY <3>1 DEF Serving, NoTurn
    <3>3. QED
      BY <2>1, <2>4, <3>2, HandlerStep DEF ChannelInv, AbortsMatch, NoAbort
  <2>7. QED
    BY <1>3, <2>5, <2>6 DEF AbortAnswered
<1>4. QED
  BY <1>1, <1>2, <1>3

LEMMA CleanServes ==
    ASSUME Clean', AbortsAwaited'
    PROVE  ServesOneTurn'
BY DEF ServesOneTurn, Clean, TraceOf

\* A handler that changes nothing the session serves by.
LEMMA QuietStep ==
    ASSUME TypeOK, ChannelInv, Shrinks,
           \A p \in Prompts : promptRpc'[p] = "ok" => promptRpc[p] = "ok",
           UNCHANGED <<closed, blocked, poisoned, pending, recovery, cancelAbort,
                       recoverAbort, ended>>
    PROVE  ChannelInv'
<1>1. /\ OneTrace' /\ (\A q : TraceOf(q) => TraceOf(q)') /\ (Clean => Clean')
  BY ShrinkKeeps DEF Keeps
<1>2. /\ CancelLines' = CancelLines /\ RecoverLines' = RecoverLines
      /\ UNCHANGED stdin
  BY DEF Shrinks, CancelLines, RecoverLines
<1>3. ASSUME Serving' PROVE ServesOneTurn'
  <2>1. ServesOneTurn
    BY <1>3 DEF ChannelInv, Serving, Live
  <2>2. pending # NoTurn => TraceOf(pending.id)'
    <3>1. PICK q : q = pending.id
      OBVIOUS
    <3>2. pending # NoTurn => TraceOf(q)'
      BY <1>1, <2>1, <3>1 DEF ServesOneTurn
    <3>3. QED
      BY <3>1, <3>2 DEF TraceOf
  <2>3. QED
    BY <1>1, <1>2, <2>1, <2>2 DEF ServesOneTurn, AbortsAwaited
<1>4. QED
  BY <1>1, <1>3, HandlerStep DEF ChannelInv, AbortsMatch, RunsAreReal

LEMMA FinishRecoveryChannel ==
    ASSUME TypeOK, ControlInv, ChannelInv, NEW rec \in Recoveries,
           Listening, UNCHANGED <<closed, blocked, cancelAbort, stdin, piRun, ended>>,
           recovery.on, rec.on, FinishRecoveryIfConfirmed(rec),
           events' \in {events, <<>>} \/ (events # <<>> /\ events' = Tail(events)),
           rec.settled => Writing = {} /\ PromptLines = {} /\ piRun = None /\ Settles' = {},
           recoverAbort' \in {recoverAbort, NoAbort},
           RecoverLines # {} => recoverAbort' = recoverAbort,
           rec.aborted => recoverAbort' = NoAbort
    PROVE  ChannelInv'
<1>1. /\ Serving /\ pending = NoTurn /\ cancelAbort = NoAbort
      /\ blocked' = "no"
  BY DEF Listening, ControlInv, RetiredIsQuiet, Serving, Live, ChannelInv, AbortsMatch
<1>2. CancelLines = {} /\ (recoverAbort' = NoAbort => RecoverLines = {})
  BY <1>1, NoAbortLines
<1>3. /\ CancelLines' = CancelLines /\ RecoverLines' = RecoverLines
      /\ PromptLines' = PromptLines
  BY DEF CancelLines, RecoverLines, PromptLines
<1>4. CASE rec.aborted /\ rec.settled
  <2>1. StartNext(promptRpc, foreground) /\ recovery' = NoRecovery
    BY <1>4 DEF FinishRecoveryIfConfirmed
  <2>2. promptRpc \in PromptRpcs /\ \A q \in Prompts : promptRpc[q] # "writing"
    BY <1>4 DEF TypeOK, Writing
  <2>3. /\ Writing' \subseteq {pending'.id} /\ (pending' = NoTurn => Writing' = {})
        /\ ~pending'.settledEarly
    BY <2>1, <2>2, StartNextTrace
  <2>4. ~recovery'.on
    BY <2>1 DEF NoRecovery
  <2>5. QED
    BY <1>1, <1>2, <1>3, <1>4, <2>3, <2>4, NextTurnStep
<1>5. CASE ~(rec.aborted /\ rec.settled)
  <2>1. recovery' = rec /\ UNCHANGED <<pending, promptRpc, poisoned>>
    BY <1>5 DEF FinishRecoveryIfConfirmed
  <2>2. Writing' = Writing
    BY <2>1 DEF Writing
  <2>3. Shrinks
    BY <2>2 DEF Shrinks
  <2>4. AbortsAwaited'
    BY <1>1, <1>2, <1>3 DEF ChannelInv, ServesOneTurn, AbortsAwaited
  <2>5. rec.settled => Clean'
    BY <1>3, <2>2 DEF Clean
  <2>6. ServesOneTurn'
    BY <1>1, <2>1, <2>4, <2>5 DEF ServesOneTurn
  <2>7. ~pending'.settledEarly
    BY <1>1, <2>1 DEF NoTurn
  <2>8. recoverAbort'.state = "writing" => TraceOf(recoverAbort'.turn)
    BY DEF NoAbort, ChannelInv, AbortsMatch
  <2>9. QED
    BY <1>1, <2>1, <2>3, <2>6, <2>7, <2>8, HandlerStep DEF NoAbort
<1>6. QED
  BY <1>4, <1>5

\* A handler that retires the session.
LEMMA RetiredStep ==
    ASSUME TypeOK, ChannelInv, Shrinks, UNCHANGED <<ended, blocked, cancelAbort>>,
           \A p \in Prompts : promptRpc'[p] = "ok" => promptRpc[p] = "ok",
           recoverAbort' \in {recoverAbort, NoAbort}, poisoned', ~pending'.settledEarly
    PROVE  ChannelInv'
<1>1. ~Serving'
  BY DEF Serving
<1>2. recoverAbort'.state = "writing" => TraceOf(recoverAbort'.turn)
  BY DEF NoAbort, ChannelInv, AbortsMatch
<1>3. QED
  BY <1>1, <1>2, HandlerStep DEF ChannelInv, AbortsMatch

LEMMA RetirePoisons ==
    ASSUME NEW r, Retire(r)
    PROVE  poisoned' /\ ~pending'.settledEarly
BY DEF Retire, NoTurn

LEMMA SettledIsLast ==
    ASSUME TypeOK, ChannelInv, NEW p \in Prompts, NextEvent(Settled(p))
    PROVE  /\ Writing = {} /\ PromptLines = {} /\ piRun = None /\ Settles' = {}
           /\ 1 \in Settles /\ events[1].of = p /\ p \in ended
<1>1. events # <<>> /\ Head(events) = Settled(p) /\ events' = Tail(events)
  BY DEF NextEvent
<1>2. 1 \in Settles /\ events[1].of = p
  BY <1>1 DEF Settles, Settled, TypeOK
<1>3. Settles' = {}
  BY <1>1, <1>2, EventsTail DEF ChannelInv, OneTrace
<1>4. QED
  BY <1>2, <1>3 DEF ChannelInv, OneTrace, RunsAreReal

LEMMA RecvSettledChannel ==
    ASSUME TypeOK, ControlInv, ChannelInv, NEW p \in Prompts, RecvSettled(p)
    PROVE  ChannelInv'
<1>1. /\ Listening /\ NextEvent(Settled(p)) /\ closed = "no" /\ blocked = "no"
      /\ UNCHANGED <<closed, blocked, cancelAbort, recoverAbort, stdin, piRun, ended>>
      /\ events # <<>> /\ events' = Tail(events)
      /\ cancelAbort = NoAbort
  BY DEF RecvSettled, Listening, NextEvent, piVars, ChannelInv, AbortsMatch
<1>2. /\ Writing = {} /\ PromptLines = {} /\ piRun = None /\ Settles' = {}
      /\ 1 \in Settles /\ events[1].of = p /\ p \in ended
  BY <1>1, SettledIsLast
<1>3. /\ CancelLines' = CancelLines /\ RecoverLines' = RecoverLines
      /\ PromptLines' = {}
  BY <1>1, <1>2 DEF CancelLines, RecoverLines, PromptLines
<1>4. ASSUME UNCHANGED <<promptRpc, poisoned>>
      PROVE  Shrinks /\ Clean' /\ (Serving' => ServesOneTurn')
  <2>1. Writing' = {}
    BY <1>2, <1>4 DEF Writing
  <2>2. Clean'
    BY <1>1, <1>2, <1>3, <2>1 DEF Clean
  <2>3. Serving' => AbortsAwaited'
    BY <1>1, <1>3, <1>4 DEF ChannelInv, Serving, Live, ServesOneTurn, AbortsAwaited
  <2>4. QED
    BY <1>1, <1>2, <2>1, <2>2, <2>3, CleanServes DEF Shrinks
<1>5. CASE pending = NoTurn /\ recovery.on
           /\ FinishRecoveryIfConfirmed([recovery EXCEPT !.settled = TRUE])
  <2> DEFINE r == [recovery EXCEPT !.settled = TRUE]
  <2>0. r \in Recoveries /\ r.on /\ r.aborted = recovery.aborted
    BY <1>5 DEF TypeOK, Recoveries
  <2>1. PICK rec \in Recoveries : /\ rec = r
                                  /\ rec.on /\ rec.aborted = recovery.aborted
    BY <2>0
  <2>2. rec.aborted => recoverAbort = NoAbort
    BY <1>1, <1>5, <2>1 DEF ControlInv, AbortResultIsCurrent, RetiredIsQuiet, Live
  <2>3. QED
    BY <1>1, <1>2, <1>5, <2>1, <2>2, FinishRecoveryChannel
<1>6. CASE /\ pending # NoTurn
           /\ pending' = [pending EXCEPT !.settledEarly = TRUE]
           /\ UNCHANGED <<poisoned, recovery, promptRpc>>
  <2>1. Serving
    BY <1>1, <1>6 DEF ControlInv, RetiredIsQuiet, Serving, Live
  <2>2. pending.id = p
    BY <1>2, <1>6, <2>1 DEF ChannelInv, ServesOneTurn, TraceOf
  <2>3. pending'.id \in ended
    BY <1>2, <1>6, <2>2 DEF TypeOK, Turns
  <2>4. QED
    BY <1>1, <1>4, <1>6, <2>3, HandlerStep DEF ChannelInv, AbortsMatch
<1>7. CASE pending = NoTurn /\ UNCHANGED <<turnVars, promptRpc>>
  <2>1. ~pending'.settledEarly /\ UNCHANGED poisoned
    BY <1>7 DEF turnVars, NoTurn
  <2>2. QED
    BY <1>1, <1>4, <1>7, <2>1, HandlerStep DEF ChannelInv, AbortsMatch
<1>8. CASE pending # NoTurn /\ SettlePendingTurn(promptRpc) /\ UNCHANGED <<poisoned, recovery>>
  <2>1. Serving /\ ~recovery.on /\ recoverAbort = NoAbort
    BY <1>1, <1>8 DEF ControlInv, RetiredIsQuiet, AbortResultIsCurrent, Serving, Live
  <2>2. CancelLines = {} /\ RecoverLines = {}
    BY <1>1, <2>1, NoAbortLines
  <2>3. /\ StartNext(promptRpc, "Idle") /\ promptRpc \in PromptRpcs
        /\ \A q \in Prompts : promptRpc[q] # "writing"
    BY <1>2, <1>8 DEF SettlePendingTurn, TypeOK, Writing
  <2>4. /\ Writing' \subseteq {pending'.id} /\ (pending' = NoTurn => Writing' = {})
        /\ ~pending'.settledEarly
    BY <2>3, StartNextTrace
  <2>5. QED
    BY <1>1, <1>2, <1>3, <1>8, <2>1, <2>2, <2>4, NextTurnStep
<1>9. QED
  BY <1>5, <1>6, <1>7, <1>8 DEF RecvSettled

LEMMA RecvToolEventChannel ==
    ASSUME TypeOK, ChannelInv, NEW t \in Tools, RecvToolEvent(t)
    PROVE  ChannelInv'
<1>1. /\ events # <<>> /\ events' = Tail(events)
      /\ UNCHANGED <<closed, blocked, poisoned, pending, recovery, promptRpc, cancelAbort,
                     recoverAbort, stdin, piRun, ended>>
  BY DEF RecvToolEvent, NextEvent, turnVars, rpcVars, piVars
<1>2. Shrinks
  BY <1>1 DEF Shrinks, Writing
<1>3. QED
  BY <1>1, <1>2, QuietStep

LEMMA RecvPromptResultChannel ==
    ASSUME TypeOK, ControlInv, ChannelInv, NEW p \in Prompts, RecvPromptResult(p)
    PROVE  ChannelInv'
<1> DEFINE received == [promptRpc EXCEPT ![p] = "none"]
<1>1. /\ closed = "no" /\ blocked = "no" /\ cancelAbort = NoAbort
      /\ UNCHANGED <<closed, blocked, cancelAbort, recoverAbort, stdin, events, piRun, ended>>
      /\ p # None
  BY PumpAssumption DEF RecvPromptResult, Listening, piVars, ChannelInv, AbortsMatch
<1>2. /\ received \in PromptRpcs /\ received[p] = "none"
      /\ \A q \in Prompts : received[q] \in {"none", promptRpc[q]}
  BY DEF TypeOK, PromptRpcs, RpcState
<1>3. ASSUME promptRpc' = received
      PROVE  Shrinks /\ \A q \in Prompts : promptRpc'[q] = "ok" => promptRpc[q] = "ok"
  BY <1>1, <1>2, <1>3 DEF Shrinks, Writing
<1>4. CASE pending.id # p /\ promptRpc' = received /\ UNCHANGED turnVars
  BY <1>1, <1>3, <1>4, QuietStep DEF turnVars
<1>5. CASE /\ pending.id = p /\ promptRpc[p] = "ok"
           /\ p \in flagged \/ pending.settledEarly
           /\ SettlePendingTurn(received) /\ UNCHANGED <<poisoned, recovery>>
  <2>1. pending # NoTurn
    BY <1>1, <1>5 DEF NoTurn
  <2>2. Serving /\ ~recovery.on /\ recoverAbort = NoAbort
    BY <1>1, <2>1 DEF ControlInv, RetiredIsQuiet, AbortResultIsCurrent, Serving, Live
  <2>3. CancelLines = {} /\ RecoverLines = {} /\ TraceOf(pending.id)
    BY <1>1, <2>1, <2>2, NoAbortLines DEF ChannelInv, ServesOneTurn
  <2>4. Clean
    <3>1. CASE pending.settledEarly
      BY <3>1 DEF ChannelInv, RunsAreReal
    <3>2. CASE p \in flagged
      <4>1. p \in ExtPrompts /\ TraceOf(p)
        BY <1>5, <2>3, <3>2 DEF TypeOK
      <4>2. Writing = {}
        BY <1>5, <4>1 DEF TraceOf, Writing
      <4>3. PromptLines = {}
        BY <1>5, <4>1 DEF TraceOf, ChannelInv, RunsAreReal
      <4>4. piRun = None
        BY <4>1 DEF TraceOf, ChannelInv, RunsAreReal
      <4>5. Settles = {}
        BY <4>1 DEF TraceOf, ChannelInv, RunsAreReal
      <4>6. QED
        BY <4>2, <4>3, <4>4, <4>5 DEF Clean
    <3>3. QED
      BY <1>5, <3>1, <3>2
  <2>5. StartNext(received, "Idle") /\ \A q \in Prompts : received[q] # "writing"
    BY <1>2, <1>5, <2>4 DEF SettlePendingTurn, Clean, Writing
  <2>6. /\ Writing' \subseteq {pending'.id} /\ (pending' = NoTurn => Writing' = {})
        /\ ~pending'.settledEarly
    BY <1>2, <2>5, StartNextTrace
  <2>7. /\ CancelLines' = {} /\ RecoverLines' = {} /\ PromptLines' = {} /\ Settles' = {}
        /\ piRun' = None
    BY <1>1, <2>3, <2>4 DEF CancelLines, RecoverLines, PromptLines, Settles, Clean
  <2>8. QED
    BY <1>1, <1>5, <2>2, <2>6, <2>7, NextTurnStep
<1>6. CASE /\ pending.id = p /\ ~pending.settledEarly
           /\ pending' = [pending EXCEPT !.accepted = TRUE]
           /\ promptRpc' = received /\ UNCHANGED <<poisoned, recovery>>
  <2>1. pending # NoTurn /\ pending'.id = pending.id /\ ~pending'.settledEarly /\ pending' # NoTurn
    BY <1>1, <1>6 DEF NoTurn, TypeOK, Turns
  <2>2. Serving /\ ~recovery.on
    BY <1>1, <2>1 DEF ControlInv, RetiredIsQuiet, Serving, Live
  <2>3. Shrinks /\ \A q : TraceOf(q) => TraceOf(q)'
    BY <1>3, <1>6, ShrinkKeeps DEF Keeps
  <2>4. TraceOf(p)'
    BY <1>6, <2>1, <2>2, <2>3 DEF ChannelInv, ServesOneTurn
  <2>5. TraceOf(pending.id)'
    BY <1>6, <2>1, <2>4 DEF TraceOf
  <2>6. CancelLines' = CancelLines /\ RecoverLines' = RecoverLines
    BY <1>1 DEF CancelLines, RecoverLines
  <2>7. ServesOneTurn'
    BY <1>1, <1>6, <2>1, <2>2, <2>5, <2>6 DEF ChannelInv, ServesOneTurn, AbortsAwaited
  <2>8. QED
    BY <1>1, <1>3, <1>6, <2>1, <2>7, HandlerStep DEF ChannelInv, AbortsMatch
<1>7. CASE Retire("Rejected") /\ promptRpc' = received
  BY <1>1, <1>3, <1>7, RetiredStep, RetirePoisons
<1>8. QED
  BY <1>4, <1>5, <1>6, <1>7 DEF RecvPromptResult

LEMMA SettleTimeoutChannel ==
    ASSUME TypeOK, ControlInv, ChannelInv, SettleTimeout
    PROVE  ChannelInv'
<1>1. /\ closed = "no" /\ blocked = "no" /\ cancelAbort = NoAbort
      /\ UNCHANGED <<closed, blocked, poisoned, cancelAbort, promptRpc, stdin, events, piRun,
                     ended>>
  BY DEF SettleTimeout, Listening, piVars, ChannelInv, AbortsMatch
<1>2. CASE pending = NoTurn
  <2>1. UNCHANGED channelVars
    BY <1>1, <1>2 DEF SettleTimeout, channelVars
  <2>2. QED
    BY <1>1, <2>1, ChannelUnchanged
<1>3. CASE pending # NoTurn
  <2>1. /\ pending' = NoTurn /\ recovery'.on /\ ~recovery'.settled
        /\ recoverAbort' \in {recoverAbort, [state |-> "writing", turn |-> pending.id]}
    BY <1>3 DEF SettleTimeout
  <2>2. Serving /\ recoverAbort = NoAbort
    BY <1>1, <1>3 DEF ControlInv, RetiredIsQuiet, AbortResultIsCurrent, Serving, Live
  <2>3. CancelLines = {} /\ RecoverLines = {} /\ TraceOf(pending.id)
    BY <1>1, <1>3, <2>2, NoAbortLines DEF ChannelInv, ServesOneTurn
  <2>4. CancelLines' = {} /\ RecoverLines' = {}
    BY <1>1, <2>3 DEF CancelLines, RecoverLines
  <2>5. Shrinks
    BY <1>1 DEF Shrinks, Writing
  <2>6. ServesOneTurn'
    BY <2>1, <2>4 DEF ServesOneTurn, AbortsAwaited
  <2>7. recoverAbort'.state = "writing" => TraceOf(recoverAbort'.turn)
    BY <2>1, <2>2, <2>3 DEF NoAbort
  <2>8. ~pending'.settledEarly
    BY <2>1 DEF NoTurn
  <2>9. QED
    BY <1>1, <2>5, <2>6, <2>7, <2>8, HandlerStep DEF ChannelInv, AbortsMatch
<1>4. QED
  BY <1>2, <1>3

LEMMA RecvRecoverAbortChannel ==
    ASSUME TypeOK, ControlInv, ChannelInv, RecvRecoverAbort
    PROVE  ChannelInv'
<1>1. /\ Listening /\ closed = "no" /\ blocked = "no" /\ recoverAbort' = NoAbort
      /\ recoverAbort # NoAbort
      /\ UNCHANGED <<closed, blocked, cancelAbort, stdin, events, piRun, ended>>
  BY DEF RecvRecoverAbort, Listening, piVars, NoAbort
<1>2. CASE ~recovery.on /\ UNCHANGED <<turnVars, promptRpc>>
  <2>1. poisoned /\ pending = NoTurn
    BY <1>1, <1>2 DEF ControlInv, AbortResultIsCurrent, RetiredIsQuiet, Live
  <2>2. poisoned' /\ ~pending'.settledEarly /\ Shrinks
    BY <1>1, <1>2, <2>1 DEF turnVars, NoTurn, Shrinks, Writing
  <2>3. QED
    BY <1>1, <1>2, <2>2, RetiredStep
<1>3. CASE /\ recovery.on /\ recoverAbort.state = "ok"
           /\ FinishRecoveryIfConfirmed([recovery EXCEPT !.aborted = TRUE])
  <2> DEFINE r == [recovery EXCEPT !.aborted = TRUE]
  <2>0. r \in Recoveries /\ r.on /\ r.settled = recovery.settled
    BY <1>3 DEF TypeOK, Recoveries
  <2>1. PICK rec \in Recoveries : /\ rec = r
                                  /\ rec.on /\ rec.settled = recovery.settled
    BY <2>0
  <2>2. Serving
    BY <1>1, <1>3 DEF ControlInv, RetiredIsQuiet, Serving, Live
  <2>3. RecoverLines = {} /\ Settles' = Settles
    BY <1>1, <1>3, <2>2, NoAbortLines DEF Settles
  <2>4. rec.settled => Writing = {} /\ PromptLines = {} /\ piRun = None /\ Settles' = {}
    BY <1>3, <2>1, <2>2, <2>3 DEF ChannelInv, ServesOneTurn, Clean
  <2>5. QED
    BY <1>1, <1>3, <2>1, <2>3, <2>4, FinishRecoveryChannel
<1>4. CASE PoisonRecovery
  <2>1. Retire("SessionClosed") /\ UNCHANGED promptRpc
    BY <1>4 DEF PoisonRecovery
  <2>2. Shrinks
    BY <1>1, <2>1 DEF Shrinks, Writing
  <2>3. QED
    BY <1>1, <2>1, <2>2, RetiredStep, RetirePoisons
<1>5. QED
  BY <1>2, <1>3, <1>4 DEF RecvRecoverAbort

LEMMA RecoverTimeoutChannel ==
    ASSUME TypeOK, ControlInv, ChannelInv, RecoverTimeout
    PROVE  ChannelInv'
<1> DEFINE result == recoverAbort.state
           seen == [recovery EXCEPT
                      !.aborted = recovery.aborted \/ result = "ok",
                      !.settled = @ \/ \E e \in Range(events) : e.kind = "settled"]
<1>1. /\ Listening /\ closed = "no" /\ blocked = "no" /\ recovery.on
      /\ UNCHANGED <<closed, blocked, cancelAbort, stdin, piRun, ended>>
      /\ events' \in {events, <<>>}
      /\ recoverAbort' \in {recoverAbort, NoAbort}
      /\ result \notin {"ok", "err"} => recoverAbort' = recoverAbort
      /\ result \in {"ok", "err"} => recoverAbort' = NoAbort
  BY DEF RecoverTimeout, Listening, piVars
<1>2. CASE PoisonRecovery
  <2>1. Retire("SessionClosed") /\ UNCHANGED promptRpc
    BY <1>2 DEF PoisonRecovery
  <2>2. Shrinks
    BY <1>1, <2>1 DEF Shrinks, Writing
  <2>3. QED
    BY <1>1, <2>1, <2>2, RetiredStep, RetirePoisons
<1>3. CASE /\ result # "err" /\ seen.aborted /\ seen.settled
           /\ FinishRecoveryIfConfirmed(seen)
           /\ ~recovery.settled => events' = <<>>
  <2>1. seen \in Recoveries /\ seen.on
    BY <1>1 DEF TypeOK, Recoveries
  <2>2. Serving
    BY <1>1 DEF ControlInv, RetiredIsQuiet, Serving, Live
  <2>3. recovery.aborted \/ result = "ok"
    BY <1>3 DEF TypeOK, Recoveries
  <2>4. recoverAbort' = NoAbort /\ RecoverLines = {}
    <3>1. CASE recovery.aborted
      <4>1. recoverAbort = NoAbort
        BY <1>1, <2>2, <3>1 DEF ControlInv, AbortResultIsCurrent, Serving
      <4>2. QED
        BY <1>1, <2>2, <4>1, NoAbortLines DEF NoAbort
    <3>2. CASE result = "ok"
      BY <1>1, <2>2, <3>2, NoAbortLines
    <3>3. QED
      BY <2>3, <3>1, <3>2
  <2>5. Writing = {} /\ PromptLines = {} /\ piRun = None /\ Settles' = {}
    <3>1. CASE recovery.settled
      <4>1. Clean
        BY <1>1, <2>2, <3>1 DEF ChannelInv, ServesOneTurn
      <4>2. Settles' = {}
        BY <1>1, <4>1 DEF Clean, Settles
      <4>3. QED
        BY <4>1, <4>2 DEF Clean
    <3>2. CASE ~recovery.settled
      <4>1. \E e \in Range(events) : e.kind = "settled"
        BY <1>3, <3>2 DEF TypeOK, Recoveries
      <4>2. Settles # {}
        BY <4>1 DEF Settles, Range
      <4>3. Settles' = {}
        BY <1>3, <3>2 DEF Settles
      <4>4. QED
        BY <4>2, <4>3 DEF ChannelInv, OneTrace
    <3>3. QED
      BY <3>1, <3>2
  <2>6. QED
    BY <1>1, <1>3, <2>1, <2>4, <2>5, FinishRecoveryChannel
<1>4. QED
  <2>1. \/ PoisonRecovery
        \/ result # "err" /\ seen.aborted /\ seen.settled /\ FinishRecoveryIfConfirmed(seen)
    BY DEF RecoverTimeout
  <2>2. result # "err" /\ ~recovery.settled => events' = <<>>
    BY DEF RecoverTimeout
  <2>3. QED
    BY <1>2, <1>3, <2>1, <2>2

LEMMA StopChannel ==
    ASSUME TypeOK, ChannelInv, RecvShutdown \/ StreamEnd
    PROVE  ChannelInv'
<1>1. /\ blocked = "no" /\ blocked' = "no" /\ pending' = NoTurn /\ closed' # "no"
      /\ events' = <<>> /\ stdin' = <<>> /\ piRun' = None
      /\ UNCHANGED <<promptRpc, cancelAbort, recoverAbort>>
  BY DEF RecvShutdown, StreamEnd, Stop, Listening, rpcVars
<1>2. /\ PromptLines' = {} /\ Settles' = {} /\ CancelLines' = {} /\ RecoverLines' = {}
      /\ Writing' = Writing
  BY <1>1 DEF PromptLines, Settles, CancelLines, RecoverLines, Writing
<1>3. OneTrace' /\ \A q : TraceOf(q) => TraceOf(q)'
  BY <1>1, <1>2 DEF OneTrace, TraceOf, ChannelInv
<1>4. AbortsMatch'
  <2>1. ASSUME recoverAbort.state = "writing" PROVE TraceOf(recoverAbort.turn)'
    <3>1. PICK q : q = recoverAbort.turn
      OBVIOUS
    <3>2. TraceOf(q)'
      BY <1>3, <2>1, <3>1 DEF ChannelInv, AbortsMatch
    <3>3. QED
      BY <1>1, <3>1, <3>2 DEF TraceOf
  <2>2. QED
    BY <1>1, <1>2, <2>1 DEF ChannelInv, AbortsMatch, NoAbort
<1>5. ~Serving'
  BY <1>1 DEF Serving, Live
<1>6. RunsAreReal'
  BY <1>1, <1>2, PumpAssumption DEF RunsAreReal, NoTurn
<1>7. QED
  BY <1>3, <1>4, <1>5, <1>6 DEF ChannelInv

-----------------------------------------------------------------------------
LEMMA InitChannel == Init => ChannelInv
<1> SUFFICES ASSUME Init PROVE ChannelInv
  OBVIOUS
<1>1. /\ Writing = {} /\ PromptLines = {} /\ Settles = {} /\ CancelLines = {}
      /\ RecoverLines = {} /\ piRun = None
  BY DEF Init, Writing, PromptLines, Settles, CancelLines, RecoverLines
<1>2. OneTrace /\ Clean
  BY <1>1 DEF OneTrace, Clean
<1>3. AbortsMatch
  BY <1>1 DEF Init, AbortsMatch, NoAbort
<1>4. ServesOneTurn
  BY <1>1, <1>2 DEF Init, ServesOneTurn, AbortsAwaited
<1>5. RunsAreReal
  BY <1>1, PumpAssumption DEF Init, RunsAreReal, NoTurn
<1>6. QED
  BY <1>2, <1>3, <1>4, <1>5 DEF ChannelInv

\* The channel invariant holds until pi settles without a run.
ChannelClean == ~strayed => ChannelInv

\* What pi settled without a run is not taken back.
LEMMA StrayedStays == TypeOK /\ [Next]_vars /\ ~strayed' => ~strayed
BY DEF TypeOK, Next, vars, piVars, Submit, Cancel, Dispose, RecvPrompt, RecvCancel,
   RequestAbort, AbortAnswered, RecvSettled, RecvPromptResult, RecvRecoverAbort,
   RecoverTimeout, SettleTimeout, RecvShutdown, StreamEnd, Stop, WriteAbort,
   AbortRequestFails, WritePrompt, PromptRequestFails, PiTakesPrompt, PiAnswersPrompt,
   PiTakesAbort, PiSettles, PiExits, PiStartsTool, PiEndsTool, RecvToolEvent

LEMMA StepChannel ==
    TypeOK /\ ControlInv /\ ChannelInv /\ [Next]_vars /\ ~strayed' => ChannelInv'
<1> SUFFICES ASSUME TypeOK, ControlInv, ChannelInv, [Next]_vars, ~strayed'
             PROVE  ChannelInv'
  OBVIOUS
<1>1. CASE \/ \E p \in Prompts, flag \in BOOLEAN : Submit(p, flag)
           \/ Cancel \/ Dispose \/ UNCHANGED vars
  <2>1. UNCHANGED channelVars /\ UNCHANGED blocked
    BY <1>1 DEF Submit, Cancel, Dispose, vars, channelVars, turnVars, rpcVars, piVars
  <2>2. QED
    BY <2>1, ChannelUnchanged DEF ChannelInv, AbortsMatch
<1>2. CASE \E p \in Prompts : RecvPrompt(p)
  BY <1>2, RecvPromptChannel
<1>3. CASE RecvCancel \/ RequestAbort \/ AbortAnswered
  BY <1>3, CancelChannel
<1>4. CASE \E p \in Prompts : RecvSettled(p)
  BY <1>4, RecvSettledChannel
<1>5. CASE \E t \in Tools : RecvToolEvent(t)
  BY <1>5, RecvToolEventChannel
<1>6. CASE \E p \in Prompts : RecvPromptResult(p)
  BY <1>6, RecvPromptResultChannel
<1>7. CASE SettleTimeout \/ RecvRecoverAbort \/ RecoverTimeout
  BY <1>7, SettleTimeoutChannel, RecvRecoverAbortChannel, RecoverTimeoutChannel
<1>8. CASE RecvShutdown \/ StreamEnd
  BY <1>8, StopChannel
<1>9. CASE \/ WriteAbort \/ AbortRequestFails
           \/ \E p \in Prompts : WritePrompt(p) \/ PromptRequestFails(p)
  BY <1>9, WritePromptChannel, WriteAbortChannel, RequestFailsChannel
<1>10. CASE \/ \E p \in Prompts : PiTakesPrompt(p) \/ PiAnswersPrompt(p) \/ PiTakesAbort(p)
            \/ PiExits
  BY <1>10, PiTakesPromptChannel, PiAnswersPromptChannel, PiTakesAbortChannel,
     PiExitsChannel
<1>11. CASE PiSettles \/ \E t \in Tools : PiStartsTool(t) \/ PiEndsTool(t)
  BY <1>11, PiRunsChannel
<1>12. QED
  BY <1>1, <1>2, <1>3, <1>4, <1>5, <1>6, <1>7, <1>8, <1>9, <1>10, <1>11 DEF Next

\* While pi settles runs and nothing else, a turn leaves one trace between the pump and
\* pi, the aborts are of that turn, and none is left when the next turn may start
\* (start_turn, on_cancel, on_settle_timeout, finish_recovery_if_confirmed).
THEOREM ChannelHolds == Spec => []ChannelClean
<1>1. Init => ChannelClean
  BY InitChannel DEF ChannelClean
<1>2. TypeOK /\ ControlInv /\ ChannelClean /\ [Next]_vars => ChannelClean'
  BY StepChannel, StrayedStays DEF ChannelClean
<1>3. QED
  BY <1>1, <1>2, TypeCorrect, ControlHolds, PTL DEF Spec

LEMMA AtMostOne ==
    ASSUME NEW S, \A x, y \in S : x = y
    PROVE  Cardinality(S) <= 1
<1>1. CASE S = {}
  BY <1>1, FS_EmptySet
<1>2. CASE S # {}
  <2>1. PICK x : S = {x}
    BY <1>2
  <2>2. QED
    BY <2>1, FS_Singleton
<1>3. QED
  BY <1>1, <1>2

LEMMA ChannelOneTurn == TypeOK /\ ChannelInv => OneTurnAtPi
<1> SUFFICES ASSUME TypeOK, ChannelInv PROVE OneTurnAtPi
  OBVIOUS
<1> DEFINE AtPi == {p \in Prompts : \/ promptRpc[p] = "writing"
                                    \/ PromptLine(p) \in Range(stdin)
                                    \/ piRun = p}
<1>1. \A p \in AtPi : p \in Writing \/ (\E i \in PromptLines : stdin[i].turn = p)
                      \/ (piRun = p /\ piRun # None)
  BY PumpAssumption DEF Writing, PromptLines, PromptLine, Range
<1>2. ASSUME NEW p \in AtPi, NEW q \in AtPi PROVE p = q
  BY <1>1 DEF ChannelInv, OneTrace
<1>3. QED
  BY <1>2, AtMostOne DEF OneTurnAtPi

LEMMA ChannelAborts == TypeOK /\ ChannelInv => AbortsHitTheirTurn
<1> SUFFICES ASSUME TypeOK, ChannelInv, NEW i \in DOMAIN stdin, stdin[i].op # "prompt"
             PROVE  /\ piRun \in {None, stdin[i].turn}
                    /\ \A j \in DOMAIN stdin : j < i /\ stdin[j].op = "prompt"
                                                  => stdin[j].turn = stdin[i].turn
  BY DEF AbortsHitTheirTurn
<1>1. stdin[i].op \in {"prompt", "cancelAbort", "recoverAbort"}
  <2>1. stdin \in Seq(Lines)
    BY DEF TypeOK
  <2>2. stdin[i] \in Lines
    BY <2>1
  <2>3. QED
    BY <2>2 DEF Lines
<1>2. TraceOf(stdin[i].turn)
  BY <1>1 DEF CancelLines, RecoverLines, ChannelInv, AbortsMatch
<1>3. QED
  BY <1>2 DEF TraceOf, PromptLines

\* pi only ever sees one turn, and an abort only that one's, however many turns
\* were cancelled, timed out or failed (start_turn, on_cancel,
\* finish_recovery_if_confirmed), as long as pi settles runs and nothing else.
THEOREM OneTurnHolds == Spec => []TurnsAtPi
<1>1. TypeOK /\ ChannelClean => TurnsAtPi
  BY ChannelOneTurn, ChannelAborts DEF TurnsAtPi, ChannelClean
<1>2. QED
  BY <1>1, TypeCorrect, ChannelHolds, PTL

-----------------------------------------------------------------------------
(* How the callers' outcomes move.                                         *)

\* Only settle_pending_turn reports a normal end.
LEMMA NewEndTurn ==
    ASSUME TypeOK, [Next]_vars, NEW p \in Prompts,
           outcome'[p] = "EndTurn", outcome[p] # "EndTurn"
    PROVE  /\ pending.id = p /\ pending # NoTurn /\ ~cancelRequested /\ closed = "no"
           /\ blocked = "no"
           /\ \/ \E q \in Prompts : RecvSettled(q)
              \/ promptRpc[p] = "ok" /\ (p \in flagged \/ pending.settledEarly)
           /\ UNCHANGED <<ended, flagged>>
<1> USE DEF TypeOK, Outcomes
<1>1. ASSUME NEW rpc, SettlePendingTurn(rpc) PROVE pending.id = p /\ ~cancelRequested
  BY <1>1 DEF SettlePendingTurn, Resolve
<1>2. ASSUME NEW r, r # "EndTurn", Retire(r) PROVE FALSE
  BY <1>2 DEF Retire
<1>3. ASSUME PoisonRecovery PROVE FALSE
  BY <1>2, <1>3 DEF PoisonRecovery
<1>4. ASSUME NEW rec, FinishRecoveryIfConfirmed(rec) PROVE FALSE
  BY <1>4 DEF FinishRecoveryIfConfirmed
<1>5. ASSUME \/ \E q \in Prompts, flag \in BOOLEAN : Submit(q, flag)
             \/ Cancel \/ Dispose \/ UNCHANGED vars
      PROVE  FALSE
  BY <1>5 DEF Submit, Cancel, Dispose, vars, clientVars
<1>6. ASSUME \/ \E q \in Prompts : RecvPrompt(q)
             \/ RecvCancel \/ RequestAbort
      PROVE  FALSE
  BY <1>6 DEF RecvPrompt, RecvCancel, RequestAbort, Resolve, clientVars
<1>7. ASSUME AbortAnswered PROVE FALSE
  BY <1>2, <1>7 DEF AbortAnswered
<1>8. ASSUME NEW q \in Prompts, RecvSettled(q)
      PROVE  /\ pending.id = p /\ pending # NoTurn /\ ~cancelRequested /\ closed = "no"
             /\ blocked = "no" /\ UNCHANGED <<ended, flagged>>
  BY <1>1, <1>4, <1>8 DEF RecvSettled, Listening, piVars
<1>9. ASSUME NEW q \in Prompts, RecvPromptResult(q)
      PROVE  /\ pending.id = p /\ pending # NoTurn /\ ~cancelRequested /\ closed = "no"
             /\ blocked = "no"
             /\ promptRpc[p] = "ok" /\ (p \in flagged \/ pending.settledEarly)
             /\ UNCHANGED <<ended, flagged>>
  BY <1>1, <1>2, <1>9, PumpAssumption DEF RecvPromptResult, Listening, piVars, NoTurn
<1>10. ASSUME RecvRecoverAbort \/ RecoverTimeout \/ SettleTimeout PROVE FALSE
  BY <1>3, <1>4, <1>10 DEF RecvRecoverAbort, RecoverTimeout, SettleTimeout, Resolve
<1>11. ASSUME RecvShutdown \/ StreamEnd PROVE FALSE
  BY <1>11 DEF RecvShutdown, StreamEnd, Stop
<1>12. ASSUME \/ WriteAbort \/ AbortRequestFails
              \/ \E q \in Prompts : \/ WritePrompt(q) \/ PromptRequestFails(q)
                                    \/ PiTakesPrompt(q) \/ PiAnswersPrompt(q)
                                    \/ PiTakesAbort(q)
              \/ PiSettles \/ PiExits
              \/ \E t \in Tools : PiStartsTool(t) \/ PiEndsTool(t) \/ RecvToolEvent(t)
       PROVE  FALSE
  BY <1>12 DEF WriteAbort, AbortRequestFails, WritePrompt, PromptRequestFails,
     PiTakesPrompt, PiAnswersPrompt, PiTakesAbort, PiSettles, PiExits, PiStartsTool,
     PiEndsTool, RecvToolEvent, clientVars
<1>13. QED
  BY <1>5, <1>6, <1>7, <1>8, <1>9, <1>10, <1>11, <1>12 DEF Next

LEMMA EndedGrows ==
    ASSUME [Next]_vars
    PROVE  ended \subseteq ended' /\ flagged \subseteq flagged'
BY DEF Next, vars, clientVars, piVars, Submit, Cancel, Dispose, RecvPrompt, RecvCancel,
   RequestAbort, AbortAnswered, RecvSettled, RecvPromptResult, RecvRecoverAbort,
   RecoverTimeout, SettleTimeout, RecvShutdown, StreamEnd, Stop, WriteAbort,
   AbortRequestFails, WritePrompt, PromptRequestFails, PiTakesPrompt, PiAnswersPrompt,
   PiTakesAbort, PiSettles, PiExits, PiStartsTool, PiEndsTool, RecvToolEvent

LEMMA StepEarned ==
    TypeOK /\ ControlInv /\ ChannelClean /\ EndTurnEarned /\ [Next]_vars => EndTurnEarned'
<1> SUFFICES ASSUME TypeOK, ControlInv, ChannelClean, EndTurnEarned, [Next]_vars, ~strayed',
                    NEW p \in Prompts, outcome'[p] = "EndTurn"
             PROVE  p \in ended' \cup flagged'
  BY DEF EndTurnEarned, StaleSettleNeverCompletes
<1>0. ChannelInv /\ StaleSettleNeverCompletes
  BY StrayedStays DEF ChannelClean, EndTurnEarned
<1>1. CASE outcome[p] = "EndTurn"
  BY <1>0, <1>1, EndedGrows DEF StaleSettleNeverCompletes
<1>2. CASE outcome[p] # "EndTurn"
  <2>1. /\ pending.id = p /\ pending # NoTurn /\ closed = "no"
        /\ \/ \E q \in Prompts : RecvSettled(q)
           \/ promptRpc[p] = "ok" /\ (p \in flagged \/ pending.settledEarly)
        /\ UNCHANGED <<ended, flagged>>
    BY <1>2, NewEndTurn
  <2>2. CASE p \in flagged
    BY <2>1, <2>2
  <2>3. CASE pending.settledEarly
    BY <1>0, <2>1, <2>3 DEF ChannelInv, RunsAreReal
  <2>4. ASSUME NEW q \in Prompts, RecvSettled(q) PROVE p \in ended
    <3>1. Serving
      BY <2>1 DEF ControlInv, RetiredIsQuiet, Serving, Live
    <3>2. 1 \in Settles /\ events[1].of = q /\ q \in ended
      BY <1>0, <2>4, SettledIsLast DEF RecvSettled
    <3>3. QED
      BY <1>0, <2>1, <3>1, <3>2 DEF ChannelInv, ServesOneTurn, TraceOf
  <2>5. QED
    BY <2>1, <2>2, <2>3, <2>4
<1>3. QED
  BY <1>1, <1>2

\* A prompt reports a normal end only after a settle of its own run, or for an
\* extension command its response: the untagged agent_settled of an earlier turn
\* never completes a later one (on_agent_settled, on_prompt_result).  It is so as
\* long as pi settles runs and nothing else.
THEOREM EarnedHolds == Spec => []EndTurnEarned
<1>1. Init => EndTurnEarned
  BY DEF Init, EndTurnEarned, StaleSettleNeverCompletes
<1>2. QED
  BY <1>1, TypeCorrect, ControlHolds, ChannelHolds, StepEarned, PTL DEF Spec

-----------------------------------------------------------------------------
(* Where an unresolved prompt is.                                          *)

Sent == {p \in Prompts : PromptCmd(p) \in Range(cmds)}
Queued == Range(queue)

\* No prompt is in two places or twice in one, and one that is in any has a caller
\* that waits.
OnePlace ==
    /\ \A i, j \in DOMAIN cmds : cmds[i] = cmds[j] /\ cmds[i].op = "prompt" => i = j
    /\ \A i, j \in DOMAIN queue : queue[i] = queue[j] => i = j
    /\ Sent \cap Queued = {}
    /\ pending.id \notin Sent \cup Queued
    /\ \A p \in Prompts : outcome[p] = "waiting" <=> p \in Sent \cup Queued \cup {pending.id}

LEMMA HeadAndTail ==
    ASSUME NEW S, NEW s \in Seq(S), s # <<>>
    PROVE  /\ \A i \in DOMAIN Tail(s) : /\ i \in Int /\ i + 1 \in DOMAIN s /\ i + 1 # 1
                                        /\ Tail(s)[i] = s[i + 1]
           /\ 1 \in DOMAIN s /\ s[1] = Head(s) /\ Head(s) \in Range(s)
           /\ \A x : x \in Range(s) <=> x = Head(s) \/ x \in Range(Tail(s))
<1>1. /\ DOMAIN s = 1 .. Len(s) /\ DOMAIN Tail(s) = 1 .. (Len(s) - 1) /\ Len(s) \in Nat
      /\ \A i \in DOMAIN Tail(s) : Tail(s)[i] = s[i + 1]
      /\ s[1] = Head(s) /\ 1 \in DOMAIN s
  OBVIOUS
<1>2. ASSUME NEW x \in Range(s) PROVE x = Head(s) \/ x \in Range(Tail(s))
  <2>1. PICK i \in DOMAIN s : x = s[i]
    BY DEF Range
  <2>2. CASE i = 1
    BY <1>1, <2>1, <2>2
  <2>3. CASE i # 1
    <3>1. i - 1 \in DOMAIN Tail(s) /\ (i - 1) + 1 = i
      BY <1>1, <2>3
    <3>2. x = Tail(s)[i - 1]
      BY <1>1, <2>1, <3>1
    <3>3. QED
      BY <3>1, <3>2 DEF Range
  <2>4. QED
    BY <2>2, <2>3
<1>3. \A i \in DOMAIN Tail(s) : i \in Int /\ i + 1 \in DOMAIN s /\ i + 1 # 1
  BY <1>1
<1>4. QED
  BY <1>1, <1>2, <1>3 DEF Range

LEMMA LastAndFront ==
    ASSUME NEW S, NEW s \in Seq(S), NEW e \in S
    PROVE  /\ \A i \in DOMAIN Append(s, e) : \/ i \in DOMAIN s /\ Append(s, e)[i] = s[i]
                                             \/ i = Len(s) + 1 /\ Append(s, e)[i] = e
           /\ \A x : x \in Range(Append(s, e)) <=> x = e \/ x \in Range(s)
<1>1. /\ DOMAIN s = 1 .. Len(s) /\ DOMAIN Append(s, e) = 1 .. (Len(s) + 1) /\ Len(s) \in Nat
      /\ \A i \in DOMAIN s : Append(s, e)[i] = s[i]
      /\ Append(s, e)[Len(s) + 1] = e
  OBVIOUS
<1>2. \A i \in DOMAIN Append(s, e) : i \in DOMAIN s \/ i = Len(s) + 1
  BY <1>1
<1>3. Len(s) + 1 \in DOMAIN Append(s, e) /\ \A i \in DOMAIN s : i \in DOMAIN Append(s, e)
  BY <1>1
<1>4. QED
  BY <1>1, <1>2, <1>3 DEF Range

LEMMA EmptyRange == Range(<<>>) = {}
BY DEF Range

\* Only the sequences of prompts, the pending turn and the outcomes matter.
LEMMA PlaceUnchanged ==
    ASSUME OnePlace, UNCHANGED <<outcome, cmds, queue>>, pending'.id = pending.id
    PROVE  OnePlace'
BY DEF OnePlace, Sent, Queued

\* A command was sent.
LEMMA SentPlaces ==
    ASSUME TypeOK, OnePlace, NEW c \in Commands, cmds' = Append(cmds, c),
           UNCHANGED <<queue, pending>>,
           \/ c.op # "prompt" /\ UNCHANGED outcome
           \/ \E p \in Prompts : /\ c = PromptCmd(p) /\ outcome[p] = "unsent"
                                 /\ outcome' = [outcome EXCEPT ![p] = "waiting"]
    PROVE  OnePlace'
<1>1. /\ \A i \in DOMAIN cmds' : \/ i \in DOMAIN cmds /\ cmds'[i] = cmds[i]
                                 \/ i = Len(cmds) + 1 /\ cmds'[i] = c
      /\ \A x : x \in Range(cmds') <=> x = c \/ x \in Range(cmds)
  BY LastAndFront DEF TypeOK
<1>2. CASE c.op # "prompt" /\ UNCHANGED outcome
  <2>1. Sent' = Sent
    BY <1>1, <1>2 DEF Sent, PromptCmd
  <2>2. \A i, j \in DOMAIN cmds' : cmds'[i] = cmds'[j] /\ cmds'[i].op = "prompt" => i = j
    BY <1>1, <1>2 DEF OnePlace
  <2>3. QED
    BY <1>2, <2>1, <2>2 DEF OnePlace, Queued
<1>3. ASSUME NEW p \in Prompts, c = PromptCmd(p), outcome[p] = "unsent",
             outcome' = [outcome EXCEPT ![p] = "waiting"]
      PROVE  OnePlace'
  <2>1. p \notin Sent \cup Queued \cup {pending.id}
    BY <1>3 DEF OnePlace
  <2>2. Sent' = Sent \cup {p}
    BY <1>1, <1>3 DEF Sent, PromptCmd
  <2>3. \A i \in DOMAIN cmds : cmds[i] # c
    BY <1>3, <2>1 DEF Sent, Range
  <2>4. \A i, j \in DOMAIN cmds' : cmds'[i] = cmds'[j] /\ cmds'[i].op = "prompt" => i = j
    BY <1>1, <2>3 DEF OnePlace
  <2>5. \A q \in Prompts : outcome'[q] = IF q = p THEN "waiting" ELSE outcome[q]
    BY <1>3 DEF TypeOK, Outcomes
  <2>6. QED
    BY <2>1, <2>2, <2>4, <2>5 DEF OnePlace, Queued
<1>4. QED
  BY <1>2, <1>3

\* A command was taken.
LEMMA TakenPlaces ==
    ASSUME TypeOK, OnePlace, cmds # <<>>, cmds' = Tail(cmds)
    PROVE  /\ \A i, j \in DOMAIN cmds' : cmds'[i] = cmds'[j] /\ cmds'[i].op = "prompt" => i = j
           /\ \A p \in Prompts : Head(cmds) = PromptCmd(p) => p \in Sent /\ Sent' = Sent \ {p}
           /\ Head(cmds).op # "prompt" => Sent' = Sent
<1>1. /\ \A i \in DOMAIN cmds' : /\ i \in Int /\ i + 1 \in DOMAIN cmds /\ i + 1 # 1
                                 /\ cmds'[i] = cmds[i + 1]
      /\ 1 \in DOMAIN cmds /\ cmds[1] = Head(cmds) /\ Head(cmds) \in Range(cmds)
      /\ \A x : x \in Range(cmds) <=> x = Head(cmds) \/ x \in Range(cmds')
  BY HeadAndTail DEF TypeOK
<1>2. ASSUME NEW i \in DOMAIN cmds', NEW j \in DOMAIN cmds',
             cmds'[i] = cmds'[j], cmds'[i].op = "prompt"
      PROVE  i = j
  <2>1. i + 1 = j + 1
    BY <1>1, <1>2 DEF OnePlace
  <2>2. QED
    BY <1>1, <2>1
<1>3. ASSUME NEW p \in Prompts, Head(cmds) = PromptCmd(p)
      PROVE  p \in Sent /\ Sent' = Sent \ {p}
  <2>1. PromptCmd(p) \notin Range(cmds')
    <3>1. ASSUME NEW i \in DOMAIN cmds', cmds'[i] = PromptCmd(p) PROVE FALSE
      <4>1. cmds[i + 1] = cmds[1] /\ cmds[1].op = "prompt" /\ i + 1 # 1 /\ i + 1 \in DOMAIN cmds
        BY <1>1, <1>3, <3>1 DEF PromptCmd
      <4>2. QED
        BY <1>1, <4>1 DEF OnePlace
    <3>2. QED
      BY <3>1 DEF Range
  <2>2. QED
    BY <1>1, <1>3, <2>1 DEF Sent, PromptCmd
<1>4. Head(cmds).op # "prompt" => Sent' = Sent
  BY <1>1 DEF Sent, PromptCmd
<1>5. QED
  BY <1>2, <1>3, <1>4

\* The next queued prompt starts, or nothing does.
LEMMA StartNextPlaces ==
    ASSUME TypeOK, OnePlace, NEW rpc, NEW idle, StartNext(rpc, idle)
    PROVE  /\ \A i, j \in DOMAIN queue' : queue'[i] = queue'[j] => i = j
           /\ pending'.id \notin Queued'
           /\ Queued' \cup ({pending'.id} \cap Prompts) = Queued
           /\ pending'.id \in Prompts \cup {None}
<1>1. queue \in Seq(Prompts) /\ Queued \subseteq Prompts
  BY DEF TypeOK, Queued, Range
<1>2. CASE queue = <<>>
  BY <1>1, <1>2, PumpAssumption DEF StartNext, NoTurn, OnePlace, Queued
<1>3. CASE queue # <<>>
  <2>1. pending'.id = Head(queue) /\ queue' = Tail(queue) /\ Head(queue) \in Prompts
    BY <1>1, <1>3 DEF StartNext, StartTurn, Fresh
  <2>2. /\ \A i \in DOMAIN queue' : /\ i \in Int /\ i + 1 \in DOMAIN queue /\ i + 1 # 1
                                    /\ queue'[i] = queue[i + 1]
        /\ 1 \in DOMAIN queue /\ queue[1] = Head(queue)
        /\ \A x : x \in Queued <=> x = Head(queue) \/ x \in Queued'
    BY <1>1, <1>3, <2>1, HeadAndTail DEF Queued
  <2>3. ASSUME NEW i \in DOMAIN queue', NEW j \in DOMAIN queue', queue'[i] = queue'[j]
        PROVE  i = j
    <3>1. i + 1 = j + 1
      BY <2>2, <2>3 DEF OnePlace
    <3>2. QED
      BY <2>2, <3>1
  <2>4. \A i \in DOMAIN queue' : queue'[i] # Head(queue)
    BY <2>2 DEF OnePlace
  <2>5. Head(queue) \notin Queued'
    BY <2>4 DEF Queued, Range
  <2>6. QED
    BY <1>1, <2>1, <2>2, <2>3, <2>5
<1>4. QED
  BY <1>2, <1>3

LEMMA FinishRecoveryPlaces ==
    ASSUME TypeOK, OnePlace, pending = NoTurn, UNCHANGED cmds, NEW rec,
           FinishRecoveryIfConfirmed(rec)
    PROVE  OnePlace'
<1>1. CASE StartNext(promptRpc, foreground)
  <2>1. UNCHANGED outcome
    BY DEF FinishRecoveryIfConfirmed
  <2>2. Sent' = Sent /\ pending.id = None /\ Sent \subseteq Prompts
    BY DEF Sent, NoTurn
  <2>3. QED
    BY <1>1, <2>1, <2>2, StartNextPlaces, PumpAssumption DEF OnePlace
<1>2. CASE UNCHANGED <<pending, queue>>
  BY <1>2, PlaceUnchanged DEF FinishRecoveryIfConfirmed
<1>3. QED
  BY <1>1, <1>2 DEF FinishRecoveryIfConfirmed

LEMMA SettlePlaces ==
    ASSUME TypeOK, OnePlace, UNCHANGED cmds, NEW rpc, SettlePendingTurn(rpc)
    PROVE  OnePlace'
<1>1. StartNext(rpc, "Idle") /\ Sent' = Sent /\ Sent \subseteq Prompts
  BY DEF SettlePendingTurn, Sent
<1>2. \A p \in Prompts : outcome'[p] = IF p = pending.id
                                       THEN IF cancelRequested THEN "Cancelled" ELSE "EndTurn"
                                       ELSE outcome[p]
  BY DEF SettlePendingTurn, Resolve
<1>3. QED
  BY <1>1, <1>2, StartNextPlaces, PumpAssumption DEF OnePlace

LEMMA RetirePlaces ==
    ASSUME TypeOK, OnePlace, UNCHANGED cmds, NEW r \in Results, Retire(r)
    PROVE  OnePlace'
<1>1. /\ \A p \in Prompts : outcome'[p] = IF p = pending.id THEN r
                                          ELSE IF p \in Queued THEN "SessionClosed"
                                          ELSE outcome[p]
      /\ pending'.id = None /\ queue' = <<>> /\ Sent' = Sent
  BY DEF Retire, NoTurn, Queued, Sent
<1>2. Queued' = {} /\ Sent \subseteq Prompts
  BY <1>1, EmptyRange DEF Queued, Sent
<1>3. r # "waiting"
  BY DEF Results
<1>4. QED
  BY <1>1, <1>2, <1>3, PumpAssumption DEF OnePlace

LEMMA ClientPlaces ==
    ASSUME TypeOK, OnePlace,
           \/ \E p \in Prompts, flag \in BOOLEAN : Submit(p, flag)
           \/ Cancel \/ Dispose
    PROVE  OnePlace'
<1>1. ASSUME NEW p \in Prompts, NEW flag \in BOOLEAN, Submit(p, flag) PROVE OnePlace'
  <2>1. UNCHANGED <<queue, pending>> /\ outcome[p] = "unsent" /\ PromptCmd(p) \in Commands
    BY <1>1, LineTypes DEF Submit, turnVars
  <2>2. CASE closed = "no"
    <3>1. cmds' = Append(cmds, PromptCmd(p)) /\ outcome' = [outcome EXCEPT ![p] = "waiting"]
      BY <1>1, <2>2 DEF Submit
    <3>2. QED
      BY <2>1, <3>1, SentPlaces
  <2>3. CASE closed # "no"
    <3>1. UNCHANGED cmds /\ outcome' = [outcome EXCEPT ![p] = closed] /\ closed # "waiting"
      BY <1>1, <2>3 DEF Submit, TypeOK
    <3>2. \A q \in Prompts : outcome'[q] = "waiting" <=> outcome[q] = "waiting"
      BY <2>1, <3>1 DEF TypeOK, Outcomes
    <3>3. QED
      BY <2>1, <3>1, <3>2 DEF OnePlace, Sent, Queued
  <2>4. QED
    BY <2>2, <2>3
<1>2. CASE Cancel \/ Dispose
  <2>1. /\ UNCHANGED <<queue, pending, outcome>>
        /\ \E c \in {CancelCmd, ShutdownCmd} : cmds' = Append(cmds, c)
    BY <1>2 DEF Cancel, Dispose, turnVars
  <2>2. \A c \in {CancelCmd, ShutdownCmd} : c \in Commands /\ c.op # "prompt"
    BY DEF Commands, CancelCmd, ShutdownCmd
  <2>3. QED
    BY <2>1, <2>2, SentPlaces
<1>3. QED
  BY <1>1, <1>2

LEMMA RecvPromptPlaces ==
    ASSUME TypeOK, OnePlace, NEW p \in Prompts, RecvPrompt(p)
    PROVE  OnePlace'
<1>1. cmds # <<>> /\ Head(cmds) = PromptCmd(p) /\ cmds' = Tail(cmds)
  BY DEF RecvPrompt, NextCmd
<1>2. /\ \A i, j \in DOMAIN cmds' : cmds'[i] = cmds'[j] /\ cmds'[i].op = "prompt" => i = j
      /\ p \in Sent /\ Sent' = Sent \ {p} /\ Sent \subseteq Prompts
  BY <1>1, TakenPlaces DEF Sent
<1>3. p \notin Queued /\ pending.id # p /\ outcome[p] = "waiting"
  BY <1>2 DEF OnePlace
<1>4. CASE outcome' = Resolve({p}, "SessionClosed") /\ UNCHANGED <<pending, queue>>
  <2>1. \A q \in Prompts : outcome'[q] = IF q = p THEN "SessionClosed" ELSE outcome[q]
    BY <1>4 DEF Resolve
  <2>2. QED
    BY <1>2, <1>3, <1>4, <2>1 DEF OnePlace, Queued
<1>5. CASE queue' = Append(queue, p) /\ UNCHANGED <<pending, outcome>>
  <2>1. /\ \A i \in DOMAIN queue' : \/ i \in DOMAIN queue /\ queue'[i] = queue[i]
                                    \/ i = Len(queue) + 1 /\ queue'[i] = p
        /\ \A x : x \in Queued' <=> x = p \/ x \in Queued
    BY <1>5, LastAndFront DEF TypeOK, Queued
  <2>2. \A i \in DOMAIN queue : queue[i] # p
    BY <1>3 DEF Queued, Range
  <2>3. \A i, j \in DOMAIN queue' : queue'[i] = queue'[j] => i = j
    BY <2>1, <2>2 DEF OnePlace
  <2>4. QED
    BY <1>2, <1>3, <1>5, <2>1, <2>3 DEF OnePlace
<1>6. CASE pending = NoTurn /\ StartTurn(p, queue, promptRpc) /\ UNCHANGED outcome
  <2>1. pending.id = None /\ pending'.id = p /\ queue' = queue
    BY <1>6 DEF NoTurn, StartTurn, Fresh
  <2>2. QED
    BY <1>2, <1>3, <1>6, <2>1, PumpAssumption DEF OnePlace, Queued
<1>7. QED
  BY <1>4, <1>5, <1>6 DEF RecvPrompt, turnVars

LEMMA RecvCancelPlaces ==
    ASSUME TypeOK, OnePlace, RecvCancel
    PROVE  OnePlace'
<1>1. cmds # <<>> /\ Head(cmds) = CancelCmd /\ cmds' = Tail(cmds)
  BY DEF RecvCancel, NextCmd
<1>2. /\ \A i, j \in DOMAIN cmds' : cmds'[i] = cmds'[j] /\ cmds'[i].op = "prompt" => i = j
      /\ Sent' = Sent
  BY <1>1, TakenPlaces DEF CancelCmd
<1>3. CASE UNCHANGED <<outcome, queue, pending>>
  BY <1>2, <1>3 DEF OnePlace, Queued
<1>4. CASE outcome' = Resolve(Range(queue), "Cancelled") /\ queue' = <<>> /\ UNCHANGED pending
  <2>1. \A q \in Prompts : outcome'[q] = IF q \in Queued THEN "Cancelled" ELSE outcome[q]
    BY <1>4 DEF Resolve, Queued
  <2>2. Queued' = {}
    BY <1>4, EmptyRange DEF Queued
  <2>3. QED
    BY <1>2, <1>4, <2>1, <2>2 DEF OnePlace
<1>5. QED
  BY <1>3, <1>4 DEF RecvCancel, turnVars

LEMMA HandlerPlaces ==
    ASSUME TypeOK, ControlInv, OnePlace,
           \/ AbortAnswered \/ SettleTimeout \/ RecvRecoverAbort \/ RecoverTimeout
           \/ \E p \in Prompts : RecvSettled(p) \/ RecvPromptResult(p)
    PROVE  OnePlace'
<1>1. UNCHANGED cmds /\ {"SessionClosed", "Rejected"} \subseteq Results
  BY DEF AbortAnswered, SettleTimeout, RecvRecoverAbort, RecoverTimeout, RecvSettled,
     RecvPromptResult, Results
<1>2. CASE AbortAnswered
  BY <1>1, <1>2, RetirePlaces, PlaceUnchanged DEF AbortAnswered, turnVars
<1>3. CASE SettleTimeout
  <2>1. CASE pending = NoTurn
    <3>1. UNCHANGED <<outcome, queue, pending>>
      BY <1>3, <2>1 DEF SettleTimeout
    <3>2. QED
      BY <1>1, <3>1, PlaceUnchanged
  <2>2. CASE pending # NoTurn /\ cancelRequested
    <3>1. /\ pending' = NoTurn /\ queue' = queue /\ outcome' = Resolve({pending.id}, "Cancelled")
      BY <1>3, <2>2 DEF SettleTimeout
    <3>2. /\ \A q \in Prompts : outcome'[q] = IF q = pending.id THEN "Cancelled" ELSE outcome[q]
          /\ pending'.id = None
      BY <3>1 DEF Resolve, NoTurn
    <3>3. Sent' = Sent /\ Queued' = Queued /\ Sent \cup Queued \subseteq Prompts
      BY <1>1, <3>1 DEF Sent, Queued, TypeOK, Range
    <3>4. QED
      BY <1>1, <3>1, <3>2, <3>3, PumpAssumption DEF OnePlace
  <2>3. CASE pending # NoTurn /\ ~cancelRequested
    <3>1. /\ pending' = NoTurn /\ queue' = <<>>
          /\ outcome' = Resolve({pending.id} \cup Range(queue), "SettleTimeout")
      BY <1>3, <2>3 DEF SettleTimeout
    <3>2. /\ \A q \in Prompts : outcome'[q] = IF q = pending.id \/ q \in Queued
                                              THEN "SettleTimeout" ELSE outcome[q]
          /\ pending'.id = None
      BY <3>1 DEF Resolve, NoTurn, Queued
    <3>3. Queued' = {} /\ Sent' = Sent /\ Sent \subseteq Prompts
      BY <1>1, <3>1, EmptyRange DEF Queued, Sent
    <3>4. \A q \in Prompts : outcome'[q] = "waiting" <=> q \in Sent' \cup Queued' \cup {pending'.id}
      BY <3>2, <3>3, PumpAssumption DEF OnePlace
    <3>5. \A i, j \in DOMAIN queue' : queue'[i] = queue'[j] => i = j
      BY <3>1
    <3>6. pending'.id \notin Sent' \cup Queued'
      BY <3>2, <3>3, PumpAssumption
    <3>7. QED
      BY <1>1, <3>3, <3>4, <3>5, <3>6 DEF OnePlace
  <2>4. QED
    BY <2>1, <2>2, <2>3
<1>4. CASE RecvRecoverAbort
  <2>1. recovery.on => pending = NoTurn
    BY DEF ControlInv, RetiredIsQuiet
  <2>2. QED
    BY <1>1, <1>4, <2>1, RetirePlaces, PlaceUnchanged, FinishRecoveryPlaces
       DEF RecvRecoverAbort, PoisonRecovery, turnVars
<1>5. CASE RecoverTimeout
  <2>1. pending = NoTurn
    BY <1>5 DEF ControlInv, RetiredIsQuiet, RecoverTimeout
  <2>2. QED
    BY <1>1, <1>5, <2>1, RetirePlaces, FinishRecoveryPlaces DEF RecoverTimeout, PoisonRecovery
<1>6. ASSUME NEW p \in Prompts, RecvSettled(p) PROVE OnePlace'
  <2>1. pending' = [pending EXCEPT !.settledEarly = TRUE] => pending'.id = pending.id
    BY DEF TypeOK, Turns
  <2>2. QED
    BY <1>1, <1>6, <2>1, PlaceUnchanged, SettlePlaces, FinishRecoveryPlaces
       DEF RecvSettled, turnVars
<1>7. ASSUME NEW p \in Prompts, RecvPromptResult(p) PROVE OnePlace'
  <2>1. pending' = [pending EXCEPT !.accepted = TRUE] => pending'.id = pending.id
    BY DEF TypeOK, Turns
  <2>2. QED
    BY <1>1, <1>7, <2>1, PlaceUnchanged, SettlePlaces, RetirePlaces
       DEF RecvPromptResult, turnVars
<1>8. QED
  BY <1>2, <1>3, <1>4, <1>5, <1>6, <1>7

LEMMA StopPlaces ==
    ASSUME TypeOK, OnePlace, RecvShutdown \/ StreamEnd
    PROVE  OnePlace'
<1>1. PICK error \in {"PiExited", "SessionClosed"} :
        /\ cmds' = <<>> /\ queue' = <<>> /\ pending'.id = None
        /\ \A p \in Prompts : outcome'[p] = IF p = pending.id \/ p \in Queued THEN "PiExited"
                                            ELSE IF p \in Sent THEN error ELSE outcome[p]
  BY DEF RecvShutdown, StreamEnd, Stop, NoTurn, Queued, Sent
<1>2. Queued' = {} /\ Sent' = {}
  BY <1>1, EmptyRange DEF Queued, Sent
<1>3. QED
  BY <1>1, <1>2, PumpAssumption DEF OnePlace

LEMMA StepPlaces == TypeOK /\ ControlInv /\ OnePlace /\ [Next]_vars => OnePlace'
<1> SUFFICES ASSUME TypeOK, ControlInv, OnePlace, [Next]_vars
             PROVE  OnePlace'
  OBVIOUS
<1>1. CASE \/ \E p \in Prompts, flag \in BOOLEAN : Submit(p, flag)
           \/ Cancel \/ Dispose
  BY <1>1, ClientPlaces
<1>2. CASE RecvCancel \/ \E p \in Prompts : RecvPrompt(p)
  BY <1>2, RecvPromptPlaces, RecvCancelPlaces
<1>3. CASE \/ AbortAnswered \/ SettleTimeout \/ RecvRecoverAbort \/ RecoverTimeout
           \/ \E p \in Prompts : RecvSettled(p) \/ RecvPromptResult(p)
  BY <1>3, HandlerPlaces
<1>4. CASE RecvShutdown \/ StreamEnd
  BY <1>4, StopPlaces
<1>5. CASE \/ WriteAbort \/ AbortRequestFails \/ RequestAbort
           \/ \E q \in Prompts : \/ WritePrompt(q) \/ PromptRequestFails(q)
                                 \/ PiTakesPrompt(q) \/ PiAnswersPrompt(q)
                                 \/ PiTakesAbort(q)
           \/ PiSettles \/ PiExits
           \/ \E t \in Tools : PiStartsTool(t) \/ PiEndsTool(t) \/ RecvToolEvent(t)
           \/ UNCHANGED vars
  <2>1. UNCHANGED <<outcome, cmds, queue, pending>>
    BY <1>5 DEF WriteAbort, AbortRequestFails, RequestAbort, WritePrompt,
       PromptRequestFails, PiTakesPrompt, PiAnswersPrompt, PiTakesAbort, PiSettles,
       PiExits, PiStartsTool, PiEndsTool, RecvToolEvent, clientVars, turnVars, vars
  <2>2. QED
    BY <2>1, PlaceUnchanged
<1>6. QED
  BY <1>1, <1>2, <1>3, <1>4, <1>5 DEF Next

LEMMA InitPlaces == Init => OnePlace
BY EmptyRange, PumpAssumption DEF Init, OnePlace, Sent, Queued, NoTurn

THEOREM PlacesHold == Spec => []OnePlace
BY TypeCorrect, ControlHolds, InitPlaces, StepPlaces, PTL DEF Spec

LEMMA CountOne ==
    ASSUME NEW S, \A i, j \in S : i = j
    PROVE  Cardinality(S) = IF S = {} THEN 0 ELSE 1
<1>1. CASE S = {}
  BY <1>1, FS_EmptySet
<1>2. CASE S # {}
  <2>1. PICK x : S = {x}
    BY <1>2
  <2>2. QED
    BY <2>1, FS_Singleton
<1>3. QED
  BY <1>1, <1>2

LEMMA PlacesCount == TypeOK /\ OnePlace => NoPromptLost
<1> SUFFICES ASSUME TypeOK, OnePlace, NEW p \in Prompts
             PROVE  Holders(p) = IF outcome[p] = "waiting" THEN 1 ELSE 0
  BY DEF NoPromptLost
<1> DEFINE C == {i \in DOMAIN cmds : cmds[i] = PromptCmd(p)}
           Q == {i \in DOMAIN queue : queue[i] = p}
<1>1. Cardinality(C) = IF p \in Sent THEN 1 ELSE 0
  <2>1. \A i, j \in C : i = j
    BY DEF OnePlace, PromptCmd
  <2>2. C = {} <=> p \notin Sent
    BY DEF Sent, Range
  <2>3. QED
    BY <2>1, <2>2, CountOne
<1>2. Cardinality(Q) = IF p \in Queued THEN 1 ELSE 0
  <2>1. \A i, j \in Q : i = j
    BY DEF OnePlace
  <2>2. Q = {} <=> p \notin Queued
    BY DEF Queued, Range
  <2>3. QED
    BY <2>1, <2>2, CountOne
<1>3. Holders(p) = (IF p \in Sent THEN 1 ELSE 0) + (IF p \in Queued THEN 1 ELSE 0)
                   + (IF pending.id = p THEN 1 ELSE 0)
  BY <1>1, <1>2 DEF Holders
<1>4. QED
  BY <1>3 DEF OnePlace

\* Every unresolved prompt is in exactly one place, whatever order of commands,
\* events and failures the pump meets (on_prompt, on_cancel, start_next, complete).
THEOREM NoneLost == Spec => []NoPromptLost
BY TypeCorrect, PlacesHold, PlacesCount, PTL

-----------------------------------------------------------------------------
(* What an answer, and a cancel, settle for good.                          *)

\* An outcome moves only while its caller waits, or as the command is sent.
LEMMA OutcomeMoves ==
    ASSUME TypeOK, OnePlace, [Next]_vars, NEW p \in Prompts, outcome'[p] # outcome[p]
    PROVE  outcome[p] \in {"unsent", "waiting"}
<1>1. p \in Sent \cup Queued \cup {pending.id} => outcome[p] = "waiting"
  BY DEF OnePlace
<1>2. ASSUME NEW r, Retire(r) PROVE p \in Sent \cup Queued \cup {pending.id}
  BY <1>2 DEF Retire, Queued
<1>3. ASSUME NEW rpc, SettlePendingTurn(rpc) PROVE p \in Sent \cup Queued \cup {pending.id}
  BY <1>3 DEF SettlePendingTurn, Resolve
<1>4. ASSUME NEW rec, FinishRecoveryIfConfirmed(rec) PROVE FALSE
  BY <1>4 DEF FinishRecoveryIfConfirmed
<1>5. ASSUME NEW q \in Prompts, NEW flag \in BOOLEAN, Submit(q, flag) PROVE outcome[p] = "unsent"
  BY <1>5 DEF Submit, TypeOK, Outcomes
<1>6. CASE \/ Cancel \/ Dispose \/ UNCHANGED vars \/ RequestAbort
           \/ WriteAbort \/ AbortRequestFails
           \/ \E q \in Prompts : \/ WritePrompt(q) \/ PromptRequestFails(q)
                                 \/ PiTakesPrompt(q) \/ PiAnswersPrompt(q)
                                 \/ PiTakesAbort(q)
           \/ PiSettles \/ PiExits
           \/ \E t \in Tools : PiStartsTool(t) \/ PiEndsTool(t) \/ RecvToolEvent(t)
  BY <1>6 DEF Cancel, Dispose, vars, RequestAbort, WriteAbort, AbortRequestFails,
     WritePrompt, PromptRequestFails, PiTakesPrompt, PiAnswersPrompt, PiTakesAbort,
     PiSettles, PiExits, PiStartsTool, PiEndsTool, RecvToolEvent, clientVars
<1>7. ASSUME NEW q \in Prompts, RecvPrompt(q) PROVE p \in Sent
  <2>1. p = q /\ Head(cmds) = PromptCmd(q) /\ cmds # <<>>
    BY <1>7 DEF RecvPrompt, NextCmd, Resolve
  <2>2. QED
    BY <2>1, HeadAndTail DEF TypeOK, Sent
<1>8. CASE RecvCancel
  BY <1>1, <1>8 DEF RecvCancel, Resolve, Queued
<1>9. CASE AbortAnswered
  BY <1>1, <1>2, <1>9 DEF AbortAnswered
<1>10. ASSUME NEW q \in Prompts, RecvSettled(q) PROVE outcome[p] = "waiting"
  BY <1>1, <1>3, <1>4, <1>10 DEF RecvSettled
<1>11. ASSUME NEW q \in Prompts, RecvPromptResult(q) PROVE outcome[p] = "waiting"
  BY <1>1, <1>2, <1>3, <1>11 DEF RecvPromptResult
<1>12. CASE SettleTimeout
  BY <1>1, <1>12 DEF SettleTimeout, Resolve, Queued
<1>13. CASE RecvRecoverAbort \/ RecoverTimeout
  BY <1>1, <1>2, <1>4, <1>13 DEF RecvRecoverAbort, RecoverTimeout, PoisonRecovery
<1>14. CASE RecvShutdown \/ StreamEnd
  BY <1>1, <1>14 DEF RecvShutdown, StreamEnd, Stop, Queued, Sent
<1>15. QED
  BY <1>1, <1>5, <1>6, <1>7, <1>8, <1>9, <1>10, <1>11, <1>12, <1>13, <1>14 DEF Next

\* A prompt is answered once: no later event changes what its caller got (complete,
\* on_prompt_result, poison_recovery).
THEOREM AnsweredForGood == Spec => AnsweredOnce
<1>1. TypeOK /\ OnePlace /\ [Next]_vars
        => [\A p \in Prompts : outcome[p] \in Results => outcome'[p] = outcome[p]]_vars
  <2>1. \A r \in Results : r \notin {"unsent", "waiting"}
    BY DEF Results
  <2>2. QED
    BY <2>1, OutcomeMoves
<1>2. QED
  BY <1>1, TypeCorrect, PlacesHold, PTL DEF Spec, AnsweredOnce

\* A cancelled turn: still pending with the flag set, or answered, but never normally.
CancelKept(p) ==
    /\ outcome[p] # "EndTurn"
    /\ outcome[p] \in Results \/ (pending.id = p /\ cancelRequested)

LEMMA StepCancel ==
    ASSUME TypeOK, ControlInv, OnePlace, [Next]_vars, NEW p \in Prompts, CancelKept(p)
    PROVE  CancelKept(p)'
<1>1. CASE outcome[p] \in Results
  <2>1. outcome'[p] = outcome[p]
    BY <1>1, OutcomeMoves DEF Results
  <2>2. QED
    BY <1>1, <2>1 DEF CancelKept
<1>2. CASE pending.id = p /\ cancelRequested
  <2> DEFINE Kept == pending'.id = p /\ cancelRequested'
             Answered == outcome'[p] \in Results
  <2>1. outcome'[p] # "EndTurn"
    BY <1>2, NewEndTurn DEF CancelKept
  <2>2. pending # NoTurn
    BY <1>2, PumpAssumption DEF NoTurn
  <2>3. UNCHANGED <<pending, cancelRequested>> => Kept
    BY <1>2
  <2>4. ASSUME NEW r \in Results, Retire(r) PROVE Answered
    BY <1>2, <2>4 DEF Retire
  <2>5. ASSUME NEW rpc, SettlePendingTurn(rpc) PROVE Answered
    BY <1>2, <2>5 DEF SettlePendingTurn, Resolve, Results
  <2>6. CASE \/ Cancel \/ Dispose \/ UNCHANGED vars \/ RequestAbort
             \/ \E q \in Prompts, flag \in BOOLEAN : Submit(q, flag)
             \/ WriteAbort \/ AbortRequestFails
             \/ \E q \in Prompts : \/ WritePrompt(q) \/ PromptRequestFails(q)
                                   \/ PiTakesPrompt(q) \/ PiAnswersPrompt(q)
                                   \/ PiTakesAbort(q)
             \/ PiSettles \/ PiExits
             \/ \E t \in Tools : PiStartsTool(t) \/ PiEndsTool(t) \/ RecvToolEvent(t)
    <3>1. UNCHANGED <<pending, cancelRequested>>
      BY <2>6 DEF Cancel, Dispose, vars, RequestAbort, Submit, WriteAbort, AbortRequestFails,
         WritePrompt, PromptRequestFails, PiTakesPrompt, PiAnswersPrompt, PiTakesAbort,
         PiSettles, PiExits, PiStartsTool, PiEndsTool, RecvToolEvent, turnVars
    <3>2. QED
      BY <2>1, <2>3, <3>1 DEF CancelKept
  <2>7. CASE RecvCancel \/ \E q \in Prompts : RecvPrompt(q)
    BY <1>2, <2>1, <2>2, <2>3, <2>7 DEF RecvCancel, RecvPrompt, turnVars, CancelKept
  <2>8. CASE AbortAnswered
    <3>1. "SessionClosed" \in Results
      BY DEF Results
    <3>2. QED
      BY <2>1, <2>3, <2>4, <2>8, <3>1 DEF AbortAnswered, turnVars, CancelKept
  <2>9. CASE \E q \in Prompts : RecvSettled(q)
    <3>1. [pending EXCEPT !.settledEarly = TRUE].id = p
      BY <1>2 DEF TypeOK, Turns
    <3>2. QED
      BY <1>2, <2>1, <2>2, <2>5, <2>9, <3>1 DEF RecvSettled, CancelKept
  <2>10. CASE \E q \in Prompts : RecvPromptResult(q)
    <3>1. [pending EXCEPT !.accepted = TRUE].id = p /\ "Rejected" \in Results
      BY <1>2 DEF TypeOK, Turns, Results
    <3>2. QED
      BY <1>2, <2>1, <2>3, <2>4, <2>5, <2>10, <3>1
         DEF RecvPromptResult, turnVars, CancelKept
  <2>11. CASE SettleTimeout
    <3>1. outcome' = Resolve({pending.id}, "Cancelled")
      BY <1>2, <2>2, <2>11 DEF SettleTimeout
    <3>2. QED
      BY <1>2, <3>1 DEF Resolve, CancelKept, Results
  <2>12. CASE RecvRecoverAbort \/ RecoverTimeout
    <3>1. ~recovery.on
      BY <2>2 DEF ControlInv, RetiredIsQuiet
    <3>2. QED
      BY <2>1, <2>3, <2>12, <3>1 DEF RecvRecoverAbort, RecoverTimeout, turnVars, CancelKept
  <2>13. CASE RecvShutdown \/ StreamEnd
    BY <1>2, <2>13 DEF RecvShutdown, StreamEnd, Stop, CancelKept, Results
  <2>14. QED
    BY <2>6, <2>7, <2>8, <2>9, <2>10, <2>11, <2>12, <2>13 DEF Next
<1>3. QED
  BY <1>1, <1>2 DEF CancelKept

\* The pump waits in on_cancel with its flag set.
HeldWithFlag == blocked # "no" => cancelRequested

LEMMA StepHeld == HeldWithFlag /\ [Next]_vars => HeldWithFlag'
<1> SUFFICES ASSUME HeldWithFlag, [Next]_vars, blocked' # "no"
             PROVE  cancelRequested'
  BY DEF HeldWithFlag
<1>1. CASE blocked = "no"
  <2>1. RecvCancel
    BY <1>1 DEF Next, vars, Submit, Cancel, Dispose, RecvPrompt, RequestAbort, AbortAnswered,
       RecvSettled, RecvPromptResult, RecvRecoverAbort, RecoverTimeout, SettleTimeout,
       RecvShutdown, StreamEnd, Stop, WriteAbort, AbortRequestFails, WritePrompt,
       PromptRequestFails, PiTakesPrompt, PiAnswersPrompt, PiTakesAbort, PiSettles, PiExits,
       PiStartsTool, PiEndsTool, RecvToolEvent
  <2>2. QED
    BY <1>1, <2>1 DEF RecvCancel
<1>2. CASE blocked # "no"
  <2>1. UNCHANGED cancelRequested
    BY <1>2 DEF Next, vars, turnVars, Listening, Submit, Cancel, Dispose, RecvPrompt,
       RecvCancel, RequestAbort, AbortAnswered, RecvSettled, RecvPromptResult, RecvRecoverAbort,
       RecoverTimeout, SettleTimeout, RecvShutdown, StreamEnd, WriteAbort,
       AbortRequestFails, WritePrompt, PromptRequestFails, PiTakesPrompt, PiAnswersPrompt,
       PiTakesAbort, PiSettles, PiExits, PiStartsTool, PiEndsTool, RecvToolEvent
  <2>2. QED
    BY <1>2, <2>1 DEF HeldWithFlag
<1>3. QED
  BY <1>1, <1>2

\* A turn the pump began to cancel never reports a normal end, whichever of settle,
\* response, timeout and failure comes next (on_cancel, settle_pending_turn).
THEOREM CancelHolds == Spec => CancelSticks
<1> SUFFICES ASSUME NEW p \in Prompts
             PROVE  Spec => [](blocked # "no" /\ pending.id = p => [](outcome[p] # "EndTurn"))
  BY DEF CancelSticks
<1>0. Spec => []HeldWithFlag
  <2>1. Init => HeldWithFlag
    BY DEF Init, HeldWithFlag
  <2>2. QED
    BY <2>1, StepHeld, PTL DEF Spec
<1>1. OnePlace /\ HeldWithFlag => (blocked # "no" /\ pending.id = p => CancelKept(p))
  BY DEF HeldWithFlag, OnePlace, CancelKept
<1>2. TypeOK /\ ControlInv /\ OnePlace /\ CancelKept(p) /\ [Next]_vars => CancelKept(p)'
  BY StepCancel
<1>3. CancelKept(p) => outcome[p] # "EndTurn"
  BY DEF CancelKept
<1>4. QED
  BY <1>0, <1>1, <1>2, <1>3, TypeCorrect, ControlHolds, PlacesHold, PTL DEF Spec

-----------------------------------------------------------------------------
(* The pump serves its callers as TurnService says: the line is the queue  *)
(* followed by the prompts still in the command channel.                   *)

Held(cs) == {i \in DOMAIN cs : cs[i].op = "prompt"}
Names(cs) == [i \in DOMAIN cs |-> cs[i].turn]

Named == Prompts \cup {None}

LEMMA HeldPositions ==
    ASSUME NEW cs \in Seq(Commands)
    PROVE  /\ Names(cs) \in Seq(Named) /\ Held(cs) \in SUBSET (1 .. Len(Names(cs)))
           /\ Len(Names(cs)) = Len(cs)
           /\ \A i \in Held(cs) : Names(cs)[i] = cs[i].turn /\ cs[i].turn \in Prompts
           /\ PromptsOf(cs) = Subsequence(Names(cs), Held(cs))
           /\ PromptsOf(cs) \in Seq(Prompts)
<1>1. DOMAIN cs = 1 .. Len(cs) /\ Len(cs) \in Nat /\ \A i \in 1 .. Len(cs) : cs[i] \in Commands
  OBVIOUS
<1>2. \A c \in Commands : c.turn \in Named /\ (c.op = "prompt" => c.turn \in Prompts)
  BY DEF Commands, PromptCmd, CancelCmd, ShutdownCmd, Named
<1>3. Names(cs) \in Seq(Named) /\ Len(Names(cs)) = Len(cs)
  BY <1>1, <1>2 DEF Names
<1>4. /\ Held(cs) \in SUBSET (1 .. Len(Names(cs)))
      /\ \A i \in Held(cs) : Names(cs)[i] = cs[i].turn /\ cs[i].turn \in Prompts
  BY <1>1, <1>2, <1>3 DEF Held, Names
<1>5. PromptsOf(cs) = Subsequence(Names(cs), Held(cs))
  BY DEF PromptsOf, Held, Names
<1>6. PromptsOf(cs) \in Seq(Prompts)
  <2>1. \A i \in Held(cs) : Names(cs)[i] \in Prompts
    BY <1>4
  <2>2. QED
    BY <1>3, <1>4, <1>5, <2>1, SubsequenceType
<1>7. QED
  BY <1>3, <1>4, <1>5, <1>6

LEMMA PromptsEmpty == PromptsOf(<<>>) = <<>>
<1>1. Held(<<>>) = {} /\ <<>> \in Seq(Commands)
  BY DEF Held
<1>2. /\ PromptsOf(<<>>) \in Seq(Prompts) /\ PromptsOf(<<>>) = Subsequence(Names(<<>>), {})
      /\ Names(<<>>) \in Seq(Named) /\ {} \in SUBSET (1 .. Len(Names(<<>>)))
  BY <1>1, HeldPositions
<1>3. Cardinality({}) = 0
  BY FS_EmptySet
<1>4. DOMAIN PromptsOf(<<>>) = 1 .. 0
  BY <1>2, <1>3 DEF Subsequence
<1>5. Len(PromptsOf(<<>>)) = 0
  BY <1>2, <1>4
<1>6. QED
  BY <1>2, <1>5, EmptySeq

LEMMA PromptsAppend ==
    ASSUME NEW cs \in Seq(Commands), NEW c \in Commands
    PROVE  PromptsOf(Append(cs, c)) = IF c.op = "prompt" THEN Append(PromptsOf(cs), c.turn)
                                      ELSE PromptsOf(cs)
<1> DEFINE ds == Append(cs, c)
           n == Len(cs) + 1
<1>1. /\ ds \in Seq(Commands) /\ DOMAIN ds = 1 .. n /\ DOMAIN cs = 1 .. Len(cs) /\ Len(cs) \in Nat
      /\ \A i \in 1 .. Len(cs) : ds[i] = cs[i]
      /\ ds[n] = c
  OBVIOUS
<1>2. /\ Names(cs) \in Seq(Named) /\ Held(cs) \in SUBSET (1 .. Len(Names(cs)))
      /\ Names(ds) \in Seq(Named) /\ Len(Names(cs)) = Len(cs) /\ Len(Names(ds)) = n
  <2>1. /\ Names(cs) \in Seq(Named) /\ Held(cs) \in SUBSET (1 .. Len(Names(cs)))
        /\ Len(Names(cs)) = Len(cs)
    BY HeldPositions
  <2>2. Names(ds) \in Seq(Named) /\ Len(Names(ds)) = Len(ds)
    <3> HIDE DEF ds
    <3>1. QED
      BY <1>1, HeldPositions
  <2>3. Len(ds) = n
    OBVIOUS
  <2>4. QED
    BY <2>1, <2>2, <2>3
<1>3. \A i \in Held(cs) : i < n /\ Names(ds)[i] = Names(cs)[i]
  BY <1>1, <1>2 DEF Names
<1>4. CASE c.op = "prompt"
  <2>1. Held(ds) = Held(cs) \cup {n}
    BY <1>1, <1>4 DEF Held
  <2>2. Names(ds)[n] = c.turn /\ n \in 1 .. Len(Names(ds))
    BY <1>1, <1>2 DEF Names
  <2>3. Subsequence(Names(ds), Held(cs) \cup {n})
          = Append(Subsequence(Names(cs), Held(cs)), Names(ds)[n])
    BY <1>2, <1>3, <2>2, SubsequenceAppend
  <2>4. QED
    BY <1>1, <1>4, <2>1, <2>2, <2>3, HeldPositions
<1>5. CASE c.op # "prompt"
  <2>1. Held(ds) = Held(cs)
    BY <1>1, <1>5 DEF Held
  <2>2. \A k \in 1 .. Cardinality(Held(cs)) : Nth(Held(cs), k) \in Held(cs)
    BY <1>2, Positions, NthIsThere
  <2>3. Subsequence(Names(ds), Held(cs)) = Subsequence(Names(cs), Held(cs))
    BY <1>3, <2>2 DEF Subsequence
  <2>4. QED
    BY <1>1, <1>5, <2>1, <2>3, HeldPositions
<1>6. QED
  BY <1>4, <1>5

LEMMA PromptsTail ==
    ASSUME NEW cs \in Seq(Commands), cs # <<>>
    PROVE  IF Head(cs).op = "prompt"
           THEN /\ PromptsOf(cs) # <<>> /\ Head(PromptsOf(cs)) = Head(cs).turn
                /\ PromptsOf(Tail(cs)) = Tail(PromptsOf(cs))
           ELSE PromptsOf(Tail(cs)) = PromptsOf(cs)
<1> DEFINE ds == Tail(cs)
           rest == Held(cs) \ {1}
<1>1. /\ ds \in Seq(Commands) /\ DOMAIN ds = 1 .. (Len(cs) - 1) /\ DOMAIN cs = 1 .. Len(cs)
      /\ Len(cs) \in Nat /\ Len(cs) # 0
      /\ \A i \in DOMAIN ds : ds[i] = cs[i + 1]
      /\ cs[1] = Head(cs)
  OBVIOUS
<1>2. /\ Names(cs) \in Seq(Named) /\ Held(cs) \in SUBSET (1 .. Len(Names(cs)))
      /\ rest \in SUBSET (1 .. Len(Names(cs))) /\ Len(Names(cs)) = Len(cs)
      /\ Names(ds) \in Seq(Named) /\ Len(Names(ds)) = Len(cs) - 1
  <2>1. /\ Names(cs) \in Seq(Named) /\ Held(cs) \in SUBSET (1 .. Len(Names(cs)))
        /\ Len(Names(cs)) = Len(cs)
    BY HeldPositions
  <2>2. Names(ds) \in Seq(Named) /\ Len(Names(ds)) = Len(ds)
    <3> HIDE DEF ds
    <3>1. QED
      BY <1>1, HeldPositions
  <2>3. Len(ds) = Len(cs) - 1
    BY <1>1
  <2>4. QED
    BY <2>1, <2>2, <2>3
<1>3. Held(ds) = {i \in 1 .. Len(Names(ds)) : i + 1 \in rest}
  BY <1>1, <1>2 DEF Held
<1>4. \A i \in 1 .. Len(Names(ds)) : Names(ds)[i] = Names(cs)[i + 1]
  <2>1. \A i \in 1 .. Len(Names(ds)) : i \in DOMAIN ds /\ i + 1 \in DOMAIN cs
    BY <1>1, <1>2
  <2>2. QED
    BY <1>1, <2>1 DEF Names
<1>5. PromptsOf(ds) = Subsequence(Names(cs), rest)
  <2> DEFINE s == Names(cs)
             t == Names(ds)
  <2>1. s \in Seq(Named) /\ t \in Seq(Named) /\ rest \in SUBSET (1 .. Len(s)) /\ 1 \notin rest
    BY <1>2
  <2>2. Len(s) = Len(t) + 1
    <3>1. Len(s) = Len(cs) /\ Len(t) = Len(cs) - 1 /\ Len(cs) \in Nat
      BY <1>1, <1>2
    <3> HIDE DEF s, t
    <3>2. QED
      BY <3>1
  <2>3. Subsequence(t, {i \in 1 .. Len(t) : i + 1 \in rest}) = Subsequence(s, rest)
    <3> HIDE DEF rest, s, t
    <3>1. QED
      BY <1>4, <2>1, <2>2, SubsequenceShift DEF s, t
  <2>4. QED
    BY <1>1, <1>3, <2>3, HeldPositions
<1>6. CASE Head(cs).op = "prompt"
  <2>1. 1 \in Held(cs)
    BY <1>1, <1>6 DEF Held
  <2>3. /\ Subsequence(Names(cs), Held(cs)) # <<>>
        /\ Head(Subsequence(Names(cs), Held(cs))) = Names(cs)[1]
        /\ Tail(Subsequence(Names(cs), Held(cs))) = Subsequence(Names(cs), rest)
    BY <1>2, <2>1, SubsequenceHead
  <2>4. Names(cs)[1] = Head(cs).turn
    BY <1>1 DEF Names
  <2>5. QED
    BY <1>5, <1>6, <2>3, <2>4, HeldPositions
<1>7. CASE Head(cs).op # "prompt"
  <2>1. rest = Held(cs)
    BY <1>1, <1>7 DEF Held
  <2>2. QED
    BY <1>5, <1>7, <2>1, HeldPositions
<1>8. QED
  BY <1>6, <1>7

LEMMA PromptsRange ==
    ASSUME NEW cs \in Seq(Commands), NEW p \in Prompts
    PROVE  p \in Range(PromptsOf(cs)) <=> PromptCmd(p) \in Range(cs)
<1>1. /\ Names(cs) \in Seq(Named) /\ Held(cs) \in SUBSET (1 .. Len(Names(cs))) /\ p \in Named
      /\ PromptsOf(cs) = Subsequence(Names(cs), Held(cs))
      /\ \A i \in Held(cs) : Names(cs)[i] \in Named
  BY HeldPositions DEF Named
<1>2. DOMAIN PromptsOf(cs) = 1 .. Cardinality(Held(cs))
  BY <1>1, SubsequenceType
<1>3. p \in Range(PromptsOf(cs)) <=> \E i \in Held(cs) : Names(cs)[i] = p
  <2>1. (\E k \in 1 .. Cardinality(Held(cs)) : Subsequence(Names(cs), Held(cs))[k] = p)
        <=> \E i \in Held(cs) : Names(cs)[i] = p
    BY <1>1, SubsequenceRange
  <2>2. QED
    BY <1>1, <1>2, <2>1 DEF Range
<1>4. \A i \in DOMAIN cs : i \in Held(cs) /\ Names(cs)[i] = p <=> cs[i] = PromptCmd(p)
  <2>1. \A i \in DOMAIN cs : cs[i] \in Commands
    OBVIOUS
  <2>2. QED
    BY <2>1 DEF Held, Names, Commands, PromptCmd, CancelCmd, ShutdownCmd
<1>5. QED
  BY <1>3, <1>4 DEF Range, Held

-----------------------------------------------------------------------------
(* The service the pump implements.                                        *)

InChannel == PromptsOf(cmds)

LEMMA LineType == TypeOK => InChannel \in Seq(Prompts) /\ Line \in Seq(Prompts)
<1> SUFFICES ASSUME TypeOK PROVE InChannel \in Seq(Prompts) /\ Line \in Seq(Prompts)
  OBVIOUS
<1>1. InChannel \in Seq(Prompts)
  BY HeldPositions DEF TypeOK, InChannel
<1>2. queue \in Seq(Prompts)
  BY DEF TypeOK
<1>3. QED
  BY <1>1, <1>2 DEF Line, InChannel

LEMMA ChannelStays == UNCHANGED cmds => InChannel' = InChannel
BY DEF InChannel

\* What the pump takes from the command channel.
LEMMA ChannelTail ==
    ASSUME TypeOK, cmds # <<>>, cmds' = Tail(cmds)
    PROVE  IF Head(cmds).op = "prompt"
           THEN /\ InChannel # <<>> /\ Head(InChannel) = Head(cmds).turn
                /\ InChannel' = Tail(InChannel)
           ELSE InChannel' = InChannel
BY PromptsTail DEF InChannel, TypeOK

ServiceMoves == Service!Next \/ UNCHANGED <<outcome, Line, pending.id>>

LEMMA NothingMoves ==
    ASSUME UNCHANGED <<outcome, queue, InChannel>>, pending'.id = pending.id
    PROVE  ServiceMoves
BY DEF ServiceMoves, Line, InChannel

\* The queue is closed, and the pending turn with it or not (on_cancel, fail_queue).
LEMMA QueueGivenUp ==
    ASSUME TypeOK, UNCHANGED InChannel, queue' = <<>>, pending'.id \in {pending.id, None},
           \A p \in Prompts :
              IF p \in Range(queue) \/ (p = pending.id /\ pending'.id = None)
              THEN outcome'[p] \in Service!GivenUp ELSE outcome'[p] = outcome[p]
    PROVE  ServiceMoves
<1>1. queue \in Seq(Prompts) /\ InChannel \in Seq(Prompts)
  BY LineType DEF TypeOK
<1>2. Line = queue \o InChannel /\ Line' = InChannel
  <2>1. Line' = <<>> \o InChannel
    BY DEF Line, InChannel
  <2>2. QED
    BY <1>1, <2>1, SeqParts DEF Line, InChannel
<1>3. /\ Len(queue) \in 0 .. Len(Line)
      /\ Line' = SubSeq(Line, Len(queue) + 1, Len(Line))
      /\ SubSeq(Line, 1, Len(queue)) = queue
  BY <1>1, <1>2, SeqParts
<1>4. Service!GiveUp(Len(queue))
  BY <1>3 DEF Service!GiveUp, Service!Range, Range
<1>5. QED
  BY <1>3, <1>4 DEF ServiceMoves, Service!Next

\* The pending turn alone is given up.
LEMMA PendingGivenUp ==
    ASSUME TypeOK, UNCHANGED <<queue, InChannel>>, pending'.id = None,
           \A p \in Prompts : IF p = pending.id THEN outcome'[p] \in Service!GivenUp
                              ELSE outcome'[p] = outcome[p]
    PROVE  ServiceMoves
<1>1. Line \in Seq(Prompts) /\ Line' = Line
  BY LineType DEF Line, InChannel
<1>2. /\ SubSeq(Line, 0 + 1, Len(Line)) = Line /\ 0 \in 0 .. Len(Line)
      /\ SubSeq(Line, 1, 0) = <<>>
  BY <1>1, SubSeqFull, SubSeqEmpty
<1>3. Service!GiveUp(0)
  BY <1>1, <1>2, EmptyRange DEF Service!GiveUp, Service!Range, Range
<1>4. QED
  BY <1>2, <1>3 DEF ServiceMoves, Service!Next

LEMMA RetireServes ==
    ASSUME TypeOK, UNCHANGED InChannel, NEW r \in {"Rejected", "SessionClosed"}, Retire(r)
    PROVE  ServiceMoves
<1>1. queue' = <<>> /\ pending'.id = None
  BY DEF Retire, NoTurn
<1>2. \A p \in Prompts :
        IF p \in Range(queue) \/ (p = pending.id /\ pending'.id = None)
        THEN outcome'[p] \in Service!GivenUp ELSE outcome'[p] = outcome[p]
  BY <1>1 DEF Retire, Service!GivenUp
<1>3. QED
  BY <1>1, <1>2, QueueGivenUp

\* The next queued turn is the longest-waiting prompt (start_next).
LEMMA StartNextServes ==
    ASSUME TypeOK, UNCHANGED InChannel, NEW rpc, NEW idle, StartNext(rpc, idle)
    PROVE  Service!MoveOn
<1>1. queue \in Seq(Prompts) /\ InChannel \in Seq(Prompts)
  BY LineType DEF TypeOK
<1>2. Line = queue \o InChannel /\ Line' = queue' \o InChannel
  BY DEF Line, InChannel
<1>3. CASE queue = <<>>
  <2>1. pending'.id = None /\ queue' = queue
    BY <1>3 DEF StartNext, NoTurn
  <2>2. Line' = Line
    BY <1>2, <2>1
  <2>3. QED
    BY <2>1, <2>2 DEF Service!MoveOn
<1>4. CASE queue # <<>>
  <2>1. pending'.id = Head(queue) /\ queue' = Tail(queue)
    BY <1>4 DEF StartNext, StartTurn, Fresh
  <2>2. QED
    BY <1>1, <1>2, <1>4, <2>1, SeqHead DEF Service!MoveOn
<1>5. QED
  BY <1>3, <1>4

LEMMA SettleServes ==
    ASSUME TypeOK, UNCHANGED InChannel, NEW rpc, pending.id # None, SettlePendingTurn(rpc)
    PROVE  ServiceMoves
<1>1. Service!MoveOn
  BY StartNextServes DEF SettlePendingTurn
<1>2. \E r \in {"EndTurn", "Cancelled"} : outcome' = [outcome EXCEPT ![pending.id] = r]
  BY DEF SettlePendingTurn, Resolve, TypeOK, Outcomes
<1>3. QED
  BY <1>1, <1>2 DEF ServiceMoves, Service!Next, Service!Finish

LEMMA FinishRecoveryServes ==
    ASSUME TypeOK, UNCHANGED InChannel, NEW rec, pending = NoTurn, FinishRecoveryIfConfirmed(rec)
    PROVE  ServiceMoves
<1>1. CASE StartNext(promptRpc, foreground)
  <2>1. Service!MoveOn
    BY <1>1, StartNextServes
  <2>2. UNCHANGED outcome
    BY DEF FinishRecoveryIfConfirmed
  <2>3. QED
    BY <2>1, <2>2 DEF ServiceMoves, Service!Next, Service!Begin, NoTurn
<1>2. CASE UNCHANGED <<queue, pending, outcome>>
  BY <1>2, NothingMoves
<1>3. QED
  BY <1>1, <1>2 DEF FinishRecoveryIfConfirmed

LEMMA SubmitServes ==
    ASSUME TypeOK, NEW p \in Prompts, NEW flag, Submit(p, flag)
    PROVE  ServiceMoves
<1>1. queue \in Seq(Prompts) /\ InChannel \in Seq(Prompts) /\ cmds \in Seq(Commands)
      /\ PromptCmd(p) \in Commands
  BY LineType DEF TypeOK, Commands
<1>2. UNCHANGED <<queue, pending>>
  BY DEF Submit, turnVars
<1>3. CASE closed = "no"
  <2>1. InChannel' = Append(InChannel, p)
    BY <1>1, <1>3, PromptsAppend DEF Submit, InChannel, PromptCmd
  <2>2. Line' = queue \o Append(InChannel, p) /\ Line = queue \o InChannel
    BY <1>2, <2>1 DEF Line, InChannel
  <2>3. Line' = Append(Line, p)
    BY <1>1, <2>2
  <2>4. Service!Arrive(p)
    BY <1>2, <1>3, <2>3 DEF Submit, Service!Arrive
  <2>5. QED
    BY <2>4 DEF ServiceMoves, Service!Next
<1>4. CASE closed # "no"
  <2>1. Line' = Line
    BY <1>2, <1>4 DEF Submit, Line
  <2>2. closed \in Service!GivenUp
    BY <1>4 DEF TypeOK, Service!GivenUp
  <2>3. Service!Arrive(p)
    BY <1>2, <1>4, <2>1, <2>2 DEF Submit, Service!Arrive
  <2>4. QED
    BY <2>3 DEF ServiceMoves, Service!Next
<1>5. QED
  BY <1>3, <1>4

LEMMA RecvPromptServes ==
    ASSUME TypeOK, ControlInv, NEW p \in Prompts, RecvPrompt(p)
    PROVE  ServiceMoves
<1>1. queue \in Seq(Prompts) /\ InChannel \in Seq(Prompts)
  BY LineType DEF TypeOK
<1>2. InChannel # <<>> /\ Head(InChannel) = p /\ InChannel' = Tail(InChannel)
  BY ChannelTail DEF RecvPrompt, NextCmd, PromptCmd
<1>3. Line = queue \o InChannel /\ Line' = queue' \o Tail(InChannel)
  BY <1>2 DEF Line, InChannel
<1>4. CASE poisoned
  <2>1. queue = <<>> /\ queue' = <<>> /\ pending' = pending
    BY <1>4 DEF ControlInv, RetiredIsQuiet, RecvPrompt, turnVars
  <2>2. Line = InChannel /\ Line' = Tail(InChannel)
    BY <1>1, <1>2, <1>3, <2>1, SeqParts
  <2>3. SubSeq(Line, 1 + 1, Len(Line)) = Tail(Line) /\ 1 \in 0 .. Len(Line)
    BY <1>1, <1>2, <2>2
  <2>4. Range(SubSeq(Line, 1, 1)) = {p}
    BY <1>1, <1>2, <2>2 DEF Range
  <2>5. outcome' = Resolve({p}, "SessionClosed")
    BY <1>4 DEF RecvPrompt
  <2>6. p \notin {pending.id}
    BY <1>4, PumpAssumption DEF ControlInv, RetiredIsQuiet, NoTurn
  <2>7. Service!GiveUp(1)
    <3>1. \A q \in Prompts :
            IF q \in Range(SubSeq(Line, 1, 1)) \/ (q = pending.id /\ pending'.id = None)
            THEN outcome'[q] \in Service!GivenUp ELSE outcome'[q] = outcome[q]
      BY <1>4, <2>1, <2>4, <2>5, PumpAssumption
         DEF Resolve, Service!GivenUp, ControlInv, RetiredIsQuiet, NoTurn
    <3>2. QED
      BY <2>1, <2>2, <2>3, <3>1 DEF Service!GiveUp, Service!Range, Range
  <2>8. QED
    BY <2>3, <2>7 DEF ServiceMoves, Service!Next
<1>5. CASE ~poisoned /\ (pending # NoTurn \/ recovery.on)
  <2>1. queue' = Append(queue, p) /\ UNCHANGED <<outcome, pending>>
    BY <1>5 DEF RecvPrompt
  <2>2. Line' = Line
    BY <1>1, <1>2, <1>3, <2>1, SeqMoved
  <2>3. QED
    BY <2>1, <2>2 DEF ServiceMoves
<1>6. CASE ~poisoned /\ pending = NoTurn /\ ~recovery.on
  <2>1. queue = <<>> /\ queue' = <<>> /\ pending'.id = p /\ UNCHANGED outcome
    <3>1. queue = <<>>
      BY <1>6 DEF ControlInv, NoStrandedPrompt, Live, RecvPrompt, Listening
    <3>2. StartTurn(p, queue, promptRpc) /\ UNCHANGED outcome
      BY <1>6 DEF RecvPrompt
    <3>3. QED
      BY <3>1, <3>2 DEF StartTurn, Fresh
  <2>2. Line = InChannel /\ Line' = Tail(InChannel)
    BY <1>1, <1>2, <1>3, <2>1, SeqParts
  <2>3. Service!Begin
    BY <1>2, <1>6, <2>1, <2>2 DEF Service!Begin, Service!MoveOn, NoTurn
  <2>4. QED
    BY <2>3 DEF ServiceMoves, Service!Next
<1>7. QED
  BY <1>4, <1>5, <1>6

LEMMA RecvCancelServes ==
    ASSUME TypeOK, RecvCancel
    PROVE  ServiceMoves
<1>1. UNCHANGED InChannel
  BY ChannelTail DEF RecvCancel, NextCmd, CancelCmd
<1>2. CASE poisoned
  <2>1. UNCHANGED <<outcome, queue, pending>>
    BY <1>2 DEF RecvCancel, turnVars
  <2>2. QED
    BY <1>1, <2>1, NothingMoves
<1>3. CASE ~poisoned
  <2>1. queue' = <<>> /\ pending' = pending /\ outcome' = Resolve(Range(queue), "Cancelled")
    BY <1>3 DEF RecvCancel
  <2>2. \A p \in Prompts :
          IF p \in Range(queue) \/ (p = pending.id /\ pending'.id = None)
          THEN outcome'[p] \in Service!GivenUp ELSE outcome'[p] = outcome[p]
    BY <2>1, PumpAssumption DEF Resolve, Service!GivenUp
  <2>3. QED
    BY <1>1, <2>1, <2>2, QueueGivenUp
<1>4. QED
  BY <1>2, <1>3

LEMMA SettleTimeoutServes ==
    ASSUME TypeOK, SettleTimeout
    PROVE  ServiceMoves
<1>1. UNCHANGED InChannel
  BY ChannelStays DEF SettleTimeout
<1>2. CASE pending = NoTurn
  <2>1. UNCHANGED <<outcome, queue, pending>>
    BY <1>2 DEF SettleTimeout
  <2>2. QED
    BY <1>1, <2>1, NothingMoves
<1>3. CASE pending # NoTurn /\ cancelRequested
  <2>1. queue' = queue /\ pending'.id = None /\ outcome' = Resolve({pending.id}, "Cancelled")
    <3>1. queue' = queue /\ pending' = NoTurn /\ outcome' = Resolve({pending.id}, "Cancelled")
      BY <1>3 DEF SettleTimeout
    <3>2. QED
      BY <3>1 DEF NoTurn
  <2>2. \A p \in Prompts : IF p = pending.id THEN outcome'[p] \in Service!GivenUp
                           ELSE outcome'[p] = outcome[p]
    BY <2>1 DEF Resolve, Service!GivenUp
  <2>3. QED
    BY <1>1, <2>1, <2>2, PendingGivenUp
<1>4. CASE pending # NoTurn /\ ~cancelRequested
  <2>1. /\ queue' = <<>> /\ pending'.id = None
        /\ outcome' = Resolve({pending.id} \cup Range(queue), "SettleTimeout")
    <3>1. /\ queue' = <<>> /\ pending' = NoTurn
          /\ outcome' = Resolve({pending.id} \cup Range(queue), "SettleTimeout")
      BY <1>4 DEF SettleTimeout
    <3>2. QED
      BY <3>1 DEF NoTurn
  <2>2. \A p \in Prompts :
          IF p \in Range(queue) \/ (p = pending.id /\ pending'.id = None)
          THEN outcome'[p] \in Service!GivenUp ELSE outcome'[p] = outcome[p]
    BY <2>1 DEF Resolve, Service!GivenUp
  <2>3. QED
    BY <1>1, <2>1, <2>2, QueueGivenUp
<1>5. QED
  BY <1>2, <1>3, <1>4

LEMMA AbortAnsweredServes ==
    ASSUME TypeOK, AbortAnswered
    PROVE  ServiceMoves
<1>1. UNCHANGED InChannel
  BY ChannelStays DEF AbortAnswered
<1>2. CASE Retire("SessionClosed")
  BY <1>1, <1>2, RetireServes
<1>3. CASE UNCHANGED <<outcome, turnVars>>
  BY <1>1, <1>3, NothingMoves DEF turnVars
<1>4. QED
  BY <1>2, <1>3 DEF AbortAnswered

LEMMA RecoveryServes ==
    ASSUME TypeOK, ControlInv, RecvRecoverAbort \/ RecoverTimeout
    PROVE  ServiceMoves
<1>1. UNCHANGED InChannel
  BY ChannelStays DEF RecvRecoverAbort, RecoverTimeout
<1>2. recovery.on => pending = NoTurn
  BY DEF ControlInv, RetiredIsQuiet
<1>3. CASE PoisonRecovery
  BY <1>1, <1>3, RetireServes DEF PoisonRecovery
<1>4. CASE UNCHANGED <<outcome, turnVars>>
  BY <1>1, <1>4, NothingMoves DEF turnVars
<1>5. ASSUME NEW rec, recovery.on, FinishRecoveryIfConfirmed(rec) PROVE ServiceMoves
  BY <1>1, <1>2, <1>5, FinishRecoveryServes
<1>6. QED
  BY <1>3, <1>4, <1>5 DEF RecvRecoverAbort, RecoverTimeout

LEMMA RecvSettledServes ==
    ASSUME TypeOK, ControlInv, NEW p \in Prompts, RecvSettled(p)
    PROVE  ServiceMoves
<1>1. UNCHANGED InChannel
  BY ChannelStays DEF RecvSettled
<1>2. ASSUME NEW rec, pending = NoTurn, FinishRecoveryIfConfirmed(rec) PROVE ServiceMoves
  BY <1>1, <1>2, FinishRecoveryServes
<1>3. CASE pending' = [pending EXCEPT !.settledEarly = TRUE] /\ UNCHANGED <<outcome, queue>>
  <2>1. pending'.id = pending.id
    BY <1>3 DEF TypeOK, Turns
  <2>2. QED
    BY <1>1, <1>3, <2>1, NothingMoves
<1>4. CASE UNCHANGED <<outcome, turnVars>>
  BY <1>1, <1>4, NothingMoves DEF turnVars
<1>5. CASE pending # NoTurn /\ SettlePendingTurn(promptRpc)
  <2>1. pending.id # None
    BY <1>5 DEF ControlInv, PendingIsNamed
  <2>2. QED
    BY <1>1, <1>5, <2>1, SettleServes
<1>6. QED
  BY <1>2, <1>3, <1>4, <1>5 DEF RecvSettled

LEMMA RecvPromptResultServes ==
    ASSUME TypeOK, ControlInv, NEW p \in Prompts, RecvPromptResult(p)
    PROVE  ServiceMoves
<1> DEFINE received == [promptRpc EXCEPT ![p] = "none"]
<1>1. UNCHANGED InChannel
  BY ChannelStays DEF RecvPromptResult
<1>2. CASE UNCHANGED <<outcome, turnVars>>
  BY <1>1, <1>2, NothingMoves DEF turnVars
<1>3. CASE pending.id = p /\ SettlePendingTurn(received)
  BY <1>1, <1>3, SettleServes, PumpAssumption
<1>4. CASE pending' = [pending EXCEPT !.accepted = TRUE] /\ UNCHANGED <<outcome, queue>>
  <2>1. pending'.id = pending.id
    BY <1>4 DEF TypeOK, Turns
  <2>2. QED
    BY <1>1, <1>4, <2>1, NothingMoves
<1>5. CASE Retire("Rejected")
  BY <1>1, <1>5, RetireServes
<1>6. QED
  BY <1>2, <1>3, <1>4, <1>5 DEF RecvPromptResult

\* The pump's end: everyone in line is given up (pump_loop's teardown).
LEMMA StopServes ==
    ASSUME TypeOK, RecvShutdown \/ StreamEnd
    PROVE  ServiceMoves
<1>1. queue \in Seq(Prompts) /\ InChannel \in Seq(Prompts) /\ Line \in Seq(Prompts)
      /\ cmds \in Seq(Commands) /\ Line = queue \o InChannel
  BY LineType DEF TypeOK, Line, InChannel
<1>2. PICK error \in {"PiExited", "SessionClosed"} :
        /\ cmds' = <<>> /\ queue' = <<>> /\ pending'.id = None
        /\ outcome' = [p \in Prompts |->
                        IF p = pending.id \/ p \in Range(queue) THEN "PiExited"
                        ELSE IF PromptCmd(p) \in Range(cmds) THEN error
                        ELSE outcome[p]]
  BY DEF RecvShutdown, StreamEnd, Stop, NoTurn
<1>3. Line' = <<>>
  <2>1. InChannel' = <<>>
    BY <1>2, PromptsEmpty DEF InChannel
  <2>2. QED
    BY <1>2, <2>1 DEF Line, InChannel
<1>4. /\ Len(Line) \in 0 .. Len(Line)
      /\ SubSeq(Line, Len(Line) + 1, Len(Line)) = <<>>
      /\ SubSeq(Line, 1, Len(Line)) = Line
  BY <1>1, SubSeqFull, SubSeqEmpty
<1>5. \A p \in Prompts : p \in Range(Line) <=> p \in Range(queue) \/ PromptCmd(p) \in Range(cmds)
  <2>1. Range(Line) = Range(queue) \cup Range(InChannel)
    BY <1>1, RangeConcatenation
  <2>2. QED
    BY <1>1, <2>1, PromptsRange DEF InChannel
<1>6. \A p \in Prompts : IF p \in Range(Line) \/ (p = pending.id /\ pending'.id = None)
                         THEN outcome'[p] \in Service!GivenUp ELSE outcome'[p] = outcome[p]
  BY <1>2, <1>5 DEF Service!GivenUp
<1>7. Service!GiveUp(Len(Line))
  <2>1. Service!Range(SubSeq(Line, 1, Len(Line))) = Range(Line)
    BY <1>4 DEF Service!Range, Range
  <2>2. QED
    BY <1>2, <1>3, <1>4, <1>6, <2>1 DEF Service!GiveUp
<1>8. QED
  BY <1>4, <1>7 DEF ServiceMoves, Service!Next

LEMMA ServiceStep == TypeOK /\ ControlInv /\ [Next]_vars => ServiceMoves
<1> SUFFICES ASSUME TypeOK, ControlInv, [Next]_vars
             PROVE  ServiceMoves
  OBVIOUS
<1>1. CASE \E p \in Prompts, flag \in BOOLEAN : Submit(p, flag)
  BY <1>1, SubmitServes
<1>2. CASE Cancel \/ Dispose
  <2>1. PICK c \in {CancelCmd, ShutdownCmd} : cmds' = Append(cmds, c)
    BY <1>2 DEF Cancel, Dispose
  <2>2. InChannel' = InChannel
    BY <2>1, PromptsAppend DEF InChannel, TypeOK, Commands, CancelCmd, ShutdownCmd
  <2>3. UNCHANGED <<outcome, queue, pending>>
    BY <1>2 DEF Cancel, Dispose, turnVars
  <2>4. QED
    BY <2>2, <2>3, NothingMoves
<1>3. CASE \E p \in Prompts : RecvPrompt(p) \/ RecvSettled(p) \/ RecvPromptResult(p)
  BY <1>3, RecvPromptServes, RecvSettledServes, RecvPromptResultServes
<1>4. CASE \/ RecvCancel \/ AbortAnswered \/ SettleTimeout \/ RecvRecoverAbort
           \/ RecoverTimeout \/ RecvShutdown \/ StreamEnd
  BY <1>4, RecvCancelServes, AbortAnsweredServes, SettleTimeoutServes, RecoveryServes, StopServes
<1>5. CASE \/ WriteAbort \/ AbortRequestFails \/ RequestAbort
           \/ \E q \in Prompts : \/ WritePrompt(q) \/ PromptRequestFails(q)
                                 \/ PiTakesPrompt(q) \/ PiAnswersPrompt(q)
                                 \/ PiTakesAbort(q)
           \/ PiSettles \/ PiExits
           \/ \E t \in Tools : PiStartsTool(t) \/ PiEndsTool(t) \/ RecvToolEvent(t)
           \/ UNCHANGED vars
  <2>1. UNCHANGED <<outcome, cmds, queue, pending>>
    BY <1>5 DEF WriteAbort, AbortRequestFails, RequestAbort, WritePrompt,
       PromptRequestFails, PiTakesPrompt, PiAnswersPrompt, PiTakesAbort, PiSettles,
       PiExits, PiStartsTool, PiEndsTool, RecvToolEvent, clientVars, turnVars, vars
  <2>2. QED
    BY <2>1, ChannelStays, NothingMoves
<1>6. QED
  BY <1>1, <1>2, <1>3, <1>4, <1>5 DEF Next

\* The pump implements TurnService: prompts are begun in the order they came, one at
\* a time, whatever else happens, and each is answered once (start_next, complete).
THEOREM PumpServes == Spec => ServedOnceInOrder
<1>1. Init => Service!Init
  <2>1. Init => Line = <<>>
    BY PromptsEmpty DEF Init, Line
  <2>2. Init => pending.id = None
    BY DEF Init, NoTurn
  <2>3. Init => outcome = [p \in Prompts |-> "unsent"]
    BY DEF Init
  <2>4. QED
    BY <2>1, <2>2, <2>3 DEF Service!Init
<1>2. TypeOK /\ ControlInv /\ [Next]_vars => [Service!Next]_(Service!serviceVars)
  BY ServiceStep DEF ServiceMoves, Service!serviceVars
<1>3. QED
  BY <1>1, <1>2, TypeCorrect, ControlHolds, AnsweredForGood, PTL
     DEF Spec, ServedOnceInOrder, ServesInOrder, Service!Spec

=============================================================================
