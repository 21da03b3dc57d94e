# Verification of pi-acp

pi-acp is an adapter between ACP clients (editors) and `pi --mode rpc`, a coding
agent run as a child process that speaks JSON lines. This directory holds TLA+
models of the adapter's control logic, the TLC runs that check them and the
TLAPS proofs about them. Line numbers refer to `crates/pi-acp/src/`.

## Inventory

| Component | State | Operations | Hard behaviour |
|---|---|---|---|
| Turn pump (`session/session.rs`) | turn queue, pending turn, cancel flag, poisoned flag, recovery handshake, two deadlines, executing tools | prompt, cancel, dispose; pi events; prompt and abort results; deadlines | `agent_settled` has no turn id; response and event channels race; handlers await in the middle; recovery after a silent pi |
| Request transport (`pi/process.rs`) | pending map, exit record, stdin lock, bounded event channel | request, reader task, watcher task, write and answer timeouts | check-then-insert against the watcher's drain, late answers, cut writes, back-pressure |
| Process lifecycle (`pi/process.rs`) | child, pid slot, watcher | dispose, drop, reaping | signals after reaping, double teardown |
| Tool tracking (`session/session.rs`, `translate/`, `render.rs`) | seven maps keyed by call id: status, running, mutation, file snapshot, bash, output, command | surface, start, update, end, clean up | pi runs ahead of the pump; output comes in deltas and cut snapshots; names streamed late |
| Message streaming (`session/session.rs`, `render.rs`) | current message id, last error, outbound channel | message start, update, end; notices; flush | chunks and a whole message must converge on two protocols; the response must come last |
| Extension UI (`session/session.rs`) | a task per request, two bounded channels | select, confirm, input, notice; answers | a silent client, a timeout racing its answer, a closed session |
| Configuration (`session.rs`, `agent.rs`) | pi's model and level, the set stamp, the cached window | set mode, set model, refresh, level changed | two refreshes on two ways to the client; telling an echo from a change |
| Session manager (`session/mod.rs`) | map from id to session | insert, get, close, close all but one | replaced sessions, closing a snapshot of ids |
| Agent (`agent.rs`) | lifecycle lock, menus, spawned sessions, store | new, load, resume, prompt, close, delete, list, set mode and model | concurrent restores, deletion racing persistence, leaks on early return |
| Session store (`session_store.rs`) | JSON map on disk, cache, process lock | upsert, delete, load | crash between write and rename, unreadable map, two stores, two processes |
| Session discovery (`pi/sessions.rs`) | none; pi's session files | list, title, last activity | files change between two pages |
| MCP handshake (`mcp.rs`, `mcp_registrar.js`, `agent.rs`) | stored menu, registrar's verdicts, markers, gate | check, register, retry, poll, restore | lost markers, deadline, pi dies, the adapter loads last |
| Slash commands (`commands.rs`, `session.rs`, `agent.rs`) | cache of pi's extension commands | discover, advertise, expand, serve | a stale cache changes how a turn ends |
| Patterns, arguments, dates (`settings.rs`, `commands.rs`, `time.rs`, `pi/sessions.rs`) | none | match, split, fill, convert | boundaries |
| Not modelled | `pi/resolve.rs`, `auth.rs`, `startup.rs`, `config.rs`, `translate/prompt.rs`, npm wrapper | | |

How they interact. A client's `session/prompt` goes through the agent to a
`PiAcpSession` handle, which sends a command to the session's pump task. The
pump starts one turn at a time; the turn's `prompt` request runs in a task of its
own on the shared `RpcClient`, whose answers come from the process's reader
task. The reader forwards everything that is not an answer to the pump's event
channel. The watcher task ends all requests when the child exits. The pump hands
facts to the outbound connector, which renders them for ACP v1 or v2.

### What makes each component correct

- **Turn pump.** Every prompt is answered exactly once; `EndTurn` only for a
  run that really settled; an abort hits only the turn it was meant for; pi
  never has two turns at once; a queued prompt is never stranded; a retired
  session stays silent; the published queue and foreground state are the real
  ones; a silent pi never hangs a prompt.
- **Request transport.** A request ends once, with an answer only if pi answered
  that request; no entry or waiter is orphaned by exit or deadline; lines of
  concurrent requests do not mix; events arrive complete and in order; a full
  event channel is only a delay.
- **Process lifecycle.** The child is ended and reaped, and only it is signalled.
- **Tool tracking.** A call's status never goes back; the deltas a terminal has
  been sent add up to pi's output; a diff is of a change the call made; v1 and v2
  clients show the same; an ended call leaves nothing behind.
- **Message streaming.** Each message's text ends up once under one id on either
  protocol; a failure is shown once a turn; nothing comes after the response.
- **Extension UI.** One answer per request, the one the client gave; a silent
  client blocks only its dialog.
- **Configuration.** The client ends at pi's model, level and window, and was
  never shown a state pi was not in.
- **Session manager and agent.** A pi is in one pair of hands until it is torn
  down, once; a closed or deleted session is not resurrected by a step that began
  earlier; what a failed step spawned or stored is undone.
- **Session store.** The file is a whole map at any time; updates are atomic and
  none is lost; a damaged map is backed up before it is replaced.
- **MCP handshake.** A session opens only with every server registered; the gate
  ends; an error names the right servers.
- **Slash commands.** A prompt's turn is marked by the way pi will end it.
- **Titles, listings, replay.** The last name is the one shown; a session that is
  left alone is listed once; a replayed transcript is the history.

## Modules

| Module | Models | Uses |
|---|---|---|
| `TurnService` | what a session promises its client: prompts in a line, one active, answered once and in order | |
| `TurnPump` | `pump_loop` and the handlers of `impl Pump` that start and end turns | implements `TurnService` |
| `MCTurnPump` | small instances of it | |
| `TurnPumpProofs` | theorems about it | |
| `RequestService` | what a request promises its caller | |
| `RpcTransport` | `RpcClient`, `read_loop`, `wait_loop`, `dispose` and `Drop` of `pi/process.rs` | implements `RequestService` |
| `MCRpcTransport` | small instances of it | |
| `RpcTransportProofs` | theorems about it | |
| `SessionDirectory` | what the agent promises about pi processes: one server per session, each retired once | |
| `AgentLifecycle` | the requests of `agent.rs` that create, restore, use and remove sessions, on `session/mod.rs` | implements `SessionDirectory` |
| `AgentLifecycleProofs` | theorems about it | |
| `SessionMap` | what the map on disk promises | |
| `SessionStore` | `session_store.rs`, a file system call a step | implements `SessionMap` |
| `SessionStoreProofs` | theorems about it | |
| `McpHandshake` | the menu, the registrar, the markers and the gate | |
| `McpHandshakeProofs` | theorems about it | |
| `ToolCalls` | the pump's tool handlers, both renderers and what clients show | |
| `MessageStream` | message ids, errors, the outbound channel, the connector, the renderers of text | |
| `Subsequences` | the part of a sequence at a set of positions | |
| `SubsequenceProofs` | lemmas about it, which the proofs about channels cite; induction and recursion over the numbers; machines that read a text; joined texts, and where in a text a sign is | |
| `ExtensionUi` | dialogs of pi's extensions | |
| `SessionConfig` | model and thinking level | |
| `SlashCommands` | who serves a slash prompt, and the menu | |
| `BuiltinCommands` | the commands the adapter serves itself | |
| `ThreadTitle` | the title of a thread | |
| `SessionListing` | `session/list` over pi's files | |
| `HistoryReplay` | replay of a stored session | |
| `CommandText`, `ModelPatterns`, `Calendar` | algorithms, each against what their inputs mean | |
| `Session` | the parts of a session side by side: tool calls, dialogs, title, replayed history, a command's text, enabled models | `ToolCalls`, `ExtensionUi`, `ThreadTitle`, `HistoryReplay`, `CommandText`, `ModelPatterns` |
| `SessionProofs` | theorems about them | |
| `Requests` | what becomes of a client's requests, side by side: messages, configuration, slash commands, listing, times | `MessageStream`, `SessionConfig`, `SlashCommands`, `SessionListing`, `Calendar` |
| `RequestsProofs` | theorems about them | |
| `MCSession`, `MCRequests` | small instances of these two | |
| `MCLive` | instances for the liveness of the smaller components | |

`MCTurnPump`, `MCRpcTransport`, `MCAgentLifecycle`, `MCSessionStore` and
`MCMcpHandshake` hold the small instances of five components; `MCSession` and
`MCRequests` those of `Session` and `Requests`, in which the smaller components
stand side by side with constants of their own, so that one module of theorems
is about all of them. A configuration file per run gives the constants their
values.

`Subsequences` exists for the proofs. What waits in a channel is often stated as
the part of it that is of one kind; `SelectSeq` is a recursive definition over a
predicate, about which nothing can be proved here, so those properties are written
with `Only(s, T)`, the elements of `s` in the set `T`, defined by the rank of a
position in a finite set. `SubsequenceProofs` shows what `Append`, `Tail` and
concatenation do to it.

It also holds what the proofs about recursive functions cite. The library's
induction theorems take an operator as a parameter, which the provers cannot
instantiate; `Induction`, `StrongInduction` and `Recursion` say the same of a *set* of
numbers and of a step *function*, and follow from `WFMin` (a well-founded relation has
a minimum). A proof by induction defines the set of numbers its claim holds of.
`RecursionAt` is `Recursion` up to a bound, for the functions that fold a list
(`Collected` of `SlashCommands`). A loop over the characters of a text is a machine: a
step from a state and a character to a state. `After(step, state, text)` is the state it
has reached when the text is read; `AfterNext` says that one character more is one step
more, `LoopsAgree` that any recursive function with that step is this one, and `MachineIs`
and `LoopEnds` that a loop exists and ends there. The parser's proof is written with
`After` only, and cites each loop of the code once. `JoinedGrows` is about texts put
together from pieces, `PrefixIs`, `SuffixIs`, `FirstIs` and `RowIs` about what a text begins
and ends with and where a sign stands first or several times in a row.

The modules meet at these points. The turn pump of `TurnPump` is the pump of
`ToolCalls`, `MessageStream`, `ExtensionUi` and `SessionConfig`; each keeps the
part of its state that its properties need, and takes the rest as "the pump
handles the next event". `RpcTransport` is what `TurnPump` assumes of requests
(`EveryRequestEnds` is its `RequestFairness`). `SlashCommands` decides the
extension flag that `TurnPump` takes as given. `SessionStore` is the store whose
single steps `AgentLifecycle` takes (`ImplementsMap` is why they are single).
`McpHandshake` is the gate that `AgentLifecycle` passes or fails in one step.

Operators named `<Definition>_<Change>` stand beside a definition and differ
from it by one plausible slip (a lost guard, a skipped clean-up). They are in no
specification. Put in the place of their definition they must make TLC find the
named property violated: `PROJECT.json` lists the pairs.

## TurnPump

**State.** `queue`, `pending`, `cancelRequested`, `poisoned`, `recovery`,
`settleArmed` and `executing` are the fields of `Pump`; `cmds`, `events`,
`promptRpc` and `recoverAbort` are the four channels its `select!` reads, the
latter two together with the tasks that fill them; `blocked` and `cancelAbort`
are the two awaits in the middle of `on_cancel`; `outcome` is what the caller of
each prompt holds; `stdin`, `piUp`, `piRun`, `piTools` are pi. `flagged`, `ended`,
`strayed` and the turn recorded in a settle or an abort are ghosts. They exist because
the wire carries no turn id: properties use them to say whose settle it was, handlers
never read them.

**Actions.** One per `select!` branch and per message kind (`RecvPrompt`,
`RecvCancel`, `RecvSettled`, `RecvToolEvent`, `RecvPromptResult`,
`SettleTimeout`, `RecvRecoverAbort`, `RecoverTimeout`, `RecvShutdown`,
`StreamEnd`), each the whole handler, including the turn it starts next and the
depth it publishes. `on_cancel` is three steps, since it awaits the prompt's
write (`RequestAbort`) and the abort's answer (`AbortAnswered`) while pi goes on.
`Submit`, `Cancel` and `Dispose` are the client's calls, `WritePrompt`,
`WriteAbort`, `PromptRequestFails` and `AbortRequestFails` the request tasks.

**pi** (external) handles its stdin in order, answers a prompt early, runs one
agent loop, settles each run once, and answers an abort after settling the run it
stopped. It may also stay silent at any point, end at any point, and take an
extension command without ever settling it. The scripted pi of the test-suite
(main.rs:652-655) emits a settle for every abort, also for one that finds nothing to
stop; in the model pi may do that or not (`PiTakesAbort`). Such a settle carries no
more than any other, so the pump can take it for the end of the next turn: that breaks
`StaleSettleNeverCompletes` (run `pump_stray`) and with it the sequence of turns at pi.
`EndTurnEarned` and `TurnsAtPi` therefore speak of the behaviours in which no such settle
was sent yet (`strayed`); everything else is claimed in all of them, whatever pi settles.

**Left out.** Streaming updates, usage, modes and other events that touch no turn
state. `on_rpc` (delegated commands): it awaits a request inside the pump, which
delays the other branches and nothing else; since a branch here may be delayed
for ever, every order it can cause is among those explored. What it does to the
event channel is the subject of `RpcTransport`. The capacity (64) of the command
channel: a full channel makes the client wait, as if it had called later.
Dropping every handle ends the pump exactly as `Shutdown` does.

**Bounds.** Three prompts are enough for a pending turn, a stale one and a queued
one at the
same time, which is the widest situation any handler distinguishes (it looks at
the pending turn and the head of the queue). Two cancels let one meet a running
turn and one a recovery. `MaxEvents` bounds only tool events, which exist to
suspend the settle deadline; settles are bounded by the prompts.

**Fairness.** `PumpFairness`: `select!` polls its ready branches in random order,
so a branch that stays ready is taken; weak fairness per branch says that.
`RequestFairness`: a request ends in an answer or at its deadline, which is what
`EveryRequestEnds` of `RpcTransport` shows. `ToolFairness`: a tool that pi starts
ends. The code relies on it: with a tool outstanding the settle fallback stands
down, and the comment at `session.rs:2350` leaves a hung tool to the host. A
re-armed deadline is modelled as one that may fire later. pi owes nothing else.

**Proved** (`TurnPumpProofs`, any prompts, tools and bounds, from
`PumpAssumption`). `TypeCorrect`; then three invariants, each with one lemma per
handler.

- `ControlInv` (`ControlHolds`), of the pump's own fields: *PendingIsNamed*,
  *HeldByItsTurn*, `RetiredIsQuiet`, `NoStrandedPrompt`, `AbortResultIsCurrent` and
  `ShownQueueIsCurrent`, each of the last four a theorem of its own. None of them
  is inductive alone: that a retired session stays quiet through an awaited abort
  needs to know that the await holds its own turn, that the published depth stays
  right after a recovery's end needs the recovery to have no turn, and that an
  abort result is current needs that a new recovery only starts with the previous
  one's result consumed.
- `ChannelInv` (`ChannelHolds`: it holds while pi has not settled for an abort that found
  nothing to stop, `ChannelClean`), of what is on its way: a turn leaves one trace,
  which is in the task that writes it, in the pipe, in pi's agent loop or in the
  settle event, and never in two of them; aborts written or to be written are of
  that turn; and while the session serves, the trace is the pending turn's and
  there is none when the next turn may start. The wire carries no turn id, so this
  is what makes the handlers right to take a settle for the pending turn's.
  `OneTurnHolds` (`TurnsAtPi`) and `EarnedHolds` (`EndTurnEarned`) follow.
- `OnePlace` (`PlacesHold`): a prompt is in the command channel, in the queue or
  pending, in one place once, exactly while its caller waits. `NoneLost`
  (`NoPromptLost`) and `AnsweredForGood` follow.

`CancelHolds` (`CancelSticks`) adds that a cancelled turn keeps its flag until it
is answered. `PumpServes` is the refinement: under the mapping of the line of
prompts to the channel's prompts behind the queue, every step is a step of
`TurnService` or changes nothing of it (`ServedOnceInOrder`).

## RpcTransport

**State.** `pc`, `result` and `slot` are the stack of each
`request_response_with_started` call and its oneshot; `pending`, `exit` are
`Shared`; `holder`, `partial`, `stdin` are the stdin lock, the bytes of the
unfinished line and the lines in the pipe, each as the set of requests with
bytes in it; `reader`, `channel` are `read_loop` with the item in its hand and
the bounded event channel; `child`, `watcher`, `rejecting` are the child and
`wait_loop`; `teardown`, `pid` are `dispose` and `Drop`. A step is what runs
between two awaits. The runtime is multi-threaded, so `HandOver` is a step apart
from `ReadAnswer`: a deadline can pass between the removal and the send.

**Actions.** `Check`, `Register`, `Write`, `Written`, `WriteFails`,
`WriteTimeout`, `AnswerTimeout`, `Remove`, `Receive` per request; `ReadAnswer`,
`HandOver`, `ReadEvent`, `SendEvent`, `ReadEnd` of the reader; `TakeEvent` of the
pump; `Reap`, `RecordExit`, `TakePending`, `Reject` of the watcher; `Dispose`,
`DisposeKill`, `DisposeEnd`, `DropProcess`; and pi's own. `PumpRequests` are those
the pump awaits in a handler (`on_cancel`, `on_rpc`, the refresh after a thinking
level change): while one is in progress it takes no events and disposes of
nothing. `PipeOutlives` says whether a descendant of pi keeps the pipes open
after pi's exit, in which case writes still succeed and stdout has no end.

**pi** (external) reads lines in order and skips one it cannot parse, answers a
request at most once, in any order and at any delay, and may exit at any point.

**Left out.** The prelude, the stderr tail and the MCP markers (text kept for
others), `extension_ui_response` (a write with no answer), responses without an
id, a panic of the pump inside a handler, and the retry loop of `spawn`.

**Bounds.** Two requests are enough for the races over the map, since entries do
not affect each other except through the lock and the reader. A channel of one
with two events is full and has another event in the reader's hand. The run has
`PipeOutlives` = FALSE; with TRUE the deadline alone ends the wait that
`NoHopelessWait` excludes.

**Fairness.** Every task that can run runs; the stdin lock is not assumed to be
granted, since the write deadline covers the wait for it; deadlines pass; the
pump takes events when it is not in a handler; a teardown that has begun goes on.
pi owes nothing.

**Proved** (`RpcTransportProofs`, any set of requests, any capacity, any number
of events, from `TransportAssumption`). `TypeCorrect`, which includes the
channel's bound. `TransportHolds`, the invariant `TransportInv`: a request's
sender is in one place only (map, reader's hand, watcher's hand) and in none once
its slot is filled (`OneSender`), what the unfinished line may hold
(`LineIsHeld`), what the watcher's progress implies (`ExitIsFinal`), and where
lines and answers come from (`Provenance`). From it follow `NoLeakedEntry`,
`WaiterHasSender`, `LinesAreWhole`, `NoHopelessWait`, and `TransportIsGenuine`:
every step is a step of `RequestService` or leaves its state alone. `NoLeakedEntry`
is not inductive alone: a request that receives its value leaves no entry only
because the sender was taken out of the map first. `EventsStayInOrder`
(`EventsInOrder`) follows the events of pi through the pipe, the reader's hand
and the channel, as subsequences of what lies there: until a teardown ends,
together with those the pump took they are all that pi wrote, in order, whatever
answers lie between.

## AgentLifecycle

**State.** A call is one request being handled: its kind, session, menu, where it
is (`pc`), the pi it started and the sessions it still has to close.
`sessions` is `SessionManager::sessions`, `phase` each pi, `store` and `files` the
session map and pi's files on disk, `menus` is `mcp_configs`, `down` the
connection's end. `gone` and `alone` are ghosts: which sessions were deleted or
closed, and during which calls no other call for the session ran. A file of pi that is to
be removed may stay (`Unlink`, `Erase`: the code ignores the failure). The store's
updates succeed here; what a failed one leaves is the subject of `SessionStore`.

**Actions.** A step is what happens between two awaits that other tasks can see:
acquiring the lifecycle lock, the look-up, reading the stored menu, the spawn,
the handshake and its failure, registering and replacing, taking the other
sessions out and disposing of each, storing, unlinking, closing. The dispatch
loop of the SDK blocks while `new`, `load`, `mode`, `close` and `delete` run, so
one of those runs at a time; a prompt runs in a task of its own beside them. Any
pi may exit and any handshake fail. `Disconnect` drops the connection's tasks,
then `DisposeAll` ends what they held.

**Deletion.** A deletion has two ends. It goes through (`Unstore`), or it stops at the
look-up because the session has neither entry nor file (agent.rs:1674), and then a
live session that has saved nothing keeps its pi. `DeletionIsFinal` says what holds at
each end; `DeleteClosesSubprocess`, which a test's comment takes for granted, fails at
the second (see Findings). A prompt in progress can bring a deleted session back,
by saving it (agent.rs:1275) or by entering a pi it had begun to start;
`RevivedOnlyByOverlap` says that nothing else can, and in particular no request that
comes after the deletion and has the session to itself.

**Abstract specification.** `SessionDirectory`: a pi begins in somebody's hands,
serves one session at most, and is retired once, out of somebody's hands.

**Bounds.** Any two requests of the six kinds on a new and a stored session, one
menu. Two overlapping calls are what the lock, the map and the menu arbitrate;
each kind meets each other, a restore meets a replacement, a deletion meets a
prompt's save. **Fairness.** `Advance` of each call and `DisposeAll`: what a call
awaits is a lock of this process or a request with a deadline.

**Proved** (`AgentLifecycleProofs`, any calls, sessions and menus).
`TypeCorrect`; `NoneOrphaned`, `RegisteredWhole`, `TornDownOnce` and `Implements`,
all from one ownership invariant: a pi that runs is either in the map under its
own id,
or is the one its call started and still has, or is the one a call took out and
has yet to dispose of. None of the four is inductive without it.

`LeavesNothing` (`NothingLeftBehind`) and `DeletedForGood` (`DeletionIsFinal`) rest
on a second one, `CleanInv`: for each call where its kind can be, that its id was
minted by itself or told to it, what it has written so far, and what holds from
the step that shuts a session on; and across calls that the handlers the dispatch
loop runs are one at a time (`OneHandler`), that a call counted as `alone` has its
session to itself (`Alone`), and that what stands in the map for a session a deletion
has closed was entered by a call that overlapped another (`Shut`). What a step of one
call leaves to the others is stated once (`Apart`). `LeftServing` is the step from there
to `DeletionIsFinal`: a pi that still runs for the session of an undisturbed deletion
is in nobody's hands, so it is the one in the map.

## SessionStore

**State.** `map` is the file (missing, a map, or damaged bytes), `backup` its
`.corrupt` copy, `lock` the file lock each process keeps (`session_store_lock`),
`cache` and `op` each store's cached map and update. **Actions.** Every file
system call of `update` is a step: read, check, second read, backup by rename,
write of the temporary file, rename; plus crashes, failed writes, read errors (if
`ReadErrors`) and damage by another program. The backup's rename may fail, which the
code logs and passes over (session_store.rs:125), and the update writes over the bytes
all the same. Damage takes no lock and comes at any step, also between an update's check
and its write. `excused` records the stores in one of these two situations: what they
write over is lost and nobody promised otherwise. **Abstract specification.**
`SessionMap`: one entry at a time, or damaged; what an update is about to write over
counts as the map it has read (`Contents`). **Bounds.** Two stores of one
process, two ids, two values, two damages: two updates interleave at every file
system call, and a damage meets every place of an update, with and without a backup of
an earlier one. The step of Windows, where the rename needs a removal before it, is
not modelled.

**Properties.** `BytesKept`: while there is no backup yet, the bytes an update replaces
are in the backup then, unless the store is excused. With a backup in place a second
damage is not kept, so TLC refutes the same without that condition (`BytesRecoverable`,
see Findings). The clause `NeverTorn` is about whole files: no write tears one.

**Proved** (`SessionStoreProofs`, any processes, stores, ids, values).
`NeverTornHolds` without further assumptions: the rename is the only step that
replaces the file, and what it moves is whole. `BaseHolds`, `BackupsStay`,
`Implements` for one process without read errors, since the lock is one process's:
an update's base is what the file still has when the update replaces it
(`OneUpdateHolds`). `CachesAreHonest` without read errors. `DamageIsKept` (`BytesKept`)
for one process without read errors, any number of damages.

## McpHandshake

**State.** The menu, the stored menu, pi (off, loading, starting, up, dead), the
registrar's to-do list and verdicts, the markers on stderr and those kept, the
gate and its outcome. Whether the adapter extension loads before or after the
registrar or is absent, and which servers it refuses, is chosen at the start.
**Actions.** `NewSession` with the checks of `mcp.rs`, `Spawn` inside it and in
`restore_session`, the registrar's attempt at load and its retry at
`session_start`, one marker at a time, the poll (`gate_mcp_registered`), the
deadline, pi's death. Markers beyond `Cap` are dropped.

**Bounds.** Good and bad menus of up to three servers, with `Cap` = 2, so that a
menu can outgrow the bound and only the deadline ends its gate; pi dies up to
twice, so that a restore follows a restore. **Fairness.** The gate's poll, the
deadline, the reader of stderr and the registrar run.

**Proved** (`McpHandshakeProofs`, any menus, bound, deaths). `OpenIsEarned`: every
marker kept is one this pi's registrar printed, so a gate that found one for each
server opens a session that has them. With `FailuresAreNamed`, about the names in an
error, it gives `GateHonest`, the run's `GateIsHonest`. Also `PendingHolds` and
`TypeCorrect`.

## ToolCalls

`maps` holds the seven maps; `calls` of the run is pi: each call's progress,
output and end; `view` is what a v1 and a v2 client show, `stray` the calls whose
opening frame came twice or not at all. `way` fixes what pi does in a behaviour:
each call's tool, the forms of its output (deltas, snapshots, snapshots cut at
the head), whether it may lose an end or stream a name late. Handlers are whole:
`surface_tool_call`, `on_tool_execution_start`, `_update`, `_end`,
`on_bash_execution_update`, each with the frames it emits through both renderers.
pi edits the file and prints while its events wait for the pump. Bounds: two
calls, two characters of output, three events waiting, three versions of the
file; a call of each kind beside another, deltas beside snapshots, two edits of
one file. Left out: locations, raw input, the text of other tools' results.

**Proved** (`SessionProofs`, any calls, characters, ways of pi and bounds, from
`ToolAssumption`). The assumption says what the values of the model are, and one
thing of pi: no call has the empty id (what happens when one does is among the
divergences below). `ToolsHold` is the invariant: for each call, apart from the
others,

- `InOrder` and `Waiting`: in which order its events wait for the pump, and what
  their texts and its end say of what pi printed so far;
- `Seen`: in which of the maps it is at each stage, what both clients then show,
  and, when it edits, that its snapshot is of a version of the file from before the
  version its end reads;
- `Printed`: that its terminal ends with the output the pump holds, and, when its
  output comes in one form, that the terminal, and the deltas and snapshots still on
  their way, make up what was printed.

Besides, `Alike` keeps the v1 and the v2 client in step, so that most is shown of one
of them. `MapsHold`, `ClientsHold` and `TerminalsHold` follow. `MapsAgree` is not
inductive: that an ended call is in no map needs to know that no event of it is
behind its end, and that a client's diff is of a real change needs the order of the
snapshot, pi's write and the end.

## MessageStream

`pi` streams a message in deltas, breaks off, states it whole; the pump mints
ids, states chunks, whole messages, errors and notices; `out` and `chan` are what
the pump has still to put and has put into the bounded outbound channel; the
connector delivers; `shown` is each client's screen under each id: a v1 client
appends, a v2 client replaces on a whole message. A turn is answered when the
flush came back (`answered`, `late`). Bounds: two messages of two deltas, two
turns, a channel of two (one in the liveness run), two roles, one error and one
notice, the notice unsendable in the liveness run. Fairness: the pump's and the
connector's tasks run; pi owes nothing. Left out: thoughts (they go the way of
text), usage and plan frames.

**Proved** (`RequestsProofs`, any messages, deltas, turns, texts and
capacities, from `StreamAssumption`, which besides the bounds' types says that
`None`, the absent value of the code's options, is no error and no id).
`Pipe` is what the pump has stated and no client has seen: the channel followed by
what is still to send.

- `Turns`: turns are answered in order, all that is in the pipe is of the pump's
  turn, a flush is the last of it, and when the pump is in no turn nothing is on its
  way. This is what makes `late` empty.
- `Named(first, at)`: `at` gives the message of pi that each event waiting for the
  pump is of. The pump's counter is that number for the next event, plus `first`,
  which is 1 when a line of the adapter's own took an id before any message. Every
  piece of pi's text, on a screen or in the pipe, is under the id of its own message
  plus `first`, a whole message is stated after its end, and no id is ahead of the
  counter. `StreamHolds` is this invariant, and `MessagesHold` (`MessagesSeparate`)
  follows.
- `Streamed`: for each message, how many of its deltas are at or before each place of
  the pipe and each waiting event. The clients have exactly the first ones, each
  fact and each event that carries a delta carries the next, and a whole message
  comes where the count is full, so replacing by it changes no text. `Failed`: each
  error pi reported is on a v1 screen, in the pipe, or in an event of the pump's
  turn; the error the pump remembers is already stated, which is why leaving out its
  repetition loses nothing.

`UpdatesHold` (`UpdatesArrive`) follows from the three when nothing is left on the
way. It has a hypothesis, since it fails without it: what cannot be rendered or sent
is a notice (`Unsendable` holds no text and no error). A text that cannot be sent is
logged and dropped by the connector, and only v2's whole message repairs that.

## ExtensionUi

The pump is on, waiting for room in the outbound channel, or off; a task per
request sends its dialog, waits for the client or its timeout, and puts the
answer into the bounded answers' channel; `connector` spawns a task per dialog;
the client answers with anything, late or never. Bounds: a select, a confirm with
a timeout and a notice, both channels of one. Fairness: the pump's branches
(`select!` is fair between ready branches, hence SF on the two that compete for
it), the connector, each request's task. The client is never assumed to answer:
`AlwaysAnswered` is about requests with a timeout or without a dialog.

**Proved** (`SessionProofs`, any requests, methods, options, texts and both
capacities, from `RequestAssumption`). `DialogsHold` (`DialogsAreHonest`) rests on
`DialogInv`, which follows a request from pi's question to pi's answer: where its
question, its dialog and its answer are, each at most once (`AskedOnce`, `OfferedOnce`);
that an answer in the channel is its ended task's (`AnswersOfTasks`); that what the
task made of a selection, a text, a timeout or an error is an answer to this request
and to the client's (`TasksAreHonest`); and that a notice lies before the texts pi sent
after it was answered, in the pump's hand, the outbound channel and the client's
transcript alike (`Noticing`). None of the honest properties is inductive: an answer is
the client's own only because the task that sends it has not sent one before.

## SessionConfig

pi owns model and level; `handler` is a client's set (`session/set_mode`,
`set_model`, `set_config_option`): stamp, ask pi, read back, refresh directly;
the pump refreshes through `outbound` when pi reports a level, unless the stamp
says it is the echo of the set. The ladder and its clamp
(`supported_thinking_levels`, `clamp_thinking_level`) are modelled over the
seven levels. Bounds: three models (one without reasoning), two sets, two changes
by pi, one usage event, failing sets. The run has `PiMoves` = "apart": pi does
not change by itself while the client sets, nor the client before it was told.
With other values the properties fail, see below.

**Proved** (`RequestsProofs`, any models, maps of levels, targets and bounds, from
`ConfigAssumption` and `Apart`). `Apart` is the condition of the run: `PiMoves` is
"apart", only a set itself may fail, and every model has a context window. The
assumption that each model has some level is the code's own: pi is at one of them.
`ConfigHolds` (`ShownIsPis`) rests on `ConfigInv`: what the handler read back is what pi
is at (`SetInv`); every level shown, or on its way to be, is one pi was at (`WasInv`);
what is offered is of pi's model (`ModelInv`); and the last word on its way about the
mode and about the options is pi's, the one in the client's hands when none is on its
way (`ModeInv`, `OptionsInv`). The proof includes that the adapter's clamp and pi's choose the
same level on every map (`clamp_thinking_level`, `PiSettles`).

## SlashCommands, BuiltinCommands, CommandText

`SlashCommands`: a task per prompt and one for the menu; whoever comes first asks
pi for its commands and fills the cache; a prompt is then served by the adapter,
by an extension (and marked to end with its response) or expanded from a file;
user files come before the files of the roots, and a root met twice counts once.
What may happen in an instance (the prompts, whether pi fails, how often it
changes) is one of `Ways`, picked at the start: six prompts at once to a pi that
answers, and three to a pi that may fail and change. `BuiltinCommands`: a command runs in
its own task, and its requests go through the pump, which sends pi one (`on_rpc`) and
waits for its answer, pi's exit or the deadline. pi takes a request up when it likes:
it may carry it out, refuse it (`PiRefuses`), never answer, do what it was asked after
the deadline has passed (`Reaches`), gain messages and die. So a set that ended in an
error may have been carried out all the same, and `ClientKnows` excuses exactly that.
`Calm` is a client that waits for each command. Fairness: each command's task, the pump
and the deadline, never pi: `CommandsEnd` rests on no answer. Its clause `NothingHangs` is
about the export guard: without it pi is asked for something it answers without an id, and the
session waits for the whole deadline. `CommandText`: an author writes a line
and a template character by character; what he means is kept beside it, and
`parse_command_args` and `substitute_args` are compared with it.

**Proved** (`RequestsProofs`, any prompts, lists, directories, roots and files, and any
number of changes, from `SlashAssumption` and `NamesAreServed`). `CommandsHold`
(`CommandsAgree`) rests on `CommandInv`: who is asking pi, or has asked, is a prompt whose
name is looked up and is not the adapter's own (`TurnsAreOthers`); while pi keeps its
commands and answers, the cache, when filled, and every answer on its way say what pi has
now, so that it does not matter whose answer comes first (`AnswersAreKept`); and each entry
of the menu is the first of its name among pi's or the files' and the adapter's
(`MenuIsMerged`), which is what `merge_commands` is shown to keep of any two lists
(`FirstOnlyIs`, `Merged`). `NamesAreServed` says that pi gives no other command the name of an
extension's, and that no prompt file's text is itself an extension's command; without the latter
`MarkedAsServed` fails, see below. The former is pi's to keep: the adapter leaves
extensions out of the menu by their source, not by their name.

**Proved** (`SessionProofs`, any characters, and lines and templates of any length).
`TextHolds` (`TextIsMeant`): the arguments are those the user means and the template is
filled as its author means.
`LineInv` is that the parser stands where the user is: after the line so far, its
arguments are the meant ones, its current word the word being written, its quote the quote
the user is within; and that the template so far, substituted, is the intended text. Each
loop (`parse_command_args`, `replace_all_arguments`, `substitute_args`, the
concatenation of the pieces) is first shown to be a machine (`ParsedIs`, `AllArgumentsIs`,
`SubstitutedIs`, `JoinGrows`), then to go one step further with one character or piece
more; a replacement that itself holds no digit or dollar is not substituted again
(`FilledPlain`). Two hypotheses are needed, since it fails without them, see below: no
argument is quoted and empty, and no template writes $0. `TextIsMeant` itself claims
nothing of a template that writes `$@` when an argument has a digit: the code looks at what
`$@` put in once more, so that a `$1` in an argument would be filled.

## ThreadTitle, SessionListing, HistoryReplay

`ThreadTitle`: prompts, `/name`, pi's own names, loads and silent restores;
`TitleAgrees` holds of a client that prompts a thread once before it names it and
does one thing at a time (`Careful`, `Calm`). `SessionListing`: every page sorts
the files anew and returns a slice from an offset, while pi writes to sessions,
and sessions come and go. A page of one session and three sessions put a boundary
between any two; `Memory` bounds what the client remembers. `UntouchedAreListed`
is claimed of walks without a deletion, which moves later sessions in front of the cursor.
`HistoryReplay`: lives of a session, each
begun by a prompt, a load or a resume; ids minted by a pump that starts again;
the transcript is compared with pi's history while `fresh` (every life began with
a replay).

**Proved** (`SessionProofs`, any names, prompts, sizes and bounds). `TitlesHold`
(`TitleAgrees`) for a client that is `Careful` and `Calm`; without either it fails, see
below. Its invariant `TitleInv` says that one name at most is on its way to the client,
that it is the last one in pi's file, and that the client shows that one when nothing is
under way (`NameArrives`); and that a prompted thread has its prompt in the file and a
title (`PromptIsKept`).
`TranscriptsHold` (`TranscriptIsHistory`) has no hypothesis but `ReplayAssumption`: any
number of messages, lives and loads. Its invariant `HistoryInv` says of a `fresh`
transcript that it tells every message so far that can be told, in order and one to an
entry (`TellsAll`); of any transcript that an entry is of messages there are and failed if
one of them did (`EntriesAreOf`); and that the ids to be minted next are on no entry, and
no message's id on a failed result's (`IdsAreAhead`). A load replaces the
transcript by what `replay_history` makes of the history from nothing: `ReplayIsWhole`
is by induction over the messages replayed so far (`ReplayOf`), of which it also keeps that the
replay's own ids count up.

**Proved** (`RequestsProofs`, any sessions, projects, page size and number of writes).
`ListingHolds` (`ListingIsFaithful`) for a client that names the project with every page
(`Explicit`) and remembers as many sessions as there are, and a pi whose timestamps have a
zone (not `Naive`); without either of the code's conditions it fails, see below. Its
invariant `ListingInv` counts places: the place of a session in its project is how many of
the project's are not older, which is its index in the sorted list (`Listed`, `PlaceInOrder`).
While a walk goes on, every session that was left alone and whose place is not beyond the
cursor has been shown (`Covers`). A write or a new session moves the others only towards the
end (`OthersMoveBack`): a session may be shown twice for it but none is passed over. With
nothing written the sessions shown are the first ones, in their places (`InOrder`). Last
messages have different times (`FilesInv`), so the order is one.

## ModelPatterns, Calendar

`ModelPatterns`: an author writes a pattern piece by piece (stars, question marks, three
kinds of class, an escaped star, a bracket that is never closed, characters), with or
without a thinking level at its end, and a model's id is any text; the matcher's verdict is
compared with what the pieces mean: the id can be cut into texts that they stand for. Two
stars in a row are one piece, and the author closes no bracket that is to stand for itself.
Three pieces out of eleven and ids of up to three of seven characters: a star beside
each kind, over slashes and none, and a level on either side. `Calendar`: a walk over
years 0 to 9999, the years around eras, centuries and leap years day by day, with
a day of 24 units; both copies of the formulas and `normalize_timestamp` are
compared with the walk.

**Proved** (`RequestsProofs`). `TimesHold` (`TimesAreTrue`) for every year of the walk and any
length of the day. The invariant `DateInv` is that the walk is on a date of the calendar and
that the days it has counted are `DayCount` of that date, a closed form over years that
begin in March and their months; each step to the next day, month or year is shown to
add what `DayCount` does. That `days_from_civil` and `civil_from_days` are that count and its
inverse is arithmetic on division by 400, 100 and 4.

**Proved** (`SessionProofs`, any alphabet, provider, pieces, and patterns and ids of any
length). `PatternsHold` (`PatternMeansIt`) has no hypothesis but `PatternAssumption`. Its
invariant `GlobInv` says that the pieces stand one behind the other in what the author has
written (`Placed`, `Laid`), that a bracket which stands for itself is never closed, and that no star follows
a star of another piece. From it follows what the matcher makes of the pattern at the
place of a piece: a star reaches where a text of its kind may end, any other piece takes one
character (`CellOfPiece`). The matcher's table exists (`TableIs`: it is built backwards from
the pattern's end, by induction), and `GlobIsMeant` shows, by induction from the end, that
its entry at the place of a piece and at a place in the id says whether the rest of the id
can be cut into texts for the rest of the pieces (`MeantNext`). That a class matches its
members is by the same kind of induction over the class (`MembersAre`).

## Runs

| Run | Instance | Shows |
|---|---|---|
| `pump_safety` | 2 prompts and an extension command, 2 cancels, 1 tool | the pump's invariants, and that it implements `TurnService` (`ServedOnceInOrder`) |
| `pump_live` | a prompt, an extension command, 1 cancel, 1 tool | `CancelSticks`, `EveryPromptAnswered` under `FairSpec` |
| `rpc` | a request of the pump, one of a task, 2 events, a channel of 1 | `NoHopelessWait`, `EventsInOrder`, the refinement of `RequestService`, and under `FairSpec` `RequestsEnd` |
| `agent` | any two requests | `NoOrphan`, `NothingLeftBehind`, `DeletionIsFinal`, `RevivedOnlyByOverlap`, the refinement of `SessionDirectory`, `CallsEnd` |
| `store_shared` | two stores of a process, two damages | `BytesKept`, the refinement of `SessionMap` |
| `mcp` | menus of up to 3 servers, a bound of 2 markers | `GateIsHonest`, `GateEnds` |
| `session` | tools, dialogs, title, replay, text, patterns | what a client is shown, what pi is sent for a command, and which models are enabled |
| `requests` | messages, config, commands, listing, calendar | what the agent makes of requests and of pi's files |
| `live` | stream, dialogs, commands in turn and at once | what must end though a fact cannot be sent, the client is silent or pi refuses, says nothing or obeys too late; and that a client knows pi's settings |
| `pump_stray`, `pump_publish`, `rpc_stall` | small instances | violations, see Findings |

`MCSession`, `MCRequests` and `MCLive` are suites: they hold several components
that share no state. `MCSession` extends `Session` and `MCRequests` extends
`Requests`, which are proved about (TLC evaluates their assumptions there). The variable
`part` picks one in the initial state; only that one takes steps, and the others stay as they begin, so the
states of such a run are the disjoint union of the components' states and not
their product. They say nothing about interactions between those components; the
properties about interactions are in the modules that contain both actors
(`TurnPump` with pi and its requests, `MessageStream` with its connector,
`ExtensionUi` with the pump and the client, `AgentLifecycle` with the map, the
store and the menus).

A property of a run that is named after several (`TurnsAtPi`, `ServedOnceInOrder`,
`RequestsEnd`, `NothingLeftBehind`, `CallsEnd`, `BytesKept`, `GateIsHonest`, `CommandsEnd`, `DialogsAreHonest`, `CommandsAgree`,
`ListingIsFaithful`, `ShownIsPis`, `TitleAgrees`, `TimesAreTrue`, `TextIsMeant`)
is their conjunction; each conjunct has its own definition and comment.

## Findings

Each is checked by a run that is expected to end in a violation.

- **`pump_stray`, `StaleSettleNeverCompletes`** (session/session.rs:2512).
  on_agent_settled buffers whatever settle comes before the pending prompt is answered
  and otherwise ends the pending turn with it, with nothing to tell the turns apart;
  session.rs:1041 says "The aborted turn's late `agent_settled` carries no turn id and
  must never complete a fresh turn". pi may settle for an abort that finds nothing to
  stop, as the repository's scripted pi does (main.rs:652-655). In the run a turn times
  out and the recovery's abort crosses its late settle: the settle and the abort's answer
  end the drain, the next prompt starts, and the settle for the abort is buffered as that
  prompt's: it reports EndTurn while its own run goes on. A cancel's abort can cross its
  turn's settle in the same way.
- **`pump_publish`, `StopReasonIsPublished`** (session/session.rs:2624).
  on_settle_timeout answers a cancelled turn Ok(Cancelled) and returns without
  emit_foreground, so v2 clients stay at Running; session.rs:446 says of Idle "A
  turn ended; carries the reason so v2 clients see the same stop reason a v1
  client reads from the prompt response", and agent.rs:988 that "v2 reports turn
  completion through `state_update`". Only settle_pending_turn publishes Idle: a
  cancel followed by the settle timeout, and every turn that fails, leaves the v2
  foreground state at Running.
- **`rpc_stall`, `PumpIsNotStalled`** (session/session.rs:1805).
  on_cancel awaits the abort's answer inside the handler, and while it does nobody
  drains the event channel; when the channel is full (a burst of streaming events,
  or a pump held up by its outbound side when the cancel arrives) read_loop waits
  in events_tx.send (process.rs:883) and cannot reach the answer behind that
  event, so the abort runs into its deadline although pi answered, and the session
  is retired. session.rs:1800 says "The resulting agent_settled event is buffered
  by the event channel while the RPC is in flight"; the same holds of on_rpc
  (session.rs:1830).

Further divergences. TLC refutes each of these properties with the constants
named, which are outside those of the passing runs (or the property is stated in the
module and checked by none). They are the reason why a passing run is bounded
as it is.

- **`RpcTransport.LateAnswerIsKept`**, as `rpc_stall` (pi/process.rs:860). When
  the deadline passes between the reader's removal of the sender (process.rs:855)
  and its send (or between the two polls of tokio::time::timeout), `let _ =
  tx.send(Ok(value))` drops the answer: the caller gets RpcTimeout and no
  UnmatchedResponse is forwarded. process.rs:737 says "drop the pending entry so a
  late response is routed to the event channel as `UnmatchedResponse`" and
  process.rs:863 "Late response (after a timeout) or unsolicited — route to the
  event stream rather than dropping".
- **`RpcTransport.SignalsOwnChild`**, as `rpc_stall` (pi/process.rs:609). dispose
  signals the stored pid without looking at the exit record. After pi's death the
  pump first waits for that record (session.rs:1688) and then disposes, so the
  child is normally already reaped and its pid free for reuse when
  kill_process_group and kill_process are called; Drop has the same step.
  process.rs:755 gives as the reason against a later signal that it would "risk
  signaling a reused PID".
- **`AgentLifecycle.OneLivePi`**, a new session and a prompt (agent.rs:1837).
  crates/pi-acp/src/agent.rs:1210 says "within a single ACP connection keep only
  one live pi subprocess". Only new and load close other sessions; a prompt or
  set_mode for another stored session restores it beside the live one.
- **`AgentLifecycle.DeleteClosesSubprocess`**, a new session and its deletion
  (agent.rs:1674).
  handle_delete_session_id returns when the session has neither a map entry nor a file
  of pi, before it closes the live session (1683): pi keeps a session without an answer
  in memory only, so deleting a session opened a moment ago answers OK and leaves its
  pi running. tests/acp_agent.rs:976 deletes such a session to "Close the live
  subprocess before the SDK tears down the outer adapter".
- **`SessionStore.BytesRecoverable`**, as `store_shared` (session_store.rs:205). When the map file is
  damaged a second time, .corrupt exists, backup_unreadable_map returns Ok and update
  overwrites the damaged file: its bytes are in no file. session_store.rs:121 says
  'Preserve the raw bytes first so they are recoverable instead of silently lost.'
- **`AgentLifecycle.FreshIsKept`**, two prompts for the stored session
  (agent.rs:1837). restore_session runs outside session_lifecycle and does not
  re-check the map before it registers: two prompts for a session that is not live
  each start a pi on the same session file, and the second registration disposes
  of the first one's while its prompt runs. crates/pi-acp/src/agent.rs:347 says
  the lock serializes replacement "so concurrent requests cannot close each
  other's freshly-created subprocess".
- **`AgentLifecycle.FailedLoadLeavesNoMenu`**, a load (agent.rs:1494).
  session/load stores its menu at line 1487 and returns early on an unknown
  session, a directory mismatch (1494-1500) or a failing get_messages (1531)
  without removing it; only a failed restore does, with the comment at
  crates/pi-acp/src/agent.rs:1513 "drop its menu too so a later prompt cannot
  resurrect a load the client saw fail". A later prompt for the id restores the
  session with that menu.
- **`AgentLifecycle.LoadAppliesMenu`**, a load and a prompt (agent.rs:1837).
  crates/pi-acp/src/agent.rs:1431 says "the replacement menu is stored before
  restore so the respawned pi registers it". A prompt that read the old menu can
  register its pi after the load closed the session; the load's restore_session
  finds it in the map and answers OK with a session that lacks the menu.
- **`ToolCalls.FallbackArmed`**, a way with `loses` (session/session.rs:2352).
  executing_tool_calls is emptied only by tool_execution_end; a tool that was
  running when its turn was aborted and settled without an end stays in it, so
  has_running_tool keeps the settle fallback down in every later turn of the
  session. session.rs:2351 says of the fallback 'this adapter's fallback is for a
  prompt that never got going', which is then the prompt that has none.
- **`ToolCalls.RunningIsUnfinished`**, `NoId` among `Ids`, which
  `ToolAssumption` leaves out (session/session.rs:2878). on_tool_execution_start
  has no guard for an empty
  tool call id and adds it to executing_tool_calls; on_tool_execution_end returns
  early on an empty id (session.rs:2975), so the tool counts as running for ever.
  session.rs:2345 says has_running_tool is 'Whether pi has started a tool it has
  not finished.'
- **`ToolCalls.SnapshotIsBefore`**, one edit, `MaxWrites` = 2
  (session/session.rs:2902). The file snapshot is read when the pump handles
  tool_execution_start, while pi goes on; pi may have written the file by then,
  and the call then ends without a diff. The comment at session.rs:2895 says
  'Capture pre-mutation file contents so we can emit a structured ACP diff on
  completion.'
- **`ToolCalls.CommandStays`**, a bash call, a way with `late`
  (session/session.rs:3072). emit_bash_tool_call replaces the tracked command by
  the tool's name when it has no arguments, also for a call that already runs: a
  toolcall_start handled after tool_execution_start (the order surface_tool_call's
  comment at session.rs:2822 allows for) puts the title back to 'bash'.
  render.rs:173 says the command has to replace the placeholder 'or the client
  shows "bash" with the command gone.'
- **`SessionStore.BackupStays`**, two processes (session_store.rs:208). Between
  the check that no backup exists and the rename another pi-acp process can back
  up the damaged file and write a new map; the rename then moves that map over the
  backup, and both the damaged bytes and the new entry are lost.
  session_store.rs:198 says of the backup '(only if no backup exists yet)'.
- **`SessionStore.OneEntryAtATime`**, `ReadErrors` = TRUE (session_store.rs:175).
  load_file takes any read error for an empty map; when the second read, in
  map_file_unreadable, succeeds, the good map is overwritten by one with only the
  updated entry and no backup is made. session_store.rs:120 says of an empty map
  'the write below would destroy its entries. Preserve the raw bytes first'.
- **`SessionStore.DeletedIsGone`**, two stores of a process
  (session_store.rs:127). delete of an entry that another store already removed
  from the file makes the closure return false, so the cache is not replaced by
  the map just read and get still returns the entry. session_store.rs:165 says
  delete is to 'Remove an entry; no-op when absent.'
- **`MessageStream.ErrorOncePerTurn`**, three messages, two errors
  (session/session.rs:2167). emit_message_error compares an error with the last
  one only: errors A, B, A in a turn show A twice. The comment at session.rs:2164
  says 'identical text is emitted only once per turn'.
- **`MessageStream.ErrorVisibleV2`**, one message with a delta, one error
  (session/session.rs:2389). MessageEnd emits the error as a chunk of the current
  message and then, when the message has text, the whole message under the same
  id; 'a concrete array replaces everything previously accumulated for that
  messageId' (session.rs:2114), so a v2 client loses the error. session.rs:2162
  says emit_message_error is to 'Surface a pi assistant failure as a visible ACP
  text chunk.'
- **`SessionConfig.Follows`**, v1, `PiMoves` = "calm" (agent.rs:2602).
  emit_config_options_update sends the mode and the options on the connection
  directly, so they overtake what the pump put into the outbound channel before;
  the older options then replace them at the client. session.rs:287 says
  'Everything the session sends to the ACP client travels this single ordered
  channel (design §8.1: *all `sessionUpdate` notifications through one ordered
  sink*).'
- **`SessionConfig.Follows`**, v2, `PiMoves` = "any" (session/session.rs:2272).
  Any thinking_level_changed within two seconds of a set skips the refresh, also
  one pi started after the handler read the state back; on v2, which has no mode,
  the client keeps the old level. session.rs:2268 says of the suppression 'the
  agent's explicit refresh has already re-read the same post-set state'.
- **`SessionConfig.Follows`**, v2, `PiMoves` = "calm", `Lossy` = {"set"}
  (session/session.rs:1450). The stamp of a set that fails is there until the
  failure is known; a change pi reported meanwhile is taken for its echo and the
  failed set refreshes nothing. session.rs:1445 says 'a failed set clears its own
  stamp again so it can never suppress a later genuine refresh'.
- **`SessionConfig.ReadBack`**, `First` = "fast", `Lossy` = {"read"}
  (agent.rs:2688). When get_state fails, get_session_configuration takes medium
  for the current level and the refresh after a set shows it although pi was never
  at it. agent.rs:2596 says 'Zed must follow the read-back level, not the
  requested one'.
- **`SessionConfig.UsageIsMeaningful`**, a model with `Window` 0
  (session/session.rs:1594). A model without a context window leaves the cached
  window of the former model, and usage goes on being reported against it.
  session.rs:2198 says usage is 'Skipped when the usage is all-zero or the model's
  context window is unknown'.
- **`SessionConfig.EnabledOnly`**, `MaxMoves` = 1 (session/session.rs:2298). The
  pump's refresh offers every model pi has, without the enabledModels filter that
  the agent's applies. settings.rs:148 says 'Return whether a model is allowed by
  an optional `enabledModels` list.'
- **`SessionListing.MostRecentFirst`**, `Naive` = TRUE (pi/sessions.rs:220). A
  message whose timestamp has no zone is passed over for an older message, or for
  any other line, that has one; the mtime is used only when the tail has no usable
  timestamp at all. sessions.rs:292 says of a naive timestamp that callers take
  'the file mtime (the real clock) instead'.
- **`SessionListing.OneProject`**, `Explicit` = FALSE, two projects
  (agent.rs:1602). The default project is read again with every page, so a
  session/new or session/load in another project between two pages of a cwd-less
  listing applies the cursor to that project's sessions. agent.rs:1601 says of the
  default: 'last session cwd to emulate pi's project-scoped `/resume` picker'.
- **`HistoryReplay.TranscriptIsHistory`**, without the condition `fresh`
  (session/session.rs:1199). The counter starts again with every pump, also when
  restore_session respawns pi for a prompt or for a resume without replay, while
  the client keeps its transcript: pi-msg-2 of the new pump names an old message,
  and its agent_message patch replaces that message's text. session.rs:1093 says
  'local uniqueness is all the protocol requires', of a counter that
  session.rs:1092 calls a 'Monotonic per-session counter'.
- **`CommandText.ArgsAreMeant`**, `Empties` = TRUE (commands.rs:412). A quoted
  argument with nothing in it is dropped, because only a non-empty current word is
  pushed: `/cmd '' b` fills $1 with b. commands.rs:392 says the arguments are
  parsed 'bash-style (single/double quotes, whitespace-separated)', and bash keeps
  the empty argument.
- **`CommandText.TemplateIsFilled`**, `Zeros` = TRUE (commands.rs:449). $0, and a
  number too long for usize, are filled with the first argument, because the index
  is 0 for both (unwrap_or(0), saturating_sub(1)). commands.rs:435 says
  'Positional `$N` (1-based)' and commands.rs:430 that missing positions 'become
  empty strings'.
- **`SlashCommands.MarkedAsServed`**, a way with `fails` = FALSE, `changes` = 1
  (session/session.rs:1306). is_extension_command answers from a cache that
  nothing invalidates, so an extension command pi registers after the first
  get_commands is sent as an ordinary prompt and waits for an agent_settled that
  does not come. session.rs:882 says of extension commands 'they must take
  precedence over local prompt files and complete on the prompt response'.
- **`SlashCommands.MarkedAsServed`**, a file whose body is "ext"
  (session/session.rs:1279). The expanded text of a prompt file is not looked up:
  when it starts with an extension's command pi runs that command, and the turn,
  not marked, waits for an agent_settled. session.rs:882 says of extension
  commands 'they must take precedence over local prompt files and complete on the
  prompt response'.
- **`ThreadTitle.NamedAgrees`**, `Careful` = FALSE (agent.rs:1372). first_prompt
  is false in every new PiAcpSession, so the first prompt after /name, after
  session/load or after a silent restore sends its own text as the title, and the
  thread's name is gone from the client until it is named again. agent.rs:1370
  says 'the title is provisional — `/name` and pi's own `session_info` entries
  override it later'.
- **`ThreadTitle.NamedAgrees`**, `Calm` = FALSE (agent.rs:2076). /name sends its
  notice on the connection while the pump's session_info_changed notices wait in
  the outbound channel, so the older of two names may be shown last.
  session.rs:287 says 'Everything the session sends to the ACP client travels this
  single ordered channel (design §8.1: *all `sessionUpdate` notifications through
  one ordered sink*).'

## Proved and only model-checked

Proved by TLAPS for every value of the constants that the named assumptions
allow, and model-checked where a run lists it:

| Module | Properties of the runs |
|---|---|
| `TurnPumpProofs` | `EndTurnEarned`, `TurnsAtPi`, `RetiredIsQuiet`, `NoStrandedPrompt`, `NoPromptLost`, `CancelSticks`, the refinement `ServedOnceInOrder` |
| `RpcTransportProofs` | `NoHopelessWait`, `EventsInOrder`, the refinement `AnswersAreGenuine` |
| `AgentLifecycleProofs` | `NoOrphan`, `NothingLeftBehind`, `DeletionIsFinal`, the refinement `ImplementsDirectory` |
| `SessionStoreProofs` | `BytesKept`, the refinement `ImplementsMap` |
| `McpHandshakeProofs` | `GateIsHonest` |
| `SessionProofs` | `MapsAgree`, `ClientsSeeTheCall`, `TerminalIsOutput`, `DialogsAreHonest`, `TitleAgrees`, `TranscriptIsHistory`, `TextIsMeant`, `PatternMeansIt` |
| `RequestsProofs` | `MessagesSeparate`, `UpdatesArrive`, `ShownIsPis`, `CommandsAgree`, `ListingIsFaithful`, `TimesAreTrue` |

Also proved, as statements in their own right or because the inductive invariants
need them: type correctness of all seven, `AbortResultIsCurrent`,
`ShownQueueIsCurrent` and `AnsweredOnce` of the pump, `NoLeakedEntry`,
`WaiterHasSender` and `LinesAreWhole` of the transport, `RegisteredIsWhole` and
`DoomedOnce` of the agent, `NeverTorn` (without further assumptions), `CacheFromFile`, `BaseIsMap`, `BackupStays` of the
store, `PendingAreAsked` of the handshake.

Each invariant was checked by TLC on the module's small instance before it was
proved; of `LineInv` and `GlobInv`, which
speak of all texts, TLC checks the part a run lists. Eight of the proofs need their hypotheses, as the divergences above show:
`BytesKept` and `ImplementsMap` one process without read errors,
`UpdatesArrive` texts and errors that can be sent, `TitleAgrees` a careful and calm
client, `ShownIsPis` changes that are apart, reads that succeed and models with a
window, `CommandsAgree` names that only an extension has, `ListingIsFaithful` a project
named with every page and timestamps with a zone, `TextIsMeant` arguments that are not empty
and templates without $0.

Only model-checked:

- What must happen in the end (`EveryPromptAnswered`, `RequestsEnd`, `CallsEnd`,
  `GateEnds`, `SettledIsAnswered`, `SilenceIsSurvived`, `CommandsEnd`): the prover
  does not reason about fairness and ENABLED.
- `RevivedOnlyByOverlap`, and of the adapter's own commands `ClientKnows`.
- The three violations, which are about instances.

## What is left

A composition of `TurnPump` with `MessageStream`, so that the response and the turn's end
are of one pump.

## Not modelled, and why

- The two-step replacement of the map file on Windows, `pi/resolve.rs` (a
  look-up in the environment) and the retry loop of `spawn`: no other actor.
- `auth.rs`, `startup.rs`, `config.rs`, the reading of settings files, argument
  parsing in `main.rs`, the npm launcher: plain I/O and text.
- `translate/prompt.rs`, the JSON of `render.rs`, serde attributes of
  `pi/rpc.rs`, front matter and descriptions of prompt files, locations and raw
  input of tool calls: conversions without control of their own that no
  property is about.
- `initialize` and `authenticate`: they set flags once, before any session.
- Two pi-acp processes on one session map, apart from what `SessionStoreProofs`
  shows of them: the code promises nothing there.
