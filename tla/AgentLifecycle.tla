--------------------------- MODULE AgentLifecycle ---------------------------
(***************************************************************************)
(* The ACP requests that create, restore, use and remove sessions          *)
(* (agent.rs), on the map of live sessions (session/mod.rs, SessionManager)*)
(* the session map on disk, pi's session files and the MCP menus.          *)
(*                                                                         *)
(* A call is one request being handled.  The SDK's dispatch loop blocks    *)
(* while a handler runs, so of the Handlers one runs at a time; a prompt   *)
(* runs in a task of its own.  A step is what happens between two awaits   *)
(* that other tasks can observe.  Each call starts at most one pi, so a    *)
(* call also names the pi process it started.                              *)
(***************************************************************************)
CONSTANTS
    Calls,     \* requests the client sends, each at most once
    Ids,       \* session ids
    Stored,    \* sessions of earlier runs, with a file and a map entry
    Menus,     \* sets of MCP servers a client may ask for
    NoMenu,    \* the empty set of MCP servers
    None,      \* no session, no pi
    KindsOf    \* the kinds of request each call may be

Kinds == {"new", "load", "prompt", "mode", "close", "delete"}
Handlers == Kinds \ {"prompt"}

ASSUME AgentAssumption ==
    /\ Stored \subseteq Ids
    /\ NoMenu \notin Menus
    /\ None \notin Ids \cup Calls
    /\ KindsOf \in [Calls -> SUBSET Kinds]

VARIABLES
    op,        \* each call: its request, where it is, what it holds
    sessions,  \* SessionManager::sessions, id to the pi that serves it
    phase,     \* each pi: unborn, alive, exited (by itself) or disposed
    store,     \* ids with an entry in the session map
    files,     \* ids with a session file of pi on disk
    menus,     \* AcpAgent::mcp_configs
    known,     \* ids the client has been told
    gone,      \* ghost: ids deleted, or closed, and not asked for since
    alone,     \* ghost: calls during which no other call for their session ran
    down       \* shutdown: no, begun or complete

ghosts == <<gone, alone>>
disk == <<store, files>>
vars == <<op, sessions, phase, disk, menus, known, ghosts, down>>

-----------------------------------------------------------------------------
Ended == {"ok", "error", "dropped"}
Pcs == Ended \cup
    {"idle", "lock", "spawn", "handshake", "insert", "evict", "models", "gate",
     "save", "sweep", "closing", "forget", "find", "adopt", "lookup", "locate",
     "relocate", "menu", "refused", "record", "turn", "persist", "check", "write",
     "upsert", "history", "unmenu", "look", "unlink", "unstore", "erase"}

\* `pi` is the session a call works with, `doomed` one it took out of the map
\* and has not disposed of yet, `todo` the ids it still has to close and `then`
\* where it goes after that.
Idle == [kind |-> "new", id |-> None, menu |-> NoMenu, pc |-> "idle",
         pi |-> None, doomed |-> None, todo |-> {}, then |-> "idle"]

Running(c) == op[c].pc \notin Ended \cup {"idle"}
AnyMenu == Menus \cup {NoMenu}
Registered(c) == \E s \in Ids : sessions[s] = c

\* A pi that its call still owns, or that some call took out of the map.
Held(c) == \/ op[c].pc \in {"handshake", "insert"} /\ op[c].pi = c
           \/ \E d \in Calls : op[d].doomed = c

Goto(c, p) == op' = [op EXCEPT ![c].pc = p]
\* Go on to closing the sessions `ids`, then to p.
GoClose(c, ids, p) == [op EXCEPT ![c].pc = "closing", ![c].todo = ids, ![c].then = p]

Kill(c) == IF phase[c] \in {"alive", "exited"}
           THEN [phase EXCEPT ![c] = "disposed"] ELSE phase

Init ==
    /\ op = [c \in Calls |-> Idle]
    /\ sessions = [s \in Ids |-> None]
    /\ phase = [c \in Calls |-> "unborn"]
    /\ store \in SUBSET Stored
    /\ files = Stored
    /\ menus = [s \in Ids |-> NoMenu]
    /\ known = Stored
    /\ gone = {}
    /\ alone = {}
    /\ down = "no"

-----------------------------------------------------------------------------
(* The arrival of a request.                                                *)

EntryOf(k) == CASE k \in {"new", "load"} -> "lock"
                [] k \in {"prompt", "mode"} -> "lookup"
                [] k = "close" -> "closing"
                [] k = "delete" -> "unmenu"

\* The handler of a request of kind k begins; a prompt's in a spawned task.
Start(c, k, s, m) ==
    /\ down = "no"
    /\ op[c].pc = "idle"
    /\ k \in KindsOf[c]
    /\ k \in Handlers => \A d \in Calls : ~(Running(d) /\ op[d].kind \in Handlers)
    /\ IF k = "new" THEN s = None ELSE s \in known
    /\ m = NoMenu \/ k \in {"new", "load"}
    /\ op' = [op EXCEPT ![c] = [Idle EXCEPT
                !.kind = k, !.id = s, !.menu = m, !.pc = EntryOf(k),
                !.todo = IF k = "close" THEN {s} ELSE {}, !.then = "unmenu"]]
    /\ gone' = IF k = "load" THEN gone \ {s} ELSE gone
    /\ alone' = LET others == {d \in Calls : Running(d) /\ op[d].id = s} IN
                IF others = {} THEN alone \cup {c} ELSE alone \ others
    /\ UNCHANGED <<sessions, phase, disk, menus, known, down>>

\* A call that ended in an error still holds the lock.
Acquire_Leaked(c) ==
    /\ op[c].pc = "lock"
    /\ \A d \in Calls \ {c} :
         op[d].kind \in {"new", "load"} => op[d].pc \in {"idle", "lock", "ok"}
    /\ IF op[c].kind = "new" THEN Goto(c, "spawn")
                             ELSE op' = GoClose(c, {op[c].id}, "sweep")
    /\ UNCHANGED <<sessions, phase, disk, menus, known, ghosts, down>>

\* session/new and session/load take the lifecycle lock.  load then closes the
\* live session with its id.
Acquire(c) ==
    /\ op[c].pc = "lock"
    /\ \A d \in Calls \ {c} :
         ~(Running(d) /\ op[d].kind \in {"new", "load"} /\ op[d].pc # "lock")
    /\ IF op[c].kind = "new" THEN Goto(c, "spawn")
                             ELSE op' = GoClose(c, {op[c].id}, "sweep")
    /\ UNCHANGED <<sessions, phase, disk, menus, known, ghosts, down>>

-----------------------------------------------------------------------------
(* SessionManager::close, close_all_except.                                 *)

\* The session is disposed of but keeps its entry.
CloseRemove_Keeps(c, s) ==
    /\ op[c].pc = "closing"
    /\ op[c].doomed = None
    /\ s \in op[c].todo
    /\ op' = [op EXCEPT ![c].todo = @ \ {s}, ![c].doomed = sessions[s]]
    /\ UNCHANGED <<sessions, phase, disk, menus, known, ghosts, down>>

\* Take one session out of the map; disposing of it is a later step.
CloseRemove(c, s) ==
    /\ op[c].pc = "closing"
    /\ op[c].doomed = None
    /\ s \in op[c].todo
    /\ sessions' = [sessions EXCEPT ![s] = None]
    /\ op' = [op EXCEPT ![c].todo = @ \ {s}, ![c].doomed = sessions[s]]
    /\ UNCHANGED <<phase, disk, menus, known, ghosts, down>>

CloseDispose(c) ==
    /\ op[c].pc = "closing"
    /\ op[c].doomed # None
    /\ phase' = Kill(op[c].doomed)
    /\ op' = [op EXCEPT ![c].doomed = None]
    /\ UNCHANGED <<sessions, disk, menus, known, ghosts, down>>

Closed(c) ==
    /\ op[c].pc = "closing"
    /\ op[c].doomed = None
    /\ op[c].todo = {}
    /\ Goto(c, op[c].then)
    /\ UNCHANGED <<sessions, phase, disk, menus, known, ghosts, down>>

\* close_all_except closes a snapshot of the other ids.
Sweep(c) ==
    /\ op[c].pc = "sweep"
    /\ op' = GoClose(c, {s \in Ids \ {op[c].id} : sessions[s] # None}, "forget")
    /\ UNCHANGED <<sessions, phase, disk, menus, known, ghosts, down>>


\* The menus of all other sessions are dropped; session/new is complete here,
\* session/load sets its own menu, which may be empty.
Forget(c) ==
    LET s == op[c].id IN
    /\ op[c].pc = "forget"
    /\ menus' = [t \in Ids |-> CASE t # s -> NoMenu
                                 [] op[c].kind = "new" -> menus[s]
                                 [] OTHER -> op[c].menu]
    /\ IF op[c].kind = "new"
       THEN Goto(c, "ok") /\ known' = known \cup {s}
       ELSE Goto(c, "find") /\ UNCHANGED known
    /\ UNCHANGED <<sessions, phase, disk, ghosts, down>>

-----------------------------------------------------------------------------
(* restore_session                                                          *)

\* maybe_get: a registered session is used whether its pi is up or not.
Lookup(c) ==
    LET live == sessions[op[c].id] IN
    /\ op[c].pc = "lookup"
    /\ op' = [op EXCEPT ![c].pi = live,
                ![c].pc = CASE live = None -> "locate"
                            [] op[c].kind = "load" -> "upsert"
                            [] OTHER -> "turn"]
    /\ UNCHANGED <<sessions, phase, disk, menus, known, ghosts, down>>

\* A restore that fails: session/load forgets its menu.
Fail(c) ==
    /\ Goto(c, "error")
    /\ menus' = IF op[c].kind = "load" THEN [menus EXCEPT ![op[c].id] = NoMenu] ELSE menus
    /\ UNCHANGED <<sessions, phase, disk, known, ghosts, down>>

\* An entry is made for a session the scan did not find.
Locate_AdoptsUnseen(c) ==
    LET s == op[c].id IN
    /\ op[c].pc \in {"find", "locate"}
    /\ IF s \in store
       THEN Goto(c, IF op[c].pc = "find" THEN "lookup" ELSE "menu")
       ELSE op' = [op EXCEPT ![c].pc = "adopt", ![c].then = op[c].pc]
    /\ UNCHANGED <<sessions, phase, disk, menus, known, ghosts, down>>

\* find_stored_session, by session/load itself and then by restore_session.
Locate(c) ==
    LET s == op[c].id IN
    /\ op[c].pc \in {"find", "locate", "relocate"}
    /\ IF s \in store
       THEN /\ Goto(c, IF op[c].pc = "find" THEN "lookup" ELSE "menu")
            /\ UNCHANGED <<sessions, phase, disk, menus, known, ghosts, down>>
       ELSE IF s \in files /\ op[c].pc # "relocate"
       THEN /\ op' = [op EXCEPT ![c].pc = "adopt", ![c].then = op[c].pc]
            /\ UNCHANGED <<sessions, phase, disk, menus, known, ghosts, down>>
       ELSE \/ op[c].pc # "find" /\ Fail(c)
            \/ /\ op[c].pc = "find"
               /\ Goto(c, "error")
               /\ UNCHANGED <<sessions, phase, disk, menus, known, ghosts, down>>

\* A file that the scan found gets an entry in the map.
Adopt(c) ==
    /\ op[c].pc = "adopt"
    /\ store' = store \cup {op[c].id}
    /\ Goto(c, IF op[c].then = "find" THEN "find" ELSE "relocate")
    /\ UNCHANGED <<sessions, phase, files, menus, known, ghosts, down>>

\* session/load for a directory other than the stored one.
WrongDirectory(c) ==
    /\ op[c].pc = "find"
    /\ op[c].id \in store
    /\ Goto(c, "error")
    /\ UNCHANGED <<sessions, phase, disk, menus, known, ghosts, down>>

\* A respawned pi gets the menu stored for its session.
ReadMenu(c) ==
    /\ op[c].pc = "menu"
    /\ op' = [op EXCEPT ![c].menu = menus[op[c].id], ![c].pc = "spawn"]
    /\ UNCHANGED <<sessions, phase, disk, menus, known, ghosts, down>>

-----------------------------------------------------------------------------
(* spawn_session, the gates behind it, and what session/new does next       *)

\* A pi starts; for session/new it mints an id, and may write its file at once.
Spawn(c) ==
    /\ op[c].pc = "spawn"
    /\ phase' = [phase EXCEPT ![c] = "alive"]
    /\ IF op[c].kind = "new"
       THEN \E s \in Ids \ known :
              /\ \A d \in Calls : op[d].id # s
              /\ op' = [op EXCEPT ![c].id = s, ![c].pi = c, ![c].pc = "handshake"]
              /\ files' \in {files, files \cup {s}}
       ELSE /\ op' = [op EXCEPT ![c].pi = c, ![c].pc = "handshake"]
            /\ UNCHANGED files
    /\ UNCHANGED <<sessions, store, menus, known, ghosts, down>>

SpawnFails(c) ==
    /\ op[c].pc = "spawn"
    /\ Fail(c)

\* get_state answers with the expected id, which takes the session's file.
HandshakeOk(c) ==
    /\ op[c].pc = "handshake"
    /\ phase[c] = "alive"
    /\ op[c].kind # "new" => op[c].id \in files
    /\ Goto(c, "insert")
    /\ UNCHANGED <<sessions, phase, disk, menus, known, ghosts, down>>

\* get_state fails and the pi is left running.
HandshakeFails_NoDispose(c) ==
    /\ op[c].pc = "handshake"
    /\ Goto(c, "error")
    /\ menus' = IF op[c].kind = "load" THEN [menus EXCEPT ![op[c].id] = NoMenu] ELSE menus
    /\ UNCHANGED <<sessions, phase, disk, known, ghosts, down>>

\* No answer, or another id: the pi is disposed of.
HandshakeFails(c) ==
    /\ op[c].pc = "handshake"
    /\ phase' = Kill(c)
    /\ Goto(c, "error")
    /\ menus' = IF op[c].kind = "load" THEN [menus EXCEPT ![op[c].id] = NoMenu] ELSE menus
    /\ UNCHANGED <<sessions, disk, known, ghosts, down>>

AfterInsert(c) == IF op[c].kind = "new" THEN "models" ELSE "gate"


\* SessionManager::insert: a session it replaces is disposed of afterwards.
Insert(c) ==
    LET old == sessions[op[c].id] IN
    /\ op[c].pc = "insert"
    /\ sessions' = [sessions EXCEPT ![op[c].id] = c]
    /\ op' = [op EXCEPT ![c].doomed = old,
                        ![c].pc = IF old = None THEN AfterInsert(c) ELSE "evict"]
    /\ UNCHANGED <<phase, disk, menus, known, ghosts, down>>


Evict(c) ==
    /\ op[c].pc = "evict"
    /\ phase' = Kill(op[c].doomed)
    /\ op' = [op EXCEPT ![c].doomed = None, ![c].pc = AfterInsert(c)]
    /\ UNCHANGED <<sessions, disk, menus, known, ghosts, down>>

\* session/new: get_available_models and the credentials check.
ModelsOk(c) ==
    /\ op[c].pc = "models"
    /\ phase[c] = "alive"
    /\ Goto(c, "gate")
    /\ UNCHANGED <<sessions, phase, disk, menus, known, ghosts, down>>

\* The failed session is left in the map.
NewFails_Keeps(c) ==
    /\ op[c].kind = "new"
    /\ op[c].pc \in {"models", "gate"}
    /\ op[c].pc = "gate" => op[c].menu # NoMenu
    /\ Goto(c, "erase")
    /\ UNCHANGED <<sessions, phase, disk, menus, known, ghosts, down>>

\* No models, no credentials, or an MCP server that did not register.
NewFails(c) ==
    /\ op[c].kind = "new"
    /\ op[c].pc \in {"models", "gate"}
    /\ op[c].pc = "gate" => op[c].menu # NoMenu
    /\ op' = GoClose(c, {op[c].id}, "erase")
    /\ UNCHANGED <<sessions, phase, disk, menus, known, ghosts, down>>

\* cleanup_failed_new_session, once the session is closed; the file goes if it can.
Erase(c) ==
    /\ op[c].pc = "erase"
    /\ files' \in {files, files \ {op[c].id}}
    /\ store' = store \ {op[c].id}
    /\ Goto(c, "error")
    /\ UNCHANGED <<sessions, phase, menus, known, ghosts, down>>

\* Every server of the menu registered, or there is none; only session/new
\* stores the menu here.
GateOk(c) ==
    /\ op[c].pc = "gate"
    /\ op[c].menu # NoMenu => phase[c] = "alive"
    /\ menus' = IF op[c].kind = "new" THEN [menus EXCEPT ![op[c].id] = op[c].menu] ELSE menus
    /\ Goto(c, IF op[c].kind = "new" THEN "save" ELSE "record")
    /\ UNCHANGED <<sessions, phase, disk, known, ghosts, down>>

\* A restored pi misses a server: the session with that id is closed.
RestoreRefused(c) ==
    /\ op[c].kind # "new"
    /\ op[c].pc = "gate"
    /\ op[c].menu # NoMenu
    /\ op' = GoClose(c, {op[c].id}, "refused")
    /\ UNCHANGED <<sessions, phase, disk, menus, known, ghosts, down>>

Refused(c) ==
    /\ op[c].pc = "refused"
    /\ Fail(c)

\* session/new enters a file that pi has already written in the map.
Save(c) ==
    /\ op[c].pc = "save"
    /\ store' = IF op[c].id \in files THEN store \cup {op[c].id} ELSE store
    /\ Goto(c, "sweep")
    /\ UNCHANGED <<sessions, phase, files, menus, known, ghosts, down>>

\* restore_session refreshes the entry of the session it restored.
Record(c) ==
    /\ op[c].pc = "record"
    /\ store' = store \cup {op[c].id}
    /\ Goto(c, IF op[c].kind = "load" THEN "upsert" ELSE "turn")
    /\ UNCHANGED <<sessions, phase, files, menus, known, ghosts, down>>

-----------------------------------------------------------------------------
(* What the calls do with a session                                         *)

\* session/load refreshes the entry again and fetches the history.
Upsert(c) ==
    /\ op[c].pc = "upsert"
    /\ store' = store \cup {op[c].id}
    /\ Goto(c, "history")
    /\ UNCHANGED <<sessions, phase, files, menus, known, ghosts, down>>

History(c) ==
    /\ op[c].pc = "history"
    /\ \/ phase[op[c].pi] = "alive" /\ Goto(c, "ok")
       \/ Goto(c, "error")
    /\ UNCHANGED <<sessions, phase, disk, menus, known, ghosts, down>>

\* A turn, or a set_thinking_level, succeeds; pi may have written its file.
TurnOk(c) ==
    /\ op[c].pc = "turn"
    /\ phase[op[c].pi] = "alive"
    /\ IF op[c].kind = "prompt"
       THEN Goto(c, "persist") /\ files' \in {files, files \cup {op[c].id}}
       ELSE Goto(c, "ok") /\ UNCHANGED files
    /\ UNCHANGED <<sessions, phase, store, menus, known, ghosts, down>>

\* A slash command handled by the adapter ends without persisting.
TurnHeadless(c) ==
    /\ op[c].pc = "turn"
    /\ op[c].kind = "prompt"
    /\ Goto(c, "ok")
    /\ UNCHANGED <<sessions, phase, disk, menus, known, ghosts, down>>

TurnFails(c) ==
    /\ op[c].pc = "turn"
    /\ Goto(c, "error")
    /\ UNCHANGED <<sessions, phase, disk, menus, known, ghosts, down>>

\* persist_session_if_ready: get_state, the file's header, the map entry.
Persist(c) ==
    /\ op[c].pc = "persist"
    /\ \/ phase[op[c].pi] = "alive" /\ Goto(c, "check")
       \/ Goto(c, "ok")
    /\ UNCHANGED <<sessions, phase, disk, menus, known, ghosts, down>>

CheckFile(c) ==
    /\ op[c].pc = "check"
    /\ Goto(c, IF op[c].id \in files THEN "write" ELSE "ok")
    /\ UNCHANGED <<sessions, phase, disk, menus, known, ghosts, down>>

WriteEntry(c) ==
    /\ op[c].pc = "write"
    /\ store' = store \cup {op[c].id}
    /\ Goto(c, "ok")
    /\ UNCHANGED <<sessions, phase, files, menus, known, ghosts, down>>

-----------------------------------------------------------------------------
(* session/close and session/delete                                         *)


\* The menu is forgotten: last by session/close, first by session/delete.
Unmenu(c) ==
    /\ op[c].pc = "unmenu"
    /\ menus' = [menus EXCEPT ![op[c].id] = NoMenu]
    /\ IF op[c].kind = "close"
       THEN Goto(c, "ok") /\ gone' = gone \cup {op[c].id}
       ELSE Goto(c, "look") /\ UNCHANGED gone
    /\ UNCHANGED <<sessions, phase, disk, known, alone, down>>

\* A session with neither entry nor file is not deleted any further.
Look(c) ==
    LET s == op[c].id IN
    /\ op[c].pc = "look"
    /\ IF s \in store \cup files
       THEN Goto(c, "unlink") /\ UNCHANGED gone
       ELSE Goto(c, "ok") /\ gone' = gone \cup {s}
    /\ UNCHANGED <<sessions, phase, disk, menus, known, alone, down>>

\* The files go, the live session stays.
Unlink_KeepsSession(c) ==
    /\ op[c].pc = "unlink"
    /\ files' = files \ {op[c].id}
    /\ Goto(c, "unstore")
    /\ UNCHANGED <<sessions, phase, store, menus, known, ghosts, down>>

\* The file goes if it can; a failure is not looked at.
Unlink(c) ==
    /\ op[c].pc = "unlink"
    /\ files' \in {files, files \ {op[c].id}}
    /\ op' = GoClose(c, {op[c].id}, "unstore")
    /\ UNCHANGED <<sessions, phase, store, menus, known, ghosts, down>>

Unstore(c) ==
    /\ op[c].pc = "unstore"
    /\ store' = store \ {op[c].id}
    /\ menus' = [menus EXCEPT ![op[c].id] = NoMenu]
    /\ gone' = gone \cup {op[c].id}
    /\ Goto(c, "ok")
    /\ UNCHANGED <<sessions, phase, files, known, alone, down>>

-----------------------------------------------------------------------------
(* The end of a pi, and of the connection                                   *)

\* A pi ends by itself; a registered session stays registered.
PiExits(c) ==
    /\ phase[c] = "alive"
    /\ phase' = [phase EXCEPT ![c] = "exited"]
    /\ UNCHANGED <<op, sessions, disk, menus, known, ghosts, down>>

\* The connection ends: its tasks are dropped, and with a task the pi it holds.
Disconnect ==
    /\ down = "no"
    /\ down' = "begun"
    /\ op' = [c \in Calls |-> IF Running(c) THEN [op[c] EXCEPT !.pc = "dropped", !.doomed = None]
                                            ELSE op[c]]
    /\ phase' = [c \in Calls |-> IF Held(c) /\ phase[c] \in {"alive", "exited"}
                                 THEN "disposed" ELSE phase[c]]
    /\ UNCHANGED <<sessions, disk, menus, known, ghosts>>

\* dispose_all, and every menu is forgotten.
DisposeAll ==
    /\ down = "begun"
    /\ down' = "complete"
    /\ sessions' = [s \in Ids |-> None]
    /\ phase' = [c \in Calls |-> IF Registered(c) THEN "disposed" ELSE phase[c]]
    /\ menus' = [s \in Ids |-> NoMenu]
    /\ UNCHANGED <<op, disk, known, ghosts>>

-----------------------------------------------------------------------------
Manager(c) ==
    \/ \E s \in Ids : CloseRemove(c, s)
    \/ CloseDispose(c) \/ Closed(c) \/ Sweep(c) \/ Forget(c)

Restore(c) ==
    \/ Lookup(c) \/ Locate(c) \/ Adopt(c) \/ WrongDirectory(c) \/ ReadMenu(c)

SpawnSession(c) ==
    \/ Spawn(c) \/ SpawnFails(c) \/ HandshakeOk(c) \/ HandshakeFails(c)
    \/ Insert(c) \/ Evict(c) \/ ModelsOk(c) \/ NewFails(c) \/ Erase(c)
    \/ GateOk(c) \/ RestoreRefused(c) \/ Refused(c) \/ Save(c) \/ Record(c)

Use(c) ==
    \/ Upsert(c) \/ History(c) \/ TurnOk(c) \/ TurnHeadless(c) \/ TurnFails(c)
    \/ Persist(c) \/ CheckFile(c) \/ WriteEntry(c)

Remove(c) == Unmenu(c) \/ Look(c) \/ Unlink(c) \/ Unstore(c)

\* A step of the handler of call c.
Advance(c) == Acquire(c) \/ Manager(c) \/ Restore(c) \/ SpawnSession(c) \/ Use(c) \/ Remove(c)

Next ==
    \/ \E c \in Calls :
         \/ \E k \in Kinds, s \in Ids \cup {None}, m \in AnyMenu : Start(c, k, s, m)
         \/ Advance(c)
         \/ PiExits(c)
    \/ Disconnect
    \/ DisposeAll

Spec == Init /\ [][Next]_vars

\* Every handler that can go on does: each of its awaits is a local lock, or a
\* request to pi, which has a deadline.
FairSpec == Spec /\ (\A c \in Calls : WF_vars(Advance(c))) /\ WF_vars(DisposeAll)

-----------------------------------------------------------------------------
(* Properties                                                               *)

OpType == [kind : Kinds, id : Ids \cup {None}, menu : AnyMenu, pc : Pcs,
           pi : Calls \cup {None}, doomed : Calls \cup {None},
           todo : SUBSET Ids, then : Pcs]

TypeOK ==
    /\ op \in [Calls -> OpType]
    /\ sessions \in [Ids -> Calls \cup {None}]
    /\ phase \in [Calls -> {"unborn", "alive", "exited", "disposed"}]
    /\ store \subseteq Ids
    /\ files \subseteq Ids
    /\ menus \in [Ids -> AnyMenu]
    /\ known \subseteq Ids
    /\ gone \subseteq Ids
    /\ alone \subseteq Calls
    /\ down \in {"no", "begun", "complete"}

\* A pi that was started and not disposed of is in the map, or in the hands of
\* a call that will register or dispose of it: no step of a replacement, a
\* failed handshake or a close loses the last handle (session/mod.rs:68-114).
NoOrphan == \A c \in Calls : phase[c] \in {"alive", "exited"} => Registered(c) \/ Held(c)

\* The map never hands out a session that was disposed of, even while closes,
\* replacements and restores of one id overlap (session/mod.rs:91-99 removes
\* the entry before it awaits the teardown for this).
RegisteredIsWhole ==
    \A s \in Ids : sessions[s] # None =>
        phase[sessions[s]] # "disposed" /\ op[sessions[s]].id = s

\* A session taken out of the map is torn down by one call only.
DoomedOnce ==
    \A c, d \in Calls : op[c].doomed # None =>
        /\ ~Registered(op[c].doomed)
        /\ c # d => op[d].doomed # op[c].doomed

\* A session/new that fails leaves no process, entry or menu behind
\* (agent.rs:1251, cleanup_failed_new_session).
NewLeavesNothing ==
    \A c \in Calls : op[c].kind = "new" /\ op[c].pc = "error" =>
        /\ phase[c] \in {"unborn", "disposed"}
        /\ op[c].id \notin store
        /\ op[c].id # None => menus[op[c].id] = NoMenu

\* The menu of a session that was deleted or closed is not there for a later
\* restore to use, whatever else was in progress meanwhile (agent.rs:1668).
GoneHasNoMenu == \A s \in gone : menus[s] = NoMenu

\* Neither a session/new that failed nor a session that is gone leaves something behind
\* for a later request to find (cleanup_failed_new_session, handle_delete_session_id).
NothingLeftBehind == NewLeavesNothing /\ GoneHasNoMenu

\* The two ends of a deletion (agent.rs:1670-1688).  One that went through leaves no
\* entry; whoever serves the session then overlapped another call for it; and if no
\* call overlapped the deletion itself, no pi of the session runs at all.  One that
\* found neither entry nor file stops there: a pi that has saved nothing runs on, but
\* only as the live session of that id, which a later close still finds.
DeletionEnds(c) ==
    LET s == op[c].id IN
    /\ Unstore(c) =>
         /\ s \notin store'
         /\ sessions[s] \notin alone
         /\ c \in alone => \A d \in Calls : op[d].id = s => phase[d] # "alive"
    /\ Look(c) /\ op'[c].pc = "ok" /\ c \in alone =>
         \A d \in Calls : op[d].id = s /\ phase[d] = "alive" => sessions[s] = d
DeletionIsFinal == [][\A c \in Calls : DeletionEnds(c)]_vars

\* A prompt in progress may bring a deleted session back, since it saves the session
\* when its turn has ended (agent.rs:1275) or enters the pi it has started.  Nothing
\* else does: once nothing of the session is left, a request that comes later and
\* has it to itself finds no entry and no file, and is refused.
WentThrough(c) == op[c].kind = "delete" /\ op[c].pc = "ok" /\ op[c].then = "unstore"
NothingOf(s) == s \notin store \cup files /\ sessions[s] = None
RevivedOnlyByOverlap ==
    [][\A c \in Calls : WentThrough(c) /\ NothingOf(op[c].id) /\ ~NothingOf(op[c].id)'
         => \E d \in Calls \ alone : Running(d) /\ op[d].id = op[c].id]_vars

\* Every request is answered or dropped with the connection: no call waits for
\* the lifecycle lock, a teardown or another call for ever.
EveryCallEnds == \A c \in Calls : Running(c) ~> ~Running(c)

\* After the connection ended no pi is left running (agent.rs:635).
ShutdownLeavesNone ==
    down = "begun" ~> (\A c \in Calls : phase[c] \in {"unborn", "disposed"})

\* The agent's map and calls implement the directory: each pi serves once, is
\* retired once, and only out of somebody's hands.
StageOf(c) == CASE phase[c] = "unborn" -> "unborn"
                [] phase[c] = "disposed" -> "retired"
                [] Registered(c) -> "serving"
                [] OTHER -> "held"
Directory == INSTANCE SessionDirectory WITH
    Pis <- Calls, stage <- [c \in Calls |-> StageOf(c)], serving <- sessions
ImplementsDirectory == Directory!Spec
NoneHeldForever == Directory!NoneHeldForever

\* The handlers' ends: every request is answered or dropped, no pi stays in a call's
\* hands for ever and none outlives the connection (agent.rs:635, shutdown).
CallsEnd == EveryCallEnds /\ NoneHeldForever /\ ShutdownLeavesNone

-----------------------------------------------------------------------------
(* What comments of the code say and the code does not do                   *)

\* "so concurrent requests cannot close each other's freshly-created
\* subprocess" (agent.rs:347): no restore or replacement disposes of a pi
\* while the call that started it still works with it.
FreshIsKept ==
    [][\A c, d \in Calls :
         (c # d /\ op[d].pc = "evict" /\ op[d].doomed = c /\ op'[d].doomed # c /\ down' = "no")
         => ~Running(c)]_vars

\* "drop its menu too so a later prompt cannot resurrect a load the client saw
\* fail" (agent.rs:1513): a failed session/load leaves no menu.
FailedLoadLeavesNoMenu ==
    \A c \in Calls : op[c].kind = "load" /\ op[c].pc = "error" => menus[op[c].id] = NoMenu

\* "the replacement menu is stored before restore so the respawned pi registers
\* it" (agent.rs:1431): the session a load answers with has the load's menu.
LoadAppliesMenu ==
    \A c \in Calls : op[c].kind = "load" /\ op[c].pc = "ok" => op[op[c].pi].menu = op[c].menu

\* "Close the live subprocess before the SDK tears down the outer adapter"
\* (tests/acp_agent.rs:976, of a session/delete): a deletion that no other call
\* overlapped leaves no pi of its session running.
DeleteClosesSubprocess ==
    [][\A c, d \in Calls :
         c \in alone /\ op[c].kind = "delete" /\ op[c].pc # "ok" /\ op'[c].pc = "ok"
                     /\ op[d].id = op[c].id => phase[d] # "alive"]_vars

\* "within a single ACP connection keep only one live pi subprocess"
\* (agent.rs:1210).
OneLivePi ==
    (\A c \in Calls : ~Running(c)) =>
        \A s, t \in Ids : sessions[s] # None /\ sessions[t] # None => s = t
=============================================================================
