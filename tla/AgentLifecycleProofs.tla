------------------------- MODULE AgentLifecycleProofs -------------------------
(***************************************************************************)
(* Proofs about AgentLifecycle, for any requests, sessions and menus.  The *)
(* argument is one of ownership: a pi that runs is in the hands of the     *)
(* call that started it, in the map, or doomed in the hands of the one     *)
(* call that took it out of the map, and never in two of these.  From it   *)
(* follow the invariants and that the agent implements SessionDirectory.   *)
(* The second part is about what requests leave behind: entries, menus and *)
(* processes of sessions that failed to open, or are gone.                 *)
(***************************************************************************)
EXTENDS AgentLifecycle, TLAPS

CoreTypes ==
    /\ op \in [Calls -> OpType]
    /\ sessions \in [Ids -> Calls \cup {None}]
    /\ phase \in [Calls -> {"unborn", "alive", "exited", "disposed"}]
RestTypes ==
    /\ store \subseteq Ids /\ files \subseteq Ids /\ known \subseteq Ids /\ gone \subseteq Ids
    /\ menus \in [Ids -> AnyMenu]
    /\ alone \subseteq Calls
    /\ down \in {"no", "begun", "complete"}

\* A call that has not started its pi yet; session/load closes and sweeps first,
\* session/new last.
EarlyPcs == {"idle", "lock", "spawn", "find", "adopt", "lookup", "locate", "relocate", "menu"}
Early(c) ==
    \/ op[c].pc \in EarlyPcs
    \/ op[c].kind # "new" /\ op[c].pc \in {"sweep", "forget"}
    \/ op[c].kind # "new" /\ op[c].pc = "closing" /\ op[c].then \in {"sweep", "forget"}

Thens == {"sweep", "forget", "erase", "refused", "unmenu", "unstore"}
\* Where a call may go, and that it has a session id from when its pi minted one.
Route(c) ==
    /\ op[c].pc = "closing" => op[c].then \in Thens
    /\ op[c].pc = "save" => op[c].kind = "new"
    /\ op[c].doomed # None => op[c].pc \in {"closing", "evict"}
    /\ op[c].pc = "evict" => op[c].doomed # None
    /\ \/ op[c].id \in Ids
       \/ op[c].pc \in {"idle", "error", "dropped"}
       \/ op[c].kind = "new" /\ op[c].pc \in {"lock", "spawn"}

Up(c) == phase[c] \in {"alive", "exited"}
Making(c) == op[c].pc \in {"handshake", "insert"}

Unborn == \A c \in Calls : Early(c) => phase[c] = "unborn"
Routes == \A c \in Calls : Route(c)
Makers == \A c \in Calls : Making(c) =>
    /\ op[c].pi = c /\ Up(c) /\ ~Registered(c)
    /\ \A d \in Calls : op[d].doomed # c
Serving == \A s \in Ids : sessions[s] # None => Up(sessions[s]) /\ op[sessions[s]].id = s
Dooms == \A c \in Calls : op[c].doomed # None =>
    /\ Up(op[c].doomed) /\ ~Registered(op[c].doomed)
    /\ \A d \in Calls : c # d => op[d].doomed # op[c].doomed

Ownership == Unborn /\ Routes /\ Makers /\ Serving /\ Dooms /\ NoOrphan
IndInv == CoreTypes /\ RestTypes /\ Ownership

-------------------------------------------------------------------------------
(* Steps that move no pi                                                       *)

Moves(c) == op' \in [Calls -> OpType] /\ \A d \in Calls : d # c => op'[d] = op[d]

Quiet(c) ==
    /\ sessions' = sessions /\ phase' = phase /\ Moves(c)
    /\ op'[c].doomed = op[c].doomed
    /\ op'[c].id = op[c].id \/ phase[c] = "unborn"
    /\ Making(c)' <=> Making(c)
    /\ Making(c) => op'[c].pi = op[c].pi
    /\ Early(c)' => Early(c)
    /\ Route(c)'

LEMMA QuietStep ==
    ASSUME IndInv, NEW c \in Calls, Quiet(c)
    PROVE  CoreTypes' /\ Ownership'
<1>0. /\ CoreTypes /\ Ownership /\ sessions' = sessions /\ phase' = phase
      /\ op' \in [Calls -> OpType] /\ \A d \in Calls : d # c => op'[d] = op[d]
      /\ op'[c].doomed = op[c].doomed
  BY DEF IndInv, Quiet, Moves
<1>1. \A d \in Calls : /\ op'[d].doomed = op[d].doomed
                       /\ op'[d].pc \in {"handshake", "insert"} <=> op[d].pc \in {"handshake", "insert"}
                       /\ Making(d) => op'[d].pi = op[d].pi
                       /\ op'[d].id = op[d].id \/ phase[d] = "unborn"
  BY <1>0 DEF Quiet, Making
<1>2. CoreTypes'
  BY <1>0 DEF CoreTypes
<1>3. Unborn'
  <2>1. \A d \in Calls : Early(d)' => Early(d)
    BY <1>0 DEF Quiet, Early
  <2> QED BY <1>0, <2>1 DEF Ownership, Unborn
<1>4. Routes'
  <2>1. \A d \in Calls : d # c => Route(d)'
    BY <1>0 DEF Ownership, Routes, Route
  <2> QED BY <2>1 DEF Routes, Quiet
<1>5. Makers'
  BY <1>0, <1>1 DEF Ownership, Makers, Making, Up, Registered
<1>6. Serving'
  BY <1>0, <1>1 DEF Ownership, Serving, Up, CoreTypes
<1>7. Dooms'
  BY <1>0, <1>1 DEF Ownership, Dooms, Up, Registered
<1>8. NoOrphan'
  <2>1. ASSUME NEW d \in Calls, phase[d] \in {"alive", "exited"}, ~Registered(d)
        PROVE  Held(d)'
    <3>1. Held(d)
      BY <1>0, <2>1 DEF Ownership, NoOrphan
    <3>2. CASE op[d].pc \in {"handshake", "insert"} /\ op[d].pi = d
      BY <1>1, <3>2 DEF Held, Making
    <3>3. CASE \E e \in Calls : op[e].doomed = d
      BY <1>1, <3>3 DEF Held
    <3> QED BY <3>1, <3>2, <3>3 DEF Held
  <2> QED BY <1>0, <2>1 DEF NoOrphan, Registered
<1> QED BY <1>2, <1>3, <1>4, <1>5, <1>6, <1>7, <1>8 DEF Ownership

\* A call moves on.
LEMMA GotoQuiet ==
    ASSUME IndInv, NEW c \in Calls, NEW p \in Pcs, p \notin {"handshake", "insert", "closing", "save", "evict"},
           Goto(c, p), sessions' = sessions, phase' = phase,
           op[c].pc \notin {"handshake", "insert"}, op[c].doomed = None,
           p \in EarlyPcs => Early(c),
           p \in {"sweep", "forget"} => Early(c) \/ op[c].kind = "new",
           op[c].id \in Ids \/ p = "error" \/ (op[c].kind = "new" /\ p = "spawn")
    PROVE  Quiet(c)
<1>0. op \in [Calls -> OpType]
  BY DEF IndInv, CoreTypes
<1>1. op' = [op EXCEPT ![c] = [op[c] EXCEPT !.pc = p]]
  BY <1>0 DEF Goto, OpType
<1>2. [op[c] EXCEPT !.pc = p] \in OpType
  BY <1>0 DEF OpType
<1>3. Moves(c)
  BY <1>0, <1>1, <1>2 DEF Moves
<1>4. /\ op'[c].pc = p /\ op'[c].doomed = None /\ op'[c].id = op[c].id
      /\ op'[c].kind = op[c].kind
  BY <1>0, <1>1 DEF OpType
<1>5. Route(c)'
  BY <1>4 DEF Route
<1>6. Early(c)' => Early(c)
  BY <1>4 DEF Early
<1> QED BY <1>3, <1>4, <1>5, <1>6 DEF Quiet, Making

\* A call goes on to closing sessions.
LEMMA CloseQuiet ==
    ASSUME IndInv, NEW c \in Calls, NEW ids \in SUBSET Ids, NEW p \in Thens,
           op' = GoClose(c, ids, p), sessions' = sessions, phase' = phase,
           op[c].pc \notin {"handshake", "insert"}, op[c].doomed = None, op[c].id \in Ids,
           p \in {"sweep", "forget"} => Early(c) \/ op[c].kind = "new"
    PROVE  Quiet(c)
<1>0. op \in [Calls -> OpType] /\ p \in Pcs /\ "closing" \in Pcs
  BY DEF IndInv, CoreTypes, Thens, Pcs
<1>1. op' = [op EXCEPT ![c] = [op[c] EXCEPT !.pc = "closing", !.todo = ids, !.then = p]]
  BY <1>0 DEF GoClose, OpType
<1>2. [op[c] EXCEPT !.pc = "closing", !.todo = ids, !.then = p] \in OpType
  BY <1>0 DEF OpType
<1>3. Moves(c)
  BY <1>0, <1>1, <1>2 DEF Moves
<1>4. /\ op'[c].pc = "closing" /\ op'[c].doomed = None /\ op'[c].id = op[c].id
      /\ op'[c].kind = op[c].kind /\ op'[c].then = p
  BY <1>0, <1>1 DEF OpType
<1>5. Route(c)'
  BY <1>4 DEF Route
<1>6. Early(c)' => Early(c)
  BY <1>4 DEF Early, EarlyPcs
<1> QED BY <1>3, <1>4, <1>5, <1>6 DEF Quiet, Making

\* What a call at a pc has and holds.
LEMMA AtPc ==
    ASSUME IndInv, NEW c \in Calls
    PROVE  /\ op[c] \in OpType /\ Route(c)
           /\ op[c].pc \notin {"closing", "evict"} => op[c].doomed = None
           /\ op[c].pc \notin {"idle", "error", "dropped", "lock", "spawn"} => op[c].id \in Ids
           /\ op[c].pc \in {"lock", "spawn"} /\ op[c].kind # "new" => op[c].id \in Ids
BY DEF IndInv, CoreTypes, Ownership, Routes, Route

LEMMA IdleType == Idle \in OpType /\ Idle.doomed = None
<1>1. "new" \in Kinds /\ "idle" \in Pcs /\ NoMenu \in AnyMenu
  BY DEF Kinds, Pcs, AnyMenu
<1> QED BY <1>1 DEF Idle, OpType

LEMMA StartQuiet ==
    ASSUME IndInv, NEW c \in Calls, NEW k \in Kinds, NEW s \in Ids \cup {None}, NEW m \in AnyMenu,
           Start(c, k, s, m)
    PROVE  Quiet(c)
<1>0. /\ op \in [Calls -> OpType] /\ known \subseteq Ids /\ op[c].pc = "idle"
      /\ sessions' = sessions /\ phase' = phase /\ op[c].doomed = None
      /\ k # "new" => s \in Ids
  BY AtPc DEF IndInv, CoreTypes, RestTypes, Start
<1> DEFINE t == IF k = "close" THEN {s} ELSE {}
           r == [Idle EXCEPT !.kind = k, !.id = s, !.menu = m, !.pc = EntryOf(k), !.todo = t,
                             !.then = "unmenu"]
<1>1. op' = [op EXCEPT ![c] = r]
  BY DEF Start
<1>2. EntryOf(k) \in {"lock", "lookup", "closing", "unmenu"} /\ (EntryOf(k) = "closing" <=> k = "close")
      /\ (EntryOf(k) = "lock" <=> k \in {"new", "load"})
  BY DEF EntryOf, Kinds
<1>3. EntryOf(k) \in Pcs /\ "unmenu" \in Pcs
  BY <1>2 DEF Pcs
<1>4. t \in SUBSET Ids
  BY <1>0
<1> HIDE DEF t
<1>5. r \in OpType /\ r.doomed = None /\ r.pc = EntryOf(k) /\ r.kind = k /\ r.id = s
      /\ r.then = "unmenu"
  BY IdleType, <1>3, <1>4 DEF OpType
<1> HIDE DEF r
<1>6. Moves(c) /\ op'[c] = r
  BY <1>0, <1>1, <1>5 DEF Moves
<1>7. Early(c) /\ phase[c] = "unborn"
  BY <1>0 DEF Early, EarlyPcs, IndInv, Ownership, Unborn
<1>8. Route(c)'
  BY <1>0, <1>2, <1>5, <1>6 DEF Route, Thens
<1> QED BY <1>0, <1>2, <1>5, <1>6, <1>7, <1>8 DEF Quiet, Making

LEMMA AcquireQuiet ==
    ASSUME IndInv, NEW c \in Calls, Acquire(c)
    PROVE  Quiet(c)
<1>0. /\ op[c].pc = "lock" /\ op[c].doomed = None /\ sessions' = sessions /\ phase' = phase
      /\ Early(c) /\ (op[c].kind # "new" => op[c].id \in Ids)
  BY AtPc DEF Acquire, Early, EarlyPcs
<1>1. CASE op[c].kind = "new"
  BY <1>0, <1>1, GotoQuiet DEF Acquire, Pcs
<1>2. CASE op[c].kind # "new"
  BY <1>0, <1>2, CloseQuiet DEF Acquire, Thens
<1> QED BY <1>1, <1>2

LEMMA ManagerQuiet ==
    ASSUME IndInv, NEW c \in Calls, Closed(c) \/ Sweep(c) \/ Forget(c)
    PROVE  Quiet(c)
<1>1. CASE Closed(c)
  <2>1. /\ op[c].pc = "closing" /\ op[c].doomed = None /\ op[c].id \in Ids /\ op[c].then \in Thens
        /\ Goto(c, op[c].then) /\ sessions' = sessions /\ phase' = phase
    BY <1>1, AtPc DEF Closed, Route
  <2>2. op[c].then \in Pcs /\ op[c].then \notin EarlyPcs
        /\ op[c].then \notin {"handshake", "insert", "closing", "save", "evict"}
    BY <2>1 DEF Thens, Pcs, EarlyPcs
  <2> QED BY <2>1, <2>2, GotoQuiet DEF Early
<1>2. CASE Sweep(c)
  <2>1. op[c].pc = "sweep" /\ op[c].doomed = None /\ op[c].id \in Ids
        /\ sessions' = sessions /\ phase' = phase
    BY <1>2, AtPc DEF Sweep
  <2>2. \E ids \in SUBSET Ids : op' = GoClose(c, ids, "forget")
    BY <1>2 DEF Sweep
  <2> QED BY <2>1, <2>2, CloseQuiet DEF Early, Thens
<1>3. CASE Forget(c)
  <2>1. op[c].pc = "forget" /\ op[c].doomed = None /\ op[c].id \in Ids
        /\ sessions' = sessions /\ phase' = phase
    BY <1>3, AtPc DEF Forget
  <2>2. CASE op[c].kind = "new"
    BY <1>3, <2>1, <2>2, GotoQuiet DEF Forget, Pcs, Ended, EarlyPcs
  <2>3. CASE op[c].kind # "new"
    BY <1>3, <2>1, <2>3, GotoQuiet DEF Forget, Pcs, EarlyPcs, Early
  <2> QED BY <2>2, <2>3
<1> QED BY <1>1, <1>2, <1>3

LEMMA FailQuiet ==
    ASSUME IndInv, NEW c \in Calls, Fail(c), op[c].pc \notin {"handshake", "insert"},
           op[c].doomed = None
    PROVE  Quiet(c)
BY GotoQuiet DEF Fail, Pcs, Ended, EarlyPcs

LEMMA RestoreQuiet ==
    ASSUME IndInv, NEW c \in Calls, Restore(c)
    PROVE  Quiet(c)
<1>0. op \in [Calls -> OpType] /\ sessions \in [Ids -> Calls \cup {None}]
      /\ menus \in [Ids -> AnyMenu]
  BY DEF IndInv, CoreTypes, RestTypes
<1>1. /\ op[c].pc \in {"lookup", "find", "locate", "relocate", "adopt", "menu"}
      /\ op[c].doomed = None /\ op[c].id \in Ids /\ sessions' = sessions /\ phase' = phase
      /\ Early(c)
  <2>1. op[c].pc \in {"lookup", "find", "locate", "relocate", "adopt", "menu"}
        /\ sessions' = sessions /\ phase' = phase
    BY DEF Restore, Lookup, Locate, Adopt, WrongDirectory, ReadMenu, Fail
  <2> QED BY <2>1, AtPc DEF Early, EarlyPcs
<1>2. CASE Lookup(c)
  <2> DEFINE live == sessions[op[c].id]
             p == CASE live = None -> "locate" [] op[c].kind = "load" -> "upsert" [] OTHER -> "turn"
             r == [op[c] EXCEPT !.pi = live, !.pc = p]
  <2>1. op' = [op EXCEPT ![c] = r]
    BY <1>0, <1>2 DEF Lookup, OpType
  <2>2. p \in {"locate", "upsert", "turn"} /\ p \in Pcs
    BY DEF Pcs
  <2>3. live \in Calls \cup {None}
    BY <1>0, <1>1
  <2> HIDE DEF live, p
  <2>4. r \in OpType /\ r.pc = p /\ r.doomed = None /\ r.id = op[c].id /\ r.kind = op[c].kind
    BY <1>0, <1>1, <2>2, <2>3 DEF OpType
  <2> HIDE DEF r
  <2>5. Moves(c) /\ op'[c] = r
    BY <1>0, <2>1, <2>4 DEF Moves
  <2>6. Route(c)'
    BY <1>1, <2>2, <2>4, <2>5 DEF Route
  <2> QED BY <1>1, <2>2, <2>4, <2>5, <2>6 DEF Quiet, Making
<1>3. CASE Locate(c)
  <2>1. ASSUME op' = [op EXCEPT ![c].pc = "adopt", ![c].then = op[c].pc]
        PROVE  Quiet(c)
    <3> DEFINE r == [op[c] EXCEPT !.pc = "adopt", !.then = op[c].pc]
    <3>1. op' = [op EXCEPT ![c] = r]
      BY <1>0, <2>1 DEF OpType
    <3>2. r \in OpType /\ r.pc = "adopt" /\ r.doomed = None /\ r.id = op[c].id
      <4>1. op[c] \in OpType /\ "adopt" \in Pcs
        BY <1>0 DEF Pcs
      <4>2. op[c].pc \in Pcs
        BY <4>1 DEF OpType
      <4> QED BY <1>1, <4>1, <4>2 DEF OpType
    <3> HIDE DEF r
    <3>3. Moves(c) /\ op'[c] = r
      BY <1>0, <3>1, <3>2 DEF Moves
    <3>4. Route(c)'
      BY <1>1, <3>2, <3>3 DEF Route
    <3> QED BY <1>1, <3>2, <3>3, <3>4 DEF Quiet, Making
  <2>2. \/ \E p \in {"lookup", "menu", "error"} : Goto(c, p)
        \/ op' = [op EXCEPT ![c].pc = "adopt", ![c].then = op[c].pc]
    BY <1>3 DEF Locate, Fail
  <2>3. ASSUME NEW p \in {"lookup", "menu", "error"}, Goto(c, p)
        PROVE  Quiet(c)
    BY <1>1, <2>3, GotoQuiet DEF Pcs, Ended
  <2> QED BY <2>1, <2>2, <2>3
<1>4. CASE Adopt(c)
  <2>1. \E p \in {"find", "relocate"} : Goto(c, p)
    BY <1>4 DEF Adopt
  <2> QED BY <1>1, <2>1, GotoQuiet DEF Pcs
<1>5. CASE WrongDirectory(c)
  BY <1>1, <1>5, GotoQuiet DEF WrongDirectory, Pcs, Ended
<1>6. CASE ReadMenu(c)
  <2> DEFINE r == [op[c] EXCEPT !.menu = menus[op[c].id], !.pc = "spawn"]
  <2>1. op' = [op EXCEPT ![c] = r]
    BY <1>0, <1>6 DEF ReadMenu, OpType
  <2>2. menus[op[c].id] \in AnyMenu
    BY <1>0, <1>1
  <2>3. r \in OpType /\ r.pc = "spawn" /\ r.doomed = None /\ r.id = op[c].id
    <3>1. op[c] \in OpType /\ "spawn" \in Pcs
      BY <1>0 DEF Pcs
    <3> QED BY <1>1, <2>2, <3>1 DEF OpType
  <2> HIDE DEF r
  <2>4. Moves(c) /\ op'[c] = r
    BY <1>0, <2>1, <2>3 DEF Moves
  <2>5. Route(c)'
    BY <1>1, <2>3, <2>4 DEF Route
  <2> QED BY <1>1, <2>3, <2>4, <2>5 DEF Quiet, Making
<1> QED BY <1>2, <1>3, <1>4, <1>5, <1>6 DEF Restore

LEMMA SpawnSessionQuiet ==
    ASSUME IndInv, NEW c \in Calls,
           \/ SpawnFails(c) \/ ModelsOk(c) \/ NewFails(c) \/ Erase(c) \/ GateOk(c)
           \/ RestoreRefused(c) \/ Refused(c) \/ Save(c) \/ Record(c)
    PROVE  Quiet(c)
<1>1. CASE SpawnFails(c) \/ Refused(c)
  <2>1. op[c].pc \in {"spawn", "refused"} /\ Fail(c)
    BY <1>1 DEF SpawnFails, Refused
  <2> QED BY <2>1, AtPc, FailQuiet
<1>2. CASE ModelsOk(c) \/ Erase(c) \/ Record(c)
  <2>1. /\ op[c].pc \in {"models", "erase", "record"} /\ sessions' = sessions /\ phase' = phase
        /\ \E p \in {"gate", "error", "upsert", "turn"} : Goto(c, p)
    BY <1>2 DEF ModelsOk, Erase, Record
  <2> QED BY <2>1, AtPc, GotoQuiet DEF Pcs, Ended, EarlyPcs
<1>3. CASE NewFails(c) \/ RestoreRefused(c)
  <2>1. /\ op[c].pc \in {"models", "gate"} /\ sessions' = sessions /\ phase' = phase
        /\ \E p \in {"erase", "refused"} : op' = GoClose(c, {op[c].id}, p)
    BY <1>3 DEF NewFails, RestoreRefused
  <2> QED BY <2>1, AtPc, CloseQuiet DEF Thens
<1>4. CASE GateOk(c)
  <2>1. op[c].pc = "gate" /\ sessions' = sessions /\ phase' = phase
        /\ op[c].doomed = None /\ op[c].id \in Ids /\ op \in [Calls -> OpType]
    BY <1>4, AtPc DEF GateOk, IndInv, CoreTypes
  <2>2. CASE op[c].kind # "new"
    BY <1>4, <2>1, <2>2, GotoQuiet DEF GateOk, Pcs, EarlyPcs
  <2>3. CASE op[c].kind = "new"
    <3>1. op' = [op EXCEPT ![c] = [op[c] EXCEPT !.pc = "save"]]
      BY <1>4, <2>1, <2>3 DEF GateOk, Goto, OpType
    <3>2. /\ [op[c] EXCEPT !.pc = "save"] \in OpType
          /\ [op[c] EXCEPT !.pc = "save"].kind = "new"
          /\ [op[c] EXCEPT !.pc = "save"].pc = "save"
          /\ [op[c] EXCEPT !.pc = "save"].doomed = None
          /\ [op[c] EXCEPT !.pc = "save"].id = op[c].id
      <4>1. op[c] \in OpType /\ "save" \in Pcs
        BY <2>1 DEF Pcs
      <4> QED BY <2>1, <2>3, <4>1 DEF OpType
    <3>3. Moves(c) /\ op'[c] = [op[c] EXCEPT !.pc = "save"]
      BY <2>1, <3>1, <3>2 DEF Moves
    <3>4. /\ op'[c].pc = "save" /\ op'[c].doomed = None /\ op'[c].id = op[c].id
          /\ op'[c].kind = "new"
      BY <3>2, <3>3
    <3>5. Route(c)'
      BY <2>1, <3>4 DEF Route
    <3> QED BY <2>1, <3>3, <3>4, <3>5 DEF Quiet, Making, Early, EarlyPcs
  <2> QED BY <2>2, <2>3
<1>5. CASE Save(c)
  <2>1. op[c].pc = "save" /\ Goto(c, "sweep") /\ sessions' = sessions /\ phase' = phase
    BY <1>5 DEF Save
  <2> QED BY <2>1, AtPc, GotoQuiet DEF Pcs, EarlyPcs, Route
<1> QED BY <1>1, <1>2, <1>3, <1>4, <1>5

LEMMA UseQuiet ==
    ASSUME IndInv, NEW c \in Calls, Use(c)
    PROVE  Quiet(c)
<1>1. /\ op[c].pc \in {"upsert", "history", "turn", "persist", "check", "write"}
      /\ \E p \in {"history", "ok", "error", "persist", "check", "write"} : Goto(c, p)
      /\ sessions' = sessions /\ phase' = phase
  BY DEF Use, Upsert, History, TurnOk, TurnHeadless, TurnFails, Persist, CheckFile, WriteEntry
<1> QED BY <1>1, AtPc, GotoQuiet DEF Pcs, Ended, EarlyPcs

LEMMA RemoveQuiet ==
    ASSUME IndInv, NEW c \in Calls, Remove(c)
    PROVE  Quiet(c)
<1>1. /\ op[c].pc \in {"unmenu", "look", "unlink", "unstore"}
      /\ \/ \E p \in {"ok", "look", "unlink"} : Goto(c, p)
         \/ op' = GoClose(c, {op[c].id}, "unstore")
      /\ sessions' = sessions /\ phase' = phase
  BY DEF Remove, Unmenu, Look, Unlink, Unstore
<1>2. CASE \E p \in {"ok", "look", "unlink"} : Goto(c, p)
  BY <1>1, <1>2, AtPc, GotoQuiet DEF Pcs, Ended, EarlyPcs
<1>3. CASE op' = GoClose(c, {op[c].id}, "unstore")
  BY <1>1, <1>3, AtPc, CloseQuiet DEF Thens
<1> QED BY <1>1, <1>2, <1>3

-------------------------------------------------------------------------------
(* Steps that move a pi                                                        *)

\* A step of c after which it is somewhere else than before Spawn, and its pi, what
\* is doomed and the map changed as stated; what every such step has in common.
Changes(c, id, pc, pi, doomed) ==
    /\ Moves(c) /\ op'[c].id = id /\ op'[c].pc = pc /\ op'[c].pi = pi
    /\ op'[c].doomed = doomed /\ op'[c].kind = op[c].kind /\ op'[c].then = op[c].then

\* The pi of c begins in its hands.
LEMMA SpawnStep ==
    ASSUME IndInv, NEW c \in Calls, Spawn(c)
    PROVE  CoreTypes' /\ Ownership'
<1>0. /\ op \in [Calls -> OpType] /\ op[c] \in OpType /\ CoreTypes /\ Ownership
      /\ op[c].pc = "spawn" /\ op[c].doomed = None /\ Early(c)
      /\ phase' = [phase EXCEPT ![c] = "alive"] /\ sessions' = sessions
  BY AtPc DEF IndInv, CoreTypes, Spawn, Early, EarlyPcs
<1>1. phase[c] = "unborn" /\ ~Registered(c) /\ \A d \in Calls : op[d].doomed # c
  BY <1>0, AgentAssumption DEF Ownership, Unborn, Serving, Dooms, Registered, Up, CoreTypes
<1>2. PICK id \in Ids : Changes(c, id, "handshake", c, None)
  <2>1. "handshake" \in Pcs
    BY DEF Pcs
  <2>2. CASE op[c].kind = "new"
    <3>1. PICK id \in Ids : op' = [op EXCEPT ![c].id = id, ![c].pi = c, ![c].pc = "handshake"]
      BY <1>0, <2>2 DEF Spawn
    <3> QED BY <1>0, <2>1, <3>1 DEF Changes, Moves, OpType
  <2>3. CASE op[c].kind # "new"
    <3>1. op' = [op EXCEPT ![c].pi = c, ![c].pc = "handshake"] /\ op[c].id \in Ids
      BY <1>0, <2>3, AtPc DEF Spawn
    <3> QED BY <1>0, <2>1, <3>1 DEF Changes, Moves, OpType
  <2> QED BY <2>2, <2>3
<1>3. /\ op' \in [Calls -> OpType] /\ \A d \in Calls : d # c => op'[d] = op[d]
      /\ op'[c].id = id /\ op'[c].pc = "handshake" /\ op'[c].pi = c /\ op'[c].doomed = None
      /\ phase'[c] = "alive" /\ \A d \in Calls : d # c => phase'[d] = phase[d]
  BY <1>0, <1>2 DEF Changes, Moves, CoreTypes
<1>4. \A d \in Calls : op'[d].doomed = op[d].doomed /\ (d # c => op'[d].id = op[d].id)
  BY <1>0, <1>3
<1>5. CoreTypes'
  BY <1>0, <1>3 DEF CoreTypes
<1>6. Unborn'
  BY <1>0, <1>3 DEF Ownership, Unborn, Early, EarlyPcs
<1>7. Routes'
  BY <1>0, <1>3 DEF Ownership, Routes, Route
<1>8. Makers'
  BY <1>0, <1>1, <1>3, <1>4 DEF Ownership, Makers, Making, Up, Registered
<1>9. Serving'
  BY <1>0, <1>1, <1>3, <1>4 DEF Ownership, Serving, Up, Registered, CoreTypes
<1>10. Dooms'
  BY <1>0, <1>1, <1>3, <1>4 DEF Ownership, Dooms, Up, Registered, CoreTypes
<1>11. NoOrphan'
  <2>1. ASSUME NEW d \in Calls, d # c, Registered(d) \/ Held(d)
        PROVE  Registered(d)' \/ Held(d)'
    BY <1>0, <1>3, <1>4, <2>1 DEF Registered, Held
  <2>2. Held(c)'
    BY <1>3 DEF Held
  <2> QED BY <1>0, <1>3, <2>1, <2>2 DEF Ownership, NoOrphan
<1> QED BY <1>5, <1>6, <1>7, <1>8, <1>9, <1>10, <1>11 DEF Ownership

\* A handshake fails: the call disposes of its own pi.
LEMMA HandshakeFailsStep ==
    ASSUME IndInv, NEW c \in Calls, HandshakeFails(c)
    PROVE  CoreTypes' /\ Ownership'
<1>0. /\ op \in [Calls -> OpType] /\ op[c] \in OpType /\ CoreTypes /\ Ownership
      /\ op[c].pc = "handshake" /\ op[c].doomed = None /\ op[c].id \in Ids
      /\ Goto(c, "error") /\ sessions' = sessions /\ "error" \in Pcs
  BY AtPc DEF IndInv, CoreTypes, HandshakeFails, Pcs, Ended
<1>1. Up(c) /\ ~Registered(c) /\ \A d \in Calls : op[d].doomed # c
  BY <1>0 DEF Ownership, Makers, Making
<1>2. phase' = [phase EXCEPT ![c] = "disposed"]
  BY <1>1 DEF HandshakeFails, Kill, Up
<1>3. /\ op' \in [Calls -> OpType] /\ \A d \in Calls : d # c => op'[d] = op[d]
      /\ op'[c].id = op[c].id /\ op'[c].pc = "error" /\ op'[c].doomed = None
      /\ phase'[c] = "disposed" /\ \A d \in Calls : d # c => phase'[d] = phase[d]
  BY <1>0, <1>2 DEF Goto, OpType, CoreTypes
<1>4. \A d \in Calls : op'[d].doomed = op[d].doomed /\ op'[d].id = op[d].id
  BY <1>0, <1>3
<1>5. CoreTypes'
  BY <1>0, <1>2, <1>3 DEF CoreTypes
<1>6. Unborn'
  BY <1>0, <1>3 DEF Ownership, Unborn, Early, EarlyPcs
<1>7. Routes'
  BY <1>0, <1>3 DEF Ownership, Routes, Route
<1>8. Makers'
  BY <1>0, <1>1, <1>3, <1>4 DEF Ownership, Makers, Making, Up, Registered
<1>9. Serving'
  BY <1>0, <1>1, <1>3, <1>4 DEF Ownership, Serving, Up, Registered, CoreTypes
<1>10. Dooms'
  BY <1>0, <1>1, <1>3, <1>4 DEF Ownership, Dooms, Up, Registered, CoreTypes, OpType
<1>11. NoOrphan'
  <2>1. ASSUME NEW d \in Calls, d # c, Registered(d) \/ Held(d)
        PROVE  Registered(d)' \/ Held(d)'
    BY <1>0, <1>3, <1>4, <2>1 DEF Registered, Held
  <2> QED BY <1>0, <1>3, <2>1 DEF Ownership, NoOrphan
<1> QED BY <1>5, <1>6, <1>7, <1>8, <1>9, <1>10, <1>11 DEF Ownership

\* The handshake succeeds: the pi stays in the call's hands.
LEMMA HandshakeOkQuiet ==
    ASSUME IndInv, NEW c \in Calls, HandshakeOk(c)
    PROVE  Quiet(c)
<1>0. /\ op \in [Calls -> OpType] /\ op[c] \in OpType
      /\ op[c].pc = "handshake" /\ op[c].doomed = None /\ op[c].id \in Ids
      /\ Goto(c, "insert") /\ sessions' = sessions /\ phase' = phase /\ "insert" \in Pcs
  BY AtPc DEF IndInv, CoreTypes, HandshakeOk, Pcs
<1>1. /\ Moves(c) /\ op'[c].id = op[c].id /\ op'[c].pc = "insert" /\ op'[c].doomed = None
      /\ op'[c].pi = op[c].pi
  BY <1>0 DEF Goto, OpType, Moves
<1> QED BY <1>0, <1>1 DEF Quiet, Making, Early, EarlyPcs, Route

\* The pi enters the map; one it replaces is doomed.
LEMMA InsertStep ==
    ASSUME IndInv, NEW c \in Calls, Insert(c)
    PROVE  CoreTypes' /\ Ownership'
<1> DEFINE id == op[c].id
           old == sessions[id]
           pc == IF old = None THEN AfterInsert(c) ELSE "evict"
<1>0. /\ op \in [Calls -> OpType] /\ op[c] \in OpType /\ CoreTypes /\ Ownership
      /\ op[c].pc = "insert" /\ op[c].doomed = None /\ id \in Ids /\ old \in Calls \cup {None}
      /\ op' = [op EXCEPT ![c].doomed = old, ![c].pc = pc]
      /\ sessions' = [sessions EXCEPT ![id] = c] /\ phase' = phase /\ None \notin Calls
  BY AtPc, AgentAssumption DEF IndInv, CoreTypes, Insert
<1>1. op[c].pi = c /\ Up(c) /\ ~Registered(c) /\ \A d \in Calls : op[d].doomed # c
  BY <1>0 DEF Ownership, Makers, Making
<1>2. pc \in {"models", "gate", "evict"} /\ (pc = "evict" <=> old # None) /\ pc \in Pcs
  BY DEF AfterInsert, Pcs
<1>3. old # c /\ (old # None => Up(old) /\ op[old].id = id)
  BY <1>0, <1>1 DEF Registered, Ownership, Serving
<1>4. old # None => \A d \in Calls : op[d].doomed # old
  BY <1>0 DEF Ownership, Dooms, Registered
<1> HIDE DEF id, old, pc
<1>5. /\ op' \in [Calls -> OpType] /\ \A d \in Calls : d # c => op'[d] = op[d]
      /\ op'[c].id = op[c].id /\ op'[c].pc = pc /\ op'[c].doomed = old
  BY <1>0, <1>2 DEF OpType
<1>6. \A d \in Calls : op'[d].id = op[d].id
  BY <1>5
<1>7. \A s \in Ids : s # id => sessions'[s] = sessions[s] /\ sessions[s] # c
  BY <1>0, <1>1 DEF CoreTypes, Registered
<1>8. sessions'[id] = c /\ op[c].id = id
  BY <1>0 DEF CoreTypes, id
<1>9. \A s \in Ids : old # None /\ sessions'[s] = old => FALSE
  <2>1. ASSUME NEW s \in Ids, s # id, old # None, sessions[s] = old
        PROVE  FALSE
    BY <1>0, <1>3, <2>1 DEF Ownership, Serving
  <2> QED BY <1>3, <1>7, <1>8, <2>1
<1>10. CoreTypes'
  BY <1>0, <1>5 DEF CoreTypes
<1>11. Unborn'
  BY <1>0, <1>2, <1>5 DEF Ownership, Unborn, Early, EarlyPcs
<1>12. Routes'
  BY <1>0, <1>2, <1>5 DEF Ownership, Routes, Route
<1>13. Makers'
  <2> SUFFICES ASSUME NEW d \in Calls, Making(d)'
               PROVE  /\ op'[d].pi = d /\ Up(d)' /\ ~Registered(d)'
                      /\ \A e \in Calls : op'[e].doomed # d
    BY DEF Makers
  <2>1. d # c /\ Making(d) /\ op'[d] = op[d]
    BY <1>2, <1>5 DEF Making
  <2>2. /\ op[d].pi = d /\ Up(d) /\ ~Registered(d) /\ \A e \in Calls : op[e].doomed # d
    BY <1>0, <2>1 DEF Ownership, Makers
  <2>3. d # old
    BY <2>2, <1>0 DEF Registered, old, id
  <2>4. ~Registered(d)'
    BY <1>7, <1>8, <2>1, <2>2 DEF Registered
  <2> QED BY <1>0, <1>5, <2>1, <2>2, <2>3, <2>4 DEF Up
<1>14. Serving'
  BY <1>0, <1>1, <1>6, <1>7, <1>8 DEF Ownership, Serving, Up, CoreTypes
<1>15. Dooms'
  <2> SUFFICES ASSUME NEW d \in Calls, NEW y \in Calls, op'[d].doomed = y
               PROVE  /\ phase'[y] \in {"alive", "exited"} /\ \A t \in Ids : sessions'[t] # y
                      /\ \A e \in Calls : d # e => op'[e].doomed # y
    BY <1>5 DEF Dooms, Up, Registered, OpType
  <2>1. CASE d = c
    BY <1>0, <1>3, <1>4, <1>5, <1>9, <2>1 DEF Up
  <2>2. CASE d # c
    <3>1. op[d].doomed = y /\ y # None
      BY <1>0, <1>5, <2>2
    <3>2. /\ Up(y) /\ ~Registered(y) /\ \A e \in Calls : d # e => op[e].doomed # y
      BY <1>0, <3>1 DEF Ownership, Dooms
    <3>3. \A t \in Ids : sessions'[t] # y
      BY <1>1, <1>7, <1>8, <2>2, <3>1, <3>2 DEF Registered
    <3>4. \A e \in Calls : d # e => op'[e].doomed # y
      BY <1>4, <1>5, <2>2, <3>1, <3>2
    <3> QED BY <1>0, <3>2, <3>3, <3>4 DEF Up
  <2> QED BY <2>1, <2>2
<1>16. NoOrphan'
  <2> SUFFICES ASSUME NEW d \in Calls, phase[d] \in {"alive", "exited"}
               PROVE  Registered(d)' \/ Held(d)'
    BY <1>0 DEF NoOrphan
  <2>1. CASE d = c
    BY <1>0, <1>8, <2>1 DEF Registered
  <2>2. CASE d = old
    BY <1>0, <1>5, <2>2 DEF Held
  <2>3. CASE d # c /\ d # old /\ Registered(d)
    <3>1. PICK s \in Ids : sessions[s] = d
      BY <2>3 DEF Registered
    <3>2. s # id
      BY <2>3, <3>1 DEF old
    <3> QED BY <1>7, <3>1, <3>2 DEF Registered
  <2>4. CASE d # c /\ Held(d)
    <3>1. CASE op[d].pc \in {"handshake", "insert"} /\ op[d].pi = d
      BY <1>5, <2>4, <3>1 DEF Held
    <3>2. ASSUME NEW e \in Calls, op[e].doomed = d
          PROVE  op'[e].doomed = d
      BY <1>0, <1>5, <3>2
    <3> QED BY <2>4, <3>1, <3>2 DEF Held
  <2> QED BY <1>0, <2>1, <2>2, <2>3, <2>4 DEF Ownership, NoOrphan
<1> QED BY <1>10, <1>11, <1>12, <1>13, <1>14, <1>15, <1>16 DEF Ownership

\* A session is taken out of the map and doomed by the call that did.
LEMMA CloseRemoveStep ==
    ASSUME IndInv, NEW c \in Calls, NEW s \in Ids, CloseRemove(c, s)
    PROVE  CoreTypes' /\ Ownership'
<1> DEFINE old == sessions[s]
<1>0. /\ op \in [Calls -> OpType] /\ op[c] \in OpType /\ CoreTypes /\ Ownership
      /\ op[c].pc = "closing" /\ op[c].doomed = None /\ old \in Calls \cup {None}
      /\ op' = [op EXCEPT ![c].todo = @ \ {s}, ![c].doomed = old]
      /\ sessions' = [sessions EXCEPT ![s] = None] /\ phase' = phase /\ None \notin Calls
  BY AgentAssumption DEF IndInv, CoreTypes, CloseRemove
<1>1. old # None => Up(old) /\ op[old].id = s /\ ~Making(old)
  BY <1>0 DEF Ownership, Serving, Makers, Registered
<1>2. old # None => \A d \in Calls : op[d].doomed # old
  BY <1>0 DEF Ownership, Dooms, Registered
<1>3. \A t \in Ids : t # s /\ sessions[t] # None => sessions[t] # old
  BY <1>0, <1>1 DEF Ownership, Serving
<1>4. /\ op' \in [Calls -> OpType] /\ \A d \in Calls : d # c => op'[d] = op[d]
      /\ op'[c].id = op[c].id /\ op'[c].pc = "closing" /\ op'[c].doomed = old
      /\ op'[c].kind = op[c].kind /\ op'[c].then = op[c].then
  <2>1. op[c].todo \ {s} \in SUBSET Ids
    BY <1>0 DEF OpType
  <2> HIDE DEF old
  <2> QED BY <1>0, <2>1 DEF OpType
<1>5. sessions'[s] = None /\ \A t \in Ids : t # s => sessions'[t] = sessions[t]
  BY <1>0 DEF CoreTypes
<1>6. \A d \in Calls : op'[d].id = op[d].id /\ op'[d].pc = op[d].pc
  BY <1>0, <1>4
<1>7. CoreTypes'
  BY <1>0, <1>4 DEF CoreTypes
<1>8. Unborn'
  BY <1>0, <1>4 DEF Ownership, Unborn, Early
<1>9. Routes'
  BY <1>0, <1>4 DEF Ownership, Routes, Route
<1> HIDE DEF old
<1>10. Makers'
  <2> SUFFICES ASSUME NEW d \in Calls, Making(d)'
               PROVE  /\ op'[d].pi = d /\ Up(d)' /\ ~Registered(d)'
                      /\ \A e \in Calls : op'[e].doomed # d
    BY DEF Makers
  <2>1. d # c /\ Making(d) /\ op'[d] = op[d]
    BY <1>4 DEF Making
  <2>2. /\ op[d].pi = d /\ Up(d) /\ ~Registered(d) /\ \A e \in Calls : op[e].doomed # d
    BY <1>0, <2>1 DEF Ownership, Makers
  <2>3. d # old
    BY <1>0, <1>1, <2>1
  <2>4. ~Registered(d)'
    BY <1>0, <1>5, <2>2 DEF Registered
  <2> QED BY <1>0, <1>4, <2>1, <2>2, <2>3, <2>4 DEF Up
<1>11. Serving'
  BY <1>0, <1>5, <1>6 DEF Ownership, Serving, Up, CoreTypes
<1>12. Dooms'
  <2> SUFFICES ASSUME NEW d \in Calls, NEW y \in Calls, op'[d].doomed = y
               PROVE  /\ phase'[y] \in {"alive", "exited"} /\ \A t \in Ids : sessions'[t] # y
                      /\ \A e \in Calls : d # e => op'[e].doomed # y
    BY <1>4 DEF Dooms, Up, Registered, OpType
  <2>1. CASE d = c
    BY <1>0, <1>1, <1>2, <1>3, <1>4, <1>5, <2>1 DEF Up
  <2>2. CASE d # c
    <3>1. op[d].doomed = y /\ y # None
      BY <1>0, <1>4, <2>2
    <3>2. /\ Up(y) /\ ~Registered(y) /\ \A e \in Calls : d # e => op[e].doomed # y
      BY <1>0, <3>1 DEF Ownership, Dooms
    <3>3. \A t \in Ids : sessions'[t] # y
      BY <1>0, <1>5, <3>1, <3>2 DEF Registered
    <3>4. \A e \in Calls : d # e => op'[e].doomed # y
      BY <1>2, <1>4, <2>2, <3>1, <3>2
    <3> QED BY <1>0, <3>2, <3>3, <3>4 DEF Up
  <2> QED BY <2>1, <2>2
<1>13. NoOrphan'
  <2> SUFFICES ASSUME NEW d \in Calls, phase[d] \in {"alive", "exited"}
               PROVE  Registered(d)' \/ Held(d)'
    BY <1>0 DEF NoOrphan
  <2>1. CASE d = old
    BY <1>4, <2>1 DEF Held
  <2>2. CASE d # old /\ Registered(d)
    <3>1. PICK t \in Ids : sessions[t] = d
      BY <2>2 DEF Registered
    <3>2. t # s
      BY <2>2, <3>1 DEF old
    <3> QED BY <1>5, <3>1, <3>2 DEF Registered
  <2>3. CASE Held(d)
    <3>1. CASE op[d].pc \in {"handshake", "insert"} /\ op[d].pi = d
      BY <1>0, <1>4, <3>1 DEF Held
    <3>2. ASSUME NEW e \in Calls, op[e].doomed = d
          PROVE  op'[e].doomed = d
      BY <1>0, <1>4, <3>2
    <3> QED BY <2>3, <3>1, <3>2 DEF Held
  <2> QED BY <1>0, <2>1, <2>2, <2>3 DEF Ownership, NoOrphan
<1> QED BY <1>7, <1>8, <1>9, <1>10, <1>11, <1>12, <1>13 DEF Ownership

\* The doomed pi of a close or of a replacement is disposed of.
LEMMA DisposeStep ==
    ASSUME IndInv, NEW c \in Calls, CloseDispose(c) \/ Evict(c)
    PROVE  CoreTypes' /\ Ownership'
<1> DEFINE x == op[c].doomed
<1>0. /\ op \in [Calls -> OpType] /\ op[c] \in OpType /\ CoreTypes /\ Ownership
      /\ x # None /\ x \in Calls /\ sessions' = sessions /\ phase' = Kill(x)
  <2>1. CoreTypes /\ Ownership /\ op \in [Calls -> OpType] /\ op[c] \in OpType
        /\ sessions' = sessions /\ phase' = Kill(x)
    BY DEF IndInv, CoreTypes, CloseDispose, Evict
  <2>2. x # None
    BY AtPc DEF CloseDispose, Evict, Route
  <2> QED BY <2>1, <2>2 DEF OpType
<1>1. /\ Up(x) /\ ~Registered(x) /\ \A d \in Calls : c # d => op[d].doomed # x
  BY <1>0 DEF Ownership, Dooms
<1>2. ~Making(x)
  BY <1>0 DEF Ownership, Makers
<1> HIDE DEF x
<1>3. phase' = [phase EXCEPT ![x] = "disposed"]
  BY <1>0, <1>1 DEF Kill, Up
<1>4. /\ op' \in [Calls -> OpType] /\ \A d \in Calls : d # c => op'[d] = op[d]
      /\ op'[c].id = op[c].id /\ op'[c].doomed = None /\ op'[c].kind = op[c].kind
      /\ op'[c].then = op[c].then /\ op'[c].pi = op[c].pi
      /\ \/ op[c].pc = "closing" /\ op'[c].pc = "closing"
         \/ op[c].pc = "evict" /\ op'[c].pc \in {"models", "gate"}
  <2>1. CASE CloseDispose(c)
    BY <1>0, <2>1 DEF CloseDispose, OpType
  <2>2. CASE Evict(c)
    <3>1. AfterInsert(c) \in {"models", "gate"} /\ AfterInsert(c) \in Pcs
      BY DEF AfterInsert, Pcs
    <3> QED BY <1>0, <2>2, <3>1 DEF Evict, OpType
  <2> QED BY <2>1, <2>2
<1>5. phase'[x] = "disposed" /\ \A d \in Calls : d # x => phase'[d] = phase[d]
  BY <1>0, <1>3 DEF CoreTypes
<1>6. \A d \in Calls : /\ op'[d].id = op[d].id
                       /\ op'[d].doomed # None => op'[d] = op[d] /\ d # c
                       /\ Making(d)' <=> Making(d)
                       /\ Making(d) => op'[d] = op[d] /\ d # x
  BY <1>0, <1>2, <1>4 DEF Making
<1>7. CoreTypes'
  BY <1>0, <1>3, <1>4 DEF CoreTypes
<1>8. Unborn'
  <2>1. \A d \in Calls : Early(d)' => Early(d)
    BY <1>0, <1>4 DEF Early, EarlyPcs
  <2>2. phase[x] # "unborn"
    BY <1>1 DEF Up
  <2> QED BY <1>0, <1>5, <2>1, <2>2 DEF Ownership, Unborn
<1>9. Routes'
  BY <1>0, <1>4 DEF Ownership, Routes, Route
<1>10. Makers'
  <2> SUFFICES ASSUME NEW d \in Calls, Making(d)'
               PROVE  /\ op'[d].pi = d /\ Up(d)' /\ ~Registered(d)'
                      /\ \A e \in Calls : op'[e].doomed # d
    BY DEF Makers
  <2>1. Making(d) /\ d # x /\ op'[d] = op[d]
    BY <1>6
  <2>2. /\ op[d].pi = d /\ Up(d) /\ ~Registered(d) /\ \A e \in Calls : op[e].doomed # d
    BY <1>0, <2>1 DEF Ownership, Makers
  <2>3. \A e \in Calls : op'[e].doomed # d
    BY <1>4, <2>2, AgentAssumption
  <2> QED BY <1>0, <1>5, <2>1, <2>2, <2>3 DEF Up, Registered
<1>11. Serving'
  <2> SUFFICES ASSUME NEW s \in Ids, sessions[s] # None
               PROVE  Up(sessions[s])' /\ op'[sessions[s]].id = s
    BY <1>0 DEF Serving, Up
  <2>1. sessions[s] \in Calls /\ sessions[s] # x /\ Up(sessions[s]) /\ op[sessions[s]].id = s
    BY <1>0, <1>1 DEF CoreTypes, Registered, Ownership, Serving
  <2> QED BY <1>0, <1>5, <1>6, <2>1 DEF Up
<1>12. Dooms'
  <2> SUFFICES ASSUME NEW d \in Calls, NEW y \in Calls, op'[d].doomed = y
               PROVE  /\ phase'[y] \in {"alive", "exited"} /\ \A t \in Ids : sessions'[t] # y
                      /\ \A e \in Calls : d # e => op'[e].doomed # y
    BY <1>4 DEF Dooms, Up, Registered, OpType
  <2>1. d # c /\ op'[d] = op[d] /\ op[d].doomed = y /\ y # None /\ y # x
    BY <1>1, <1>6, AgentAssumption
  <2>2. Up(y) /\ ~Registered(y) /\ \A e \in Calls : d # e => op[e].doomed # y
    BY <1>0, <2>1 DEF Ownership, Dooms
  <2>3. \A e \in Calls : d # e => op'[e].doomed # y
    BY <1>4, <1>6, <2>1, <2>2
  <2> QED BY <1>0, <1>5, <2>1, <2>2, <2>3 DEF Up, Registered
<1>13. NoOrphan'
  <2> SUFFICES ASSUME NEW d \in Calls, d # x, phase[d] \in {"alive", "exited"}
               PROVE  Registered(d)' \/ Held(d)'
    BY <1>5 DEF NoOrphan
  <2>1. Registered(d) \/ Held(d)
    BY <1>0 DEF Ownership, NoOrphan
  <2>2. CASE Registered(d)
    BY <1>0, <2>2 DEF Registered
  <2>3. CASE op[d].pc \in {"handshake", "insert"} /\ op[d].pi = d
    BY <1>6, <2>3 DEF Held, Making
  <2>4. ASSUME NEW e \in Calls, op[e].doomed = d
        PROVE  Held(d)'
    BY <1>4, <2>4 DEF Held, x
  <2> QED BY <2>1, <2>2, <2>3, <2>4 DEF Held
<1> QED BY <1>7, <1>8, <1>9, <1>10, <1>11, <1>12, <1>13 DEF Ownership

-------------------------------------------------------------------------------
(* The end of a pi, and of the connection                                      *)

LEMMA PiExitsStep ==
    ASSUME IndInv, NEW c \in Calls, PiExits(c)
    PROVE  CoreTypes' /\ Ownership'
<1>0. /\ CoreTypes /\ Ownership /\ op' = op /\ sessions' = sessions
      /\ phase[c] = "alive" /\ phase' = [phase EXCEPT ![c] = "exited"]
  BY DEF IndInv, PiExits
<1>1. \A d \in Calls : phase'[d] \in {"alive", "exited"} <=> phase[d] \in {"alive", "exited"}
  BY <1>0 DEF CoreTypes
<1>2. \A d \in Calls : phase'[d] = "unborn" <=> phase[d] = "unborn"
  BY <1>0 DEF CoreTypes
<1>3. CoreTypes'
  BY <1>0 DEF CoreTypes
<1>4. Unborn' /\ Routes'
  BY <1>0, <1>2 DEF Ownership, Unborn, Early, Routes, Route
<1>5. Makers'
  BY <1>0, <1>1 DEF Ownership, Makers, Making, Up, Registered
<1>6. Serving'
  BY <1>0, <1>1 DEF Ownership, Serving, Up, CoreTypes
<1>7. Dooms'
  BY <1>0, <1>1 DEF Ownership, Dooms, Up, Registered, CoreTypes, OpType
<1>8. NoOrphan'
  BY <1>0, <1>1 DEF Ownership, NoOrphan, Registered, Held
<1> QED BY <1>3, <1>4, <1>5, <1>6, <1>7, <1>8 DEF Ownership

\* The calls that run are dropped, with what they hold; nothing that is registered
\* was held.
LEMMA DisconnectStep ==
    ASSUME IndInv, Disconnect
    PROVE  CoreTypes' /\ Ownership'
<1>0. /\ CoreTypes /\ Ownership /\ sessions' = sessions /\ op \in [Calls -> OpType]
      /\ op' = [c \in Calls |-> IF Running(c) THEN [op[c] EXCEPT !.pc = "dropped", !.doomed = None]
                                              ELSE op[c]]
      /\ phase' = [c \in Calls |-> IF Held(c) /\ Up(c) THEN "disposed" ELSE phase[c]]
  BY DEF IndInv, CoreTypes, Disconnect, Up
<1>1. \A c \in Calls : Registered(c) => ~Held(c)
  <2> SUFFICES ASSUME NEW c \in Calls, Registered(c), Held(c) PROVE FALSE
    OBVIOUS
  <2>1. CASE op[c].pc \in {"handshake", "insert"} /\ op[c].pi = c
    BY <1>0, <2>1 DEF Ownership, Makers, Making
  <2>2. ASSUME NEW d \in Calls, op[d].doomed = c
        PROVE  FALSE
    <3>1. c # None
      BY AgentAssumption
    <3> QED BY <1>0, <2>2, <3>1 DEF Ownership, Dooms
  <2> QED BY <2>1, <2>2 DEF Held
<1>2. "dropped" \in Pcs
  BY DEF Pcs, Ended
<1>3. ASSUME NEW c \in Calls
      PROVE  /\ op'[c] \in OpType /\ op'[c].id = op[c].id /\ op'[c].doomed = None
             /\ Running(c) => op'[c].pc = "dropped"
             /\ ~Running(c) => op'[c] = op[c]
             /\ op'[c].pc \notin {"handshake", "insert"}
  <2>1. op[c] \in OpType
    BY <1>0
  <2>2. CASE Running(c)
    <3>1. op'[c] = [op[c] EXCEPT !.pc = "dropped", !.doomed = None]
      BY <1>0, <2>2
    <3> QED BY <1>2, <2>1, <2>2, <3>1 DEF OpType
  <2>3. CASE ~Running(c)
    <3>1. op'[c] = op[c] /\ op[c].pc \in Ended \cup {"idle"}
      BY <1>0, <2>3 DEF Running
    <3>2. op[c].doomed = None
      BY <3>1, AtPc DEF Ended
    <3> QED BY <2>1, <2>3, <3>1, <3>2 DEF Ended
  <2> QED BY <2>2, <2>3
<1>4. CoreTypes'
  <2>1. op' = [c \in Calls |-> op'[c]]
    BY <1>0
  <2>2. op' \in [Calls -> OpType]
    BY <1>3, <2>1
  <2>3. phase' \in [Calls -> {"unborn", "alive", "exited", "disposed"}]
    BY <1>0 DEF CoreTypes
  <2> QED BY <1>0, <2>2, <2>3 DEF CoreTypes
<1>5. Unborn'
  <2> SUFFICES ASSUME NEW c \in Calls, Early(c)'
               PROVE  phase'[c] = "unborn"
    BY DEF Unborn
  <2>1. Early(c)
    BY <1>3 DEF Early, EarlyPcs
  <2> QED BY <1>0, <2>1 DEF Ownership, Unborn, Up
<1>6. Routes'
  BY <1>0, <1>3 DEF Ownership, Routes, Route, Running, Ended
<1>7. Makers'
  BY <1>3 DEF Makers, Making
<1>8. Serving'
  <2> SUFFICES ASSUME NEW s \in Ids, sessions[s] # None
               PROVE  phase'[sessions[s]] \in {"alive", "exited"} /\ op'[sessions[s]].id = s
    BY <1>0 DEF Serving, Up
  <2>1. sessions[s] \in Calls /\ Up(sessions[s]) /\ op[sessions[s]].id = s
    BY <1>0 DEF CoreTypes, Ownership, Serving
  <2>2. ~Held(sessions[s])
    BY <1>1, <2>1 DEF Registered
  <2> QED BY <1>0, <1>3, <2>1, <2>2 DEF Up
<1>9. Dooms'
  BY <1>3 DEF Dooms
<1>10. NoOrphan'
  BY <1>0 DEF Ownership, NoOrphan, Registered, Up
<1> QED BY <1>4, <1>5, <1>6, <1>7, <1>8, <1>9, <1>10 DEF Ownership

\* The sessions in the map go; the others that are up were held.
LEMMA DisposeAllStep ==
    ASSUME IndInv, DisposeAll
    PROVE  CoreTypes' /\ Ownership'
<1>0. /\ CoreTypes /\ Ownership /\ op' = op /\ op \in [Calls -> OpType]
      /\ sessions' = [s \in Ids |-> None]
      /\ phase' = [c \in Calls |-> IF Registered(c) THEN "disposed" ELSE phase[c]]
  BY DEF IndInv, CoreTypes, DisposeAll
<1>1. \A c \in Calls : Registered(c) => Up(c)
  BY <1>0, AgentAssumption DEF Ownership, Serving, Registered
<1>2. \A c \in Calls : ~(\E s \in Ids : sessions'[s] = c)
  BY <1>0, AgentAssumption
<1>3. CoreTypes'
  BY <1>0 DEF CoreTypes
<1>4. Unborn' /\ Routes'
  BY <1>0, <1>1 DEF Ownership, Unborn, Early, Routes, Route, Up
<1>5. Makers'
  BY <1>0, <1>2 DEF Ownership, Makers, Making, Up, Registered
<1>6. Serving'
  BY <1>0 DEF Serving
<1>7. Dooms'
  BY <1>0, <1>2 DEF Ownership, Dooms, Up, Registered, OpType
<1>8. NoOrphan'
  BY <1>0 DEF Ownership, NoOrphan, Held
<1> QED BY <1>3, <1>4, <1>5, <1>6, <1>7, <1>8 DEF Ownership

-------------------------------------------------------------------------------
(* The disk, the menus and the ghosts                                          *)

LEMMA RestTypesStep ==
    ASSUME IndInv, NEW c \in Calls,
           \/ \E k \in Kinds, s \in Ids \cup {None}, m \in AnyMenu : Start(c, k, s, m)
           \/ Advance(c)
    PROVE  RestTypes'
<1> DEFINE Menu == menus' \in [Ids -> AnyMenu]
<1>0. RestTypes /\ NoMenu \in AnyMenu /\ op[c] \in OpType /\ op[c].menu \in AnyMenu
  BY AtPc DEF IndInv, AnyMenu, OpType
<1>1. ASSUME NEW k \in Kinds, NEW s \in Ids \cup {None}, NEW m \in AnyMenu, Start(c, k, s, m)
      PROVE  RestTypes'
  BY <1>0, <1>1 DEF Start, RestTypes, disk, ghosts
<1>2. CASE Acquire(c)
  BY <1>0, <1>2 DEF Acquire, RestTypes, disk, ghosts
<1>3. CASE Manager(c)
  <2>1. CASE (\E s \in Ids : CloseRemove(c, s)) \/ CloseDispose(c) \/ Closed(c) \/ Sweep(c)
    BY <1>0, <2>1 DEF CloseRemove, CloseDispose, Closed, Sweep, RestTypes, disk, ghosts
  <2>2. CASE Forget(c)
    <3>1. op[c].id \in Ids
      BY <2>2, AtPc DEF Forget
    <3> QED BY <1>0, <2>2, <3>1 DEF Forget, RestTypes, disk, ghosts
  <2> QED BY <1>3, <2>1, <2>2 DEF Manager
<1>4. CASE Restore(c)
  <2>1. op[c].id \in Ids
    BY <1>4, AtPc DEF Restore, Lookup, Locate, Adopt, WrongDirectory, ReadMenu
  <2> QED BY <1>0, <1>4, <2>1
          DEF Restore, Lookup, Locate, Adopt, WrongDirectory, ReadMenu, Fail, RestTypes, disk, ghosts
<1>5. CASE SpawnSession(c)
  <2>1. CASE Spawn(c)
    BY <1>0, <2>1 DEF Spawn, RestTypes, disk, ghosts
  <2>2. CASE SpawnFails(c) \/ HandshakeOk(c) \/ HandshakeFails(c) \/ RestoreRefused(c) \/ Refused(c)
    BY <1>0, <2>2 DEF SpawnFails, HandshakeOk, HandshakeFails, RestoreRefused, Refused, Fail, RestTypes, disk, ghosts
  <2>3. CASE Insert(c) \/ Evict(c) \/ ModelsOk(c) \/ NewFails(c) \/ Erase(c) \/ GateOk(c)
    BY <1>0, <2>3 DEF Insert, Evict, ModelsOk, NewFails, Erase, GateOk, RestTypes, disk, ghosts
  <2>4. CASE Save(c) \/ Record(c)
    <3>1. op[c].id \in Ids
      BY <2>4, AtPc DEF Save, Record
    <3> QED BY <1>0, <2>4, <3>1 DEF Save, Record, RestTypes, disk, ghosts
  <2> QED BY <1>5, <2>1, <2>2, <2>3, <2>4 DEF SpawnSession
<1>6. CASE Use(c)
  <2>1. op[c].id \in Ids
    BY <1>6, AtPc DEF Use, Upsert, History, TurnOk, TurnHeadless, TurnFails, Persist, CheckFile,
                      WriteEntry
  <2> QED BY <1>0, <1>6, <2>1 DEF Use, Upsert, History, TurnOk, TurnHeadless, TurnFails, Persist,
                                  CheckFile, WriteEntry, RestTypes, disk, ghosts
<1>7. CASE Remove(c)
  <2>1. op[c].id \in Ids
    BY <1>7, AtPc DEF Remove, Unmenu, Look, Unlink, Unstore
  <2> QED BY <1>0, <1>7, <2>1 DEF Remove, Unmenu, Look, Unlink, Unstore, RestTypes, disk, ghosts
<1> QED BY <1>1, <1>2, <1>3, <1>4, <1>5, <1>6, <1>7 DEF Advance

-------------------------------------------------------------------------------
LEMMA InitInv == Init => IndInv
<1> SUFFICES ASSUME Init PROVE IndInv
  OBVIOUS
<1>1. op = [c \in Calls |-> Idle] /\ Idle \in OpType /\ Idle.doomed = None /\ Idle.pc = "idle"
  BY IdleType DEF Init, Idle
<1>2. CoreTypes /\ RestTypes
  BY <1>1, AgentAssumption DEF Init, CoreTypes, RestTypes, AnyMenu
<1>3. Unborn /\ Routes
  BY <1>1 DEF Init, Unborn, Routes, Route
<1>4. Makers /\ Dooms
  BY <1>1 DEF Makers, Making, Dooms
<1>5. Serving /\ NoOrphan
  BY DEF Init, Serving, NoOrphan
<1> QED BY <1>2, <1>3, <1>4, <1>5 DEF IndInv, Ownership

LEMMA NextInv == IndInv /\ [Next]_vars => IndInv'
<1> SUFFICES ASSUME IndInv, [Next]_vars PROVE IndInv'
  OBVIOUS
<1>1. ASSUME NEW c \in Calls, NEW k \in Kinds, NEW s \in Ids \cup {None}, NEW m \in AnyMenu,
             Start(c, k, s, m)
      PROVE  IndInv'
  BY <1>1, StartQuiet, QuietStep, RestTypesStep DEF IndInv
<1>2. ASSUME NEW c \in Calls, Advance(c)
      PROVE  IndInv'
  <2>1. ASSUME Acquire(c) \/ Restore(c) \/ Use(c) \/ Remove(c)
        PROVE  CoreTypes' /\ Ownership'
    BY <2>1, AcquireQuiet, RestoreQuiet, UseQuiet, RemoveQuiet, QuietStep
  <2>2. ASSUME Manager(c)
        PROVE  CoreTypes' /\ Ownership'
    BY <2>2, ManagerQuiet, QuietStep, CloseRemoveStep, DisposeStep DEF Manager
  <2>3. ASSUME SpawnSession(c)
        PROVE  CoreTypes' /\ Ownership'
    BY <2>3, SpawnSessionQuiet, HandshakeOkQuiet, QuietStep, SpawnStep, HandshakeFailsStep,
       InsertStep, DisposeStep DEF SpawnSession
  <2>4. CoreTypes' /\ Ownership'
    BY <1>2, <2>1, <2>2, <2>3 DEF Advance
  <2> QED BY <1>2, <2>4, RestTypesStep DEF IndInv
<1>3. ASSUME NEW c \in Calls, PiExits(c)
      PROVE  IndInv'
  <2>1. RestTypes'
    BY <1>3 DEF PiExits, IndInv, RestTypes, ghosts, disk
  <2> QED BY <1>3, <2>1, PiExitsStep DEF IndInv
<1>4. CASE Disconnect
  <2>1. RestTypes'
    BY <1>4 DEF Disconnect, IndInv, RestTypes, ghosts, disk
  <2> QED BY <1>4, <2>1, DisconnectStep DEF IndInv
<1>5. CASE DisposeAll
  <2>1. RestTypes'
    BY <1>5 DEF DisposeAll, IndInv, RestTypes, ghosts, disk, AnyMenu
  <2> QED BY <1>5, <2>1, DisposeAllStep DEF IndInv
<1>6. CASE UNCHANGED vars
  <2>1. /\ op' = op /\ sessions' = sessions /\ phase' = phase /\ store' = store /\ files' = files
        /\ menus' = menus /\ known' = known /\ gone' = gone /\ alone' = alone /\ down' = down
    BY <1>6 DEF vars, disk, ghosts
  <2>2. CoreTypes' /\ RestTypes'
    BY <2>1 DEF IndInv, CoreTypes, RestTypes
  <2>3. Unborn' /\ Routes' /\ Makers'
    BY <2>1 DEF IndInv, Ownership, Unborn, Early, Routes, Route, Makers, Making, Up, Registered
  <2>4. Serving' /\ Dooms' /\ NoOrphan'
    BY <2>1 DEF IndInv, Ownership, Serving, Dooms, NoOrphan, Up, Registered, Held
  <2> QED BY <2>2, <2>3, <2>4 DEF IndInv, Ownership
<1> QED BY <1>1, <1>2, <1>3, <1>4, <1>5, <1>6 DEF Next

LEMMA Inductive == Spec => []IndInv
BY InitInv, NextInv, PTL DEF Spec

\* The requests, the map of sessions and the disk keep their types whatever calls
\* overlap (agent.rs, AcpAgent; session/mod.rs, SessionManager).
THEOREM TypeCorrect == Spec => []TypeOK
<1>1. IndInv => TypeOK
  BY DEF IndInv, CoreTypes, RestTypes, TypeOK
<1> QED BY <1>1, Inductive, PTL

\* No step of a replacement, a failed handshake, a close or a shutdown loses the
\* last handle to a pi that runs (session/mod.rs:68-128).
THEOREM NoneOrphaned == Spec => []NoOrphan
<1>1. IndInv => NoOrphan
  BY DEF IndInv, Ownership
<1> QED BY <1>1, Inductive, PTL

\* The map hands out only sessions that were not disposed of, under their own id,
\* while closes, replacements and restores overlap (session/mod.rs:91-99).
THEOREM RegisteredWhole == Spec => []RegisteredIsWhole
<1>1. IndInv => RegisteredIsWhole
  BY DEF IndInv, Ownership, Serving, Up, RegisteredIsWhole
<1> QED BY <1>1, Inductive, PTL

\* A session taken out of the map is torn down by the one call that took it.
THEOREM TornDownOnce == Spec => []DoomedOnce
<1>1. IndInv => DoomedOnce
  BY DEF IndInv, Ownership, Dooms, DoomedOnce
<1> QED BY <1>1, Inductive, PTL

-------------------------------------------------------------------------------
(* The agent implements SessionDirectory                                       *)

Stages == [c \in Calls |-> StageOf(c)]

LEMMA StageNow ==
    ASSUME NEW c \in Calls
    PROVE  /\ phase[c] = "unborn" /\ ~Registered(c) => StageOf(c) = "unborn"
           /\ phase[c] = "disposed" /\ ~Registered(c) => StageOf(c) = "retired"
           /\ Up(c) /\ Registered(c) => StageOf(c) = "serving"
           /\ Up(c) /\ ~Registered(c) => StageOf(c) = "held"
BY DEF StageOf, Up

LEMMA StageNext ==
    ASSUME NEW c \in Calls
    PROVE  /\ phase'[c] = "unborn" /\ ~(\E s \in Ids : sessions'[s] = c) => StageOf(c)' = "unborn"
           /\ phase'[c] = "disposed" /\ ~(\E s \in Ids : sessions'[s] = c) => StageOf(c)' = "retired"
           /\ phase'[c] \in {"alive", "exited"} /\ (\E s \in Ids : sessions'[s] = c)
                => StageOf(c)' = "serving"
           /\ phase'[c] \in {"alive", "exited"} /\ ~(\E s \in Ids : sessions'[s] = c)
                => StageOf(c)' = "held"
BY DEF StageOf, Registered

\* A pi whose phase and place in the map are the same is at the same stage.
LEMMA StageKept ==
    ASSUME NEW c \in Calls,
           phase'[c] = phase[c] \/ (phase[c] = "alive" /\ phase'[c] = "exited"),
           Registered(c)' <=> Registered(c)
    PROVE  StageOf(c)' = StageOf(c)
BY DEF StageOf

\* One pi changes its stage.
LEMMA StageChange ==
    ASSUME NEW c \in Calls, NEW to, StageOf(c)' = to,
           \A d \in Calls : d # c => StageOf(d)' = StageOf(d)
    PROVE  Stages' = [Stages EXCEPT ![c] = to]
BY DEF Stages

LEMMA QuietMaps ==
    ASSUME sessions' = sessions,
           \A d \in Calls : phase'[d] = phase[d] \/ (phase[d] = "alive" /\ phase'[d] = "exited")
    PROVE  UNCHANGED <<Stages, sessions>>
<1>1. \A d \in Calls : StageOf(d)' = StageOf(d)
  BY StageKept DEF Registered
<1> QED BY <1>1 DEF Stages

\* The pi x goes out of hands and is retired.
LEMMA RetireMaps ==
    ASSUME CoreTypes, NEW x \in Calls, Up(x), ~Registered(x), sessions' = sessions,
           phase' = [phase EXCEPT ![x] = "disposed"]
    PROVE  Directory!Retire(x)
<1>1. phase'[x] = "disposed" /\ \A d \in Calls : d # x => phase'[d] = phase[d]
  BY DEF CoreTypes
<1>2. StageOf(x) = "held" /\ StageOf(x)' = "retired"
  BY <1>1, StageNow, StageNext DEF Registered
<1>3. \A d \in Calls : d # x => StageOf(d)' = StageOf(d)
  BY <1>1, StageKept DEF Registered
<1>4. Stages' = [Stages EXCEPT ![x] = "retired"] /\ Stages[x] = "held"
  BY <1>2, <1>3, StageChange DEF Stages
<1> QED BY <1>4 DEF Directory!Retire, Stages

LEMMA SpawnMaps ==
    ASSUME IndInv, NEW c \in Calls, Spawn(c)
    PROVE  Directory!Begin(c)
<1>0. /\ CoreTypes /\ Ownership /\ Early(c)
      /\ phase' = [phase EXCEPT ![c] = "alive"] /\ sessions' = sessions
  BY DEF IndInv, Spawn, Early, EarlyPcs
<1>1. phase[c] = "unborn" /\ ~Registered(c)
  BY <1>0, AgentAssumption DEF Ownership, Unborn, Serving, Registered, Up, CoreTypes
<1>2. phase'[c] = "alive" /\ \A d \in Calls : d # c => phase'[d] = phase[d]
  BY <1>0 DEF CoreTypes
<1>3. StageOf(c) = "unborn" /\ StageOf(c)' = "held"
  BY <1>0, <1>1, <1>2, StageNow, StageNext DEF Registered
<1>4. \A d \in Calls : d # c => StageOf(d)' = StageOf(d)
  BY <1>0, <1>2, StageKept DEF Registered
<1>5. Stages' = [Stages EXCEPT ![c] = "held"] /\ Stages[c] = "unborn"
  BY <1>3, <1>4, StageChange DEF Stages
<1> QED BY <1>0, <1>5 DEF Directory!Begin, Stages

LEMMA InsertMaps ==
    ASSUME IndInv, NEW c \in Calls, Insert(c)
    PROVE  op[c].id \in Ids /\ Directory!Serve(c, op[c].id)
<1> DEFINE id == op[c].id
<1>p. PICK old : old = sessions[id]
  OBVIOUS
<1>0. /\ CoreTypes /\ Ownership /\ op[c].pc = "insert" /\ id \in Ids
      /\ sessions' = [sessions EXCEPT ![id] = c] /\ phase' = phase
      /\ old \in Calls \cup {None} /\ None \notin Calls
  BY <1>p, AtPc, AgentAssumption DEF IndInv, CoreTypes, Insert
<1>1. Up(c) /\ ~Registered(c)
  BY <1>0 DEF Ownership, Makers, Making
<1>2. /\ sessions'[id] = c /\ \A s \in Ids : s # id => sessions'[s] = sessions[s]
  BY <1>0 DEF CoreTypes
<1>3. old # c /\ (old # None => Up(old)) /\ \A s \in Ids : s # id /\ sessions[s] # None => sessions[s] # old
  BY <1>0, <1>1, <1>p DEF Ownership, Serving, Registered
<1> HIDE DEF id
<1>4. StageOf(c) = "held" /\ StageOf(c)' = "serving"
  BY <1>0, <1>1, <1>2, StageNow, StageNext DEF Up
<1>5. ASSUME old # None
      PROVE  StageOf(old)' = "held"
  <2>1. old \in Calls /\ phase'[old] \in {"alive", "exited"}
    BY <1>0, <1>3, <1>5 DEF Up
  <2>2. \A s \in Ids : sessions'[s] # old
    BY <1>2, <1>3, <1>5
  <2> QED BY <2>1, <2>2, StageNext
<1>6. ASSUME NEW d \in Calls, d # c, d # old
      PROVE  StageOf(d)' = StageOf(d)
  <2>1. Registered(d)' <=> Registered(d)
    BY <1>0, <1>2, <1>6, <1>p DEF Registered
  <2> QED BY <1>0, <2>1, StageKept
<1>7. Stages' = [q \in Calls |-> CASE q = c -> "serving"
                                   [] q # c /\ q = old -> "held"
                                   [] OTHER -> Stages[q]]
  <2>1. ASSUME NEW q \in Calls
        PROVE  StageOf(q)' = CASE q = c -> "serving"
                               [] q # c /\ q = old -> "held"
                               [] OTHER -> Stages[q]
    <3>1. CASE q = c
      BY <1>4, <3>1
    <3>2. CASE q # c /\ q = old
      BY <1>0, <1>5, <3>2
    <3>3. CASE q # c /\ q # old
      BY <1>6, <3>3 DEF Stages
    <3> QED BY <3>1, <3>2, <3>3
  <2> QED BY <2>1 DEF Stages
<1>8. Stages[c] = "held"
  BY <1>4 DEF Stages
<1> QED BY <1>0, <1>7, <1>8, <1>p DEF Directory!Serve, Stages, id

LEMMA CloseRemoveMaps ==
    ASSUME IndInv, NEW c \in Calls, NEW s \in Ids, CloseRemove(c, s)
    PROVE  Directory!Withdraw(s) \/ UNCHANGED <<Stages, sessions>>
<1>p. PICK old : old = sessions[s]
  OBVIOUS
<1>0. /\ CoreTypes /\ Ownership /\ phase' = phase /\ sessions' = [sessions EXCEPT ![s] = None]
      /\ old \in Calls \cup {None} /\ None \notin Calls
  BY <1>p, AgentAssumption DEF IndInv, CoreTypes, CloseRemove
<1>1. CASE old = None
  <2>1. sessions' = sessions
    BY <1>0, <1>1, <1>p DEF CoreTypes
  <2> QED BY <1>0, <2>1, QuietMaps
<1>2. CASE old # None
  <2>1. /\ Up(old) /\ Registered(old) /\ old \in Calls
        /\ \A t \in Ids : t # s /\ sessions[t] # None => sessions[t] # old
    BY <1>0, <1>2, <1>p DEF Ownership, Serving, Registered
  <2>2. sessions'[s] = None /\ \A t \in Ids : t # s => sessions'[t] = sessions[t]
    BY <1>0 DEF CoreTypes
  <2>3. \A t \in Ids : sessions'[t] # old
    BY <1>2, <2>1, <2>2
  <2>4. StageOf(old)' = "held"
    BY <1>0, <2>1, <2>3, StageNext DEF Up
  <2>5. ASSUME NEW d \in Calls, d # old
        PROVE  StageOf(d)' = StageOf(d)
    <3>1. Registered(d)' <=> Registered(d)
      BY <1>0, <1>p, <2>2, <2>5 DEF Registered
    <3> QED BY <1>0, <3>1, StageKept
  <2>6. Stages' = [Stages EXCEPT ![old] = "held"]
    BY <2>1, <2>4, <2>5 DEF Stages
  <2> QED BY <1>0, <1>2, <1>p, <2>6 DEF Directory!Withdraw, Stages
<1> QED BY <1>1, <1>2

LEMMA DisposeMaps ==
    ASSUME IndInv, NEW c \in Calls, CloseDispose(c) \/ Evict(c)
    PROVE  \E x \in Calls : Directory!Retire(x)
<1>1. /\ CoreTypes /\ Ownership /\ sessions' = sessions /\ phase' = Kill(op[c].doomed)
      /\ op[c].doomed # None
  BY AtPc DEF IndInv, CloseDispose, Evict, Route
<1>2. op[c].doomed \in Calls /\ Up(op[c].doomed) /\ ~Registered(op[c].doomed)
  BY <1>1 DEF CoreTypes, OpType, Ownership, Dooms
<1>3. phase' = [phase EXCEPT ![op[c].doomed] = "disposed"]
  BY <1>1, <1>2 DEF Kill, Up
<1> QED BY <1>1, <1>2, <1>3, RetireMaps

LEMMA HandshakeFailsMaps ==
    ASSUME IndInv, NEW c \in Calls, HandshakeFails(c)
    PROVE  Directory!Retire(c)
<1>1. /\ CoreTypes /\ Up(c) /\ ~Registered(c) /\ sessions' = sessions
  BY DEF IndInv, HandshakeFails, Ownership, Makers, Making
<1>2. phase' = [phase EXCEPT ![c] = "disposed"]
  BY <1>1 DEF HandshakeFails, Kill, Up
<1> QED BY <1>1, <1>2, RetireMaps

LEMMA DisconnectMaps ==
    ASSUME IndInv, Disconnect
    PROVE  Directory!RetireHeld
<1>0. /\ CoreTypes /\ Ownership /\ sessions' = sessions
      /\ phase' = [c \in Calls |-> IF Held(c) /\ Up(c) THEN "disposed" ELSE phase[c]]
  BY DEF IndInv, Disconnect, Up
<1>1. ASSUME NEW c \in Calls
      PROVE  StageOf(c)' = IF StageOf(c) = "held" THEN "retired" ELSE StageOf(c)
  <2>1. CASE Up(c) /\ ~Registered(c)
    <3>1. Held(c)
      BY <1>0, <2>1 DEF Ownership, NoOrphan, Up
    <3>2. phase'[c] = "disposed"
      BY <1>0, <2>1, <3>1
    <3> QED BY <1>0, <2>1, <3>2, StageNow, StageNext DEF Registered
  <2>2. CASE Up(c) /\ Registered(c)
    <3>1. ~Held(c)
      <4>1. c # None
        BY AgentAssumption
      <4> QED BY <1>0, <2>2, <4>1 DEF Ownership, Makers, Making, Dooms, Held
    <3>2. phase'[c] = phase[c]
      BY <1>0, <3>1
    <3> QED BY <1>0, <2>2, <3>2, StageNow, StageKept DEF Registered
  <2>3. CASE phase[c] \in {"unborn", "disposed"}
    <3>1. phase'[c] = phase[c]
      BY <1>0, <2>3 DEF Up
    <3>2. ~Registered(c)
      BY <1>0, <2>3, AgentAssumption DEF Ownership, Serving, Registered, Up
    <3> QED BY <1>0, <2>3, <3>1, <3>2, StageNow, StageNext DEF Registered
  <2> QED BY <1>0, <2>1, <2>2, <2>3 DEF CoreTypes, Up
<1>2. Stages' = [c \in Calls |-> IF Stages[c] = "held" THEN "retired" ELSE Stages[c]]
  BY <1>1 DEF Stages
<1> QED BY <1>0, <1>2 DEF Directory!RetireHeld, Stages

LEMMA DisposeAllMaps ==
    ASSUME IndInv, DisposeAll
    PROVE  Directory!RetireServing
<1>0. /\ CoreTypes /\ Ownership /\ sessions' = [s \in Ids |-> None] /\ None \notin Calls
      /\ phase' = [c \in Calls |-> IF Registered(c) THEN "disposed" ELSE phase[c]]
  BY AgentAssumption DEF IndInv, DisposeAll
<1>1. ASSUME NEW c \in Calls
      PROVE  StageOf(c)' = IF StageOf(c) = "serving" THEN "retired" ELSE StageOf(c)
  <2>1. CASE Registered(c)
    <3>1. Up(c) /\ phase'[c] = "disposed" /\ ~(\E s \in Ids : sessions'[s] = c)
      BY <1>0, <2>1 DEF Ownership, Serving, Registered
    <3> QED BY <2>1, <3>1, StageNow, StageNext
  <2>2. CASE ~Registered(c)
    <3>1. phase'[c] = phase[c] /\ ~(\E s \in Ids : sessions'[s] = c)
      BY <1>0, <2>2
    <3>2. phase[c] \in {"unborn", "disposed"} \/ Up(c)
      BY <1>0 DEF CoreTypes, Up
    <3> QED BY <2>2, <3>1, <3>2, StageNow, StageNext DEF Up
  <2> QED BY <2>1, <2>2
<1>2. Stages' = [c \in Calls |-> IF Stages[c] = "serving" THEN "retired" ELSE Stages[c]]
  BY <1>1 DEF Stages
<1> QED BY <1>0, <1>2 DEF Directory!RetireServing, Stages

LEMMA InitMaps == Init => Directory!Init
<1> SUFFICES ASSUME Init PROVE Directory!Init
  OBVIOUS
<1>1. Stages = [c \in Calls |-> "unborn"]
  BY StageNow, AgentAssumption DEF Init, Stages, Registered
<1> QED BY <1>1 DEF Init, Directory!Init, Stages

LEMMA NextMaps ==
    ASSUME IndInv, [Next]_vars
    PROVE  [Directory!Next]_(<<Stages, sessions>>)
<1>1. ASSUME NEW c \in Calls, Quiet(c)
      PROVE  UNCHANGED <<Stages, sessions>>
  BY <1>1, QuietMaps DEF Quiet
<1>2. ASSUME NEW c \in Calls, NEW k \in Kinds, NEW s \in Ids \cup {None}, NEW m \in AnyMenu,
             Start(c, k, s, m)
      PROVE  UNCHANGED <<Stages, sessions>>
  BY <1>1, <1>2, StartQuiet
<1>3. ASSUME NEW c \in Calls, Acquire(c) \/ Restore(c) \/ Use(c) \/ Remove(c)
      PROVE  UNCHANGED <<Stages, sessions>>
  BY <1>1, <1>3, AcquireQuiet, RestoreQuiet, UseQuiet, RemoveQuiet
<1>4. ASSUME NEW c \in Calls, Manager(c)
      PROVE  [Directory!Next]_(<<Stages, sessions>>)
  BY <1>1, <1>4, ManagerQuiet, CloseRemoveMaps, DisposeMaps DEF Manager, Directory!Next
<1>5. ASSUME NEW c \in Calls, SpawnSession(c)
      PROVE  [Directory!Next]_(<<Stages, sessions>>)
  BY <1>1, <1>5, SpawnSessionQuiet, HandshakeOkQuiet, SpawnMaps, HandshakeFailsMaps, InsertMaps,
     DisposeMaps DEF SpawnSession, Directory!Next
<1>6. ASSUME NEW c \in Calls, PiExits(c)
      PROVE  UNCHANGED <<Stages, sessions>>
  <2>1. /\ sessions' = sessions
        /\ \A d \in Calls : phase'[d] = phase[d] \/ (phase[d] = "alive" /\ phase'[d] = "exited")
    BY <1>6 DEF PiExits, IndInv, CoreTypes
  <2> QED BY <2>1, QuietMaps
<1>7. CASE Disconnect \/ DisposeAll
  BY <1>7, DisconnectMaps, DisposeAllMaps DEF Directory!Next
<1>8. CASE UNCHANGED vars
  BY <1>8, QuietMaps DEF vars
<1> QED BY <1>2, <1>3, <1>4, <1>5, <1>6, <1>7, <1>8 DEF Next, Advance

\* The agent's handlers and its map implement the directory: a pi begins in hands,
\* serves once, and is retired once and only out of somebody's hands, for any
\* requests (session/mod.rs, SessionManager; agent.rs).
THEOREM Implements == Spec => ImplementsDirectory
<1>1. IndInv /\ [Next]_vars => [Directory!Next]_(<<Stages, sessions>>)
  BY NextMaps
<1>2. <<Stages, sessions>> = <<[c \in Calls |-> StageOf(c)], sessions>>
  BY DEF Stages
<1>3. IndInv /\ [Next]_vars => [Directory!Next]_(Directory!directoryVars)
  BY <1>1 DEF Stages, Directory!directoryVars
<1> QED BY InitMaps, <1>3, Inductive, PTL DEF Spec, ImplementsDirectory, Directory!Spec

-------------------------------------------------------------------------------
(* What a request leaves behind.  Handlers run one at a time, the id of a      *)
(* session/new belongs to no other request until it is answered, and a call    *)
(* counts as alone only while no other call works with its session: so nothing *)
(* writes an entry or a menu behind the call that removes it, and who enters a *)
(* session behind a deletion overlapped it.                                    *)

NewPath == {"idle", "lock", "spawn", "handshake", "insert", "evict", "models", "gate", "save",
            "sweep", "forget", "closing", "erase"}
UsePath == {"find", "adopt", "lookup", "locate", "relocate", "menu", "spawn", "handshake", "insert",
            "evict", "gate", "refused", "closing", "record", "upsert", "history", "turn", "persist",
            "check", "write"}
LoadPath == UsePath \cup {"lock", "sweep", "forget"}
DeletePath == {"unmenu", "look", "unlink", "closing", "unstore"}

\* The places a request of each kind can be at, and where it goes from a close.
OnPath(c) ==
    /\ op[c].kind = "new" => /\ op[c].pc \in NewPath \cup Ended
                             /\ op[c].pc = "closing" => op[c].then \in {"forget", "erase"}
    /\ op[c].kind = "load" => /\ op[c].pc \in LoadPath \cup Ended
                              /\ op[c].pc = "closing" => op[c].then \in {"sweep", "forget", "refused"}
    /\ op[c].kind \in {"prompt", "mode"} => /\ op[c].pc \in UsePath \cup Ended
                                            /\ op[c].pc = "closing" => op[c].then = "refused"
    /\ op[c].kind = "close" => /\ op[c].pc \in {"closing", "unmenu"} \cup Ended
                               /\ op[c].pc = "closing" => op[c].then = "unmenu"
    /\ op[c].kind = "delete" => /\ op[c].pc \in DeletePath \cup Ended
                                /\ op[c].pc = "closing" => op[c].then = "unstore"
    /\ op[c].pc = "closing" /\ op[c].then # "forget" => op[c].todo \subseteq {op[c].id}

\* Only session/new works with an id the client does not know, and with one of its own.
Told(c) == op[c].kind # "new" => op[c].id \in known
Minted(c) == op[c].kind = "new" =>
    /\ op[c].pc \in {"idle", "lock", "spawn"} => op[c].id = None
    /\ op[c].pc # "ok" /\ op[c].id # None =>
         op[c].id \notin known /\ \A d \in Calls : d # c => op[d].id # op[c].id

\* A session/new that has not entered its session yet, or has taken it back.
Unwritten(c) ==
    op[c].kind = "new" /\ op[c].id # None
    /\ \/ op[c].pc \in {"handshake", "insert", "evict", "models", "gate", "erase", "error"}
       \/ op[c].pc = "closing" /\ op[c].then = "erase"
    => op[c].id \notin store /\ menus[op[c].id] = NoMenu
Stopped(c) == op[c].kind = "new" /\ op[c].pc = "error" => phase[c] \in {"unborn", "disposed"}

AskedFor(c) == op[c].kind = "load" /\ Running(c) => op[c].id \notin gone
Menuless(c) ==
    op[c].kind = "delete" /\ op[c].pc \in {"look", "unlink", "closing", "unstore"}
    => menus[op[c].id] = NoMenu

\* A prompt dooms only pis of its own session.
DoomsOwn(c) == op[c].kind = "prompt" /\ op[c].doomed # None => op[op[c].doomed].id = op[c].id

\* A call that closed its session to remove it finds the map still without it, or
\* with a session that was entered by a call that overlapped it.
Emptied(c) ==
    \/ op[c].pc \in {"erase", "unstore"}
    \/ op[c].pc = "closing" /\ op[c].then \in {"erase", "unstore"} /\ op[c].id \notin op[c].todo
Shut(c) == Emptied(c) /\ sessions[op[c].id] # None =>
    op[c].kind # "new" /\ c \notin alone /\ sessions[op[c].id] \notin alone
Alone(c) ==
    /\ c \in alone /\ Running(c)
         => \A d \in Calls : d # c /\ Running(d) => op[d].id # op[c].id
    /\ op[c].pc = "idle" => c \notin alone

Handling(c) == Running(c) /\ op[c].kind \in Handlers
OneHandler == \A c, d \in Calls : Handling(c) /\ Handling(d) => c = d
Traces ==
    /\ gone \subseteq known
    /\ \A s \in Ids : s \in store \/ menus[s] # NoMenu => s \in known \/ \E d \in Calls : op[d].id = s

Clean(c) ==
    /\ OnPath(c) /\ Told(c) /\ Minted(c) /\ Unwritten(c) /\ Stopped(c) /\ AskedFor(c)
    /\ Menuless(c) /\ DoomsOwn(c) /\ Shut(c) /\ Alone(c)
CleanInv == (\A c \in Calls : Clean(c)) /\ OneHandler /\ Traces /\ GoneHasNoMenu

\* What a step of c leaves alone: the other calls, and what they rely on.
Apart(c) ==
    /\ \A d \in Calls : d # c => op'[d] = op[d]
    /\ \A d \in Calls : d # c /\ phase[d] \in {"unborn", "disposed"} => phase'[d] = phase[d]
    /\ op'[c].id = op[c].id \/ phase[c] = "unborn"
    /\ known \subseteq known' /\ known' \subseteq known \cup {op[c].id}
    /\ store' \subseteq store \cup {op[c].id}
    /\ \A s \in Ids : menus'[s] # NoMenu => menus'[s] = menus[s] \/ (s = op[c].id /\ Handling(c))
    /\ \A s \in gone' : s \in gone \/ Handling(c)
    /\ \A s \in Ids : sessions'[s] # None =>
         sessions'[s] = sessions[s] \/ (s = op[c].id /\ Running(c) /\ sessions'[s] = c)
    /\ alone' \subseteq alone \cup {c}
    /\ c \in alone' => c \in alone \/ (op[c].pc = "idle" /\ phase[c] = "unborn")
    /\ \A d \in Calls : d # c =>
         \/ op'[c].id = op[c].id /\ (Running(c)' => Running(c))
         \/ /\ op[d].kind = "new" /\ op[d].id # None /\ op[d].pc # "ok" => op'[c].id # op[d].id
            /\ d \in alone' /\ Running(d) => op'[c].id # op[d].id

LEMMA OthersStayClean ==
    ASSUME IndInv, CleanInv, NEW c \in Calls, Apart(c), NEW d \in Calls, d # c
    PROVE  Clean(d)'
<1>0. /\ op'[d] = op[d] /\ Clean(d) /\ op[d] \in OpType /\ None \notin Calls
      /\ (Running(d)' <=> Running(d))
      /\ op[d].doomed # None => op[d].doomed \in Calls
  BY AgentAssumption DEF Apart, CleanInv, IndInv, CoreTypes, Running, OpType
<1>1. OnPath(d)'
  BY <1>0 DEF Clean, OnPath
<1>2. Told(d)'
  BY <1>0 DEF Clean, Told, Apart
<1>3. Minted(d)'
  <2> SUFFICES ASSUME op[d].kind = "new"
               PROVE  /\ op[d].pc \in {"idle", "lock", "spawn"} => op[d].id = None
                      /\ op[d].pc # "ok" /\ op[d].id # None =>
                           op[d].id \notin known' /\ \A e \in Calls : e # d => op'[e].id # op[d].id
    BY <1>0 DEF Minted
  <2>1. op[d].pc \in {"idle", "lock", "spawn"} => op[d].id = None
    BY <1>0 DEF Clean, Minted
  <2>2. ASSUME op[d].pc # "ok", op[d].id # None
        PROVE  op[d].id \notin known' /\ \A e \in Calls : e # d => op'[e].id # op[d].id
    <3>1. op[d].id \notin known /\ \A e \in Calls : e # d => op[e].id # op[d].id
      BY <1>0, <2>2 DEF Clean, Minted
    <3>2. op[d].id \notin known'
      BY <3>1 DEF Apart
    <3>3. op'[c].id # op[d].id
      BY <2>2, <3>1 DEF Apart
    <3> QED BY <3>1, <3>2, <3>3 DEF Apart
  <2> QED BY <2>1, <2>2
<1>4. Unwritten(d)'
  <2> SUFFICES ASSUME op[d].kind = "new", op[d].id # None,
                      \/ op[d].pc \in {"handshake", "insert", "evict", "models", "gate", "erase", "error"}
                      \/ op[d].pc = "closing" /\ op[d].then = "erase"
               PROVE  op[d].id \notin store' /\ menus'[op[d].id] = NoMenu
    BY <1>0 DEF Unwritten
  <2>1. op[d].id \notin store /\ menus[op[d].id] = NoMenu
    BY <1>0 DEF Clean, Unwritten
  <2>2. op[d].id # op[c].id /\ op[d].id \in Ids
    BY <1>0 DEF Clean, Minted, OpType
  <2> QED BY <2>1, <2>2 DEF Apart
<1>5. Stopped(d)'
  BY <1>0 DEF Clean, Stopped, Apart
<1>6. AskedFor(d)'
  <2> SUFFICES ASSUME op[d].kind = "load", Running(d) PROVE op[d].id \notin gone'
    BY <1>0 DEF AskedFor
  <2>1. Handling(d) /\ op[d].id \notin gone
    BY <1>0 DEF Clean, AskedFor, Handling, Handlers, Kinds
  <2> QED BY <2>1 DEF Apart, CleanInv, OneHandler
<1>7. Menuless(d)'
  <2> SUFFICES ASSUME op[d].kind = "delete", op[d].pc \in {"look", "unlink", "closing", "unstore"}
               PROVE  menus'[op[d].id] = NoMenu
    BY <1>0 DEF Menuless
  <2>1. menus[op[d].id] = NoMenu /\ op[d].id \in Ids
    BY <1>0, AtPc DEF Clean, Menuless
  <2>2. Handling(d)
    BY DEF Handling, Handlers, Kinds, Running, Ended
  <2> QED BY <2>1, <2>2 DEF Apart, CleanInv, OneHandler
<1>8. DoomsOwn(d)'
  <2> SUFFICES ASSUME op[d].kind = "prompt", op[d].doomed # None
               PROVE  op'[op[d].doomed].id = op[d].id
    BY <1>0 DEF DoomsOwn
  <2>1. op[op[d].doomed].id = op[d].id /\ Up(op[d].doomed)
    BY <1>0 DEF Clean, DoomsOwn, IndInv, Ownership, Dooms
  <2> QED BY <1>0, <2>1 DEF Apart, Up
<1>9. Shut(d)'
  <2> SUFFICES ASSUME Emptied(d), sessions'[op[d].id] # None
               PROVE  op[d].kind # "new" /\ d \notin alone' /\ sessions'[op[d].id] \notin alone'
    BY <1>0 DEF Shut, Emptied
  <2>1. /\ Running(d) /\ op[d].id \in Ids /\ op[d].id # None
        /\ op[d].kind \in {"new", "delete"} /\ op[d].pc # "ok"
    <3>1. op[d].pc \in {"erase", "unstore", "closing"}
      BY DEF Emptied
    <3>2. op[d].id \in Ids
      BY <3>1, AtPc
    <3>3. op[d].kind \in {"new", "delete"}
      <4>1. op[d].kind \in Kinds
        BY <1>0 DEF OpType
      <4> QED BY <1>0, <4>1 DEF Clean, OnPath, Emptied, Kinds, Ended, LoadPath, UsePath
    <3> QED BY <3>1, <3>2, <3>3, AgentAssumption DEF Apart, Running, Ended
  <2>2. d \notin alone => d \notin alone'
    BY DEF Apart
  <2>3. CASE sessions'[op[d].id] = sessions[op[d].id]
    <3>1. op[d].kind # "new" /\ d \notin alone /\ sessions[op[d].id] \notin alone
      BY <1>0, <2>3 DEF Clean, Shut
    <3>2. sessions[op[d].id] \in Calls /\ Up(sessions[op[d].id])
      BY <2>1, <2>3 DEF IndInv, CoreTypes, Ownership, Serving
    <3>3. sessions[op[d].id] \notin alone'
      BY <3>1, <3>2 DEF Apart, Up
    <3> QED BY <2>2, <2>3, <3>1, <3>3
  <2>4. CASE sessions'[op[d].id] # sessions[op[d].id]
    <3>1. op[d].id = op[c].id /\ Running(c) /\ sessions'[op[d].id] = c
      BY <2>1, <2>4 DEF Apart
    <3>2. op[d].kind # "new"
      BY <1>0, <2>1, <3>1 DEF Clean, Minted
    <3>3. c \notin alone /\ d \notin alone
      BY <1>0, <2>1, <3>1 DEF CleanInv, Clean, Alone
    <3>4. c \notin alone'
      BY <3>1, <3>3 DEF Apart, Running
    <3> QED BY <2>2, <3>1, <3>2, <3>3, <3>4
  <2> QED BY <2>3, <2>4
<1>10. Alone(d)'
  <2>0. op[d].pc = "idle" => d \notin alone'
    BY <1>0 DEF Apart, Clean, Alone
  <2> SUFFICES ASSUME d \in alone', Running(d),
                      NEW e \in Calls, e # d, Running(e)'
               PROVE  op'[e].id # op[d].id
    BY <1>0, <2>0 DEF Alone
  <2>1. d \in alone
    BY DEF Apart
  <2>2. CASE e # c
    BY <1>0, <2>1, <2>2 DEF Apart, Clean, Alone, Running
  <2>3. CASE e = c
    BY <1>0, <2>1, <2>3 DEF Apart, Clean, Alone
  <2> QED BY <2>2, <2>3
<1> QED BY <1>1, <1>2, <1>3, <1>4, <1>5, <1>6, <1>7, <1>8, <1>9, <1>10 DEF Clean

\* A step of a running call that keeps its kind and its id.
Plain(c) ==
    /\ Running(c) /\ Moves(c) /\ op'[c].kind = op[c].kind /\ op'[c].id = op[c].id
    /\ op'[c].pc # "idle"
    /\ \A d \in Calls : d # c /\ phase[d] \in {"unborn", "disposed"} => phase'[d] = phase[d]
    /\ known' = known \/ (known' = known \cup {op[c].id} /\ op'[c].pc = "ok")
    /\ store' \subseteq store \cup {op[c].id}
    /\ \A s \in Ids : menus'[s] # NoMenu =>
         menus'[s] = menus[s] \/ (s = op[c].id /\ op[c].kind \in {"new", "load"})
    /\ \/ gone' = gone
       \/ /\ gone' = gone \cup {op[c].id} /\ menus'[op[c].id] = NoMenu
          /\ op[c].kind \in {"close", "delete"}
    /\ \A s \in Ids : sessions'[s] # None =>
         sessions'[s] = sessions[s] \/ (s = op[c].id /\ sessions'[s] = c)
    /\ alone' = alone

LEMMA PlainStep ==
    ASSUME IndInv, CleanInv, NEW c \in Calls, Plain(c), OnPath(c)', DoomsOwn(c)',
           op'[c].pc \in {"idle", "lock", "spawn"} => op[c].kind # "new" \/ op[c].id = None,
           Unwritten(c)', Stopped(c)', Menuless(c)', Shut(c)'
    PROVE  CleanInv'
<1>0. /\ Running(c) /\ op'[c].kind = op[c].kind /\ op'[c].id = op[c].id /\ Clean(c)
      /\ op \in [Calls -> OpType] /\ \A d \in Calls : d # c => op'[d] = op[d]
  BY DEF Plain, Moves, CleanInv, IndInv, CoreTypes
<1>1. op[c].kind \in {"new", "load", "close", "delete"} => Handling(c)
  BY <1>0 DEF Handling, Handlers, Kinds
<1>2. Apart(c)
  BY <1>0, <1>1 DEF Plain, Apart
<1>3. Told(c)' /\ AskedFor(c)'
  BY <1>0 DEF Plain, Clean, Told, AskedFor
<1>4. Minted(c)'
  <2>1. op[c].pc # "ok"
    BY <1>0 DEF Running, Ended
  <2> QED BY <1>0, <2>1 DEF Plain, Clean, Minted
<1>5. Alone(c)'
  <2> SUFFICES ASSUME c \in alone, NEW d \in Calls, d # c, Running(d)'
               PROVE  op'[d].id # op[c].id
    BY <1>0 DEF Alone, Plain
  <2>1. op'[d] = op[d] /\ Running(d)
    BY <1>0 DEF Running
  <2> QED BY <1>0, <2>1 DEF Clean, Alone
<1>6. Clean(c)'
  BY <1>3, <1>4, <1>5 DEF Clean
<1>7. \A d \in Calls : Clean(d)'
  BY <1>2, <1>6, OthersStayClean
<1>8. OneHandler'
  <2>1. \A d \in Calls : Handling(d)' => Handling(d)
    BY <1>0 DEF Handling, Running
  <2> QED BY <2>1 DEF OneHandler, CleanInv
<1>9. Traces'
  <2>1. \A d \in Calls : op'[d].id = op[d].id
    BY <1>0
  <2>2. gone' \subseteq known'
    BY <1>0 DEF CleanInv, Traces, Plain, Clean, Told
  <2>3. ASSUME NEW s \in Ids, s \in store' \/ menus'[s] # NoMenu
        PROVE  s \in known' \/ \E d \in Calls : op'[d].id = s
    <3>1. s \in store \/ menus[s] # NoMenu \/ s = op[c].id
      BY <2>3 DEF Plain
    <3>2. s \in known \/ \E d \in Calls : op[d].id = s
      BY <3>1 DEF CleanInv, Traces
    <3> QED BY <2>1, <3>2 DEF Plain
  <2> QED BY <2>2, <2>3 DEF Traces
<1>10. GoneHasNoMenu'
  <2> SUFFICES ASSUME NEW s \in gone' PROVE menus'[s] = NoMenu
    BY DEF GoneHasNoMenu
  <2>1. CASE s \in gone
    <3>1. menus[s] = NoMenu /\ s \in known /\ s \in Ids
      BY <2>1 DEF CleanInv, GoneHasNoMenu, Traces, IndInv, RestTypes
    <3>2. ~(s = op[c].id /\ op[c].kind \in {"new", "load"})
      <4>1. op[c].pc # "ok"
        BY <1>0 DEF Running, Ended
      <4>2. s # None
        BY <3>1, AgentAssumption
      <4> QED BY <1>0, <2>1, <3>1, <4>1, <4>2 DEF Clean, Minted, AskedFor
    <3> QED BY <3>1, <3>2 DEF Plain
  <2>2. CASE s \notin gone
    BY <2>2 DEF Plain
  <2> QED BY <2>1, <2>2
<1> QED BY <1>7, <1>8, <1>9, <1>10 DEF CleanInv

\* A call of a kind that makes and removes no session only has to stay on its path.
LEMMA OnPathStep ==
    ASSUME IndInv, CleanInv, NEW c \in Calls, Plain(c), op[c].kind \in {"load", "prompt", "mode", "close"},
           OnPath(c)', DoomsOwn(c)'
    PROVE  CleanInv'
<1>1. op'[c].kind \in {"load", "prompt", "mode", "close"}
  BY DEF Plain
<1>2. Unwritten(c)' /\ Stopped(c)' /\ Menuless(c)'
  BY <1>1 DEF Unwritten, Stopped, Menuless
<1>3. ~Emptied(c)'
  BY <1>1 DEF OnPath, Emptied, LoadPath, UsePath, Ended
<1>4. Shut(c)'
  BY <1>3 DEF Shut
<1> QED BY <1>1, <1>2, <1>4, PlainStep

\* The kinds of call there are, and what a handler of each is.
LEMMA Here ==
    ASSUME IndInv, CleanInv, NEW c \in Calls
    PROVE  /\ op \in [Calls -> OpType] /\ op[c] \in OpType /\ Clean(c) /\ Route(c)
           /\ op[c].kind \in {"new", "load", "prompt", "mode", "close", "delete"}
           /\ c # None /\ None \notin Ids
BY AtPc, AgentAssumption DEF CleanInv, IndInv, CoreTypes, OpType, Kinds

\* A step that only moves a call on, or only its call and what it owns on disk.
Still(c) == /\ UNCHANGED <<sessions, phase, known, gone, alone>>
            /\ store' \subseteq store \cup {op[c].id}
            /\ \A s \in Ids : menus'[s] # NoMenu => menus'[s] = menus[s]

LEMMA GotoPlain ==
    ASSUME IndInv, CleanInv, NEW c \in Calls, NEW p \in Pcs \ {"idle", "closing"}, Goto(c, p), Running(c),
           op[c].doomed = None
    PROVE  /\ Moves(c) /\ op'[c].kind = op[c].kind /\ op'[c].id = op[c].id /\ op'[c].pc = p
           /\ op'[c].then = op[c].then /\ DoomsOwn(c)' /\ (Still(c) => Plain(c))
<1>1. op \in [Calls -> OpType]
  BY Here
<1>2. /\ Moves(c) /\ op'[c].kind = op[c].kind /\ op'[c].id = op[c].id /\ op'[c].pc = p
      /\ op'[c].then = op[c].then /\ op'[c].doomed = None
  BY <1>1 DEF Goto, Moves, OpType
<1> QED BY <1>2 DEF Still, Plain, DoomsOwn

LEMMA ClosePlain ==
    ASSUME IndInv, CleanInv, NEW c \in Calls, NEW ids \in SUBSET Ids, NEW p \in Pcs,
           op' = GoClose(c, ids, p), Running(c), op[c].doomed = None
    PROVE  /\ Moves(c) /\ op'[c].kind = op[c].kind /\ op'[c].id = op[c].id /\ op'[c].pc = "closing"
           /\ op'[c].then = p /\ op'[c].todo = ids /\ DoomsOwn(c)' /\ (Still(c) => Plain(c))
<1>1. op \in [Calls -> OpType] /\ "closing" \in Pcs
  BY Here DEF Pcs
<1> DEFINE r == [op[c] EXCEPT !.pc = "closing", !.todo = ids, !.then = p]
<1>3. r \in OpType /\ r.pc = "closing" /\ r.todo = ids /\ r.then = p /\ r.doomed = None
      /\ r.kind = op[c].kind /\ r.id = op[c].id
  BY <1>1 DEF OpType
<1>4. op' = [op EXCEPT ![c] = r]
  BY <1>1 DEF GoClose, OpType
<1> HIDE DEF r
<1>2. /\ Moves(c) /\ op'[c].kind = op[c].kind /\ op'[c].id = op[c].id /\ op'[c].pc = "closing"
      /\ op'[c].then = p /\ op'[c].todo = ids /\ op'[c].doomed = None
  BY <1>1, <1>3, <1>4 DEF Moves
<1> QED BY <1>2 DEF Still, Plain, DoomsOwn

LEMMA Going == \A c \in Calls : op[c].pc \notin Ended \cup {"idle"} => Running(c)
BY DEF Running

\* The places of Use and of Restore are reached by a prompt, a mode and a load only.
LEMMA Using ==
    ASSUME IndInv, CleanInv, NEW c \in Calls,
           op[c].pc \in {"find", "adopt", "lookup", "locate", "relocate", "menu", "refused", "record",
                         "upsert", "history", "turn", "persist", "check", "write"}
    PROVE  /\ op[c].kind \in {"load", "prompt", "mode"} /\ Running(c) /\ op[c].doomed = None
           /\ op[c].id \in Ids
BY Here, AtPc DEF Clean, OnPath, NewPath, DeletePath, Ended, Running

LEMMA UsingGoto ==
    ASSUME IndInv, CleanInv, NEW c \in Calls, op[c].kind \in {"load", "prompt", "mode"}, Running(c),
           op[c].doomed = None, NEW p \in (UsePath \ {"closing"}) \cup Ended, Goto(c, p), Still(c)
    PROVE  CleanInv'
<1>1. p \in Pcs \ {"idle", "closing"}
  BY DEF UsePath, Pcs, Ended
<1>2. Plain(c) /\ DoomsOwn(c)' /\ op'[c].kind = op[c].kind /\ op'[c].pc = p
  BY <1>1, GotoPlain
<1>3. OnPath(c)'
  BY <1>1, <1>2 DEF OnPath, LoadPath
<1> QED BY <1>2, <1>3, OnPathStep

LEMMA FailStill ==
    ASSUME IndInv, NEW c \in Calls, Fail(c)
    PROVE  Still(c)
BY DEF Fail, Still, IndInv, RestTypes, disk, ghosts

LEMMA UseClean ==
    ASSUME IndInv, CleanInv, NEW c \in Calls, Use(c)
    PROVE  CleanInv'
<1>1. /\ op[c].pc \in {"upsert", "history", "turn", "persist", "check", "write"}
      /\ \E p \in {"history", "ok", "error", "persist", "check", "write"} : Goto(c, p)
  BY DEF Use, Upsert, History, TurnOk, TurnHeadless, TurnFails, Persist, CheckFile, WriteEntry
<1>2. Still(c)
  BY DEF Use, Upsert, History, TurnOk, TurnHeadless, TurnFails, Persist, CheckFile, WriteEntry,
         Still, ghosts, disk
<1> QED BY <1>1, <1>2, Using, UsingGoto DEF UsePath, Ended

LEMMA RestoreClean ==
    ASSUME IndInv, CleanInv, NEW c \in Calls, Restore(c)
    PROVE  CleanInv'
<1>1. op[c].pc \in {"lookup", "find", "locate", "relocate", "adopt", "menu"}
  BY DEF Restore, Lookup, Locate, Adopt, WrongDirectory, ReadMenu
<1>2. /\ op[c].kind \in {"load", "prompt", "mode"} /\ Running(c) /\ op[c].doomed = None
      /\ op[c].id \in Ids
  BY <1>1, Using
<1>3. Still(c)
  BY FailStill DEF Restore, Lookup, Locate, Adopt, WrongDirectory, ReadMenu, Still, ghosts, disk
<1>4. ASSUME NEW p \in {"lookup", "menu", "error", "find", "relocate"}, Goto(c, p)
      PROVE  CleanInv'
  BY <1>2, <1>3, <1>4, UsingGoto DEF UsePath, Ended
<1>5. ASSUME Moves(c), op'[c].kind = op[c].kind, op'[c].id = op[c].id, op'[c].doomed = None,
             op'[c].pc \in {"adopt", "spawn", "locate", "upsert", "turn"}
      PROVE  CleanInv'
  <2>1. Plain(c) /\ DoomsOwn(c)'
    BY <1>2, <1>3, <1>5 DEF Plain, Still, DoomsOwn
  <2>2. OnPath(c)'
    BY <1>2, <1>5 DEF OnPath, LoadPath, UsePath
  <2> QED BY <1>2, <2>1, <2>2, OnPathStep
<1>6. op \in [Calls -> OpType] /\ sessions \in [Ids -> Calls \cup {None}] /\ menus \in [Ids -> AnyMenu]
  BY DEF IndInv, CoreTypes, RestTypes
<1>7. {"adopt", "spawn", "locate", "upsert", "turn"} \subseteq Pcs
  BY DEF Pcs
<1>8. CASE Lookup(c)
  <2> DEFINE live == sessions[op[c].id]
             p == CASE live = None -> "locate" [] op[c].kind = "load" -> "upsert" [] OTHER -> "turn"
  <2>1. op' = [op EXCEPT ![c].pi = live, ![c].pc = p]
    BY <1>8 DEF Lookup
  <2>2. p \in {"locate", "upsert", "turn"} /\ live \in Calls \cup {None}
    BY <1>2, <1>6
  <2> HIDE DEF live, p
  <2> DEFINE r == [op[c] EXCEPT !.pi = live, !.pc = p]
  <2>3. r \in OpType /\ r.pc = p /\ r.doomed = None /\ r.kind = op[c].kind /\ r.id = op[c].id
    BY <1>2, <1>6, <1>7, <2>2 DEF OpType
  <2>4. op' = [op EXCEPT ![c] = r]
    BY <1>6, <2>1 DEF OpType
  <2> HIDE DEF r
  <2>5. Moves(c) /\ op'[c] = r
    BY <1>6, <2>3, <2>4 DEF Moves
  <2> QED BY <1>5, <2>2, <2>3, <2>5
<1>9. CASE Locate(c)
  <2>1. \/ \E p \in {"lookup", "menu", "error"} : Goto(c, p)
        \/ op' = [op EXCEPT ![c].pc = "adopt", ![c].then = op[c].pc]
    BY <1>9 DEF Locate, Fail
  <2>2. ASSUME op' = [op EXCEPT ![c].pc = "adopt", ![c].then = op[c].pc]
        PROVE  CleanInv'
    <3> DEFINE r == [op[c] EXCEPT !.pc = "adopt", !.then = op[c].pc]
    <3>1. op[c] \in OpType /\ op[c].pc \in Pcs
      BY <1>6 DEF OpType
    <3>2. r \in OpType /\ r.pc = "adopt" /\ r.doomed = None /\ r.kind = op[c].kind /\ r.id = op[c].id
      BY <1>2, <1>7, <3>1 DEF OpType
    <3>3. op' = [op EXCEPT ![c] = r]
      BY <1>6, <2>2 DEF OpType
    <3> HIDE DEF r
    <3>4. Moves(c) /\ op'[c] = r
      BY <1>6, <3>2, <3>3 DEF Moves
    <3> QED BY <1>5, <3>2, <3>4
  <2> QED BY <1>4, <2>1, <2>2
<1>10. CASE Adopt(c) \/ WrongDirectory(c)
  <2>1. \E p \in {"find", "relocate", "error"} : Goto(c, p)
    BY <1>10 DEF Adopt, WrongDirectory
  <2> QED BY <1>4, <2>1
<1>11. CASE ReadMenu(c)
  <2>1. op' = [op EXCEPT ![c].menu = menus[op[c].id], ![c].pc = "spawn"] /\ menus[op[c].id] \in AnyMenu
    BY <1>2, <1>6, <1>11 DEF ReadMenu
  <2> DEFINE r == [op[c] EXCEPT !.menu = menus[op[c].id], !.pc = "spawn"]
  <2>2. r \in OpType /\ r.pc = "spawn" /\ r.doomed = None /\ r.kind = op[c].kind /\ r.id = op[c].id
    BY <1>2, <1>6, <1>7, <2>1 DEF OpType
  <2>3. op' = [op EXCEPT ![c] = r]
    BY <1>6, <2>1 DEF OpType
  <2> HIDE DEF r
  <2>4. Moves(c) /\ op'[c] = r
    BY <1>6, <2>2, <2>3 DEF Moves
  <2> QED BY <1>5, <2>2, <2>4
<1> QED BY <1>8, <1>9, <1>10, <1>11 DEF Restore

\* A step of a session/new, but for the one that mints its id.
LEMMA NewStep ==
    ASSUME IndInv, CleanInv, NEW c \in Calls, Plain(c), op[c].kind = "new", op[c].doomed = None \/ op'[c].doomed = None,
           op'[c].pc \in (NewPath \ {"idle", "lock"}) \cup Ended,
           op'[c].pc = "spawn" => op[c].id = None,
           op'[c].pc = "closing" => /\ op'[c].then \in {"forget", "erase"}
                                    /\ op'[c].then = "erase" => op'[c].todo \subseteq {op[c].id},
           Unwritten(c)', Stopped(c)', Shut(c)'
    PROVE  CleanInv'
<1>1. op'[c].kind = "new" /\ op'[c].id = op[c].id
  BY DEF Plain
<1>2. OnPath(c)' /\ Menuless(c)' /\ DoomsOwn(c)'
  BY <1>1 DEF OnPath, Menuless, DoomsOwn, NewPath
<1>3. op'[c].pc \in {"idle", "lock", "spawn"} => op[c].id = None
  BY DEF Ended
<1> QED BY <1>2, <1>3, PlainStep

\* Where only a session/new, and where only a session/new or a restored session can be.
LEMMA Opening ==
    ASSUME IndInv, CleanInv, NEW c \in Calls
    PROVE  /\ op[c].pc \in {"models", "save", "erase"} => op[c].kind = "new"
           /\ op[c].pc \in {"spawn", "handshake", "insert", "evict", "gate"}
                => op[c].kind \in {"new", "load", "prompt", "mode"}
           /\ op[c].pc \in {"lock", "sweep", "forget"} => op[c].kind \in {"new", "load"}
BY Here DEF Clean, OnPath, DeletePath, UsePath, LoadPath, Ended

LEMMA SpawnClean ==
    ASSUME IndInv, CleanInv, NEW c \in Calls, Spawn(c)
    PROVE  CleanInv'
<1>1. /\ op[c].pc = "spawn" /\ Running(c) /\ op[c].doomed = None /\ Clean(c)
      /\ op \in [Calls -> OpType] /\ op[c] \in OpType /\ "handshake" \in Pcs
      /\ phase' = [phase EXCEPT ![c] = "alive"] /\ phase \in [Calls -> {"unborn", "alive", "exited", "disposed"}]
      /\ UNCHANGED <<sessions, store, menus, known, gone, alone>> /\ phase[c] = "unborn"
  BY Here, Going, AtPc DEF Spawn, Ended, IndInv, CoreTypes, Ownership, Unborn, Early, EarlyPcs, Pcs,
     ghosts
<1>2. \A d \in Calls : d # c => phase'[d] = phase[d]
  BY <1>1
<1>3. CASE op[c].kind # "new"
  <2>1. op' = [op EXCEPT ![c].pi = c, ![c].pc = "handshake"]
    BY <1>3 DEF Spawn
  <2>2. /\ Moves(c) /\ op'[c].kind = op[c].kind /\ op'[c].id = op[c].id /\ op'[c].pc = "handshake"
        /\ op'[c].doomed = None
    BY <1>1, <2>1 DEF Moves, OpType
  <2>3. op[c].kind \in {"load", "prompt", "mode"}
    BY <1>1, <1>3, Opening
  <2>4. OnPath(c)' /\ DoomsOwn(c)'
    BY <2>2, <2>3 DEF OnPath, LoadPath, UsePath, DoomsOwn
  <2>5. Plain(c)
    BY <1>1, <1>2, <2>2 DEF Plain
  <2> QED BY <2>3, <2>4, <2>5, OnPathStep
<1>4. CASE op[c].kind = "new"
  <2>1. PICK s \in Ids \ known : /\ \A d \in Calls : op[d].id # s
                                 /\ op' = [op EXCEPT ![c].id = s, ![c].pi = c, ![c].pc = "handshake"]
    BY <1>4 DEF Spawn
  <2>2. /\ Moves(c) /\ op'[c].kind = "new" /\ op'[c].id = s /\ op'[c].pc = "handshake"
        /\ op'[c].doomed = None
    BY <1>1, <1>4, <2>1 DEF Moves, OpType
  <2>3. \A d \in Calls : d # c => op'[d] = op[d]
    BY <2>2 DEF Moves
  <2>4. Apart(c)
    BY <1>1, <1>2, <2>1, <2>2, <2>3 DEF Apart
  <2>5. s \notin store /\ menus[s] = NoMenu
    BY <2>1 DEF CleanInv, Traces
  <2>6. OnPath(c)' /\ Told(c)' /\ Stopped(c)' /\ AskedFor(c)' /\ Menuless(c)' /\ DoomsOwn(c)'
    BY <2>2 DEF OnPath, NewPath, Told, Stopped, AskedFor, Menuless, DoomsOwn
  <2>7. Shut(c)' /\ Alone(c)'
    BY <2>1, <2>2, <2>3 DEF Shut, Emptied, Alone
  <2>8. Minted(c)'
    BY <1>1, <2>1, <2>2, <2>3 DEF Minted
  <2>9. Unwritten(c)'
    BY <1>1, <2>2, <2>5 DEF Unwritten
  <2>10. \A d \in Calls : Clean(d)'
    BY <2>4, <2>6, <2>7, <2>8, <2>9, OthersStayClean DEF Clean
  <2>11. OneHandler'
    <3>1. \A d \in Calls : Handling(d)' => Handling(d)
      BY <1>1, <1>4, <2>2, <2>3 DEF Handling, Running
    <3> QED BY <3>1 DEF CleanInv, OneHandler
  <2>12. Traces'
    <3>1. \A d \in Calls, t \in Ids : op[d].id = t => op'[d].id = t
      <4>1. op[c].id = None
        BY <1>1, <1>4 DEF Clean, Minted
      <4> QED BY <2>3, <4>1, AgentAssumption
    <3> QED BY <1>1, <3>1 DEF CleanInv, Traces
  <2>13. GoneHasNoMenu'
    BY <1>1 DEF CleanInv, GoneHasNoMenu
  <2> QED BY <2>10, <2>11, <2>12, <2>13 DEF CleanInv
<1> QED BY <1>3, <1>4

\* A restore, or a session/new, that gets no pi.
LEMMA FailClean ==
    ASSUME IndInv, CleanInv, NEW c \in Calls, SpawnFails(c) \/ Refused(c)
    PROVE  CleanInv'
<1>1. /\ op[c].pc \in {"spawn", "refused"} /\ Goto(c, "error") /\ Running(c) /\ op[c].doomed = None
      /\ Still(c) /\ Clean(c)
  BY Here, Going, AtPc, FailStill DEF SpawnFails, Refused, Fail, Ended
<1>2. CASE op[c].kind # "new"
  <2>1. op[c].kind \in {"load", "prompt", "mode"}
    BY <1>1, <1>2, Opening, Using
  <2> QED BY <1>1, <2>1, UsingGoto DEF Ended
<1>3. CASE op[c].kind = "new"
  <2>1. op[c].pc = "spawn" /\ op[c].id = None /\ phase[c] = "unborn"
    BY <1>1, <1>3, Using DEF Clean, Minted, IndInv, Ownership, Unborn, Early, EarlyPcs
  <2>2. "error" \in Pcs
    BY DEF Pcs, Ended
  <2>3. Plain(c) /\ op'[c].kind = "new" /\ op'[c].id = None /\ op'[c].pc = "error"
    BY <1>1, <1>3, <2>1, <2>2, GotoPlain
  <2>4. Unwritten(c)' /\ Stopped(c)' /\ Shut(c)'
    BY <1>1, <2>1, <2>3 DEF Unwritten, Stopped, Shut, Emptied, Still
  <2> QED BY <1>1, <1>3, <2>3, <2>4, NewStep DEF Ended
<1> QED BY <1>2, <1>3

LEMMA HandshakeClean ==
    ASSUME IndInv, CleanInv, NEW c \in Calls, HandshakeOk(c) \/ HandshakeFails(c)
    PROVE  CleanInv'
<1>1. /\ op[c].pc = "handshake" /\ Running(c) /\ op[c].doomed = None /\ Clean(c)
      /\ phase \in [Calls -> {"unborn", "alive", "exited", "disposed"}] /\ menus \in [Ids -> AnyMenu]
      /\ op[c].kind \in {"new", "load", "prompt", "mode"} /\ Up(c) /\ c \in Calls
  BY Here, Going, AtPc, Opening
     DEF HandshakeOk, HandshakeFails, Ended, IndInv, CoreTypes, RestTypes, Ownership, Makers, Making
<1>2. PICK p \in {"insert", "error"} : /\ Goto(c, p) /\ (p = "insert" => phase' = phase)
                                       /\ (p = "error" => phase' = [phase EXCEPT ![c] = "disposed"])
  BY <1>1 DEF HandshakeOk, HandshakeFails, Kill, Up
<1>3. /\ \A d \in Calls : d # c => phase'[d] = phase[d]
      /\ p = "error" => phase'[c] = "disposed"
  BY <1>1, <1>2
<1>4. /\ UNCHANGED <<sessions, store, known, gone, alone>>
      /\ \A s \in Ids : menus'[s] # NoMenu => menus'[s] = menus[s]
      /\ op[c].kind = "new" => menus' = menus
  BY <1>1 DEF HandshakeOk, HandshakeFails, disk, ghosts
<1>5. p \in Pcs \ {"idle", "closing"}
  BY DEF Pcs, Ended
<1>6. /\ Moves(c) /\ op'[c].kind = op[c].kind /\ op'[c].id = op[c].id /\ op'[c].pc = p /\ DoomsOwn(c)'
  BY <1>1, <1>2, <1>5, GotoPlain
<1>7. Plain(c)
  BY <1>1, <1>3, <1>4, <1>6 DEF Plain
<1>8. CASE op[c].kind = "new"
  <2>1. Unwritten(c)' /\ Stopped(c)' /\ Shut(c)'
    BY <1>1, <1>3, <1>4, <1>6, <1>8 DEF Clean, Unwritten, Stopped, Shut, Emptied
  <2>2. p \in (NewPath \ {"idle", "lock"}) \cup Ended
    BY DEF NewPath, Ended
  <2> QED BY <1>1, <1>6, <1>7, <1>8, <2>1, <2>2, NewStep
<1>9. CASE op[c].kind # "new"
  <2>1. OnPath(c)'
    BY <1>1, <1>6, <1>9 DEF OnPath, LoadPath, UsePath, Ended
  <2> QED BY <1>1, <1>6, <1>7, <1>9, <2>1, OnPathStep
<1> QED BY <1>8, <1>9

LEMMA InsertClean ==
    ASSUME IndInv, CleanInv, NEW c \in Calls, Insert(c)
    PROVE  CleanInv'
<1> DEFINE id == op[c].id
           old == sessions[id]
           p == IF old = None THEN AfterInsert(c) ELSE "evict"
<1>1. /\ op[c].pc = "insert" /\ Running(c) /\ op[c].doomed = None /\ Clean(c) /\ id \in Ids
      /\ op[c].kind \in {"new", "load", "prompt", "mode"} /\ op \in [Calls -> OpType]
      /\ sessions \in [Ids -> Calls \cup {None}] /\ sessions' = [sessions EXCEPT ![id] = c]
      /\ UNCHANGED <<phase, store, menus, known, gone, alone>>
      /\ op' = [op EXCEPT ![c].doomed = old, ![c].pc = p]
  BY Here, Going, AtPc, Opening DEF Insert, Ended, IndInv, CoreTypes, disk, ghosts
<1>2. p \in Pcs /\ p \in {"models", "gate", "evict"} /\ (p = "models" => op[c].kind = "new")
      /\ old \in Calls \cup {None}
  BY <1>1 DEF AfterInsert, Pcs
<1>3. old # None => op[old].id = id
  BY <1>1 DEF IndInv, Ownership, Serving
<1> HIDE DEF id, old, p
<1> DEFINE r == [op[c] EXCEPT !.doomed = old, !.pc = p]
<1>4. r \in OpType /\ r.pc = p /\ r.doomed = old /\ r.kind = op[c].kind /\ r.id = op[c].id
  BY <1>1, <1>2 DEF OpType
<1>5. op' = [op EXCEPT ![c] = r]
  BY <1>1 DEF OpType
<1> HIDE DEF r
<1>6. Moves(c) /\ op'[c] = r
  BY <1>1, <1>4, <1>5 DEF Moves
<1>7. \A s \in Ids : sessions'[s] # None =>
        sessions'[s] = sessions[s] \/ (s = op[c].id /\ sessions'[s] = c)
  BY <1>1 DEF id
<1>8. Plain(c)
  BY <1>1, <1>2, <1>4, <1>6, <1>7 DEF Plain
<1>9. CASE op[c].kind = "new"
  <2>1. Unwritten(c)' /\ Stopped(c)' /\ Shut(c)'
    BY <1>1, <1>2, <1>4, <1>6, <1>9 DEF Clean, Unwritten, Stopped, Shut, Emptied
  <2> QED BY <1>1, <1>2, <1>4, <1>6, <1>8, <1>9, <2>1, NewStep DEF NewPath
<1>10. CASE op[c].kind # "new"
  <2>1. OnPath(c)'
    BY <1>1, <1>2, <1>4, <1>6, <1>10 DEF OnPath, LoadPath, UsePath
  <2>2. DoomsOwn(c)'
    <3>1. old # None => op'[old].id = op[old].id
      BY <1>2, <1>4, <1>6 DEF Moves
    <3> QED BY <1>3, <1>4, <1>6, <3>1 DEF DoomsOwn, id
  <2> QED BY <1>1, <1>8, <1>10, <2>1, <2>2, OnPathStep
<1> QED BY <1>9, <1>10

\* The pi a call replaced, or closed, is disposed of.
LEMMA DisposeClean ==
    ASSUME IndInv, CleanInv, NEW c \in Calls, CloseDispose(c) \/ Evict(c)
    PROVE  CleanInv'
<1> DEFINE p == IF op[c].pc = "evict" THEN AfterInsert(c) ELSE "closing"
           r == [op[c] EXCEPT !.doomed = None, !.pc = p]
<1>1. /\ op[c].pc \in {"closing", "evict"} /\ Running(c) /\ Clean(c) /\ op[c] \in OpType
      /\ op[c].kind \in {"new", "load", "prompt", "mode", "close", "delete"}
      /\ op[c].pc = "evict" => op[c].kind \in {"new", "load", "prompt", "mode"}
      /\ op \in [Calls -> OpType] /\ phase' = Kill(op[c].doomed)
      /\ phase \in [Calls -> {"unborn", "alive", "exited", "disposed"}]
      /\ UNCHANGED <<sessions, store, menus, known, gone, alone>>
      /\ op[c].doomed \in Calls
  BY Here, Going, Opening DEF CloseDispose, Evict, Ended, IndInv, CoreTypes, disk, ghosts, OpType, Ownership,
     Routes, Route
<1>2. p \in Pcs /\ (p = "models" => op[c].kind = "new")
      /\ p \in {"closing", "models", "gate"} /\ (p = "closing" <=> op[c].pc = "closing")
  BY <1>1 DEF AfterInsert, Pcs
<1>3. op' = [op EXCEPT ![c] = r]
  BY <1>1 DEF CloseDispose, Evict, OpType
<1> HIDE DEF p
<1>4. /\ r \in OpType /\ r.pc = p /\ r.doomed = None /\ r.kind = op[c].kind /\ r.id = op[c].id
      /\ r.then = op[c].then /\ r.todo = op[c].todo
  BY <1>1, <1>2 DEF OpType
<1> HIDE DEF r
<1>5. Moves(c) /\ op'[c] = r
  BY <1>1, <1>3, <1>4 DEF Moves
<1>6. \A d \in Calls : phase[d] \in {"unborn", "disposed"} => phase'[d] = phase[d]
  BY <1>1 DEF Kill
<1>7. Plain(c)
  BY <1>1, <1>2, <1>4, <1>5, <1>6 DEF Plain
<1>8. OnPath(c)' /\ DoomsOwn(c)'
  <2>1. CASE op[c].pc = "closing"
    BY <1>1, <1>2, <1>4, <1>5, <2>1 DEF Clean, OnPath, DoomsOwn
  <2>2. CASE op[c].pc = "evict"
    BY <1>1, <1>2, <1>4, <1>5, <2>2 DEF OnPath, DoomsOwn, NewPath, LoadPath, UsePath
  <2> QED BY <1>1, <2>1, <2>2
<1>9. Unwritten(c)' /\ Stopped(c)'
  BY <1>1, <1>2, <1>4, <1>5 DEF Clean, Unwritten, Stopped
<1>10. Menuless(c)'
  BY <1>1, <1>2, <1>4, <1>5 DEF Clean, Menuless
<1>11. Shut(c)'
  BY <1>1, <1>2, <1>4, <1>5 DEF Clean, Shut, Emptied
<1> QED BY <1>1, <1>2, <1>4, <1>5, <1>7, <1>8, <1>9, <1>10, <1>11, PlainStep

\* A call goes from one close to the next, or from closing to where it was going.
LEMMA AcquireClean ==
    ASSUME IndInv, CleanInv, NEW c \in Calls, Acquire(c)
    PROVE  CleanInv'
<1>1. /\ op[c].pc = "lock" /\ Running(c) /\ op[c].doomed = None /\ Clean(c) /\ Still(c)
      /\ op[c].kind \in {"new", "load"}
  BY Here, Going, AtPc, Opening DEF Acquire, Ended, disk, ghosts, Still
<1>2. CASE op[c].kind = "new"
  <2>1. Goto(c, "spawn") /\ "spawn" \in Pcs /\ op[c].id = None
    BY <1>1, <1>2 DEF Acquire, Pcs, Clean, Minted
  <2>2. Plain(c) /\ op'[c].kind = "new" /\ op'[c].id = None /\ op'[c].pc = "spawn"
    BY <1>1, <1>2, <2>1, GotoPlain
  <2>3. Unwritten(c)' /\ Stopped(c)' /\ Shut(c)'
    BY <2>2 DEF Unwritten, Stopped, Shut, Emptied
  <2> QED BY <1>1, <1>2, <2>1, <2>2, <2>3, NewStep DEF NewPath
<1>3. CASE op[c].kind = "load"
  <2>1. op' = GoClose(c, {op[c].id}, "sweep") /\ "sweep" \in Pcs /\ op[c].id \in Ids
    BY <1>1, <1>3, AtPc DEF Acquire, Pcs
  <2>2. /\ Plain(c) /\ op'[c].kind = "load" /\ op'[c].id = op[c].id /\ op'[c].pc = "closing"
        /\ op'[c].then = "sweep" /\ op'[c].todo = {op[c].id} /\ DoomsOwn(c)'
    BY <1>1, <1>3, <2>1, ClosePlain
  <2>3. OnPath(c)'
    BY <2>2 DEF OnPath, LoadPath, UsePath
  <2> QED BY <1>3, <2>2, <2>3, OnPathStep
<1> QED BY <1>1, <1>2, <1>3

LEMMA ClosedClean ==
    ASSUME IndInv, CleanInv, NEW c \in Calls, Closed(c)
    PROVE  CleanInv'
<1>1. /\ op[c].pc = "closing" /\ Running(c) /\ op[c].doomed = None /\ Clean(c) /\ Still(c)
      /\ op[c].then \in Thens /\ Goto(c, op[c].then) /\ op[c].todo = {}
      /\ op[c].kind \in {"new", "load", "prompt", "mode", "close", "delete"}
  BY Here, Going, AtPc DEF Closed, Ended, disk, ghosts, Still, Route
<1>2. op[c].then \in Pcs \ {"idle", "closing"}
  BY <1>1 DEF Thens, Pcs
<1>3. /\ Plain(c) /\ op'[c].kind = op[c].kind /\ op'[c].id = op[c].id /\ op'[c].pc = op[c].then
      /\ DoomsOwn(c)'
  BY <1>1, <1>2, GotoPlain
<1>4. OnPath(c)'
  BY <1>1, <1>2, <1>3 DEF Clean, OnPath, NewPath, LoadPath, UsePath, DeletePath
<1>5. UNCHANGED sessions /\ UNCHANGED phase /\ UNCHANGED alone
  BY <1>1 DEF Still
<1>6. Unwritten(c)' /\ Stopped(c)'
  <2>1. store' = store /\ menus' = menus
    BY DEF Closed, disk
  <2> QED BY <1>1, <1>3, <2>1 DEF Clean, Unwritten, Stopped, Thens
<1>7. Menuless(c)'
  <2>1. menus' = menus
    BY DEF Closed
  <2> QED BY <1>1, <1>3, <2>1 DEF Clean, Menuless
<1>8. Shut(c)'
  BY <1>1, <1>3, <1>5 DEF Clean, Shut, Emptied, Thens
<1> QED BY <1>1, <1>3, <1>4, <1>6, <1>7, <1>8, PlainStep DEF Thens

LEMMA SweepClean ==
    ASSUME IndInv, CleanInv, NEW c \in Calls, Sweep(c)
    PROVE  CleanInv'
<1>1. /\ op[c].pc = "sweep" /\ Running(c) /\ op[c].doomed = None /\ Clean(c) /\ Still(c)
      /\ op[c].kind \in {"new", "load"} /\ "forget" \in Pcs
      /\ op[c].kind = "new" => UNCHANGED <<sessions, phase, store, menus>>
  BY Here, Going, AtPc, Opening DEF Sweep, Ended, disk, ghosts, Still, Pcs
<1>2. PICK ids \in SUBSET Ids : op' = GoClose(c, ids, "forget")
  BY DEF Sweep
<1>3. /\ Plain(c) /\ op'[c].kind = op[c].kind /\ op'[c].id = op[c].id /\ op'[c].pc = "closing"
      /\ op'[c].then = "forget" /\ DoomsOwn(c)'
  BY <1>1, <1>2, ClosePlain
<1>4. OnPath(c)'
  BY <1>1, <1>3 DEF OnPath, NewPath, LoadPath, UsePath
<1>5. Unwritten(c)' /\ Stopped(c)' /\ Menuless(c)' /\ Shut(c)'
  BY <1>1, <1>3 DEF Unwritten, Stopped, Menuless, Shut, Emptied
<1> QED BY <1>3, <1>4, <1>5, PlainStep

\* A session/new is answered, and its id known from then; a session/load goes on
\* with the menu of its request.
LEMMA ForgetClean ==
    ASSUME IndInv, CleanInv, NEW c \in Calls, Forget(c)
    PROVE  CleanInv'
<1>1. /\ op[c].pc = "forget" /\ Running(c) /\ op[c].doomed = None /\ Clean(c)
      /\ op[c].kind \in {"new", "load"} /\ menus \in [Ids -> AnyMenu] /\ op[c].id \in Ids
      /\ UNCHANGED <<sessions, phase, store, gone, alone>>
  BY Here, Going, AtPc, Opening DEF Forget, Ended, disk, ghosts, IndInv, RestTypes
<1>2. \A s \in Ids : menus'[s] # NoMenu =>
        menus'[s] = menus[s] \/ (s = op[c].id /\ op[c].kind \in {"new", "load"})
  <2>1. menus' = [t \in Ids |-> CASE t # op[c].id -> NoMenu
                                    [] t = op[c].id /\ op[c].kind = "new" -> menus[op[c].id]
                                    [] OTHER -> op[c].menu]
    BY DEF Forget
  <2> QED BY <1>1, <2>1
<1>3. PICK p \in {"ok", "find"} : /\ Goto(c, p) /\ (op[c].kind = "load" => p = "find")
                                  /\ op[c].kind = "new" => p = "ok"
                                  /\ known' = known \/ (known' = known \cup {op[c].id} /\ p = "ok")
  <2>1. CASE op[c].kind = "new"
    BY <2>1 DEF Forget
  <2>2. CASE op[c].kind = "load"
    BY <2>2 DEF Forget
  <2> QED BY <1>1, <2>1, <2>2
<1>4. p \in Pcs \ {"idle", "closing"}
  BY DEF Pcs, Ended
<1>5. /\ Moves(c) /\ op'[c].kind = op[c].kind /\ op'[c].id = op[c].id /\ op'[c].pc = p /\ DoomsOwn(c)'
  BY <1>1, <1>3, <1>4, GotoPlain
<1>6. Plain(c)
  BY <1>1, <1>2, <1>3, <1>5 DEF Plain
<1>7. OnPath(c)'
  BY <1>1, <1>3, <1>5 DEF OnPath, LoadPath, UsePath, Ended
<1>8. Unwritten(c)' /\ Stopped(c)' /\ Menuless(c)' /\ Shut(c)'
  BY <1>1, <1>3, <1>5 DEF Unwritten, Stopped, Menuless, Shut, Emptied
<1> QED BY <1>5, <1>6, <1>7, <1>8, PlainStep

\* The session leaves the map; from then the call finds it empty at that id.
LEMMA CloseRemoveClean ==
    ASSUME IndInv, CleanInv, NEW c \in Calls, NEW s \in Ids, CloseRemove(c, s)
    PROVE  CleanInv'
<1> DEFINE old == sessions[s]
           r == [op[c] EXCEPT !.todo = op[c].todo \ {s}, !.doomed = old]
<1>1. /\ op[c].pc = "closing" /\ Running(c) /\ op[c].doomed = None /\ Clean(c) /\ s \in op[c].todo
      /\ op[c] \in OpType /\ op \in [Calls -> OpType] /\ sessions \in [Ids -> Calls \cup {None}]
      /\ sessions' = [sessions EXCEPT ![s] = None] /\ old \in Calls \cup {None}
      /\ op[c].kind \in {"new", "load", "prompt", "mode", "close", "delete"}
      /\ UNCHANGED <<phase, store, menus, known, gone, alone>> /\ op[c].id \in Ids
  BY Here, Going, AtPc DEF CloseRemove, Ended, disk, ghosts, IndInv, CoreTypes
<1>2. old # None => op[old].id = s
  BY <1>1 DEF IndInv, Ownership, Serving
<1>3. op' = [op EXCEPT ![c] = r]
  BY <1>1 DEF CloseRemove, OpType
<1> HIDE DEF old
<1>4. op[c].todo \ {s} \in SUBSET Ids
  BY <1>1 DEF OpType
<1>5. /\ r \in OpType /\ r.pc = "closing" /\ r.doomed = old /\ r.kind = op[c].kind /\ r.id = op[c].id
      /\ r.then = op[c].then /\ r.todo = op[c].todo \ {s}
  BY <1>1, <1>4 DEF OpType
<1> HIDE DEF r
<1>6. Moves(c) /\ op'[c] = r
  BY <1>1, <1>3, <1>5 DEF Moves
<1>7. sessions'[s] = None /\ \A t \in Ids : t # s => sessions'[t] = sessions[t]
  BY <1>1
<1>8. Plain(c)
  BY <1>1, <1>5, <1>6, <1>7 DEF Plain
<1>9. OnPath(c)'
  BY <1>1, <1>5, <1>6 DEF Clean, OnPath
<1>10. DoomsOwn(c)'
  <2> SUFFICES ASSUME op[c].kind = "prompt", old # None
               PROVE  op'[old].id = op[c].id
    BY <1>5, <1>6 DEF DoomsOwn
  <2>1. op[c].todo \subseteq {op[c].id}
    BY <1>1 DEF Clean, OnPath
  <2>2. op[old].id = op[c].id
    BY <1>1, <1>2, <2>1
  <2> QED BY <1>1, <1>5, <1>6, <2>2 DEF Moves
<1>11. Unwritten(c)' /\ Stopped(c)' /\ Menuless(c)'
  BY <1>1, <1>5, <1>6 DEF Clean, Unwritten, Stopped, Menuless
<1>12. Shut(c)'
  BY <1>1, <1>5, <1>6, <1>7 DEF Clean, Shut, Emptied
<1> QED BY <1>5, <1>6, <1>8, <1>9, <1>10, <1>11, <1>12, PlainStep

LEMMA ManagerClean ==
    ASSUME IndInv, CleanInv, NEW c \in Calls, Manager(c)
    PROVE  CleanInv'
BY CloseRemoveClean, DisposeClean, ClosedClean, SweepClean, ForgetClean DEF Manager

\* session/new goes on, or stops and takes back what it began.
LEMMA NewGoes ==
    ASSUME IndInv, CleanInv, NEW c \in Calls, ModelsOk(c) \/ NewFails(c) \/ Erase(c) \/ Save(c)
    PROVE  CleanInv'
<1>1. /\ op[c].pc \in {"models", "gate", "save", "erase"} /\ Running(c) /\ op[c].doomed = None
      /\ Clean(c) /\ op[c].kind = "new" /\ op[c].id \in Ids /\ Still(c) /\ op[c].id # None
  BY Here, Going, AtPc, Opening
     DEF ModelsOk, NewFails, Erase, Save, Ended, disk, ghosts, Still
<1>2. {"gate", "error", "sweep", "erase"} \subseteq Pcs
  BY DEF Pcs, Ended
<1>3. CASE ModelsOk(c) \/ Save(c)
  <2>1. PICK p \in {"gate", "sweep"} : Goto(c, p) /\ (p = "gate" => op[c].pc = "models" /\ store' = store)
    BY <1>3 DEF ModelsOk, Save, disk
  <2>2. Plain(c) /\ op'[c].kind = "new" /\ op'[c].id = op[c].id /\ op'[c].pc = p
    BY <1>1, <1>2, <2>1, GotoPlain
  <2>3. menus' = menus
    BY <1>3 DEF ModelsOk, Save
  <2>4. Unwritten(c)' /\ Stopped(c)' /\ Shut(c)'
    BY <1>1, <2>1, <2>2, <2>3 DEF Clean, Unwritten, Stopped, Shut, Emptied
  <2> QED BY <1>1, <2>2, <2>4, NewStep DEF NewPath
<1>4. CASE NewFails(c)
  <2>1. op' = GoClose(c, {op[c].id}, "erase") /\ UNCHANGED <<store, menus>>
        /\ op[c].pc \in {"models", "gate"}
    BY <1>4 DEF NewFails, disk
  <2>2. /\ Plain(c) /\ op'[c].kind = "new" /\ op'[c].id = op[c].id /\ op'[c].pc = "closing"
        /\ op'[c].then = "erase" /\ op'[c].todo = {op[c].id}
    BY <1>1, <1>2, <2>1, ClosePlain
  <2>3. Unwritten(c)' /\ Stopped(c)' /\ Shut(c)'
    BY <1>1, <2>1, <2>2 DEF Clean, Unwritten, Stopped, Shut, Emptied
  <2> QED BY <1>1, <2>2, <2>3, NewStep DEF NewPath
<1>5. CASE Erase(c)
  <2>1. Goto(c, "error") /\ store' \subseteq store /\ menus' = menus /\ phase' = phase /\ op[c].pc = "erase"
    BY <1>5 DEF Erase
  <2>2. Plain(c) /\ op'[c].kind = "new" /\ op'[c].id = op[c].id /\ op'[c].pc = "error"
    BY <1>1, <1>2, <2>1, GotoPlain
  <2>3. phase[c] \in {"unborn", "disposed"}
    <3>1. sessions[op[c].id] = None
      BY <1>1, <2>1 DEF Clean, Shut, Emptied
    <3>2. ~Registered(c)
      BY <3>1, Here DEF Registered, IndInv, Ownership, Serving
    <3>3. ~Held(c)
      <4>1. ASSUME NEW d \in Calls, op[d].doomed = c
            PROVE  FALSE
        <5>1. Running(d) /\ d # c /\ Clean(d) /\ op[d].kind \in {"new", "load", "prompt", "mode", "close", "delete"}
          BY <1>1, <4>1, Here DEF Running, Route, Ended
        <5>2. Handling(c)
          BY <1>1 DEF Handling, Handlers, Kinds
        <5>3. op[d].kind = "prompt"
          BY <5>1, <5>2 DEF Handling, Handlers, Kinds, CleanInv, OneHandler
        <5>4. op[d].id = op[c].id
          BY <4>1, <5>1, <5>3, Here DEF Clean, DoomsOwn
        <5> QED BY <1>1, <2>1, <5>1, <5>4 DEF Clean, Minted
      <4> QED BY <2>1, <4>1 DEF Held
    <3> QED BY <3>2, <3>3 DEF IndInv, CoreTypes, Ownership, NoOrphan
  <2>4. Unwritten(c)' /\ Stopped(c)' /\ Shut(c)'
    <3>1. op[c].id \notin store /\ menus[op[c].id] = NoMenu
      BY <1>1, <2>1 DEF Clean, Unwritten
    <3> QED BY <2>1, <2>2, <2>3, <3>1 DEF Unwritten, Stopped, Shut, Emptied
  <2> QED BY <1>1, <2>2, <2>4, NewStep DEF Ended
<1> QED BY <1>3, <1>4, <1>5

\* The gate behind a spawn, and the entry of a restored session.
LEMMA GateClean ==
    ASSUME IndInv, CleanInv, NEW c \in Calls, GateOk(c) \/ RestoreRefused(c) \/ Record(c)
    PROVE  CleanInv'
<1>1. /\ op[c].pc \in {"gate", "record"} /\ Running(c) /\ op[c].doomed = None
      /\ Clean(c) /\ op[c].id \in Ids /\ op[c].kind \in {"new", "load", "prompt", "mode"}
      /\ UNCHANGED <<sessions, phase, known, gone, alone>> /\ store' \subseteq store \cup {op[c].id}
      /\ menus \in [Ids -> AnyMenu]
  BY Here, Going, AtPc, Opening, Using
     DEF GateOk, RestoreRefused, Record, Ended, disk, ghosts, IndInv, RestTypes
<1>2. {"save", "record", "refused", "upsert", "turn"} \subseteq Pcs
  BY DEF Pcs
<1>3. CASE op[c].kind = "new"
  <2>1. GateOk(c)
    BY <1>1, <1>3, Using DEF RestoreRefused, Record
  <2>2. Goto(c, "save") /\ \A s \in Ids : s # op[c].id => menus'[s] = menus[s]
    BY <1>1, <1>3, <2>1 DEF GateOk
  <2>3. Moves(c) /\ op'[c].kind = "new" /\ op'[c].id = op[c].id /\ op'[c].pc = "save"
    BY <1>1, <1>2, <1>3, <2>2, GotoPlain
  <2>4. Plain(c)
    BY <1>1, <1>3, <2>2, <2>3 DEF Plain
  <2>5. Unwritten(c)' /\ Stopped(c)' /\ Shut(c)'
    BY <2>3 DEF Unwritten, Stopped, Shut, Emptied
  <2> QED BY <1>1, <1>3, <2>3, <2>4, <2>5, NewStep DEF NewPath
<1>4. CASE op[c].kind # "new"
  <2>1. Still(c)
    BY <1>1, <1>4 DEF GateOk, RestoreRefused, Record, Still
  <2>2. CASE GateOk(c) \/ Record(c)
    <3>1. \E p \in {"record", "upsert", "turn"} : Goto(c, p)
      BY <1>4, <2>2 DEF GateOk, Record
    <3> QED BY <1>1, <1>4, <2>1, <3>1, UsingGoto DEF UsePath
  <2>3. CASE RestoreRefused(c)
    <3>1. op' = GoClose(c, {op[c].id}, "refused")
      BY <2>3 DEF RestoreRefused
    <3>2. /\ Plain(c) /\ op'[c].kind = op[c].kind /\ op'[c].id = op[c].id /\ op'[c].pc = "closing"
          /\ op'[c].then = "refused" /\ op'[c].todo = {op[c].id} /\ DoomsOwn(c)'
      BY <1>1, <1>2, <2>1, <3>1, ClosePlain
    <3>3. OnPath(c)'
      BY <1>1, <1>4, <3>2 DEF OnPath, LoadPath, UsePath
    <3> QED BY <1>1, <1>4, <3>2, <3>3, OnPathStep
  <2> QED BY <2>2, <2>3
<1> QED BY <1>3, <1>4

LEMMA SpawnSessionClean ==
    ASSUME IndInv, CleanInv, NEW c \in Calls, SpawnSession(c)
    PROVE  CleanInv'
BY SpawnClean, FailClean, HandshakeClean, InsertClean, DisposeClean, NewGoes, GateClean DEF SpawnSession

\* session/close and session/delete forget the menu, and a deletion the rest.
LEMMA RemoveClean ==
    ASSUME IndInv, CleanInv, NEW c \in Calls, Remove(c)
    PROVE  CleanInv'
<1>1. /\ op[c].pc \in {"unmenu", "look", "unlink", "unstore"} /\ Running(c) /\ op[c].doomed = None
      /\ Clean(c) /\ op[c].id \in Ids /\ op[c].kind \in {"close", "delete"}
      /\ op[c].pc # "unmenu" => op[c].kind = "delete"
      /\ UNCHANGED <<sessions, phase, known, alone>> /\ menus \in [Ids -> AnyMenu]
      /\ store' \subseteq store
  <2>1. /\ op[c].pc \in {"unmenu", "look", "unlink", "unstore"} /\ store' \subseteq store
        /\ UNCHANGED <<sessions, phase, known, alone>>
    BY DEF Remove, Unmenu, Look, Unlink, Unstore, disk, ghosts
  <2> QED BY <2>1, Here, Going, AtPc
          DEF Ended, Clean, OnPath, NewPath, LoadPath, UsePath, IndInv, RestTypes
<1>2. /\ \A s \in Ids : menus'[s] # NoMenu => menus'[s] = menus[s]
      /\ op[c].pc \in {"unmenu", "unstore"} => menus'[op[c].id] = NoMenu
      /\ op[c].pc \in {"look", "unlink"} => menus' = menus
  BY <1>1 DEF Remove, Unmenu, Look, Unlink, Unstore
<1>3. menus'[op[c].id] = NoMenu
  BY <1>1, <1>2 DEF Clean, Menuless
<1>4. gone' = gone \/ (gone' = gone \cup {op[c].id} /\ op[c].kind \in {"close", "delete"})
  BY <1>1 DEF Remove, Unmenu, Look, Unlink, Unstore, ghosts
<1>5. {"ok", "look", "unlink", "unstore"} \subseteq Pcs
  BY DEF Pcs, Ended
<1>6. CASE \E p \in {"ok", "look", "unlink"} : Goto(c, p) /\ (p # "ok" => op[c].kind = "delete")
  <2>1. PICK p \in {"ok", "look", "unlink"} : Goto(c, p) /\ (p # "ok" => op[c].kind = "delete")
    BY <1>6
  <2>2. /\ Moves(c) /\ op'[c].kind = op[c].kind /\ op'[c].id = op[c].id /\ op'[c].pc = p
        /\ DoomsOwn(c)'
    BY <1>1, <1>5, <2>1, GotoPlain
  <2>3. Plain(c)
    BY <1>1, <1>2, <1>3, <1>4, <2>2 DEF Plain
  <2>4. OnPath(c)'
    BY <1>1, <2>1, <2>2 DEF OnPath, DeletePath, Ended
  <2>5. Unwritten(c)' /\ Stopped(c)' /\ Menuless(c)' /\ Shut(c)'
    BY <1>1, <1>3, <2>2 DEF Unwritten, Stopped, Menuless, Shut, Emptied
  <2> QED BY <1>1, <2>2, <2>3, <2>4, <2>5, PlainStep
<1>7. CASE Unlink(c)
  <2>1. op' = GoClose(c, {op[c].id}, "unstore") /\ op[c].kind = "delete"
    BY <1>1, <1>7 DEF Unlink
  <2>2. /\ Moves(c) /\ op'[c].kind = "delete" /\ op'[c].id = op[c].id /\ op'[c].pc = "closing"
        /\ op'[c].then = "unstore" /\ op'[c].todo = {op[c].id} /\ DoomsOwn(c)'
    BY <1>1, <1>5, <2>1, ClosePlain
  <2>3. Plain(c)
    BY <1>1, <1>2, <1>3, <1>4, <2>1, <2>2 DEF Plain
  <2>4. OnPath(c)'
    BY <2>2 DEF OnPath, DeletePath
  <2>5. Unwritten(c)' /\ Stopped(c)' /\ Menuless(c)' /\ Shut(c)'
    BY <1>3, <2>2 DEF Unwritten, Stopped, Menuless, Shut, Emptied
  <2> QED BY <2>2, <2>3, <2>4, <2>5, PlainStep
<1>8. CASE Unmenu(c) \/ Look(c) \/ Unstore(c)
  BY <1>1, <1>6, <1>8 DEF Unmenu, Look, Unstore
<1> QED BY <1>7, <1>8 DEF Remove

LEMMA StartClean ==
    ASSUME IndInv, CleanInv, NEW c \in Calls, NEW k \in Kinds, NEW s \in Ids \cup {None}, NEW m \in AnyMenu,
           Start(c, k, s, m)
    PROVE  CleanInv'
<1> DEFINE others == {d \in Calls : Running(d) /\ op[d].id = s}
           r == [Idle EXCEPT !.kind = k, !.id = s, !.menu = m, !.pc = EntryOf(k),
                             !.todo = IF k = "close" THEN {s} ELSE {}, !.then = "unmenu"]
<1>1. /\ op[c].pc = "idle" /\ Clean(c) /\ phase[c] = "unborn"
      /\ op \in [Calls -> OpType] /\ op[c].kind = "new" /\ op[c].id = None
      /\ UNCHANGED <<sessions, phase, store, menus, known>>
      /\ IF k = "new" THEN s = None ELSE s \in known
      /\ gone' = IF k = "load" THEN gone \ {s} ELSE gone
      /\ alone' = IF others = {} THEN alone \cup {c} ELSE alone \ others
  BY Here DEF Start, disk, Clean, OnPath, Minted, IndInv, Ownership, Unborn, Early, EarlyPcs,
     LoadPath, UsePath, DeletePath, Ended
<1>2. /\ EntryOf(k) \in {"lock", "lookup", "closing", "unmenu"}
      /\ (k \in {"new", "load"} => EntryOf(k) = "lock") /\ (k \in {"prompt", "mode"} => EntryOf(k) = "lookup")
      /\ (k = "close" => EntryOf(k) = "closing") /\ (k = "delete" => EntryOf(k) = "unmenu")
      /\ k \in {"new", "load", "prompt", "mode", "close", "delete"}
  BY DEF EntryOf, Kinds
<1>3. Quiet(c)
  BY StartQuiet
<1>4. op'[c] = r
  BY <1>1 DEF Start
<1>5. /\ r.kind = k /\ r.id = s /\ r.pc = EntryOf(k) /\ r.then = "unmenu" /\ r.doomed = None
      /\ r.todo \subseteq {s}
  BY DEF Idle
<1> HIDE DEF r
<1>6. /\ op'[c].kind = k /\ op'[c].id = s /\ op'[c].pc = EntryOf(k) /\ op'[c].then = "unmenu"
      /\ op'[c].doomed = None /\ op'[c].todo \subseteq {s}
  BY <1>4, <1>5
<1>7. \A d \in Calls : d # c => op'[d] = op[d]
  BY <1>3 DEF Quiet, Moves
<1>8. \A d \in Calls : d \in alone' /\ Running(d) /\ d # c => op[d].id # s
  BY <1>1
<1>9. known \subseteq Ids /\ None \notin Ids
  BY Here DEF IndInv, RestTypes
<1>10. Apart(c)
  <2>1. \A d \in Calls : op[d].kind = "new" /\ op[d].id # None /\ op[d].pc # "ok" => s # op[d].id
    BY <1>1 DEF CleanInv, Clean, Minted
  <2> QED BY <1>1, <1>6, <1>7, <1>8, <2>1 DEF Apart
<1>11. OnPath(c)' /\ Told(c)' /\ Minted(c)' /\ Unwritten(c)' /\ Stopped(c)'
  <2>1. OnPath(c)'
    BY <1>2, <1>6 DEF OnPath, NewPath, LoadPath, UsePath, DeletePath
  <2>2. Told(c)' /\ Minted(c)' /\ Unwritten(c)' /\ Stopped(c)'
    BY <1>1, <1>2, <1>6 DEF Told, Minted, Unwritten, Stopped
  <2> QED BY <2>1, <2>2
<1>12. AskedFor(c)' /\ Menuless(c)' /\ DoomsOwn(c)' /\ Shut(c)'
  BY <1>1, <1>2, <1>6 DEF AskedFor, Menuless, DoomsOwn, Shut, Emptied
<1>13. Alone(c)'
  <2>1. c \notin alone
    BY <1>1 DEF Clean, Alone
  <2>2. op'[c].pc # "idle"
    BY <1>2, <1>6
  <2>3. ASSUME c \in alone', NEW d \in Calls, d # c, Running(d)'
        PROVE  op'[d].id # s
    <3>1. others = {}
      BY <1>1, <2>1, <2>3
    <3>2. Running(d) /\ op'[d] = op[d]
      BY <1>7, <2>3 DEF Running
    <3> QED BY <3>1, <3>2
  <2> HIDE DEF others
  <2> QED BY <1>6, <2>2, <2>3 DEF Alone
<1>14. \A d \in Calls : Clean(d)'
  BY <1>10, <1>11, <1>12, <1>13, OthersStayClean DEF Clean
<1>15. OneHandler'
  <2>1. k \in Handlers => \A d \in Calls : ~Handling(d)
    BY DEF Start, Handling
  <2>2. \A d \in Calls : d # c => (Handling(d)' => Handling(d))
    BY <1>7 DEF Handling, Running
  <2>3. Handling(c)' => k \in Handlers
    BY <1>6 DEF Handling
  <2> QED BY <2>1, <2>2, <2>3 DEF CleanInv, OneHandler
<1>16. Traces'
  <2>1. \A d \in Calls, t \in Ids : op[d].id = t => op'[d].id = t
    BY <1>1, <1>7, <1>9
  <2>2. gone' \subseteq known'
    BY <1>1 DEF CleanInv, Traces
  <2> QED BY <1>1, <2>1, <2>2 DEF CleanInv, Traces
<1>17. GoneHasNoMenu'
  BY <1>1 DEF CleanInv, GoneHasNoMenu
<1> QED BY <1>14, <1>15, <1>16, <1>17 DEF CleanInv

LEMMA InitClean == Init => CleanInv
<1> SUFFICES ASSUME Init PROVE CleanInv
  OBVIOUS
<1>1. \A c \in Calls : op[c] = Idle
  BY DEF Init
<1>2. /\ Idle.kind = "new" /\ Idle.id = None /\ Idle.pc = "idle" /\ Idle.doomed = None
  BY DEF Idle
<1>3. ASSUME NEW c \in Calls PROVE Clean(c)
  <2>1. op[c].kind = "new" /\ op[c].id = None /\ op[c].pc = "idle" /\ op[c].doomed = None /\ c \notin alone
    BY <1>1, <1>2 DEF Init
  <2>2. OnPath(c) /\ Told(c) /\ Minted(c) /\ Unwritten(c) /\ Stopped(c)
    BY <2>1 DEF OnPath, NewPath, Told, Minted, Unwritten, Stopped
  <2>3. AskedFor(c) /\ Menuless(c) /\ DoomsOwn(c) /\ Shut(c) /\ Alone(c)
    BY <2>1 DEF AskedFor, Menuless, DoomsOwn, Shut, Emptied, Alone
  <2> QED BY <2>2, <2>3 DEF Clean
<1>4. OneHandler
  BY <1>1, <1>2 DEF OneHandler, Handling, Running
<1>5. Traces /\ GoneHasNoMenu
  BY AgentAssumption DEF Traces, GoneHasNoMenu, Init
<1> QED BY <1>3, <1>4, <1>5 DEF CleanInv

\* Steps of no call: a pi exits, nothing changes.
LEMMA IdleClean ==
    ASSUME IndInv, CleanInv, UNCHANGED <<op, sessions, store, menus, known, gone, alone>>,
           \A d \in Calls : phase[d] \in {"unborn", "disposed"} => phase'[d] = phase[d]
    PROVE  CleanInv'
<1>1. ASSUME NEW c \in Calls PROVE Clean(c)'
  <2>1. Clean(c)
    BY DEF CleanInv
  <2>2. OnPath(c)' /\ Told(c)' /\ Minted(c)' /\ Unwritten(c)' /\ Stopped(c)'
    BY <2>1 DEF Clean, OnPath, Told, Minted, Unwritten, Stopped
  <2>3. AskedFor(c)' /\ Menuless(c)' /\ DoomsOwn(c)' /\ Shut(c)' /\ Alone(c)'
    BY <2>1 DEF Clean, AskedFor, Menuless, DoomsOwn, Shut, Emptied, Alone, Running
  <2> QED BY <2>2, <2>3 DEF Clean
<1>2. OneHandler'
  BY DEF CleanInv, OneHandler, Handling, Running
<1>3. Traces' /\ GoneHasNoMenu'
  BY DEF CleanInv, Traces, GoneHasNoMenu
<1> QED BY <1>1, <1>2, <1>3 DEF CleanInv

\* The end of the connection leaves the calls that ended as they were, and the
\* others nowhere.
LEMMA DisconnectClean ==
    ASSUME IndInv, CleanInv, Disconnect
    PROVE  CleanInv'
<1>1. /\ op \in [Calls -> OpType] /\ UNCHANGED <<sessions, store, menus, known, gone, alone>>
      /\ \A d \in Calls : phase[d] \in {"unborn", "disposed"} => phase'[d] = phase[d]
  BY DEF Disconnect, IndInv, CoreTypes, disk, ghosts
<1>2. ASSUME NEW c \in Calls
      PROVE  /\ op'[c].kind = op[c].kind /\ op'[c].id = op[c].id /\ ~Running(c)'
             /\ IF Running(c) THEN op'[c].pc = "dropped" /\ op'[c].doomed = None ELSE op'[c] = op[c]
  <2>1. op[c] \in OpType
    BY <1>1
  <2>2. CASE Running(c)
    <3>1. op'[c] = [op[c] EXCEPT !.pc = "dropped", !.doomed = None]
      BY <2>2 DEF Disconnect
    <3> QED BY <2>1, <2>2, <3>1 DEF OpType, Running, Ended
  <2>3. CASE ~Running(c)
    <3>1. op'[c] = op[c]
      BY <2>3 DEF Disconnect
    <3> QED BY <2>3, <3>1 DEF Running
  <2> QED BY <2>2, <2>3
<1>3. ASSUME NEW c \in Calls PROVE Clean(c)'
  <2>1. Clean(c) /\ Route(c)
    BY Here
  <2>2. CASE ~Running(c)
    <3>1. op'[c] = op[c] /\ op[c].pc \in Ended \cup {"idle"} /\ op[c].doomed = None
      BY <1>2, <2>1, <2>2 DEF Running, Route, Ended
    <3>2. OnPath(c)' /\ Told(c)' /\ Minted(c)' /\ Unwritten(c)' /\ Stopped(c)'
      BY <1>1, <1>2, <2>1, <3>1 DEF Clean, OnPath, Told, Minted, Unwritten, Stopped
    <3>3. AskedFor(c)' /\ Menuless(c)' /\ DoomsOwn(c)' /\ Shut(c)' /\ Alone(c)'
      BY <1>1, <1>2, <2>1, <3>1 DEF Clean, AskedFor, Menuless, DoomsOwn, Shut, Emptied, Alone, Ended
    <3> QED BY <3>2, <3>3 DEF Clean
  <2>3. CASE Running(c)
    <3>1. op'[c].pc = "dropped" /\ op'[c].doomed = None /\ op[c].pc # "ok"
          /\ op[c].pc # "idle"
      BY <1>2, <2>3 DEF Running, Ended
    <3>2. OnPath(c)'
      BY <1>2, <3>1, Here DEF OnPath, Ended
    <3>3. Told(c)' /\ Minted(c)' /\ Unwritten(c)' /\ Stopped(c)'
      BY <1>1, <1>2, <2>1, <3>1 DEF Clean, Told, Minted, Unwritten, Stopped
    <3>4. AskedFor(c)' /\ Menuless(c)' /\ DoomsOwn(c)' /\ Shut(c)' /\ Alone(c)'
      BY <1>2, <3>1 DEF AskedFor, Menuless, DoomsOwn, Shut, Emptied, Alone
    <3> QED BY <3>2, <3>3, <3>4 DEF Clean
  <2> QED BY <2>2, <2>3
<1>4. OneHandler'
  BY <1>2 DEF OneHandler, Handling
<1>5. Traces' /\ GoneHasNoMenu'
  BY <1>1, <1>2 DEF CleanInv, Traces, GoneHasNoMenu
<1> QED BY <1>3, <1>4, <1>5 DEF CleanInv

LEMMA DisposeAllClean ==
    ASSUME IndInv, CleanInv, DisposeAll
    PROVE  CleanInv'
<1>1. /\ UNCHANGED <<op, store, known, gone, alone>> /\ gone \subseteq Ids
      /\ \A s \in Ids : sessions'[s] = None /\ menus'[s] = NoMenu
      /\ \A d \in Calls : phase[d] \in {"unborn", "disposed"} => phase'[d] \in {"unborn", "disposed"}
  BY DEF DisposeAll, IndInv, RestTypes, disk, ghosts
<1>2. ASSUME NEW c \in Calls PROVE Clean(c)'
  <2>1. Clean(c) /\ op[c] \in OpType
    BY Here
  <2>2. OnPath(c)' /\ Told(c)' /\ Minted(c)' /\ Unwritten(c)' /\ Stopped(c)'
    BY <1>1, <2>1 DEF Clean, OnPath, Told, Minted, Unwritten, Stopped, OpType
  <2>3. Menuless(c)' /\ Shut(c)'
    <3>1. op[c].pc \in {"look", "unlink", "closing", "unstore", "erase"} => op[c].id \in Ids
      BY AtPc
    <3> QED BY <1>1, <3>1 DEF Menuless, Shut, Emptied
  <2>4. AskedFor(c)' /\ DoomsOwn(c)' /\ Alone(c)'
    BY <1>1, <2>1 DEF Clean, AskedFor, DoomsOwn, Alone, Running
  <2> QED BY <2>2, <2>3, <2>4 DEF Clean
<1>3. OneHandler'
  BY <1>1 DEF CleanInv, OneHandler, Handling, Running
<1>4. Traces' /\ GoneHasNoMenu'
  BY <1>1 DEF CleanInv, Traces, GoneHasNoMenu
<1> QED BY <1>2, <1>3, <1>4 DEF CleanInv

LEMMA CleanNext == IndInv /\ CleanInv /\ [Next]_vars => CleanInv'
<1> SUFFICES ASSUME IndInv, CleanInv, [Next]_vars PROVE CleanInv'
  OBVIOUS
<1>1. ASSUME NEW c \in Calls, NEW k \in Kinds, NEW s \in Ids \cup {None}, NEW m \in AnyMenu,
             Start(c, k, s, m)
      PROVE  CleanInv'
  BY <1>1, StartClean
<1>2. ASSUME NEW c \in Calls, Advance(c)
      PROVE  CleanInv'
  BY <1>2, AcquireClean, ManagerClean, RestoreClean, SpawnSessionClean, UseClean, RemoveClean DEF Advance
<1>3. ASSUME NEW c \in Calls, PiExits(c)
      PROVE  CleanInv'
  BY <1>3, IdleClean DEF PiExits, IndInv, CoreTypes, disk, ghosts
<1>4. CASE Disconnect \/ DisposeAll
  BY <1>4, DisconnectClean, DisposeAllClean
<1>5. CASE UNCHANGED vars
  BY <1>5, IdleClean DEF vars, disk, ghosts
<1> QED BY <1>1, <1>2, <1>3, <1>4, <1>5 DEF Next

LEMMA StaysClean == Spec => []CleanInv
BY InitClean, CleanNext, Inductive, PTL DEF Spec

\* A session/new that fails leaves no process, entry or menu behind, and a session
\* that was closed or deleted no menu, whatever else is in progress
\* (agent.rs:1251, cleanup_failed_new_session; agent.rs:1668).
THEOREM LeavesNothing == Spec => []NothingLeftBehind
<1>1. IndInv /\ CleanInv => NothingLeftBehind
  <2> SUFFICES ASSUME IndInv, CleanInv PROVE NothingLeftBehind
    OBVIOUS
  <2>1. ASSUME NEW c \in Calls, op[c].kind = "new", op[c].pc = "error"
        PROVE  /\ phase[c] \in {"unborn", "disposed"} /\ op[c].id \notin store
               /\ op[c].id # None => menus[op[c].id] = NoMenu
    <3>1. Stopped(c) /\ Unwritten(c)
      BY DEF CleanInv, Clean
    <3>2. None \notin store
      BY AgentAssumption DEF IndInv, RestTypes
    <3> QED BY <2>1, <3>1, <3>2 DEF Stopped, Unwritten
  <2> QED BY <2>1 DEF NothingLeftBehind, NewLeavesNothing, CleanInv
<1> QED BY <1>1, Inductive, StaysClean, PTL

\* Who still runs for the session of a deletion that no other call overlapped serves it.
LEMMA LeftServing ==
    ASSUME IndInv, CleanInv, NEW c \in Calls, op[c].pc \in {"look", "unstore"}, c \in alone,
           NEW d \in Calls, op[d].id = op[c].id, phase[d] = "alive"
    PROVE  sessions[op[c].id] = d
<1>1. /\ Running(c) /\ Clean(c) /\ op[c].id \in Ids /\ op[c].kind = "delete" /\ op[c].doomed = None
  BY Here, Going, AtPc DEF Clean, OnPath, NewPath, LoadPath, UsePath, Ended
<1>2. CASE Registered(d)
  BY <1>2, Here DEF Registered, IndInv, Ownership, Serving
<1>3. CASE ~Registered(d)
  <2>1. Held(d)
    BY <1>3 DEF IndInv, Ownership, NoOrphan
  <2>2. ~Running(d) \/ d = c
    BY <1>1 DEF Clean, Alone
  <2>3. op[d].pc \notin {"handshake", "insert"}
    BY <1>1, <2>2 DEF Running, Ended
  <2>4. PICK e \in Calls : op[e].doomed = d
    BY <2>1, <2>3 DEF Held
  <2>5. Running(e) /\ e # c /\ Clean(e)
        /\ op[e].kind \in {"new", "load", "prompt", "mode", "close", "delete"}
    BY <1>1, <2>4, Here DEF Running, Route, Ended
  <2>6. op[e].kind = "prompt"
    <3>1. Handling(c)
      BY <1>1 DEF Handling, Handlers, Kinds
    <3> QED BY <2>5, <3>1 DEF CleanInv, OneHandler, Handling, Handlers, Kinds
  <2>7. op[e].id = op[c].id
    BY <2>4, <2>5, <2>6, Here DEF Clean, DoomsOwn
  <2> QED BY <1>1, <2>5, <2>7 DEF Clean, Alone
<1> QED BY <1>2, <1>3

LEMMA DeletionEndsWell ==
    ASSUME IndInv, CleanInv, NEW c \in Calls
    PROVE  DeletionEnds(c)
<1> DEFINE id == op[c].id
<1>1. ASSUME Unstore(c)
      PROVE  /\ id \notin store' /\ sessions[id] \notin alone
             /\ c \in alone => \A d \in Calls : op[d].id = id => phase[d] # "alive"
  <2>1. op[c].pc = "unstore" /\ store' = store \ {id}
    BY <1>1 DEF Unstore
  <2>2. sessions[id] # None => c \notin alone /\ sessions[id] \notin alone
    BY <2>1, Here DEF Clean, Shut, Emptied
  <2>3. None \notin alone /\ None \notin Calls
    BY AgentAssumption DEF IndInv, RestTypes
  <2>4. ASSUME c \in alone, NEW d \in Calls, op[d].id = id, phase[d] = "alive"
        PROVE  FALSE
    <3>1. sessions[id] = d
      BY <2>1, <2>4, LeftServing
    <3> QED BY <2>2, <2>3, <2>4, <3>1
  <2> HIDE DEF id
  <2>5. sessions[id] \notin alone
    BY <2>2, <2>3
  <2> QED BY <2>1, <2>4, <2>5
<1>2. ASSUME Look(c), c \in alone, NEW d \in Calls, op[d].id = id, phase[d] = "alive"
      PROVE  sessions[id] = d
  <2>1. op[c].pc = "look"
    BY <1>2 DEF Look
  <2> QED BY <1>2, <2>1, LeftServing
<1> QED BY <1>1, <1>2 DEF DeletionEnds

\* A deletion that goes through leaves no entry, nor a session that a call entered
\* which no other one overlapped, and if none overlapped the deletion itself, no pi; one
\* that finds nothing on disk leaves at most the live session (agent.rs:1670-1688).
THEOREM DeletedForGood == Spec => DeletionIsFinal
<1>1. IndInv /\ CleanInv /\ [Next]_vars => [\A c \in Calls : DeletionEnds(c)]_vars
  BY DeletionEndsWell
<1> QED BY <1>1, Inductive, StaysClean, PTL DEF Spec, DeletionIsFinal
===============================================================================
