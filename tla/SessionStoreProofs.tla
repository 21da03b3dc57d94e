-------------------------- MODULE SessionStoreProofs --------------------------
(***************************************************************************)
(* Proofs about SessionStore.  Types, whole files and honest caches hold   *)
(* for any number of processes.  Where one process has the file to itself  *)
(* and its reads do not fail, a store that is not idle is the only one, so *)
(* what it read is what the file still has, unless that was damaged since: *)
(* the store implements SessionMap, no backup is overwritten, and the      *)
(* damage an update can know of is backed up.                              *)
(***************************************************************************)
EXTENDS SessionStore, TLAPS

OpType == [pc : Pcs, id : Ids \cup {None}, value : Values \cup {None}, db : Sessions]
MapType == [state : {"missing", "map", "bytes"}, sessions : Sessions, damage : 0..MaxDamage]

\* TypeOK, and that an update under way has an id.
TypeInv ==
    /\ TypeOK
    /\ \A s \in Stores : ~At(s, "idle") => op[s].id \in Ids

OneProcess == \A s, t \in Stores : ProcOf[s] = ProcOf[t]

-------------------------------------------------------------------------------
LEMMA EmptyType == Empty \in Sessions
BY DEF Empty, Sessions

LEMMA IdleType == Idle \in OpType
BY EmptyType DEF Idle, OpType, Pcs

LEMMA LoadFileType == map \in MapType => load_file \subseteq Sessions
BY EmptyType DEF load_file, MapType

LEMMA MapTypes ==
    /\ Missing \in MapType
    /\ \A db \in Sessions : MapOf(db) \in MapType
    /\ \A n \in 0..MaxDamage : Bytes(n) \in MapType
BY EmptyType, StoreAssumption DEF Missing, MapOf, Bytes, MapType

LEMMA GotoType ==
    ASSUME op \in [Stores -> OpType], NEW s \in Stores, NEW pc \in Pcs, Goto(s, pc)
    PROVE  /\ op' \in [Stores -> OpType]
           /\ \A t \in Stores : op'[t].id = op[t].id
           /\ \A t \in Stores : t # s => op'[t] = op[t]
BY DEF Goto, OpType

\* Each handler keeps what an update holds in its type.
LEMMA OpTypes ==
    ASSUME TypeInv, [Next]_vars
    PROVE  /\ op' \in [Stores -> OpType]
           /\ \A s \in Stores : op'[s].pc # "idle" => op'[s].id \in Ids
<1>0. /\ op \in [Stores -> OpType] /\ map \in MapType
      /\ \A s \in Stores : op[s].pc # "idle" => op[s].id \in Ids
  BY DEF TypeInv, TypeOK, OpType, MapType, At
<1>1. ASSUME NEW s \in Stores, NEW id \in Ids, NEW v \in Values \cup {None}, Update(s, id, v)
      PROVE  /\ op' \in [Stores -> OpType]
             /\ \A t \in Stores : op'[t].pc # "idle" => op'[t].id \in Ids
  BY <1>0, <1>1, EmptyType DEF Update, OpType, Pcs
<1>2. ASSUME NEW s \in Stores, Load(s)
      PROVE  /\ op' \in [Stores -> OpType]
             /\ \A t \in Stores : op'[t].pc # "idle" => op'[t].id \in Ids
  <2>1. PICK db \in load_file : op' = [op EXCEPT ![s].db = db, ![s].pc = "check"]
    BY <1>2 DEF Load, Base
  <2>2. db \in Sessions
    BY <1>0, LoadFileType
  <2>3. op[s].id \in Ids
    BY <1>0, <1>2 DEF Load, At
  <2>4. [op[s] EXCEPT !.db = db, !.pc = "check"] \in OpType
    BY <1>0, <2>2 DEF OpType, Pcs
  <2>5. op' = [op EXCEPT ![s] = [op[s] EXCEPT !.db = db, !.pc = "check"]]
    BY <1>0, <2>1
  <2>6. [op[s] EXCEPT !.db = db, !.pc = "check"].id = op[s].id
    BY <1>0 DEF OpType
  <2> QED BY <1>0, <2>3, <2>4, <2>5, <2>6
<1>3. ASSUME NEW s \in Stores, NEW pc \in Pcs, Goto(s, pc), op[s].pc # "idle"
      PROVE  /\ op' \in [Stores -> OpType]
             /\ \A t \in Stores : op'[t].pc # "idle" => op'[t].id \in Ids
  BY <1>0, <1>3, GotoType
<1>4. ASSUME NEW s \in Stores, Release(s)
      PROVE  /\ op' \in [Stores -> OpType]
             /\ \A t \in Stores : op'[t].pc # "idle" => op'[t].id \in Ids
  <2>1. op' = [op EXCEPT ![s] = Idle] /\ Idle.pc = "idle"
    BY <1>4 DEF Release, Idle
  <2> QED BY <1>0, <2>1, IdleType
<1>5. ASSUME NEW p \in Procs, Crash(p)
      PROVE  /\ op' \in [Stores -> OpType]
             /\ \A t \in Stores : op'[t].pc # "idle" => op'[t].id \in Ids
  <2>1. op' = [s \in Stores |-> IF ProcOf[s] = p THEN Idle ELSE op[s]] /\ Idle.pc = "idle"
    BY <1>5 DEF Crash, Idle
  <2> QED BY <1>0, <2>1, IdleType
<1>6. CASE UNCHANGED vars \/ Damage \/ \E s \in Stores : Get(s)
  BY <1>0, <1>6 DEF vars, Damage, Get
<1>7. ASSUME NEW s \in Stores, Check(s) \/ Backup(s) \/ WriteTemp(s)
      PROVE  \E pc \in Pcs : Goto(s, pc) /\ op[s].pc # "idle"
  BY <1>7 DEF Check, Backup, WriteTemp, At, Pcs
<1>8. ASSUME NEW s \in Stores, Skip(s) \/ WriteFails(s) \/ Replace(s)
      PROVE  Release(s)
  BY <1>8 DEF Skip, WriteFails, Replace
<1> QED BY <1>1, <1>2, <1>3, <1>4, <1>5, <1>6, <1>7, <1>8 DEF Next, Step

\* The map an update writes is a map.
LEMMA ChangedType ==
    ASSUME TypeInv, NEW s \in Stores, At(s, "replace")
    PROVE  Changed(s) \in Sessions
<1>1. op[s].db \in Sessions /\ op[s].value \in Values \cup {None} /\ op[s].id \in Ids
  BY DEF TypeInv, TypeOK, At
<1> QED BY <1>1 DEF Changed, Sessions

\* The file, the backup, the lock, the caches and the ghost keep their types.
LEMMA MapTypeStep ==
    ASSUME TypeInv, [Next]_vars
    PROVE  map' \in MapType /\ backup' \in 0..MaxDamage /\ damage' \in 0..MaxDamage
<1>0. map \in MapType /\ backup \in 0..MaxDamage /\ damage \in 0..MaxDamage
  BY DEF TypeInv, TypeOK, MapType
<1>1. CASE Damage
  <2>1. damage' = damage + 1 /\ damage + 1 \in 0..MaxDamage /\ map' = Bytes(damage + 1)
        /\ backup' = backup
    BY <1>0, <1>1, StoreAssumption DEF Damage
  <2> QED BY <1>0, <2>1, MapTypes
<1>2. ASSUME NEW s \in Stores, Replace(s)
      PROVE  map' \in MapType /\ backup' = backup /\ damage' = damage
  <2>1. map' = MapOf(Changed(s)) /\ backup' = backup /\ damage' = damage /\ Changed(s) \in Sessions
    BY <1>2, ChangedType DEF Replace
  <2> QED BY <2>1, MapTypes
<1>3. ASSUME NEW s \in Stores, Backup(s)
      PROVE  map' \in MapType /\ backup' \in 0..MaxDamage /\ damage' = damage
  <2>1. \/ map' = Missing /\ backup' = map.damage /\ damage' = damage
        \/ map' = map /\ backup' = backup /\ damage' = damage
    BY <1>3 DEF Backup
  <2>2. map.damage \in 0..MaxDamage
    BY <1>0 DEF MapType
  <2> QED BY <1>0, <2>1, <2>2, MapTypes
<1>4. ASSUME NEW s \in Stores,
             \/ \E id \in Ids, v \in Values \cup {None} : Update(s, id, v)
             \/ Load(s) \/ Check(s) \/ Skip(s) \/ WriteTemp(s) \/ WriteFails(s) \/ Get(s)
      PROVE  map' = map /\ backup' = backup /\ damage' = damage
  BY <1>4 DEF Update, Load, Check, Skip, WriteTemp, WriteFails, Get
<1>5. CASE (\E p \in Procs : Crash(p)) \/ UNCHANGED vars
  BY <1>0, <1>5 DEF Crash, vars
<1> QED BY <1>0, <1>1, <1>2, <1>3, <1>4, <1>5 DEF Next, Step

LEMMA LockTypeStep ==
    ASSUME TypeInv, [Next]_vars
    PROVE  lock' \in [Procs -> Stores \cup {None}]
<1>0. lock \in [Procs -> Stores \cup {None}]
  BY DEF TypeInv, TypeOK
<1>1. ASSUME NEW s \in Stores, Step(s)
      PROVE  \E x \in Stores \cup {None} : lock' = [lock EXCEPT ![ProcOf[s]] = x] \/ lock' = lock
  BY <1>1 DEF Step, Update, Load, Check, Backup, Skip, WriteTemp, WriteFails, Replace, Get, Release
<1>2. ASSUME NEW p \in Procs, Crash(p)
      PROVE  lock' = [lock EXCEPT ![p] = None]
  BY <1>2 DEF Crash
<1>3. CASE Damage \/ UNCHANGED vars
  BY <1>0, <1>3 DEF Damage, vars
<1> QED BY <1>0, <1>1, <1>2, <1>3 DEF Next

LEMMA CacheTypeStep ==
    ASSUME TypeInv, [Next]_vars
    PROVE  cache' \in [Stores -> Sessions \cup {None}]
<1>0. cache \in [Stores -> Sessions \cup {None}] /\ map \in MapType
  BY DEF TypeInv, TypeOK, MapType
<1>1. ASSUME NEW s \in Stores, Replace(s) \/ Get(s)
      PROVE  \E db \in Sessions : cache' = [cache EXCEPT ![s] = db]
  <2>1. CASE Replace(s)
    BY <2>1, ChangedType DEF Replace
  <2>2. CASE Get(s)
    <3>1. \E db \in load_file : cache' = [cache EXCEPT ![s] = db]
      BY <2>2 DEF Get
    <3> QED BY <1>0, <3>1, LoadFileType
  <2> QED BY <1>1, <2>1, <2>2
<1>2. ASSUME NEW s \in Stores,
             \/ \E id \in Ids, v \in Values \cup {None} : Update(s, id, v)
             \/ Load(s) \/ Check(s) \/ Backup(s) \/ Skip(s) \/ WriteTemp(s) \/ WriteFails(s)
      PROVE  cache' = cache
  BY <1>2 DEF Update, Load, Check, Backup, Skip, WriteTemp, WriteFails
<1>3. ASSUME NEW p \in Procs, Crash(p)
      PROVE  cache' = [s \in Stores |-> IF ProcOf[s] = p THEN None ELSE cache[s]]
  BY <1>3 DEF Crash
<1>4. CASE Damage \/ UNCHANGED vars
  BY <1>0, <1>4 DEF Damage, vars
<1> QED BY <1>0, <1>1, <1>2, <1>3, <1>4 DEF Next, Step

LEMMA ErasedTypeStep ==
    ASSUME TypeInv, [Next]_vars
    PROVE  erased' \subseteq (Stores \X Ids)
<1>0. erased \subseteq (Stores \X Ids)
  BY DEF TypeInv, TypeOK
<1>1. ASSUME NEW s \in Stores, Skip(s) \/ Replace(s)
      PROVE  erased' \subseteq (Stores \X Ids)
  <2>1. erased' = Erased(s) /\ op[s].pc # "idle"
    BY <1>1 DEF Skip, Replace, At
  <2>2. op[s].id \in Ids
    BY <2>1 DEF TypeInv, At
  <2> QED BY <1>0, <2>1, <2>2 DEF Erased
<1>2. ASSUME NEW s \in Stores,
             \/ \E id \in Ids, v \in Values \cup {None} : Update(s, id, v)
             \/ Load(s) \/ Check(s) \/ Backup(s) \/ WriteTemp(s) \/ WriteFails(s) \/ Get(s)
      PROVE  erased' = erased
  BY <1>2 DEF Update, Load, Check, Backup, WriteTemp, WriteFails, Get
<1>3. ASSUME NEW p \in Procs, Crash(p)
      PROVE  erased' \subseteq erased
  BY <1>3 DEF Crash
<1>4. CASE Damage \/ UNCHANGED vars
  BY <1>0, <1>4 DEF Damage, vars
<1> QED BY <1>0, <1>1, <1>2, <1>3, <1>4 DEF Next, Step

LEMMA ExcusedTypeStep ==
    ASSUME TypeInv, [Next]_vars
    PROVE  excused' \subseteq Stores
<1>0. excused \subseteq Stores
  BY DEF TypeInv, TypeOK
<1>1. ASSUME NEW s \in Stores, Step(s)
      PROVE  excused' \subseteq excused \cup {s}
  BY <1>1 DEF Step, Update, Load, Check, Backup, Skip, WriteTemp, WriteFails, Replace, Get, Release
<1>2. ASSUME NEW p \in Procs, Crash(p)
      PROVE  excused' \subseteq excused
  BY <1>2 DEF Crash
<1>3. CASE Damage \/ UNCHANGED vars
  BY <1>0, <1>3 DEF Damage, vars
<1> QED BY <1>0, <1>1, <1>2, <1>3 DEF Next

LEMMA InitTypes == Init => TypeInv
<1> SUFFICES ASSUME Init PROVE TypeInv
  OBVIOUS
<1>1. map \in MapType
  BY MapTypes DEF Init, Sessions
<1>2. op \in [Stores -> OpType] /\ \A s \in Stores : op[s].pc = "idle"
  BY IdleType DEF Init, Idle
<1>3. /\ backup \in 0..MaxDamage /\ damage \in 0..MaxDamage
      /\ lock \in [Procs -> Stores \cup {None}] /\ cache \in [Stores -> Sessions \cup {None}]
      /\ erased \subseteq (Stores \X Ids) /\ excused \subseteq Stores
  BY StoreAssumption DEF Init
<1> QED BY <1>1, <1>2, <1>3 DEF TypeInv, TypeOK, At, MapType, OpType

LEMMA NextTypes == TypeInv /\ [Next]_vars => TypeInv'
<1> SUFFICES ASSUME TypeInv, [Next]_vars PROVE TypeInv'
  OBVIOUS
<1> QED BY OpTypes, MapTypeStep, LockTypeStep, CacheTypeStep, ErasedTypeStep,
        ExcusedTypeStep DEF TypeInv, TypeOK, At, MapType, OpType

\* Every update, crash and damage keeps the store's state in its types
\* (session_store.rs, SessionStore and atomic_write_json).
THEOREM TypeCorrect == Spec => []TypeOK
<1>1. TypeInv => TypeOK
  BY DEF TypeInv
<1> QED BY InitTypes, NextTypes, <1>1, PTL DEF Spec

THEOREM TypesHold == Spec => []TypeInv
BY InitTypes, NextTypes, PTL DEF Spec
-------------------------------------------------------------------------------
(* The lock                                                                    *)

LEMMA OneUpdateStep ==
    ASSUME TypeInv, OneUpdate, [Next]_vars
    PROVE  OneUpdate'
<1> SUFFICES ASSUME NEW t \in Stores, op'[t].pc # "idle"
             PROVE  lock'[ProcOf[t]] = t
  BY DEF OneUpdate, At
<1>0. /\ op \in [Stores -> OpType] /\ lock \in [Procs -> Stores \cup {None}]
      /\ ProcOf \in [Stores -> Procs] /\ None \notin Stores
      /\ op[t].pc # "idle" => lock[ProcOf[t]] = t
  BY StoreAssumption DEF TypeInv, TypeOK, OpType, OneUpdate, At
<1>1. ASSUME NEW s \in Stores, NEW id \in Ids, NEW v \in Values \cup {None}, Update(s, id, v)
      PROVE  lock'[ProcOf[t]] = t
  BY <1>0, <1>1 DEF Update
<1>2. ASSUME NEW s \in Stores, op[s].pc # "idle", lock' = lock,
             \A u \in Stores : u # s => op'[u] = op[u]
      PROVE  lock'[ProcOf[t]] = t
  BY <1>0, <1>2 DEF OneUpdate, At
<1>3. ASSUME NEW s \in Stores, Load(s)
      PROVE  op[s].pc # "idle" /\ lock' = lock /\ \A u \in Stores : u # s => op'[u] = op[u]
  BY <1>0, <1>3 DEF Load, At, OpType
<1>4. ASSUME NEW s \in Stores, Check(s) \/ Backup(s) \/ WriteTemp(s)
      PROVE  op[s].pc # "idle" /\ lock' = lock /\ \A u \in Stores : u # s => op'[u] = op[u]
  BY <1>0, <1>4 DEF Check, Backup, WriteTemp, At, Goto
<1>5. ASSUME NEW s \in Stores, op[s].pc # "idle", Release(s)
      PROVE  lock'[ProcOf[t]] = t
  <2>1. op' = [op EXCEPT ![s] = Idle] /\ lock' = [lock EXCEPT ![ProcOf[s]] = None]
        /\ lock[ProcOf[s]] = s /\ Idle.pc = "idle"
    BY <1>5 DEF Release, OneUpdate, At, Idle
  <2>2. t # s /\ op'[t] = op[t]
    BY <1>0, <2>1
  <2>3. ProcOf[t] # ProcOf[s]
    BY <1>0, <2>1, <2>2
  <2> QED BY <1>0, <2>1, <2>2, <2>3
<1>6. ASSUME NEW s \in Stores, Skip(s) \/ WriteFails(s) \/ Replace(s)
      PROVE  op[s].pc # "idle" /\ Release(s)
  BY <1>6 DEF Skip, WriteFails, Replace, At
<1>7. ASSUME NEW p \in Procs, Crash(p)
      PROVE  lock'[ProcOf[t]] = t
  <2>1. /\ op' = [s \in Stores |-> IF ProcOf[s] = p THEN Idle ELSE op[s]]
        /\ lock' = [lock EXCEPT ![p] = None] /\ Idle.pc = "idle"
    BY <1>7 DEF Crash, Idle
  <2> QED BY <1>0, <2>1
<1>8. CASE UNCHANGED vars \/ Damage \/ \E s \in Stores : Get(s)
  BY <1>0, <1>8 DEF vars, Damage, Get
<1> QED BY <1>1, <1>2, <1>3, <1>4, <1>5, <1>6, <1>7, <1>8 DEF Next, Step

\* session_store_lock: in a process one update runs at a time, whatever crashes or
\* fails (session_store.rs, update).
THEOREM OneUpdateHolds == Spec => []OneUpdate
<1>1. Init => OneUpdate
  BY DEF Init, OneUpdate, At, Idle
<1> QED BY <1>1, OneUpdateStep, TypesHold, PTL DEF Spec

-------------------------------------------------------------------------------
(* The file is never torn                                                      *)

LEMMA NeverTornStep ==
    ASSUME TypeInv, NeverTorn, [Next]_vars
    PROVE  NeverTorn'
<1>1. CASE Damage
  <2>1. damage \in Nat /\ map' = Bytes(damage + 1)
    BY <1>1, StoreAssumption DEF Damage, TypeInv, TypeOK
  <2> QED BY <2>1 DEF NeverTorn, Bytes
<1>2. ASSUME NEW s \in Stores, Step(s)
      PROVE  map' = map \/ map'.state # "bytes"
  BY <1>2 DEF Step, Update, Load, Check, Backup, Skip, WriteTemp, WriteFails, Replace, Get,
              MapOf, Missing
<1>3. CASE (\E p \in Procs : Crash(p)) \/ UNCHANGED vars
  BY <1>3 DEF Crash, vars, NeverTorn
<1> QED BY <1>1, <1>2, <1>3 DEF Next, NeverTorn

\* atomic_write_json: whichever of the stores' steps a crash comes between, and
\* however many processes write, the file is bytes only where it was damaged.
THEOREM NeverTornHolds == Spec => []NeverTorn
<1>1. Init => NeverTorn
  BY DEF Init, NeverTorn, Missing, MapOf
<1> QED BY <1>1, NeverTornStep, TypesHold, PTL DEF Spec

\* load and update: a cache is replaced only by a map that the file has in the
\* same step, when reads do not fail.
THEOREM CachesAreHonest ==
    ASSUME ~ReadErrors PROVE Spec => CacheFromFile
<1>1. ASSUME TypeInv, [Next]_vars, NEW t \in Stores
      PROVE  cache'[t] \in {cache[t], None, map'.sessions}
  <2>0. cache \in [Stores -> Sessions \cup {None}] /\ load_file = {map.sessions}
    BY <1>1 DEF TypeInv, TypeOK, load_file
  <2>1. ASSUME NEW s \in Stores, Replace(s)
        PROVE  cache'[t] \in {cache[t], None, map'.sessions}
    BY <2>0, <2>1 DEF Replace, MapOf
  <2>2. ASSUME NEW s \in Stores, Get(s)
        PROVE  cache'[t] \in {cache[t], None, map'.sessions}
    BY <2>0, <2>2 DEF Get
  <2>3. ASSUME NEW s \in Stores,
               \/ \E id \in Ids, v \in Values \cup {None} : Update(s, id, v)
               \/ Load(s) \/ Check(s) \/ Backup(s) \/ Skip(s) \/ WriteTemp(s) \/ WriteFails(s)
        PROVE  cache' = cache
    BY <2>3 DEF Update, Load, Check, Backup, Skip, WriteTemp, WriteFails
  <2>4. ASSUME NEW p \in Procs, Crash(p)
        PROVE  cache'[t] \in {cache[t], None}
    BY <2>4 DEF Crash
  <2>5. CASE Damage \/ UNCHANGED vars
    BY <2>5 DEF Damage, vars
  <2> QED BY <1>1, <2>1, <2>2, <2>3, <2>4, <2>5 DEF Next, Step
<1>2. TypeInv /\ [Next]_vars =>
         [\A s \in Stores : cache'[s] \in {cache[s], None, map'.sessions}]_vars
  BY <1>1
<1> QED BY <1>2, TypesHold, PTL DEF Spec, CacheFromFile

-------------------------------------------------------------------------------
(* One process                                                                 *)

\* What an update knows: a missing or damaged file reads as empty, what was read
\* is what an undamaged file has, and a backup is made of damaged bytes where there
\* is none.
Alone ==
    /\ map.state # "map" => map.sessions = Empty
    /\ BaseIsMap
    /\ \A s \in Stores : At(s, "backup") => map.state = "bytes" /\ backup = 0

IndInv == TypeInv /\ OneUpdate /\ Alone

\* With one lock a store that is not idle is the only one.
LEMMA OnlyOne ==
    ASSUME OneProcess, OneUpdate,
           NEW s \in Stores, NEW t \in Stores, ~At(s, "idle"), ~At(t, "idle")
    PROVE  s = t
BY DEF OneProcess, OneUpdate

\* An update in progress keeps Alone when it alone moves, and what it knows fits.
LEMMA MoverStep ==
    ASSUME OneProcess, OneUpdate, Alone, NEW s \in Stores, op[s].pc # "idle",
           \A u \in Stores : u # s => op'[u] = op[u],
           map'.state # "map" => map'.sessions = Empty,
           Holding(s)' /\ map'.state = "map" => op'[s].db = map'.sessions,
           op'[s].pc = "backup" => map'.state = "bytes" /\ backup' = 0
    PROVE  Alone'
<1>1. \A u \in Stores : u # s => op'[u].pc = "idle"
  BY OnlyOne DEF At
<1> QED BY <1>1 DEF Alone, BaseIsMap, Holding, At

LEMMA AloneStep ==
    ASSUME OneProcess, ~ReadErrors, IndInv, [Next]_vars
    PROVE  Alone'
<1>0. /\ op \in [Stores -> OpType] /\ OneUpdate /\ Alone
      /\ load_file = {map.sessions} /\ map_file_unreadable = {map.state = "bytes"}
  BY DEF IndInv, TypeInv, TypeOK, OpType, load_file, map_file_unreadable
<1>1. ASSUME NEW s \in Stores, NEW id \in Ids, NEW v \in Values \cup {None}, Update(s, id, v)
      PROVE  Alone'
  BY <1>0, <1>1 DEF Update, Alone, BaseIsMap, Holding, At
<1>2. ASSUME NEW s \in Stores, Load(s)
      PROVE  Alone'
  <2>1. op' = [op EXCEPT ![s].db = map.sessions, ![s].pc = "check"] /\ op[s].pc # "idle"
        /\ map' = map /\ backup' = backup
    BY <1>0, <1>2 DEF Load, Base, At
  <2>2. op'[s].pc = "check" /\ op'[s].db = map.sessions /\ \A u \in Stores : u # s => op'[u] = op[u]
    BY <1>0, <2>1 DEF OpType
  <2> QED BY <1>0, <2>1, <2>2, MoverStep DEF Alone
<1>3. ASSUME NEW s \in Stores, Check(s)
      PROVE  Alone'
  <2>1. /\ op[s].pc = "check" /\ map' = map /\ backup' = backup
        /\ map.state = "map" => op[s].db = map.sessions
        /\ Goto(s, IF map.state = "bytes" /\ backup = 0 THEN "backup" ELSE "change")
    BY <1>0, <1>3 DEF Check, At, Alone, BaseIsMap, Holding
  <2>2. /\ op'[s].db = op[s].db /\ \A u \in Stores : u # s => op'[u] = op[u]
        /\ op'[s].pc = IF map.state = "bytes" /\ backup = 0 THEN "backup" ELSE "change"
    BY <1>0, <2>1 DEF Goto, OpType
  <2> QED BY <1>0, <2>1, <2>2, MoverStep DEF Alone
<1>4. ASSUME NEW s \in Stores, Backup(s)
      PROVE  Alone'
  <2>1. /\ op[s].pc = "backup" /\ map.state = "bytes"
        /\ map' = Missing \/ map' = map
        /\ Goto(s, "change")
    BY <1>0, <1>4 DEF Backup, At, Alone
  <2>2. op'[s].pc = "change" /\ \A u \in Stores : u # s => op'[u] = op[u]
    BY <1>0, <2>1 DEF Goto, OpType
  <2>3. map'.state # "map" /\ map'.sessions = Empty
    BY <1>0, <2>1 DEF Missing, Alone
  <2> QED BY <1>0, <2>1, <2>2, <2>3, MoverStep
<1>5. ASSUME NEW s \in Stores, WriteTemp(s)
      PROVE  Alone'
  <2>1. /\ op[s].pc = "change" /\ map' = map /\ backup' = backup
        /\ map.state = "map" => op[s].db = map.sessions
        /\ Goto(s, "replace")
    BY <1>0, <1>5 DEF WriteTemp, At, Alone, BaseIsMap, Holding
  <2>2. op'[s].db = op[s].db /\ op'[s].pc = "replace" /\ \A u \in Stores : u # s => op'[u] = op[u]
    BY <1>0, <2>1 DEF Goto, OpType
  <2> QED BY <1>0, <2>1, <2>2, MoverStep DEF Alone
<1>6. ASSUME NEW s \in Stores, Skip(s) \/ WriteFails(s) \/ Replace(s)
      PROVE  Alone'
  <2>1. /\ op[s].pc # "idle" /\ op' = [op EXCEPT ![s] = Idle] /\ Idle.pc = "idle"
        /\ map' = map \/ map'.state = "map"
    BY <1>6 DEF Skip, WriteFails, Replace, At, Release, Idle, MapOf
  <2>2. op'[s].pc = "idle" /\ \A u \in Stores : u # s => op'[u] = op[u]
    BY <1>0, <2>1
  <2>3. map'.state # "map" => map'.sessions = Empty
    BY <1>0, <2>1 DEF Alone
  <2> QED BY <1>0, <2>1, <2>2, <2>3, MoverStep DEF Holding
<1>7. ASSUME NEW p \in Procs, Crash(p)
      PROVE  Alone'
  <2>1. /\ op' = [s \in Stores |-> IF ProcOf[s] = p THEN Idle ELSE op[s]]
        /\ Idle.pc = "idle" /\ map' = map /\ backup' = backup
    BY <1>7 DEF Crash, Idle
  <2>2. \A s \in Stores : op'[s].pc = "idle" \/ op'[s] = op[s]
    BY <2>1
  <2> QED BY <1>0, <2>1, <2>2 DEF Alone, BaseIsMap, Holding, At
<1>8. CASE Damage
  <2>1. map'.sessions = Empty /\ map'.state = "bytes" /\ op' = op /\ backup' = backup
    BY <1>8 DEF Damage, Bytes
  <2> QED BY <1>0, <2>1 DEF Alone, BaseIsMap, At
<1>9. CASE UNCHANGED vars \/ \E s \in Stores : Get(s)
  BY <1>0, <1>9 DEF vars, Get, Alone, BaseIsMap, Holding, At
<1> QED BY <1>1, <1>2, <1>3, <1>4, <1>5, <1>6, <1>7, <1>8, <1>9 DEF Next, Step

LEMMA Inductive ==
    ASSUME OneProcess, ~ReadErrors PROVE Spec => []IndInv
<1>1. Init => IndInv
  <2>1. Init => OneUpdate /\ Alone
    BY DEF Init, OneUpdate, Alone, BaseIsMap, Holding, At, Idle, Missing, MapOf
  <2> QED BY <2>1, InitTypes DEF IndInv
<1>2. IndInv /\ [Next]_vars => IndInv'
  BY NextTypes, OneUpdateStep, AloneStep DEF IndInv
<1> QED BY <1>1, <1>2, PTL DEF Spec

\* update: while one process has the file to itself, what an update read is what
\* the file has, if it is a map, until the update replaces it.
THEOREM BaseHolds ==
    ASSUME OneProcess, ~ReadErrors PROVE Spec => []BaseIsMap
<1>1. IndInv => BaseIsMap
  BY DEF IndInv, Alone
<1> QED BY <1>1, Inductive, PTL

\* backup_unreadable_map: with one process a backup is never overwritten.  (With
\* two it is: MCSessionStoreBackup.)
THEOREM BackupsStay ==
    ASSUME OneProcess, ~ReadErrors PROVE Spec => BackupStays
<1>1. ASSUME IndInv, [Next]_vars, backup # 0
      PROVE  backup' = backup
  <2>1. ASSUME NEW s \in Stores, Backup(s)
        PROVE  FALSE
    BY <1>1, <2>1 DEF Backup, IndInv, Alone
  <2> QED BY <1>1, <2>1 DEF Next, Step, Update, Load, Check, Skip, WriteTemp, WriteFails,
                            Replace, Get, Crash, Damage, vars
<1>2. IndInv /\ [Next]_vars => [backup # 0 => backup' = backup]_vars
  BY <1>1
<1> QED BY <1>2, Inductive, PTL DEF Spec, BackupStays

-------------------------------------------------------------------------------
(* The stores implement SessionMap                                             *)

\* Contents of given updates and a given file.
HeldBy(o, s) == o[s].pc \in {"check", "backup", "change", "replace"}
ContentsOf(o, m) == IF m.state # "map" /\ \E s \in Stores : HeldBy(o, s)
                    THEN o[CHOOSE s \in Stores : HeldBy(o, s)].db ELSE m.sessions

\* Where a store is the only one that is not idle, its base is the one that counts.
LEMMA TheHolder ==
    ASSUME NEW o, NEW m, NEW s \in Stores, \A u \in Stores : u # s => o[u].pc = "idle"
    PROVE  ContentsOf(o, m) = IF m.state # "map" /\ HeldBy(o, s) THEN o[s].db ELSE m.sessions
<1>1. \A u \in Stores : HeldBy(o, u) => u = s
  BY DEF HeldBy
<1>2. CASE HeldBy(o, s)
  <2>1. (CHOOSE u \in Stores : HeldBy(o, u)) = s
    BY <1>1, <1>2
  <2> QED BY <1>2, <2>1 DEF ContentsOf
<1>3. CASE ~HeldBy(o, s)
  BY <1>1, <1>3 DEF ContentsOf
<1> QED BY <1>2, <1>3

LEMMA ContentsAre ==
    /\ Contents = ContentsOf(op, map)
    /\ Contents' = ContentsOf(op', map')
BY DEF Contents, ContentsOf, Holding, HeldBy

LEMMA InitMaps == Init => Map!Init
<1>1. Init => Contents = map.sessions
  BY DEF Init, Contents, Holding, Idle
<1> QED BY <1>1, EmptyType DEF Init, Map!Init, Missing, MapOf, Sessions

\* A step of a store that is not idle before or after it, and the only one.
LEMMA MoverMaps ==
    ASSUME IndInv, OneProcess, ~ReadErrors, NEW s \in Stores, Step(s),
           \A u \in Stores : u # s => op[u].pc = "idle" /\ op'[u].pc = "idle"
    PROVE  [Map!Next]_Contents
<1>0. /\ op \in [Stores -> OpType] /\ Alone /\ load_file = {map.sessions}
      /\ op[s].pc # "idle" => op[s].id \in Ids
      /\ op[s].value \in Values \cup {None}
  BY DEF IndInv, TypeInv, TypeOK, OpType, At, load_file
<1> DEFINE c == IF map.state # "map" /\ HeldBy(op, s) THEN op[s].db ELSE map.sessions
           d == IF map'.state # "map" /\ HeldBy(op', s) THEN op'[s].db ELSE map'.sessions
<1>c. Contents = c /\ Contents' = d
  <2>1. Contents = ContentsOf(op, map) /\ Contents' = ContentsOf(op', map')
    BY ContentsAre
  <2>2. ContentsOf(op, map) = c
    BY TheHolder
  <2>3. ContentsOf(op', map') = d
    BY TheHolder
  <2> QED BY <2>1, <2>2, <2>3
<1>1. CASE \E id \in Ids, v \in Values \cup {None} : Update(s, id, v)
  <2>1. map' = map /\ op[s].pc = "idle" /\ op'[s].pc = "load"
    BY <1>0, <1>1 DEF Update, At
  <2> QED BY <1>c, <2>1 DEF HeldBy
<1>2. CASE Load(s)
  <2>1. map' = map /\ op[s].pc = "load" /\ op'[s].db = map.sessions
    BY <1>0, <1>2 DEF Load, Base, At, OpType
  <2> QED BY <1>c, <2>1 DEF HeldBy
<1>3. CASE Check(s) \/ WriteTemp(s)
  <2>1. map' = map /\ HeldBy(op, s) /\ HeldBy(op', s) /\ op'[s].db = op[s].db
    BY <1>0, <1>3 DEF Check, WriteTemp, Goto, At, HeldBy, OpType
  <2> QED BY <1>c, <2>1
<1>4. CASE Backup(s)
  <2>1. map' = Missing \/ map' = map
    BY <1>4 DEF Backup
  <2>2. map.state = "bytes" /\ HeldBy(op, s) /\ HeldBy(op', s) /\ op'[s].db = op[s].db
    BY <1>0, <1>4 DEF Backup, Goto, At, HeldBy, OpType, Alone
  <2> QED BY <1>c, <2>1, <2>2 DEF Missing
<1>5. CASE Skip(s) \/ WriteFails(s)
  <2>1. map' = map /\ HeldBy(op, s) /\ ~HeldBy(op', s)
    BY <1>0, <1>5 DEF Skip, WriteFails, Release, At, HeldBy, OpType, Idle
  <2>2. Contents' = map.sessions
    BY <1>c, <2>1
  <2>3. CASE map.state = "map"
    BY <1>c, <2>2, <2>3
  <2>4. CASE map.state # "map"
    BY <1>0, <2>2, <2>4 DEF Alone, Empty, Map!Next, Map!Damaged
  <2> QED BY <2>3, <2>4
<1>6. CASE Replace(s)
  <2>1. map'.sessions = Changed(s) /\ map'.state = "map" /\ op[s].pc = "replace"
    BY <1>6 DEF Replace, MapOf, At
  <2>2. Contents' = Changed(s)
    BY <1>c, <2>1
  <2>3. Contents = op[s].db
    BY <1>0, <1>c, <2>1 DEF Alone, BaseIsMap, Holding, HeldBy
  <2>4. Map!Put(op[s].id, op[s].value)
    BY <2>2, <2>3 DEF Map!Put, Changed
  <2> QED BY <1>0, <2>1, <2>4 DEF Map!Next
<1>7. CASE Get(s)
  BY <1>c, <1>7 DEF Get
<1> QED BY <1>1, <1>2, <1>3, <1>4, <1>5, <1>6, <1>7 DEF Step

LEMMA NextMaps ==
    ASSUME OneProcess, ~ReadErrors, IndInv, [Next]_vars
    PROVE  [Map!Next]_Contents
<1>0. /\ op \in [Stores -> OpType] /\ OneUpdate /\ Alone /\ ProcOf \in [Stores -> Procs]
      /\ None \notin Stores
  BY StoreAssumption DEF IndInv, TypeInv, TypeOK, OpType
<1>1. ASSUME NEW s \in Stores, Step(s)
      PROVE  [Map!Next]_Contents
  <2>1. \A u \in Stores : u # s => op'[u] = op[u]
    BY <1>0, <1>1 DEF Step, Update, Load, Check, Backup, Skip, WriteTemp, WriteFails, Replace,
                      Get, Goto, Release
  <2>2. CASE Get(s)
    <3>1. Contents' = Contents
      BY <2>2, ContentsAre DEF Get
    <3> QED BY <3>1
  <2>3. CASE ~Get(s)
    <3>1. \A u \in Stores : u # s => op[u].pc = "idle"
      <4>1. CASE op[s].pc # "idle"
        BY <4>1, <1>0, OnlyOne DEF At
      <4>2. CASE op[s].pc = "idle"
        <5>1. lock[ProcOf[s]] = None
          BY <1>1, <2>3, <4>2 DEF Step, Update, Load, Check, Backup, Skip, WriteTemp,
                                  WriteFails, Replace, At
        <5> QED BY <1>0, <5>1 DEF OneProcess, OneUpdate, At
      <4> QED BY <4>1, <4>2
    <3> QED BY <1>1, <2>1, <3>1, MoverMaps
  <2> QED BY <2>2, <2>3
<1>2. ASSUME map.state # "map" => map'.state # "map", map.state = "map" => map' = map,
             map'.state # "map" => map'.sessions = Empty,
             \A s \in Stores : op'[s] = op[s] \/ op'[s].pc = "idle"
      PROVE  [Map!Next]_Contents
  <2>1. CASE \A s \in Stores : op[s].pc = "idle"
    <3>1. \A s \in Stores : ~Holding(s) /\ ~Holding(s)'
      BY <1>2, <2>1 DEF Holding
    <3>2. Contents = map.sessions /\ Contents' = map'.sessions
      BY <3>1 DEF Contents
    <3> QED BY <1>0, <1>2, <3>2 DEF Alone
  <2>2. ASSUME NEW s \in Stores, op[s].pc # "idle"
        PROVE  [Map!Next]_Contents
    <3>1. \A u \in Stores : u # s => op[u].pc = "idle"
      BY <1>0, <2>2, OnlyOne DEF At
    <3>2. \A u \in Stores : u # s => op'[u].pc = "idle"
      BY <1>2, <3>1
    <3>3. Contents = IF map.state # "map" /\ HeldBy(op, s) THEN op[s].db ELSE map.sessions
      BY <3>1, TheHolder, ContentsAre
    <3>4. Contents' = IF map'.state # "map" /\ HeldBy(op', s) THEN op'[s].db ELSE map'.sessions
      BY <3>2, TheHolder, ContentsAre
    <3>5. op'[s] = op[s] \/ ~HeldBy(op', s)
      BY <1>2 DEF HeldBy
    <3>6. Contents' = Contents \/ Contents' = Empty
      BY <1>0, <1>2, <3>3, <3>4, <3>5 DEF Alone, HeldBy
    <3> QED BY <3>6 DEF Empty, Map!Next, Map!Damaged
  <2> QED BY <2>1, <2>2
<1>3. CASE Damage
  <2>1. op' = op /\ map'.state = "bytes" /\ map'.sessions = Empty
    BY <1>3 DEF Damage, Bytes
  <2>2. CASE map.state # "map"
    BY <1>2, <2>1, <2>2
  <2>3. CASE \A s \in Stores : op[s].pc = "idle"
    <3>1. \A s \in Stores : ~Holding(s)'
      BY <2>1, <2>3 DEF Holding
    <3>2. Contents' = Empty
      BY <2>1, <3>1 DEF Contents
    <3> QED BY <3>2 DEF Empty, Map!Next, Map!Damaged
  <2>4. ASSUME map.state = "map", NEW s \in Stores, op[s].pc # "idle"
        PROVE  [Map!Next]_Contents
    <3>1. \A u \in Stores : u # s => op[u].pc = "idle" /\ op'[u].pc = "idle"
      BY <1>0, <2>1, <2>4, OnlyOne DEF At
    <3>2. Contents = map.sessions
      BY <2>4 DEF Contents
    <3>3. Contents' = IF HeldBy(op, s) THEN op[s].db ELSE Empty
      <4>1. Contents' = IF map'.state # "map" /\ HeldBy(op', s) THEN op'[s].db ELSE map'.sessions
        BY <3>1, TheHolder, ContentsAre
      <4> QED BY <2>1, <4>1
    <3>4. HeldBy(op, s) => op[s].db = map.sessions
      BY <1>0, <2>4 DEF Alone, BaseIsMap, Holding, HeldBy
    <3>5. Contents' = Contents \/ Contents' = Empty
      BY <3>2, <3>3, <3>4
    <3> QED BY <3>5 DEF Empty, Map!Next, Map!Damaged
  <2> QED BY <2>2, <2>3, <2>4
<1>4. ASSUME NEW p \in Procs, Crash(p)
      PROVE  [Map!Next]_Contents
  <2>1. map' = map /\ op' = [s \in Stores |-> IF ProcOf[s] = p THEN Idle ELSE op[s]]
    BY <1>4 DEF Crash
  <2>2. \A s \in Stores : op'[s] = op[s] \/ op'[s].pc = "idle"
    BY <2>1 DEF Idle
  <2> QED BY <1>0, <1>2, <2>1, <2>2 DEF Alone
<1>5. CASE UNCHANGED vars
  <2>1. Contents' = Contents
    BY <1>5, ContentsAre DEF vars
  <2> QED BY <2>1
<1> QED BY <1>1, <1>3, <1>4, <1>5 DEF Next

\* update: across crashes, failed writes and any number of stores of the process
\* the file changes by one entry at a time, or is damaged by something else; damage
\* under an update counts only if the update ends without a write.
THEOREM Implements ==
    ASSUME OneProcess, ~ReadErrors PROVE Spec => ImplementsMap
BY InitMaps, NextMaps, Inductive, PTL DEF Spec, ImplementsMap, Map!Spec

-------------------------------------------------------------------------------
(* Damage is kept                                                              *)

\* No update gets past its check with damaged bytes in the file and no backup,
\* unless it is excused.
DamageKept ==
    /\ NeverTorn
    /\ \A s \in Stores : Checked(s) /\ s \notin excused =>
          backup # 0 \/ map.state # "bytes"

LEMMA DamageKeptStep ==
    ASSUME OneProcess, ~ReadErrors, IndInv, DamageKept, [Next]_vars
    PROVE  DamageKept'
<1>0. /\ op \in [Stores -> OpType] /\ Alone /\ map_file_unreadable = {map.state = "bytes"}
      /\ OneUpdate /\ NeverTorn /\ NeverTorn'
  BY NeverTornStep DEF IndInv, TypeInv, TypeOK, OpType, map_file_unreadable, DamageKept
<1>1. CASE Damage
  <2>1. excused' = excused \cup {s \in Stores : Checked(s)} /\ op' = op
    BY <1>1 DEF Damage
  <2>2. \A s \in Stores : Checked(s)' => s \in excused'
    BY <2>1 DEF Checked
  <2> QED BY <1>0, <2>2 DEF DamageKept
<1>2. ASSUME NEW s \in Stores, \A u \in Stores : u # s => op'[u].pc = "idle",
             Checked(s)' /\ s \notin excused' => backup' # 0 \/ map'.state # "bytes"
      PROVE  DamageKept'
  BY <1>0, <1>2 DEF DamageKept, Checked
<1>3. ASSUME NEW s \in Stores, op[s].pc # "idle", \A u \in Stores : u # s => op'[u] = op[u]
      PROVE  \A u \in Stores : u # s => op'[u].pc = "idle"
  BY <1>3, <1>0, OnlyOne DEF At
<1>4. ASSUME NEW s \in Stores, Check(s)
      PROVE  DamageKept'
  <2>1. /\ op[s].pc = "check" /\ map' = map /\ backup' = backup
        /\ Goto(s, IF map.state = "bytes" /\ backup = 0 THEN "backup" ELSE "change")
    BY <1>0, <1>4 DEF Check, At
  <2>2. /\ op'[s].pc = IF map.state = "bytes" /\ backup = 0 THEN "backup" ELSE "change"
        /\ \A u \in Stores : u # s => op'[u] = op[u]
    BY <1>0, <2>1 DEF Goto, OpType
  <2>3. \A u \in Stores : u # s => op'[u].pc = "idle"
    BY <1>3, <2>1, <2>2
  <2> QED BY <1>2, <2>1, <2>2, <2>3 DEF Checked
<1>5. ASSUME NEW s \in Stores, Backup(s)
      PROVE  DamageKept'
  <2>1. op[s].pc = "backup" /\ Goto(s, "change")
    BY <1>5 DEF Backup, At
  <2>2. \A u \in Stores : u # s => op'[u] = op[u]
    BY <1>0, <2>1 DEF Goto
  <2>3. \A u \in Stores : u # s => op'[u].pc = "idle"
    BY <1>3, <2>1, <2>2
  <2>4. s \in excused' \/ map'.state # "bytes"
    BY <1>5 DEF Backup, Missing
  <2> QED BY <1>2, <2>3, <2>4
<1>6. ASSUME NEW s \in Stores, WriteTemp(s)
      PROVE  DamageKept'
  <2>1. op[s].pc = "change" /\ Goto(s, "replace") /\ map' = map /\ backup' = backup
        /\ excused' = excused
    BY <1>6 DEF WriteTemp, At
  <2>2. \A u \in Stores : u # s => op'[u] = op[u]
    BY <1>0, <2>1 DEF Goto
  <2>3. \A u \in Stores : u # s => op'[u].pc = "idle"
    BY <1>3, <2>1, <2>2
  <2> QED BY <1>2, <2>1, <2>3 DEF DamageKept, Checked
<1>7. ASSUME NEW s \in Stores, Skip(s) \/ WriteFails(s) \/ Replace(s)
      PROVE  DamageKept'
  <2>1. op[s].pc # "idle" /\ op' = [op EXCEPT ![s] = Idle] /\ Idle.pc = "idle"
    BY <1>7 DEF Skip, WriteFails, Replace, Release, At, Idle
  <2>2. op'[s].pc = "idle" /\ \A u \in Stores : u # s => op'[u] = op[u]
    BY <1>0, <2>1
  <2>3. \A u \in Stores : u # s => op'[u].pc = "idle"
    BY <1>3, <2>1, <2>2
  <2> QED BY <1>2, <2>2, <2>3 DEF Checked
<1>8. ASSUME map' = map, backup' = backup,
             \A s \in Stores : \/ ~Checked(s)'
                               \/ op'[s] = op[s] /\ (s \in excused => s \in excused')
      PROVE  DamageKept'
  BY <1>0, <1>8 DEF DamageKept, Checked
<1>9. ASSUME NEW p \in Procs, Crash(p)
      PROVE  DamageKept'
  <2>1. /\ op' = [s \in Stores |-> IF ProcOf[s] = p THEN Idle ELSE op[s]]
        /\ excused' = excused \ {s \in Stores : ProcOf[s] = p}
        /\ Idle.pc = "idle" /\ map' = map /\ backup' = backup
    BY <1>9 DEF Crash, Idle
  <2>2. ASSUME NEW s \in Stores
        PROVE  ~Checked(s)' \/ (op'[s] = op[s] /\ (s \in excused => s \in excused'))
    <3>1. CASE ProcOf[s] = p
      BY <2>1, <3>1 DEF Checked
    <3>2. CASE ProcOf[s] # p
      BY <2>1, <3>2
    <3> QED BY <3>1, <3>2
  <2> QED BY <1>8, <2>1, <2>2
<1>10. ASSUME NEW s \in Stores,
              (\E id \in Ids, v \in Values \cup {None} : Update(s, id, v)) \/ Load(s)
       PROVE  DamageKept'
  <2>1. map' = map /\ backup' = backup /\ excused' = excused
    BY <1>10 DEF Update, Load
  <2>2. ASSUME NEW id \in Ids, NEW v \in Values \cup {None}, Update(s, id, v)
        PROVE  op'[s].pc = "load" /\ \A u \in Stores : u # s => op'[u] = op[u]
    BY <1>0, <2>2 DEF Update
  <2>3. ASSUME Load(s)
        PROVE  op'[s].pc = "check" /\ \A u \in Stores : u # s => op'[u] = op[u]
    <3>1. PICK db \in Base(s) : op' = [op EXCEPT ![s].db = db, ![s].pc = "check"]
      BY <2>3 DEF Load
    <3> QED BY <1>0, <3>1 DEF OpType
  <2>4. op'[s].pc \in {"load", "check"} /\ \A u \in Stores : u # s => op'[u] = op[u]
    BY <1>10, <2>2, <2>3
  <2>5. \A u \in Stores : ~Checked(u)' \/ (op'[u] = op[u] /\ (u \in excused => u \in excused'))
    BY <2>1, <2>4 DEF Checked
  <2> QED BY <1>8, <2>1, <2>5
<1>11. CASE UNCHANGED vars \/ \E s \in Stores : Get(s)
  <2>1. map' = map /\ backup' = backup /\ op' = op /\ excused' = excused
    BY <1>11 DEF vars, Get
  <2> QED BY <1>8, <2>1
<1> QED BY <1>1, <1>4, <1>5, <1>6, <1>7, <1>9, <1>10, <1>11 DEF Next, Step

\* update: while there is no backup, damaged bytes are in one before an update
\* overwrites them, unless their rename failed or they came after its check; and no
\* write tears the file.
THEOREM DamageIsKept ==
    ASSUME OneProcess, ~ReadErrors PROVE Spec => BytesKept
<1>1. Init => DamageKept
  BY DEF Init, DamageKept, NeverTorn, Checked, Idle, Missing, MapOf
<1>2. IndInv /\ DamageKept /\ [Next]_vars => DamageKept'
  BY DamageKeptStep
<1>3. ASSUME DamageKept, [Next]_vars, map.state = "bytes", map'.state # "bytes", backup = 0
      PROVE  backup' = map.damage \/ \E s \in excused : At(s, "replace")
  <2>1. ASSUME NEW s \in Stores, Replace(s)
        PROVE  s \in excused /\ At(s, "replace")
    BY <1>3, <2>1 DEF Replace, At, Checked, DamageKept
  <2>2. ASSUME NEW s \in Stores, Backup(s)
        PROVE  backup' = map.damage
    BY <1>3, <2>2 DEF Backup
  <2>3. ASSUME NEW s \in Stores,
               \/ \E id \in Ids, v \in Values \cup {None} : Update(s, id, v)
               \/ Load(s) \/ Check(s) \/ Skip(s) \/ WriteTemp(s) \/ WriteFails(s) \/ Get(s)
        PROVE  map' = map
    BY <2>3 DEF Update, Load, Check, Skip, WriteTemp, WriteFails, Get
  <2>4. CASE (\E p \in Procs : Crash(p)) \/ Damage \/ UNCHANGED vars
    BY <1>3, <2>4 DEF Crash, Damage, Bytes, vars
  <2> QED BY <1>3, <2>1, <2>2, <2>3, <2>4 DEF Next, Step
<1>4. DamageKept /\ [Next]_vars =>
         [map.state = "bytes" /\ map'.state # "bytes" /\ backup = 0 =>
            backup' = map.damage \/ \E s \in excused : At(s, "replace")]_vars
  BY <1>3
<1> QED BY <1>1, <1>2, <1>4, NeverTornHolds, Inductive, PTL DEF Spec, BackedUp, BytesKept
===============================================================================
