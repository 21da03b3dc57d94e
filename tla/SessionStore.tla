---------------------------- MODULE SessionStore ----------------------------
(***************************************************************************)
(* session_store.rs: stores that read, change and replace one session map  *)
(* file.  An update holds its process's file lock from the read of the     *)
(* file to its replacement; every file system call is a step, and between  *)
(* two of them other stores run, the process may crash, another program    *)
(* may damage the file.  A store keeps the map it read or wrote last.      *)
(***************************************************************************)
EXTENDS Naturals

CONSTANTS
    Procs,       \* adapter processes
    Stores,      \* stores, each of one process
    ProcOf,      \* the process of each store
    Ids,         \* session ids
    Values,      \* entries: cwd, session file, roots, time of the update
    MaxDamage,   \* bound: times the file is damaged
    ReadErrors,  \* a read of the file may fail, and the next one succeed
    None

ASSUME StoreAssumption ==
    /\ ProcOf \in [Stores -> Procs]
    /\ None \notin Values \cup Stores
    /\ MaxDamage \in Nat

VARIABLES
    map,      \* the file: missing, a map, or bytes that are not a v1 map
    backup,   \* the number of the damage kept in `.corrupt`, 0 when there is none
    lock,     \* session_store_lock of each process: the store that holds it
    cache,    \* SessionStore::cache, None before the first read
    op,       \* the update of each store
    damage,   \* how often the file was damaged
    erased,   \* ghost: stores that deleted an id, and no store put it back since
    excused   \* ghost: stores whose update cannot keep the damaged bytes it writes
              \* over: they could not be renamed, or came after its check

vars == <<map, backup, lock, cache, op, damage, erased, excused>>

-----------------------------------------------------------------------------
Empty == [id \in Ids |-> None]
Missing == [state |-> "missing", sessions |-> Empty, damage |-> 0]
MapOf(db) == [state |-> "map", sessions |-> db, damage |-> 0]
Bytes(n) == [state |-> "bytes", sessions |-> Empty, damage |-> n]

Idle == [pc |-> "idle", id |-> None, value |-> None, db |-> Empty]
Goto(s, pc) == op' = [op EXCEPT ![s].pc = pc]
At(s, pc) == op[s].pc = pc

\* What a read of the file yields: its map, or an empty one when it is missing,
\* damaged or cannot be read.
load_file == {map.sessions} \cup IF ReadErrors THEN {Empty} ELSE {}
\* The second read: the file is there and is no v1 map, or this read fails.
map_file_unreadable == {map.state = "bytes"} \cup
                       IF ReadErrors /\ map.state # "missing" THEN {TRUE} ELSE {}

\* `update`: an upsert of an entry, or a delete when the value is None.
Update(s, id, v) ==
    /\ At(s, "idle") /\ lock[ProcOf[s]] = None
    /\ lock' = [lock EXCEPT ![ProcOf[s]] = s]
    /\ op' = [op EXCEPT ![s] = [pc |-> "load", id |-> id, value |-> v, db |-> Empty]]
    /\ UNCHANGED <<map, backup, cache, damage, erased, excused>>

\* The base of a transaction is the file, never a store's cache.
Base(s) == load_file

Load(s) ==
    /\ At(s, "load")
    /\ \E db \in Base(s) : op' = [op EXCEPT ![s].db = db, ![s].pc = "check"]
    /\ UNCHANGED <<map, backup, lock, cache, damage, erased, excused>>

\* Mutant: nothing is backed up.
Check_Trusts(s) ==
    /\ At(s, "check") /\ Goto(s, "change")
    /\ UNCHANGED <<map, backup, lock, cache, damage, erased, excused>>
Check(s) ==
    /\ At(s, "check")
    /\ \E unreadable \in map_file_unreadable :
          Goto(s, IF unreadable /\ backup = 0 THEN "backup" ELSE "change")
    /\ UNCHANGED <<map, backup, lock, cache, damage, erased, excused>>

\* The damaged file is renamed, and with it whatever came there since the check;
\* or the rename fails, and the update goes on to write over the file all the same.
Backup(s) ==
    /\ At(s, "backup") /\ Goto(s, "change")
    /\ \/ map.state # "missing" /\ map' = Missing /\ backup' = map.damage
          /\ UNCHANGED excused
       \/ UNCHANGED <<map, backup>> /\ excused' = excused \cup {s}
    /\ UNCHANGED <<lock, cache, damage, erased>>

Release(s) ==
    /\ lock' = [lock EXCEPT ![ProcOf[s]] = None]
    /\ op' = [op EXCEPT ![s] = Idle]
    /\ excused' = excused \ {s}

\* A delete of an entry the file does not have writes nothing, and leaves the
\* cache as it is.
Absent(s) == op[s].value = None /\ op[s].db[op[s].id] = None
Erased(s) == IF op[s].value = None THEN erased \cup {<<s, op[s].id>>}
             ELSE {e \in erased : e[2] # op[s].id}
Skip(s) ==
    /\ At(s, "change") /\ Absent(s)
    /\ Release(s) /\ erased' = Erased(s)
    /\ UNCHANGED <<map, backup, cache, damage>>

Changed(s) == [op[s].db EXCEPT ![op[s].id] = op[s].value]

\* Mutant: the lock is let go before the file is replaced.
WriteTemp_Unlocks(s) ==
    /\ At(s, "change") /\ ~Absent(s) /\ Goto(s, "replace")
    /\ lock' = [lock EXCEPT ![ProcOf[s]] = None]
    /\ UNCHANGED <<map, backup, cache, damage, erased, excused>>

\* The temp file is written and synced, or is not and the update is dropped.
WriteTemp(s) ==
    /\ At(s, "change") /\ ~Absent(s) /\ Goto(s, "replace")
    /\ UNCHANGED <<map, backup, lock, cache, damage, erased, excused>>
WriteFails(s) ==
    /\ (At(s, "change") /\ ~Absent(s)) \/ At(s, "replace")
    /\ Release(s)
    /\ UNCHANGED <<map, backup, cache, damage, erased>>

\* The rename: the file is the new map at once, and the store keeps it.
Replace(s) ==
    /\ At(s, "replace") /\ map' = MapOf(Changed(s))
    /\ cache' = [cache EXCEPT ![s] = Changed(s)]
    /\ Release(s) /\ erased' = Erased(s)
    /\ UNCHANGED <<backup, damage>>

\* `get`: the first one reads the file, without its lock.
Get(s) ==
    /\ At(s, "idle") /\ cache[s] = None
    /\ \E db \in load_file : cache' = [cache EXCEPT ![s] = db]
    /\ UNCHANGED <<map, backup, lock, op, damage, erased, excused>>
Served(s, id) == IF cache[s] = None THEN map.sessions[id] ELSE cache[s][id]

\* A process dies at any point, its lock and caches with it; the next one starts
\* with neither.
Crash(p) ==
    LET Of == {s \in Stores : ProcOf[s] = p} IN
    /\ lock' = [lock EXCEPT ![p] = None]
    /\ cache' = [s \in Stores |-> IF s \in Of THEN None ELSE cache[s]]
    /\ op' = [s \in Stores |-> IF s \in Of THEN Idle ELSE op[s]]
    /\ erased' = {e \in erased : e[1] \notin Of} /\ excused' = excused \ Of
    /\ UNCHANGED <<map, backup, damage>>

\* A newer version, another program or a damaged disk: the file is there and is no
\* v1 map.  It takes no lock: an update that has made its check does not see it.
Checked(s) == op[s].pc \in {"change", "replace"}
Damage ==
    /\ damage < MaxDamage /\ damage' = damage + 1
    /\ map' = Bytes(damage + 1)
    /\ excused' = excused \cup {s \in Stores : Checked(s)}
    /\ UNCHANGED <<backup, lock, cache, op, erased>>

-----------------------------------------------------------------------------
Init ==
    /\ map \in {Missing} \cup {MapOf(db) : db \in [Ids -> Values \cup {None}]}
    /\ backup = 0
    /\ lock = [p \in Procs |-> None]
    /\ cache = [s \in Stores |-> None]
    /\ op = [s \in Stores |-> Idle]
    /\ damage = 0 /\ erased = {} /\ excused = {}

Step(s) == \/ \E id \in Ids, v \in Values \cup {None} : Update(s, id, v)
           \/ Load(s) \/ Check(s) \/ Backup(s) \/ Skip(s)
           \/ WriteTemp(s) \/ WriteFails(s) \/ Replace(s) \/ Get(s)
Next == (\E s \in Stores : Step(s)) \/ (\E p \in Procs : Crash(p)) \/ Damage
Spec == Init /\ [][Next]_vars

-----------------------------------------------------------------------------
Sessions == [Ids -> Values \cup {None}]
Pcs == {"idle", "load", "check", "backup", "change", "replace"}

TypeOK ==
    /\ map \in [state : {"missing", "map", "bytes"}, sessions : Sessions, damage : 0..MaxDamage]
    /\ backup \in 0..MaxDamage /\ damage \in 0..MaxDamage
    /\ lock \in [Procs -> Stores \cup {None}]
    /\ cache \in [Stores -> Sessions \cup {None}]
    /\ op \in [Stores -> [pc : Pcs, id : Ids \cup {None}, value : Values \cup {None},
                          db : Sessions]]
    /\ erased \subseteq (Stores \X Ids) /\ excused \subseteq Stores

\* One update at a time in a process (session_store_lock): a store that is not idle
\* holds its process's lock.
OneUpdate == \A s \in Stores : ~At(s, "idle") => lock[ProcOf[s]] = s

\* No update of one process's stores is lost or mixed with another (update, and the
\* comment in it on stale caches), across crashes and failed writes: the file only
\* ever changes by one entry, or is damaged by something else.  Damage that lands
\* while an update holds what it read is undone by the update's write, so it counts
\* only if the update ends without one.
Holding(s) == op[s].pc \in {"check", "backup", "change", "replace"}
Contents == IF map.state # "map" /\ \E s \in Stores : Holding(s)
            THEN op[CHOOSE s \in Stores : Holding(s)].db ELSE map.sessions
Map == INSTANCE SessionMap WITH entries <- Contents
ImplementsMap == Map!Spec

\* What an update takes for the map's contents is what the file has until the
\* update replaces it: no store of the process gets in between (update).
BaseIsMap ==
    \A s \in Stores : Holding(s) /\ map.state = "map" => op[s].db = map.sessions

\* A store's cache is never a map the file did not have: what changes it is a map
\* that the file has in the same step (load, update).
CacheFromFile == [][\A s \in Stores : cache'[s] \in {cache[s], None, map'.sessions}]_vars

\* The adapter's own writes never leave a file that cannot be read, wherever it
\* crashes (atomic_write_json): only damage does.
NeverTorn == map.state = "bytes" => map.damage # 0

\* While there is no backup, a damaged file is overwritten only once its bytes are in
\* one, "recoverable instead of silently lost" (update): the excuses are a rename
\* that failed, which is logged, and damage that comes after the update's check.
BackedUp ==
    [][map.state = "bytes" /\ map'.state # "bytes" /\ backup = 0 =>
         backup' = map.damage \/ \E s \in excused : At(s, "replace")]_vars

\* Both ways to lose the bytes, of a whole file by a torn write and of a damaged one by
\* an update over its only copy, with the excuses above (atomic_write_json, update).
BytesKept == []NeverTorn /\ BackedUp

\* BackedUp whether or not there is a backup, as update's comment says: "Preserve
\* the raw bytes first so they are recoverable instead of silently lost".
BytesRecoverable ==
    [][map.state = "bytes" /\ map'.state # "bytes" =>
         backup' = map.damage \/ \E s \in excused : At(s, "replace")]_vars

\* A backup is not overwritten: one is made "only if no backup exists yet"
\* (backup_unreadable_map).
BackupStays == [][backup # 0 => backup' = backup]_vars

\* The file's entries are not destroyed by an update of another entry (update): two
\* maps in a row differ in one id.
OneEntryAtATime ==
    [][map.state = "map" /\ map'.state = "map" =>
         \E id \in Ids : \A other \in Ids \ {id} :
            map'.sessions[other] = map.sessions[other]]_vars

\* An id that a store deleted is one it no longer serves until it is put back
\* (delete: "Remove an entry").
DeletedIsGone == \A e \in erased : At(e[1], "idle") => Served(e[1], e[2]) = None
=============================================================================
