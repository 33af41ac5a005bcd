--------------------------- MODULE JSONFileStore ----------------------------
(***************************************************************************)
(* The JSON file store of persist/json_file.go: Save and Delete read the   *)
(* whole file, write the changed map to a temporary file, remove the old   *)
(* file and rename the temporary one, all under one lock.  Each call of    *)
(* the operating system may fail, and the process may end between any two  *)
(* of them and be started again.                                           *)
(***************************************************************************)
EXTENDS GoMap

CONSTANTS
    Players, Values,    \* player ids and the contents of their records
    Callers,            \* goroutines that save or delete
    NoCaller            \* the lock is free

ASSUME StoreAssumption == NoCaller \notin Callers

VARIABLES
    file,       \* the file: {} if it does not exist, else {its map of players}
    lock,       \* JSONFileStore.lock
    pc,         \* caller -> "idle", "write", "remove", "rename"
    pending,    \* caller -> the map it is about to write
    change,     \* caller -> the player it changes
    saved,      \* history: the players as the renames that took place left them
    cut         \* history: how calls ended between removal and rename: elements
                \* are "failure" (of the rename) and "crash"

storeVars == <<file, lock, pc, pending, change, saved, cut>>

-----------------------------------------------------------------------------
\* readLocked: a file that does not exist holds no players.
readLocked == IF file = {} THEN Empty ELSE CHOOSE players \in file : TRUE

StoreInit ==
    /\ file = {}
    /\ lock = NoCaller
    /\ pc = [k \in Callers |-> "idle"]
    /\ pending = [k \in Callers |-> Empty]
    /\ change \in [Callers -> Players]
    /\ saved = Empty
    /\ cut = {}

\* Mutant: nobody waits for the lock.
neverLocked == TRUE
unlocked == lock = NoCaller

\* Lock, read the file and change the map in memory.
begin(k, p, players) ==
    /\ pc[k] = "idle" /\ unlocked
    /\ lock' = k
    /\ pending' = [pending EXCEPT ![k] = players]
    /\ change' = [change EXCEPT ![k] = p]
    /\ pc' = [pc EXCEPT ![k] = "write"]
    /\ UNCHANGED <<file, saved, cut>>

Save(k, p, v) == begin(k, p, Put(readLocked, p, v))

Remove(k, p) == p \in DOMAIN readLocked /\ begin(k, p, Delete(readLocked, {p}))

\* writeLocked writes and closes the temporary file ...
WriteTemporary(k) ==
    /\ pc[k] = "write"
    /\ pc' = [pc EXCEPT ![k] = "remove"]
    /\ UNCHANGED <<file, lock, pending, change, saved, cut>>

\* ... removes the old file ...
RemoveOld(k) ==
    /\ pc[k] = "remove"
    /\ file' = {}
    /\ pc' = [pc EXCEPT ![k] = "rename"]
    /\ UNCHANGED <<lock, pending, change, saved, cut>>

\* ... and renames the temporary one, which is what the caller is told of.
Rename(k) ==
    /\ pc[k] = "rename"
    /\ file' = {pending[k]}
    /\ saved' = IF change[k] \in DOMAIN pending[k]
                THEN Put(saved, change[k], pending[k][change[k]])
                ELSE Delete(saved, {change[k]})
    /\ pc' = [pc EXCEPT ![k] = "idle"]
    /\ lock' = NoCaller
    /\ UNCHANGED <<pending, change, cut>>

\* A call of the operating system fails: the temporary file is removed and
\* the error returned.
Fail(k) ==
    /\ pc[k] # "idle"
    /\ cut' = IF pc[k] = "rename" THEN cut \cup {"failure"} ELSE cut
    /\ pc' = [pc EXCEPT ![k] = "idle"]
    /\ lock' = NoCaller
    /\ UNCHANGED <<file, pending, change, saved>>

\* The process ends and is started again; temporary files stay behind.
Crash ==
    /\ cut' = IF \E k \in Callers : pc[k] = "rename" THEN cut \cup {"crash"} ELSE cut
    /\ pc' = [k \in Callers |-> "idle"]
    /\ lock' = NoCaller
    /\ UNCHANGED <<file, pending, change, saved>>

StoreNext ==
    \/ \E k \in Callers :
          \/ \E p \in Players : Remove(k, p) \/ \E v \in Values : Save(k, p, v)
          \/ WriteTemporary(k) \/ RemoveOld(k) \/ Rename(k)
          \/ Fail(k)
    \/ Crash

StoreSpec == StoreInit /\ [][StoreNext]_storeVars

-----------------------------------------------------------------------------
\* Between calls the file holds every player as it was last saved, although
\* each call writes back the whole map that it read: concurrent saves do not
\* overwrite each other, and calls that fail or are cut short leave the file
\* as it was, unless one of them ended between the removal and the rename.
Idle == \A k \in Callers : pc[k] = "idle"
NoLostUpdate == Idle /\ cut = {} => readLocked = saved

\* The players outlive a restart: one that was saved, and that no caller was
\* changing, is found again, no call having failed.
SavedPlayersKept ==
    Idle /\ "failure" \notin cut =>
        \A p \in DOMAIN saved : (\A k \in Callers : change[k] # p) => p \in DOMAIN readLocked

=============================================================================
