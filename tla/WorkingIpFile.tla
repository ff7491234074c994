---------------------------- MODULE WorkingIpFile ----------------------------
(***************************************************************************)
(* The file of the working IP store (dns/working_ip_store.rs), which the   *)
(* tasks of SniStream share: a success is recorded in memory, and when the *)
(* last save is PERSIST_INTERVAL old the whole map is cloned and written   *)
(* by a thread of its own.                                                 *)
(*                                                                         *)
(* A map is the number of successes in it.  SniStream has what is in the   *)
(* lists.  The history variables say which successes the file has to hold: *)
(* owed those of the last save that was due, saved those of the saves      *)
(* before it.                                                              *)
(***************************************************************************)
EXTENDS HubProcess, FiniteSets

CONSTANTS
  Callers,     \* connects that record a success at the same time
  MaxRecords   \* bound: successes in all

VARIABLES
  data,      \* the map in memory
  due,       \* last_persist is PERSIST_INTERVAL old
  rec,       \* where a caller is in record_success and persist
  clone,     \* data_clone of a caller
  writers,   \* threads that have not finished: id, clone, file truncated, and
             \* another thread at the file since then
  spawned,   \* threads spawned so far
  file,      \* working_ips.json: a map, None or Torn
  records,   \* successes that may still be recorded
  owed,      \* history: the map that the last save has to leave in the file
  saved,     \* history: what was owed when that save was begun
  overlap    \* history: that save was begun during another one

historyVars == <<owed, saved, overlap>>
ipVars == <<data, due, rec, clone, writers, spawned, file, records, historyVars>>

\* A save is under way, from the decision to the end of its thread.
Saving == writers # {} \/ \E c \in Callers : rec[c] # "idle"

\* A thread is between the truncation of the file and the end of its write.
Truncated == \E w \in writers : w.open

IpInit ==
  /\ data = 0 /\ due = FALSE /\ file = None
  /\ rec = [c \in Callers |-> "idle"] /\ clone = [c \in Callers |-> 0]
  /\ writers = {} /\ spawned = 0
  /\ records \in 0..MaxRecords
  /\ owed = 0 /\ saved = 0 /\ overlap = FALSE

\* WorkingIpStore::new
LoadIps ==
  /\ data' = IF file \in {None, Torn} THEN 0 ELSE file
  /\ due' = FALSE
  /\ UNCHANGED <<rec, clone, writers, spawned, file, records, historyVars>>

Elapse ==
  /\ hub = "up" /\ ~due
  /\ due' = TRUE
  /\ UNCHANGED <<hubVars, data, rec, clone, writers, spawned, file, records, historyVars>>

\* A save is begun: it owes the map and all that was owed before, unless the
\* save before it overlapped with another one.
BeginSave(map) ==
  /\ overlap' = Saving
  /\ saved' = IF Saving \/ overlap THEN 0 ELSE owed
  /\ owed' = IF saved' > map THEN saved' ELSE map

\* Mutant: the map is cloned before the success is in it.
RecordSuccess_CloneFirst(c) ==
  /\ hub = "up" /\ rec[c] = "idle" /\ records > 0
  /\ records' = records - 1
  /\ data' = data + 1
  /\ IF due THEN /\ rec' = [rec EXCEPT ![c] = "spawn"]
                 /\ clone' = [clone EXCEPT ![c] = data]
                 /\ BeginSave(data')
            ELSE UNCHANGED <<rec, clone, historyVars>>
  /\ UNCHANGED <<hubVars, due, writers, spawned, file>>

\* record_success, up to the end of the lock: the time of the last save is read
\* here and set later.
RecordSuccess(c) ==
  /\ hub = "up" /\ rec[c] = "idle" /\ records > 0
  /\ records' = records - 1
  /\ data' = data + 1
  /\ IF due THEN rec' = [rec EXCEPT ![c] = "clone"] /\ BeginSave(data')
            ELSE UNCHANGED <<rec, historyVars>>
  /\ UNCHANGED <<hubVars, due, clone, writers, spawned, file>>

\* persist: the clone, under the lock of the map.
Clone(c) ==
  /\ rec[c] = "clone"
  /\ clone' = [clone EXCEPT ![c] = data]
  /\ rec' = [rec EXCEPT ![c] = "spawn"]
  /\ UNCHANGED <<hubVars, data, due, writers, spawned, file, records, historyVars>>

\* persist: the time, and the thread.
Spawn(c) ==
  /\ rec[c] = "spawn"
  /\ due' = FALSE
  /\ spawned' = spawned + 1
  /\ writers' = writers \cup {[id |-> spawned, map |-> clone[c],
                                  open |-> FALSE, mixed |-> FALSE]}
  /\ rec' = [rec EXCEPT ![c] = "idle"] /\ clone' = [clone EXCEPT ![c] = 0]
  /\ UNCHANGED <<hubVars, data, file, records, historyVars>>

\* The thread: fs::write truncates the file and writes it, in no order with
\* the other threads.
OpenIps(w) ==
  /\ ~w.open
  /\ file' = Torn
  /\ writers' = {[v EXCEPT !.open = @ \/ v = w,
                           !.mixed = @ \/ v.open \/ (v = w /\ Truncated)] : v \in writers}
  /\ UNCHANGED <<hubVars, data, due, rec, clone, spawned, records, historyVars>>

\* Threads that write at the same time may leave a mixture.
WriteIps(w) ==
  /\ w.open
  /\ file' = w.map \/ (w.mixed /\ file' = Torn)
  /\ writers' = writers \ {w}
  /\ UNCHANGED <<hubVars, data, due, rec, clone, spawned, records, historyVars>>

\* Without the save under way the file has to hold what it held before, and
\* nothing if it has been truncated.
SaveLost == owed' = IF Truncated THEN 0 ELSE saved

\* An open or a write that fails is logged.
WriteIpsFails(w) ==
  /\ file' = file \/ (w.open /\ file' = Torn)
  /\ writers' = writers \ {w}
  /\ SaveLost
  /\ UNCHANGED <<hubVars, data, due, rec, clone, spawned, records, saved, overlap>>

\* A kill ends the save under way.
IpKilled ==
  /\ data' = 0 /\ due' = FALSE
  /\ rec' = [c \in Callers |-> "idle"] /\ clone' = [c \in Callers |-> 0]
  /\ writers' = {}
  /\ IF Saving THEN SaveLost ELSE UNCHANGED owed
  /\ UNCHANGED <<spawned, file, records, saved, overlap>>

Store ==
  \/ Elapse
  \/ \E c \in Callers : RecordSuccess(c) \/ Clone(c) \/ Spawn(c)
  \/ \E w \in writers : OpenIps(w) \/ WriteIps(w) \/ WriteIpsFails(w)

-----------------------------------------------------------------------------
(* Properties *)

\* The file holds every success that a save has put into it, from one save to
\* the next and over kills and restarts, also when a kill or an error ends a later
\* save before its thread has opened the file; and once nothing is being saved,
\* the success that began the last save.  Two exceptions, both of which the code
\* has.  From the truncation to the end of the write the file is not whole, and a
\* kill or an error there loses all that was saved: the promise begins again with
\* the next save.  When a save was begun during another one the older map may be
\* written last or both be mixed: it begins again with the next save that is
\* alone.
SavedSuccessStays ==
  LET promised == IF Saving THEN saved ELSE owed IN
  ~overlap /\ ~Truncated /\ promised > 0 => file \notin {None, Torn} /\ file >= promised

=============================================================================
