--------------------------- MODULE ResourceCache ---------------------------
(***************************************************************************)
(* The disk cache of images, cache/resource_cache.rs: the files, the       *)
(* metadata a process keeps of them in memory, and metadata.json, of which *)
(* a process loads its metadata when it starts.                            *)
(*                                                                         *)
(* The hub's tasks get and put; put spawns an eviction and a get that      *)
(* finds an expired or missing file spawns a removal, which here go on in  *)
(* the slot of the task that spawned them.  `cache clear` and `cache       *)
(* clear-expired` are a process of their own with metadata of their own.   *)
(* Every file operation is a step, a write is two: the file is truncated,  *)
(* then complete.  The hub never calls flush, so that stopping it is the   *)
(* same as killing it.  A file has size 1; the order of the `born` stamps  *)
(* is the order of created_at and of last_accessed, which get leaves as it *)
(* is.                                                                     *)
(***************************************************************************)
EXTENDS Integers, Sequences, SequencesExt, FiniteSets

CONSTANTS
  Tasks,       \* tasks of the hub
  Keys,        \* URLs
  MaxSize,     \* max_size_mb, in files
  MaxPuts,     \* bound: files written
  MaxStarts    \* bound: starts of the hub and runs of the cache command

ASSUME ResourceConstants ==
  /\ Keys # {} /\ IsFiniteSet(Keys)
  /\ MaxSize \in Nat \ {0} /\ MaxPuts \in Nat /\ MaxStarts \in Nat /\ "cli" \notin Tasks

Actors == Tasks \cup {"cli"}

VARIABLES
  file,      \* file[k]: "none", "partial" or "whole"
  meta,      \* metadata in the memory of the hub and of the command
  index,     \* metadata.json: its entries, or Torn
  horizon,   \* entries born at or before this stamp are past their TTL
  clock,     \* the last stamp given
  pc, key,   \* what an actor does next, and the key it works on
  todo,      \* keys an eviction or a clear has still to visit, in order
  need,      \* files an eviction has still to delete
  count,     \* an eviction or a clear has deleted a file
  snap,      \* the metadata an actor is about to write to metadata.json
  starts,    \* for the bound
  complete,  \* history: keys of which some put wrote the whole file
  fed        \* history: the hub has put something since it started

diskVars == <<file, index>>
timeVars == <<horizon, clock>>
jobVars == <<key, todo, need, count, snap>>
ghostVars == <<complete, fed>>
vars == <<diskVars, meta, timeVars, pc, jobVars, starts, ghostVars>>

\* An entry is its created_at; 0 when there is none.
Entries == 0..MaxPuts
Empty == [k \in Keys |-> 0]
Torn == <<>>
Proc(a) == IF a = "cli" THEN "cli" ELSE "hub"
Known(p) == {k \in Keys : meta[p][k] # 0}
Expired(p) == {k \in Known(p) : meta[p][k] <= horizon}
Goto(a, label) == pc' = [pc EXCEPT ![a] = label]
Forget(a, k) == meta' = [meta EXCEPT ![Proc(a)][k] = 0]

\* Every order by age; the entries come out of the map in any order, and those of
\* the same second stay in it.
OldestFirst(p, S) ==
  {s \in SetToSeqs(S) : \A i, j \in DOMAIN s : i < j => meta[p][s[i]] <= meta[p][s[j]]}

\* load_metadata, an unreadable file counting as an empty one.
Load == IF index = Torn THEN Empty ELSE index

Init ==
  /\ file = [k \in Keys |-> "none"]
  /\ index = Empty
  /\ meta = [p \in {"hub", "cli"} |-> Empty]
  /\ horizon = 0 /\ clock = 0 /\ starts = 0
  /\ pc = [a \in Actors |-> "idle"]
  /\ key = [a \in Actors |-> CHOOSE k \in Keys : TRUE]
  /\ todo = [a \in Actors |-> <<>>]
  /\ need = [a \in Actors |-> 0]
  /\ count = [a \in Actors |-> FALSE]
  /\ snap = [a \in Actors |-> Empty]
  /\ complete = {} /\ fed = FALSE

-----------------------------------------------------------------------------
(* get, put and the removal that get spawns *)

Get(t, k) ==
  /\ pc[t] = "idle" /\ k \in Known("hub")
  /\ key' = [key EXCEPT ![t] = k]
  /\ Goto(t, IF k \in Expired("hub") THEN "remove_file" ELSE "read")
  /\ UNCHANGED <<diskVars, meta, timeVars, todo, need, count, snap, starts, ghostVars>>

ReadFile(t) ==
  /\ pc[t] = "read"
  /\ Goto(t, IF file[key[t]] = "none" THEN "remove_file" ELSE "idle")
  /\ UNCHANGED <<diskVars, meta, timeVars, jobVars, starts, ghostVars>>

\* The result of the deletion is ignored.
RemoveFile(t) ==
  /\ pc[t] = "remove_file"
  /\ file' \in {file, [file EXCEPT ![key[t]] = "none"]}
  /\ Goto(t, "remove_meta")
  /\ UNCHANGED <<index, meta, timeVars, jobVars, starts, ghostVars>>

RemoveMeta(t) ==
  /\ pc[t] = "remove_meta"
  /\ Forget(t, key[t])
  /\ Goto(t, "idle")
  /\ UNCHANGED <<diskVars, timeVars, jobVars, starts, ghostVars>>

\* Mutant: the metadata is inserted before the file is written.
Put_MetaFirst(t, k) ==
  /\ pc[t] = "idle" /\ clock < MaxPuts
  /\ clock' = clock + 1
  /\ key' = [key EXCEPT ![t] = k]
  /\ file' = [file EXCEPT ![k] = "partial"]
  /\ meta' = [meta EXCEPT !["hub"][k] = clock + 1]
  /\ Goto(t, "write")
  /\ UNCHANGED <<index, horizon, todo, need, count, snap, starts, ghostVars>>

\* put begins fs::write: the file exists, truncated.
Put(t, k) ==
  /\ pc[t] = "idle" /\ clock < MaxPuts
  /\ clock' = clock + 1
  /\ key' = [key EXCEPT ![t] = k]
  /\ file' = [file EXCEPT ![k] = "partial"]
  /\ Goto(t, "write")
  /\ UNCHANGED <<index, meta, horizon, todo, need, count, snap, starts, ghostVars>>

\* The write ends, or fails with an error that put returns.
WriteFile(t) ==
  /\ pc[t] = "write"
  /\ \/ /\ file' = [file EXCEPT ![key[t]] = "whole"]
        /\ complete' = complete \cup {key[t]}
        /\ Goto(t, "insert")
     \/ Goto(t, "idle") /\ UNCHANGED <<file, complete>>
  /\ UNCHANGED <<index, meta, timeVars, jobVars, starts, fed>>

\* Mutant: no eviction is spawned while another one runs.
InsertMeta_OneEviction(t) ==
  /\ pc[t] = "insert"
  /\ meta' = [meta EXCEPT !["hub"][key[t]] = clock]
  /\ fed' = TRUE
  /\ Goto(t, IF \E u \in Tasks : pc[u] \in {"evict", "evict_list", "visit", "forget"}
              THEN "idle" ELSE "evict")
  /\ UNCHANGED <<diskVars, timeVars, jobVars, starts, complete>>

\* The metadata is inserted and the eviction spawned.
InsertMeta(t) ==
  /\ pc[t] = "insert"
  /\ meta' = [meta EXCEPT !["hub"][key[t]] = clock]
  /\ fed' = TRUE
  /\ Goto(t, "evict")
  /\ UNCHANGED <<diskVars, timeVars, jobVars, starts, complete>>

-----------------------------------------------------------------------------
(* evict_if_needed_static, clear and clear_expired *)

\* current_size is summed up in one pass over the metadata,
EvictSize(t) ==
  /\ pc[t] = "evict"
  /\ LET excess == Cardinality(Known("hub")) - MaxSize IN
     /\ need' = [need EXCEPT ![t] = IF excess > 0 THEN excess ELSE 0]
     /\ Goto(t, IF excess > 0 THEN "evict_list" ELSE "idle")
  /\ UNCHANGED <<diskVars, meta, timeVars, key, todo, count, snap, starts, ghostVars>>

\* the entries are listed in another.
EvictList(t) ==
  /\ pc[t] = "evict_list"
  /\ \E s \in OldestFirst("hub", Known("hub")) : todo' = [todo EXCEPT ![t] = s]
  /\ count' = [count EXCEPT ![t] = FALSE]
  /\ Goto(t, "visit")
  /\ UNCHANGED <<diskVars, meta, timeVars, key, need, snap, starts, ghostVars>>

\* The cache command loads metadata.json; clear visits every entry of it.
StartClear(expiredOnly) ==
  /\ pc["cli"] = "idle" /\ starts < MaxStarts
  /\ starts' = starts + 1
  /\ meta' = [meta EXCEPT !["cli"] = Load]
  /\ LET listed == {k \in Keys : Load[k] # 0 /\ (expiredOnly => Load[k] <= horizon)} IN
     /\ \E s \in SetToSeqs(listed) : todo' = [todo EXCEPT !["cli"] = s]
     /\ need' = [need EXCEPT !["cli"] = Cardinality(listed)]
  /\ count' = [count EXCEPT !["cli"] = ~expiredOnly]   \* clear always saves
  /\ Goto("cli", "visit")
  /\ UNCHANGED <<diskVars, timeVars, key, snap, ghostVars>>

\* The next entry: its file is deleted, unless it is not there or the deletion
\* fails.  An eviction counts only what it deleted, and stops when that is enough.
Visit(a) ==
  LET k == Head(todo[a]) IN
  /\ pc[a] = "visit" /\ todo[a] # <<>> /\ need[a] > 0
  /\ \E deleted \in {FALSE, file[k] # "none"} :
       /\ file' = IF deleted THEN [file EXCEPT ![k] = "none"] ELSE file
       /\ count' = [count EXCEPT ![a] = @ \/ deleted]
       /\ need' = [need EXCEPT ![a] = IF deleted \/ a = "cli" THEN @ - 1 ELSE @]
  /\ key' = [key EXCEPT ![a] = k]
  /\ todo' = [todo EXCEPT ![a] = Tail(@)]
  /\ Goto(a, "forget")
  /\ UNCHANGED <<index, meta, timeVars, snap, starts, ghostVars>>

ForgetVisited(a) ==
  /\ pc[a] = "forget"
  /\ Forget(a, key[a])
  /\ Goto(a, "visit")
  /\ UNCHANGED <<diskVars, timeVars, jobVars, starts, ghostVars>>

\* The loop is over; what is left is collected if there is something to save.
VisitsEnd(a) ==
  /\ pc[a] = "visit" /\ (todo[a] = <<>> \/ need[a] = 0)
  /\ snap' = [snap EXCEPT ![a] = IF count[a] THEN meta[Proc(a)] ELSE @]
  /\ Goto(a, IF count[a] THEN "open_index" ELSE "idle")
  /\ UNCHANGED <<diskVars, meta, timeVars, key, todo, need, count, starts, ghostVars>>

\* fs::write opens the file or fails.
OpenIndex(a) ==
  /\ pc[a] = "open_index"
  /\ \/ index' = Torn /\ Goto(a, "write_index")
     \/ Goto(a, "idle") /\ UNCHANGED index
  /\ UNCHANGED <<file, meta, timeVars, jobVars, starts, ghostVars>>

\* A write that fails leaves half a file, and beside another writer the result may
\* be a mixture.
WriteIndex(a) ==
  /\ pc[a] = "write_index"
  /\ index' \in {snap[a], Torn}
  /\ Goto(a, "idle")
  /\ UNCHANGED <<file, meta, timeVars, jobVars, starts, ghostVars>>

-----------------------------------------------------------------------------

\* The hub is stopped or killed, and started again.
Restart ==
  /\ starts < MaxStarts
  /\ starts' = starts + 1
  /\ meta' = [meta EXCEPT !["hub"] = Load]
  /\ pc' = [a \in Actors |-> IF a = "cli" THEN pc[a] ELSE "idle"]
  /\ fed' = FALSE
  /\ UNCHANGED <<diskVars, timeVars, jobVars, complete>>

\* ttl_days pass for the oldest entries.
Age ==
  /\ horizon < clock
  /\ horizon' = horizon + 1
  /\ UNCHANGED <<diskVars, meta, clock, pc, jobVars, starts, ghostVars>>

\* The bounds are used up.
Finished ==
  /\ clock = MaxPuts /\ \A a \in Actors : pc[a] = "idle"
  /\ UNCHANGED vars

Job(a) ==
  \/ Visit(a) \/ ForgetVisited(a) \/ VisitsEnd(a) \/ OpenIndex(a) \/ WriteIndex(a)

Next ==
  \/ \E t \in Tasks :
       \/ \E k \in Keys : Get(t, k) \/ Put(t, k)
       \/ ReadFile(t) \/ RemoveFile(t) \/ RemoveMeta(t)
       \/ WriteFile(t) \/ InsertMeta(t) \/ EvictSize(t) \/ EvictList(t)
  \/ \E expiredOnly \in BOOLEAN : StartClear(expiredOnly)
  \/ \E a \in Actors : Job(a)
  \/ Restart \/ Age \/ Finished

Spec == Init /\ [][Next]_vars

-----------------------------------------------------------------------------
(* Properties *)

\* Every variable keeps its type; an eviction never counts below zero.
TypeOK ==
  /\ file \in [Keys -> {"none", "partial", "whole"}]
  /\ index \in [Keys -> Entries] \cup {Torn}
  /\ meta \in [{"hub", "cli"} -> [Keys -> Entries]]
  /\ horizon \in Entries /\ clock \in Entries /\ starts \in 0..MaxStarts
  /\ pc \in [Actors -> {"idle", "read", "remove_file", "remove_meta", "write", "insert",
                        "evict", "evict_list", "visit", "forget", "open_index",
                        "write_index"}]
  /\ key \in [Actors -> Keys]
  /\ todo \in [Actors -> Seq(Keys)]
  /\ need \in [Actors -> Nat]
  /\ count \in [Actors -> BOOLEAN]
  /\ snap \in [Actors -> [Keys -> Entries]]
  /\ complete \subseteq Keys /\ fed \in BOOLEAN

\* A key gets metadata only after some put has written its whole file, across
\* crashes in the middle of a write and restarts: the first put of a URL never
\* exposes a file that is being written.
NoMetaBeforeFile ==
  \A k \in Keys : \A p \in {"hub", "cli"} : meta[p][k] # 0 => k \in complete

\* Whenever the hub has put something since it started and no put, removal or
\* eviction is under way, its metadata is within max_size_mb: evictions that ran
\* side by side, on stale lists, with files deleted under them, have together
\* brought it down.
BoundedWhenQuiet ==
  fed /\ (\A t \in Tasks : pc[t] = "idle") => Cardinality(Known("hub")) <= MaxSize

=============================================================================
