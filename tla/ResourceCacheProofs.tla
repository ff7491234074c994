------------------------ MODULE ResourceCacheProofs ------------------------
(***************************************************************************)
(* Proofs about ResourceCache, for every set of tasks, finite set of URLs, *)
(* size limit and number of puts and restarts: metadata never precedes     *)
(* its file, and evictions that run side by side together keep the limit.  *)
(***************************************************************************)
EXTENDS ResourceCache, FiniteSetTheorems, TLAPS

\* Whatever has an entry, in memory, in metadata.json or on the way to it, has
\* had its whole file written.
Clean ==
  /\ \A p \in {"hub", "cli"} : \A k \in Keys : meta[p][k] # 0 => k \in complete
  /\ index # Torn => \A k \in Keys : index[k] # 0 => k \in complete
  /\ \A a \in Actors : \A k \in Keys : snap[a][k] # 0 => k \in complete
  /\ \A a \in Actors : pc[a] = "insert" => key[a] \in complete

\* An eviction that will bring the metadata within the limit if nobody else does:
\* its list has every entry, and is not longer than what may stay and what it has
\* yet to delete.
Lists(t) == Len(todo[t]) <= MaxSize + need[t]
Working(t) ==
  \/ pc[t] = "evict"
  \/ pc[t] = "evict_list" /\ Cardinality(Known("hub")) <= MaxSize + need[t]
  \/ pc[t] = "visit" /\ Lists(t) /\ Known("hub") \subseteq ToSet(todo[t])
  \/ pc[t] = "forget" /\ Lists(t) /\ Known("hub") \subseteq ToSet(todo[t]) \cup {key[t]}

\* While the limit is exceeded, such an eviction is under way.
Bounded ==
  fed => Cardinality(Known("hub")) <= MaxSize \/ \E t \in Tasks : Working(t)

-----------------------------------------------------------------------------
(* Lists of entries *)

\* A list of a set has every element of it, and the set's size.
LEMMA ListOfSet ==
  ASSUME NEW S \in SUBSET Keys, NEW s \in SetToSeqs(S)
  PROVE  s \in Seq(Keys) /\ Len(s) = Cardinality(S) /\ S \subseteq ToSet(s)
  <1> DEFINE n == Cardinality(S)
  <1>1. IsFiniteSet(S) /\ n \in Nat
    BY ResourceConstants, FS_Subset, FS_CardinalityType
  <1>2. s \in [1..n -> S] /\ \A i, j \in 1..n : i # j => s[i] # s[j]
    BY DEF SetToSeqs
  <1>3. s \in Seq(Keys) /\ Len(s) = n
    BY <1>1, <1>2
  <1>4. ASSUME NEW x \in S, x \notin ToSet(s) PROVE FALSE
    <2>1. s \in [1..n -> S \ {x}]
      BY <1>2, <1>4 DEF ToSet
    <2>2. IsFiniteSet(S \ {x}) /\ Cardinality(S \ {x}) = n - 1
      BY <1>1, <1>4, FS_RemoveElement
    <2>3. IsFiniteSet(1..n) /\ Cardinality(1..n) = n
      BY <1>1, FS_Interval
    <2>4. \E i, j \in 1..n : i # j /\ s[i] = s[j]
      <3>1. Cardinality(S \ {x}) < Cardinality(1..n)
        BY <1>1, <2>2, <2>3
      <3> HIDE DEF n
      <3>2. \A f \in [1..n -> S \ {x}] : \E i, j \in 1..n : i # j /\ f[i] = f[j]
        BY <2>2, <2>3, <3>1, FS_PigeonHole
      <3> QED
        BY <2>1, <3>2
    <2> QED
      BY <1>2, <2>4
  <1> QED
    BY <1>3, <1>4

\* A list is at least as long as a set it covers.
LEMMA ListCovers ==
  ASSUME NEW s \in Seq(Keys), NEW S, S \subseteq ToSet(s)
  PROVE  Cardinality(S) <= Len(s)
  <1>1. s \in Surjection(1..Len(s), ToSet(s)) /\ Len(s) \in Nat
    BY DEF Surjection, ToSet
  <1>2. Cardinality(ToSet(s)) <= Len(s)
    BY <1>1, FS_SurjCardinalityBound DEF ExistsSurjection
  <1>3. ToSet(s) \subseteq Keys
    BY DEF ToSet
  <1>4. IsFiniteSet(ToSet(s))
    BY <1>3, ResourceConstants, FS_Subset
  <1>5. /\ Cardinality(S) <= Cardinality(ToSet(s))
        /\ Cardinality(S) \in Nat /\ Cardinality(ToSet(s)) \in Nat
    BY <1>4, FS_Subset, FS_CardinalityType
  <1> QED
    BY <1>1, <1>2, <1>5

\* Taking the head off a list.
LEMMA TailCovers ==
  ASSUME NEW s \in Seq(Keys), s # <<>>
  PROVE  /\ Head(s) \in Keys /\ Tail(s) \in Seq(Keys) /\ Len(Tail(s)) = Len(s) - 1
         /\ ToSet(s) \subseteq ToSet(Tail(s)) \cup {Head(s)}
  <1>1. Head(s) \in Keys /\ Tail(s) \in Seq(Keys) /\ Len(Tail(s)) = Len(s) - 1
    OBVIOUS
  <1>2. ASSUME NEW i \in DOMAIN s, i # 1 PROVE s[i] \in ToSet(Tail(s))
    <2>1. i - 1 \in DOMAIN Tail(s) /\ Tail(s)[i - 1] = s[i]
      BY <1>2
    <2> QED
      BY <2>1 DEF ToSet
  <1>3. s[1] = Head(s)
    OBVIOUS
  <1> QED
    BY <1>1, <1>2, <1>3 DEF ToSet

\* What is known is a finite set of URLs.
LEMMA KnownFinite ==
  ASSUME NEW p
  PROVE  /\ Known(p) \in SUBSET Keys /\ Cardinality(Known(p)) \in Nat
         /\ \A S \in SUBSET Known(p) : Cardinality(S) <= Cardinality(Known(p))
                                       /\ Cardinality(S) \in Nat
  BY ResourceConstants, FS_Subset, FS_CardinalityType DEF Known

\* Forgetting a key changes one entry.
LEMMA ForgetIs ==
  ASSUME TypeOK, NEW a \in Actors, NEW k \in Keys, Forget(a, k)
  PROVE  /\ meta' \in [{"hub", "cli"} -> [Keys -> Entries]]
         /\ \A p \in {"hub", "cli"} : \A j \in Keys :
              meta'[p][j] = IF p = Proc(a) /\ j = k THEN 0 ELSE meta[p][j]
  <1>1. Proc(a) \in {"hub", "cli"}
    BY DEF Proc
  <1>2. meta[Proc(a)] \in [Keys -> Entries] /\ 0 \in Entries
    BY <1>1, ResourceConstants DEF TypeOK, Entries
  <1>3. meta' = [meta EXCEPT ![Proc(a)] = [meta[Proc(a)] EXCEPT ![k] = 0]]
    BY <1>1, <1>2 DEF Forget, TypeOK
  <1> QED
    BY <1>1, <1>2, <1>3 DEF TypeOK

-----------------------------------------------------------------------------
(* Types *)

\* Metadata is read from a file that some process wrote, or is empty.
LEMMA LoadType == TypeOK => Load \in [Keys -> Entries]
  BY ResourceConstants DEF TypeOK, Load, Empty, Entries

\* A hub and a command begin with nothing.
LEMMA TypeInit == Init => TypeOK
  <1> SUFFICES ASSUME Init PROVE TypeOK
    OBVIOUS
  <1>1. (CHOOSE k \in Keys : TRUE) \in Keys
    BY ResourceConstants
  <1>2. Empty \in [Keys -> Entries] /\ 0 \in Entries /\ 0 \in 0..MaxStarts
    BY ResourceConstants DEF Empty, Entries
  <1>3. /\ file \in [Keys -> {"none", "partial", "whole"}]
        /\ pc \in [Actors -> {"idle", "read", "remove_file", "remove_meta", "write", "insert",
                              "evict", "evict_list", "visit", "forget", "open_index",
                              "write_index"}]
    BY DEF Init
  <1>4. /\ index \in [Keys -> Entries] /\ meta \in [{"hub", "cli"} -> [Keys -> Entries]]
        /\ key \in [Actors -> Keys] /\ snap \in [Actors -> [Keys -> Entries]]
    BY <1>1, <1>2 DEF Init
  <1>5. todo \in [Actors -> Seq(Keys)] /\ need \in [Actors -> Nat]
    BY DEF Init
  <1>6. count \in [Actors -> BOOLEAN] /\ fed \in BOOLEAN
    BY Zenon DEF Init
  <1> QED
    BY <1>2, <1>3, <1>4, <1>5, <1>6 DEF Init, TypeOK

\* get, put and what they spawn keep every variable's type.
LEMMA TypeTask ==
  ASSUME TypeOK, NEW t \in Tasks,
         \/ \E k \in Keys : Get(t, k) \/ Put(t, k)
         \/ ReadFile(t) \/ RemoveFile(t) \/ RemoveMeta(t)
         \/ WriteFile(t) \/ InsertMeta(t) \/ EvictSize(t) \/ EvictList(t)
  PROVE  TypeOK'
  <1> USE DEF diskVars, timeVars, jobVars, ghostVars, Goto
  <1>1. t \in Actors /\ key[t] \in Keys
    BY DEF Actors, TypeOK
  <1>2. ASSUME NEW k \in Keys, Get(t, k) PROVE TypeOK'
    BY <1>1, <1>2 DEF TypeOK, Get
  <1>3. ASSUME NEW k \in Keys, Put(t, k) PROVE TypeOK'
    BY <1>1, <1>3, ResourceConstants DEF TypeOK, Put, Entries
  <1>4. CASE ReadFile(t)
    BY <1>1, <1>4 DEF TypeOK, ReadFile
  <1>5. CASE RemoveFile(t)
    BY <1>1, <1>5 DEF TypeOK, RemoveFile
  <1>6. CASE RemoveMeta(t)
    <2>1. meta' \in [{"hub", "cli"} -> [Keys -> Entries]]
      BY <1>1, <1>6, ForgetIs DEF RemoveMeta
    <2> QED
      BY <1>1, <1>6, <2>1 DEF TypeOK, RemoveMeta
  <1>7. CASE WriteFile(t)
    BY <1>1, <1>7 DEF TypeOK, WriteFile
  <1>8. CASE InsertMeta(t)
    <2>1. meta["hub"] \in [Keys -> Entries] /\ clock \in Entries
      BY DEF TypeOK
    <2>2. meta' = [meta EXCEPT !["hub"] = [meta["hub"] EXCEPT ![key[t]] = clock]]
      BY <1>8, <2>1 DEF InsertMeta, TypeOK
    <2>3. meta' \in [{"hub", "cli"} -> [Keys -> Entries]]
      BY <1>1, <2>1, <2>2 DEF TypeOK
    <2> QED
      BY <1>1, <1>8, <2>3 DEF TypeOK, InsertMeta
  <1>9. CASE EvictSize(t)
    <2>1. Cardinality(Known("hub")) - MaxSize \in Int
      BY KnownFinite, ResourceConstants
    <2> QED
      BY <1>1, <1>9, <2>1 DEF TypeOK, EvictSize
  <1>10. CASE EvictList(t)
    <2>1. PICK s \in SetToSeqs(Known("hub")) : todo' = [todo EXCEPT ![t] = s]
      BY <1>10 DEF EvictList, OldestFirst
    <2>2. s \in Seq(Keys)
      BY KnownFinite, ListOfSet
    <2> QED
      BY <1>1, <1>10, <2>1, <2>2 DEF TypeOK, EvictList
  <1> QED
    BY <1>2, <1>3, <1>4, <1>5, <1>6, <1>7, <1>8, <1>9, <1>10

\* So do the steps of an eviction and of the cache command.
LEMMA TypeJob ==
  ASSUME TypeOK, NEW a \in Actors, Job(a)
  PROVE  TypeOK'
  <1> USE DEF diskVars, timeVars, jobVars, ghostVars, Goto
  <1>1. key[a] \in Keys /\ todo[a] \in Seq(Keys) /\ need[a] \in Nat
    BY DEF TypeOK
  <1>2. CASE Visit(a)
    <2>1. Head(todo[a]) \in Keys /\ Tail(todo[a]) \in Seq(Keys)
      BY <1>1, <1>2, TailCovers DEF Visit
    <2>2. todo' \in [Actors -> Seq(Keys)] /\ key' \in [Actors -> Keys]
      BY <1>2, <2>1 DEF TypeOK, Visit
    <2>3. need' \in [Actors -> Nat]
      BY <1>1, <1>2 DEF TypeOK, Visit
    <2>4. count' \in [Actors -> BOOLEAN]
      BY <1>2, Zenon DEF TypeOK, Visit
    <2> QED
      BY <1>2, <2>1, <2>2, <2>3, <2>4 DEF TypeOK, Visit
  <1>3. CASE ForgetVisited(a)
    <2>1. meta' \in [{"hub", "cli"} -> [Keys -> Entries]]
      BY <1>1, <1>3, ForgetIs DEF ForgetVisited
    <2> QED
      BY <1>3, <2>1 DEF TypeOK, ForgetVisited
  <1>4. CASE VisitsEnd(a)
    <2>1. meta[Proc(a)] \in [Keys -> Entries]
      BY DEF TypeOK, Proc
    <2> QED
      BY <1>4, <2>1 DEF TypeOK, VisitsEnd
  <1>5. CASE OpenIndex(a)
    BY <1>5 DEF TypeOK, OpenIndex
  <1>6. CASE WriteIndex(a)
    BY <1>6 DEF TypeOK, WriteIndex
  <1> QED
    BY <1>2, <1>3, <1>4, <1>5, <1>6 DEF Job

\* The cache command, a restart and the clock.
LEMMA TypeRest ==
  ASSUME TypeOK, (\E e \in BOOLEAN : StartClear(e)) \/ Restart \/ Age \/ Finished
  PROVE  TypeOK'
  <1> USE DEF diskVars, timeVars, jobVars, ghostVars, Goto
  <1>1. Load \in [Keys -> Entries]
    BY LoadType
  <1>2. ASSUME NEW e \in BOOLEAN, StartClear(e) PROVE TypeOK'
    <2> DEFINE listed == {k \in Keys : Load[k] # 0 /\ (e => Load[k] <= horizon)}
    <2>1. "cli" \in Actors /\ listed \in SUBSET Keys
      BY DEF Actors
    <2>2. PICK s \in SetToSeqs(listed) : todo' = [todo EXCEPT !["cli"] = s]
      BY <1>2 DEF StartClear
    <2>3. need' = [need EXCEPT !["cli"] = Cardinality(listed)]
      BY <1>2 DEF StartClear
    <2> HIDE DEF listed
    <2>4. s \in Seq(Keys) /\ Cardinality(listed) \in Nat
      BY <2>1, ListOfSet, ResourceConstants, FS_Subset, FS_CardinalityType
    <2>5. todo' \in [Actors -> Seq(Keys)] /\ need' \in [Actors -> Nat]
      BY <2>1, <2>2, <2>3, <2>4 DEF TypeOK
    <2>6. count' \in [Actors -> BOOLEAN]
      BY <1>2, Zenon DEF TypeOK, StartClear
    <2>7. meta' \in [{"hub", "cli"} -> [Keys -> Entries]]
      BY <1>1, <1>2 DEF TypeOK, StartClear
    <2>8. starts' \in 0..MaxStarts
      BY <1>2, ResourceConstants DEF TypeOK, StartClear
    <2> QED
      BY <1>2, <2>1, <2>5, <2>6, <2>7, <2>8 DEF TypeOK, StartClear
  <1>3. CASE Restart
    <2>1. meta' \in [{"hub", "cli"} -> [Keys -> Entries]]
      BY <1>1, <1>3 DEF TypeOK, Restart
    <2>2. starts' \in 0..MaxStarts
      BY <1>3, ResourceConstants DEF TypeOK, Restart
    <2>3. fed' \in BOOLEAN
      BY <1>3 DEF Restart
    <2> QED
      BY <1>3, <2>1, <2>2, <2>3 DEF TypeOK, Restart
  <1>4. CASE Age
    BY <1>4, ResourceConstants DEF TypeOK, Age, Entries
  <1>5. CASE Finished
    BY <1>5 DEF TypeOK, Finished, vars
  <1> QED
    BY <1>2, <1>3, <1>4, <1>5

LEMMA TypeNext == TypeOK /\ [Next]_vars => TypeOK'
  <1> SUFFICES ASSUME TypeOK, [Next]_vars PROVE TypeOK'
    OBVIOUS
  <1>1. CASE UNCHANGED vars
    BY <1>1 DEF TypeOK, vars, diskVars, timeVars, jobVars, ghostVars
  <1> QED
    BY <1>1, TypeTask, TypeJob, TypeRest DEF Next

-----------------------------------------------------------------------------
(* Metadata and files *)

\* A step that adds no entry and begins no insert keeps what is written clean.
LEMMA CleanKept ==
  ASSUME TypeOK, TypeOK', Clean, complete \subseteq complete',
         \A p \in {"hub", "cli"} : \A k \in Keys : meta'[p][k] # 0 => k \in complete',
         index' = index \/ index' = Torn \/ \E a \in Actors : index' = snap[a],
         \A a \in Actors : snap'[a] = snap[a] \/ \E p \in {"hub", "cli"} : snap'[a] = meta[p],
         \A a \in Actors : pc'[a] = "insert" => key'[a] \in complete'
  PROVE  Clean'
  <1>1. ASSUME NEW a \in Actors, NEW k \in Keys, snap'[a][k] # 0 PROVE k \in complete'
    BY <1>1 DEF Clean
  <1>2. ASSUME index' # Torn, NEW k \in Keys, index'[k] # 0 PROVE k \in complete'
    BY <1>2 DEF Clean
  <1> QED
    BY <1>1, <1>2 DEF Clean

\* A put inserts its metadata when its own write is done.
LEMMA CleanNext == TypeOK /\ Clean /\ [Next]_vars => Clean'
  <1> SUFFICES ASSUME TypeOK, Clean, [Next]_vars PROVE Clean'
    OBVIOUS
  <1> USE DEF diskVars, timeVars, jobVars, ghostVars, Goto
  <1>1. TypeOK'
    BY TypeNext
  <1>2. Load \in [Keys -> Entries] /\ \A k \in Keys : Load[k] # 0 => k \in complete
    BY LoadType DEF Clean, Load, Empty
  <1>3. ASSUME NEW t \in Tasks, NEW k \in Keys, Get(t, k) \/ Put(t, k) PROVE Clean'
    <2>1. t \in Actors /\ UNCHANGED <<meta, index, snap, complete>>
      BY <1>3 DEF Actors, Get, Put
    <2>2. /\ \E label \in {"remove_file", "read", "write"} : pc' = [pc EXCEPT ![t] = label]
          /\ key' = [key EXCEPT ![t] = k]
      BY <1>3 DEF Get, Put
    <2>3. \A a \in Actors : pc'[a] = "insert" => key'[a] \in complete'
      BY <2>1, <2>2 DEF TypeOK, Clean
    <2> QED
      BY <1>1, <2>1, <2>3, CleanKept DEF Clean
  <1>4. ASSUME NEW t \in Tasks,
               ReadFile(t) \/ RemoveFile(t) \/ EvictSize(t) \/ EvictList(t)
        PROVE  Clean'
    <2>1. t \in Actors /\ UNCHANGED <<meta, index, snap, complete, key>>
      BY <1>4 DEF Actors, ReadFile, RemoveFile, EvictSize, EvictList
    <2>2. \E label \in {"idle", "remove_file", "remove_meta", "evict_list", "visit"} :
            pc' = [pc EXCEPT ![t] = label]
      BY <1>4 DEF ReadFile, RemoveFile, EvictSize, EvictList
    <2>3. \A a \in Actors : pc'[a] = "insert" => key'[a] \in complete'
      BY <2>1, <2>2 DEF TypeOK, Clean
    <2> QED
      BY <1>1, <2>1, <2>3, CleanKept DEF Clean
  <1>5. ASSUME NEW a \in Actors, NEW label \in {"idle", "visit"}, pc' = [pc EXCEPT ![a] = label],
               Forget(a, key[a]), UNCHANGED <<index, snap, complete, key>>
        PROVE  Clean'
    <2>1. \A p \in {"hub", "cli"} : \A k \in Keys : meta'[p][k] # 0 => k \in complete'
      BY <1>5, ForgetIs DEF TypeOK, Clean
    <2>2. \A b \in Actors : pc'[b] = "insert" => key'[b] \in complete'
      BY <1>5 DEF TypeOK, Clean
    <2> QED
      BY <1>1, <1>5, <2>1, <2>2, CleanKept
  <1>6. ASSUME NEW t \in Tasks, RemoveMeta(t) PROVE Clean'
    BY <1>5, <1>6 DEF RemoveMeta, Actors
  <1>7. ASSUME NEW t \in Tasks, WriteFile(t) PROVE Clean'
    <2>1. /\ t \in Actors /\ UNCHANGED <<meta, index, snap, key>>
          /\ complete \subseteq complete'
      BY <1>7 DEF Actors, WriteFile
    <2>2. \A a \in Actors : pc'[a] = "insert" => key'[a] \in complete'
      BY <1>7, <2>1 DEF TypeOK, Clean, WriteFile
    <2> QED
      BY <1>1, <2>1, <2>2, CleanKept DEF Clean
  <1>8. ASSUME NEW t \in Tasks, InsertMeta(t) PROVE Clean'
    <2>1. t \in Actors /\ UNCHANGED <<index, snap, key, complete>> /\ key[t] \in complete
      BY <1>8 DEF Actors, InsertMeta, Clean
    <2>2. meta["hub"] \in [Keys -> Entries] /\ key[t] \in Keys
      BY <2>1 DEF TypeOK
    <2>3. meta' = [meta EXCEPT !["hub"] = [meta["hub"] EXCEPT ![key[t]] = clock]]
      BY <1>8, <2>2 DEF InsertMeta, TypeOK
    <2>4. \A p \in {"hub", "cli"} : \A k \in Keys : meta'[p][k] # 0 => k \in complete'
      BY <2>1, <2>2, <2>3 DEF TypeOK, Clean
    <2>5. \A a \in Actors : pc'[a] = "insert" => key'[a] \in complete'
      BY <1>8, <2>1 DEF TypeOK, Clean, InsertMeta
    <2> QED
      BY <1>1, <2>1, <2>4, <2>5, CleanKept
  <1>9. ASSUME NEW e \in BOOLEAN, StartClear(e) PROVE Clean'
    <2>1. UNCHANGED <<index, snap, key, complete>> /\ meta' = [meta EXCEPT !["cli"] = Load]
      BY <1>9 DEF StartClear
    <2>2. \A p \in {"hub", "cli"} : \A k \in Keys : meta'[p][k] # 0 => k \in complete'
      BY <1>2, <2>1 DEF TypeOK, Clean
    <2>3. \A a \in Actors : pc'[a] = "insert" => key'[a] \in complete'
      BY <1>9, <2>1 DEF TypeOK, Clean, StartClear, Actors
    <2> QED
      BY <1>1, <2>1, <2>2, <2>3, CleanKept
  <1>10. ASSUME NEW a \in Actors, Visit(a) PROVE Clean'
    <2>1. UNCHANGED <<meta, index, snap, complete>>
      BY <1>10 DEF Visit
    <2>2. \A b \in Actors : pc'[b] = "insert" => key'[b] \in complete'
      BY <1>10, <2>1 DEF TypeOK, Clean, Visit
    <2> QED
      BY <1>1, <2>1, <2>2, CleanKept DEF Clean
  <1>11. ASSUME NEW a \in Actors, ForgetVisited(a) PROVE Clean'
    BY <1>5, <1>11 DEF ForgetVisited
  <1>12. ASSUME NEW a \in Actors, VisitsEnd(a) PROVE Clean'
    <2>1. UNCHANGED <<meta, index, key, complete>>
      BY <1>12 DEF VisitsEnd
    <2>2. \A b \in Actors : pc'[b] = "insert" => key'[b] \in complete'
      BY <1>12, <2>1 DEF TypeOK, Clean, VisitsEnd
    <2>3. Proc(a) \in {"hub", "cli"}
      BY DEF Proc
    <2>4. \A b \in Actors : snap'[b] = snap[b] \/ snap'[b] = meta[Proc(a)]
      BY <1>12 DEF TypeOK, VisitsEnd
    <2> QED
      BY <1>1, <2>1, <2>2, <2>3, <2>4, CleanKept DEF Clean
  <1>13. ASSUME NEW a \in Actors, OpenIndex(a) \/ WriteIndex(a) PROVE Clean'
    <2>1. /\ UNCHANGED <<meta, snap, key, complete>>
          /\ index' = Torn \/ index' = snap[a] \/ index' = index
      BY <1>13 DEF OpenIndex, WriteIndex
    <2>2. \A b \in Actors : pc'[b] = "insert" => key'[b] \in complete'
      BY <1>13, <2>1 DEF TypeOK, Clean, OpenIndex, WriteIndex
    <2> QED
      BY <1>1, <2>1, <2>2, CleanKept DEF Clean
  <1>14. CASE Restart
    <2>1. UNCHANGED <<index, snap, key, complete>> /\ meta' = [meta EXCEPT !["hub"] = Load]
      BY <1>14 DEF Restart
    <2>2. \A p \in {"hub", "cli"} : \A k \in Keys : meta'[p][k] # 0 => k \in complete'
      BY <1>2, <2>1 DEF TypeOK, Clean
    <2>3. \A a \in Actors : pc'[a] = "insert" => key'[a] \in complete'
      BY <1>14, <2>1 DEF TypeOK, Clean, Restart
    <2> QED
      BY <1>1, <2>1, <2>2, <2>3, CleanKept
  <1>15. CASE Age \/ UNCHANGED vars
    BY <1>15 DEF Age, vars, Clean
  <1> QED
    BY <1>3, <1>4, <1>6, <1>7, <1>8, <1>9, <1>10, <1>11, <1>12, <1>13, <1>14, <1>15
    DEF Next, Job, Finished

-----------------------------------------------------------------------------
(* The limit *)

\* What an eviction is at stays as it is.
Same(u) ==
  pc'[u] = pc[u] /\ key'[u] = key[u] /\ todo'[u] = todo[u] /\ need'[u] = need[u]

\* The hub's metadata has no new key.
NoneAdded == Known("hub")' \subseteq Known("hub")

\* An eviction at work stays so while others only forget.
LEMMA WorkingKept ==
  ASSUME TypeOK, NoneAdded, NEW t \in Tasks, Same(t), Working(t)
  PROVE  Working(t)'
  <1>1. /\ Cardinality(Known("hub")') <= Cardinality(Known("hub"))
        /\ Cardinality(Known("hub")') \in Nat /\ Cardinality(Known("hub")) \in Nat
    BY KnownFinite DEF NoneAdded
  <1>2. need[t] \in Nat /\ MaxSize \in Nat
    BY ResourceConstants DEF TypeOK, Actors
  <1>3. CASE pc[t] = "evict_list"
    <2>1. Cardinality(Known("hub")) <= MaxSize + need[t]
      BY <1>3 DEF Working
    <2>2. Cardinality(Known("hub")') <= MaxSize + need[t]
      BY <1>1, <1>2, <2>1
    <2> QED
      BY <1>3, <2>2 DEF Working, Same
  <1>4. CASE pc[t] # "evict_list"
    BY <1>4 DEF Working, Lists, Same, NoneAdded
  <1> QED
    BY <1>3, <1>4

\* A step of one actor that adds no key: if it ends an eviction's work, the limit
\* is kept.
LEMMA BoundedKept ==
  ASSUME TypeOK, Bounded, NoneAdded, fed' = fed, NEW a \in Actors,
         \A u \in Actors \ {a} : Same(u),
         a \in Tasks /\ Working(a) => Working(a)' \/ Cardinality(Known("hub")') <= MaxSize
  PROVE  Bounded'
  <1> SUFFICES ASSUME fed'
               PROVE  Cardinality(Known("hub")') <= MaxSize \/ \E t \in Tasks : Working(t)'
    BY DEF Bounded
  <1>1. /\ Cardinality(Known("hub")') <= Cardinality(Known("hub"))
        /\ Cardinality(Known("hub")') \in Nat /\ Cardinality(Known("hub")) \in Nat
    BY KnownFinite DEF NoneAdded
  <1>2. CASE Cardinality(Known("hub")) <= MaxSize
    BY <1>1, <1>2, ResourceConstants
  <1>3. ASSUME NEW t \in Tasks, Working(t)
        PROVE  Cardinality(Known("hub")') <= MaxSize \/ \E u \in Tasks : Working(u)'
    <2>1. CASE t = a
      BY <1>3, <2>1
    <2>2. CASE t # a
      <3>1. Same(t)
        BY <2>2 DEF Actors
      <3>2. Working(t)'
        BY <1>3, <3>1, WorkingKept
      <3> QED
        BY <3>2
    <2> QED
      BY <2>1, <2>2
  <1> QED
    BY <1>2, <1>3 DEF Bounded

\* The steps of a hub's task.
LEMMA BoundedTask ==
  ASSUME TypeOK, Bounded, NEW t \in Tasks,
         \/ \E k \in Keys : Get(t, k) \/ Put(t, k)
         \/ ReadFile(t) \/ RemoveFile(t) \/ RemoveMeta(t)
         \/ WriteFile(t) \/ InsertMeta(t) \/ EvictSize(t) \/ EvictList(t)
  PROVE  Bounded'
  <1> USE DEF diskVars, timeVars, jobVars, ghostVars, Goto
  <1>1. t \in Actors /\ key[t] \in Keys /\ need[t] \in Nat /\ MaxSize \in Nat
    BY ResourceConstants DEF Actors, TypeOK
  <1>2. CASE \/ \E k \in Keys : Get(t, k) \/ Put(t, k)
             \/ ReadFile(t) \/ RemoveFile(t) \/ WriteFile(t)
    <2>1. /\ UNCHANGED <<meta, fed, todo, need>>
          /\ \E label \in {"idle", "read", "remove_file", "remove_meta", "write", "insert"} :
               pc' = [pc EXCEPT ![t] = label]
          /\ \E k \in Keys : key' = [key EXCEPT ![t] = k]
          /\ pc[t] \in {"idle", "read", "remove_file", "write"}
      <3>1. key = [key EXCEPT ![t] = key[t]]
        BY DEF TypeOK
      <3> QED
        BY <1>1, <1>2, <3>1 DEF Get, Put, ReadFile, RemoveFile, WriteFile
    <2>2. NoneAdded
      BY <2>1 DEF NoneAdded, Known
    <2>3. ~Working(t)
      BY <2>1 DEF Working
    <2>4. \A u \in Actors \ {t} : Same(u)
      BY <2>1 DEF TypeOK, Same
    <2> QED
      BY <1>1, <2>1, <2>2, <2>3, <2>4, BoundedKept
  <1>3. CASE RemoveMeta(t)
    <2>1. NoneAdded
      BY <1>1, <1>3, ForgetIs DEF RemoveMeta, NoneAdded, Known
    <2>2. ~Working(t) /\ fed' = fed
      BY <1>3 DEF Working, RemoveMeta
    <2>3. \A u \in Actors \ {t} : Same(u)
      BY <1>3 DEF TypeOK, Same, RemoveMeta
    <2> QED
      BY <1>1, <2>1, <2>2, <2>3, BoundedKept
  <1>4. CASE InsertMeta(t)
    <2>1. pc'[t] = "evict"
      BY <1>1, <1>4 DEF InsertMeta, TypeOK
    <2> QED
      BY <2>1 DEF Bounded, Working
  <1>5. CASE EvictSize(t)
    <2> DEFINE excess == Cardinality(Known("hub")) - MaxSize
    <2>1. Known("hub")' = Known("hub") /\ fed' = fed /\ UNCHANGED <<key, todo>>
      BY <1>5 DEF EvictSize, Known
    <2>2. /\ need' = [need EXCEPT ![t] = IF excess > 0 THEN excess ELSE 0]
          /\ pc' = [pc EXCEPT ![t] = IF excess > 0 THEN "evict_list" ELSE "idle"]
      BY <1>5 DEF EvictSize
    <2>3. \A u \in Actors \ {t} : Same(u)
      BY <2>1, <2>2 DEF TypeOK, Same
    <2>4. Cardinality(Known("hub")) \in Nat
      BY KnownFinite
    <2>5. CASE excess > 0
      <3>1. pc'[t] = "evict_list" /\ need'[t] = excess
        BY <1>1, <2>2, <2>5 DEF TypeOK
      <3>2. Cardinality(Known("hub")') <= MaxSize + need'[t]
        BY <1>1, <2>1, <2>4, <3>1
      <3>3. Working(t)'
        BY <3>1, <3>2 DEF Working
      <3> QED
        BY <1>1, <2>1, <2>3, <3>3, BoundedKept DEF NoneAdded
    <2>6. CASE ~(excess > 0)
      <3>1. Cardinality(Known("hub")') <= MaxSize
        BY <1>1, <2>1, <2>4, <2>6
      <3> QED
        BY <1>1, <2>1, <2>3, <3>1, BoundedKept DEF NoneAdded
    <2> QED
      BY <2>5, <2>6
  <1>6. CASE EvictList(t)
    <2>1. PICK s \in SetToSeqs(Known("hub")) : todo' = [todo EXCEPT ![t] = s]
      BY <1>6 DEF EvictList, OldestFirst
    <2>2. Len(s) = Cardinality(Known("hub")) /\ Known("hub") \subseteq ToSet(s)
      BY KnownFinite, ListOfSet
    <2>3. /\ Known("hub")' = Known("hub") /\ fed' = fed /\ UNCHANGED <<key, need>>
          /\ pc[t] = "evict_list" /\ pc' = [pc EXCEPT ![t] = "visit"]
      BY <1>6 DEF EvictList, Known
    <2>4. \A u \in Actors \ {t} : Same(u)
      BY <2>1, <2>3 DEF TypeOK, Same
    <2>5. pc'[t] = "visit" /\ todo'[t] = s /\ need'[t] = need[t]
      BY <1>1, <2>1, <2>3 DEF TypeOK
    <2>6. Working(t) => Working(t)'
      BY <2>2, <2>3, <2>5 DEF Working, Lists
    <2> QED
      BY <1>1, <2>3, <2>4, <2>6, BoundedKept DEF NoneAdded
  <1> QED
    BY <1>2, <1>3, <1>4, <1>5, <1>6

\* The loop of an eviction: an entry it leaves in the metadata is one it need not
\* delete.
LEMMA BoundedJob ==
  ASSUME TypeOK, Bounded, NEW a \in Actors, Job(a)
  PROVE  Bounded'
  <1> USE DEF diskVars, timeVars, jobVars, ghostVars, Goto
  <1>1. /\ key[a] \in Keys /\ todo[a] \in Seq(Keys) /\ need[a] \in Nat /\ MaxSize \in Nat
        /\ "cli" \notin Tasks /\ Proc(a) \in {"hub", "cli"} /\ (a \in Tasks => Proc(a) = "hub")
    BY ResourceConstants DEF TypeOK, Proc
  <1>2. CASE Visit(a)
    <2>0. PICK deleted \in BOOLEAN :
            need' = [need EXCEPT ![a] = IF deleted \/ a = "cli" THEN @ - 1 ELSE @]
      BY <1>2 DEF Visit
    <2> DEFINE s == todo[a]
               n == IF deleted \/ a = "cli" THEN need[a] - 1 ELSE need[a]
    <2>1. /\ pc[a] = "visit" /\ s # <<>> /\ need[a] > 0
          /\ UNCHANGED <<meta, fed>>
          /\ pc' = [pc EXCEPT ![a] = "forget"] /\ key' = [key EXCEPT ![a] = Head(s)]
          /\ todo' = [todo EXCEPT ![a] = Tail(s)] /\ need' = [need EXCEPT ![a] = n]
      BY <1>2, <2>0 DEF Visit
    <2>2. \A u \in Actors \ {a} : Same(u)
      BY <2>1 DEF TypeOK, Same
    <2>3. /\ pc'[a] = "forget" /\ key'[a] = Head(s) /\ todo'[a] = Tail(s) /\ need'[a] = n
          /\ Known("hub")' = Known("hub")
      BY <2>1 DEF TypeOK, Known
    <2>4. /\ Len(Tail(s)) = Len(s) - 1 /\ Len(s) \in Nat
          /\ ToSet(s) \subseteq ToSet(Tail(s)) \cup {Head(s)}
      BY <1>1, <2>1, TailCovers
    <2>5. n \in Int /\ n >= need[a] - 1
      BY <1>1
    <2> HIDE DEF s, n
    <2>6. ASSUME Working(a) PROVE Working(a)'
      <3>1. Len(s) <= MaxSize + need[a] /\ Known("hub") \subseteq ToSet(s)
        BY <2>1, <2>6 DEF Working, Lists, s
      <3>2. Len(Tail(s)) <= MaxSize + n
        <4>1. Len(s) - 1 <= MaxSize + n
          BY <1>1, <2>4, <2>5, <3>1
        <4> QED
          BY <2>4, <4>1
      <3> QED
        BY <2>3, <2>4, <3>1, <3>2 DEF Working, Lists
    <2> QED
      BY <2>1, <2>2, <2>3, <2>6, BoundedKept DEF NoneAdded
  <1>3. CASE ForgetVisited(a)
    <2>1. /\ pc[a] = "forget" /\ Forget(a, key[a]) /\ pc' = [pc EXCEPT ![a] = "visit"]
          /\ UNCHANGED <<fed, key, todo, need>>
      BY <1>3 DEF ForgetVisited
    <2>2. \A u \in Actors \ {a} : Same(u)
      BY <2>1 DEF TypeOK, Same
    <2>3. /\ Known("hub")' \subseteq Known("hub")
          /\ a \in Tasks => key[a] \notin Known("hub")'
      BY <1>1, <2>1, ForgetIs DEF Known
    <2>4. ASSUME a \in Tasks, Working(a) PROVE Working(a)'
      <3>1. Lists(a) /\ Known("hub") \subseteq ToSet(todo[a]) \cup {key[a]}
        BY <2>1, <2>4 DEF Working
      <3>2. pc'[a] = "visit"
        BY <2>1 DEF TypeOK
      <3>3. Known("hub")' \subseteq ToSet(todo[a])
        BY <2>3, <2>4, <3>1
      <3> QED
        BY <2>1, <3>1, <3>2, <3>3 DEF Working, Lists
    <2> QED
      BY <2>1, <2>2, <2>3, <2>4, BoundedKept DEF NoneAdded
  <1>4. CASE VisitsEnd(a)
    <2>1. /\ pc[a] = "visit" /\ (todo[a] = <<>> \/ need[a] = 0)
          /\ UNCHANGED <<meta, fed, key, todo, need>>
          /\ \E label \in {"open_index", "idle"} : pc' = [pc EXCEPT ![a] = label]
      BY <1>4 DEF VisitsEnd
    <2>2. \A u \in Actors \ {a} : Same(u)
      BY <2>1 DEF TypeOK, Same
    <2>3. Known("hub")' = Known("hub")
      BY <2>1 DEF Known
    <2>4. ASSUME Working(a) PROVE Cardinality(Known("hub")') <= MaxSize
      <3>1. Len(todo[a]) <= MaxSize + need[a] /\ Known("hub") \subseteq ToSet(todo[a])
        BY <2>1, <2>4 DEF Working, Lists
      <3>2. Cardinality(Known("hub")) <= Len(todo[a]) /\ Cardinality(Known("hub")) \in Nat
        BY <1>1, <3>1, ListCovers, KnownFinite
      <3> QED
        BY <1>1, <2>1, <2>3, <3>1, <3>2
    <2> QED
      BY <2>1, <2>2, <2>3, <2>4, BoundedKept DEF NoneAdded
  <1>5. CASE OpenIndex(a) \/ WriteIndex(a)
    <2>1. /\ pc[a] \in {"open_index", "write_index"} /\ UNCHANGED <<meta, fed, key, todo, need>>
          /\ \E label \in {"write_index", "idle"} : pc' = [pc EXCEPT ![a] = label]
      BY <1>5 DEF OpenIndex, WriteIndex
    <2>2. \A u \in Actors \ {a} : Same(u)
      BY <2>1 DEF TypeOK, Same
    <2>3. NoneAdded /\ ~Working(a)
      BY <2>1 DEF NoneAdded, Known, Working
    <2> QED
      BY <2>1, <2>2, <2>3, BoundedKept
  <1> QED
    BY <1>2, <1>3, <1>4, <1>5 DEF Job

\* The cache command changes other metadata; a restart begins anew.
LEMMA BoundedNext == TypeOK /\ Bounded /\ [Next]_vars => Bounded'
  <1> SUFFICES ASSUME TypeOK, Bounded, [Next]_vars PROVE Bounded'
    OBVIOUS
  <1> USE DEF diskVars, timeVars, jobVars, ghostVars, Goto
  <1>1. ASSUME NEW e \in BOOLEAN, StartClear(e) PROVE Bounded'
    <2>1. /\ \A u \in Actors \ {"cli"} : Same(u)
          /\ meta'["hub"] = meta["hub"] /\ fed' = fed
      BY <1>1 DEF TypeOK, Same, StartClear
    <2>2. NoneAdded /\ "cli" \in Actors /\ "cli" \notin Tasks
      BY <2>1, ResourceConstants DEF NoneAdded, Known, Actors
    <2> QED
      BY <2>1, <2>2, BoundedKept
  <1>2. CASE Restart
    BY <1>2 DEF Restart, Bounded
  <1>3. CASE Age \/ UNCHANGED vars
    BY <1>3 DEF Age, vars, Bounded, Known, Working, Lists
  <1> QED
    BY <1>1, <1>2, <1>3, BoundedTask, BoundedJob DEF Next, Finished

-----------------------------------------------------------------------------
(* Theorems *)

\* No step of any task, command or restart leaves a variable's type.
THEOREM TypeCorrect == Spec => []TypeOK
  BY TypeInit, TypeNext, PTL DEF Spec

\* A URL has metadata, in any process and after any crash in the middle of a file
\* or of metadata.json, only once some put wrote its whole file.
THEOREM MetaAfterFile == Spec => []NoMetaBeforeFile
  <1>1. Init => Clean
    BY DEF Init, Clean, Empty
  <1>2. Clean => NoMetaBeforeFile
    BY DEF Clean, NoMetaBeforeFile
  <1> QED
    BY <1>1, <1>2, TypeInit, TypeNext, CleanNext, PTL DEF Spec

\* However many puts, gets and evictions of the hub ran side by side, with files
\* deleted under them by the cache command: when none is left and something was
\* put, the metadata is within max_size_mb.
THEOREM EvictionsKeepLimit == Spec => []BoundedWhenQuiet
  <1>1. Init => Bounded
    BY DEF Init, Bounded
  <1>2. Bounded => BoundedWhenQuiet
    BY DEF Bounded, BoundedWhenQuiet, Working
  <1> QED
    BY <1>1, <1>2, TypeInit, TypeNext, BoundedNext, PTL DEF Spec

=============================================================================
