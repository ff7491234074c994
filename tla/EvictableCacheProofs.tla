------------------------ MODULE EvictableCacheProofs ------------------------
(***************************************************************************)
(* Theorems about EvictableCache, for any number of threads, keys, shards  *)
(* and operations.                                                         *)
(***************************************************************************)
EXTENDS EvictableCache, FiniteSetTheorems, TLAPS

\* Which locks a thread holds follows from its program counter alone: a shard
\* guard exactly while it examines an entry, the LRU lock exactly in the
\* eviction loop; and the loop removes an entry only while excess is left.
LockInv ==
  /\ \A t \in Threads, s \in Shards : shardLock[s] = t =>
       pc[t] \in {"guard_hit", "guard_expired"} /\ s = ShardOf[key[t]]
  /\ \A t \in Threads : lruLock = t <=> pc[t] \in {"evict_pop", "evict_inner"}
  /\ \A t \in Threads : pc[t] = "evict_inner" => num[t] > 0

-----------------------------------------------------------------------------
\* The number of entries of a shard is a natural number.
LEMMA ShardCount ==
  ASSUME NEW s \in Shards
  PROVE  Cardinality({k \in Present : ShardOf[k] = s}) \in Nat
  BY CacheConstants, FS_Subset, FS_CardinalityType DEF Present

\* LruCache::put and pop keep positions natural, and touch only their key's
\* membership.
LEMMA LruPutFacts ==
  ASSUME TypeOK, NEW k \in Keys
  PROVE  /\ LruPut(k) \in [Keys -> Nat]
         /\ \A j \in Keys : LruPut(k)[j] # 0 <=> (j = k \/ lru[j] # 0)
  BY DEF TypeOK, LruPut

\* Popping a key leaves it with no position and the others ranked.
LEMMA LruPopFacts ==
  ASSUME TypeOK, NEW k \in Keys
  PROVE  /\ LruPop(k) \in [Keys -> Nat]
         /\ \A j \in Keys : LruPop(k)[j] # 0 <=> (j # k /\ lru[j] # 0)
  BY DEF TypeOK, LruPop

-----------------------------------------------------------------------------
Inv == TypeOK /\ LockInv

\* The new cache satisfies the invariant.
LEMMA InvInit == Init => Inv
  BY CacheConstants DEF Init, Inv, TypeOK, LockInv, PcLabels, AllOps, None

\* Beginning an operation takes no lock.
LEMMA InvStart ==
  ASSUME Inv, NEW t \in Threads, NEW o \in AllOps, NEW k \in Keys,
         NEW label \in PcLabels \ {"guard_hit", "guard_expired", "evict_pop", "evict_inner"},
         Start(t, o, k, label), todo' \in [Threads -> SUBSET Shards]
  PROVE  Inv'
  <1> USE DEF Inv, Start, Goto, cacheVars, lockVars
  <1>1. TypeOK'
    <2>1. UNCHANGED <<inner, lru, shardLock, lruLock, throttle, horizon, num, expired>>
      OBVIOUS
    <2>2. clock' \in Nat /\ budget' \in Nat /\ now' \in [Threads -> Nat]
      BY DEF TypeOK
    <2>3. pc' \in [Threads -> PcLabels] /\ op' \in [Threads -> AllOps] /\ key' \in [Threads -> Keys]
      BY DEF TypeOK
    <2> QED BY <2>1, <2>2, <2>3 DEF TypeOK
  <1>2. LockInv'
    BY DEF TypeOK, LockInv
  <1> QED BY <1>1, <1>2

\* Every operation a thread may call preserves the invariant.
LEMMA InvCall ==
  ASSUME Inv, NEW t \in Threads, Call(t)
  PROVE  Inv'
  <1> USE DEF PcLabels, AllOps
  <1>0. todo \in [Threads -> SUBSET Shards] /\ key[t] \in Keys
    BY DEF Inv, TypeOK
  <1>1. ASSUME NEW k \in Keys, StartGet(t, k) PROVE Inv'
    BY <1>0, <1>1, InvStart DEF StartGet
  <1>2. ASSUME NEW k \in Keys, StartGetEntry(t, k) PROVE Inv'
    BY <1>0, <1>2, InvStart DEF StartGetEntry
  <1>3. ASSUME NEW k \in Keys, StartInsert(t, k) PROVE Inv'
    BY <1>0, <1>3, InvStart DEF StartInsert
  <1>4. ASSUME NEW k \in Keys, StartRemove(t, k) PROVE Inv'
    BY <1>0, <1>4, InvStart DEF StartRemove
  <1>5. CASE StartClear(t)
    BY <1>0, <1>5, InvStart DEF StartClear
  <1>6. CASE StartEvict(t)
    BY <1>0, <1>6, InvStart DEF StartEvict
  <1> QED BY <1>1, <1>2, <1>3, <1>4, <1>5, <1>6 DEF Call

\* Every step of an operation preserves the invariant.
LEMMA InvBody ==
  ASSUME Inv, NEW t \in Threads, Body(t)
  PROVE  Inv'
  <1> USE CacheConstants DEF Inv, TypeOK, LockInv, Goto, cacheVars, lockVars, timeVars,
                             argVars, loopVars, PcLabels
  <1>1. CASE Lookup(t)
    <2>1. key[t] \in Keys /\ ShardOf[key[t]] \in Shards /\ now[t] \in Nat
      OBVIOUS
    <2>2. inner' \in [Keys -> [born : Nat, used : Nat]]
      <3>1. CASE UNCHANGED inner
        BY <3>1
      <3>2. CASE inner' = [inner EXCEPT ![key[t]].used = now[t]]
        <4>1. inner[key[t]] \in [born : Nat, used : Nat]
          BY <2>1
        <4>2. [inner[key[t]] EXCEPT !.used = now[t]] \in [born : Nat, used : Nat]
          BY <2>1, <4>1
        <4> QED BY <2>1, <3>2, <4>2
      <3> QED BY <1>1, <3>1, <3>2 DEF Lookup
    <2>3. shardLock' \in [Shards -> Threads \cup {NoThread}] /\ pc' \in [Threads -> PcLabels]
      <3>1. shardLock' = shardLock \/ shardLock' = [shardLock EXCEPT ![ShardOf[key[t]]] = t]
        BY <1>1 DEF Lookup
      <3>2. Goto(t, "idle") \/ Goto(t, "guard_hit") \/ Goto(t, "guard_expired")
        BY <1>1 DEF Lookup
      <3>3. shardLock' \in [Shards -> Threads \cup {NoThread}]
        BY <2>1, <3>1
      <3>4. pc' \in [Threads -> PcLabels]
        BY <3>2
      <3> QED BY <3>3, <3>4
    <2>4. TypeOK'
      BY <1>1, <2>2, <2>3 DEF Lookup
    <2>5. CASE Goto(t, "idle") /\ UNCHANGED shardLock
      BY <1>1, <2>4, <2>5 DEF Lookup
    <2>6. CASE /\ Goto(t, "guard_hit") \/ Goto(t, "guard_expired")
               /\ shardLock' = [shardLock EXCEPT ![ShardOf[key[t]]] = t]
      BY <1>1, <2>1, <2>4, <2>6 DEF Lookup
    <2> QED BY <1>1, <2>5, <2>6 DEF Lookup
  <1>2. CASE DropGuard(t)
    <2>1. TypeOK'
      BY <1>2 DEF DropGuard
    <2>2. LockInv'
      BY <1>2 DEF DropGuard
    <2> QED BY <2>1, <2>2
  <1>3. CASE TouchLru(t)
    <2>1. TypeOK'
      BY <1>3, LruPutFacts DEF TouchLru
    <2>2. LockInv'
      BY <1>3 DEF TouchLru
    <2> QED BY <2>1, <2>2
  <1>4. CASE ExpireInner(t)
    <2>1. TypeOK'
      BY <1>4 DEF ExpireInner, None
    <2>2. LockInv'
      BY <1>4 DEF ExpireInner
    <2> QED BY <2>1, <2>2
  <1>5. CASE ExpireLru(t)
    <2>1. TypeOK'
      BY <1>5, LruPopFacts DEF ExpireLru
    <2>2. LockInv'
      BY <1>5 DEF ExpireLru
    <2> QED BY <2>1, <2>2
  <1>6. CASE InsertInner(t)
    <2>1. TypeOK'
      BY <1>6 DEF InsertInner
    <2>2. LockInv'
      BY <1>6 DEF InsertInner
    <2> QED BY <2>1, <2>2
  <1>7. CASE InsertLru(t)
    <2>1. TypeOK'
      BY <1>7, LruPutFacts DEF InsertLru
    <2>2. LockInv'
      BY <1>7 DEF InsertLru
    <2> QED BY <2>1, <2>2
  <1>8. CASE RemoveLru(t)
    <2>1. TypeOK'
      BY <1>8, LruPopFacts DEF RemoveLru
    <2>2. LockInv'
      BY <1>8 DEF RemoveLru
    <2> QED BY <2>1, <2>2
  <1>9. CASE RemoveInner(t)
    <2>1. TypeOK'
      BY <1>9 DEF RemoveInner, None
    <2>2. LockInv'
      BY <1>9 DEF RemoveInner
    <2> QED BY <2>1, <2>2
  <1>10. CASE ClearLru(t)
    <2>1. TypeOK'
      BY <1>10 DEF ClearLru
    <2>2. LockInv'
      BY <1>10 DEF ClearLru
    <2> QED BY <2>1, <2>2
  <1>11. CASE ScanDone(t)
    <2>1. TypeOK'
      BY <1>11 DEF ScanDone
    <2>2. LockInv'
      BY <1>11 DEF ScanDone
    <2> QED BY <2>1, <2>2
  <1>12. CASE NextExpired(t)
    <2>1. ASSUME NEW k \in expired[t], key' = [key EXCEPT ![t] = k],
                 expired' = [expired EXCEPT ![t] = @ \ {k}], Goto(t, "expire_inner"),
                 UNCHANGED <<todo, num>>
          PROVE  Inv'
      <3>1. k \in Keys /\ expired' \in [Threads -> SUBSET Keys]
        BY <2>1
      <3>2. TypeOK'
        BY <1>12, <2>1, <3>1 DEF NextExpired
      <3>3. LockInv'
        BY <1>12, <2>1 DEF NextExpired
      <3> QED BY <3>2, <3>3
    <2>2. CASE /\ todo' = [todo EXCEPT ![t] = Shards]
               /\ num' = [num EXCEPT ![t] = 0]
               /\ Goto(t, "len")
               /\ UNCHANGED <<key, expired>>
      <3>1. TypeOK'
        BY <1>12, <2>2 DEF NextExpired
      <3>2. LockInv'
        BY <1>12, <2>2 DEF NextExpired
      <3> QED BY <3>1, <3>2
    <2> QED BY <1>12, <2>1, <2>2 DEF NextExpired
  <1>13. CASE CheckExcess(t)
    <2>1. num[t] \in Nat
      OBVIOUS
    <2>2. CASE num[t] <= MaxEntries /\ Goto(t, "idle") /\ UNCHANGED num
      BY <1>13, <2>2 DEF CheckExcess
    <2>3. CASE /\ num[t] > MaxEntries
               /\ num' = [num EXCEPT ![t] = @ - MaxEntries]
               /\ Goto(t, "throttle")
      <3>1. num' \in [Threads -> Nat]
        BY <2>1, <2>3
      <3> QED BY <1>13, <2>3, <3>1 DEF CheckExcess
    <2> QED BY <1>13, <2>2, <2>3 DEF CheckExcess
  <1>14. CASE CheckThrottle(t)
    <2>1. TypeOK'
      BY <1>14 DEF CheckThrottle
    <2>2. LockInv'
      BY <1>14 DEF CheckThrottle
    <2> QED BY <2>1, <2>2
  <1>15. CASE StoreEvict(t)
    <2>1. TypeOK'
      BY <1>15 DEF StoreEvict
    <2>2. LockInv'
      BY <1>15 DEF StoreEvict
    <2> QED BY <2>1, <2>2
  <1>16. CASE EvictLock(t)
    <2>1. TypeOK'
      BY <1>16 DEF EvictLock
    <2>2. LockInv'
      BY <1>16 DEF EvictLock
    <2> QED BY <2>1, <2>2
  <1>17. CASE EvictPop(t)
    <2>1. ASSUME NEW k \in Keys, num[t] > 0, key' = [key EXCEPT ![t] = k],
                 lru' = LruPop(k), Goto(t, "evict_inner"), UNCHANGED lruLock
          PROVE  Inv'
      <3>1. TypeOK'
        BY <1>17, <2>1, LruPopFacts DEF EvictPop
      <3>2. LockInv'
        BY <1>17, <2>1 DEF EvictPop
      <3> QED BY <3>1, <3>2
    <2>2. CASE lruLock' = NoThread /\ Goto(t, "idle") /\ UNCHANGED <<lru, key>>
      <3>1. TypeOK'
        BY <1>17, <2>2 DEF EvictPop
      <3>2. LockInv'
        BY <1>17, <2>2 DEF EvictPop
      <3> QED BY <3>1, <3>2
    <2> QED BY <1>17, <2>1, <2>2 DEF EvictPop
  <1>18. CASE EvictInner(t)
    <2>1. TypeOK'
      BY <1>18 DEF EvictInner, None
    <2>2. LockInv'
      BY <1>18 DEF EvictInner
    <2> QED BY <2>1, <2>2
  <1>19. ASSUME NEW s \in Shards, ClearShard(t, s) PROVE Inv'
    <2>1. TypeOK'
      BY <1>19 DEF ClearShard, None
    <2>2. LockInv'
      BY <1>19 DEF ClearShard
    <2> QED BY <2>1, <2>2
  <1>20. ASSUME NEW s \in Shards, ScanShard(t, s) PROVE Inv'
    <2>1. TypeOK'
      BY <1>20 DEF ScanShard, Present
    <2>2. LockInv'
      BY <1>20 DEF ScanShard
    <2> QED BY <2>1, <2>2
  <1>21. ASSUME NEW s \in Shards, LenShard(t, s) PROVE Inv'
    <2>1. TypeOK'
      <3>1. Cardinality({k \in Present : ShardOf[k] = s}) \in Nat
        BY ShardCount
      <3>2. num' \in [Threads -> Nat] /\ todo' \in [Threads -> SUBSET Shards]
        BY <1>21, <3>1 DEF LenShard
      <3> QED BY <1>21, <3>2 DEF LenShard
    <2>2. LockInv'
      BY <1>21 DEF LenShard
    <2> QED BY <2>1, <2>2
  <1> QED
    BY <1>1, <1>2, <1>3, <1>4, <1>5, <1>6, <1>7, <1>8, <1>9, <1>10, <1>11,
       <1>12, <1>13, <1>14, <1>15, <1>16, <1>17, <1>18, <1>19, <1>20, <1>21
    DEF Body, ShardStep


\* Every step of the cache preserves the invariant.
LEMMA InvStep == Inv /\ [Next]_vars => Inv'
  <1> SUFFICES ASSUME Inv, [Next]_vars PROVE Inv'
    OBVIOUS
  <1>1. ASSUME NEW t \in Threads, Call(t) PROVE Inv'
    BY <1>1, InvCall
  <1>2. ASSUME NEW t \in Threads, Body(t) PROVE Inv'
    BY <1>2, InvBody
  <1>3. CASE Age
    BY <1>3 DEF Age, Inv, TypeOK, LockInv, cacheVars, lockVars, argVars, loopVars
  <1>4. CASE Cool
    BY <1>4 DEF Cool, Inv, TypeOK, LockInv, cacheVars, lockVars, timeVars, argVars, loopVars
  <1>5. CASE UNCHANGED vars
    BY <1>5 DEF vars, Inv, TypeOK, LockInv, cacheVars, lockVars, timeVars, argVars, loopVars
  <1> QED
    BY <1>1, <1>2, <1>3, <1>4, <1>5 DEF Next, Finished

\* In every execution of the cache each variable keeps its type; in
\* particular the excess of an eviction and the positions in lru_index never
\* underflow, and locks are held exactly where LockInv says.
THEOREM TypeCorrect == Spec => []TypeOK
  <1>1. Spec => []Inv
    BY InvInit, InvStep, PTL DEF Spec
  <1>2. Inv => TypeOK
    BY DEF Inv
  <1> QED BY <1>1, <1>2, PTL

-----------------------------------------------------------------------------
\* Threads never wait on one another in a circle.  In any set of threads, one
\* that holds a shard guard waits for nothing; if there is none, no member
\* waits for a shard held in the set; a member in the eviction loop then waits
\* for nobody in the set, and without one nobody holds the LRU lock.
LEMMA LockInvImpliesNoDeadlock == Inv => NoDeadlockedSet
  <1> SUFFICES ASSUME Inv, NEW S \in SUBSET Threads, S # {}
               PROVE  \E t \in S : \A u \in S : ~WaitsFor(t, u)
    BY DEF NoDeadlockedSet
  <1> USE DEF Inv, LockInv, WaitsFor, WantsLru, WantsShard
  <1>1. CASE \E t \in S : pc[t] \in {"guard_hit", "guard_expired"}
    BY <1>1
  <1>2. CASE \A t \in S : pc[t] \notin {"guard_hit", "guard_expired"}
    <2>1. \A u \in S, s \in Shards : shardLock[s] # u
      BY <1>2
    <2>2. CASE \E t \in S : pc[t] \in {"evict_pop", "evict_inner"}
      BY <2>1, <2>2
    <2>3. CASE \A t \in S : pc[t] \notin {"evict_pop", "evict_inner"}
      <3>1. \A u \in S : lruLock # u
        BY <2>3
      <3> QED BY <2>1, <3>1
    <2> QED BY <2>2, <2>3
  <1> QED BY <1>1, <1>2

\* get, get_entry, insert, remove, clear and evict take the shard
\* locks and the lru_index lock so that no set of threads can wait for each
\* other in a circle.
THEOREM DeadlockFreedom == Spec => []NoDeadlockedSet
  <1>1. Spec => []Inv
    BY InvInit, InvStep, PTL DEF Spec
  <1> QED BY <1>1, LockInvImpliesNoDeadlock, PTL

-----------------------------------------------------------------------------
(* Orphans *)

\* No owner of the hub empties a cache: nobody calls the resolver's or the prober's
\* invalidate_all.
NoClear == "clear" \notin Ops

\* Calls and entries carry stamps, so that nothing is expired at horizon 0; without
\* TTL the horizon stays there.
Stamped ==
  /\ \A t \in Threads : now[t] <= clock /\ (pc[t] # "idle" => now[t] > 0)
  /\ \A k \in Present : inner[k].born > 0
  /\ ~HasTtl => horizon = 0

\* Until then nobody takes an entry out of inner before its key leaves lru_index, and
\* no entry is left without a key.
Unexpired ==
  /\ NoOrphan
  /\ \A t \in Threads :
       /\ pc[t] \notin {"guard_expired", "expire_inner", "expire_lru", "clear"}
       /\ expired[t] = {}

OrphanInv == Stamped /\ (horizon = 0 => Unexpired)

\* Nothing expires while no stamp is old.
LEMMA NotExpired ==
  ASSUME Inv, Stamped, horizon = 0, NEW k \in Present
  PROVE  ~Expired(inner[k])
  <1>1. inner[k] \in [born : Nat, used : Nat] /\ inner[k].born > 0
    BY DEF Inv, TypeOK, Stamped, Present
  <1> QED BY <1>1 DEF Expired

\* A step of an operation that changes no entry but to take it out or to touch it.
LEMMA StampedMove ==
  ASSUME Inv, Stamped, NEW t \in Threads, NEW l, pc[t] # "idle", Goto(t, l),
         UNCHANGED <<now, clock, horizon>>,
         \A k \in Present' : inner'[k].born = inner[k].born /\ k \in Present
  PROVE  Stamped'
  <1>1. \A u \in Threads : pc'[u] = pc[u] \/ u = t
    BY DEF Goto, Inv, TypeOK
  <1>2. \A u \in Threads : now'[u] <= clock' /\ (pc'[u] # "idle" => now'[u] > 0)
    BY <1>1 DEF Stamped
  <1> QED BY <1>2 DEF Stamped

\* What a thread may take out of inner, or put there.
LEMMA PresentMove ==
  ASSUME Inv, NEW k \in Keys
  PROVE  /\ inner' = [inner EXCEPT ![k] = None] =>
              Present' = Present \ {k} /\ \A j \in Present' : inner'[j] = inner[j]
         /\ UNCHANGED inner => Present' = Present
  BY DEF Inv, TypeOK, Present

\* A touch changes last_accessed alone.
LEMMA LookupTouches ==
  ASSUME Inv, Stamped, NEW t \in Threads, Lookup(t)
  PROVE  Present' = Present /\ \A k \in Present : inner'[k].born = inner[k].born
  <1>1. key[t] \in Keys /\ inner \in [Keys -> [born : Nat, used : Nat]] /\ now[t] \in Nat
    BY DEF Inv, TypeOK
  <1>2. CASE UNCHANGED inner
    BY <1>2 DEF Present
  <1>3. CASE inner' = [inner EXCEPT ![key[t]].used = now[t]] /\ inner[key[t]] # None
    <2>1. key[t] \in Present /\ inner[key[t]].born > 0
      BY <1>1, <1>3 DEF Present, Stamped
    <2>2. inner'[key[t]] = [inner[key[t]] EXCEPT !.used = now[t]]
      BY <1>1, <1>3
    <2>3. inner'[key[t]].born = inner[key[t]].born
      BY <1>1, <2>2
    <2>4. inner'[key[t]] # None
      BY <2>1, <2>3 DEF None
    <2>5. \A j \in Keys : j # key[t] => inner'[j] = inner[j]
      BY <1>1, <1>3
    <2> QED BY <1>3, <2>1, <2>3, <2>4, <2>5 DEF Present
  <1> QED BY <1>2, <1>3 DEF Lookup

\* Every step keeps the stamps.
LEMMA StampedNext ==
  ASSUME Inv, Stamped, [Next]_vars
  PROVE  Stamped'
  <1> USE DEF cacheVars, lockVars, timeVars, argVars, loopVars
  <1>1. pc \in [Threads -> PcLabels] /\ now \in [Threads -> Nat] /\ clock \in Nat
    BY DEF Inv, TypeOK
  <1>2. key \in [Threads -> Keys]
    BY DEF Inv, TypeOK
  <1>3. ASSUME NEW t \in Threads, Call(t) PROVE Stamped'
    <2>1. ASSUME NEW k, NEW o, NEW l, Start(t, o, k, l) PROVE Stamped'
      <3>1. /\ pc' = [pc EXCEPT ![t] = l] /\ now' = [now EXCEPT ![t] = clock + 1]
            /\ clock' = clock + 1 /\ UNCHANGED <<inner, horizon>>
        BY <2>1 DEF Start, Goto
      <3>2. \A u \in Threads : now'[u] <= clock' /\ (pc'[u] # "idle" => now'[u] > 0)
        BY <1>1, <3>1 DEF Stamped
      <3>3. Present' = Present
        BY <3>1 DEF Present
      <3> QED BY <3>1, <3>2, <3>3 DEF Stamped
    <2> QED
      BY <1>3, <2>1 DEF Call, StartGet, StartGetEntry, StartInsert, StartRemove, StartClear,
                        StartEvict
  <1>4. ASSUME NEW t \in Threads, Lookup(t) PROVE Stamped'
    <2>1. /\ pc[t] # "idle" /\ UNCHANGED <<now, clock, horizon>>
          /\ \E l \in {"idle", "guard_hit", "guard_expired"} : Goto(t, l)
      BY <1>4 DEF Lookup
    <2> QED BY <1>4, <2>1, LookupTouches, StampedMove
  <1>5. ASSUME NEW t \in Threads, DropGuard(t) \/ TouchLru(t) \/ ExpireLru(t) \/ RemoveLru(t)
                 \/ InsertLru(t) \/ ClearLru(t) \/ ScanDone(t) \/ NextExpired(t)
                 \/ CheckExcess(t) \/ CheckThrottle(t) \/ StoreEvict(t) \/ EvictLock(t)
                 \/ EvictPop(t)
        PROVE  Stamped'
    <2>1. /\ pc[t] # "idle" /\ UNCHANGED <<now, clock, horizon, inner>>
          /\ \E l \in PcLabels : Goto(t, l)
      BY <1>5 DEF DropGuard, TouchLru, ExpireLru, RemoveLru, InsertLru, ClearLru, ScanDone,
                  NextExpired, CheckExcess, CheckThrottle, StoreEvict, EvictLock, EvictPop,
                  PcLabels
    <2>2. Present' = Present
      BY <2>1 DEF Present
    <2> QED BY <2>1, <2>2, StampedMove
  <1>6. ASSUME NEW t \in Threads, ExpireInner(t) \/ RemoveInner(t) \/ EvictInner(t)
        PROVE  Stamped'
    <2>1. /\ pc[t] # "idle" /\ UNCHANGED <<now, clock, horizon>>
          /\ inner' = [inner EXCEPT ![key[t]] = None]
          /\ \E l \in {"idle", "expire_lru", "evict_pop"} : Goto(t, l)
      BY <1>6 DEF ExpireInner, RemoveInner, EvictInner
    <2>2. \A k \in Present' : inner'[k].born = inner[k].born /\ k \in Present
      BY <1>2, <2>1, PresentMove
    <2> QED BY <2>1, <2>2, StampedMove
  <1>7. ASSUME NEW t \in Threads, InsertInner(t) PROVE Stamped'
    <2>1. /\ pc[t] = "insert" /\ pc' = [pc EXCEPT ![t] = "insert_lru"]
          /\ inner' = [inner EXCEPT ![key[t]] = [born |-> now[t], used |-> now[t]]]
          /\ UNCHANGED <<now, clock, horizon>>
      BY <1>7 DEF InsertInner, Goto
    <2>2. \A u \in Threads : now'[u] <= clock' /\ (pc'[u] # "idle" => now'[u] > 0)
      BY <1>1, <2>1 DEF Stamped
    <2>3. ASSUME NEW k \in Present' PROVE inner'[k].born > 0
      <3>1. CASE k = key[t]
        <4>1. inner'[k] = [born |-> now[t], used |-> now[t]]
          BY <1>2, <2>1, <3>1 DEF Inv, TypeOK
        <4>2. now[t] > 0
          BY <2>1 DEF Stamped
        <4> QED BY <4>1, <4>2
      <3>2. CASE k # key[t]
        <4>1. inner'[k] = inner[k] /\ k \in Present
          BY <2>1, <2>3, <3>2 DEF Inv, TypeOK, Present
        <4> QED BY <4>1 DEF Stamped
      <3> QED BY <3>1, <3>2
    <2> QED BY <2>1, <2>2, <2>3 DEF Stamped
  <1>8. ASSUME NEW t \in Threads, ShardStep(t) PROVE Stamped'
    <2>1. UNCHANGED <<pc, now, clock, horizon>>
      BY <1>8 DEF ShardStep, ClearShard, ScanShard, LenShard
    <2>2. \A k \in Present' : k \in Present /\ inner'[k] = inner[k]
      BY <1>8 DEF ShardStep, ClearShard, ScanShard, LenShard, Present
    <2> QED BY <2>1, <2>2 DEF Stamped
  <1>9. CASE Age \/ Cool \/ UNCHANGED vars
    <2>1. UNCHANGED <<inner, pc, now, clock>> /\ (~HasTtl => horizon' = horizon)
      BY <1>9 DEF Age, Cool, vars
    <2>2. Present' = Present
      BY <2>1 DEF Present
    <2> QED BY <2>1, <2>2 DEF Stamped
  <1> QED
    BY <1>3, <1>4, <1>5, <1>6, <1>7, <1>8, <1>9 DEF Next, Finished, Body

\* A thread that settles nothing moves on and touches neither structure.
LEMMA UnexpiredMove ==
  ASSUME Inv, Unexpired, NEW t \in Threads, NEW l,
         l \notin {"guard_expired", "expire_inner", "expire_lru", "clear"},
         pc[t] \notin {"insert_lru", "remove_inner", "evict_inner"},
         Goto(t, l), UNCHANGED expired, Present' = Present, Indexed \subseteq Indexed',
         \A u \in Threads \ {t} : key'[u] = key[u]
  PROVE  Unexpired'
  <1>1. /\ pc' = [pc EXCEPT ![t] = l] /\ pc \in [Threads -> PcLabels]
    BY DEF Goto, Inv, TypeOK
  <1>2. ASSUME NEW k \in Present \ Indexed PROVE \E u \in Threads : Settles(u, k)'
    <2>1. PICK u \in Threads : Settles(u, k)
      BY <1>2 DEF Unexpired, NoOrphan
    <2>2. u # t
      BY <2>1 DEF Settles
    <2>3. pc'[u] = pc[u] /\ key'[u] = key[u]
      BY <1>1, <2>2
    <2> QED BY <2>1, <2>3 DEF Settles
  <1>3. NoOrphan'
    BY <1>2 DEF NoOrphan
  <1>4. \A u \in Threads : pc'[u] \in {l, pc[u]}
    BY <1>1
  <1> QED BY <1>3, <1>4 DEF Unexpired

\* A thread that has settled its own key leaves the others' to them.
LEMMA SettledMove ==
  ASSUME Inv, Unexpired, NEW t \in Threads, NEW l,
         l \notin {"guard_expired", "expire_inner", "expire_lru", "clear"},
         Goto(t, l), UNCHANGED <<key, expired>>,
         \A k \in Present' \ Indexed' : k # key[t] /\ k \in Present \ Indexed
  PROVE  Unexpired'
  <1>1. /\ pc' = [pc EXCEPT ![t] = l] /\ pc \in [Threads -> PcLabels]
    BY DEF Goto, Inv, TypeOK
  <1>2. ASSUME NEW k \in Present' \ Indexed' PROVE \E u \in Threads : Settles(u, k)'
    <2>1. k # key[t] /\ k \in Present \ Indexed
      BY <1>2
    <2>2. PICK u \in Threads : Settles(u, k)
      BY <2>1 DEF Unexpired, NoOrphan
    <2>3. u # t
      BY <2>1, <2>2 DEF Settles
    <2>4. pc'[u] = pc[u] /\ key'[u] = key[u]
      BY <1>1, <2>3
    <2> QED BY <2>2, <2>4 DEF Settles
  <1>3. NoOrphan'
    BY <1>2 DEF NoOrphan
  <1>4. \A u \in Threads : pc'[u] \in {l, pc[u]}
    BY <1>1
  <1> QED BY <1>3, <1>4 DEF Unexpired

\* A thread takes on the key that it makes an orphan.
LEMMA SettlingMove ==
  ASSUME Inv, Unexpired, NEW t \in Threads, NEW l \in {"insert_lru", "remove_inner", "evict_inner"},
         pc[t] \notin {"insert_lru", "remove_inner", "evict_inner"},
         Goto(t, l), UNCHANGED expired, key' \in [Threads -> Keys],
         \A u \in Threads \ {t} : key'[u] = key[u],
         \A k \in Present' \ Indexed' : k = key'[t] \/ k \in Present \ Indexed
  PROVE  Unexpired'
  <1>1. /\ pc' = [pc EXCEPT ![t] = l] /\ pc \in [Threads -> PcLabels]
    BY DEF Goto, Inv, TypeOK
  <1>2. ASSUME NEW k \in Present' \ Indexed' PROVE \E u \in Threads : Settles(u, k)'
    <2>1. CASE k = key'[t]
      BY <1>1, <2>1 DEF Settles
    <2>2. CASE k # key'[t]
      <3>1. PICK u \in Threads : Settles(u, k)
        BY <1>2, <2>2 DEF Unexpired, NoOrphan
      <3>2. u # t
        BY <3>1 DEF Settles
      <3>3. pc'[u] = pc[u] /\ key'[u] = key[u]
        BY <1>1, <3>2
      <3> QED BY <3>1, <3>3 DEF Settles
    <2> QED BY <2>1, <2>2
  <1>3. NoOrphan'
    BY <1>2 DEF NoOrphan
  <1>4. \A u \in Threads : pc'[u] \in {l, pc[u]}
    BY <1>1
  <1> QED BY <1>3, <1>4 DEF Unexpired

\* Calling an operation leaves no entry without a position.
LEMMA UnexpiredCall ==
  ASSUME NoClear, Inv, Unexpired, NEW t \in Threads, Call(t)
  PROVE  Unexpired'
  <1>1. ASSUME NEW k, NEW o, NEW l \in {"lookup", "insert", "remove_lru", "scan"},
               Start(t, o, k, l)
        PROVE  Unexpired'
    <2>1. /\ pc[t] = "idle" /\ Goto(t, l) /\ UNCHANGED <<inner, lru, expired>>
          /\ key' = [key EXCEPT ![t] = k]
      BY <1>1 DEF Start, cacheVars
    <2>2. \A u \in Threads \ {t} : key'[u] = key[u]
      BY <2>1 DEF Inv, TypeOK
    <2>3. Present' = Present /\ Indexed' = Indexed
      BY <2>1 DEF Present, Indexed
    <2> QED BY <2>1, <2>2, <2>3, UnexpiredMove
  <1>2. ~StartClear(t)
    BY DEF NoClear, StartClear, Start
  <1> QED
    BY <1>1, <1>2 DEF Call, StartGet, StartGetEntry, StartInsert, StartRemove, StartEvict

\* No step of an operation leaves an entry without a position.
LEMMA UnexpiredBody ==
  ASSUME Inv, Stamped, horizon = 0, Unexpired, NEW t \in Threads, Body(t)
  PROVE  Unexpired'
  <1> USE DEF cacheVars, lockVars, timeVars, argVars, loopVars
  <1>1. /\ key \in [Threads -> Keys] /\ pc \in [Threads -> PcLabels] /\ lru \in [Keys -> Nat]
        /\ inner \in [Keys -> [born : Nat, used : Nat]] /\ key[t] \in Keys
    BY DEF Inv, TypeOK
  <1>2. UNCHANGED inner => Present' = Present
    BY DEF Present
  <1>3. UNCHANGED lru => Indexed' = Indexed
    BY DEF Indexed
  <1>4. lru' = LruPut(key[t]) => Indexed' = Indexed \cup {key[t]}
    BY <1>1, LruPutFacts DEF Indexed, Inv
  <1>5. \A k \in Keys : lru' = LruPop(k) => Indexed' = Indexed \ {k}
    BY LruPopFacts DEF Indexed, Inv
  <1>6. CASE Lookup(t)
    <2>1. Present' = Present /\ UNCHANGED <<lru, key, expired>>
      BY <1>6, LookupTouches DEF Lookup
    <2>2. ~(inner[key[t]] # None /\ Expired(inner[key[t]]))
      BY <1>1, NotExpired DEF Present
    <2>3. pc[t] = "lookup" /\ (Goto(t, "idle") \/ Goto(t, "guard_hit"))
      BY <1>6, <2>2 DEF Lookup
    <2> QED BY <1>3, <2>1, <2>3, UnexpiredMove
  <1>7. CASE DropGuard(t)
    <2>1. pc[t] = "guard_hit"
      BY <1>7 DEF DropGuard, Unexpired
    <2>2. Goto(t, "touch_lru") /\ UNCHANGED <<inner, lru, key, expired>>
      BY <1>7, <2>1 DEF DropGuard
    <2> QED BY <1>2, <1>3, <2>1, <2>2, UnexpiredMove
  <1>8. CASE TouchLru(t)
    <2>1. /\ pc[t] = "touch_lru" /\ Goto(t, "idle") /\ lru' = LruPut(key[t])
          /\ UNCHANGED <<inner, key, expired>>
      BY <1>8 DEF TouchLru
    <2> QED BY <1>2, <1>4, <2>1, UnexpiredMove
  <1>9. CASE InsertInner(t)
    <2>1. /\ pc[t] = "insert" /\ Goto(t, "insert_lru") /\ UNCHANGED <<lru, key, expired>>
          /\ inner' = [inner EXCEPT ![key[t]] = [born |-> now[t], used |-> now[t]]]
      BY <1>9 DEF InsertInner
    <2>2. \A k \in Present' : k = key'[t] \/ k \in Present
      BY <1>1, <2>1 DEF Present
    <2> QED BY <1>1, <1>3, <2>1, <2>2, SettlingMove
  <1>10. CASE InsertLru(t)
    <2>1. /\ Goto(t, "len") /\ lru' = LruPut(key[t]) /\ UNCHANGED <<inner, key, expired>>
      BY <1>10 DEF InsertLru
    <2> QED BY <1>2, <1>4, <2>1, SettledMove
  <1>11. CASE RemoveLru(t)
    <2>1. /\ pc[t] = "remove_lru" /\ Goto(t, "remove_inner") /\ lru' = LruPop(key[t])
          /\ UNCHANGED <<inner, key, expired>>
      BY <1>11 DEF RemoveLru
    <2> QED BY <1>1, <1>2, <1>5, <2>1, SettlingMove
  <1>12. CASE RemoveInner(t) \/ EvictInner(t)
    <2>1. /\ \E l \in {"idle", "evict_pop"} : Goto(t, l)
          /\ inner' = [inner EXCEPT ![key[t]] = None] /\ UNCHANGED <<lru, key, expired>>
      BY <1>12 DEF RemoveInner, EvictInner
    <2>2. Present' = Present \ {key[t]}
      BY <1>1, <2>1, PresentMove
    <2> QED BY <1>3, <2>1, <2>2, SettledMove
  <1>13. CASE EvictPop(t)
    <2>1. pc[t] = "evict_pop" /\ UNCHANGED <<inner, expired>>
      BY <1>13 DEF EvictPop
    <2>2. ASSUME NEW k \in Keys, key' = [key EXCEPT ![t] = k], lru' = LruPop(k),
                 Goto(t, "evict_inner")
          PROVE  Unexpired'
      <3>1. key'[t] = k /\ key' \in [Threads -> Keys] /\ \A u \in Threads \ {t} : key'[u] = key[u]
        BY <1>1, <2>2
      <3>2. Present' = Present /\ Indexed' = Indexed \ {k}
        BY <1>2, <1>5, <2>1, <2>2
      <3> QED BY <2>1, <2>2, <3>1, <3>2, SettlingMove
    <2>3. CASE Goto(t, "idle") /\ UNCHANGED <<lru, key>>
      BY <1>2, <1>3, <2>1, <2>3, UnexpiredMove
    <2> QED BY <1>13, <2>2, <2>3 DEF EvictPop
  <1>14. CASE ScanDone(t) \/ CheckExcess(t) \/ CheckThrottle(t) \/ StoreEvict(t) \/ EvictLock(t)
    <2>1. /\ pc[t] \in {"scan", "len", "throttle", "store_evict", "evict_lock"}
          /\ \E l \in {"idle", "next_expired", "throttle", "store_evict", "evict_lock",
                       "evict_pop"} : Goto(t, l)
          /\ UNCHANGED <<inner, lru, key, expired>>
      BY <1>14 DEF ScanDone, CheckExcess, CheckThrottle, StoreEvict, EvictLock
    <2> QED BY <1>2, <1>3, <2>1, UnexpiredMove
  <1>15. CASE NextExpired(t)
    <2>1. expired[t] = {}
      BY DEF Unexpired
    <2>2. /\ pc[t] = "next_expired" /\ Goto(t, "len") /\ UNCHANGED <<inner, lru, key, expired>>
      BY <1>15, <2>1 DEF NextExpired
    <2> QED BY <1>2, <1>3, <2>2, UnexpiredMove
  <1>16. ASSUME NEW s \in Shards, ScanShard(t, s) \/ LenShard(t, s) PROVE Unexpired'
    <2>1. {k \in Present : ShardOf[k] = s /\ Expired(inner[k])} = {}
      BY NotExpired
    <2>2. UNCHANGED <<inner, lru, key, pc>>
      BY <1>16 DEF ScanShard, LenShard
    <2>3. \A u \in Threads : expired'[u] = {}
      BY <1>16, <2>1 DEF ScanShard, LenShard, Unexpired, Inv, TypeOK
    <2>4. NoOrphan'
      BY <1>2, <1>3, <2>2 DEF Unexpired, NoOrphan, Settles
    <2> QED BY <2>2, <2>3, <2>4 DEF Unexpired
  <1>17. /\ ~ExpireInner(t) /\ ~ExpireLru(t) /\ ~ClearLru(t)
         /\ \A s \in Shards : ~ClearShard(t, s)
    BY DEF ExpireInner, ExpireLru, ClearLru, ClearShard, Unexpired
  <1> QED
    BY <1>6, <1>7, <1>8, <1>9, <1>10, <1>11, <1>12, <1>13, <1>14, <1>15, <1>16, <1>17
    DEF Body, ShardStep

\* The new cache is empty.
LEMMA OrphanInit == Init => OrphanInv
  BY DEF Init, OrphanInv, Stamped, Unexpired, NoOrphan, Present

\* Every step keeps the entries in reach of eviction.
LEMMA OrphanNext == ASSUME NoClear PROVE Inv /\ OrphanInv /\ [Next]_vars => OrphanInv'
  <1> SUFFICES ASSUME Inv, OrphanInv, [Next]_vars PROVE OrphanInv'
    OBVIOUS
  <1> USE DEF cacheVars, lockVars, timeVars, argVars, loopVars
  <1>1. Stamped'
    BY StampedNext DEF OrphanInv
  <1>2. horizon' = 0 => horizon = 0
    <2>1. horizon \in Nat
      BY DEF Inv, TypeOK
    <2>2. ASSUME NEW t \in Threads, Call(t) PROVE horizon' = horizon
      BY <2>2 DEF Call, StartGet, StartGetEntry, StartInsert, StartRemove, StartClear,
                  StartEvict, Start
    <2>3. ASSUME NEW t \in Threads, Body(t) PROVE horizon' = horizon
      BY <2>3 DEF Body, ShardStep, Lookup, DropGuard, TouchLru, ExpireInner, ExpireLru,
                  InsertInner, InsertLru, RemoveLru, RemoveInner, ClearShard, ClearLru,
                  ScanShard, ScanDone, NextExpired, LenShard, CheckExcess, CheckThrottle,
                  StoreEvict, EvictLock, EvictPop, EvictInner
    <2>4. CASE Age \/ Cool \/ UNCHANGED vars
      BY <2>1, <2>4 DEF Age, Cool, vars
    <2> QED BY <2>2, <2>3, <2>4 DEF Next, Finished
  <1>3. ASSUME horizon = 0, horizon' = 0 PROVE Unexpired'
    <2>1. Stamped /\ Unexpired
      BY <1>3 DEF OrphanInv
    <2>2. CASE UNCHANGED <<inner, lru, pc, key, expired>>
      BY <2>1, <2>2 DEF Unexpired, NoOrphan, Settles, Present, Indexed
    <2>3. (Age \/ Cool \/ UNCHANGED vars) => UNCHANGED <<inner, lru, pc, key, expired>>
      BY DEF Age, Cool, vars
    <2> QED
      BY <1>3, <2>1, <2>2, <2>3, UnexpiredCall, UnexpiredBody DEF Next, Finished
  <1> QED BY <1>1, <1>2, <1>3 DEF OrphanInv

\* In a cache whose owner never calls clear, get, insert, remove, evict and the
\* eviction inside insert, by any number of threads, leave no entry in inner that
\* lru_index does not know, unless one is about to put that right, until an entry
\* outlives the TTL.
THEOREM NoOrphanBeforeExpiry ==
  ASSUME NoClear
  PROVE  Spec => []NoOrphanUntilExpiry
  <1>1. OrphanInv => NoOrphanUntilExpiry
    BY DEF OrphanInv, Unexpired, NoOrphanUntilExpiry
  <1> QED BY <1>1, OrphanInit, OrphanNext, InvInit, InvStep, PTL DEF Spec

\* In a cache without TTL, the certificate cache, that is so forever: eviction can
\* reach every entry.
THEOREM SimpleCacheHasNoOrphan ==
  ASSUME NoClear, ~HasTtl
  PROVE  Spec => []NoOrphan
  <1>1. OrphanInv => NoOrphan
    BY DEF OrphanInv, Stamped, Unexpired
  <1> QED BY <1>1, OrphanInit, OrphanNext, InvInit, InvStep, PTL DEF Spec

-----------------------------------------------------------------------------
(* One user *)

\* lru_index and inner list the same keys, but for the one the user is busy with.
Matching(u) ==
  /\ pc[u] \notin {"expire_lru", "insert_lru", "remove_inner", "evict_inner", "clear"} =>
       Present = Indexed
  /\ pc[u] = "expire_lru" => Present = Indexed \ {key[u]}
  /\ pc[u] = "insert_lru" => Present = Indexed \cup {key[u]}
  /\ pc[u] \in {"remove_inner", "evict_inner"} => Indexed = Present \ {key[u]}
  /\ pc[u] = "clear" => Present = {k \in Indexed : ShardOf[k] \in todo[u]}
  /\ pc[u] \in {"guard_hit", "guard_expired", "touch_lru", "evict_inner"} => key[u] \in Present

\* Where the user's key is stamped and not yet moved to the front.
Touching == {"guard_hit", "touch_lru", "insert_lru"}

\* Positions are distinct and in the order of last_accessed, and no stamp is later
\* than that of the user's last call.
Ranked(u) ==
  /\ \A i, j \in Indexed : lru[i] = lru[j] => i = j
  /\ \A k \in Present : inner[k].used <= now[u]
  /\ pc[u] \in Touching => inner[key[u]].used = now[u]
  /\ \A i, j \in Present \cap Indexed :
       lru[i] < lru[j] /\ (pc[u] \in Touching => key[u] \notin {i, j}) =>
         inner[j].used <= inner[i].used
  /\ pc[u] = "evict_inner" => \A k \in Present : inner[key[u]].used <= inner[k].used

Evicting == {"throttle", "store_evict", "evict_lock", "evict_pop", "evict_inner"}

\* num is what len() has seen, then the excess over max_entries; and an insert's own
\* entry is at the front of lru_index.
Counted(u) ==
  /\ pc[u] = "len" => num[u] = Cardinality({k \in Present : ShardOf[k] \notin todo[u]})
  /\ pc[u] \in Evicting => Cardinality(Present) = num[u] + MaxEntries
  /\ pc[u] \in {"scan", "next_expired"} => op[u] = "evict"
  /\ pc[u] = "insert_lru" => inner[key[u]].born = now[u]
  /\ op[u] = "insert" /\ MaxEntries > 0 /\ pc[u] \in Evicting \cup {"len"} =>
       \E k \in Present : /\ inner[k].born = now[u] /\ lru[k] = 1
                          /\ pc[u] = "evict_inner" => k # key[u]

SoloInv == \A u \in Threads : OnlyUser(u) => Matching(u) /\ Ranked(u) /\ Counted(u)

\* LruCache::put: k comes to the front and the others keep their order.
LEMMA LruPutOrder ==
  ASSUME TypeOK, NEW k \in Keys, lru' = LruPut(k), \A i, j \in Indexed : lru[i] = lru[j] => i = j
  PROVE  /\ Indexed' = Indexed \cup {k} /\ lru'[k] = 1
         /\ \A i \in Indexed : i # k => lru'[i] > 1
         /\ \A i, j \in Indexed : i # k /\ j # k => (lru'[i] < lru'[j] <=> lru[i] < lru[j])
         /\ \A i, j \in Indexed' : lru'[i] = lru'[j] => i = j
  <1>1. lru \in [Keys -> Nat]
    BY DEF TypeOK
  <1>2. /\ lru'[k] = 1
        /\ \A j \in Keys : j # k =>
             lru'[j] = IF lru[j] # 0 /\ (lru[k] = 0 \/ lru[j] < lru[k]) THEN lru[j] + 1 ELSE lru[j]
    BY DEF LruPut
  <1>3. Indexed' = Indexed \cup {k}
    BY LruPutFacts DEF Indexed
  <1>4. ASSUME NEW i \in Indexed, i # k
        PROVE  lru'[i] > 1 /\ lru[i] # 0 /\ lru[i] # lru[k] /\ lru[i] \in Nat
    <2>1. lru[i] # 0 /\ lru[i] \in Nat /\ lru[k] \in Nat /\ i \in Keys
      BY <1>1 DEF Indexed
    <2>2. lru[i] # lru[k]
      BY <1>4, <2>1 DEF Indexed
    <2> QED BY <1>2, <1>4, <2>1, <2>2
  <1>5. ASSUME NEW i \in Indexed, NEW j \in Indexed, i # k, j # k
        PROVE  /\ lru'[i] < lru'[j] <=> lru[i] < lru[j]
               /\ lru'[i] = lru'[j] => i = j
    <2>1. i \in Keys /\ j \in Keys /\ lru[k] \in Nat
      BY <1>1 DEF Indexed
    <2>2. lru'[i] = lru'[j] => lru[i] = lru[j]
      BY <1>2, <1>4, <1>5, <2>1
    <2> QED BY <1>2, <1>4, <1>5, <2>1, <2>2
  <1>6. \A i, j \in Indexed' : lru'[i] = lru'[j] => i = j
    BY <1>2, <1>3, <1>4, <1>5
  <1> QED BY <1>2, <1>3, <1>4, <1>5, <1>6

\* LruCache::pop: k leaves and the others keep their order.
LEMMA LruPopOrder ==
  ASSUME TypeOK, NEW k \in Keys, lru' = LruPop(k), \A i, j \in Indexed : lru[i] = lru[j] => i = j
  PROVE  /\ Indexed' = Indexed \ {k}
         /\ \A i, j \in Indexed' : lru'[i] < lru'[j] <=> lru[i] < lru[j]
         /\ \A i, j \in Indexed' : lru'[i] = lru'[j] => i = j
         /\ \A i \in Indexed' : lru[i] = 1 => lru'[i] = 1
  <1>1. lru \in [Keys -> Nat]
    BY DEF TypeOK
  <1>2. \A j \in Keys : j # k =>
          lru'[j] = IF lru[k] # 0 /\ lru[j] > lru[k] THEN lru[j] - 1 ELSE lru[j]
    BY DEF LruPop
  <1>3. Indexed' = Indexed \ {k}
    BY LruPopFacts DEF Indexed
  <1>4. ASSUME NEW i \in Indexed'
        PROVE  /\ i \in Indexed /\ i # k /\ i \in Keys
               /\ lru[i] # 0 /\ lru[i] # lru[k] /\ lru[i] \in Nat /\ lru[k] \in Nat
    <2>1. i \in Indexed /\ i # k /\ i \in Keys /\ lru[i] # 0 /\ lru[i] \in Nat /\ lru[k] \in Nat
      BY <1>1, <1>3 DEF Indexed
    <2> QED BY <2>1 DEF Indexed
  <1>5. ASSUME NEW i \in Indexed', NEW j \in Indexed'
        PROVE  /\ lru'[i] < lru'[j] <=> lru[i] < lru[j]
               /\ lru'[i] = lru'[j] => lru[i] = lru[j]
    BY <1>2, <1>4
  <1>6. \A i, j \in Indexed' : lru'[i] = lru'[j] => i = j
    BY <1>4, <1>5
  <1>7. \A i \in Indexed' : lru[i] = 1 => lru'[i] = 1
    BY <1>2, <1>4
  <1> QED BY <1>3, <1>5, <1>6, <1>7

\* What a user's own step does to its own part of the state.
Calls(u) ==
  /\ pc[u] = "idle" /\ pc'[u] \in {"lookup", "insert", "remove_lru", "clear", "scan"}
  /\ pc'[u] = "clear" => todo'[u] = Shards
  /\ pc'[u] = "scan" => op'[u] = "evict"
  /\ now'[u] = clock + 1
  /\ UNCHANGED <<inner, lru>>

\* Steps that change neither inner nor lru_index.
Looks(u) ==
  /\ UNCHANGED <<inner, lru, now, op>>
  /\ \/ /\ pc[u] = "lookup" /\ key'[u] = key[u]
        /\ \/ pc'[u] = "idle"
           \/ pc'[u] = "guard_expired" /\ key[u] \in Present
     \/ pc[u] = "guard_hit" /\ pc'[u] = "touch_lru" /\ key'[u] = key[u]
     \/ pc[u] = "guard_expired" /\ pc'[u] = "expire_inner"
     \/ pc[u] = "scan" /\ pc'[u] \in {"scan", "next_expired"}
     \/ pc[u] = "next_expired" /\ pc'[u] = "expire_inner"
     \/ pc[u] = "next_expired" /\ pc'[u] = "len" /\ todo'[u] = Shards /\ num'[u] = 0
     \/ /\ pc[u] = "len" /\ pc'[u] = "len"
        /\ \E s \in todo[u] :
             /\ todo'[u] = todo[u] \ {s}
             /\ num'[u] = num[u] + Cardinality({k \in Present : ShardOf[k] = s})
     \/ pc[u] = "len" /\ pc'[u] = "idle"
     \/ pc[u] = "len" /\ todo[u] = {} /\ pc'[u] = "throttle" /\ num'[u] = num[u] - MaxEntries
     \/ pc[u] \in {"throttle", "evict_pop"} /\ pc'[u] = "idle"
     \/ /\ <<pc[u], pc'[u]>> \in {<<"throttle", "store_evict">>, <<"store_evict", "evict_lock">>,
                                  <<"evict_lock", "evict_pop">>}
        /\ num'[u] = num[u]

\* Steps on lru_index.
Orders(u) ==
  /\ UNCHANGED <<inner, now, op>>
  /\ \/ pc[u] = "touch_lru" /\ pc'[u] = "idle" /\ lru' = LruPut(key[u])
     \/ /\ pc[u] = "insert_lru" /\ pc'[u] = "len" /\ lru' = LruPut(key[u])
        /\ todo'[u] = Shards /\ num'[u] = 0
     \/ /\ pc[u] = "expire_lru" /\ lru' = LruPop(key[u])
        /\ pc'[u] = "idle" \/ (pc'[u] = "next_expired" /\ op[u] = "evict")
     \/ pc[u] = "remove_lru" /\ pc'[u] = "remove_inner" /\ lru' = LruPop(key[u]) /\ key'[u] = key[u]
     \/ pc[u] = "clear" /\ todo[u] = {} /\ pc'[u] = "idle" /\ lru' = [k \in Keys |-> 0]
     \/ /\ pc[u] = "evict_pop" /\ pc'[u] = "evict_inner" /\ lru' = LruPop(key'[u])
        /\ key'[u] \in Keys /\ IsLru(key'[u]) /\ num[u] > 0 /\ num'[u] = num[u]

\* Steps on inner.
Stores(u) ==
  /\ UNCHANGED <<lru, now, op>> /\ key'[u] = key[u]
  /\ \/ /\ pc[u] = "lookup" /\ pc'[u] = "guard_hit" /\ key[u] \in Present
        /\ inner' = [inner EXCEPT ![key[u]].used = now[u]]
     \/ /\ pc[u] = "insert" /\ pc'[u] = "insert_lru"
        /\ inner' = [inner EXCEPT ![key[u]] = [born |-> now[u], used |-> now[u]]]
     \/ /\ pc[u] = "clear" /\ pc'[u] = "clear"
        /\ \E s \in todo[u] :
             /\ todo'[u] = todo[u] \ {s}
             /\ inner' = [k \in Keys |-> IF ShardOf[k] = s THEN None ELSE inner[k]]
     \/ /\ <<pc[u], pc'[u]>> \in {<<"expire_inner", "expire_lru">>, <<"remove_inner", "idle">>}
        /\ inner' = [inner EXCEPT ![key[u]] = None]
     \/ /\ pc[u] = "evict_inner" /\ pc'[u] = "evict_pop" /\ num'[u] = num[u] - 1
        /\ inner' = [inner EXCEPT ![key[u]] = None]

\* These are all.
LEMMA UserSteps ==
  ASSUME Inv, NEW u \in Threads, Call(u) \/ Body(u)
  PROVE  Calls(u) \/ Looks(u) \/ Orders(u) \/ Stores(u)
  <1> USE DEF cacheVars, lockVars, timeVars, argVars, loopVars, Goto
  <1>1. /\ pc \in [Threads -> PcLabels] /\ key \in [Threads -> Keys] /\ now \in [Threads -> Nat]
        /\ op \in [Threads -> AllOps]
    BY DEF Inv, TypeOK
  <1>2. /\ todo \in [Threads -> SUBSET Shards] /\ num \in [Threads -> Nat]
    BY DEF Inv, TypeOK
  <1>3. CASE Call(u)
    BY <1>1, <1>2, <1>3 DEF Call, StartGet, StartGetEntry, StartInsert, StartRemove, StartClear,
                            StartEvict, Start, Calls
  <1>4. CASE Lookup(u)
    BY <1>1, <1>4 DEF Lookup, Looks, Stores, Present
  <1>5. CASE DropGuard(u) \/ ScanDone(u)
    BY <1>1, <1>5 DEF DropGuard, ScanDone, Looks
  <1>6. CASE TouchLru(u) \/ ExpireLru(u) \/ RemoveLru(u) \/ ClearLru(u)
    BY <1>1, <1>6 DEF TouchLru, ExpireLru, RemoveLru, ClearLru, Orders
  <1>7. CASE InsertLru(u)
    BY <1>1, <1>2, <1>7 DEF InsertLru, Orders
  <1>8. CASE ExpireInner(u) \/ InsertInner(u) \/ RemoveInner(u)
    BY <1>1, <1>8 DEF ExpireInner, InsertInner, RemoveInner, Stores
  <1>9. CASE EvictInner(u)
    BY <1>1, <1>2, <1>9 DEF EvictInner, Stores
  <1>10. CASE NextExpired(u)
    BY <1>1, <1>2, <1>10 DEF NextExpired, Looks
  <1>11. CASE ShardStep(u)
    BY <1>1, <1>2, <1>11 DEF ShardStep, ClearShard, ScanShard, LenShard, Looks, Stores
  <1>12. CASE CheckExcess(u) \/ CheckThrottle(u) \/ StoreEvict(u) \/ EvictLock(u)
    BY <1>1, <1>2, <1>12 DEF CheckExcess, CheckThrottle, StoreEvict, EvictLock, Looks
  <1>13. CASE EvictPop(u)
    <2>1. ASSUME NEW k \in Keys, num[u] > 0, IsLru(k), key' = [key EXCEPT ![u] = k],
                 lru' = LruPop(k), Goto(u, "evict_inner")
          PROVE  Orders(u)
      <3>1. key'[u] = k /\ pc'[u] = "evict_inner"
        BY <1>1, <2>1
      <3> QED BY <1>13, <2>1, <3>1 DEF EvictPop, Orders
    <2>2. CASE Goto(u, "idle") /\ UNCHANGED <<lru, key>>
      BY <1>1, <1>13, <2>2 DEF EvictPop, Looks
    <2> QED BY <1>13, <2>1, <2>2 DEF EvictPop
  <1> QED
    BY <1>3, <1>4, <1>5, <1>6, <1>7, <1>8, <1>9, <1>10, <1>11, <1>12, <1>13 DEF Body

\* What is in inner after a step on it.
LEMMA StoresPresent ==
  ASSUME Inv, Stamped, NEW u \in Threads, Stores(u)
  PROVE  /\ pc[u] = "lookup" => Present' = Present
         /\ pc[u] = "insert" => Present' = Present \cup {key[u]}
         /\ pc[u] = "clear" =>
              \E s \in todo[u] : /\ todo'[u] = todo[u] \ {s}
                                 /\ Present' = {k \in Present : ShardOf[k] # s}
         /\ pc[u] \notin {"lookup", "insert", "clear"} => Present' = Present \ {key[u]}
         /\ \A k \in Present' : k # key[u] \/ pc[u] \notin {"lookup", "insert"} =>
              inner'[k] = inner[k]
         /\ pc[u] \in {"lookup", "insert"} => inner'[key[u]].used = now[u]
         /\ pc[u] = "insert" => inner'[key[u]].born = now[u]
  <1>1. /\ inner \in [Keys -> [born : Nat, used : Nat]] /\ key[u] \in Keys /\ now[u] \in Nat
    BY DEF Inv, TypeOK
  <1>2. CASE pc[u] = "lookup"
    <2>1. inner' = [inner EXCEPT ![key[u]].used = now[u]] /\ key[u] \in Present
      BY <1>2 DEF Stores
    <2>2. inner'[key[u]] = [inner[key[u]] EXCEPT !.used = now[u]]
      BY <1>1, <2>1
    <2>3. inner'[key[u]].born = inner[key[u]].born /\ inner'[key[u]].used = now[u]
      BY <1>1, <2>2
    <2>4. inner'[key[u]] # None
      BY <2>1, <2>3 DEF None, Stamped
    <2>5. \A k \in Keys : k # key[u] => inner'[k] = inner[k]
      BY <1>1, <2>1
    <2>6. Present' = Present
      BY <2>1, <2>4, <2>5 DEF Present
    <2> QED BY <1>2, <2>3, <2>5, <2>6 DEF Present
  <1>3. CASE pc[u] = "insert"
    <2>1. inner' = [inner EXCEPT ![key[u]] = [born |-> now[u], used |-> now[u]]]
      BY <1>3 DEF Stores
    <2>2. inner'[key[u]] = [born |-> now[u], used |-> now[u]]
      BY <1>1, <2>1
    <2>3. inner'[key[u]].born = now[u] /\ inner'[key[u]].used = now[u] /\ now[u] > 0
      BY <1>3, <2>2 DEF Stamped
    <2>4. inner'[key[u]] # None
      BY <2>3 DEF None
    <2>5. \A k \in Keys : k # key[u] => inner'[k] = inner[k]
      BY <1>1, <2>1
    <2>6. Present' = Present \cup {key[u]}
      BY <1>1, <2>4, <2>5 DEF Present
    <2> QED BY <1>3, <2>3, <2>5, <2>6 DEF Present
  <1>4. CASE pc[u] = "clear"
    <2>1. PICK s \in todo[u] :
            /\ todo'[u] = todo[u] \ {s}
            /\ inner' = [k \in Keys |-> IF ShardOf[k] = s THEN None ELSE inner[k]]
      BY <1>4 DEF Stores
    <2>2. Present' = {k \in Present : ShardOf[k] # s} /\ \A k \in Present' : inner'[k] = inner[k]
      BY <2>1 DEF Present
    <2> QED BY <1>4, <2>1, <2>2
  <1>5. CASE pc[u] \notin {"lookup", "insert", "clear"}
    <2>1. inner' = [inner EXCEPT ![key[u]] = None]
      BY <1>5 DEF Stores
    <2> QED BY <1>1, <1>5, <2>1, PresentMove
  <1> QED BY <1>2, <1>3, <1>4, <1>5

\* Only the user steps; the others have not begun.
LEMMA UserAlone ==
  ASSUME Inv, Stamped, [Next]_vars, NEW u \in Threads, OnlyUser(u)'
  PROVE  /\ OnlyUser(u)
         /\ \/ Calls(u) \/ Looks(u) \/ Orders(u) \/ Stores(u)
            \/ UNCHANGED <<inner, lru, pc, op, key, now, todo, num>>
  <1> USE DEF cacheVars, lockVars, timeVars, argVars, loopVars
  <1>1. now \in [Threads -> Nat] /\ clock \in Nat
    BY DEF Inv, TypeOK
  <1>2. ASSUME NEW t \in Threads, Call(t) PROVE t = u /\ OnlyUser(u)
    <2>1. now' = [now EXCEPT ![t] = clock + 1]
      BY <1>2 DEF Call, StartGet, StartGetEntry, StartInsert, StartRemove, StartClear,
                  StartEvict, Start
    <2>2. now'[t] # 0 /\ \A v \in Threads \ {t} : now'[v] = now[v]
      BY <1>1, <2>1
    <2> QED BY <2>2 DEF OnlyUser
  <1>3. ASSUME NEW t \in Threads, Body(t) PROVE t = u /\ OnlyUser(u)
    <2>1. now' = now /\ pc[t] # "idle"
      BY <1>3 DEF Body, ShardStep, Lookup, DropGuard, TouchLru, ExpireInner, ExpireLru,
                  InsertInner, InsertLru, RemoveLru, RemoveInner, ClearShard, ClearLru,
                  ScanShard, ScanDone, NextExpired, LenShard, CheckExcess, CheckThrottle,
                  StoreEvict, EvictLock, EvictPop, EvictInner
    <2> QED BY <2>1 DEF OnlyUser, Stamped
  <1>4. CASE UNCHANGED <<inner, lru, pc, op, key, now, todo, num>>
    BY <1>4 DEF OnlyUser
  <1>5. (Age \/ Cool \/ UNCHANGED vars) => UNCHANGED <<inner, lru, pc, op, key, now, todo, num>>
    BY DEF Age, Cool, vars
  <1> QED
    BY <1>2, <1>3, <1>4, <1>5, UserSteps DEF Next, Finished

\* The two lists stay matched.
LEMMA MatchingNext ==
  ASSUME Inv, Stamped, NEW u \in Threads, Matching(u), Ranked(u),
         Calls(u) \/ Looks(u) \/ Orders(u) \/ Stores(u)
  PROVE  Matching(u)'
  <1>1. key[u] \in Keys /\ TypeOK /\ Present \subseteq Keys /\ Indexed \subseteq Keys
    BY DEF Inv, TypeOK, Present, Indexed
  <1>2. UNCHANGED inner => Present' = Present
    BY DEF Present
  <1>3. UNCHANGED lru => Indexed' = Indexed
    BY DEF Indexed
  <1>4. CASE Calls(u)
    <2>1. \A k \in Keys : ShardOf[k] \in Shards
      BY CacheConstants
    <2>2. Present = Indexed
      BY <1>4 DEF Calls, Matching
    <2>3. pc'[u] = "clear" => Present = {k \in Indexed : ShardOf[k] \in todo'[u]}
      BY <1>1, <1>4, <2>1, <2>2 DEF Calls
    <2> QED BY <1>2, <1>3, <1>4, <2>2, <2>3 DEF Calls, Matching
  <1>5. CASE Looks(u)
    BY <1>2, <1>3, <1>5 DEF Looks, Matching
  <1>6. CASE Orders(u)
    <2>1. lru' = LruPut(key[u]) => Indexed' = Indexed \cup {key[u]}
      BY <1>1, LruPutFacts DEF Indexed
    <2>2. \A k \in Keys : lru' = LruPop(k) => Indexed' = Indexed \ {k}
      BY <1>1, LruPopFacts DEF Indexed
    <2>3. lru' = [k \in Keys |-> 0] => Indexed' = {}
      BY DEF Indexed
    <2>4. \A k \in Keys : IsLru(k) => k \in Indexed
      BY DEF IsLru, Indexed
    <2> QED BY <1>1, <1>2, <1>6, <2>1, <2>2, <2>3, <2>4 DEF Orders, Matching
  <1>7. CASE Stores(u)
    <2>1. /\ pc[u] = "lookup" => Present' = Present /\ key[u] \in Present
          /\ pc[u] = "insert" => Present' = Present \cup {key[u]}
          /\ pc[u] \notin {"lookup", "insert", "clear"} => Present' = Present \ {key[u]}
      BY <1>7, StoresPresent DEF Stores
    <2>2. CASE pc[u] = "clear"
      <3>1. PICK s \in todo[u] : /\ todo'[u] = todo[u] \ {s}
                                 /\ Present' = {k \in Present : ShardOf[k] # s}
        BY <1>7, <2>2, StoresPresent
      <3>2. pc'[u] = "clear" /\ Indexed' = Indexed
        BY <1>3, <1>7, <2>2 DEF Stores
      <3>3. Present = {k \in Indexed : ShardOf[k] \in todo[u]}
        BY <2>2 DEF Matching
      <3>4. Present' = {k \in Indexed : ShardOf[k] \in todo'[u]}
        BY <3>1, <3>3
      <3> QED BY <3>2, <3>4 DEF Matching
    <2>3. CASE pc[u] # "clear"
      BY <1>3, <1>7, <2>1, <2>3 DEF Stores, Matching
    <2> QED BY <2>2, <2>3
  <1> QED BY <1>4, <1>5, <1>6, <1>7

\* The order of lru_index stays the order of use.
LEMMA RankedNext ==
  ASSUME Inv, Stamped, NEW u \in Threads, Matching(u), Ranked(u),
         Calls(u) \/ Looks(u) \/ Orders(u) \/ Stores(u)
  PROVE  Ranked(u)'
  <1>1. /\ key[u] \in Keys /\ TypeOK /\ Present \subseteq Keys /\ Indexed \subseteq Keys
        /\ lru \in [Keys -> Nat] /\ now[u] \in Nat /\ clock \in Nat
    BY DEF Inv, TypeOK, Present, Indexed
  <1>2. UNCHANGED inner => Present' = Present
    BY DEF Present
  <1>3. UNCHANGED lru => Indexed' = Indexed
    BY DEF Indexed
  <1>4. \A k \in Keys : inner[k].used \in Nat
    BY DEF Inv, TypeOK
  <1>5. CASE Calls(u)
    <2>1. now[u] <= clock /\ now'[u] = clock + 1 /\ UNCHANGED <<inner, lru>>
      BY <1>5 DEF Calls, Stamped
    <2>2. \A k \in Present : inner[k].used <= now'[u]
      BY <1>1, <1>4, <2>1 DEF Ranked
    <2>3. pc[u] \notin Touching /\ pc'[u] \notin Touching /\ pc'[u] # "evict_inner"
      BY <1>5 DEF Calls, Touching
    <2> QED BY <1>2, <1>3, <2>1, <2>2, <2>3 DEF Ranked
  <1>6. CASE Looks(u)
    <2>1. UNCHANGED <<inner, lru, now>> /\ pc'[u] # "evict_inner"
      BY <1>6 DEF Looks
    <2>2. pc'[u] \in Touching => pc[u] \in Touching /\ key'[u] = key[u]
      BY <1>6 DEF Looks, Touching
    <2>3. pc[u] \in Touching => pc'[u] \in Touching
      BY <1>6 DEF Looks, Touching
    <2> QED BY <1>2, <1>3, <2>1, <2>2, <2>3 DEF Ranked
  <1>7. CASE Orders(u)
    <2>1. UNCHANGED <<inner, now>> /\ Present' = Present /\ pc'[u] \notin Touching
      BY <1>2, <1>7 DEF Orders, Touching
    <2>2. \A i, j \in Indexed : lru[i] = lru[j] => i = j
      BY DEF Ranked
    <2>3. CASE lru' = LruPut(key[u]) /\ pc[u] \in {"touch_lru", "insert_lru"}
      <3>1. /\ Indexed' = Indexed \cup {key[u]} /\ lru'[key[u]] = 1
            /\ \A i \in Indexed : i # key[u] => lru'[i] > 1
            /\ \A i, j \in Indexed : i # key[u] /\ j # key[u] =>
                 (lru'[i] < lru'[j] <=> lru[i] < lru[j])
            /\ \A i, j \in Indexed' : lru'[i] = lru'[j] => i = j
        BY <1>1, <2>2, <2>3, LruPutOrder
      <3>2. inner[key[u]].used = now[u] /\ pc'[u] # "evict_inner"
        BY <1>7, <2>3 DEF Orders, Ranked, Touching
      <3>3. ASSUME NEW i \in Present \cap Indexed', NEW j \in Present \cap Indexed',
                   lru'[i] < lru'[j]
            PROVE  inner[j].used <= inner[i].used
        <4>1. CASE i = key[u]
          BY <3>2, <4>1 DEF Ranked
        <4>2. CASE i # key[u] /\ j # key[u]
          BY <3>1, <3>3, <4>2 DEF Ranked
        <4>3. CASE i # key[u] /\ j = key[u]
          <5>1. lru'[i] \in Nat
            BY <1>1, <2>3, LruPutFacts DEF Indexed
          <5> QED BY <3>1, <3>3, <4>3, <5>1
        <4> QED BY <4>1, <4>2, <4>3
      <3> QED BY <2>1, <3>1, <3>2, <3>3 DEF Ranked
    <2>4. ASSUME NEW k \in Keys, lru' = LruPop(k), pc[u] \notin Touching,
                 pc'[u] = "evict_inner" =>
                   k = key'[u] /\ \A j \in Present : inner[k].used <= inner[j].used
          PROVE  Ranked(u)'
      <3>1. /\ Indexed' = Indexed \ {k}
            /\ \A i, j \in Indexed' : lru'[i] < lru'[j] <=> lru[i] < lru[j]
            /\ \A i, j \in Indexed' : lru'[i] = lru'[j] => i = j
        BY <1>1, <2>2, <2>4, LruPopOrder
      <3> QED BY <2>1, <2>4, <3>1 DEF Ranked
    <2>5. CASE pc[u] = "evict_pop"
      <3>1. key'[u] \in Keys /\ IsLru(key'[u]) /\ lru' = LruPop(key'[u])
        BY <1>7, <2>5 DEF Orders
      <3>2. Present = Indexed
        BY <2>5 DEF Matching
      <3>3. pc[u] \notin Touching
        BY <2>5 DEF Touching
      <3>4. ASSUME NEW j \in Present PROVE inner[key'[u]].used <= inner[j].used
        <4>1. key'[u] \in Indexed /\ j \in Keys /\ lru[j] <= lru[key'[u]]
          BY <1>1, <3>1 DEF IsLru, Indexed
        <4>2. CASE j = key'[u]
          BY <1>4, <3>1, <4>2
        <4>3. CASE j # key'[u]
          <5>1. lru[j] < lru[key'[u]]
            BY <1>1, <2>2, <3>1, <3>2, <4>1, <4>3
          <5> QED BY <3>2, <3>3, <4>1, <5>1 DEF Ranked
        <4> QED BY <4>2, <4>3
      <3> QED BY <2>4, <3>1, <3>3, <3>4
    <2>6. CASE pc[u] \in {"expire_lru", "remove_lru"}
      <3>1. lru' = LruPop(key[u]) /\ pc'[u] # "evict_inner" /\ pc[u] \notin Touching
        BY <1>7, <2>6 DEF Orders, Touching
      <3> QED BY <1>1, <2>4, <3>1
    <2>7. CASE pc[u] = "clear"
      <3>1. lru' = [k \in Keys |-> 0] /\ pc'[u] # "evict_inner"
        BY <1>7, <2>7 DEF Orders
      <3>2. Indexed' = {}
        BY <3>1 DEF Indexed
      <3> QED BY <2>1, <3>1, <3>2 DEF Ranked
    <2> QED BY <1>7, <2>3, <2>5, <2>6, <2>7 DEF Orders
  <1>8. CASE Stores(u)
    <2>1. /\ UNCHANGED <<lru, now>> /\ key'[u] = key[u]
          /\ pc[u] \notin Touching /\ pc'[u] # "evict_inner"
      BY <1>8 DEF Stores, Touching
    <2>2. /\ pc[u] \in {"lookup", "insert"} => pc'[u] \in Touching
          /\ pc'[u] \in Touching => pc[u] \in {"lookup", "insert"}
      BY <1>8 DEF Stores, Touching
    <2>3. /\ \A k \in Present' : k # key[u] \/ pc[u] \notin {"lookup", "insert"} =>
               inner'[k] = inner[k] /\ k \in Present
          /\ pc[u] \in {"lookup", "insert"} => inner'[key[u]].used = now[u]
      BY <1>8, StoresPresent
    <2>4. \A k \in Present' : inner'[k].used <= now'[u]
      <3>1. ASSUME NEW k \in Present' PROVE inner'[k].used <= now[u]
        <4>1. CASE k # key[u] \/ pc[u] \notin {"lookup", "insert"}
          BY <2>3, <4>1 DEF Ranked
        <4>2. CASE k = key[u] /\ pc[u] \in {"lookup", "insert"}
          BY <1>1, <2>3, <4>2
        <4> QED BY <4>1, <4>2
      <3> QED BY <2>1, <3>1
    <2>5. ASSUME NEW i \in Present' \cap Indexed', NEW j \in Present' \cap Indexed',
                 lru'[i] < lru'[j], pc'[u] \in Touching => key'[u] \notin {i, j}
          PROVE  inner'[j].used <= inner'[i].used
      <3>1. inner'[i] = inner[i] /\ i \in Present /\ inner'[j] = inner[j] /\ j \in Present
        BY <2>1, <2>2, <2>3, <2>5
      <3> QED BY <1>3, <2>1, <2>5, <3>1 DEF Ranked
    <2>6. pc'[u] \in Touching => inner'[key'[u]].used = now'[u]
      BY <2>1, <2>2, <2>3
    <2>7. \A i, j \in Indexed' : lru'[i] = lru'[j] => i = j
      BY <1>3, <2>1 DEF Ranked
    <2> QED BY <2>1, <2>4, <2>5, <2>6, <2>7 DEF Ranked
  <1> QED BY <1>5, <1>6, <1>7, <1>8

\* Sets of entries are finite, and one less without one of them.
LEMMA FinitePresent ==
  /\ IsFiniteSet(Present) /\ Cardinality(Present) \in Nat
  /\ \A k \in Present : Cardinality(Present \ {k}) = Cardinality(Present) - 1
  <1>1. IsFiniteSet(Present)
    BY CacheConstants, FS_Subset DEF Present
  <1> QED BY <1>1, FS_CardinalityType, FS_RemoveElement

\* len() adds one shard to those it has seen.
LEMMA OneMoreShard ==
  ASSUME NEW T, NEW s \in T
  PROVE  Cardinality({k \in Present : ShardOf[k] \notin T \ {s}}) =
           Cardinality({k \in Present : ShardOf[k] \notin T})
             + Cardinality({k \in Present : ShardOf[k] = s})
  <1> DEFINE A == {k \in Present : ShardOf[k] \notin T}
             B == {k \in Present : ShardOf[k] = s}
  <1>1. IsFiniteSet(A) /\ IsFiniteSet(B)
    BY FinitePresent, FS_Subset
  <1>2. A \cap B = {} /\ {k \in Present : ShardOf[k] \notin T \ {s}} = A \cup B
    OBVIOUS
  <1>3. Cardinality(A) \in Nat /\ Cardinality(B) \in Nat
    BY <1>1, FS_CardinalityType
  <1> HIDE DEF A, B
  <1>4. Cardinality(A \cup B) = Cardinality(A) + Cardinality(B)
    BY <1>1, <1>2, <1>3, FS_Union, FS_EmptySet
  <1> QED BY <1>2, <1>4 DEF A, B

\* The excess stays what is above max_entries.
LEMMA CountedNext ==
  ASSUME Inv, Stamped, NEW u \in Threads, Matching(u), Ranked(u), Counted(u),
         Calls(u) \/ Looks(u) \/ Orders(u) \/ Stores(u)
  PROVE  Counted(u)'
  <1>1. /\ key[u] \in Keys /\ TypeOK /\ lru \in [Keys -> Nat] /\ num[u] \in Nat
        /\ Present \subseteq Keys /\ Indexed \subseteq Keys /\ MaxEntries \in Nat
    BY CacheConstants DEF Inv, TypeOK, Present, Indexed
  <1>2. UNCHANGED inner => Present' = Present
    BY DEF Present
  <1>3. \A k \in Present : ShardOf[k] \in Shards
    BY <1>1, CacheConstants
  <1>4. CASE Calls(u)
    BY <1>4 DEF Calls, Counted, Evicting
  <1>5. CASE Looks(u)
    <2>1. UNCHANGED <<inner, lru, now, op>> /\ Present' = Present /\ pc'[u] # "insert_lru"
          /\ pc'[u] # "evict_inner"
      BY <1>2, <1>5 DEF Looks
    <2>2. pc'[u] = "len" => num'[u] = Cardinality({k \in Present : ShardOf[k] \notin todo'[u]})
      <3>1. CASE pc[u] = "next_expired" /\ pc'[u] = "len"
        <4>1. todo'[u] = Shards /\ num'[u] = 0
          BY <1>5, <3>1 DEF Looks
        <4>2. {k \in Present : ShardOf[k] \notin todo'[u]} = {}
          BY <1>3, <4>1
        <4> QED BY <4>1, <4>2, FS_EmptySet
      <3>2. CASE pc[u] = "len" /\ pc'[u] = "len"
        <4>1. PICK s \in todo[u] :
                /\ todo'[u] = todo[u] \ {s}
                /\ num'[u] = num[u] + Cardinality({k \in Present : ShardOf[k] = s})
          BY <1>5, <3>2 DEF Looks
        <4>2. num[u] = Cardinality({k \in Present : ShardOf[k] \notin todo[u]})
          BY <3>2 DEF Counted
        <4> QED BY <4>1, <4>2, OneMoreShard
      <3> QED BY <1>5, <3>1, <3>2 DEF Looks
    <2>3. pc'[u] \in Evicting => Cardinality(Present) = num'[u] + MaxEntries
      <3>1. CASE pc[u] = "len" /\ pc'[u] = "throttle"
        <4>1. todo[u] = {} /\ num'[u] = num[u] - MaxEntries
          BY <1>5, <3>1 DEF Looks
        <4>2. {k \in Present : ShardOf[k] \notin {}} = Present
          OBVIOUS
        <4>3. num[u] = Cardinality(Present)
          BY <3>1, <4>1, <4>2 DEF Counted
        <4> QED BY <1>1, <4>1, <4>3
      <3>2. CASE pc[u] \in Evicting /\ pc'[u] # "idle"
        <4>1. num'[u] = num[u]
          BY <1>5, <3>2 DEF Looks, Evicting
        <4> QED BY <3>2, <4>1 DEF Counted
      <3> QED BY <1>5, <3>1, <3>2 DEF Looks, Evicting
    <2>4. pc'[u] \in {"scan", "next_expired"} => op'[u] = "evict"
      BY <1>5 DEF Looks, Counted
    <2>5. pc'[u] \in Evicting \cup {"len"} /\ op[u] = "insert" =>
            pc[u] \in Evicting \cup {"len"} /\ pc[u] # "evict_inner"
      BY <1>5 DEF Looks, Counted, Evicting
    <2> QED BY <2>1, <2>2, <2>3, <2>4, <2>5 DEF Counted
  <1>6. CASE Orders(u)
    <2>1. UNCHANGED <<inner, now, op>> /\ Present' = Present /\ pc'[u] # "insert_lru"
          /\ pc'[u] # "scan"
      BY <1>2, <1>6 DEF Orders
    <2>2. \A i, j \in Indexed : lru[i] = lru[j] => i = j
      BY DEF Ranked
    <2>3. CASE pc[u] = "insert_lru"
      <3>1. /\ pc'[u] = "len" /\ todo'[u] = Shards /\ num'[u] = 0 /\ lru' = LruPut(key[u])
        BY <1>6, <2>3 DEF Orders
      <3>2. {k \in Present : ShardOf[k] \notin todo'[u]} = {}
        BY <1>3, <3>1
      <3>3. num'[u] = Cardinality({k \in Present : ShardOf[k] \notin todo'[u]})
        BY <3>1, <3>2, FS_EmptySet
      <3>4. lru'[key[u]] = 1
        BY <1>1, <2>2, <3>1, LruPutOrder
      <3>5. key[u] \in Present /\ inner[key[u]].born = now[u]
        BY <2>3 DEF Matching, Counted
      <3> QED BY <2>1, <3>1, <3>3, <3>4, <3>5 DEF Counted, Evicting
    <2>4. CASE pc[u] = "evict_pop"
      <3>1. /\ pc'[u] = "evict_inner" /\ key'[u] \in Keys /\ IsLru(key'[u]) /\ num[u] > 0
            /\ num'[u] = num[u] /\ lru' = LruPop(key'[u])
        BY <1>6, <2>4 DEF Orders
      <3>2. Cardinality(Present) = num[u] + MaxEntries /\ Present = Indexed
        BY <2>4 DEF Counted, Matching, Evicting
      <3>3. ASSUME op[u] = "insert", MaxEntries > 0
            PROVE  \E k \in Present : /\ inner[k].born = now[u] /\ lru'[k] = 1
                                      /\ k # key'[u]
        <4>1. PICK k \in Present : inner[k].born = now[u] /\ lru[k] = 1
          BY <2>4, <3>3 DEF Counted, Evicting
        <4>2. k # key'[u]
          <5>1. SUFFICES ASSUME k = key'[u] PROVE FALSE
            OBVIOUS
          <5>2. \A j \in Indexed : lru[j] = 1
            BY <1>1, <3>1, <4>1, <5>1 DEF IsLru, Indexed
          <5>3. Present = {k}
            BY <2>2, <3>2, <4>1, <5>2
          <5>4. Cardinality(Present) = 1
            BY <5>3, FS_Singleton
          <5> QED BY <1>1, <3>1, <3>2, <3>3, <5>4
        <4>3. lru'[k] = 1
          BY <1>1, <2>2, <3>1, <3>2, <4>1, <4>2, LruPopOrder
        <4> QED BY <4>1, <4>2, <4>3
      <3> QED BY <2>1, <3>1, <3>2, <3>3 DEF Counted, Evicting
    <2>5. CASE pc[u] \notin {"insert_lru", "evict_pop"}
      <3>1. /\ pc'[u] \notin Evicting \cup {"len"}
            /\ pc'[u] = "next_expired" => op[u] = "evict"
        BY <1>6, <2>5 DEF Orders, Evicting
      <3> QED BY <2>1, <3>1 DEF Counted, Evicting
    <2> QED BY <2>3, <2>4, <2>5
  <1>7. CASE Stores(u)
    <2>1. UNCHANGED <<lru, now, op>> /\ key'[u] = key[u]
      BY <1>7 DEF Stores
    <2>2. CASE pc[u] = "evict_inner"
      <3>1. pc'[u] = "evict_pop" /\ num'[u] = num[u] - 1
        BY <1>7, <2>2 DEF Stores
      <3>2. Present' = Present \ {key[u]} /\ \A k \in Present' : inner'[k] = inner[k]
        BY <1>7, <2>2, StoresPresent
      <3>3. key[u] \in Present /\ Cardinality(Present) = num[u] + MaxEntries
        BY <2>2 DEF Matching, Counted, Evicting
      <3>4. Cardinality(Present') = num'[u] + MaxEntries
        BY <1>1, <3>1, <3>2, <3>3, FinitePresent
      <3>5. ASSUME op[u] = "insert", MaxEntries > 0
            PROVE  \E k \in Present' : inner'[k].born = now[u] /\ lru[k] = 1
        BY <2>2, <3>2, <3>5 DEF Counted, Evicting
      <3> QED BY <2>1, <3>1, <3>4, <3>5 DEF Counted
    <2>3. CASE pc[u] # "evict_inner"
      <3>1. pc'[u] \in {"guard_hit", "insert_lru", "clear", "expire_lru", "idle"}
        BY <1>7, <2>3 DEF Stores
      <3>2. pc'[u] = "insert_lru" => inner'[key'[u]].born = now'[u]
        BY <1>7, <2>1, StoresPresent DEF Stores
      <3> QED BY <3>1, <3>2 DEF Counted, Evicting
    <2> QED BY <2>2, <2>3
  <1> QED BY <1>4, <1>5, <1>6, <1>7

\* Every step keeps what one user can rely on.
LEMMA SoloNext == Inv /\ Stamped /\ SoloInv /\ [Next]_vars => SoloInv'
  <1> SUFFICES ASSUME Inv, Stamped, SoloInv, [Next]_vars, NEW u \in Threads, OnlyUser(u)'
               PROVE  Matching(u)' /\ Ranked(u)' /\ Counted(u)'
    BY DEF SoloInv
  <1>1. /\ OnlyUser(u)
        /\ \/ Calls(u) \/ Looks(u) \/ Orders(u) \/ Stores(u)
           \/ UNCHANGED <<inner, lru, pc, op, key, now, todo, num>>
    BY UserAlone
  <1>2. Matching(u) /\ Ranked(u) /\ Counted(u)
    BY <1>1 DEF SoloInv
  <1>3. CASE UNCHANGED <<inner, lru, pc, op, key, now, todo, num>>
    <2>1. Present' = Present /\ Indexed' = Indexed
      BY <1>3 DEF Present, Indexed
    <2>2. Matching(u)'
      BY <1>2, <1>3, <2>1 DEF Matching
    <2>3. Ranked(u)'
      BY <1>2, <1>3, <2>1 DEF Ranked
    <2>4. Counted(u)'
      BY <1>2, <1>3, <2>1 DEF Counted
    <2> QED BY <2>2, <2>3, <2>4
  <1> QED BY <1>1, <1>2, <1>3, MatchingNext, RankedNext, CountedNext

\* The cache is empty at first.
LEMMA SoloInit == Init => Stamped /\ SoloInv
  <1> SUFFICES ASSUME Init PROVE Stamped /\ SoloInv
    OBVIOUS
  <1>1. Present = {} /\ Indexed = {} /\ \A t \in Threads : pc[t] = "idle" /\ now[t] = 0
    BY DEF Init, Present, Indexed
  <1>2. clock = 0 /\ horizon = 0
    BY DEF Init
  <1> QED
    BY <1>1, <1>2 DEF Stamped, SoloInv, Matching, Ranked, Counted, Touching, Evicting

\* The invariant of a single user.
LEMMA SoloInvariant == Spec => [](Inv /\ Stamped /\ SoloInv)
  <1>1. Init => Inv /\ Stamped /\ SoloInv
    BY InvInit, SoloInit
  <1>2. Inv /\ Stamped /\ SoloInv /\ [Next]_vars => (Inv /\ Stamped /\ SoloInv)'
    BY InvStep, StampedNext, SoloNext
  <1> QED BY <1>1, <1>2, PTL DEF Spec

\* As long as one thread uses a cache, its entries and its lru_index agree between
\* operations, after any sequence of get, get_entry, insert, remove, clear and evict,
\* of expiries and of evictions, at any capacity.
THEOREM LoneIndexExact == Spec => []AloneIndexExact
  <1>1. SoloInv => AloneIndexExact
    BY DEF SoloInv, AloneIndexExact, Alone, Matching
  <1> QED BY <1>1, SoloInvariant, PTL

\* Its evictions take the least recently used entry.
THEOREM LoneVictimIsLeastRecent == Spec => AloneVictimIsLeastRecent
  <1>1. Inv /\ Stamped /\ SoloInv /\ [Next]_vars => [Alone => EvictsLeastRecent]_vars
    <2> SUFFICES ASSUME Inv, Stamped, SoloInv, NEW u \in Threads, OnlyUser(u),
                        NEW t \in Threads, pc[t] = "evict_inner"
                 PROVE  \A k \in Present : inner[key[t]].used <= inner[k].used
      BY DEF Alone, EvictsLeastRecent
    <2>1. t = u
      BY DEF OnlyUser, Stamped
    <2> QED BY <2>1 DEF SoloInv, Ranked
  <1> QED BY <1>1, SoloInvariant, PTL DEF Spec, AloneVictimIsLeastRecent

\* An eviction of its that is not throttled ends at max_entries exactly, with the
\* entry just inserted still there.
THEOREM LoneEvictsToCapacity == Spec => AloneReachesCapacity
  <1>1. Inv /\ Stamped /\ SoloInv /\ [Next]_vars => [Alone => EvictsToCapacity]_vars
    <2> SUFFICES ASSUME Inv, Stamped, SoloInv, Next, NEW u \in Threads, OnlyUser(u),
                        NEW t \in Threads, pc[t] = "evict_pop", pc'[t] = "idle"
                 PROVE  /\ Cardinality(Present) = MaxEntries
                        /\ op[t] = "insert" /\ MaxEntries > 0 =>
                             \E k \in Present : inner[k].born = now[t]
      BY DEF Alone, EvictsToCapacity
    <2>1. t = u
      BY DEF OnlyUser, Stamped
    <2>2. EvictPop(t)
      <3> USE DEF cacheVars, lockVars, timeVars, argVars, loopVars, Goto
      <3>1. pc \in [Threads -> PcLabels]
        BY DEF Inv, TypeOK
      <3>2. ASSUME NEW v \in Threads, Call(v) PROVE FALSE
        BY <3>1, <3>2 DEF Call, StartGet, StartGetEntry, StartInsert, StartRemove, StartClear,
                          StartEvict, Start
      <3>3. ASSUME NEW v \in Threads, Body(v) PROVE EvictPop(t)
        <4>1. pc[v] = "evict_pop"
          BY <3>1, <3>3 DEF Body, ShardStep, Lookup, DropGuard, TouchLru, ExpireInner, ExpireLru,
                  InsertInner, InsertLru, RemoveLru, RemoveInner, ClearShard, ClearLru,
                  ScanShard, ScanDone, NextExpired, LenShard, CheckExcess, CheckThrottle,
                  StoreEvict, EvictLock, EvictPop, EvictInner
        <4>2. v = t
          BY <2>1, <4>1 DEF OnlyUser, Stamped
        <4> QED
          BY <3>3, <4>1, <4>2 DEF Body, ShardStep, Lookup, DropGuard, TouchLru, ExpireInner,
                  ExpireLru, InsertInner, InsertLru, RemoveLru, RemoveInner, ClearShard, ClearLru,
                  ScanShard, ScanDone, NextExpired, LenShard, CheckExcess, CheckThrottle,
                  StoreEvict, EvictLock, EvictInner
      <3>4. ~Age /\ ~Cool /\ ~UNCHANGED vars
        BY DEF Age, Cool, vars
      <3> QED BY <3>2, <3>3, <3>4 DEF Next, Finished
    <2>3. num[t] = 0 \/ Indexed = {}
      BY <2>2 DEF EvictPop, Goto, Inv, TypeOK
    <2>4. /\ Present = Indexed /\ Cardinality(Present) = num[t] + MaxEntries
          /\ op[t] = "insert" /\ MaxEntries > 0 => \E k \in Present : inner[k].born = now[t]
      BY <2>1 DEF SoloInv, Matching, Counted, Evicting
    <2>5. num[t] \in Nat /\ MaxEntries \in Nat
      BY CacheConstants DEF Inv, TypeOK
    <2> QED BY <2>3, <2>4, <2>5, FS_EmptySet
  <1> QED BY <1>1, SoloInvariant, PTL DEF Spec, AloneReachesCapacity

=============================================================================
