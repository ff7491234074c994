--------------------------- MODULE EvictableCache ---------------------------
(***************************************************************************)
(* The cache of utils/evictable_cache.rs: a DashMap `inner` holding the    *)
(* entries and, beside it, an LruCache `lru_index` holding only the keys   *)
(* in order of use.  The two structures have locks of their own and no     *)
(* operation updates both atomically, so each operation is modelled by the *)
(* steps between which another thread can run: one step per critical       *)
(* section, and one per lock held across another acquisition.              *)
(*                                                                         *)
(*   - a DashMap shard is locked by `shardLock`; `get` keeps that guard    *)
(*     while it looks at the entry, every other call releases it at once;  *)
(*   - the LRU RwLock is `lruLock`; only eviction keeps it while it takes  *)
(*     another lock (inner.remove under lru.write());                      *)
(*   - DashMap::len, clear and iter visit the shards one at a time.        *)
(*                                                                         *)
(* Time.  `clock` stamps every operation when it starts (its               *)
(* Instant::now()).  `horizon` is the latest stamp whose age exceeds the   *)
(* TTL.  `throttle` says whether 1 ms has passed since last_evict_ns; it   *)
(* is "unset" until the static BASE of instant_to_nanos is initialised.    *)
(***************************************************************************)
EXTENDS Integers, FiniteSets

CONSTANTS
  Threads,     \* tasks using the cache
  Keys,        \* cache keys
  Shards,      \* DashMap shards
  ShardOf,     \* the shard a key hashes to
  MaxEntries,  \* max_entries
  HasTtl,      \* ttl.is_some()
  Ops,         \* the operations the cache's owner calls
  MaxOps,      \* bound: operations called in all, at most
  NoThread     \* "nobody holds the lock"

AllOps == {"get", "get_entry", "insert", "remove", "clear", "evict"}

ASSUME CacheConstants ==
  /\ ShardOf \in [Keys -> Shards]
  /\ MaxEntries \in Nat
  /\ MaxOps \in Nat
  /\ HasTtl \in BOOLEAN
  /\ Ops \subseteq AllOps
  /\ NoThread \notin Threads
  /\ IsFiniteSet(Keys)

VARIABLES
  inner,      \* inner[k]: the DashMap entry of k, or None
  lru,        \* lru[k]: position of k in lru_index, 1 = most recent, 0 = absent
  shardLock,  \* shardLock[s]: the thread holding shard s, or NoThread
  lruLock,    \* the thread holding lru_index.write() across steps
  throttle,   \* "unset", "hot" or "cool": see above
  clock,      \* stamps given out so far
  horizon,    \* entries created at or before this stamp are older than the TTL
  pc,         \* what each thread does next
  op,         \* the operation each thread executes
  key,        \* its key argument, or the victim of an eviction
  now,        \* its Instant::now()
  todo,       \* shards a len, clear or iter has still to visit
  num,        \* len() so far, then the excess left to evict
  expired,    \* keys evict(ttl) has collected and not yet removed
  budget      \* operations the threads may still start

cacheVars == <<inner, lru>>
lockVars  == <<shardLock, lruLock>>
timeVars  == <<clock, horizon>>
argVars   == <<op, key, now, budget>>
loopVars  == <<todo, num, expired>>
vars == <<cacheVars, lockVars, throttle, timeVars, pc, argVars, loopVars>>

None    == [born |-> 0, used |-> 0]
Present == {k \in Keys : inner[k] # None}
Indexed == {k \in Keys : lru[k] # 0}
Expired(e) == HasTtl /\ e.born <= horizon

\* LruCache::put: k becomes the most recently used key.
LruPut(k) ==
  [j \in Keys |->
     IF j = k THEN 1
     ELSE IF lru[j] # 0 /\ (lru[k] = 0 \/ lru[j] < lru[k]) THEN lru[j] + 1
     ELSE lru[j]]

\* LruCache::pop: k leaves the index.
LruPop(k) ==
  [j \in Keys |->
     IF j = k THEN 0
     ELSE IF lru[k] # 0 /\ lru[j] > lru[k] THEN lru[j] - 1
     ELSE lru[j]]

\* The key LruCache::pop_lru returns.
IsLru(k) == lru[k] # 0 /\ \A j \in Keys : lru[j] <= lru[k]

Goto(t, label) == pc' = [pc EXCEPT ![t] = label]
ShardFree(k) == shardLock[ShardOf[k]] = NoThread

-----------------------------------------------------------------------------
Init ==
  /\ inner = [k \in Keys |-> None]
  /\ lru = [k \in Keys |-> 0]
  /\ shardLock = [s \in Shards |-> NoThread]
  /\ lruLock = NoThread
  /\ throttle \in {"unset", "hot", "cool"}  \* BASE is shared by all caches
  /\ clock = 0
  /\ horizon = 0
  /\ pc = [t \in Threads |-> "idle"]
  /\ op = [t \in Threads |-> "get"]
  /\ \E k \in Keys : key = [t \in Threads |-> k]  \* no meaning while idle
  /\ now = [t \in Threads |-> 0]
  /\ todo = [t \in Threads |-> {}]
  /\ num = [t \in Threads |-> 0]
  /\ expired = [t \in Threads |-> {}]
  /\ budget \in 0..MaxOps

\* A thread calls operation o with key k; its body starts at `label`.
Start(t, o, k, label) ==
  /\ pc[t] = "idle"
  /\ o \in Ops
  /\ budget > 0
  /\ budget' = budget - 1
  /\ clock' = clock + 1
  /\ op' = [op EXCEPT ![t] = o]
  /\ key' = [key EXCEPT ![t] = k]
  /\ now' = [now EXCEPT ![t] = clock + 1]
  /\ Goto(t, label)
  /\ UNCHANGED <<cacheVars, lockVars, throttle, horizon, num, expired>>

StartGet(t, k)      == Start(t, "get", k, "lookup") /\ UNCHANGED todo
StartGetEntry(t, k) == Start(t, "get_entry", k, "lookup") /\ UNCHANGED todo
StartInsert(t, k)   == Start(t, "insert", k, "insert") /\ UNCHANGED todo

\* Mutant: remove takes the entry out of inner first, lru_index second.
StartRemove_InnerFirst(t, k) ==
  Start(t, "remove", k, "expire_inner") /\ UNCHANGED todo

\* remove pops the LRU index before the DashMap.
StartRemove(t, k) == Start(t, "remove", k, "remove_lru") /\ UNCHANGED todo

StartClear(t) ==
  Start(t, "clear", key[t], "clear") /\ todo' = [todo EXCEPT ![t] = Shards]

StartEvict(t) ==
  Start(t, "evict", key[t], "scan") /\ todo' = [todo EXCEPT ![t] = Shards]

\* get, get_entry: inner.get_mut.  A miss returns; otherwise the guard is kept
\* while the entry is examined and, if it is alive, touched.
Lookup(t) ==
  LET k == key[t] IN
  /\ pc[t] = "lookup"
  /\ ShardFree(k)
  /\ \/ /\ inner[k] = None
        /\ Goto(t, "idle")
        /\ UNCHANGED <<inner, shardLock>>
     \/ /\ inner[k] # None /\ ~Expired(inner[k])
        /\ inner' = [inner EXCEPT ![k].used = now[t]]
        /\ shardLock' = [shardLock EXCEPT ![ShardOf[k]] = t]
        /\ Goto(t, "guard_hit")
     \/ /\ inner[k] # None /\ Expired(inner[k])
        /\ shardLock' = [shardLock EXCEPT ![ShardOf[k]] = t]
        /\ Goto(t, "guard_expired")
        /\ UNCHANGED inner
  /\ UNCHANGED <<lru, lruLock, throttle, timeVars, argVars, loopVars>>

\* Mutant: the guard is still alive when the LRU lock is requested.
DropGuard_StillHeld(t) ==
  /\ pc[t] \in {"guard_hit", "guard_expired"}
  /\ Goto(t, IF pc[t] = "guard_hit" THEN "touch_lru" ELSE "expire_inner")
  /\ UNCHANGED <<cacheVars, lockVars, throttle, timeVars, argVars, loopVars>>

\* The guard of get_mut goes out of scope at the end of the `if let`.
DropGuard(t) ==
  /\ pc[t] \in {"guard_hit", "guard_expired"}
  /\ shardLock' = [shardLock EXCEPT ![ShardOf[key[t]]] = NoThread]
  /\ Goto(t, IF pc[t] = "guard_hit" THEN "touch_lru" ELSE "expire_inner")
  /\ UNCHANGED <<cacheVars, lruLock, throttle, timeVars, argVars, loopVars>>

\* Mutant: a hit does not refresh the LRU order.
TouchLru_Skipped(t) ==
  /\ pc[t] = "touch_lru"
  /\ Goto(t, "idle")
  /\ UNCHANGED <<cacheVars, lockVars, throttle, timeVars, argVars, loopVars>>

\* A live entry was found: lru.put.
TouchLru(t) ==
  /\ pc[t] = "touch_lru"
  /\ lruLock = NoThread
  /\ lru' = LruPut(key[t])
  /\ Goto(t, "idle")
  /\ UNCHANGED <<inner, lockVars, throttle, timeVars, argVars, loopVars>>

\* An expired entry was found: inner.remove(key), whatever is there by now.
ExpireInner(t) ==
  /\ pc[t] = "expire_inner"
  /\ ShardFree(key[t])
  /\ inner' = [inner EXCEPT ![key[t]] = None]
  /\ Goto(t, "expire_lru")
  /\ UNCHANGED <<lru, lockVars, throttle, timeVars, argVars, loopVars>>

\* Mutant: the expired key stays in lru_index.
ExpireLru_Forgotten(t) ==
  /\ pc[t] = "expire_lru"
  /\ Goto(t, IF op[t] = "evict" THEN "next_expired" ELSE "idle")
  /\ UNCHANGED <<cacheVars, lockVars, throttle, timeVars, argVars, loopVars>>

\* ... then lru.pop(key).  evict(ttl) goes on with its next expired key.
ExpireLru(t) ==
  /\ pc[t] = "expire_lru"
  /\ lruLock = NoThread
  /\ lru' = LruPop(key[t])
  /\ Goto(t, IF op[t] = "evict" THEN "next_expired" ELSE "idle")
  /\ UNCHANGED <<inner, lockVars, throttle, timeVars, argVars, loopVars>>

InsertInner(t) ==
  /\ pc[t] = "insert"
  /\ ShardFree(key[t])
  /\ inner' = [inner EXCEPT ![key[t]] = [born |-> now[t], used |-> now[t]]]
  /\ Goto(t, "insert_lru")
  /\ UNCHANGED <<lru, lockVars, throttle, timeVars, argVars, loopVars>>

\* evict_lru_if_needed starts with inner.len(), from zero over all shards.
InsertLru(t) ==
  /\ pc[t] = "insert_lru"
  /\ lruLock = NoThread
  /\ lru' = LruPut(key[t])
  /\ todo' = [todo EXCEPT ![t] = Shards]
  /\ num' = [num EXCEPT ![t] = 0]
  /\ Goto(t, "len")
  /\ UNCHANGED <<inner, lockVars, throttle, timeVars, argVars, expired>>

RemoveLru(t) ==
  /\ pc[t] = "remove_lru"
  /\ lruLock = NoThread
  /\ lru' = LruPop(key[t])
  /\ Goto(t, "remove_inner")
  /\ UNCHANGED <<inner, lockVars, throttle, timeVars, argVars, loopVars>>

RemoveInner(t) ==
  /\ pc[t] = "remove_inner"
  /\ ShardFree(key[t])
  /\ inner' = [inner EXCEPT ![key[t]] = None]
  /\ Goto(t, "idle")
  /\ UNCHANGED <<lru, lockVars, throttle, timeVars, argVars, loopVars>>

\* clear: DashMap::clear empties one shard after the other, then lru.clear.
ClearShard(t, s) ==
  /\ pc[t] = "clear"
  /\ s \in todo[t] /\ shardLock[s] = NoThread
  /\ inner' = [k \in Keys |-> IF ShardOf[k] = s THEN None ELSE inner[k]]
  /\ todo' = [todo EXCEPT ![t] = @ \ {s}]
  /\ UNCHANGED <<lru, lockVars, throttle, timeVars, pc, argVars, num, expired>>

ClearLru(t) ==
  /\ pc[t] = "clear" /\ todo[t] = {}
  /\ lruLock = NoThread
  /\ lru' = [k \in Keys |-> 0]
  /\ Goto(t, "idle")
  /\ UNCHANGED <<inner, lockVars, throttle, timeVars, argVars, loopVars>>

\* evict(ttl): inner.iter() collects the expired keys of one shard after the
\* other (the owner's ttl is the cache's own, Expired above).
ScanShard(t, s) ==
  /\ pc[t] = "scan"
  /\ s \in todo[t] /\ shardLock[s] = NoThread
  /\ expired' = [expired EXCEPT ![t] =
                   @ \cup {k \in Present : ShardOf[k] = s /\ Expired(inner[k])}]
  /\ todo' = [todo EXCEPT ![t] = @ \ {s}]
  /\ UNCHANGED <<cacheVars, lockVars, throttle, timeVars, pc, argVars, num>>

ScanDone(t) ==
  /\ pc[t] = "scan" /\ todo[t] = {}
  /\ Goto(t, "next_expired")
  /\ UNCHANGED <<cacheVars, lockVars, throttle, timeVars, argVars, loopVars>>

\* Each collected key is removed as in get; after the last one, eviction.
NextExpired(t) ==
  /\ pc[t] = "next_expired"
  /\ \/ \E k \in expired[t] :
          /\ key' = [key EXCEPT ![t] = k]
          /\ expired' = [expired EXCEPT ![t] = @ \ {k}]
          /\ Goto(t, "expire_inner")
          /\ UNCHANGED <<todo, num>>
     \/ /\ expired[t] = {}
        /\ todo' = [todo EXCEPT ![t] = Shards]
        /\ num' = [num EXCEPT ![t] = 0]
        /\ Goto(t, "len")
        /\ UNCHANGED <<key, expired>>
  /\ UNCHANGED <<cacheVars, lockVars, throttle, timeVars, op, now, budget>>

-----------------------------------------------------------------------------
(* evict_lru_if_needed *)

\* inner.len() adds up the shards under their read locks, one at a time.
LenShard(t, s) ==
  /\ pc[t] = "len"
  /\ s \in todo[t] /\ shardLock[s] = NoThread
  /\ num' = [num EXCEPT ![t] = @ + Cardinality({k \in Present : ShardOf[k] = s})]
  /\ todo' = [todo EXCEPT ![t] = @ \ {s}]
  /\ UNCHANGED <<cacheVars, lockVars, throttle, timeVars, pc, argVars, expired>>

\* Mutant: len() - max_entries without the saturation.
CheckExcess_Unsaturated(t) ==
  /\ pc[t] = "len" /\ todo[t] = {}
  /\ num' = [num EXCEPT ![t] = @ - MaxEntries]
  /\ Goto(t, IF num[t] <= MaxEntries THEN "idle" ELSE "throttle")
  /\ UNCHANGED <<cacheVars, lockVars, throttle, timeVars, argVars, todo, expired>>

\* Mutant: one entry too many is evicted.
CheckExcess_OffByOne(t) ==
  /\ pc[t] = "len" /\ todo[t] = {}
  /\ \/ num[t] <= MaxEntries /\ Goto(t, "idle") /\ UNCHANGED num
     \/ /\ num[t] > MaxEntries
        /\ num' = [num EXCEPT ![t] = @ - MaxEntries + 1]
        /\ Goto(t, "throttle")
  /\ UNCHANGED <<cacheVars, lockVars, throttle, timeVars, argVars, todo, expired>>

\* excess = len().saturating_sub(max_entries); zero returns.
CheckExcess(t) ==
  /\ pc[t] = "len" /\ todo[t] = {}
  /\ \/ num[t] <= MaxEntries /\ Goto(t, "idle") /\ UNCHANGED num
     \/ /\ num[t] > MaxEntries
        /\ num' = [num EXCEPT ![t] = @ - MaxEntries]
        /\ Goto(t, "throttle")
  /\ UNCHANGED <<cacheVars, lockVars, throttle, timeVars, argVars, todo, expired>>

\* Mutant: a throttled caller tries again instead of returning.
CheckThrottle_Retry(t) ==
  /\ pc[t] = "throttle"
  /\ throttle' = IF throttle = "unset" THEN "hot" ELSE throttle
  /\ Goto(t, IF throttle = "cool" THEN "store_evict" ELSE "throttle")
  /\ UNCHANGED <<cacheVars, lockVars, timeVars, argVars, loopVars>>

\* now_ns - last_evict_ns < 1ms returns.  The first call of the process
\* initialises BASE, so its now_ns is 0 and it returns as well.
CheckThrottle(t) ==
  /\ pc[t] = "throttle"
  /\ throttle' = IF throttle = "unset" THEN "hot" ELSE throttle
  /\ Goto(t, IF throttle = "cool" THEN "store_evict" ELSE "idle")
  /\ UNCHANGED <<cacheVars, lockVars, timeVars, argVars, loopVars>>

\* last_evict_ns.store(now_ns): a separate atomic access.
StoreEvict(t) ==
  /\ pc[t] = "store_evict"
  /\ throttle' = "hot"
  /\ Goto(t, "evict_lock")
  /\ UNCHANGED <<cacheVars, lockVars, timeVars, argVars, loopVars>>

\* lru_index.write(), kept over the loop `for _ in 0..excess`.
EvictLock(t) ==
  /\ pc[t] = "evict_lock"
  /\ lruLock = NoThread
  /\ lruLock' = t
  /\ Goto(t, "evict_pop")
  /\ UNCHANGED <<cacheVars, shardLock, throttle, timeVars, argVars, loopVars>>

\* pop_lru; an empty index or the end of the loop releases the lock.
EvictPop(t) ==
  /\ pc[t] = "evict_pop"
  /\ \/ /\ num[t] > 0
        /\ \E k \in Keys :
             /\ IsLru(k)
             /\ key' = [key EXCEPT ![t] = k]
             /\ lru' = LruPop(k)
        /\ Goto(t, "evict_inner")
        /\ UNCHANGED lruLock
     \/ /\ num[t] = 0 \/ Indexed = {}
        /\ lruLock' = NoThread
        /\ Goto(t, "idle")
        /\ UNCHANGED <<lru, key>>
  /\ UNCHANGED <<inner, shardLock, throttle, timeVars, op, now, budget, loopVars>>

\* inner.remove(&old_key), a shard lock taken under the LRU lock.
EvictInner(t) ==
  /\ pc[t] = "evict_inner"
  /\ ShardFree(key[t])
  /\ inner' = [inner EXCEPT ![key[t]] = None]
  /\ num' = [num EXCEPT ![t] = @ - 1]
  /\ Goto(t, "evict_pop")
  /\ UNCHANGED <<lru, lockVars, throttle, timeVars, argVars, todo, expired>>

-----------------------------------------------------------------------------
\* Time passes: the oldest entries outlive the TTL; 1 ms goes by.
Age ==
  /\ HasTtl /\ horizon < clock
  /\ horizon' = horizon + 1
  /\ UNCHANGED <<cacheVars, lockVars, throttle, clock, pc, argVars, loopVars>>

Cool ==
  /\ throttle = "hot"
  /\ throttle' = "cool"
  /\ UNCHANGED <<cacheVars, lockVars, timeVars, pc, argVars, loopVars>>

\* The last call has been made and every thread is done.
Finished ==
  /\ budget = 0 /\ \A t \in Threads : pc[t] = "idle"
  /\ UNCHANGED vars

ShardStep(t) ==
  \E s \in Shards : ClearShard(t, s) \/ ScanShard(t, s) \/ LenShard(t, s)

Body(t) ==
  \/ Lookup(t) \/ DropGuard(t) \/ TouchLru(t) \/ ExpireInner(t) \/ ExpireLru(t)
  \/ InsertInner(t) \/ InsertLru(t) \/ RemoveLru(t) \/ RemoveInner(t)
  \/ ClearLru(t) \/ ScanDone(t) \/ NextExpired(t) \/ ShardStep(t)
  \/ CheckExcess(t) \/ CheckThrottle(t) \/ StoreEvict(t)
  \/ EvictLock(t) \/ EvictPop(t) \/ EvictInner(t)

Call(t) ==
  \/ \E k \in Keys : \/ StartGet(t, k) \/ StartGetEntry(t, k)
                     \/ StartInsert(t, k) \/ StartRemove(t, k)
  \/ StartClear(t) \/ StartEvict(t)

Next == Age \/ Cool \/ Finished \/ \E t \in Threads : Call(t) \/ Body(t)

Spec == Init /\ [][Next]_vars

\* The runtime schedules every task that can run, and a started operation
\* runs to its end; whether another operation is called is up to the owner.
Fairness == \A t \in Threads : WF_vars(Body(t))
FairSpec == Spec /\ Fairness

-----------------------------------------------------------------------------
(* Properties *)

PcLabels == {"idle", "lookup", "guard_hit", "guard_expired", "touch_lru",
             "expire_inner", "expire_lru", "insert", "insert_lru", "remove_lru",
             "remove_inner", "clear", "scan", "next_expired", "len", "throttle",
             "store_evict", "evict_lock", "evict_pop", "evict_inner"}

\* Every variable keeps its type: entries carry stamps, positions and the
\* excess of an eviction never go below zero, locks are held by threads.
TypeOK ==
  /\ inner \in [Keys -> [born : Nat, used : Nat]]
  /\ lru \in [Keys -> Nat]
  /\ shardLock \in [Shards -> Threads \cup {NoThread}]
  /\ lruLock \in Threads \cup {NoThread}
  /\ throttle \in {"unset", "hot", "cool"}
  /\ clock \in Nat /\ horizon \in Nat
  /\ pc \in [Threads -> PcLabels]
  /\ op \in [Threads -> AllOps]
  /\ key \in [Threads -> Keys]
  /\ now \in [Threads -> Nat]
  /\ todo \in [Threads -> SUBSET Shards]
  /\ num \in [Threads -> Nat]
  /\ expired \in [Threads -> SUBSET Keys]
  /\ budget \in Nat

\* The locks a thread needs for its next step.
WantsLru(t) ==
  \/ pc[t] \in {"touch_lru", "expire_lru", "insert_lru", "remove_lru", "evict_lock"}
  \/ pc[t] = "clear" /\ todo[t] = {}
WantsShard(t, s) ==
  \/ /\ pc[t] \in {"lookup", "expire_inner", "insert", "remove_inner", "evict_inner"}
     /\ s = ShardOf[key[t]]
  \/ pc[t] \in {"clear", "scan", "len"} /\ s \in todo[t]
WaitsFor(t, u) ==
  \/ WantsLru(t) /\ lruLock = u
  \/ \E s \in Shards : WantsShard(t, s) /\ shardLock[s] = u

\* No set of threads waits on one another in a circle, a thread on its own
\* lock included: eviction takes a shard lock under the LRU lock, and get must
\* therefore have dropped its shard guard before it asks for the LRU lock.
NoDeadlockedSet ==
  \A S \in SUBSET Threads :
    S # {} => \E t \in S : \A u \in S : ~WaitsFor(t, u)

\* An operation in flight that will put k into lru_index or take it out of inner.
Settles(t, k) ==
  key[t] = k /\ pc[t] \in {"insert_lru", "remove_inner", "evict_inner"}

\* An entry missing from lru_index, which no eviction could ever choose, is
\* always about to be indexed or removed by a running insert, remove or
\* eviction.  True of a cache without TTL (the certificate cache).
NoOrphan == \A k \in Present \ Indexed : \E t \in Threads : Settles(t, k)

\* The same of a cache with TTL, as long as no entry has outlived it: get,
\* insert, remove and eviction, in whatever order their two updates
\* interleave, never leave an entry that eviction cannot find.
NoOrphanUntilExpiry == horizon = 0 => NoOrphan

\* What the code keeps only while one thread uses the cache: the others have not
\* called anything yet.
OnlyUser(u) == \A t \in Threads \ {u} : now[t] = 0
Alone == \E u \in Threads : OnlyUser(u)

\* With one user, between operations lru_index lists exactly the entries of inner,
\* whatever mix of calls, expiries and evictions came before.
AloneIndexExact == Alone /\ (\A t \in Threads : pc[t] = "idle") => Present = Indexed

\* A step in which eviction removes an entry removes the one with the oldest
\* last_accessed.
EvictsLeastRecent ==
  \A t \in Threads : pc[t] = "evict_inner" /\ pc'[t] # pc[t] =>
    \A k \in Present : inner[key[t]].used <= inner[k].used

\* With one user, the victim of an eviction is the least recently used entry: the
\* order of lru_index is the order of use.
AloneVictimIsLeastRecent == [][Alone => EvictsLeastRecent]_vars

\* A step that ends an eviction leaves exactly max_entries entries, and the
\* entry just inserted among them.
EvictsToCapacity ==
  \A t \in Threads : pc[t] = "evict_pop" /\ pc'[t] = "idle" =>
    /\ Cardinality(Present) = MaxEntries
    /\ op[t] = "insert" /\ MaxEntries > 0 =>
         \E k \in Present : inner[k].born = now[t]

\* With one user, an eviction that is not throttled brings the cache down to
\* exactly max_entries and spares the entry just inserted.
AloneReachesCapacity == [][Alone => EvictsToCapacity]_vars

\* A started operation always ends: no interleaving of the two locks, of the
\* eviction loop and of the shard visits keeps a thread busy forever.
OperationsFinish == \A t \in Threads : pc[t] # "idle" ~> pc[t] = "idle"

=============================================================================
