-------------------------- MODULE MCEvictableCache --------------------------
(***************************************************************************)
(* EvictableCache for TLC.  One task uses the cache alone; `crew` is who   *)
(* uses it.  After its first insert a second task may join, and the two    *)
(* then make a few calls side by side.                                     *)
(***************************************************************************)
EXTENDS EvictableCache, TLC

CONSTANTS k1, k2, k3, s1, s2, t1,
  MaxPairOps   \* bound: operations of two tasks

\* k1 and k3 share a shard, k2 has the other one.
MCShardOf == (k1 :> s1) @@ (k2 :> s2) @@ (k3 :> s1)

VARIABLE crew

Single == crew = {t1}

MCInit ==
  /\ Init
  /\ key[t1] = k1
  /\ crew = {t1}
  /\ budget = MaxOps

\* The second task joins; the two work on keys of different shards.
Join ==
  /\ Single /\ pc[t1] = "idle"
  /\ budget = MaxOps - 1 /\ Present = {k1}
  /\ crew' = Threads
  /\ budget' = MaxPairOps
  /\ UNCHANGED <<cacheVars, lockVars, throttle, timeVars, pc, op, key, now, loopVars>>

MCCall(t) ==
  /\ t \in crew
  /\ Call(t)
  /\ Single \/ (key'[t] # k3 /\ op'[t] \in {"get", "insert", "remove", "evict"})

MCNext ==
  \/ Join
  \/ /\ \/ Age \/ Cool \/ Finished
        \/ \E t \in Threads : MCCall(t) \/ Body(t)
     /\ UNCHANGED crew

MCSpec == MCInit /\ [][MCNext]_<<vars, crew>> /\ Fairness

=============================================================================
