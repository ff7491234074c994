-------------------------- MODULE DnsResolverProofs --------------------------
(***************************************************************************)
(* Proofs about DnsResolver and the prober inside it, for any finite       *)
(* number of tasks and addresses, any endpoints and answers, any number of *)
(* permits and any threshold of the ban.                                   *)
(***************************************************************************)
EXTENDS DnsResolver, FiniteSetTheorems, WellFoundedInduction, TLAPS

Results == [ip : Addresses, latency : Latencies]

\* What the steps of a task need to know of its own variables.
Types ==
  /\ pc \in [Tasks -> {"idle", "doh", "probe", "v6count", "v6ban", "ranked"}]
  /\ permits \in Int
  /\ DOMAIN list = Tasks /\ DOMAIN waiting = Tasks
  /\ holding \in [Tasks -> SUBSET Addresses]
  /\ failed \in [Tasks -> SUBSET Addresses]
  /\ results \in [Tasks -> Seq(Results)]
  /\ DOMAIN late = Tasks /\ v6counts \in [Tasks -> BOOLEAN]

\* The probes that have a permit, of all tasks.
Held == {h \in Tasks \X Addresses : h[2] \in holding[h[1]]}

\* A probe waits for a permit or has one, and none outlives its loop.
ProbesApart ==
  \A t \in Tasks :
    /\ waiting[t] \cap holding[t] = {}
    /\ pc[t] # "probe" => waiting[t] = {} /\ holding[t] = {}

\* As long as a task has reached nothing, every address that it had to probe is
\* being probed or has failed.
Asked(t) == ToSet(list[t])
Tried(t) == waiting[t] \cup holding[t] \cup failed[t]
Accounted(t) ==
  pc[t] \in {"probe", "v6count", "v6ban", "ranked"} /\ results[t] = <<>> =>
    /\ Asked(t) \cap V4 \subseteq Tried(t)
    /\ v6counts[t] \/ Asked(t) \cap V4 = {} => Asked(t) \subseteq Tried(t)

Inv ==
  /\ Types
  /\ ProbesApart
  /\ PermitsConserved
  /\ \A t \in Tasks : Accounted(t)

-----------------------------------------------------------------------------
(* Permits *)

\* The held permits can be counted, all of them and those of one task.
LEMMA HeldFinite ==
  ASSUME Types
  PROVE  /\ IsFiniteSet(Held) /\ Cardinality(Held) \in Nat
         /\ \A t \in Tasks : IsFiniteSet(holding[t])
  <1>1. IsFiniteSet(Tasks) /\ IsFiniteSet(Addresses)
    BY ProberConstants
  <1>2. IsFiniteSet(Tasks \X Addresses)
    BY <1>1, FS_Product
  <1>3. IsFiniteSet(Held)
    BY <1>2, FS_Subset DEF Held
  <1>4. \A t \in Tasks : IsFiniteSet(holding[t])
    BY <1>1, FS_Subset DEF Types
  <1> QED
    BY <1>3, <1>4, FS_CardinalityType

\* PermitsConserved speaks of Held.
LEMMA Conserved == PermitsConserved <=> permits + Cardinality(Held) = MaxPermits
  BY DEF PermitsConserved, Held

\* A probe that gets a permit is one more.
LEMMA TakePermit ==
  ASSUME Types, PermitsConserved, NEW t \in Tasks, NEW ip \in Addresses,
         ip \notin holding[t], permits' = permits - 1,
         holding' = [holding EXCEPT ![t] = @ \cup {ip}]
  PROVE  PermitsConserved'
  <1>1. Held' = Held \cup {<<t, ip>>} /\ <<t, ip>> \notin Held
    BY DEF Held, Types
  <1>2. Cardinality(Held') = Cardinality(Held) + 1
    BY <1>1, HeldFinite, FS_AddElement
  <1> QED
    BY <1>2, HeldFinite, Conserved DEF Types, PermitsConserved, Held

\* A probe that ends gives one permit back.
LEMMA GivePermit ==
  ASSUME Types, PermitsConserved, NEW t \in Tasks, NEW ip \in holding[t],
         permits' = permits + 1,
         holding' = [holding EXCEPT ![t] = @ \ {ip}]
  PROVE  PermitsConserved'
  <1>1. Held' = Held \ {<<t, ip>>} /\ <<t, ip>> \in Held
    BY DEF Held, Types
  <1>2. Cardinality(Held') = Cardinality(Held) - 1
    BY <1>1, HeldFinite, FS_RemoveElement
  <1> QED
    BY <1>2, HeldFinite, Conserved DEF Types, PermitsConserved, Held

\* A loop that is over gives back the permits of all its probes.
LEMMA GiveAllPermits ==
  ASSUME Types, PermitsConserved, NEW t \in Tasks, NEW ip \in holding[t],
         permits' = permits + (1 + Cardinality(holding[t] \ {ip})),
         holding' = [holding EXCEPT ![t] = {}]
  PROVE  PermitsConserved'
  <1> DEFINE own == {t} \X holding[t]
  <1>1. Held' = Held \ own /\ Held \cap own = own
    BY DEF Held, Types
  <1>2. IsFiniteSet(holding[t]) /\ Cardinality(holding[t]) \in Nat
    BY HeldFinite, FS_CardinalityType
  <1>3. Cardinality(own) = Cardinality(holding[t])
    <2>1. IsFiniteSet({t}) /\ Cardinality({t}) = 1
      BY FS_Singleton
    <2>2. Cardinality(own) = 1 * Cardinality(holding[t])
      BY <2>1, <1>2, FS_Product
    <2> QED
      BY <1>2, <2>2
  <1> HIDE DEF own
  <1>4. Cardinality(Held') = Cardinality(Held) - Cardinality(holding[t])
    <2>1. Cardinality(Held \ own) = Cardinality(Held) - Cardinality(Held \cap own)
      BY HeldFinite, FS_Difference
    <2> QED
      BY <1>1, <1>3, <2>1
  <1>5. Cardinality(holding[t] \ {ip}) = Cardinality(holding[t]) - 1
    BY <1>2, FS_RemoveElement
  <1> QED
    BY <1>2, <1>4, <1>5, HeldFinite, Conserved DEF Types, PermitsConserved, Held

-----------------------------------------------------------------------------
(* Steps of a task *)

\* The loop over the probes and what follows it.
Ranking == {"probe", "v6count", "v6ban", "ranked"}

\* A step that touches neither labels nor probes.
LEMMA QuietInv ==
  ASSUME Inv, UNCHANGED <<pc, permits, list, waiting, holding, results, failed, v6counts>>,
         DOMAIN late' = Tasks
  PROVE  Inv'
  <1>1. Types'
    BY DEF Inv, Types
  <1>2. ProbesApart' /\ PermitsConserved'
    BY DEF Inv, ProbesApart, PermitsConserved
  <1>3. \A t \in Tasks : Accounted(t)'
    BY DEF Inv, Accounted, Asked, Tried
  <1> QED
    BY <1>1, <1>2, <1>3 DEF Inv

\* A task goes from one label outside the loop to another; it does not come to
\* the end of a ranking that it has not begun.
LEMMA MoveInv ==
  ASSUME Inv, NEW t \in Tasks,
         NEW l \in {"idle", "doh", "v6count", "v6ban", "ranked"},
         Goto(t, l), pc[t] # "probe", l \in Ranking => pc[t] \in Ranking,
         UNCHANGED probeVars
  PROVE  Inv'
  <1> USE DEF probeVars, Goto
  <1>1. Types'
    BY DEF Inv, Types
  <1>2. ProbesApart' /\ PermitsConserved'
    BY DEF Inv, Types, ProbesApart, PermitsConserved
  <1>3. ASSUME NEW u \in Tasks PROVE Accounted(u)'
    <2>1. Accounted(u)
      BY DEF Inv
    <2>2. pc'[u] \in Ranking => pc[u] \in Ranking
      BY DEF Inv, Types
    <2> QED
      BY <2>1, <2>2 DEF Accounted, Asked, Tried, Ranking
  <1> QED
    BY <1>1, <1>2, <1>3 DEF Inv

\* A call returns: its list and its results are gone, and it held no permit.
LEMMA ReturnInv ==
  ASSUME Inv, NEW t \in Tasks, Return(t), pc[t] # "probe"
  PROVE  Inv'
  <1>1. Types'
    BY DEF Inv, Types, Return, Goto
  <1>2. ProbesApart' /\ PermitsConserved'
    BY DEF Inv, Types, ProbesApart, PermitsConserved, Return, Goto
  <1>3. ASSUME NEW u \in Tasks PROVE Accounted(u)'
    <2>1. CASE u = t
      BY <2>1 DEF Inv, Types, Accounted, Return, Goto
    <2>2. CASE u # t
      <3>1. Accounted(u)
        BY DEF Inv
      <3> QED
        BY <2>2, <3>1 DEF Inv, Types, Accounted, Asked, Tried, Return, Goto
    <2> QED
      BY <2>1, <2>2
  <1> QED
    BY <1>1, <1>2, <1>3 DEF Inv

\* select_ranked_ips begins: the addresses that are not probed are the IPv6 ones
\* of a list with IPv4 addresses, and then nothing will be recorded for IPv6.
LEMMA BeginInv ==
  ASSUME Inv, NEW t \in Tasks, NEW l, pc[t] = "doh", BeginProbes(t, l)
  PROVE  Inv'
  <1>1. Types'
    BY DEF Inv, Types, BeginProbes, Goto, ShouldProbeV6
  <1>2. ProbesApart' /\ PermitsConserved'
    BY DEF Inv, Types, ProbesApart, PermitsConserved, BeginProbes, Goto
  <1>3. ASSUME NEW u \in Tasks PROVE Accounted(u)'
    <2>1. CASE u = t
      <3>1. /\ waiting'[t] = ToProbe(l) /\ holding'[t] = {} /\ failed'[t] = {}
            /\ Asked(t)' = ToSet(l)
            /\ v6counts'[t] => ShouldProbeV6
        BY DEF Inv, Types, ProbesApart, BeginProbes, Asked
      <3>2. /\ ToSet(l) \cap V4 \subseteq ToProbe(l)
            /\ ShouldProbeV6 \/ ToSet(l) \cap V4 = {} => ToSet(l) \subseteq ToProbe(l)
        BY DEF ToProbe
      <3> QED
        BY <2>1, <3>1, <3>2 DEF Accounted, Tried
    <2>2. CASE u # t
      <3>1. Accounted(u)
        BY DEF Inv
      <3> QED
        BY <2>2, <3>1 DEF Inv, Types, Accounted, Asked, Tried, BeginProbes, Goto
    <2> QED
      BY <2>1, <2>2
  <1> QED
    BY <1>1, <1>2, <1>3 DEF Inv

\* A probe gets its permit.
LEMMA AcquireInv ==
  ASSUME Inv, NEW t \in Tasks, NEW ip \in Addresses, AcquirePermit(t, ip)
  PROVE  Inv'
  <1>1. Types'
    BY DEF Inv, Types, AcquirePermit
  <1>2. ProbesApart'
    BY DEF Inv, Types, ProbesApart, AcquirePermit
  <1>3. PermitsConserved'
    BY TakePermit DEF Inv, ProbesApart, AcquirePermit
  <1>4. ASSUME NEW u \in Tasks PROVE Accounted(u)'
    <2>1. Accounted(u) /\ Tried(u)' = Tried(u)
      BY DEF Inv, Types, Tried, AcquirePermit
    <2> QED
      BY <2>1 DEF Accounted, Asked, AcquirePermit
  <1> QED
    BY <1>1, <1>2, <1>3, <1>4 DEF Inv

\* A probe ends, and perhaps the loop with it: only the last probe ends a loop
\* that has found nothing, since a break needs a result.
LEMMA ResultInv ==
  ASSUME Inv, NEW t \in Tasks, NEW ip \in holding[t], NEW found \in Seq(Results),
         pc[t] = "probe", AfterResult(t, ip, found),
         UNCHANGED <<list, late, v6counts>>,
         \/ found # <<>> /\ UNCHANGED failed
         \/ found = results[t] /\ failed' = [failed EXCEPT ![t] = @ \cup {ip}]
  PROVE  Inv'
  <1> DEFINE rest == holding[t] \ {ip}
             over == LastProbe(t, rest) \/ Break(t, found)
  <1>1. Conclude(t, rest, found, over, 1 + IF over THEN Cardinality(rest) ELSE 0)
    BY DEF AfterResult
  <1>2. ip \in Addresses /\ Cardinality(rest) \in Nat
    BY HeldFinite, FS_Subset, FS_CardinalityType DEF Inv, Types
  <1> HIDE DEF over
  <1>3. Types'
    <2>1. permits' \in Int
      BY <1>1, <1>2 DEF Inv, Types, Conclude
    <2>2. /\ holding' \in [Tasks -> SUBSET Addresses] /\ DOMAIN waiting' = Tasks
          /\ results' \in [Tasks -> Seq(Results)]
      BY <1>1 DEF Inv, Types, Conclude
    <2>3. failed' \in [Tasks -> SUBSET Addresses]
      <3>1. failed \in [Tasks -> SUBSET Addresses]
        BY DEF Inv, Types
      <3> QED
        BY <1>2, <3>1
    <2>4. pc' \in [Tasks -> {"idle", "doh", "probe", "v6count", "v6ban", "ranked"}]
      BY <1>1 DEF Inv, Types, Conclude, Goto
    <2> QED
      BY <2>1, <2>2, <2>3, <2>4 DEF Inv, Types
  <1>4. ProbesApart'
    BY <1>1 DEF Inv, Types, ProbesApart, Conclude, Goto
  <1>5. PermitsConserved'
    <2>1. CASE over
      BY <1>1, <2>1, GiveAllPermits DEF Inv, Conclude
    <2>2. CASE ~over
      <3>1. permits' = permits + 1 /\ holding' = [holding EXCEPT ![t] = @ \ {ip}]
        BY <1>1, <2>2 DEF Conclude, Inv, Types
      <3> QED
        BY <3>1, GivePermit DEF Inv
    <2> QED
      BY <2>1, <2>2
  <1>6. ASSUME NEW u \in Tasks, u # t PROVE Accounted(u)'
    <2>1. Accounted(u)
      BY DEF Inv
    <2> QED
      BY <1>1, <1>6, <2>1 DEF Inv, Types, Accounted, Asked, Tried, Conclude, Goto
  <1>7. Accounted(t)'
    <2> SUFFICES ASSUME found = <<>>
                 PROVE  Tried(t) \subseteq Tried(t)'
      BY <1>1 DEF Inv, Types, Accounted, Asked, Conclude
    <2>1. failed'[t] = failed[t] \cup {ip}
      BY DEF Inv, Types
    <2>2. ~Break(t, found)
      BY ProberConstants DEF Break
    <2>3. CASE over
      <3>1. waiting[t] \cup rest = {}
        BY <2>2, <2>3 DEF over, LastProbe
      <3> QED
        BY <2>1, <3>1 DEF Tried
    <2>4. CASE ~over
      <3>1. waiting'[t] = waiting[t] /\ holding'[t] = rest
        BY <1>1, <2>4 DEF Inv, Types, Conclude
      <3> QED
        BY <2>1, <3>1 DEF Tried
    <2> QED
      BY <2>3, <2>4
  <1> QED
    BY <1>3, <1>4, <1>5, <1>6, <1>7 DEF Inv

-----------------------------------------------------------------------------
(* The lists of addresses *)

\* What the query of a task has returned names no address twice, and is there
\* as long as the task ranks it.
AnswerUsable(t) ==
  /\ ips[t] \in Seq(Addresses) /\ IsInjective(ips[t])
  /\ pc[t] \in Ranking => ips[t] # <<>>

\* An address that has answered is not probed again.
ReachedOnce(t) ==
  LET r == results[t] IN
  /\ \A i \in DOMAIN r : r[i].ip \notin waiting[t] \cup holding[t]
  /\ \A i, j \in DOMAIN r : r[i].ip = r[j].ip => i = j

Entries == [ips : Seq(Addresses), fresh : BOOLEAN]

ListInv ==
  /\ DOMAIN ips = Tasks /\ cache \in [Domains -> Entries]
  /\ \A t \in Tasks : AnswerUsable(t) /\ ReachedOnce(t)
  /\ CachedListUsable

\* The addresses that Dedup adds differ from each other and from the old ones.
LEMMA DedupUsable ==
  ASSUME NEW l \in Seq(Addresses), IsInjective(l), NEW more \in Seq(Addresses),
         NEW all \in Dedup(l, more)
  PROVE  all \in Seq(Addresses) /\ IsInjective(all)
  <1> DEFINE New == {k \in DOMAIN more : /\ more[k] \notin ToSet(l)
                                         /\ \A j \in 1..(k - 1) : more[j] # more[k]}
             n == Cardinality(New)
  <1>1. PICK order \in [1..n -> New] :
          /\ \A i, j \in 1..n : i < j => order[i] < order[j]
          /\ all = l \o [k \in 1..n |-> more[order[k]]]
    BY DEF Dedup
  <1>2. n \in Nat
    <2>1. Len(more) \in Int /\ New \subseteq 1..Len(more)
      OBVIOUS
    <2>2. IsFiniteSet(1..Len(more))
      BY <2>1, FS_Interval
    <2> HIDE DEF New
    <2> QED
      BY <2>1, <2>2, FS_Subset, FS_CardinalityType
  <1> DEFINE add == [k \in 1..n |-> more[order[k]]]
  <1>3. ASSUME NEW k \in 1..n
        PROVE  /\ order[k] \in Nat /\ order[k] >= 1 /\ more[order[k]] \in Addresses
               /\ more[order[k]] \notin ToSet(l)
               /\ \A j \in 1..(order[k] - 1) : more[j] # more[order[k]]
    <2>1. order[k] \in New
      BY <1>1
    <2> QED
      BY <2>1
  <1> HIDE DEF New, n
  <1>4. add \in Seq(Addresses) /\ Len(add) = n
    BY <1>2, <1>3
  <1>5. ASSUME NEW i \in 1..n, NEW j \in 1..n, i < j PROVE more[order[i]] # more[order[j]]
    <2>1. order[i] < order[j]
      BY <1>1, <1>5
    <2>2. order[i] \in 1..(order[j] - 1)
      BY <1>3, <2>1
    <2> QED
      BY <1>3, <2>2
  <1>6. ASSUME NEW i \in 1..n, NEW j \in DOMAIN l PROVE more[order[i]] # l[j]
    BY <1>3 DEF ToSet
  <1>7. \A i, j \in 1..n : add[i] = add[j] => i = j
    BY <1>2, <1>5
  <1>8. \A i \in 1..n, j \in 1..Len(l) : add[i] # l[j]
    BY <1>6
  <1>9. \A i, j \in 1..Len(l) : l[i] = l[j] => i = j
    BY DEF IsInjective
  <1> HIDE DEF add
  <1>10. all = l \o add
    BY <1>1 DEF add
  <1>11. all \in Seq(Addresses) /\ DOMAIN all = 1..(Len(l) + n)
    BY <1>4, <1>10
  <1>12. ASSUME NEW i \in 1..(Len(l) + n), NEW j \in 1..(Len(l) + n), all[i] = all[j]
         PROVE  i = j
    <2>1. \A k \in 1..(Len(l) + n) : all[k] = IF k <= Len(l) THEN l[k] ELSE add[k - Len(l)]
      BY <1>2, <1>4, <1>10
    <2>2. \A k \in 1..(Len(l) + n) : k > Len(l) => k - Len(l) \in 1..n
      BY <1>2
    <2>3. CASE i <= Len(l) /\ j <= Len(l)
      BY <1>9, <1>12, <2>1, <2>3
    <2>4. CASE i > Len(l) /\ j > Len(l)
      <3>1. i - Len(l) = j - Len(l)
        BY <1>7, <1>12, <2>1, <2>2, <2>4
      <3> QED
        BY <3>1, <1>2
    <2>5. CASE i <= Len(l) /\ j > Len(l)
      BY <1>8, <1>12, <2>1, <2>2, <2>5
    <2>6. CASE i > Len(l) /\ j <= Len(l)
      BY <1>8, <1>12, <2>1, <2>2, <2>6
    <2> QED
      BY <2>3, <2>4, <2>5, <2>6, <1>2
  <1> QED
    BY <1>11, <1>12 DEF IsInjective

\* Sorting loses no address and repeats none.
LEMMA RankedUsable ==
  ASSUME NEW t \in Tasks, results[t] \in Seq(Results), results[t] # <<>>,
         ReachedOnce(t), NEW l \in Ranked(t)
  PROVE  l \in Seq(Addresses) /\ l # <<>> /\ IsInjective(l)
  <1> DEFINE r == results[t]
             n == Len(r)
             Before(i, j) == \/ r[i].latency < r[j].latency
                             \/ r[i].latency = r[j].latency /\ i < j
  <1>1. n \in Nat /\ n > 0 /\ DOMAIN r = 1..n
    OBVIOUS
  <1>2. PICK order \in [1..n -> 1..n] :
          /\ \A i, j \in 1..n : i < j => Before(order[i], order[j])
          /\ l = [k \in 1..n |-> r[order[k]].ip]
    BY <1>1 DEF Ranked
  <1>3. \A k \in 1..n : r[k].ip \in Addresses /\ r[k].latency \in Nat
    <2>1. \A k \in 1..n : r[k] \in Results
      BY <1>1
    <2> HIDE DEF r, n
    <2> QED
      BY <2>1, ProberConstants DEF Results
  <1>4. ASSUME NEW i \in 1..n, NEW j \in 1..n, i < j PROVE order[i] # order[j]
    <2>1. Before(order[i], order[j]) /\ order[j] \in 1..n
      BY <1>2, <1>4
    <2>2. ~Before(order[j], order[j])
      <3>1. r[order[j]].latency \in Nat /\ order[j] \in Nat
        BY <1>3, <2>1
      <3> HIDE DEF r
      <3> QED
        BY <3>1
    <2> QED
      BY <2>1, <2>2
  <1>5. \A i, j \in 1..n : r[i].ip = r[j].ip => i = j
    BY <1>1 DEF ReachedOnce
  <1> HIDE DEF r, n
  <1>6. l \in Seq(Addresses) /\ DOMAIN l = 1..n /\ Len(l) = n
    <2>1. l \in [1..n -> Addresses]
      BY <1>2, <1>3
    <2> QED
      BY <1>1, <2>1
  <1>7. ASSUME NEW i \in 1..n, NEW j \in 1..n, l[i] = l[j] PROVE i = j
    <2>1. order[i] = order[j]
      BY <1>2, <1>5, <1>7
    <2>2. ~(i < j) /\ ~(j < i)
      BY <1>4, <2>1
    <2> QED
      BY <1>1, <2>2
  <1> QED
    BY <1>1, <1>6, <1>7 DEF IsInjective

-----------------------------------------------------------------------------
(* Sorting *)

\* R orders S strictly and totally.
Orders(R, S) ==
  /\ \A x \in S : <<x, x>> \notin R
  /\ \A x, y \in S : x = y \/ <<x, y>> \in R \/ <<y, x>> \in R
  /\ \A x, y, z \in S : <<x, y>> \in R /\ <<y, z>> \in R => <<x, z>> \in R

\* f lists a set of n members in the order R.
Ascends(R, n, f) == \A i, j \in 1..n : i < j => <<f[i], f[j]>> \in R
Sortable(R, S) == \E f \in [1..Cardinality(S) -> S] : Ascends(R, Cardinality(S), f)

\* A set of natural numbers that is not empty has a least one.
LEMMA LeastNatural ==
  ASSUME NEW S \in SUBSET Nat, S # {}
  PROVE  \E m \in S : \A n \in S : m <= n
  <1> DEFINE Less == {p \in Nat \X Nat : p[1] < p[2]}
  <1>1. IsWellFoundedOn(Less, Nat)
    BY NatLessThanWellFounded DEF OpToRel
  <1> HIDE DEF Less
  <1>2. PICK m \in S : \A n \in S : <<n, m>> \notin Less
    BY <1>1, WFMin
  <1>3. \A n \in S : ~(n < m)
    BY <1>2 DEF Less
  <1> QED
    BY <1>3

\* Among subsets of a finite set one includes no other.
LEMMA LeastSubset ==
  ASSUME NEW S, IsFiniteSet(S), NEW B \in SUBSET (SUBSET S), B # {}
  PROVE  \E T \in B : \A U \in B : U \subseteq T => U = T
  <1>1. IsWellFoundedOn(StrictSubsetOrdering(S), SUBSET S)
    BY FS_FiniteSubsetsOfFinite, FS_StrictSubsetOrderingWellFounded
  <1>2. PICK T \in B : \A U \in B : <<U, T>> \notin StrictSubsetOrdering(S)
    BY <1>1, WFMin
  <1> QED
    BY <1>2 DEF StrictSubsetOrdering

\* A finite ordered set has a last member.
LEMMA LastMember ==
  ASSUME NEW S, IsFiniteSet(S), S # {}, NEW R, Orders(R, S)
  PROVE  \E g \in S : \A x \in S : x = g \/ <<x, g>> \in R
  <1> DEFINE HasLast(T) == \E g \in T : \A x \in T : x = g \/ <<x, g>> \in R
             Bad == {T \in SUBSET S : T # {} /\ ~HasLast(T)}
  <1>1. SUFFICES ASSUME Bad # {} PROVE FALSE
    OBVIOUS
  <1>2. PICK T \in Bad : \A U \in Bad : U \subseteq T => U = T
    <2>1. Bad \in SUBSET (SUBSET S)
      OBVIOUS
    <2> HIDE DEF Bad
    <2> QED
      BY <1>1, <2>1, LeastSubset
  <1>3. PICK y \in T : TRUE
    BY <1>2
  <1>4. CASE T \ {y} = {}
    <2>1. \A x \in T : x = y
      BY <1>4
    <2>2. HasLast(T)
      BY <1>3, <2>1
    <2> QED
      BY <1>2, <2>2
  <1>5. CASE T \ {y} # {}
    <2>1. HasLast(T \ {y})
      <3>1. T \ {y} \in SUBSET S /\ T \ {y} \subseteq T /\ T \ {y} # T
        BY <1>2, <1>3
      <3>2. T \ {y} \notin Bad
        BY <1>2, <3>1
      <3> QED
        BY <1>5, <3>1, <3>2
    <2>2. PICK g \in T \ {y} : \A x \in T \ {y} : x = g \/ <<x, g>> \in R
      BY <2>1
    <2>3. T \subseteq S /\ ~HasLast(T)
      BY <1>2
    <2>4. CASE <<y, g>> \in R
      BY <2>2, <2>3, <2>4
    <2>5. CASE <<g, y>> \in R
      <3>1. \A x \in T : x = y \/ <<x, y>> \in R
        BY <2>2, <2>3, <2>5 DEF Orders
      <3> QED
        BY <1>3, <2>3, <3>1
    <2>6. <<y, g>> \in R \/ <<g, y>> \in R
      BY <1>3, <2>2, <2>3 DEF Orders
    <2> QED
      BY <2>4, <2>5, <2>6
  <1> QED
    BY <1>4, <1>5

\* A list of a set becomes one of a set with a member more behind all others.
LEMMA ListExtended ==
  ASSUME NEW R, NEW T, IsFiniteSet(T), NEW g \in T,
         \A x \in T : x = g \/ <<x, g>> \in R, Sortable(R, T \ {g})
  PROVE  Sortable(R, T)
  <1> DEFINE n == Cardinality(T)
  <1>1. n \in Nat /\ n >= 1 /\ Cardinality(T \ {g}) = n - 1
    <2>1. n \in Nat /\ Cardinality(T \ {g}) = n - 1 /\ IsFiniteSet(T \ {g})
      BY FS_CardinalityType, FS_RemoveElement
    <2>2. Cardinality(T \ {g}) \in Nat
      BY <2>1, FS_CardinalityType
    <2> QED
      BY <2>1, <2>2
  <1>2. PICK f \in [1..(n - 1) -> T \ {g}] : Ascends(R, n - 1, f)
    BY <1>1 DEF Sortable
  <1> HIDE DEF n
  <1> DEFINE h == [i \in 1..n |-> IF i < n THEN f[i] ELSE g]
  <1>3. \A i \in 1..n : i < n => i \in 1..(n - 1) /\ f[i] \in T \ {g}
    BY <1>1, <1>2
  <1>4. /\ h \in [1..n -> T] /\ \A i \in 1..n : i < n => h[i] = f[i]
        /\ n \in 1..n /\ h[n] = g
    BY <1>1, <1>3
  <1> HIDE DEF h
  <1>5. ASSUME NEW i \in 1..n, NEW j \in 1..n, i < j PROVE <<h[i], h[j]>> \in R
    <2>1. i < n /\ h[i] = f[i] /\ f[i] \in T /\ f[i] # g
      BY <1>1, <1>3, <1>4, <1>5
    <2>2. CASE j = n
      BY <1>4, <2>1, <2>2
    <2>3. CASE j < n
      <3>1. h[j] = f[j] /\ i \in 1..(n - 1) /\ j \in 1..(n - 1)
        BY <1>3, <1>4, <2>1, <2>3
      <3> QED
        BY <1>2, <1>5, <2>1, <3>1 DEF Ascends
    <2> QED
      BY <1>1, <2>2, <2>3
  <1>6. Ascends(R, n, h)
    BY <1>5 DEF Ascends
  <1> QED
    BY <1>4, <1>6 DEF Sortable, n

\* A finite ordered set can be listed in its order.
LEMMA OrderedIsSortable ==
  ASSUME NEW S, IsFiniteSet(S), NEW R, Orders(R, S)
  PROVE  Sortable(R, S)
  <1> DEFINE Bad == {T \in SUBSET S : ~Sortable(R, T)}
  <1>1. SUFFICES ASSUME Bad # {} PROVE FALSE
    OBVIOUS
  <1>2. PICK T \in Bad : \A U \in Bad : U \subseteq T => U = T
    <2>1. Bad \in SUBSET (SUBSET S)
      OBVIOUS
    <2> HIDE DEF Bad
    <2> QED
      BY <1>1, <2>1, LeastSubset
  <1>3. T \subseteq S /\ IsFiniteSet(T) /\ ~Sortable(R, T)
    BY <1>2, FS_Subset
  <1>4. CASE T = {}
    <2>1. Cardinality(T) = 0 /\ 1..0 = {}
      BY <1>4, FS_EmptySet
    <2>2. [i \in {} |-> i] \in [{} -> T]
      OBVIOUS
    <2> QED
      BY <1>3, <2>1, <2>2 DEF Sortable, Ascends
  <1>5. CASE T # {}
    <2>1. Orders(R, T)
      BY <1>3 DEF Orders
    <2>2. PICK g \in T : \A x \in T : x = g \/ <<x, g>> \in R
      BY <1>3, <1>5, <2>1, LastMember
    <2>3. Sortable(R, T \ {g})
      <3>1. T \ {g} \in SUBSET S /\ T \ {g} \subseteq T /\ T \ {g} # T
        BY <1>3
      <3> QED
        BY <1>2, <3>1
    <2> QED
      BY <1>3, <2>2, <2>3, ListExtended
  <1> QED
    BY <1>4, <1>5

\* And in no other way.
LEMMA OneSort ==
  ASSUME NEW S, IsFiniteSet(S), NEW R, Orders(R, S),
         NEW f \in [1..Cardinality(S) -> S], Ascends(R, Cardinality(S), f),
         NEW h \in [1..Cardinality(S) -> S], Ascends(R, Cardinality(S), h)
  PROVE  f = h
  <1> DEFINE n == Cardinality(S)
  <1>1. n \in Nat
    BY FS_CardinalityType
  <1>2. ASSUME NEW e \in [1..n -> S], Ascends(R, n, e)
        PROVE  /\ \A i, j \in 1..n : e[i] = e[j] => i = j
               /\ \A x \in S : \E i \in 1..n : e[i] = x
    <2>1. ASSUME NEW i \in 1..n, NEW j \in 1..n, i < j PROVE e[i] # e[j]
      BY <1>2, <2>1 DEF Ascends, Orders
    <2>2. \A i, j \in 1..n : e[i] = e[j] => i = j
      BY <1>1, <2>1
    <2>3. e \in Injection(1..n, S)
      BY <2>2 DEF Injection, IsInjective
    <2>4. Cardinality(1..n) = n
      BY <1>1, FS_Interval
    <2>5. e \in Surjection(1..n, S)
      BY <2>3, <2>4, FS_Injection
    <2> QED
      BY <2>2, <2>5 DEF Surjection
  <1> DEFINE Differ == {i \in 1..n : f[i] # h[i]}
  <1> SUFFICES \A i \in 1..n : f[i] = h[i]
    <2>1. f = [i \in 1..n |-> f[i]] /\ h = [i \in 1..n |-> h[i]]
      OBVIOUS
    <2> QED
      BY <2>1
  <1>3. SUFFICES ASSUME Differ # {} PROVE FALSE
    OBVIOUS
  <1>4. PICK i \in Differ : \A k \in Differ : i <= k
    <2>1. Differ \in SUBSET Nat
      BY <1>1
    <2> HIDE DEF Differ
    <2> QED
      BY <1>3, <2>1, LeastNatural
  <1>5. i \in 1..n /\ f[i] # h[i] /\ f[i] \in S /\ h[i] \in S
    BY <1>4
  <1>6. \A k \in 1..n : k < i => f[k] = h[k]
    BY <1>4
  <1> HIDE DEF Differ, n
  <1>7. PICK j \in 1..n : f[j] = h[i]
    BY <1>2, <1>5 DEF n
  <1>8. PICK k \in 1..n : h[k] = f[i]
    BY <1>2, <1>5 DEF n
  <1>9. i < j /\ i < k
    <2>1. \A a, b \in 1..n : (f[a] = f[b] => a = b) /\ (h[a] = h[b] => a = b)
      BY <1>2 DEF n
    <2>2. ~(j < i) /\ j # i
      BY <1>5, <1>6, <1>7, <2>1
    <2>3. ~(k < i) /\ k # i
      BY <1>5, <1>6, <1>8, <2>1
    <2> QED
      BY <1>1, <1>5, <2>2, <2>3
  <1>10. <<f[i], h[i]>> \in R /\ <<h[i], f[i]>> \in R
    BY <1>5, <1>7, <1>8, <1>9 DEF Ascends, n
  <1> QED
    BY <1>5, <1>10 DEF Orders

\* Of the lists that add the new addresses of an answer there is one: merging the
\* answers of two endpoints always succeeds, and in one way.
THEOREM MergeIsUnique ==
  ASSUME NEW l \in Seq(Addresses), NEW more \in Seq(Addresses)
  PROVE  \E all : Dedup(l, more) = {all}
  <1> DEFINE New == {k \in DOMAIN more : /\ more[k] \notin ToSet(l)
                                         /\ \A j \in 1..(k - 1) : more[j] # more[k]}
             n == Cardinality(New)
             Less == {p \in Nat \X Nat : p[1] < p[2]}
             Rising == {order \in [1..n -> New] :
                          \A i, j \in DOMAIN order : i < j => order[i] < order[j]}
             Added(order) == l \o [k \in DOMAIN order |-> more[order[k]]]
  <1>1. Dedup(l, more) = {Added(order) : order \in Rising}
    BY DEF Dedup
  <1>2. New \subseteq Nat /\ IsFiniteSet(New)
    <2>1. Len(more) \in Int /\ New \in SUBSET (1..Len(more)) /\ 1..Len(more) \subseteq Nat
      OBVIOUS
    <2>2. IsFiniteSet(1..Len(more))
      BY <2>1, FS_Interval
    <2> HIDE DEF New
    <2> QED
      BY <2>1, <2>2, FS_Subset
  <1> HIDE DEF New
  <1>3. Orders(Less, New)
    BY <1>2 DEF Orders
  <1>4. ASSUME NEW order \in [1..n -> New]
        PROVE  order \in Rising <=> Ascends(Less, n, order)
    <2>1. \A i \in 1..n : order[i] \in Nat
      BY <1>2
    <2> QED
      BY <2>1 DEF Ascends
  <1> HIDE DEF Less
  <1>5. PICK first \in [1..n -> New] : Ascends(Less, n, first)
    BY <1>2, <1>3, OrderedIsSortable DEF Sortable
  <1>6. \A order \in Rising : order = first
    <2>1. ASSUME NEW order \in Rising PROVE order = first
      <3>1. order \in [1..n -> New] /\ Ascends(Less, n, order)
        BY <1>4
      <3> QED
        BY <1>2, <1>3, <1>5, <3>1, OneSort
    <2> QED
      BY <2>1
  <1>7. first \in Rising
    BY <1>4, <1>5
  <1> HIDE DEF Rising, n, Added
  <1>8. {Added(order) : order \in Rising} = {Added(first)}
    BY <1>6, <1>7
  <1> QED
    BY <1>1, <1>8

\* Of the lists that are sorted by latency there is one: sort_by_key always ends
\* with a list, whatever latencies were measured, and equal ones leave no choice.
LEMMA RankingOfResults ==
  ASSUME NEW t, results[t] \in Seq(Results)
  PROVE  \E l : Ranked(t) = {l}
  <1> DEFINE r == results[t]
             n == Len(r)
             Before(i, j) == \/ r[i].latency < r[j].latency
                             \/ r[i].latency = r[j].latency /\ i < j
             Less == {p \in (1..n) \X (1..n) : Before(p[1], p[2])}
             Rising == {order \in [1..n -> 1..n] :
                          \A i, j \in 1..n : i < j => Before(order[i], order[j])}
             Listed(order) == [k \in 1..n |-> r[order[k]].ip]
  <1>1. n \in Nat /\ DOMAIN r = 1..n
    OBVIOUS
  <1>2. Ranked(t) = {Listed(order) : order \in Rising}
    BY <1>1 DEF Ranked
  <1>3. \A k \in 1..n : r[k].latency \in Nat
    <2>1. \A k \in 1..n : r[k] \in Results
      BY <1>1
    <2> HIDE DEF r, n
    <2> QED
      BY <2>1, ProberConstants DEF Results
  <1> HIDE DEF r, n
  <1>4. IsFiniteSet(1..n) /\ Cardinality(1..n) = n
    BY <1>1, FS_Interval
  <1>5. Orders(Less, 1..n)
    <2>1. \A i, j \in 1..n : <<i, j>> \in Less <=> Before(i, j)
      OBVIOUS
    <2>2. \A i \in 1..n : ~Before(i, i)
      BY <1>1, <1>3
    <2>3. \A i, j \in 1..n : i = j \/ Before(i, j) \/ Before(j, i)
      BY <1>1, <1>3
    <2>4. \A i, j, k \in 1..n : Before(i, j) /\ Before(j, k) => Before(i, k)
      BY <1>1, <1>3
    <2> HIDE DEF Less, Before
    <2> QED
      BY <2>1, <2>2, <2>3, <2>4 DEF Orders
  <1>6. ASSUME NEW order \in [1..n -> 1..n]
        PROVE  order \in Rising <=> Ascends(Less, n, order)
    <2>1. \A i \in 1..n : order[i] \in 1..n
      OBVIOUS
    <2> HIDE DEF Before
    <2> QED
      BY <2>1 DEF Ascends
  <1> HIDE DEF Less, Before
  <1>7. PICK first \in [1..n -> 1..n] : Ascends(Less, n, first)
    <2>1. Sortable(Less, 1..n)
      BY <1>4, <1>5, OrderedIsSortable
    <2> QED
      BY <1>4, <2>1 DEF Sortable
  <1>8. ASSUME NEW order \in Rising PROVE order = first
    <2>1. order \in [1..n -> 1..n] /\ Ascends(Less, n, order)
      BY <1>6
    <2> DEFINE S == 1..n
               m == Cardinality(S)
    <2>2. /\ order \in [1..m -> S] /\ Ascends(Less, m, order)
          /\ first \in [1..m -> S] /\ Ascends(Less, m, first)
          /\ IsFiniteSet(S) /\ Orders(Less, S)
      BY <1>4, <1>5, <1>7, <2>1
    <2> HIDE DEF S
    <2> QED
      BY <2>2, OneSort
  <1>9. first \in Rising
    BY <1>6, <1>7
  <1> HIDE DEF Rising, Listed
  <1>10. {Listed(order) : order \in Rising} = {Listed(first)}
    BY <1>8, <1>9
  <1> QED
    BY <1>2, <1>10

-----------------------------------------------------------------------------
(* The theorems *)

LEMMA InvInit == Init => Inv
  <1> SUFFICES ASSUME Init PROVE Inv
    OBVIOUS
  <1>1. Types
    BY ProberConstants DEF Init, ProberInit, Types
  <1>2. ProbesApart /\ \A t \in Tasks : Accounted(t)
    BY DEF Init, ProberInit, ProbesApart, Accounted
  <1>3. PermitsConserved
    <2>1. Held = {}
      BY DEF Init, ProberInit, Held
    <2> QED
      BY <2>1, Conserved, ProberConstants, FS_EmptySet DEF Init, ProberInit
  <1> QED
    BY <1>1, <1>2, <1>3 DEF Inv

\* The steps inside select_ranked_ips.
LEMMA ProbeStepInv ==
  ASSUME Inv, NEW t \in Tasks, ProbeStep(t)
  PROVE  Inv'
  <1>1. ASSUME NEW ip \in Addresses, ProbeFails(t, ip) PROVE Inv'
    <2>1. results[t] \in Seq(Results)
      BY DEF Inv, Types
    <2> QED
      BY <1>1, <2>1, ResultInv DEF ProbeFails
  <1>2. ASSUME NEW ip \in Addresses, NEW n \in Latencies, ProbeAnswers(t, ip, n) PROVE Inv'
    <2> DEFINE found == Append(results[t], [ip |-> ip, latency |-> n])
    <2>1. found \in Seq(Results) /\ found # <<>>
      <3>1. results[t] \in Seq(Results) /\ [ip |-> ip, latency |-> n] \in Results
        BY DEF Inv, Types, Results
      <3> QED
        BY <3>1
    <2> HIDE DEF found
    <2>2. ip \in holding[t] /\ pc[t] = "probe" /\ AfterResult(t, ip, found)
      BY <1>2 DEF ProbeAnswers, found
    <2> QED
      BY <1>2, <2>1, <2>2, ResultInv DEF ProbeAnswers
  <1>3. CASE RecordV6Count(t)
    <2>1. PICK l \in {"v6ban", "ranked"} : Goto(t, l)
      BY <1>3 DEF RecordV6Count
    <2> QED
      BY <1>3, <2>1, MoveInv DEF RecordV6Count, Ranking
  <1>4. CASE RecordV6Ban(t)
    BY <1>4, MoveInv DEF RecordV6Ban, Ranking
  <1> QED
    BY <1>1, <1>2, <1>3, <1>4, AcquireInv DEF ProbeStep

\* A call that begins: the cache answers, or its query begins.
LEMMA CallInv ==
  ASSUME Inv, NEW t \in Tasks, NEW d \in Domains,
         Lookup(t, d) \/ Reprobe(t, d) \/ International(t, d)
  PROVE  Inv'
  <1>1. pc[t] = "idle" /\ UNCHANGED probeVars
    BY DEF Lookup, Reprobe, International, Call
  <1>2. UNCHANGED pc \/ Goto(t, "doh")
    BY DEF Lookup, Reprobe, International, BeginQuery
  <1>3. CASE UNCHANGED pc
    BY <1>1, <1>3, QuietInv DEF probeVars, Inv, Types
  <1>4. CASE Goto(t, "doh")
    BY <1>1, <1>4, MoveInv DEF Ranking
  <1> QED
    BY <1>2, <1>3, <1>4

LEMMA InvNext == Inv /\ [Next]_vars => Inv'
  <1> SUFFICES ASSUME Inv, [Next]_vars PROVE Inv'
    OBVIOUS
  <1>1. CASE UNCHANGED vars
    BY <1>1, QuietInv DEF vars, probeVars, Inv, Types
  <1>2. CASE Environment
    <2>1. ASSUME NEW t \in Tasks, DeadlinePasses(t) PROVE Inv'
      BY <2>1, QuietInv DEF DeadlinePasses, Inv, Types
    <2>2. CASE V6BanEnds
      BY <2>2, QuietInv DEF V6BanEnds, probeVars, Inv, Types
    <2>3. ASSUME NEW d \in Domains, Expire(d) PROVE Inv'
      BY <2>3, QuietInv DEF Expire, probeVars, Inv, Types
    <2> QED
      BY <1>2, <2>1, <2>2, <2>3 DEF Environment
  <1>3. ASSUME NEW t \in Tasks, Step(t) PROVE Inv'
    <2>1. ASSUME NEW e \in DOMAIN Endpoints, HostEnds(t, e) PROVE Inv'
      BY <2>1, QuietInv DEF HostEnds, probeVars, Inv, Types
    <2>2. CASE NextStage(t)
      BY <2>2, QuietInv DEF NextStage, probeVars, Inv, Types
    <2>3. CASE QueryFails(t)
      BY <2>3, ReturnInv DEF QueryFails, GroupEmpty
    <2>4. CASE QueryEnds(t)
      BY <2>4, BeginInv DEF QueryEnds
    <2>5. CASE Store(t)
      BY <2>5, ReturnInv DEF Store
    <2> QED
      BY <1>3, <2>1, <2>2, <2>3, <2>4, <2>5, ProbeStepInv DEF Step
  <1> QED
    BY <1>1, <1>2, <1>3, CallInv DEF Next, Finished

\* A step that leaves answers and cache alone: labels move outside the loop of
\* the probes, or a probe changes from waiting to holding, or some are dropped.
LEMMA QuietLists ==
  ASSUME ListInv, UNCHANGED <<ips, cache, results>>,
         \A t \in Tasks : /\ pc'[t] \in Ranking => pc[t] \in Ranking
                          /\ waiting'[t] \cup holding'[t] \subseteq waiting[t] \cup holding[t]
  PROVE  ListInv'
  <1>1. ASSUME NEW t \in Tasks PROVE AnswerUsable(t)' /\ ReachedOnce(t)'
    <2>1. AnswerUsable(t) /\ ReachedOnce(t)
      BY DEF ListInv
    <2> QED
      BY <2>1 DEF AnswerUsable, ReachedOnce
  <1>2. CachedListUsable'
    BY DEF ListInv, CachedListUsable
  <1> QED
    BY <1>1, <1>2 DEF ListInv

\* Only the entry of d changes, to none or to a list that may be used.
LEMMA CacheUsable ==
  ASSUME ListInv, NEW d, NEW e \in Entries,
         e = None \/ (e.ips # <<>> /\ IsInjective(e.ips)),
         cache' = [cache EXCEPT ![d] = e]
  PROVE  cache' \in [Domains -> Entries] /\ CachedListUsable'
  <1>1. cache' \in [Domains -> Entries]
    BY DEF ListInv
  <1>2. ASSUME NEW c \in Domains, cache'[c] # None
        PROVE  cache'[c].ips # <<>> /\ IsInjective(cache'[c].ips)
    <2>1. CASE c = d
      BY <1>2, <2>1 DEF ListInv
    <2>2. CASE c # d
      <3>1. cache'[c] = cache[c]
        BY <2>2 DEF ListInv
      <3> QED
        BY <1>2, <3>1 DEF ListInv, CachedListUsable
    <2> QED
      BY <2>1, <2>2
  <1> QED
    BY <1>1, <1>2 DEF CachedListUsable

LEMMA NoneIsEntry == None \in Entries
  BY DEF None, Entries

\* The cache is written and the answers stay.
LEMMA CacheLists ==
  ASSUME ListInv, cache' \in [Domains -> Entries], CachedListUsable',
         UNCHANGED <<ips, results, waiting, holding>>,
         \A t \in Tasks : pc'[t] \in Ranking => pc[t] \in Ranking
  PROVE  ListInv'
  <1>1. ASSUME NEW t \in Tasks PROVE AnswerUsable(t)' /\ ReachedOnce(t)'
    <2>1. AnswerUsable(t) /\ ReachedOnce(t)
      BY DEF ListInv
    <2> QED
      BY <2>1 DEF AnswerUsable, ReachedOnce
  <1> QED
    BY <1>1 DEF ListInv

\* A call returns and leaves a usable cache.
LEMMA ReturnLists ==
  ASSUME Inv, ListInv, NEW t \in Tasks, Return(t),
         cache' \in [Domains -> Entries], CachedListUsable'
  PROVE  ListInv'
  <1>1. ASSUME NEW u \in Tasks PROVE AnswerUsable(u)' /\ ReachedOnce(u)'
    <2>1. AnswerUsable(u) /\ ReachedOnce(u)
      BY DEF ListInv
    <2>2. CASE u = t
      <3>1. ips'[u] = <<>> /\ results'[u] = <<>> /\ pc'[u] = "idle"
        BY <2>2 DEF Return, Goto, ListInv, Inv, Types
      <3> QED
        BY <3>1 DEF AnswerUsable, ReachedOnce, Ranking, IsInjective
    <2>3. CASE u # t
      <3>1. /\ ips'[u] = ips[u] /\ results'[u] = results[u] /\ pc'[u] = pc[u]
            /\ UNCHANGED <<waiting, holding>>
        BY <2>3 DEF Return, Goto, ListInv, Inv, Types
      <3> QED
        BY <2>1, <3>1 DEF AnswerUsable, ReachedOnce
    <2> QED
      BY <2>2, <2>3
  <1>2. DOMAIN ips' = Tasks
    BY DEF Return, ListInv
  <1> QED
    BY <1>1, <1>2 DEF ListInv

\* An endpoint of the group ends.
LEMMA HostLists ==
  ASSUME Inv, ListInv, NEW t \in Tasks, NEW e \in DOMAIN Endpoints, HostEnds(t, e)
  PROVE  ListInv'
  <1>0. PICK l \in Answers[e] \cup {<<>>} :
          \E all \in Dedup(ips[t], l) : ips' = [ips EXCEPT ![t] = all]
    BY DEF HostEnds
  <1>1. PICK all \in Dedup(ips[t], l) : ips' = [ips EXCEPT ![t] = all]
    BY <1>0
  <1>2. l \in Seq(Addresses)
    <2>1. CASE l = <<>>
      BY <2>1
    <2>2. CASE l \in Answers[e]
      BY <2>2, ResolverConstants
    <2> QED
      BY <2>1, <2>2
  <1>3. all \in Seq(Addresses) /\ IsInjective(all)
    <2>1. ips[t] \in Seq(Addresses) /\ IsInjective(ips[t])
      BY DEF ListInv, AnswerUsable
    <2> QED
      BY <1>2, <2>1, DedupUsable
  <1>4. pc[t] \notin Ranking /\ UNCHANGED <<pc, cache, results, waiting, holding>>
    BY DEF HostEnds, probeVars, Ranking
  <1>5. ASSUME NEW u \in Tasks PROVE AnswerUsable(u)' /\ ReachedOnce(u)'
    <2>1. AnswerUsable(u) /\ ReachedOnce(u)
      BY DEF ListInv
    <2>2. ips'[u] = IF u = t THEN all ELSE ips[u]
      BY <1>1 DEF ListInv
    <2> QED
      BY <1>3, <1>4, <2>1, <2>2 DEF AnswerUsable, ReachedOnce
  <1>6. DOMAIN ips' = Tasks /\ cache' \in [Domains -> Entries] /\ CachedListUsable'
    BY <1>1, <1>4 DEF ListInv, CachedListUsable
  <1> QED
    BY <1>5, <1>6 DEF ListInv

\* select_ranked_ips begins with an answer, and with no results.
LEMMA BeginLists ==
  ASSUME Inv, ListInv, NEW t \in Tasks, QueryEnds(t)
  PROVE  ListInv'
  <1>1. /\ UNCHANGED <<ips, cache>> /\ ips[t] # <<>>
        /\ results'[t] = <<>>
        /\ \A u \in Tasks : u # t => /\ pc'[u] = pc[u] /\ results'[u] = results[u]
                                     /\ waiting'[u] = waiting[u] /\ holding'[u] = holding[u]
    BY DEF QueryEnds, BeginProbes, Goto, queryVars, Inv, Types
  <1>2. ASSUME NEW u \in Tasks PROVE AnswerUsable(u)' /\ ReachedOnce(u)'
    <2>1. AnswerUsable(u) /\ ReachedOnce(u)
      BY DEF ListInv
    <2>2. CASE u = t
      BY <1>1, <2>1, <2>2 DEF AnswerUsable, ReachedOnce
    <2>3. CASE u # t
      BY <1>1, <2>1, <2>3 DEF AnswerUsable, ReachedOnce
    <2> QED
      BY <2>2, <2>3
  <1>3. CachedListUsable'
    BY <1>1 DEF ListInv, CachedListUsable
  <1> QED
    BY <1>1, <1>2, <1>3 DEF ListInv

\* A probe ends.  It was one of the held ones and is none of them any more, so
\* its address is a new one among the results.
LEMMA ResultLists ==
  ASSUME Inv, ListInv, NEW t \in Tasks, NEW ip \in holding[t], pc[t] = "probe",
         NEW found \in Seq(Results), AfterResult(t, ip, found),
         \/ found = results[t]
         \/ \E n \in Latencies : found = Append(results[t], [ip |-> ip, latency |-> n]),
         UNCHANGED <<ips, cache>>
  PROVE  ListInv'
  <1>1. /\ results' = [results EXCEPT ![t] = found]
        /\ waiting'[t] \subseteq waiting[t] /\ holding'[t] \subseteq holding[t] \ {ip}
        /\ \A u \in Tasks : u # t => /\ pc'[u] = pc[u]
                                     /\ waiting'[u] = waiting[u] /\ holding'[u] = holding[u]
    BY DEF AfterResult, Conclude, Goto, Inv, Types
  <1>2. ip \notin waiting[t]
    BY DEF Inv, ProbesApart
  <1>3. results[t] \in Seq(Results) /\ AnswerUsable(t) /\ ReachedOnce(t)
    BY DEF Inv, Types, ListInv
  <1>4. /\ \A i \in DOMAIN found : found[i].ip \notin waiting'[t] \cup holding'[t]
        /\ \A i, j \in DOMAIN found : found[i].ip = found[j].ip => i = j
    <2>1. CASE found = results[t]
      BY <1>1, <1>3, <2>1 DEF ReachedOnce
    <2>2. ASSUME NEW n \in Latencies, found = Append(results[t], [ip |-> ip, latency |-> n])
          PROVE  /\ \A i \in DOMAIN found : found[i].ip \notin waiting'[t] \cup holding'[t]
                 /\ \A i, j \in DOMAIN found : found[i].ip = found[j].ip => i = j
      <3> DEFINE r == results[t]
                 m == Len(r)
      <3>1. /\ m \in Nat /\ DOMAIN r = 1..m /\ DOMAIN found = 1..(m + 1)
            /\ found[m + 1].ip = ip
            /\ \A i \in 1..m : found[i] = r[i]
        BY <1>3, <2>2
      <3>2. /\ \A i \in 1..m : r[i].ip \notin waiting[t] \cup holding[t]
            /\ \A i, j \in 1..m : r[i].ip = r[j].ip => i = j
        BY <1>3, <3>1 DEF ReachedOnce
      <3> HIDE DEF r, m
      <3>3. \A i \in 1..(m + 1) : i = m + 1 \/ i \in 1..m
        BY <3>1
      <3>4. \A i \in 1..m : found[i].ip # ip
        BY <3>1, <3>2
      <3> QED
        BY <1>1, <1>2, <3>1, <3>2, <3>3, <3>4
    <2> QED
      BY <2>1, <2>2
  <1>5. ASSUME NEW u \in Tasks PROVE AnswerUsable(u)' /\ ReachedOnce(u)'
    <2>1. CASE u = t
      <3>1. results'[t] = found
        BY <1>1 DEF Inv, Types
      <3> QED
        BY <1>3, <1>4, <2>1, <3>1 DEF AnswerUsable, ReachedOnce, Ranking
    <2>2. CASE u # t
      <3>1. results'[u] = results[u] /\ AnswerUsable(u) /\ ReachedOnce(u)
        BY <1>1, <2>2 DEF Inv, Types, ListInv
      <3> QED
        BY <1>1, <2>2, <3>1 DEF AnswerUsable, ReachedOnce
    <2> QED
      BY <2>1, <2>2
  <1>6. CachedListUsable'
    BY DEF ListInv, CachedListUsable
  <1> QED
    BY <1>5, <1>6 DEF ListInv

\* A call stores the ranked addresses, or its answer if none was reached.
LEMMA StoreLists ==
  ASSUME Inv, ListInv, NEW t \in Tasks, Store(t)
  PROVE  ListInv'
  <1>1. CASE UNCHANGED cache
    BY <1>1, ReturnLists DEF Store, ListInv, CachedListUsable
  <1>2. ASSUME NEW l \in Outcome(t), cache' = [cache EXCEPT ![dom[t]] = Fresh(l)]
        PROVE  ListInv'
    <2>1. l \in Seq(Addresses) /\ l # <<>> /\ IsInjective(l)
      <3>1. CASE results[t] = <<>>
        BY <3>1 DEF Outcome, ListInv, AnswerUsable, Store, Ranking
      <3>2. CASE results[t] # <<>>
        BY <3>2, RankedUsable DEF Outcome, Inv, Types, ListInv
      <3> QED
        BY <3>1, <3>2
    <2>2. /\ Fresh(l) \in Entries
          /\ Fresh(l).ips # <<>> /\ IsInjective(Fresh(l).ips)
      BY <2>1 DEF Fresh, Entries
    <2>3. cache' \in [Domains -> Entries] /\ CachedListUsable'
      BY <1>2, <2>2, CacheUsable
    <2> QED
      BY <2>3, ReturnLists DEF Store
  <1> QED
    BY <1>1, <1>2 DEF Store

\* The steps of the prober.
LEMMA ProbeLists ==
  ASSUME Inv, ListInv, NEW t \in Tasks, ProbeStep(t), UNCHANGED <<cache, ips>>
  PROVE  ListInv'
  <1>1. ASSUME NEW ip \in Addresses, AcquirePermit(t, ip) PROVE ListInv'
    <2>1. \A u \in Tasks : waiting'[u] \cup holding'[u] \subseteq waiting[u] \cup holding[u]
      BY <1>1 DEF AcquirePermit, Inv, Types
    <2> QED
      BY <1>1, <2>1, QuietLists DEF AcquirePermit
  <1>2. ASSUME NEW ip \in Addresses, ProbeFails(t, ip) PROVE ListInv'
    <2>1. results[t] \in Seq(Results)
      BY DEF Inv, Types
    <2> QED
      BY <1>2, <2>1, ResultLists DEF ProbeFails
  <1>3. ASSUME NEW ip \in Addresses, NEW n \in Latencies, ProbeAnswers(t, ip, n) PROVE ListInv'
    <2> DEFINE found == Append(results[t], [ip |-> ip, latency |-> n])
    <2>1. found \in Seq(Results)
      <3>1. results[t] \in Seq(Results) /\ [ip |-> ip, latency |-> n] \in Results
        BY DEF Inv, Types, Results
      <3> QED
        BY <3>1
    <2>2. ip \in holding[t] /\ pc[t] = "probe" /\ AfterResult(t, ip, found)
      BY <1>3 DEF ProbeAnswers
    <2>3. \E k \in Latencies : found = Append(results[t], [ip |-> ip, latency |-> k])
      OBVIOUS
    <2> HIDE DEF found
    <2> QED
      BY <2>1, <2>2, <2>3, ResultLists
  <1>4. CASE RecordV6Count(t) \/ RecordV6Ban(t)
    <2>1. pc[t] \in Ranking /\ \A u \in Tasks : u # t => pc'[u] = pc[u]
      BY <1>4 DEF RecordV6Count, RecordV6Ban, Goto, Ranking, Inv, Types
    <2>2. UNCHANGED <<results, waiting, holding>>
      BY <1>4 DEF RecordV6Count, RecordV6Ban, probeVars
    <2> QED
      BY <2>1, <2>2, QuietLists
  <1> QED
    BY <1>1, <1>2, <1>3, <1>4 DEF ProbeStep

\* A call begins.
LEMMA CallLists ==
  ASSUME Inv, ListInv, NEW t \in Tasks, NEW d \in Domains,
         Lookup(t, d) \/ Reprobe(t, d) \/ International(t, d)
  PROVE  ListInv'
  <1>1. UNCHANGED <<ips, results, waiting, holding>>
    BY DEF Lookup, Reprobe, International, BeginQuery, queryVars, probeVars
  <1>2. \A u \in Tasks : pc'[u] \in Ranking => pc[u] \in Ranking
    BY DEF Lookup, Reprobe, International, BeginQuery, Goto, Ranking, Inv, Types
  <1>3. UNCHANGED cache \/ cache' = [cache EXCEPT ![d] = None]
    BY DEF Lookup, Reprobe, International
  <1>4. cache' \in [Domains -> Entries] /\ CachedListUsable'
    BY <1>3, CacheUsable, NoneIsEntry DEF ListInv, CachedListUsable
  <1> QED
    BY <1>1, <1>2, <1>4, CacheLists

\* An entry expires or is evicted.
LEMMA ExpireLists ==
  ASSUME ListInv, NEW d \in Domains, Expire(d)
  PROVE  ListInv'
  <1>1. cache' \in [Domains -> Entries] /\ CachedListUsable'
    <2>1. CASE cache' = [cache EXCEPT ![d] = None]
      BY <2>1, CacheUsable, NoneIsEntry
    <2>2. CASE cache' = [cache EXCEPT ![d] = [ips |-> @.ips, fresh |-> FALSE]]
      <3> DEFINE e == [ips |-> cache[d].ips, fresh |-> FALSE]
      <3>1. cache[d] \in Entries
        BY DEF ListInv
      <3>2. e \in Entries /\ e.ips = cache[d].ips /\ cache' = [cache EXCEPT ![d] = e]
        BY <2>2, <3>1 DEF Entries, ListInv
      <3>3. e.ips # <<>> /\ IsInjective(e.ips)
        BY <3>2 DEF Expire, ListInv, CachedListUsable
      <3> HIDE DEF e
      <3> QED
        BY <3>2, <3>3, CacheUsable
    <2> QED
      BY <2>1, <2>2 DEF Expire
  <1> QED
    BY <1>1, CacheLists DEF Expire, queryVars, probeVars

LEMMA ListInit == Init => ListInv
  <1> SUFFICES ASSUME Init PROVE ListInv
    OBVIOUS
  <1>1. cache \in [Domains -> Entries] /\ CachedListUsable
    BY NoneIsEntry DEF Init, CachedListUsable
  <1>2. \A t \in Tasks : AnswerUsable(t) /\ ReachedOnce(t)
    BY DEF Init, ProberInit, AnswerUsable, ReachedOnce, Ranking, IsInjective
  <1> QED
    BY <1>1, <1>2 DEF ListInv, Init

LEMMA ListNext == Inv /\ ListInv /\ [Next]_vars => ListInv'
  <1> SUFFICES ASSUME Inv, ListInv, [Next]_vars PROVE ListInv'
    OBVIOUS
  <1>1. CASE UNCHANGED vars
    BY <1>1, QuietLists DEF vars, queryVars, probeVars
  <1>2. CASE Environment
    <2>1. ASSUME NEW t \in Tasks, DeadlinePasses(t), UNCHANGED <<cache, queryVars, callVars>>
          PROVE  ListInv'
      BY <2>1, QuietLists DEF DeadlinePasses, queryVars
    <2>2. CASE V6BanEnds /\ UNCHANGED <<cache, queryVars, callVars>>
      BY <2>2, QuietLists DEF V6BanEnds, probeVars, queryVars
    <2> QED
      BY <1>2, <2>1, <2>2, ExpireLists DEF Environment
  <1>3. ASSUME NEW t \in Tasks, Step(t) PROVE ListInv'
    <2>1. CASE NextStage(t)
      BY <2>1, QuietLists DEF NextStage, probeVars
    <2>2. CASE QueryFails(t)
      BY <2>2, ReturnLists DEF QueryFails, ListInv, CachedListUsable
    <2>3. CASE ProbeStep(t) /\ UNCHANGED <<cache, queryVars, callVars>>
      BY <2>3, ProbeLists DEF queryVars
    <2> QED
      BY <1>3, <2>1, <2>2, <2>3, HostLists, BeginLists, StoreLists DEF Step
  <1> QED
    BY <1>1, <1>2, <1>3, CallLists DEF Next, Finished

\* The invariant holds in every reachable state.
THEOREM InvariantHolds == Spec => []Inv
  BY InvInit, InvNext, PTL DEF Spec

\* However many resolutions share the semaphore of the probes, and whenever
\* select_ranked_ips breaks off and drops its running probes: every permit is
\* free or held by a probe that is still running.
THEOREM NoPermitLeaks == Spec => []PermitsConserved
  <1>1. Inv => PermitsConserved
    BY DEF Inv
  <1> QED
    BY <1>1, InvariantHolds, PTL

\* A resolution falls back to the answer it has not probed only after every
\* address it had to probe has failed: neither the deadline, nor a ban of IPv6
\* that begins or ends meanwhile, nor other tasks make it give up earlier.
THEOREM FallbackOnlyWhenAllFailed == Spec => []FallbackIsLastResort
  <1>1. Inv => FallbackIsLastResort
    <2> SUFFICES ASSUME Inv, NEW t \in Tasks, pc[t] = "ranked", results[t] = <<>>
                 PROVE  /\ Asked(t) \cap V4 \subseteq failed[t]
                        /\ v6counts[t] \/ Asked(t) \cap V4 = {} => Asked(t) \subseteq failed[t]
      BY DEF FallbackIsLastResort, Asked
    <2>1. Accounted(t) /\ Tried(t) = failed[t]
      BY DEF Inv, ProbesApart, Tried
    <2> QED
      BY <2>1 DEF Accounted
  <1> QED
    BY <1>1, InvariantHolds, PTL

\* A list in the cache of the resolver is never empty and names no address
\* twice, whatever the endpoints answer, in whatever order, and whichever of
\* resolve, the international fallback and a re-probe stored it last: the answer
\* has no duplicate, an address is probed once, and ranking only permutes.
THEOREM CachedListsUsable == Spec => []CachedListUsable
  <1>1. ListInv => CachedListUsable
    BY DEF ListInv
  <1> QED
    BY <1>1, InvariantHolds, ListInit, ListNext, PTL DEF Spec

\* sort_by_key in select_ranked_ips, which the model describes by what a sorted
\* list is: at any time and for any latencies that were measured there is such a
\* list, and only one, so that a resolution never stops for want of a ranking and
\* equal latencies leave nothing to chance.
THEOREM RankingIsUnique == Spec => [](\A t \in Tasks : \E l : Ranked(t) = {l})
  <1>1. Inv => \A t \in Tasks : \E l : Ranked(t) = {l}
    <2> SUFFICES ASSUME Inv, NEW t \in Tasks PROVE \E l : Ranked(t) = {l}
      OBVIOUS
    <2>1. results[t] \in Seq(Results)
      BY DEF Inv, Types
    <2> QED
      BY <2>1, RankingOfResults
  <1> QED
    BY <1>1, InvariantHolds, PTL

\* A probe that cannot get a permit waits for one that has one, of this call or
\* of another, and that ends within probe_timeout: calls that share the semaphore
\* never all wait, whatever a fast return has dropped.
THEOREM ProbesNeverStarve ==
  Spec => [](\A t \in Tasks : waiting[t] # {} =>
               permits > 0 \/ \E u \in Tasks : pc[u] = "probe" /\ holding[u] # {})
  <1>1. ASSUME Inv, ~(permits > 0)
        PROVE  \E u \in Tasks : pc[u] = "probe" /\ holding[u] # {}
    <2>1. permits + Cardinality(Held) = MaxPermits /\ permits \in Int
      BY <1>1, Conserved DEF Inv, Types
    <2>2. Held # {}
      BY <1>1, <2>1, ProberConstants, FS_EmptySet
    <2>3. PICK h \in Tasks \X Addresses : h[2] \in holding[h[1]]
      BY <2>2 DEF Held
    <2>4. h[1] \in Tasks /\ holding[h[1]] # {}
      BY <2>3
    <2> QED
      BY <1>1, <2>4 DEF Inv, ProbesApart
  <1>2. Inv => \A t \in Tasks : waiting[t] # {} =>
                 permits > 0 \/ \E u \in Tasks : pc[u] = "probe" /\ holding[u] # {}
    BY <1>1
  <1> QED
    BY <1>2, InvariantHolds, PTL

=============================================================================
