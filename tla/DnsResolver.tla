---------------------------- MODULE DnsResolver ----------------------------
(***************************************************************************)
(* DnsResolver of dns/resolver.rs with the endpoint stages of              *)
(* dns/doh_client.rs and the prober of IpProber.                           *)
(*                                                                         *)
(* A task resolves a domain (resolve, get_candidates), falls back to the   *)
(* trusted endpoints after all its connections failed (invalidate and      *)
(* resolve_international, as mitm/tls_origin.rs calls them), or re-probes  *)
(* a cached domain (reprobe_all).  Tasks interleave at every await and at  *)
(* every access to the cache.  The exchange with an endpoint is one step:  *)
(* addresses, none, or an error.  The best_ip_cache of the prober is left  *)
(* out: the calls modelled here write it, and only select_best_ip and its  *)
(* variants, which nothing calls, read it.                                 *)
(***************************************************************************)
EXTENDS IpProber

CONSTANTS
  Domains,
  Polluted,   \* is_invalid_ip or is_private_ip
  Endpoints,  \* the configured endpoints: a sequence of [trusted, priority]
  Mapped,     \* Mapped[d]: the endpoints that dns_mapping gives d, {} if none
  Answers,    \* Answers[e]: the address lists endpoint number e may return
  CoreSize,   \* size of the first domestic stage
  MaxCalls    \* bound: calls of the resolver

ASSUME ResolverConstants ==
  /\ Polluted \subseteq Addresses
  /\ CoreSize \in Nat \ {0} /\ MaxCalls \in Nat
  /\ Mapped \in [Domains -> SUBSET DOMAIN Endpoints]
  /\ \A e \in DOMAIN Endpoints :
       /\ Endpoints[e].trusted \in BOOLEAN /\ Endpoints[e].priority \in Nat
       /\ Answers[e] \subseteq Seq(Addresses)

VARIABLES
  cache,    \* cache: the list of a domain and whether it is within its TTL
  op, dom,  \* the call a task is in
  stages,   \* groups of endpoints its query has not tried, the current one first
  hosts,    \* endpoints of the current group that have not ended
  ips,      \* all_ips: what its query has returned so far
  calls     \* calls made, for the bound

queryVars == <<stages, hosts, ips>>
callVars == <<op, dom, calls>>
vars == <<pc, v6Vars, probeVars, cache, queryVars, callVars>>

None == [ips |-> <<>>, fresh |-> FALSE]
Fresh(l) == [ips |-> l, fresh |-> TRUE]

\* filter_ips at level PublicOnly, with its fallback to the whole list.
FilterIps(l) ==
  LET public == SelectSeq(l, LAMBDA ip : ip \notin Polluted)
  IN IF public = <<>> THEN l ELSE public

\* select_endpoints: the group of the provider that dns_mapping names, or up to
\* three groups.
ByPriority(S) ==
  SetToSortSeq(S, LAMBDA d, e : \/ Endpoints[d].priority < Endpoints[e].priority
                                \/ Endpoints[d].priority = Endpoints[e].priority /\ d < e)
Trusted == {e \in DOMAIN Endpoints : Endpoints[e].trusted}
Domestic == DOMAIN Endpoints \ Trusted
SelectEndpoints(d) ==
  LET domestic == ByPriority(Domestic)
      core == {domestic[i] : i \in {i \in DOMAIN domestic : i <= CoreSize}}
  IN IF Mapped[d] # {} THEN <<Mapped[d]>>
     ELSE SelectSeq(<<core, Domestic \ core, Trusted>>, LAMBDA g : g # {})

\* Mutant: the answers of the endpoints of a group are only concatenated.
Dedup_Concat(l, more) == {l \o more}

\* The addresses of l, then the ones of more that are not there yet, in their
\* order and each one once.  The set has one list.
Dedup(l, more) ==
  LET New == {k \in DOMAIN more : /\ more[k] \notin ToSet(l)
                                  /\ \A j \in 1..(k - 1) : more[j] # more[k]}
      Orders == {order \in [1..Cardinality(New) -> New] :
                  \A i, j \in DOMAIN order : i < j => order[i] < order[j]}
  IN {l \o [k \in DOMAIN order |-> more[order[k]]] : order \in Orders}

Call(t, o, d) ==
  /\ pc[t] = "idle" /\ calls < MaxCalls
  /\ calls' = calls + 1
  /\ op' = [op EXCEPT ![t] = o]
  /\ dom' = [dom EXCEPT ![t] = d]

\* A call returns; the query and the probes were local to it.
Return(t) ==
  /\ Goto(t, "idle")
  /\ stages' = [stages EXCEPT ![t] = <<>>]
  /\ ips' = [ips EXCEPT ![t] = <<>>]
  /\ list' = [list EXCEPT ![t] = <<>>]
  /\ results' = [results EXCEPT ![t] = <<>>]
  /\ failed' = [failed EXCEPT ![t] = {}]
  /\ late' = [late EXCEPT ![t] = FALSE]
  /\ v6counts' = [v6counts EXCEPT ![t] = FALSE]
  /\ UNCHANGED <<hosts, permits, waiting, holding>>

\* DohClient::resolve or resolve_international begins with its first group.
BeginQuery(t, groups) ==
  /\ stages' = [stages EXCEPT ![t] = groups]
  /\ hosts' = [hosts EXCEPT ![t] = IF groups = <<>> THEN {} ELSE Head(groups)]
  /\ Goto(t, "doh")
  /\ UNCHANGED ips

\* resolve and get_candidates: the cache, then DoH.  get drops an expired entry.
Lookup(t, d) ==
  /\ Call(t, "resolve", d)
  /\ IF cache[d].fresh THEN UNCHANGED <<pc, cache, queryVars>>
     ELSE cache' = [cache EXCEPT ![d] = None] /\ BeginQuery(t, SelectEndpoints(d))
  /\ UNCHANGED <<v6Vars, probeVars>>

\* One domain of reprobe_all, which lists expired entries too.
Reprobe(t, d) ==
  /\ cache[d] # None
  /\ Call(t, "reprobe", d)
  /\ BeginQuery(t, SelectEndpoints(d))
  /\ UNCHANGED <<cache, v6Vars, probeVars>>

\* invalidate, then resolve_international.
International(t, d) ==
  /\ Call(t, "international", d)
  /\ cache' = [cache EXCEPT ![d] = None]
  /\ BeginQuery(t, IF Trusted = {} THEN <<>> ELSE <<Trusted>>)
  /\ UNCHANGED <<v6Vars, probeVars>>

\* An endpoint of the current group ends with addresses or in an error.
HostEnds(t, e) ==
  /\ pc[t] = "doh" /\ e \in hosts[t]
  /\ hosts' = [hosts EXCEPT ![t] = @ \ {e}]
  /\ \E l \in Answers[e] \cup {<<>>} : \E all \in Dedup(ips[t], l) :
       ips' = [ips EXCEPT ![t] = all]
  /\ UNCHANGED <<pc, stages, cache, callVars, v6Vars, probeVars>>

GroupEmpty(t) == pc[t] = "doh" /\ hosts[t] = {} /\ ips[t] = <<>>

\* The group is through without an address: the next one is asked.
NextStage(t) ==
  /\ GroupEmpty(t) /\ Len(stages[t]) > 1
  /\ stages' = [stages EXCEPT ![t] = Tail(@)]
  /\ hosts' = [hosts EXCEPT ![t] = stages[t][2]]
  /\ UNCHANGED <<pc, ips, cache, callVars, v6Vars, probeVars>>

\* No group returned an address.
QueryFails(t) ==
  /\ GroupEmpty(t) /\ Len(stages[t]) <= 1
  /\ Return(t)
  /\ UNCHANGED <<callVars, cache, v6Vars>>

\* The addresses are filtered and probed.
QueryEnds(t) ==
  /\ pc[t] = "doh" /\ hosts[t] = {} /\ ips[t] # <<>>
  /\ BeginProbes(t, FilterIps(ips[t]))
  /\ UNCHANGED <<cache, queryVars, callVars>>

\* What a call stores: without a reachable address the unfiltered answer.
Outcome(t) == IF results[t] = <<>> THEN {ips[t]} ELSE Ranked(t)

\* select_ranked_ips has returned; a re-probe that reached nothing keeps the entry.
Store(t) ==
  /\ pc[t] = "ranked"
  /\ IF op[t] = "reprobe" /\ results[t] = <<>> THEN UNCHANGED cache
     ELSE \E l \in Outcome(t) : cache' = [cache EXCEPT ![dom[t]] = Fresh(l)]
  /\ Return(t)
  /\ UNCHANGED <<callVars, v6Vars>>

\* cache_ttl_secs pass, or an insert of another domain evicts the entry.
Expire(d) ==
  /\ cache[d] # None
  /\ \/ cache[d].fresh /\ cache' = [cache EXCEPT ![d] = [ips |-> @.ips, fresh |-> FALSE]]
     \/ cache' = [cache EXCEPT ![d] = None]
  /\ UNCHANGED <<pc, queryVars, callVars, v6Vars, probeVars>>

Init ==
  /\ ProberInit
  /\ pc = [t \in Tasks |-> "idle"]
  /\ cache = [d \in Domains |-> None]
  /\ op = [t \in Tasks |-> "resolve"]
  /\ dom \in [Tasks -> Domains]
  /\ stages = [t \in Tasks |-> <<>>]
  /\ hosts = [t \in Tasks |-> {}]
  /\ ips = [t \in Tasks |-> <<>>]
  /\ calls = 0

Step(t) ==
  \/ \E e \in DOMAIN Endpoints : HostEnds(t, e)
  \/ NextStage(t) \/ QueryFails(t) \/ QueryEnds(t)
  \/ ProbeStep(t) /\ UNCHANGED <<cache, queryVars, callVars>>
  \/ Store(t)

Environment ==
  \/ \E t \in Tasks : DeadlinePasses(t) /\ UNCHANGED <<cache, queryVars, callVars>>
  \/ V6BanEnds /\ UNCHANGED <<cache, queryVars, callVars>>
  \/ \E d \in Domains : Expire(d)

\* The calls are used up.
Finished ==
  /\ calls = MaxCalls /\ \A t \in Tasks : pc[t] = "idle"
  /\ UNCHANGED vars

Next ==
  \/ Environment \/ Finished
  \/ \E t \in Tasks, d \in Domains : Lookup(t, d) \/ Reprobe(t, d) \/ International(t, d)
  \/ \E t \in Tasks : Step(t)

Spec == Init /\ [][Next]_vars

\* Every task is scheduled; a probe ends by its timeout, the exchange with an
\* endpoint by assumption.  Which of the waiting probes gets a free permit is
\* left open.
FairSpec == Spec /\ \A t \in Tasks : WF_vars(Step(t))

-----------------------------------------------------------------------------
(* Properties *)

\* Every variable keeps its type.
TypeOK ==
  /\ pc \in [Tasks -> {"idle", "doh", "probe", "v6count", "v6ban", "ranked"}]
  /\ permits \in 0..MaxPermits
  /\ v6fails \in 0..V6Threshold /\ v6until \in {"none", "future", "past"}
  /\ waiting \in [Tasks -> SUBSET Addresses]
  /\ holding \in [Tasks -> SUBSET Addresses]
  /\ failed \in [Tasks -> SUBSET Addresses]
  /\ late \in [Tasks -> BOOLEAN] /\ v6counts \in [Tasks -> BOOLEAN]
  /\ \A t \in Tasks :
       /\ {list[t], ips[t]} \subseteq Seq(Addresses)
       /\ results[t] \in Seq([ip : Addresses, latency : Latencies])
  /\ \A d \in Domains : cache[d].ips \in Seq(Addresses) /\ cache[d].fresh \in BOOLEAN

\* A cached list is never empty, so that entry.ips[0] cannot panic, and names
\* no address twice, so that a race never dials one address twice: whichever
\* endpoints answered alike and whichever of resolve, fallback and re-probe
\* wrote it last.
CachedListUsable ==
  \A d \in Domains : cache[d] # None => cache[d].ips # <<>> /\ IsInjective(cache[d].ips)

\* Every permit is free or held by a running probe: a fast return, which drops
\* probes of a task in the middle of their connect, gives their permits back.
PermitsConserved ==
  permits + Cardinality({h \in Tasks \X Addresses : h[2] \in holding[h[1]]}) = MaxPermits

\* The unprobed answer is used only when every IPv4 address of the filtered
\* list has failed in this very call, and every IPv6 address too unless a ban
\* skipped them; a list of IPv6 addresses alone is never skipped.
FallbackIsLastResort ==
  \A t \in Tasks : pc[t] = "ranked" /\ results[t] = <<>> =>
    LET asked == ToSet(list[t]) IN
    /\ asked \cap V4 \subseteq failed[t]
    /\ v6counts[t] \/ asked \cap V4 = {} => asked \subseteq failed[t]

\* Every call of the resolver returns: tasks that share the permits of the
\* semaphore never starve each other, whatever answers, fails or is dropped.
CallsReturn == \A t \in Tasks : (pc[t] # "idle") ~> (pc[t] = "idle")

=============================================================================
