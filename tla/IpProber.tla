------------------------------ MODULE IpProber ------------------------------
(***************************************************************************)
(* The latency prober of dns/ip_prober.rs: select_ranked_ips, the shared   *)
(* semaphore of its probes and the status that bans IPv6 for a while.      *)
(*                                                                         *)
(* Several tasks are in select_ranked_ips at once.  A probe first waits    *)
(* for a permit, then connects within probe_timeout or fails.  The futures *)
(* are polled by their task only, so that the end of a probe, the return   *)
(* of its permit and the body of the collecting loop are one step.         *)
(* consecutive_failures and disabled_until are two separate cells.         *)
(*                                                                         *)
(* The module has no specification of its own: DnsResolver extends it and  *)
(* runs it inside resolutions.                                             *)
(***************************************************************************)
EXTENDS Integers, Sequences, SequencesExt, FiniteSets

CONSTANTS
  Tasks,        \* callers of the resolver
  V4, V6,       \* addresses
  Latencies,    \* latencies below probe_timeout
  MaxPermits,   \* max_concurrent_probes
  MinResults,   \* MIN_RESULTS_FOR_FAST_RETURN
  V6Enabled,    \* ipv6_enabled
  V6Threshold   \* ipv6_failure_threshold; 0 means never ban

Addresses == V4 \cup V6

ASSUME ProberConstants ==
  /\ V4 \cap V6 = {} /\ IsFiniteSet(Addresses) /\ IsFiniteSet(Tasks)
  /\ Latencies \subseteq Nat /\ Latencies # {}
  /\ MaxPermits \in Nat \ {0}
  /\ MinResults \in Nat \ {0}
  /\ V6Enabled \in BOOLEAN /\ V6Threshold \in Nat

VARIABLES
  pc,        \* what a task does next
  permits,   \* available permits of max_concurrent_arc
  v6fails,   \* consecutive_failures, saturating at V6Threshold
  v6until,   \* disabled_until: "none", or a time in the "future" or the "past"
  list,      \* the addresses a task was asked to rank
  waiting,   \* its probes that have no permit yet
  holding,   \* its probes that have one
  results,   \* its reachable addresses so far, with their latencies
  failed,    \* history: its probes that failed
  late,      \* its deadline of FAST_RETURN_TIMEOUT_MS has passed
  v6counts   \* its outcome will be recorded for IPv6

v6Vars == <<v6fails, v6until>>
probeVars == <<permits, list, waiting, holding, results, failed, late, v6counts>>

Goto(t, label) == pc' = [pc EXCEPT ![t] = label]
IsV6(ip) == ip \in V6

ShouldProbeV6 == V6Enabled /\ (V6Threshold = 0 \/ v6until # "future")

\* A list without IPv4 addresses is probed even while IPv6 is disabled or banned.
ToProbe(ips) ==
  LET asked == ToSet(ips) IN
  IF ShouldProbeV6 \/ asked \cap V4 = {} THEN asked ELSE asked \cap V4

\* The entry of select_ranked_ips, up to the first tasks.next().
BeginProbes(t, ips) ==
  /\ Goto(t, "probe")
  /\ list' = [list EXCEPT ![t] = ips]
  /\ waiting' = [waiting EXCEPT ![t] = ToProbe(ips)]
  /\ results' = [results EXCEPT ![t] = <<>>]
  /\ failed' = [failed EXCEPT ![t] = {}]
  /\ late' = [late EXCEPT ![t] = FALSE]
  /\ v6counts' = [v6counts EXCEPT ![t] =
                   /\ V6Threshold > 0 /\ ShouldProbeV6
                   /\ \E ip \in ToSet(ips) : IsV6(ip)]
  /\ UNCHANGED <<permits, holding, v6Vars>>

AcquirePermit(t, ip) ==
  /\ pc[t] = "probe" /\ ip \in waiting[t] /\ permits > 0
  /\ permits' = permits - 1
  /\ waiting' = [waiting EXCEPT ![t] = @ \ {ip}]
  /\ holding' = [holding EXCEPT ![t] = @ \cup {ip}]
  /\ UNCHANGED <<pc, list, results, failed, late, v6counts, v6Vars>>

\* fast_return_enabled: there were more probes than MinResults.
FastReturn(t) ==
  Cardinality(waiting[t] \cup holding[t] \cup failed[t]) + Len(results[t]) > MinResults

\* The loop goes on, or is over; `back` permits are returned.
Conclude(t, rest, found, over, back) ==
  /\ results' = [results EXCEPT ![t] = found]
  /\ permits' = permits + back
  /\ waiting' = [waiting EXCEPT ![t] = IF over THEN {} ELSE @]
  /\ holding' = [holding EXCEPT ![t] = IF over THEN {} ELSE rest]
  /\ Goto(t, IF ~over THEN "probe" ELSE IF v6counts[t] THEN "v6count" ELSE "ranked")

LastProbe(t, rest) == waiting[t] \cup rest = {}
Break(t, found) == FastReturn(t) /\ Len(found) >= MinResults /\ late[t]

\* Mutant: a probe that is dropped takes its permit with it.
AfterResult_KeepsPermits(t, ip, found) ==
  LET rest == holding[t] \ {ip} IN
  Conclude(t, rest, found, LastProbe(t, rest) \/ Break(t, found), 1)

\* Mutant: permits are never returned.
AfterResult_Forgets(t, ip, found) ==
  LET rest == holding[t] \ {ip} IN
  Conclude(t, rest, found, LastProbe(t, rest) \/ Break(t, found), 0)

\* Mutant: the deadline alone ends the collection.
AfterResult_OnDeadline(t, ip, found) ==
  LET rest == holding[t] \ {ip}
      over == LastProbe(t, rest) \/ (FastReturn(t) /\ late[t])
  IN Conclude(t, rest, found, over, 1 + IF over THEN Cardinality(rest) ELSE 0)

\* The end of the probe of ip: the loop goes on, ends with its last probe, or
\* breaks off.  A break drops the other probes, and with them their permits.
AfterResult(t, ip, found) ==
  LET rest == holding[t] \ {ip}
      over == LastProbe(t, rest) \/ Break(t, found)
  IN Conclude(t, rest, found, over, 1 + IF over THEN Cardinality(rest) ELSE 0)

ProbeAnswers(t, ip, latency) ==
  /\ pc[t] = "probe" /\ ip \in holding[t]
  /\ AfterResult(t, ip, Append(results[t], [ip |-> ip, latency |-> latency]))
  /\ UNCHANGED <<list, failed, late, v6counts, v6Vars>>

\* The connection is refused, or probe_timeout passes.
ProbeFails(t, ip) ==
  /\ pc[t] = "probe" /\ ip \in holding[t]
  /\ AfterResult(t, ip, results[t])
  /\ failed' = [failed EXCEPT ![t] = @ \cup {ip}]
  /\ UNCHANGED <<list, late, v6counts, v6Vars>>

DeadlinePasses(t) ==
  /\ pc[t] = "probe" /\ ~late[t]
  /\ late' = [late EXCEPT ![t] = TRUE]
  /\ UNCHANGED <<pc, permits, list, waiting, holding, results, failed, v6counts, v6Vars>>

\* record_ipv6_probe_result, in two steps: the counter, then disabled_until.
\* A dropped probe of an IPv6 address counts as a failure.  Nothing is recorded
\* when V6Threshold is 0.
V6Reached(t) == \E i \in DOMAIN results[t] : IsV6(results[t][i].ip)

RecordV6Count(t) ==
  /\ pc[t] = "v6count"
  /\ \/ V6Reached(t) /\ v6fails' = 0 /\ Goto(t, "v6ban")
     \/ /\ ~V6Reached(t)
        /\ v6fails' = IF v6fails >= V6Threshold THEN V6Threshold ELSE v6fails + 1
        /\ Goto(t, IF v6fails + 1 >= V6Threshold THEN "v6ban" ELSE "ranked")
  /\ UNCHANGED <<probeVars, v6until>>

RecordV6Ban(t) ==
  /\ pc[t] = "v6ban"
  /\ v6until' = IF V6Reached(t) THEN "none" ELSE "future"
  /\ Goto(t, "ranked")
  /\ UNCHANGED <<probeVars, v6fails>>

\* The recovery time ipv6_recovery_duration passes.
V6BanEnds ==
  /\ v6until = "future"
  /\ v6until' = "past"
  /\ UNCHANGED <<pc, probeVars, v6fails>>

\* The reachable addresses by latency; sort_by_key keeps the order of equals.
\* The set has one list, which takes position order[k] of the results as its
\* k-th member.
Ranked(t) ==
  LET r == results[t]
      Before(i, j) == \/ r[i].latency < r[j].latency
                      \/ r[i].latency = r[j].latency /\ i < j
      Orders == {order \in [DOMAIN r -> DOMAIN r] :
                  \A i, j \in DOMAIN r : i < j => Before(order[i], order[j])}
  IN {[k \in DOMAIN r |-> r[order[k]].ip] : order \in Orders}

ProberInit ==
  /\ permits = MaxPermits
  /\ v6fails = 0 /\ v6until = "none"
  /\ list = [t \in Tasks |-> <<>>]
  /\ waiting = [t \in Tasks |-> {}]
  /\ holding = [t \in Tasks |-> {}]
  /\ results = [t \in Tasks |-> <<>>]
  /\ failed = [t \in Tasks |-> {}]
  /\ late = [t \in Tasks |-> FALSE]
  /\ v6counts = [t \in Tasks |-> FALSE]

\* The steps of a task inside select_ranked_ips that end by themselves.
ProbeStep(t) ==
  \/ \E ip \in Addresses :
       \/ AcquirePermit(t, ip) \/ ProbeFails(t, ip)
       \/ \E l \in Latencies : ProbeAnswers(t, ip, l)
  \/ RecordV6Count(t) \/ RecordV6Ban(t)

=============================================================================
