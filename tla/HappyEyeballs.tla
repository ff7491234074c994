---------------------------- MODULE HappyEyeballs ----------------------------
(***************************************************************************)
(* One upstream connection of the proxy: TlsOrigin::connect_with_fallback, *)
(* connect_with_ips and connect_tcp_with_fallback (mitm/tls_origin.rs) and *)
(* SniSpoofConnector::connect_with_fallback (mitm/sni_spoof.rs), whose race*)
(* is the same code with another TLS configuration.                        *)
(*                                                                         *)
(* A call gets a ranked list of candidate IPs, races them (staggered       *)
(* attempts, first success wins), and when the whole list has failed drops *)
(* the domain's DNS entry, asks the international DoH servers and races    *)
(* the second list.  IPs are indices into the list; the network decides    *)
(* how each attempt ends and when the stagger timer fires.                 *)
(***************************************************************************)
EXTENDS Naturals

CONSTANTS
    MaxCands,       \* longest candidate list
    Modes           \* entry points exercised, a subset of AllModes

AllModes == {"fallback", "ips", "tcp"}

ASSUME MaxCandsAssumption == MaxCands \in Nat
ASSUME ModesAssumption == Modes \subseteq AllModes

VARIABLES
    mode,       \* the entry point that was called
    phase,      \* where the call is
    round,      \* 1: the candidates, 2: the international list
    len,        \* len[r]: number of IPs of list r
    att,        \* att[i]: the attempt to the i-th IP of the current list
    nextIdx,    \* index of the next IP to start
    more,       \* more_candidates
    failed,     \* <<r, i>>: the attempt's error was taken out of pending
    result      \* what the call returned

vars == <<mode, phase, round, len, att, nextIdx, more, failed, result>>

Idx == 1..MaxCands
Racing == {"race", "single", "seq"}
Phases == {"entry", "resolve", "intl", "done"} \cup Racing

\* "tcp" and "tls" are in flight, "ok" and "err" finished but not yet taken.
AttStates == {"idle", "tcp", "tls", "ok", "err", "failed", "won"}
Finished == {"ok", "err"}

Pending == {i \in Idx : att[i] \in {"tcp", "tls", "ok", "err"}}

TypeOK ==
    /\ mode \in Modes
    /\ phase \in Phases
    /\ round \in {0, 1, 2}
    /\ len \in [{1, 2} -> 0..MaxCands]
    /\ att \in [Idx -> AttStates]
    /\ nextIdx \in 1..(MaxCands + 1)
    /\ more \in BOOLEAN
    /\ failed \subseteq {1, 2} \X Idx
    /\ result \in {"none", "ok", "no_candidates", "intl_error", "all_failed"}

Init ==
    /\ mode \in Modes
    /\ phase = "entry"
    /\ round = 0
    /\ len = [r \in {1, 2} |-> 0]
    /\ att = [i \in Idx |-> "idle"]
    /\ nextIdx = 1
    /\ more = FALSE
    /\ failed = {}
    /\ result = "none"

------------------------------------------------------------------------------
(* The two candidate lists.                                                *)

\* run_happy_eyeballs up to the loop, try_tls_connect for a list of one, or
\* try_connect_tcp: the first attempt is pushed and the delay timer is armed.
BeginRace(r, k) ==
    /\ phase' = CASE mode = "tcp" -> "seq"
                  [] mode # "tcp" /\ k = 1 -> "single"
                  [] OTHER -> "race"
    /\ round' = r
    /\ len' = [len EXCEPT ![r] = k]
    /\ att' = [i \in Idx |-> IF i = 1 THEN "tcp" ELSE "idle"]
    /\ nextIdx' = 2
    /\ more' = (1 < k)
    /\ UNCHANGED <<mode, failed, result>>

Return(res) ==
    /\ phase' = "done"
    /\ result' = res

\* connect_with_ips starts from IPs the caller resolved; with none of them,
\* and in the other entry points, the call asks the resolver.
EnterWithIps(k) ==
    /\ phase = "entry" /\ mode = "ips" /\ k > 0
    /\ BeginRace(1, k)

EnterResolving ==
    /\ phase = "entry"
    /\ phase' = "resolve"
    /\ UNCHANGED <<mode, round, len, att, nextIdx, more, failed, result>>

\* DnsResolver::get_candidates returned; an error is an empty list too.
Resolved(k) ==
    /\ phase = "resolve"
    /\ IF k = 0
       THEN Return("no_candidates")
            /\ UNCHANGED <<mode, round, len, att, nextIdx, more, failed>>
       ELSE BeginRace(1, k)

\* resolve_international: an error and an empty list both end the call.
InternationalResolved(k) ==
    /\ phase = "intl"
    /\ IF k = 0
       THEN Return("intl_error")
            /\ UNCHANGED <<mode, round, len, att, nextIdx, more, failed>>
       ELSE BeginRace(2, k)

\* Mutant: the first list is the last.
RaceFailed_NoFallback == Return("all_failed")

\* Every IP of list `round` has failed: the first list is followed by the
\* international one, the second is the end.
RaceFailed ==
    IF round = 1
    THEN phase' = "intl" /\ UNCHANGED result
    ELSE Return("all_failed")

------------------------------------------------------------------------------
(* An attempt: do_tls_connect, do_sni_connect, try_tls_connect.            *)

\* TcpStream::connect succeeded; a tunnel (try_connect_tcp) needs no TLS.
TcpConnected(i) ==
    /\ phase \in Racing /\ att[i] = "tcp"
    /\ att' = [att EXCEPT ![i] = IF mode = "tcp" THEN "ok" ELSE "tls"]
    /\ UNCHANGED <<mode, phase, round, len, nextIdx, more, failed, result>>

TlsConnected(i) ==
    /\ phase \in Racing /\ att[i] = "tls"
    /\ att' = [att EXCEPT ![i] = "ok"]
    /\ UNCHANGED <<mode, phase, round, len, nextIdx, more, failed, result>>

\* Refused, handshake failure, or connect_timeout in either of the two waits.
AttemptFails(i) ==
    /\ phase \in Racing /\ att[i] \in {"tcp", "tls"}
    /\ att' = [att EXCEPT ![i] = "err"]
    /\ UNCHANGED <<mode, phase, round, len, nextIdx, more, failed, result>>

------------------------------------------------------------------------------
(* The race: the select! loop of run_happy_eyeballs.                       *)

\* pending.next() yields a stream: it is returned, the others are dropped.
TakeSuccess(i) ==
    /\ phase = "race" /\ att[i] = "ok"
    /\ Return("ok")
    /\ att' = [j \in Idx |-> IF j = i THEN "won"
                             ELSE IF j \in Pending THEN "idle" ELSE att[j]]
    /\ UNCHANGED <<mode, round, len, nextIdx, more, failed>>

\* Mutant: `!more_candidates` is not asked.
Exhausted_IgnoresCandidates(i) == Pending = {i}

\* Mutant: `pending.is_empty()` is not asked.
Exhausted_IgnoresPending(i) == ~more

\* Mutant: pending is looked at before next() has taken the attempt out.
Exhausted_Stale(i) == ~more /\ Pending = {}

\* Nothing else is in flight and nothing is left to start.
Exhausted(i) == ~more /\ Pending = {i}

\* pending.next() yields an error: the loop goes on unless Exhausted.
TakeError(i) ==
    /\ phase = "race" /\ att[i] = "err"
    /\ att' = [att EXCEPT ![i] = "failed"]
    /\ failed' = failed \cup {<<round, i>>}
    /\ IF Exhausted(i) THEN RaceFailed ELSE UNCHANGED <<phase, result>>
    /\ UNCHANGED <<mode, round, len, nextIdx, more>>

\* The delay timer elapses (branch enabled only while more_candidates).
TimerFires ==
    /\ phase = "race" /\ more
    /\ att' = [att EXCEPT ![nextIdx] = "tcp"]
    /\ nextIdx' = nextIdx + 1
    /\ more' = (nextIdx + 1 <= len[round])
    /\ UNCHANGED <<mode, phase, round, len, failed, result>>

------------------------------------------------------------------------------
(* One at a time: try_tls_connect (list of one) and try_connect_tcp.       *)

SequentialOk ==
    /\ phase \in {"single", "seq"} /\ att[nextIdx - 1] = "ok"
    /\ Return("ok")
    /\ att' = [att EXCEPT ![nextIdx - 1] = "won"]
    /\ UNCHANGED <<mode, round, len, nextIdx, more, failed>>

\* `for ip in ips` goes to the next IP, or past the last one returns last_err.
SequentialErr ==
    /\ phase \in {"single", "seq"} /\ att[nextIdx - 1] = "err"
    /\ failed' = failed \cup {<<round, nextIdx - 1>>}
    /\ IF nextIdx <= len[round]
       THEN /\ att' = [att EXCEPT ![nextIdx - 1] = "failed", ![nextIdx] = "tcp"]
            /\ nextIdx' = nextIdx + 1
            /\ more' = (nextIdx + 1 <= len[round])
            /\ UNCHANGED <<phase, result>>
       ELSE /\ att' = [att EXCEPT ![nextIdx - 1] = "failed"]
            /\ RaceFailed
            /\ UNCHANGED <<nextIdx, more>>
    /\ UNCHANGED <<mode, round, len>>

------------------------------------------------------------------------------
Attempt(i) == TcpConnected(i) \/ TlsConnected(i) \/ AttemptFails(i)
Take(i) == TakeSuccess(i) \/ TakeError(i)

Terminated == phase = "done" /\ UNCHANGED vars

Next ==
    \/ \E k \in 1..MaxCands : EnterWithIps(k)
    \/ EnterResolving
    \/ \E k \in 0..MaxCands : Resolved(k)
    \/ \E k \in 0..MaxCands : InternationalResolved(k)
    \/ \E i \in Idx : Attempt(i)
    \/ \E i \in Idx : Take(i)
    \/ TimerFires
    \/ SequentialOk
    \/ SequentialErr
    \/ Terminated

Spec == Init /\ [][Next]_vars

(***************************************************************************)
(* Every wait of an attempt is wrapped in tokio::time::timeout, the timer  *)
(* elapses, and the executor polls a woken task.  Nothing is assumed about *)
(* the resolver: a DoH exchange has no timeout of its own.                 *)
(***************************************************************************)
FairSpec ==
    /\ Spec
    /\ \A i \in Idx : WF_vars(Attempt(i)) /\ WF_vars(Take(i))
    /\ WF_vars(TimerFires)
    /\ WF_vars(SequentialOk \/ SequentialErr)

------------------------------------------------------------------------------
(* Properties.                                                             *)

(***************************************************************************)
(* The select! of the race has no `else` branch, so an iteration in which  *)
(* pending is empty and more_candidates is false would panic the task; the *)
(* loop always returns before it comes to that.                            *)
(***************************************************************************)
SelectNeverStarves == phase = "race" => more \/ Pending # {}

(***************************************************************************)
(* The call falls back to the international servers, and reports failure,  *)
(* only when every IP of the list was tried and its error was seen: no IP  *)
(* is skipped by the stagger and none is still undecided.                  *)
(***************************************************************************)
AllFailed(r) == \A i \in 1..len[r] : <<r, i>> \in failed

FailureIsExhaustive ==
    /\ (phase = "intl" \/ round = 2 \/ result \in {"intl_error", "all_failed"})
           => len[1] > 0 /\ AllFailed(1)
    /\ result = "all_failed" => len[2] > 0 /\ AllFailed(2)

(***************************************************************************)
(* A list is never given up while one of its connections is established    *)
(* and waiting in `pending` to be taken.                                   *)
(***************************************************************************)
NoSuccessDiscarded ==
    [][(phase \in Racing /\ phase' # phase /\ result' # "ok")
            => (\A i \in Idx : att[i] # "ok")]_vars

(***************************************************************************)
(* A race ends: in a connection, in the fallback or in an error.           *)
(***************************************************************************)
RaceEnds == (phase \in Racing) ~> (phase \in {"intl", "done"})

(***************************************************************************)
(* The call does what Connector promises: an address is one of either      *)
(* list, known once the list has been returned; the sources are the        *)
(* resolver and, as long as it has not been asked, the international one.  *)
(* A resolver that returns no candidate ends the call without the          *)
(* international source: its own last stage has asked the same trusted     *)
(* endpoints, unless dns_mapping names a provider (SelectEndpoints of      *)
(* DnsResolver).                                                           *)
(***************************************************************************)
Known == {p \in {1, 2} \X Idx : p[2] <= len[p[1]]}

Call == INSTANCE Connector WITH
    Addresses <- {1, 2} \X Idx,
    known <- Known,
    asking <- round # 2 /\ result \notin {"no_candidates", "intl_error"},
    bad <- failed,
    outcome <- IF result \in {"none", "ok"} THEN result ELSE "error"

ImplementsConnector == Call!Spec

==============================================================================
