------------------------------ MODULE SniStream ------------------------------
(***************************************************************************)
(* One call of SniSpoofConnector::connect_stream (mitm/sni_spoof.rs) with  *)
(* the StreamResolver tasks it starts (dns/stream_resolver.rs) and the     *)
(* WorkingIpStore it reads and updates (dns/working_ip_store.rs).          *)
(*                                                                         *)
(* The call dials every IP that worked before, at once; if none of them    *)
(* connects within WORKING_IP_TRIAL_TIMEOUT (or there is none) it starts   *)
(* one DoH task per endpoint and dials each new IPv4 address as it comes   *)
(* in through a bounded channel.  The first connection wins.               *)
(***************************************************************************)
EXTENDS Integers, Sequences, SequencesExt

CONSTANTS
    IPs,            \* IPv4 addresses
    V6,             \* an IPv6 address, which the resolver tasks drop
    Endpoints,      \* DoH endpoints
    Answers,        \* non-empty answers an endpoint may give
    ChanCap,        \* capacity of the channel (32 in the code)
    MaxRetries,     \* DOH_MAX_RETRIES
    MaxIps          \* MAX_IPS_PER_DOMAIN

ASSUME CapAssumption ==
    ChanCap \in Nat \ {0} /\ MaxRetries \in Nat \ {0} /\ MaxIps \in Nat \ {0}
ASSUME AnswersAssumption ==
    V6 \notin IPs /\ Answers \subseteq Seq(IPs \cup {V6}) \ {<<>>}

VARIABLES
    store,      \* the domain's list in WorkingIpStore, best first
    result,     \* what connect_stream returned
    att,        \* att[ip]: the attempt to ip
    seen,       \* seen_ips
    trial,      \* trial_deadline.is_some(): there were working IPs
    dnsStarted, \* dns_started
    dnsDone,    \* dns_done
    chan,       \* contents of the channel
    task        \* task[e]: the resolver task of endpoint e

callVars == <<result, att, seen, trial, dnsStarted, dnsDone>>
vars == <<store, callVars, chan, task>>

AttStates == {"idle", "run", "ok", "err", "failed", "won"}
TaskStates == {"idle", "connect", "exchange", "delay", "send", "end"}

Pending == {ip \in IPs : att[ip] \in {"run", "ok", "err"}}

\* The lists the store can hold: distinct addresses, at most MaxIps of them.
StoreLists == {s \in BoundedSeq(IPs, MaxIps) : IsInjective(s)}

TypeOK ==
    /\ store \in Seq(IPs)
    /\ result \in {"none", "ok", "no_ip", "all_failed"}
    /\ att \in [IPs -> AttStates]
    /\ seen \subseteq IPs
    /\ trial \in BOOLEAN /\ dnsStarted \in BOOLEAN /\ dnsDone \in BOOLEAN
    /\ chan \in Seq(IPs) /\ Len(chan) <= ChanCap
    /\ \A e \in Endpoints :
          /\ task[e].st \in TaskStates
          /\ task[e].n \in 1..MaxRetries
          /\ task[e].out \in Seq(IPs \cup {V6})

Task(st, n, out) == [st |-> st, n |-> n, out |-> out]

\* A query starts on a pooled connection or by dialling the endpoint.
Querying(n) == {Task(st, n, <<>>) : st \in {"connect", "exchange"}}

\* connect_stream up to the loop: the call dials the working IPs, or starts
\* the resolver when there are none.
Init ==
    /\ store \in StoreLists
    /\ result = "none"
    /\ seen = ToSet(store)
    /\ att = [ip \in IPs |-> IF ip \in ToSet(store) THEN "run" ELSE "idle"]
    /\ trial = (store # <<>>)
    /\ dnsStarted = (store = <<>>)
    /\ dnsDone = FALSE
    /\ chan = <<>>
    /\ IF store = <<>>
       THEN task \in [Endpoints -> Querying(1)]
       ELSE task = [e \in Endpoints |-> Task("idle", 1, <<>>)]

------------------------------------------------------------------------------
(* WorkingIpStore.                                                         *)

\* Mutant: the old position of ip is not looked for.
RecordSuccess_KeepsOld(s, ip) ==
    SubSeq(<<ip>> \o s, 1, IF Len(s) + 1 < MaxIps THEN Len(s) + 1 ELSE MaxIps)

\* record_success: ip moves to the front and the list is cut to MaxIps.
RecordSuccess(s, ip) ==
    LET t == <<ip>> \o RemoveFirst(s, ip)
    IN  SubSeq(t, 1, IF Len(t) < MaxIps THEN Len(t) ELSE MaxIps)

------------------------------------------------------------------------------
(* Attempts: do_sni_connect, bounded by connect_timeout.                   *)

AttemptEnds(ip) ==
    /\ result = "none" /\ att[ip] = "run"
    /\ \E r \in {"ok", "err"} : att' = [att EXCEPT ![ip] = r]
    /\ UNCHANGED <<store, result, seen, trial, dnsStarted, dnsDone, chan, task>>

------------------------------------------------------------------------------
(* The select! loop.  Returning drops the receiver and every attempt.      *)

Return(res) == result' = res /\ chan' = <<>>

\* pending.next() yields a stream.
TakeSuccess(ip) ==
    /\ result = "none" /\ att[ip] = "ok"
    /\ Return("ok")
    /\ store' = RecordSuccess(store, ip)
    /\ att' = [j \in IPs |-> IF j = ip THEN "won"
                             ELSE IF j \in Pending THEN "idle" ELSE att[j]]
    /\ UNCHANGED <<seen, trial, dnsStarted, dnsDone, task>>

\* pending.next() yields an error; the loop ends here only if dns_done.
TakeError(ip) ==
    /\ result = "none" /\ att[ip] = "err"
    /\ att' = [att EXCEPT ![ip] = "failed"]
    /\ IF dnsDone /\ Pending = {ip} THEN Return("all_failed")
                                    ELSE UNCHANGED <<result, chan>>
    /\ UNCHANGED <<store, seen, trial, dnsStarted, dnsDone, task>>

\* The trial deadline passes: resolve_stream starts one task per endpoint.
TrialBranch == trial /\ ~dnsStarted

\* Mutant: dns_started stays false, so the deadline fires for ever.
TrialDeadline_NotNoted ==
    /\ result = "none" /\ TrialBranch
    /\ task' \in [Endpoints -> Querying(1)]
    /\ UNCHANGED <<store, result, att, seen, trial, dnsStarted, dnsDone, chan>>

TrialDeadline ==
    /\ result = "none" /\ TrialBranch
    /\ dnsStarted' = TRUE
    /\ task' \in [Endpoints -> Querying(1)]
    /\ UNCHANGED <<store, result, att, seen, trial, dnsDone, chan>>

\* An address comes out of the channel: it is dialled unless it was before.
Receive ==
    /\ result = "none" /\ dnsStarted /\ ~dnsDone
    /\ chan # <<>>
    /\ chan' = Tail(chan)
    /\ seen' = seen \cup {Head(chan)}
    /\ att' = IF Head(chan) \in seen THEN att
                                     ELSE [att EXCEPT ![Head(chan)] = "run"]
    /\ UNCHANGED <<store, result, trial, dnsStarted, dnsDone, task>>

\* Mutant: an empty buffer is taken for a closed channel (try_recv).
Closed_WhenEmpty == chan = <<>>

\* recv() yields None: every sender is gone and the buffer is empty.
Closed == chan = <<>> /\ \A e \in Endpoints : task[e].st = "end"

\* No branch of the select! is left, so `else` runs.
ElseEnabled ==
    /\ Pending = {}
    /\ ~TrialBranch
    /\ ~dnsStarted \/ dnsDone \/ Closed

\* Mutant: the loop goes on after `else` noted dns_done.
Else_Continues ==
    /\ result = "none" /\ ElseEnabled
    /\ dnsDone' = TRUE
    /\ UNCHANGED <<store, result, att, seen, trial, dnsStarted, chan, task>>

Else ==
    /\ result = "none" /\ ElseEnabled
    /\ IF dnsStarted
       THEN dnsDone' = TRUE /\ Return("no_ip")
       ELSE UNCHANGED <<dnsDone, result, chan>>
    /\ UNCHANGED <<store, att, seen, trial, dnsStarted, task>>

------------------------------------------------------------------------------
(* StreamResolver: one task per endpoint.                                  *)

Unanswered(e) == IF task[e].n < MaxRetries
                 THEN Task("delay", task[e].n, <<>>)
                 ELSE Task("end", task[e].n, <<>>)

\* query_single_host dials the endpoint under `timeout`, twice.
EndpointConnect(e) ==
    /\ task[e].st = "connect"
    /\ task' = [task EXCEPT ![e] = Task("exchange", @.n, <<>>)]
    /\ UNCHANGED <<store, callVars, chan>>

EndpointConnectFails(e) ==
    /\ task[e].st = "connect"
    /\ task' = [task EXCEPT ![e] = Unanswered(e)]
    /\ UNCHANGED <<store, callVars, chan>>

\* execute_queries: an answer, an empty answer or an error (no timeout).
Answered(e) ==
    /\ task[e].st = "exchange"
    /\ \E a \in Answers : task' = [task EXCEPT ![e] = Task("send", @.n, a)]
    /\ UNCHANGED <<store, callVars, chan>>

NotAnswered(e) ==
    /\ task[e].st = "exchange"
    /\ task' = [task EXCEPT ![e] = Unanswered(e)]
    /\ UNCHANGED <<store, callVars, chan>>

RetryDelay(e) ==
    /\ task[e].st = "delay"
    /\ \E t \in Querying(task[e].n + 1) : task' = [task EXCEPT ![e] = t]
    /\ UNCHANGED <<store, callVars, chan>>

\* Mutant: the sender waits for room although the receiver is gone.
SendAddress_NoCloseCheck(e) ==
    /\ task[e].st = "send" /\ task[e].out # <<>> /\ Head(task[e].out) # V6
    /\ result = "none" /\ Len(chan) < ChanCap
    /\ chan' = Append(chan, Head(task[e].out))
    /\ task' = [task EXCEPT ![e].out = Tail(@)]
    /\ UNCHANGED <<store, callVars>>

\* tx.send: waits for room, fails as soon as the receiver has been dropped.
SendAddress(e) ==
    /\ task[e].st = "send" /\ task[e].out # <<>> /\ Head(task[e].out) # V6
    /\ \/ /\ result # "none"
          /\ task' = [task EXCEPT ![e] = Task("end", @.n, <<>>)]
          /\ UNCHANGED chan
       \/ /\ result = "none" /\ Len(chan) < ChanCap
          /\ chan' = Append(chan, Head(task[e].out))
          /\ task' = [task EXCEPT ![e].out = Tail(@)]
    /\ UNCHANGED <<store, callVars>>

\* An IPv6 address is passed over; after the last one the task returns.
SkipAddress(e) ==
    /\ task[e].st = "send" /\ task[e].out # <<>> /\ Head(task[e].out) = V6
    /\ task' = [task EXCEPT ![e].out = Tail(@)]
    /\ UNCHANGED <<store, callVars, chan>>

TaskReturns(e) ==
    /\ task[e].st = "send" /\ task[e].out = <<>>
    /\ task' = [task EXCEPT ![e].st = "end"]
    /\ UNCHANGED <<store, callVars, chan>>

------------------------------------------------------------------------------
Select ==
    \/ \E ip \in IPs : TakeSuccess(ip) \/ TakeError(ip)
    \/ TrialDeadline
    \/ Receive
    \/ Else

\* The steps of a task that take a bounded time whatever the endpoint does.
Bounded(e) ==
    \/ EndpointConnect(e) \/ EndpointConnectFails(e) \/ RetryDelay(e)
    \/ SendAddress(e) \/ SkipAddress(e) \/ TaskReturns(e)

Exchange(e) == Answered(e) \/ NotAnswered(e)

Terminated ==
    /\ result # "none" /\ \A e \in Endpoints : task[e].st \in {"idle", "end"}
    /\ UNCHANGED vars

Next ==
    \/ \E ip \in IPs : AttemptEnds(ip)
    \/ Select
    \/ \E e \in Endpoints : Bounded(e) \/ Exchange(e)
    \/ Terminated

Spec == Init /\ [][Next]_vars

(***************************************************************************)
(* What tokio guarantees: attempts and dials end (connect_timeout,         *)
(* DOH_QUERY_TIMEOUT), sleeps elapse, woken tasks are polled, and select!  *)
(* picks at random among the ready branches, so each of them is taken in   *)
(* the end.                                                                *)
(***************************************************************************)
FairSpec ==
    /\ Spec
    /\ \A ip \in IPs : /\ WF_vars(AttemptEnds(ip))
                       /\ WF_vars(TakeSuccess(ip) \/ TakeError(ip))
    /\ WF_vars(TrialDeadline) /\ WF_vars(Receive) /\ WF_vars(Else)
    /\ \A e \in Endpoints : WF_vars(Bounded(e))

\* The endpoints moreover answer, or close the connection.
AnsweringSpec == FairSpec /\ \A e \in Endpoints : WF_vars(Exchange(e))

------------------------------------------------------------------------------
(* Properties.                                                             *)

(***************************************************************************)
(* The call does what Connector promises.  What is in the channel, or still*)
(* to be sent by a resolver task, counts as known, and a task that has not *)
(* answered as a source: an error must not come before all were tried.     *)
(***************************************************************************)
Coming == ToSet(chan) \cup UNION {ToSet(task[e].out) \ {V6} : e \in Endpoints}
Known == seen \cup IF result = "none" THEN Coming ELSE {}
Asking == \E e \in Endpoints : task[e].st \notin {"send", "end"}
Failed == {ip \in IPs : att[ip] = "failed"}
Outcome == IF result \in {"none", "ok"} THEN result ELSE "error"

Call == INSTANCE Connector WITH
    Addresses <- IPs, known <- Known, asking <- Asking, bad <- Failed, outcome <- Outcome

ImplementsConnector == Call!Spec

(***************************************************************************)
(* `else` returns at once; were it ever reached before the resolver was    *)
(* started or with attempts in flight, the loop would spin without a       *)
(* single await.                                                           *)
(***************************************************************************)
NoBusyLoop == result = "none" /\ ElseEnabled => dnsStarted /\ ~dnsDone

(***************************************************************************)
(* The working-IP list holds distinct addresses, at most MaxIps of them,   *)
(* and begins with the address that connected last.                        *)
(***************************************************************************)
StoreWellFormed ==
    /\ IsInjective(store) /\ Len(store) <= MaxIps
    /\ result = "ok" => att[store[1]] = "won"

(***************************************************************************)
(* connect_stream returns, provided that endpoints do not stay silent.     *)
(***************************************************************************)
CallEnds == <>(result # "none")

(***************************************************************************)
(* No resolver task is leaked: the ones that are still sending when the    *)
(* call returns notice the closed channel and end.                         *)
(***************************************************************************)
TasksEnd == \A e \in Endpoints :
    (task[e].st # "idle") ~> (task[e].st = "end")

==============================================================================
