--------------------------- MODULE SniStreamProofs ---------------------------
(***************************************************************************)
(* Proofs about SniStream, for any addresses, endpoints, answers, capacity *)
(* of the channel, number of tries and length of the working-IP list: its  *)
(* loop never spins, record_success keeps the list well formed, a call     *)
(* implements Connector, and the call and its tasks never wait for each    *)
(* other.                                                                  *)
(***************************************************************************)
EXTENDS SniStream, SequenceTheorems, TLAPS

Tasks == [st : TaskStates, n : 1..MaxRetries, out : Seq(IPs \cup {V6})]

Types ==
    /\ result \in {"none", "ok", "no_ip", "all_failed"}
    /\ att \in [IPs -> AttStates]
    /\ seen \subseteq IPs
    /\ trial \in BOOLEAN /\ dnsStarted \in BOOLEAN /\ dnsDone \in BOOLEAN
    /\ chan \in Seq(IPs)
    /\ task \in [Endpoints -> Tasks]

\* The loop: it waits for the trial or has started the resolver, ends once it
\* has noted dns_done, and has dialled exactly the addresses in seen_ips.
LoopShape ==
    /\ ~dnsStarted => trial
    /\ dnsDone => result # "none"
    /\ \A ip \in IPs : att[ip] # "idle" => ip \in seen
    /\ result = "none" => \A ip \in seen : att[ip] # "idle"
    /\ result = "none" => \A ip \in IPs : att[ip] # "won"

\* The resolver tasks: only one that is sending has addresses, a retry is left
\* whenever one waits for it, and an error is returned after they have ended.
TaskShape ==
    /\ \A e \in Endpoints : task[e].st # "send" => task[e].out = <<>>
    /\ \A e \in Endpoints : task[e].st = "delay" => task[e].n < MaxRetries
    /\ ~dnsStarted => \A e \in Endpoints : task[e].st = "idle"
    /\ result \in {"no_ip", "all_failed"} => \A e \in Endpoints : task[e].st = "end"

StoreShape ==
    /\ store \in Seq(IPs) /\ IsInjective(store) /\ Len(store) <= MaxIps
    /\ result = "ok" => store # <<>> /\ att[store[1]] = "won"

Inv == Types /\ LoopShape /\ TaskShape /\ StoreShape

USE CapAssumption, AnswersAssumption

------------------------------------------------------------------------------
(* Sequences *)

\* The first element and the others make up a sequence.
LEMMA HeadAndTail ==
    ASSUME NEW S, NEW s \in Seq(S), s # <<>>
    PROVE  /\ Head(s) \in S /\ Tail(s) \in Seq(S)
           /\ ToSet(s) = {Head(s)} \cup ToSet(Tail(s))
<1>1. /\ Head(s) = s[1] /\ Len(s) \in Nat \ {0} /\ DOMAIN s = 1..Len(s)
      /\ Tail(s) \in Seq(S) /\ Len(Tail(s)) = Len(s) - 1
      /\ \A i \in 1..(Len(s) - 1) : Tail(s)[i] = s[i + 1]
  OBVIOUS
<1>2. DOMAIN Tail(s) = 1..(Len(s) - 1)
  BY <1>1
<1>3. \A i \in 1..Len(s) : i = 1 \/ (i - 1 \in 1..(Len(s) - 1) /\ s[i] = Tail(s)[i - 1])
  BY <1>1
<1>4. \A i \in 1..(Len(s) - 1) : i + 1 \in 1..Len(s) /\ Tail(s)[i] = s[i + 1]
  BY <1>1
<1>5. ToSet(s) \subseteq {Head(s)} \cup ToSet(Tail(s))
  <2>1. ASSUME NEW i \in DOMAIN s PROVE s[i] \in {Head(s)} \cup ToSet(Tail(s))
    <3>1. i = 1 \/ (i - 1 \in DOMAIN Tail(s) /\ s[i] = Tail(s)[i - 1])
      BY <1>1, <1>2, <1>3
    <3> QED
      BY <1>1, <3>1 DEF ToSet
  <2> QED
    BY <2>1 DEF ToSet
<1>6. {Head(s)} \cup ToSet(Tail(s)) \subseteq ToSet(s)
  <2>1. Head(s) \in ToSet(s)
    <3>1. 1 \in DOMAIN s
      BY <1>1
    <3> QED
      BY <1>1, <3>1 DEF ToSet
  <2>2. ToSet(Tail(s)) \subseteq ToSet(s)
    BY <1>1, <1>2, <1>4 DEF ToSet
  <2> QED
    BY <2>1, <2>2
<1> QED
  BY <1>1, <1>5, <1>6

\* An element is added at the end.
LEMMA Appended ==
    ASSUME NEW S, NEW s \in Seq(S), NEW x \in S
    PROVE  Append(s, x) \in Seq(S) /\ ToSet(Append(s, x)) = ToSet(s) \cup {x}
<1>1. /\ Append(s, x) \in Seq(S) /\ Len(Append(s, x)) = Len(s) + 1 /\ Len(s) \in Nat
      /\ Append(s, x)[Len(s) + 1] = x
      /\ \A i \in 1..Len(s) : Append(s, x)[i] = s[i]
  OBVIOUS
<1>2. DOMAIN Append(s, x) = 1..(Len(s) + 1) /\ DOMAIN s = 1..Len(s)
  BY <1>1
<1>3. \A i : i \in 1..(Len(s) + 1) <=> i \in 1..Len(s) \/ i = Len(s) + 1
  BY <1>1
<1> QED
  BY <1>1, <1>2, <1>3 DEF ToSet

\* A sequence of distinct elements without one of them: what RemoveFirst leaves
\* is shorter, distinct and has the element no more.
LEMMA Removed ==
    ASSUME NEW s \in Seq(IPs), IsInjective(s), NEW ip \in IPs
    PROVE  LET r == RemoveFirst(s, ip) IN
           /\ r \in Seq(IPs) /\ IsInjective(r)
           /\ \A i \in DOMAIN r : r[i] # ip
<1>1. CASE ~\E i \in 1..Len(s) : s[i] = ip
  BY <1>1 DEF RemoveFirst
<1>2. CASE \E i \in 1..Len(s) : s[i] = ip
  <2>1. PICK k \in 1..Len(s) : s[k] = ip
    BY <1>2
  <2>2. \A i \in 1..Len(s) : s[i] = ip => i = k
    BY <2>1 DEF IsInjective
  <2>3. SelectInSeq(s, LAMBDA v : v = ip) = k
    <3>1. {i \in 1..Len(s) : s[i] = ip} = {k}
      BY <2>1, <2>2
    <3>2. Min({k}) = k
      BY DEF Min
    <3> QED
      BY <3>1, <3>2 DEF SelectInSeq
  <2>4. RemoveFirst(s, ip) = SubSeq(s, 1, k - 1) \o SubSeq(s, k + 1, Len(s))
    BY <1>2, <2>3 DEF RemoveFirst, RemoveAt
  <2> DEFINE a == SubSeq(s, 1, k - 1)
             b == SubSeq(s, k + 1, Len(s))
             r == a \o b
  <2>5. /\ a \in Seq(IPs) /\ Len(a) = k - 1 /\ \A i \in 1..(k - 1) : a[i] = s[i]
        /\ b \in Seq(IPs) /\ Len(b) = Len(s) - k
        /\ \A i \in 1..(Len(s) - k) : b[i] = s[k + i]
    BY <2>1
  <2> HIDE DEF a, b
  <2>6. /\ r \in Seq(IPs) /\ Len(r) = Len(s) - 1 /\ DOMAIN r = 1..(Len(s) - 1)
        /\ \A i \in 1..(Len(s) - 1) : r[i] = IF i < k THEN s[i] ELSE s[i + 1]
    <3>1. /\ r \in Seq(IPs) /\ Len(r) = Len(a) + Len(b)
          /\ \A i \in 1..(Len(a) + Len(b)) :
               r[i] = IF i <= Len(a) THEN a[i] ELSE b[i - Len(a)]
      <4>1. a \in Seq(IPs) /\ b \in Seq(IPs)
        BY <2>5
      <4> QED
        BY <4>1, ConcatProperties, Zenon
    <3> HIDE DEF r
    <3>2. Len(a) + Len(b) = Len(s) - 1 /\ Len(s) \in Nat
      BY <2>1, <2>5
    <3>3. DOMAIN r = 1..(Len(s) - 1)
      BY <3>1, <3>2
    <3>4. ASSUME NEW i \in 1..(Len(s) - 1), i < k PROVE r[i] = s[i]
      <4>1. i <= Len(a) /\ i \in 1..(k - 1)
        BY <2>1, <2>5, <3>4
      <4> QED
        BY <2>5, <3>1, <3>2, <4>1
    <3>5. ASSUME NEW i \in 1..(Len(s) - 1), ~(i < k) PROVE r[i] = s[i + 1]
      <4>1. /\ ~(i <= Len(a)) /\ i - Len(a) \in 1..(Len(s) - k)
            /\ k + (i - Len(a)) = i + 1
        BY <2>1, <2>5, <3>2, <3>5
      <4>2. r[i] = b[i - Len(a)]
        BY <3>1, <3>2, <4>1
      <4> QED
        BY <2>5, <4>1, <4>2
    <3> QED
      BY <3>1, <3>2, <3>3, <3>4, <3>5
  <2> HIDE DEF r
  <2>7. ASSUME NEW i \in DOMAIN r PROVE r[i] # ip
    <3>1. i \in 1..(Len(s) - 1) /\ Len(s) \in Nat
      BY <2>6
    <3> QED
      BY <2>1, <2>2, <2>6, <3>1
  <2>8. ASSUME NEW i \in DOMAIN r, NEW j \in DOMAIN r, r[i] = r[j] PROVE i = j
    <3>0. DOMAIN s = 1..Len(s) /\ Len(s) \in Nat
      OBVIOUS
    <3>1. /\ i \in 1..(Len(s) - 1) /\ j \in 1..(Len(s) - 1)
          /\ \A m, n \in 1..Len(s) : s[m] = s[n] => m = n
      BY <2>6, <3>0 DEF IsInjective
    <3> DEFINE Old(n) == IF n < k THEN n ELSE n + 1
    <3>2. \A n \in 1..(Len(s) - 1) : Old(n) \in 1..Len(s) /\ r[n] = s[Old(n)]
      BY <2>1, <2>6
    <3>3. Old(i) = Old(j)
      BY <2>8, <3>1, <3>2
    <3> QED
      BY <2>1, <3>1, <3>3
  <2>9. IsInjective(r)
    BY <2>8 DEF IsInjective
  <2> QED
    BY <2>4, <2>6, <2>7, <2>9 DEF r, a, b
<1> QED
  BY <1>1, <1>2

\* record_success: the address is first, no address is there twice, and the list
\* is within its limit.
LEMMA Recorded ==
    ASSUME NEW s \in Seq(IPs), IsInjective(s), NEW ip \in IPs
    PROVE  LET r == RecordSuccess(s, ip) IN
           /\ r \in Seq(IPs) /\ IsInjective(r) /\ Len(r) <= MaxIps
           /\ r # <<>> /\ r[1] = ip
<1> DEFINE d == RemoveFirst(s, ip)
           t == <<ip>> \o d
           m == IF Len(t) < MaxIps THEN Len(t) ELSE MaxIps
           r == SubSeq(t, 1, m)
<1>1. d \in Seq(IPs) /\ IsInjective(d) /\ \A i \in DOMAIN d : d[i] # ip
  BY Removed
<1> HIDE DEF d
<1>2. /\ t \in Seq(IPs) /\ Len(t) = Len(d) + 1 /\ DOMAIN t = 1..(Len(d) + 1)
      /\ t[1] = ip /\ \A i \in 2..(Len(d) + 1) : t[i] = d[i - 1]
  BY <1>1
<1> HIDE DEF t
<1>3. /\ m \in 1..Len(t) /\ m <= MaxIps
  BY <1>1, <1>2
<1> HIDE DEF m
<1>4. /\ r \in Seq(IPs) /\ Len(r) = m /\ DOMAIN r = 1..m
      /\ \A i \in 1..m : r[i] = t[i]
  BY <1>2, <1>3
<1>5. ASSUME NEW i \in DOMAIN r, NEW j \in DOMAIN r, r[i] = r[j] PROVE i = j
  <2>1. i \in 1..m /\ j \in 1..m /\ t[i] = t[j]
    BY <1>4, <1>5
  <2>2. DOMAIN d = 1..Len(d) /\ Len(d) \in Nat
    BY <1>1
  <2>3. \A k, n \in 1..Len(d) : d[k] = d[n] => k = n
    BY <1>1, <2>2 DEF IsInjective
  <2>4. \A k \in 1..Len(d) : d[k] # ip
    BY <1>1, <2>2
  <2>5. i \in 1..(Len(d) + 1) /\ j \in 1..(Len(d) + 1)
    BY <1>2, <1>3, <2>1
  <2> QED
    BY <1>2, <2>1, <2>2, <2>3, <2>4, <2>5
<1> HIDE DEF r
<1>6. IsInjective(r)
  BY <1>5 DEF IsInjective
<1>7. r # <<>> /\ r[1] = ip
  BY <1>2, <1>3, <1>4
<1> QED
  BY <1>3, <1>4, <1>6, <1>7 DEF RecordSuccess, r, m, t, d

------------------------------------------------------------------------------
(* Steps *)

\* The records of tasks.
LEMMA TaskRecord ==
    ASSUME NEW st \in TaskStates, NEW n \in 1..MaxRetries, NEW out \in Seq(IPs \cup {V6})
    PROVE  /\ Task(st, n, out) \in Tasks
           /\ Task(st, n, out).st = st /\ Task(st, n, out).n = n
           /\ Task(st, n, out).out = out
  BY DEF Task, Tasks

LEMMA EmptyRecord ==
    ASSUME NEW st \in TaskStates, NEW n \in 1..MaxRetries
    PROVE  /\ Task(st, n, <<>>) \in Tasks
           /\ Task(st, n, <<>>).st = st /\ Task(st, n, <<>>).n = n
           /\ Task(st, n, <<>>).out = <<>>
<1>1. <<>> \in Seq(IPs \cup {V6})
  OBVIOUS
<1> QED
  BY <1>1 DEF Task, Tasks

\* A query that starts has no addresses yet.
LEMMA QueryRecord ==
    ASSUME NEW n \in 1..MaxRetries, NEW r \in Querying(n)
    PROVE  r \in Tasks /\ r.out = <<>> /\ r.st \in {"connect", "exchange"}
<1>1. PICK st \in {"connect", "exchange"} : r = Task(st, n, <<>>)
  BY DEF Querying
<1>2. st \in TaskStates
  BY DEF TaskStates
<1> QED
  BY <1>1, <1>2, EmptyRecord

LEMMA InvInit == Init => Inv
<1> SUFFICES ASSUME Init PROVE Inv
  OBVIOUS
<1>1. store \in Seq(IPs) /\ IsInjective(store) /\ Len(store) <= MaxIps
  <2>1. PICK m \in 0..MaxIps : store \in [1..m -> IPs]
    BY DEF Init, StoreLists, BoundedSeq, SeqOf
  <2>2. store \in Seq(IPs) /\ Len(store) = m
    BY <2>1
  <2> QED
    BY <2>1, <2>2 DEF Init, StoreLists
<1>2. ToSet(store) \subseteq IPs
  BY <1>1 DEF ToSet
<1>3. /\ task \in [Endpoints -> Tasks] /\ \A e \in Endpoints : task[e].out = <<>>
      /\ \A e \in Endpoints : task[e].st \in {"idle", "connect", "exchange"}
      /\ ~dnsStarted => \A e \in Endpoints : task[e].st = "idle"
  <2>1. 1 \in 1..MaxRetries /\ <<>> \in Seq(IPs \cup {V6}) /\ "idle" \in TaskStates
    BY DEF TaskStates
  <2>2. CASE store = <<>>
    <3>1. task \in [Endpoints -> Querying(1)] /\ dnsStarted
      BY <2>2 DEF Init
    <3>2. \A r \in Querying(1) :
            r \in Tasks /\ r.out = <<>> /\ r.st \in {"connect", "exchange"}
      BY <2>1, QueryRecord
    <3> QED
      BY <3>1, <3>2
  <2>3. CASE store # <<>>
    <3>1. task = [e \in Endpoints |-> Task("idle", 1, <<>>)]
      BY <2>3 DEF Init
    <3>2. /\ Task("idle", 1, <<>>) \in Tasks
          /\ Task("idle", 1, <<>>).out = <<>> /\ Task("idle", 1, <<>>).st = "idle"
      BY <2>1, EmptyRecord
    <3> QED
      BY <3>1, <3>2
  <2> QED
    BY <2>2, <2>3
<1>4. Types
  <2>1. /\ result = "none" /\ seen = ToSet(store) /\ chan = <<>>
        /\ att = [ip \in IPs |-> IF ip \in ToSet(store) THEN "run" ELSE "idle"]
        /\ trial \in BOOLEAN /\ dnsStarted \in BOOLEAN /\ dnsDone \in BOOLEAN
    BY DEF Init
  <2>2. att \in [IPs -> AttStates]
    BY <2>1 DEF AttStates
  <2>3. chan \in Seq(IPs)
    BY <2>1
  <2> QED
    BY <1>2, <1>3, <2>1, <2>2, <2>3 DEF Types
<1>5. LoopShape
  BY <1>2 DEF Init, LoopShape
<1>6. TaskShape
  BY <1>3 DEF Init, TaskShape
<1>7. StoreShape
  BY <1>1 DEF Init, StoreShape
<1> QED
  BY <1>4, <1>5, <1>6, <1>7 DEF Inv

\* A task that runs goes on to r.
LEMMA TaskInv ==
    ASSUME Inv, NEW e \in Endpoints, NEW r \in Tasks,
           task[e].st \notin {"idle", "end"},
           r.st # "send" => r.out = <<>>, r.st = "delay" => r.n < MaxRetries,
           task' = [task EXCEPT ![e] = r],
           chan' \in Seq(IPs), UNCHANGED <<store, callVars>>
    PROVE  Inv'
<1> USE DEF callVars
<1>1. task \in [Endpoints -> Tasks]
  BY DEF Inv, Types
<1>2. Types'
  BY <1>1 DEF Inv, Types
<1>3. LoopShape' /\ StoreShape'
  BY DEF Inv, LoopShape, StoreShape
<1>4. TaskShape'
  BY <1>1 DEF Inv, TaskShape
<1> QED
  BY <1>2, <1>3, <1>4 DEF Inv

\* Where a task goes, and what comes into the channel.
Goes(e, r) ==
    /\ task[e].st \notin {"idle", "end"}
    /\ r \in Tasks /\ r.st # "idle"
    /\ r.st # "send" => r.out = <<>>
    /\ r.st = "delay" => r.n < MaxRetries
    /\ task' = [task EXCEPT ![e] = r]
    /\ UNCHANGED <<store, callVars>>

\* Nothing of the answers changes hands: the task did not send and does not.
Asks(e) ==
    \E r \in Tasks : Goes(e, r) /\ task[e].st # "send" /\ r.st # "send" /\ UNCHANGED chan

\* The endpoint has answered.
Delivers(e) ==
    \E r \in Tasks :
      Goes(e, r) /\ task[e].st = "exchange" /\ r.st = "send" /\ UNCHANGED chan

\* The task passes an answer on, drops what is not wanted, or ends.
Passes(e) ==
    \E r \in Tasks :
      /\ Goes(e, r) /\ task[e].st = "send" /\ r.st \in {"send", "end"} /\ chan' \in Seq(IPs)
      /\ result = "none" =>
           ToSet(chan) \cup (ToSet(task[e].out) \ {V6})
             = ToSet(chan') \cup (ToSet(r.out) \ {V6})
      /\ result # "none" => UNCHANGED chan

\* Every step of a task is one of these.
LEMMA TaskMoves ==
    ASSUME Inv, NEW e \in Endpoints, Bounded(e) \/ Exchange(e)
    PROVE  Asks(e) \/ Delivers(e) \/ Passes(e)
<1> DEFINE cur == task[e]
<1>1. /\ cur \in Tasks /\ cur.st \in TaskStates /\ cur.n \in 1..MaxRetries
      /\ cur.out \in Seq(IPs \cup {V6}) /\ <<>> \in Seq(IPs \cup {V6})
      /\ task \in [Endpoints -> Tasks]
  BY DEF Inv, Types, Tasks
<1>2. {"connect", "exchange", "delay", "send", "end"} \subseteq TaskStates
  BY DEF TaskStates
<1>3. /\ Unanswered(e) \in Tasks /\ Unanswered(e).out = <<>>
      /\ Unanswered(e).st \in {"delay", "end"}
      /\ Unanswered(e).st = "delay" => Unanswered(e).n < MaxRetries
  <2>1. \A st \in {"delay", "end"} :
          /\ Task(st, cur.n, <<>>) \in Tasks /\ Task(st, cur.n, <<>>).st = st
          /\ Task(st, cur.n, <<>>).n = cur.n /\ Task(st, cur.n, <<>>).out = <<>>
    BY <1>1, <1>2, EmptyRecord
  <2> QED
    BY <1>1, <2>1 DEF Unanswered
<1>4. CASE EndpointConnect(e)
  <2>1. task' = [task EXCEPT ![e] = Task("exchange", cur.n, <<>>)]
    BY <1>4 DEF EndpointConnect
  <2>2. /\ Task("exchange", cur.n, <<>>) \in Tasks
        /\ Task("exchange", cur.n, <<>>).st = "exchange"
        /\ Task("exchange", cur.n, <<>>).out = <<>>
    BY <1>1, <1>2, EmptyRecord
  <2>3. Asks(e)
    BY <1>4, <2>1, <2>2 DEF EndpointConnect, Asks, Goes
  <2> QED
    BY <2>3
<1>5. CASE EndpointConnectFails(e) \/ NotAnswered(e)
  <2>1. Asks(e)
    BY <1>3, <1>5 DEF EndpointConnectFails, NotAnswered, Asks, Goes
  <2> QED
    BY <2>1
<1>6. CASE Answered(e)
  <2>1. PICK ans \in Answers : task' = [task EXCEPT ![e] = Task("send", cur.n, ans)]
    BY <1>6 DEF Answered
  <2>2. ans \in Seq(IPs \cup {V6})
    OBVIOUS
  <2>3. Task("send", cur.n, ans) \in Tasks /\ Task("send", cur.n, ans).st = "send"
    BY <1>1, <1>2, <2>2, TaskRecord
  <2>4. Delivers(e)
    BY <1>6, <2>1, <2>3 DEF Answered, Delivers, Goes
  <2> QED
    BY <2>4
<1>7. CASE RetryDelay(e)
  <2>1. PICK r \in Querying(cur.n + 1) : task' = [task EXCEPT ![e] = r]
    BY <1>7 DEF RetryDelay
  <2>2. cur.n + 1 \in 1..MaxRetries
    BY <1>1, <1>7 DEF RetryDelay, Inv, TaskShape
  <2>3. Asks(e)
    BY <1>7, <2>1, <2>2, QueryRecord DEF RetryDelay, Asks, Goes
  <2> QED
    BY <2>3
<1>8. ASSUME cur.st = "send", cur.out # <<>>
      PROVE  /\ [cur EXCEPT !.out = Tail(@)] \in Tasks
             /\ [cur EXCEPT !.out = Tail(@)].st = "send"
             /\ [cur EXCEPT !.out = Tail(@)].out = Tail(cur.out)
             /\ Head(cur.out) \in IPs \cup {V6}
             /\ ToSet(cur.out) = {Head(cur.out)} \cup ToSet(Tail(cur.out))
  <2>1. /\ Tail(cur.out) \in Seq(IPs \cup {V6}) /\ Head(cur.out) \in IPs \cup {V6}
        /\ ToSet(cur.out) = {Head(cur.out)} \cup ToSet(Tail(cur.out))
    BY <1>1, <1>8, HeadAndTail
  <2> QED
    BY <1>1, <1>8, <2>1 DEF Tasks
<1>9. CASE SkipAddress(e)
  <2> DEFINE r == [cur EXCEPT !.out = Tail(@)]
  <2>1. task' = [task EXCEPT ![e] = r] /\ Head(cur.out) = V6 /\ cur.st = "send"
        /\ cur.out # <<>> /\ UNCHANGED <<store, callVars, chan>>
    BY <1>9 DEF SkipAddress
  <2>2. r \in Tasks /\ r.st = "send" /\ r.out = Tail(cur.out)
        /\ ToSet(cur.out) \ {V6} = ToSet(r.out) \ {V6}
    BY <1>8, <2>1
  <2>3. chan' \in Seq(IPs)
    BY <2>1 DEF Inv, Types
  <2> HIDE DEF r
  <2>4. Passes(e)
    BY <2>1, <2>2, <2>3 DEF Passes, Goes
  <2> QED
    BY <2>4
<1>10. CASE SendAddress(e)
  <2>1. /\ cur.st = "send" /\ cur.out # <<>> /\ Head(cur.out) # V6
        /\ UNCHANGED <<store, callVars>>
    BY <1>10 DEF SendAddress
  <2>2. CASE /\ result # "none" /\ UNCHANGED chan
             /\ task' = [task EXCEPT ![e] = Task("end", cur.n, <<>>)]
    <3>1. chan' \in Seq(IPs)
      BY <2>2 DEF Inv, Types
    <3>2. /\ Task("end", cur.n, <<>>) \in Tasks /\ Task("end", cur.n, <<>>).st = "end"
          /\ Task("end", cur.n, <<>>).out = <<>>
      BY <1>1, <1>2, EmptyRecord
    <3>3. Passes(e)
      BY <2>1, <2>2, <3>1, <3>2 DEF Passes, Goes
    <3> QED
      BY <3>3
  <2>3. CASE /\ result = "none" /\ chan' = Append(chan, Head(cur.out))
             /\ task' = [task EXCEPT ![e] = [cur EXCEPT !.out = Tail(@)]]
    <3> DEFINE r == [cur EXCEPT !.out = Tail(@)]
    <3>1. /\ r \in Tasks /\ r.st = "send" /\ r.out = Tail(cur.out)
          /\ Head(cur.out) \in IPs
          /\ ToSet(cur.out) = {Head(cur.out)} \cup ToSet(r.out)
      BY <1>8, <2>1
    <3>2. chan' \in Seq(IPs) /\ ToSet(chan') = ToSet(chan) \cup {Head(cur.out)}
      BY <2>3, <3>1, Appended DEF Inv, Types
    <3> HIDE DEF r
    <3>3. ToSet(chan) \cup (ToSet(cur.out) \ {V6}) = ToSet(chan') \cup (ToSet(r.out) \ {V6})
      BY <3>1, <3>2
    <3>4. task' = [task EXCEPT ![e] = r]
      BY <2>3 DEF r
    <3>5. Passes(e)
      BY <2>1, <2>3, <3>1, <3>2, <3>3, <3>4 DEF Passes, Goes
    <3> QED
      BY <3>5
  <2> QED
    BY <1>10, <2>2, <2>3 DEF SendAddress
<1>11. CASE TaskReturns(e)
  <2> DEFINE r == [cur EXCEPT !.st = "end"]
  <2>1. task' = [task EXCEPT ![e] = r] /\ cur.st = "send" /\ cur.out = <<>>
        /\ UNCHANGED <<store, callVars, chan>>
    BY <1>11 DEF TaskReturns
  <2>2. r \in Tasks /\ r.st = "end" /\ r.out = <<>>
    BY <1>1, <1>2, <2>1 DEF Tasks
  <2>3. chan' \in Seq(IPs)
    BY <2>1 DEF Inv, Types
  <2> HIDE DEF r
  <2>4. Passes(e)
    BY <2>1, <2>2, <2>3 DEF Passes, Goes
  <2> QED
    BY <2>4
<1> QED
  BY <1>4, <1>5, <1>6, <1>7, <1>9, <1>10, <1>11 DEF Bounded, Exchange

------------------------------------------------------------------------------
(* The invariant *)

\* The steps of the loop and the attempts.
LEMMA AttemptInv ==
    ASSUME Inv, NEW ip \in IPs, AttemptEnds(ip)
    PROVE  Inv'
<1>1. PICK r \in {"ok", "err"} : att' = [att EXCEPT ![ip] = r]
  BY DEF AttemptEnds
<1>2. /\ result = "none" /\ att[ip] = "run" /\ att \in [IPs -> AttStates]
      /\ UNCHANGED <<store, result, seen, trial, dnsStarted, dnsDone, chan, task>>
  BY DEF AttemptEnds, Inv, Types
<1>3. Types'
  BY <1>1, <1>2 DEF Inv, Types, AttStates
<1>4. LoopShape'
  BY <1>1, <1>2 DEF Inv, LoopShape
<1>5. TaskShape' /\ StoreShape'
  BY <1>2 DEF Inv, TaskShape, StoreShape
<1> QED
  BY <1>3, <1>4, <1>5 DEF Inv

LEMMA TakeSuccessInv ==
    ASSUME Inv, NEW ip \in IPs, TakeSuccess(ip)
    PROVE  Inv'
<1>1. /\ result = "none" /\ att[ip] = "ok" /\ att \in [IPs -> AttStates]
      /\ result' = "ok" /\ chan' = <<>> /\ store' = RecordSuccess(store, ip)
      /\ att' = [j \in IPs |-> IF j = ip THEN "won"
                               ELSE IF j \in Pending THEN "idle" ELSE att[j]]
      /\ UNCHANGED <<seen, trial, dnsStarted, dnsDone, task>>
  BY DEF TakeSuccess, Return, Inv, Types
<1>2. /\ store' \in Seq(IPs) /\ IsInjective(store') /\ Len(store') <= MaxIps
      /\ store' # <<>> /\ store'[1] = ip
  BY <1>1, Recorded DEF Inv, StoreShape
<1>3. att' \in [IPs -> AttStates] /\ chan' \in Seq(IPs)
  BY <1>1 DEF AttStates
<1>4. Types'
  BY <1>1, <1>3 DEF Inv, Types
<1>5. LoopShape'
  BY <1>1 DEF Inv, LoopShape, Pending
<1>6. TaskShape'
  BY <1>1 DEF Inv, TaskShape
<1>7. StoreShape'
  BY <1>1, <1>2 DEF StoreShape
<1> QED
  BY <1>4, <1>5, <1>6, <1>7 DEF Inv

\* The loop has ended before dns_done is set, so an error is never the last.
LEMMA TakeErrorInv ==
    ASSUME Inv, NEW ip \in IPs, TakeError(ip)
    PROVE  Inv' /\ UNCHANGED <<result, chan>>
<1>1. /\ result = "none" /\ att[ip] = "err" /\ att \in [IPs -> AttStates]
      /\ att' = [att EXCEPT ![ip] = "failed"] /\ ~dnsDone
      /\ UNCHANGED <<store, result, seen, trial, dnsStarted, dnsDone, chan, task>>
  BY DEF TakeError, Inv, Types, LoopShape
<1>2. Types'
  BY <1>1 DEF Inv, Types, AttStates
<1>3. LoopShape'
  BY <1>1 DEF Inv, LoopShape
<1>4. TaskShape' /\ StoreShape'
  BY <1>1 DEF Inv, TaskShape, StoreShape
<1> QED
  BY <1>1, <1>2, <1>3, <1>4 DEF Inv

LEMMA TrialDeadlineInv ==
    ASSUME Inv, TrialDeadline
    PROVE  /\ Inv'
           /\ \A e \in Endpoints :
                task'[e].out = <<>> /\ task'[e].st \in {"connect", "exchange"}
<1>1. /\ result = "none" /\ dnsStarted' = TRUE
      /\ task' \in [Endpoints -> Querying(1)]
      /\ UNCHANGED <<store, result, att, seen, trial, dnsDone, chan>>
  BY DEF TrialDeadline
<1>2. \A r \in Querying(1) : r \in Tasks /\ r.out = <<>> /\ r.st \in {"connect", "exchange"}
  <2>1. 1 \in 1..MaxRetries
    OBVIOUS
  <2> QED
    BY <2>1, QueryRecord
<1>3. /\ task' \in [Endpoints -> Tasks]
      /\ \A e \in Endpoints :
           task'[e].out = <<>> /\ task'[e].st \in {"connect", "exchange"}
  BY <1>1, <1>2
<1>4. Types'
  BY <1>1, <1>3 DEF Inv, Types
<1>5. LoopShape' /\ StoreShape'
  BY <1>1 DEF Inv, LoopShape, StoreShape
<1>6. TaskShape'
  BY <1>1, <1>3 DEF TaskShape
<1> QED
  BY <1>3, <1>4, <1>5, <1>6 DEF Inv

LEMMA ReceiveInv ==
    ASSUME Inv, Receive
    PROVE  Inv'
<1>1. /\ result = "none" /\ att \in [IPs -> AttStates] /\ chan \in Seq(IPs) /\ chan # <<>>
      /\ chan' = Tail(chan) /\ seen' = seen \cup {Head(chan)} /\ seen \subseteq IPs
      /\ att' = IF Head(chan) \in seen THEN att
                                       ELSE [att EXCEPT ![Head(chan)] = "run"]
      /\ UNCHANGED <<store, result, trial, dnsStarted, dnsDone, task>>
  BY DEF Receive, Inv, Types
<1>2. Head(chan) \in IPs /\ Tail(chan) \in Seq(IPs)
  BY <1>1, HeadAndTail
<1>3. Types'
  BY <1>1, <1>2 DEF Inv, Types, AttStates
<1>4. LoopShape'
  BY <1>1, <1>2 DEF Inv, LoopShape
<1>5. TaskShape' /\ StoreShape'
  BY <1>1 DEF Inv, TaskShape, StoreShape
<1> QED
  BY <1>3, <1>4, <1>5 DEF Inv

\* Nothing of the select! is left: the trial is over, every task has ended.
LEMMA ElseMeans ==
    ASSUME Inv, result = "none", ElseEnabled
    PROVE  dnsStarted /\ ~dnsDone /\ Pending = {} /\ Closed
  BY DEF Inv, LoopShape, ElseEnabled, TrialBranch

LEMMA ElseInv ==
    ASSUME Inv, Else
    PROVE  Inv'
<1>1. dnsStarted /\ ~dnsDone /\ Closed /\ result = "none"
  BY ElseMeans DEF Else
<1>2. /\ result' = "no_ip" /\ chan' = <<>> /\ dnsDone' = TRUE
      /\ UNCHANGED <<store, att, seen, trial, dnsStarted, task>>
  BY <1>1 DEF Else, Return
<1>3. chan' \in Seq(IPs)
  BY <1>2
<1>4. Types'
  BY <1>2, <1>3 DEF Inv, Types
<1>5. LoopShape' /\ StoreShape'
  BY <1>1, <1>2 DEF Inv, LoopShape, StoreShape
<1>6. TaskShape'
  BY <1>1, <1>2 DEF Inv, TaskShape, Closed
<1> QED
  BY <1>4, <1>5, <1>6 DEF Inv

LEMMA StutterInv ==
    ASSUME Inv, UNCHANGED vars
    PROVE  Inv'
  BY DEF Inv, Types, LoopShape, TaskShape, StoreShape, vars, callVars

LEMMA InvStep == Inv /\ [Next]_vars => Inv'
<1> SUFFICES ASSUME Inv, [Next]_vars PROVE Inv'
  OBVIOUS
<1>1. CASE \E ip \in IPs : AttemptEnds(ip)
  BY <1>1, AttemptInv
<1>2. CASE Select
  BY <1>2, TakeSuccessInv, TakeErrorInv, TrialDeadlineInv, ReceiveInv, ElseInv DEF Select
<1>3. ASSUME NEW e \in Endpoints, Bounded(e) \/ Exchange(e) PROVE Inv'
  <2>1. PICK r \in Tasks : Goes(e, r) /\ chan' \in Seq(IPs)
    <3>1. Asks(e) \/ Delivers(e) \/ Passes(e)
      BY <1>3, TaskMoves
    <3>2. chan \in Seq(IPs)
      BY DEF Inv, Types
    <3> QED
      BY <3>1, <3>2 DEF Asks, Delivers, Passes
  <2> QED
    BY <2>1, TaskInv DEF Goes
<1>4. CASE Terminated \/ UNCHANGED vars
  BY <1>4, StutterInv DEF Terminated
<1> QED
  BY <1>1, <1>2, <1>3, <1>4 DEF Next

\* Every state of a call, its tasks and its store satisfies the invariant.
THEOREM InvariantHolds == Spec => []Inv
<1> QED
  BY InvInit, InvStep, PTL DEF Spec

(***************************************************************************)
(* The loop of connect_stream never spins: `else` of its select! runs only *)
(* after the resolver was started and before dns_done, when it returns.    *)
(***************************************************************************)
THEOREM LoopNeverSpins == Spec => []NoBusyLoop
<1>1. Inv => NoBusyLoop
  BY ElseMeans DEF NoBusyLoop
<1> QED
  BY <1>1, InvariantHolds, PTL

(***************************************************************************)
(* The list of a domain in the WorkingIpStore keeps distinct addresses     *)
(* within MAX_IPS_PER_DOMAIN, whatever record_success is called with, and  *)
(* begins with the address that connected.                                 *)
(***************************************************************************)
THEOREM StoreStaysWellFormed == Spec => []StoreWellFormed
<1>1. Inv => StoreWellFormed
  BY DEF Inv, StoreShape, StoreWellFormed
<1> QED
  BY <1>1, InvariantHolds, PTL

------------------------------------------------------------------------------
(* Refinement: a call implements Connector. *)

\* All that the tasks but e have still to send.
Rest(e) == UNION {ToSet(task[f].out) \ {V6} : f \in Endpoints \ {e}}

\* What is in the channel, and what a task has still to send, is addresses.
LEMMA KnownAreIPs == (Types => Known \subseteq IPs) /\ (Types' => Known' \subseteq IPs)
<1>0. /\ \A c \in Seq(IPs) : ToSet(c) \subseteq IPs
      /\ \A r \in Tasks : ToSet(r.out) \ {V6} \subseteq IPs
  <2>1. ASSUME NEW r \in Tasks PROVE r.out \in Seq(IPs \cup {V6})
    BY DEF Tasks
  <2> QED
    BY <2>1 DEF ToSet
<1>1. ASSUME Types PROVE Known \subseteq IPs
  <2>1. /\ seen \subseteq IPs /\ ToSet(chan) \subseteq IPs
        /\ \A e \in Endpoints : ToSet(task[e].out) \ {V6} \subseteq IPs
    <3>1. seen \subseteq IPs /\ chan \in Seq(IPs) /\ task \in [Endpoints -> Tasks]
      BY <1>1 DEF Types
    <3>2. \A e \in Endpoints : task[e] \in Tasks
      BY <3>1
    <3> QED
      BY <3>1, <3>2, <1>0
  <2> QED
    BY <2>1 DEF Known, Coming
<1>2. ASSUME Types' PROVE Known' \subseteq IPs
  <2>1. /\ seen' \subseteq IPs /\ ToSet(chan') \subseteq IPs
        /\ \A e \in Endpoints : ToSet(task'[e].out) \ {V6} \subseteq IPs
    <3>1. seen' \subseteq IPs /\ chan' \in Seq(IPs) /\ task' \in [Endpoints -> Tasks]
      BY <1>2 DEF Types
    <3>2. \A e \in Endpoints : task'[e] \in Tasks
      BY <3>1
    <3> QED
      BY <3>1, <3>2, <1>0
  <2> QED
    BY <2>1 DEF Known, Coming
<1> QED
  BY <1>1, <1>2

\* What is coming, told apart into the task that moves and the others.
LEMMA ComingApart ==
    ASSUME Inv, NEW e \in Endpoints, NEW r \in Tasks, Goes(e, r)
    PROVE  /\ Coming = ToSet(chan) \cup (ToSet(task[e].out) \ {V6}) \cup Rest(e)
           /\ Coming' = ToSet(chan') \cup (ToSet(r.out) \ {V6}) \cup Rest(e)
<1>1. /\ task \in [Endpoints -> Tasks] /\ task' = [task EXCEPT ![e] = r]
  BY DEF Inv, Types, Goes
<1>2. task'[e] = r /\ \A f \in Endpoints \ {e} : task'[f] = task[f]
  BY <1>1
<1>3. Coming = ToSet(chan) \cup (ToSet(task[e].out) \ {V6}) \cup Rest(e)
  BY DEF Coming, Rest
<1>4. UNION {ToSet(task'[f].out) \ {V6} : f \in Endpoints}
        = (ToSet(r.out) \ {V6}) \cup Rest(e)
  BY <1>2 DEF Rest
<1> QED
  BY <1>3, <1>4 DEF Coming

\* The steps of a task: a source answers, or lapses when the call has returned.
LEMMA TaskRefines ==
    ASSUME Inv, Inv', NEW e \in Endpoints, Bounded(e) \/ Exchange(e)
    PROVE  [Call!Next]_Call!vars
<1>1. PICK r \in Tasks :
        /\ Goes(e, r)
        /\ \/ task[e].st # "send" /\ r.st # "send" /\ UNCHANGED chan
           \/ task[e].st = "exchange" /\ r.st = "send" /\ UNCHANGED chan
           \/ /\ task[e].st = "send" /\ r.st \in {"send", "end"}
              /\ result = "none" =>
                   ToSet(chan) \cup (ToSet(task[e].out) \ {V6})
                     = ToSet(chan') \cup (ToSet(r.out) \ {V6})
  BY TaskMoves DEF Asks, Delivers, Passes
<1>2. /\ UNCHANGED <<seen, att, result>> /\ UNCHANGED <<Failed, Outcome>>
      /\ task \in [Endpoints -> Tasks] /\ task' = [task EXCEPT ![e] = r]
      /\ task[e].st \notin {"idle", "end"}
      /\ r.st # "send" => r.out = <<>>
  BY <1>1 DEF Goes, callVars, Failed, Outcome, Inv, Types
<1>3. result \in {"none", "ok"} /\ Outcome = result
  BY <1>2 DEF Inv, TaskShape, Types, Outcome
<1>4. Known' \subseteq IPs /\ Asking' \in BOOLEAN
  BY KnownAreIPs DEF Inv, Asking
<1>5. ToSet(<<>>) = {}
  BY DEF ToSet
<1>6. CASE task[e].st # "send"
  <2>1. Asking /\ task[e].out = <<>> /\ UNCHANGED chan
    BY <1>1, <1>2, <1>6 DEF Asking, Inv, TaskShape
  <2>2. CASE result = "none"
    <3>1. Known \subseteq Known'
      BY <1>1, <1>2, <1>5, <2>1, <2>2, ComingApart DEF Known
    <3> QED
      BY <1>2, <1>3, <1>4, <2>1, <2>2, <3>1 DEF Call!Next, Call!Learn
  <2>3. CASE result = "ok"
    <3>1. Known' = Known
      BY <1>2, <2>3 DEF Known
    <3> QED
      BY <1>2, <1>3, <1>4, <2>1, <2>3, <3>1 DEF Call!Next, Call!Lapse, Call!vars
  <2> QED
    BY <1>3, <2>2, <2>3
<1>7. CASE task[e].st = "send"
  <2>1. r.st \in {"send", "end"}
    BY <1>1, <1>7
  <2>2. Asking' = Asking
    BY <1>2, <1>7, <2>1 DEF Asking
  <2>3. Known' = Known
    <3>1. CASE result = "none"
      <4>1. Coming' = Coming
        BY <1>1, <1>7, <3>1, ComingApart
      <4> QED
        BY <1>2, <4>1 DEF Known
    <3>2. CASE result = "ok"
      BY <1>2, <3>2 DEF Known
    <3> QED
      BY <1>3, <3>1, <3>2
  <2> QED
    BY <1>2, <2>2, <2>3 DEF Call!vars
<1> QED
  BY <1>6, <1>7

\* An attempt ends: nothing was seen of it yet.
LEMMA AttemptRefines ==
    ASSUME Inv, NEW ip \in IPs, AttemptEnds(ip)
    PROVE  [Call!Next]_Call!vars
<1>1. /\ att \in [IPs -> AttStates] /\ att[ip] = "run"
      /\ \E r \in {"ok", "err"} : att' = [att EXCEPT ![ip] = r]
      /\ UNCHANGED <<seen, result, chan, task>>
  BY DEF AttemptEnds, Inv, Types
<1>2. Failed' = Failed
  BY <1>1 DEF Failed
<1>3. UNCHANGED <<Known, Asking, Outcome>>
  BY <1>1 DEF Known, Coming, Asking, Outcome
<1> QED
  BY <1>2, <1>3 DEF Call!vars

\* A stream is returned: its address is known and has not failed.
LEMMA TakeSuccessRefines ==
    ASSUME Inv, NEW ip \in IPs, TakeSuccess(ip)
    PROVE  [Call!Next]_Call!vars
<1>1. /\ result = "none" /\ att[ip] = "ok" /\ result' = "ok"
      /\ att' = [j \in IPs |-> IF j = ip THEN "won"
                               ELSE IF j \in Pending THEN "idle" ELSE att[j]]
      /\ UNCHANGED <<seen, task>>
  BY DEF TakeSuccess, Return
<1>2. Failed' = Failed
  BY <1>1 DEF Failed, Pending
<1>3. ip \in Known \ Failed
  BY <1>1 DEF Known, Failed, Inv, LoopShape
<1>4. Known' \subseteq Known /\ Asking' = Asking
  BY <1>1 DEF Known, Asking
<1>5. Outcome = "none" /\ Outcome' = "ok"
  BY <1>1 DEF Outcome
<1> QED
  BY <1>2, <1>3, <1>4, <1>5 DEF Call!Next, Call!Succeed

\* An error is seen: the attempt's address, which is known, has failed.
LEMMA TakeErrorRefines ==
    ASSUME Inv, NEW ip \in IPs, TakeError(ip)
    PROVE  [Call!Next]_Call!vars
<1>1. /\ result = "none" /\ att \in [IPs -> AttStates] /\ att[ip] = "err"
      /\ att' = [att EXCEPT ![ip] = "failed"]
      /\ UNCHANGED <<seen, result, chan, task>>
  BY TakeErrorInv DEF TakeError, Inv, Types
<1>2. Failed' = Failed \cup {ip}
  BY <1>1 DEF Failed
<1>3. UNCHANGED <<Known, Asking, Outcome>> /\ Outcome = "none"
  BY <1>1 DEF Known, Coming, Asking, Outcome
<1>4. ip \in Known
  BY <1>1 DEF Known, Inv, LoopShape
<1> QED
  BY <1>2, <1>3, <1>4 DEF Call!Next, Call!Reject, Call!MayReturn

\* The trial is over: the tasks that were to be started are.
LEMMA TrialDeadlineRefines ==
    ASSUME Inv, TrialDeadline
    PROVE  [Call!Next]_Call!vars
<1>1. \A e \in Endpoints : task[e].st = "idle" /\ task[e].out = <<>>
  BY DEF TrialDeadline, TrialBranch, Inv, TaskShape
<1>2. \A e \in Endpoints : task'[e].out = <<>> /\ task'[e].st \in {"connect", "exchange"}
  BY TrialDeadlineInv
<1>3. UNCHANGED <<seen, result, chan, att>>
  BY DEF TrialDeadline
<1>4. Asking' = Asking
  BY <1>1, <1>2 DEF Asking
<1>5. Coming' = Coming
  BY <1>1, <1>2, <1>3 DEF Coming
<1>6. UNCHANGED <<Known, Failed, Outcome>>
  BY <1>3, <1>5 DEF Known, Failed, Outcome
<1> QED
  BY <1>4, <1>6 DEF Call!vars

\* An address is taken out of the channel into seen_ips: it was known.
LEMMA ReceiveRefines ==
    ASSUME Inv, Receive
    PROVE  [Call!Next]_Call!vars
<1>1. /\ result = "none" /\ att \in [IPs -> AttStates] /\ chan \in Seq(IPs) /\ chan # <<>>
      /\ chan' = Tail(chan) /\ seen' = seen \cup {Head(chan)}
      /\ att' = IF Head(chan) \in seen THEN att
                                       ELSE [att EXCEPT ![Head(chan)] = "run"]
      /\ UNCHANGED <<result, task>>
  BY DEF Receive, Inv, Types
<1>2. Head(chan) \in IPs /\ ToSet(chan) = {Head(chan)} \cup ToSet(Tail(chan))
  BY <1>1, HeadAndTail
<1>3. Known' = Known
  <2>1. seen' \cup ToSet(chan') = seen \cup ToSet(chan)
    BY <1>1, <1>2
  <2> QED
    BY <1>1, <2>1 DEF Known, Coming
<1>4. Failed' = Failed
  BY <1>1, <1>2 DEF Failed, Inv, LoopShape
<1>5. UNCHANGED <<Asking, Outcome>>
  BY <1>1 DEF Asking, Outcome
<1> QED
  BY <1>3, <1>4, <1>5 DEF Call!vars

\* `else`: the tasks have ended, the channel is empty, and every address in
\* seen_ips was dialled and is not in flight any more.
LEMMA ElseRefines ==
    ASSUME Inv, Else
    PROVE  [Call!Next]_Call!vars
<1>1. dnsStarted /\ Pending = {} /\ Closed /\ result = "none"
  BY ElseMeans DEF Else
<1>2. result' = "no_ip" /\ chan' = <<>> /\ UNCHANGED <<att, seen, task>>
  BY <1>1 DEF Else, Return
<1>3. ~Asking /\ Asking' = Asking
  BY <1>1, <1>2 DEF Asking, Closed
<1>4. Coming = {}
  <2>1. ToSet(<<>>) = {}
    BY DEF ToSet
  <2>2. \A e \in Endpoints : task[e].out = <<>>
    BY <1>1 DEF Closed, Inv, TaskShape
  <2> QED
    BY <1>1, <2>1, <2>2 DEF Closed, Coming
<1>5. Known = seen /\ Known' = seen
  BY <1>1, <1>2, <1>4 DEF Known
<1>6. ASSUME NEW ip \in seen PROVE att[ip] = "failed"
  <2>1. ip \in IPs /\ att[ip] \in AttStates
    BY DEF Inv, Types
  <2>2. att[ip] \notin {"idle", "won"}
    BY <1>1, <2>1 DEF Inv, LoopShape
  <2> QED
    BY <1>1, <2>1, <2>2 DEF Pending, AttStates
<1>7. seen \subseteq Failed /\ Failed' = Failed
  BY <1>2, <1>6 DEF Failed, Inv, Types
<1>8. Outcome = "none" /\ Outcome' = "error"
  BY <1>1, <1>2 DEF Outcome
<1> QED
  BY <1>3, <1>5, <1>7, <1>8 DEF Call!Next, Call!GiveUp, Call!MayReturn

LEMMA RefineStep ==
    ASSUME Inv, [Next]_vars
    PROVE  [Call!Next]_Call!vars
<1>1. Inv'
  BY InvStep
<1>2. CASE \E ip \in IPs : AttemptEnds(ip)
  BY <1>2, AttemptRefines
<1>3. CASE Select
  BY <1>3, TakeSuccessRefines, TakeErrorRefines, TrialDeadlineRefines, ReceiveRefines,
     ElseRefines DEF Select
<1>4. ASSUME NEW e \in Endpoints, Bounded(e) \/ Exchange(e) PROVE [Call!Next]_Call!vars
  BY <1>1, <1>4, TaskRefines
<1>5. CASE Terminated \/ UNCHANGED vars
  <2>1. UNCHANGED <<seen, result, chan, att, task>>
    BY <1>5 DEF Terminated, vars, callVars
  <2>2. UNCHANGED <<Known, Asking, Failed, Outcome>>
    BY <2>1 DEF Known, Coming, Asking, Failed, Outcome
  <2> QED
    BY <2>2 DEF Call!vars
<1> QED
  BY <1>2, <1>3, <1>4, <1>5 DEF Next

(***************************************************************************)
(* connect_stream does what Connector promises, for any addresses,         *)
(* endpoints and answers: it returns an error only when every resolver     *)
(* task has ended and every address they sent, and every working IP, has   *)
(* been dialled and has failed.                                            *)
(***************************************************************************)
THEOREM StreamImplementsConnector == Spec => ImplementsConnector
<1>1. Init => Call!Init
  <2> SUFFICES ASSUME Init PROVE Call!Init
    OBVIOUS
  <2>1. Known \subseteq IPs
    BY InvInit, KnownAreIPs DEF Inv
  <2>2. Failed = {} /\ Outcome = "none" /\ Asking \in BOOLEAN
    BY DEF Init, Failed, Outcome, Asking
  <2> QED
    BY <2>1, <2>2 DEF Call!Init
<1>2. Inv /\ [Next]_vars => [Call!Next]_Call!vars
  BY RefineStep
<1> QED
  BY <1>1, <1>2, InvariantHolds, PTL DEF Spec, ImplementsConnector, Call!Spec

------------------------------------------------------------------------------
(* Nobody waits on everybody                                               *)

\* A task of the resolver that can go on: it waits for its endpoint or its
\* delay, has nothing to send, or has room in the channel.
TaskGoesOn(e) ==
    \/ task[e].st \in {"connect", "exchange", "delay"}
    \/ task[e].st = "send" /\ (\/ task[e].out = <<>>
                               \/ Head(task[e].out) = V6
                               \/ result # "none"
                               \/ Len(chan) < ChanCap)

\* The select! has something to do: an attempt is under way or has ended, the
\* trial is on, an address can be received, or `else` returns.
LoopGoesOn ==
    \/ Pending # {}
    \/ TrialBranch
    \/ dnsStarted /\ ~dnsDone /\ chan # <<>>
    \/ dnsStarted /\ ElseEnabled

\* As long as the call has not returned, it or a task of its resolver can go on,
\* and afterwards every task that has not ended can.
NeverStuck ==
    /\ result = "none" => LoopGoesOn \/ \E e \in Endpoints : TaskGoesOn(e)
    /\ result # "none" => \A e \in Endpoints : task[e].st \in {"idle", "end"} \/ TaskGoesOn(e)

\* resolve_stream starts a task for every endpoint.
AllStarted == dnsStarted => \A e \in Endpoints : task[e].st # "idle"

LEMMA StartedInit == Init => AllStarted
<1> SUFFICES ASSUME Init, dnsStarted, NEW e \in Endpoints PROVE task[e].st # "idle"
  BY DEF AllStarted
<1>1. dnsStarted = (store = <<>>) /\ (store = <<>> => task \in [Endpoints -> Querying(1)])
  BY DEF Init
<1>2. task \in [Endpoints -> Querying(1)]
  BY <1>1, Zenon
<1>3. task[e] \in Querying(1) /\ 1 \in 1..MaxRetries
  BY <1>2
<1>4. task[e].st \in {"connect", "exchange"}
  BY <1>3, QueryRecord
<1> QED
  BY <1>4

LEMMA StartedStep == Inv /\ AllStarted /\ [Next]_vars => AllStarted'
<1> SUFFICES ASSUME Inv, AllStarted, [Next]_vars PROVE AllStarted'
  OBVIOUS
<1>1. CASE UNCHANGED <<dnsStarted, task>>
  BY <1>1 DEF AllStarted
<1>2. CASE TrialDeadline
  BY <1>2, TrialDeadlineInv DEF AllStarted
<1>3. ASSUME NEW e \in Endpoints, Bounded(e) \/ Exchange(e) PROVE AllStarted'
  <2>1. PICK r \in Tasks : Goes(e, r)
    BY <1>3, TaskMoves DEF Asks, Delivers, Passes
  <2>2. task \in [Endpoints -> Tasks]
    BY DEF Inv, Types
  <2> QED
    BY <2>1, <2>2 DEF Goes, AllStarted, callVars
<1> QED
  BY <1>1, <1>2, <1>3 DEF Next, Select, AttemptEnds, TakeSuccess, TakeError, Receive, Else,
                          Terminated, vars, callVars

(***************************************************************************)
(* The call and its resolver tasks never wait for each other: a task that  *)
(* waits for room in the channel leaves the loop something to receive, the *)
(* loop waits for an address only while a task may still send one, and no  *)
(* task outlives the call in a send.                                       *)
(***************************************************************************)
THEOREM StreamNeverStuck == Spec => []NeverStuck
<1>1. Inv /\ AllStarted => NeverStuck
  <2> SUFFICES ASSUME Inv, AllStarted PROVE NeverStuck
    OBVIOUS
  <2>1. \A e \in Endpoints : task[e].st \in TaskStates
    BY DEF Inv, Types, Tasks
  <2>2. ASSUME result # "none", NEW e \in Endpoints
        PROVE  task[e].st \in {"idle", "end"} \/ TaskGoesOn(e)
    BY <2>1, <2>2 DEF TaskStates, TaskGoesOn
  <2>3. ASSUME result = "none", ~LoopGoesOn PROVE \E e \in Endpoints : TaskGoesOn(e)
    <3>1. dnsStarted /\ ~dnsDone /\ chan = <<>> /\ ~ElseEnabled
      BY <2>3 DEF LoopGoesOn, TrialBranch, Inv, LoopShape, Types
    <3>2. Pending = {} /\ ~TrialBranch
      BY <2>3 DEF LoopGoesOn
    <3>3. PICK e \in Endpoints : task[e].st # "end"
      BY <3>1, <3>2 DEF ElseEnabled, Closed
    <3>4. task[e].st \in {"connect", "exchange", "delay", "send"}
      BY <2>1, <3>1, <3>3 DEF AllStarted, TaskStates
    <3>5. Len(chan) < ChanCap
      BY <3>1
    <3> QED
      BY <3>4, <3>5 DEF TaskGoesOn
  <2> QED
    BY <2>2, <2>3 DEF NeverStuck
<1>2. Spec => []AllStarted
  BY StartedInit, StartedStep, InvariantHolds, PTL DEF Spec
<1> QED
  BY <1>1, <1>2, InvariantHolds, PTL
==============================================================================
