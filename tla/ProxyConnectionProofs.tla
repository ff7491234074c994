------------------------ MODULE ProxyConnectionProofs ------------------------
(***************************************************************************)
(* Proofs about ProxyConnection, for any finite number of connections, any *)
(* URLs, limits and lengths of bodies.                                     *)
(*                                                                         *)
(* The invariant has three parts besides the types.  CountInv counts the   *)
(* tasks between acquire and the drop of the permit against the semaphore, *)
(* and the handlers against the metric.  DataInv says at which labels      *)
(* something has been read and at which all of it has been sent.  The      *)
(* third is OnlyWholeBodiesCached itself.                                  *)
(*                                                                         *)
(* The second part is about MirrorHealth, the tracker that the handler's   *)
(* mirror branch tells how its connections went, and the last about        *)
(* InterceptMatcher, the search for the rule of an intercepted request.    *)
(***************************************************************************)
EXTENDS ProxyConnection, MirrorHealth, InterceptMatcher, FiniteSetTheorems,
        WellFoundedInduction, TLAPS

Handlers == {c \in Conns : pc[c] \in Handling}
Holders == {c \in Conns : pc[c] \in Handling \cup {"admitted", "counted"}}

CountInv ==
  /\ active = Cardinality(Handlers)
  /\ config.max # 0 => permits + Cardinality(Holders) = config.max

\* Labels with something read, and those with all of it sent.
Later == {"send_head", "body", "put", "inject_length", "inject_body", "send_page",
          "reply", "returned", "relay", "relay_metrics"}
Sent == {"body", "put", "relay", "relay_metrics"}

DataInv ==
  \A c \in Conns :
    /\ pc[c] \notin Later => got[c] = 0 /\ out[c] = 0
    /\ pc[c] \in Sent => out[c] = got[c]
    /\ pc[c] = "put" => got[c] - 1 = want[c]

Inv == TypeOK /\ CountInv /\ DataInv /\ OnlyWholeBodiesCached

-----------------------------------------------------------------------------
(* Counting *)

\* A connection that enters or leaves a set of labels changes its size by one.
LEMMA EnterCount ==
  ASSUME NEW S, NEW T, IsFiniteSet(S), NEW c, c \notin S, T = S \cup {c}
  PROVE  Cardinality(T) = Cardinality(S) + 1
  BY FS_AddElement

LEMMA LeaveCount ==
  ASSUME NEW S, NEW T, IsFiniteSet(S), NEW c, c \in S, T = S \ {c}
  PROVE  Cardinality(T) = Cardinality(S) - 1
  BY FS_RemoveElement

\* The two counted sets are finite and the first is in the second.
LEMMA CountedFinite ==
  /\ IsFiniteSet(Handlers) /\ IsFiniteSet(Holders)
  /\ Cardinality(Handlers) \in Nat /\ Cardinality(Holders) \in Nat
  /\ Cardinality(Handlers) <= Cardinality(Holders)
  <1>1. IsFiniteSet(Conns) BY ConnectionConstants
  <1>2. Handlers \subseteq Holders /\ Holders \subseteq Conns BY DEF Handlers, Holders
  <1>3. IsFiniteSet(Holders) BY <1>1, <1>2, FS_Subset
  <1> QED BY <1>2, <1>3, FS_Subset, FS_CardinalityType

\* A step inside the handler leaves the counts alone.
LEMMA InsideCount ==
  ASSUME TypeOK, CountInv, NEW c \in Conns, NEW l \in Handling,
         pc[c] \in Handling, Goto(c, l), UNCHANGED serverVars
  PROVE  CountInv'
  <1>1. Handlers' = Handlers BY DEF Handlers, Goto, TypeOK
  <1>2. Holders' = Holders BY DEF Holders, Goto, TypeOK
  <1> QED BY <1>1, <1>2 DEF CountInv, serverVars

-----------------------------------------------------------------------------
(* Steps that only move a connection *)

\* From one label to others that promise no more about the data.
LEMMA AwaitInv ==
  ASSUME Inv, NEW c \in Conns, NEW from, NEW to,
         from \in Timed \cup Untimed, to \subseteq Handling \ {"put"},
         \A l \in to : l \notin Later => from \notin Later,
         \A l \in to : l \in Sent => from \notin Later \/ from \in Sent,
         Await(c, from, to)
  PROVE  Inv'
  <1>1. PICK l \in to : Goto(c, l) BY DEF Await
  <1>2. pc[c] = from /\ from \in Handling /\ l \in Handling
    BY DEF Await, Handling
  <1>3. UNCHANGED <<serverVars, cacheVars, via, url, answerVars>> BY DEF Await
  <1>4. pc' = [pc EXCEPT ![c] = l] /\ pc \in [Conns -> Handling \cup
               {"new", "queued", "admitted", "counted", "closed"}]
    BY <1>1 DEF Goto, Inv, TypeOK
  <1>5. TypeOK'
    BY <1>2, <1>3, <1>4 DEF Inv, TypeOK, serverVars, cacheVars, answerVars
  <1>6. CountInv' BY <1>1, <1>2, <1>3, InsideCount DEF Inv
  <1>7. DataInv'
    <2> SUFFICES ASSUME NEW d \in Conns
                 PROVE  /\ pc'[d] \notin Later => got'[d] = 0 /\ out'[d] = 0
                        /\ pc'[d] \in Sent => out'[d] = got'[d]
                        /\ pc'[d] = "put" => got'[d] - 1 = want'[d]
      BY DEF DataInv
    <2>1. got' = got /\ out' = out /\ want' = want BY <1>3 DEF answerVars
    <2>2. CASE d = c BY <2>1, <2>2, <1>2, <1>4 DEF Inv, DataInv
    <2>3. CASE d # c BY <2>1, <2>3, <1>4 DEF Inv, DataInv
    <2> QED BY <2>2, <2>3
  <1>8. OnlyWholeBodiesCached'
    BY <1>3 DEF Inv, OnlyWholeBodiesCached, cacheVars
  <1> QED BY <1>5, <1>6, <1>7, <1>8 DEF Inv

-----------------------------------------------------------------------------
(* The task around the handler *)

LEMMA TaskInv ==
  ASSUME Inv, NEW c \in Conns, Accept(c) \/ Task(c)
  PROVE  Inv'
  <1> USE DEF Inv
  <1>0. /\ IsFiniteSet(Handlers) /\ IsFiniteSet(Holders)
        /\ Cardinality(Handlers) \in Nat /\ Cardinality(Holders) \in Nat
        /\ Cardinality(Handlers) <= Cardinality(Holders)
    BY CountedFinite
  <1>1. CASE Accept(c)
    <2>1. TypeOK'
      BY <1>1 DEF Accept, Goto, TypeOK, serverVars, cacheVars, answerVars
    <2>2. Handlers' = Handlers /\ Holders' = Holders
      BY <1>1 DEF Accept, Goto, TypeOK, Handlers, Holders, Handling, Timed, Untimed
    <2>3. CountInv' BY <1>1, <2>2 DEF Accept, CountInv, serverVars
    <2>4. DataInv'
      BY <1>1 DEF Accept, Goto, TypeOK, DataInv, Later, Sent, answerVars
    <2>5. OnlyWholeBodiesCached'
      BY <1>1 DEF Accept, OnlyWholeBodiesCached, cacheVars
    <2> QED BY <2>1, <2>3, <2>4, <2>5
  <1>2. CASE Acquire(c)
    <2>1. TypeOK'
      BY <1>2 DEF Acquire, Goto, TypeOK, cacheVars, answerVars
    <2>2. Handlers' = Handlers
      BY <1>2 DEF Acquire, Goto, TypeOK, Handlers, Handling, Timed, Untimed
    <2>3. c \notin Holders /\ Holders' = Holders \cup {c}
      BY <1>2 DEF Acquire, Goto, TypeOK, Holders, Handling, Timed, Untimed
    <2>4. Cardinality(Holders') = Cardinality(Holders) + 1
      BY <2>3, <1>0, EnterCount
    <2>5. CountInv'
      BY <1>0, <1>2, <2>2, <2>4 DEF Acquire, CountInv, TypeOK
    <2>6. DataInv'
      BY <1>2 DEF Acquire, Goto, TypeOK, DataInv, Later, Sent, answerVars
    <2>7. OnlyWholeBodiesCached'
      BY <1>2 DEF Acquire, OnlyWholeBodiesCached, cacheVars
    <2> QED BY <2>1, <2>5, <2>6, <2>7
  <1>3. CASE IncActive(c)
    <2>1. TypeOK'
      BY <1>3 DEF IncActive, Goto, TypeOK, cacheVars, answerVars, Handling, Untimed
    <2>2. c \notin Handlers /\ Handlers' = Handlers \cup {c}
      BY <1>3 DEF IncActive, Goto, TypeOK, Handlers, Handling, Timed, Untimed
    <2>3. Holders' = Holders
      BY <1>3 DEF IncActive, Goto, TypeOK, Holders, Handling, Timed, Untimed
    <2>4. Cardinality(Handlers') = Cardinality(Handlers) + 1
      BY <2>2, <1>0, EnterCount
    <2>5. CountInv'
      BY <1>0, <1>3, <2>3, <2>4 DEF IncActive, CountInv, TypeOK
    <2>6. DataInv'
      BY <1>3 DEF IncActive, Goto, TypeOK, DataInv, Later, Sent, answerVars
    <2>7. OnlyWholeBodiesCached'
      BY <1>3 DEF IncActive, OnlyWholeBodiesCached, cacheVars
    <2> QED BY <2>1, <2>5, <2>6, <2>7
  <1>4. CASE DecActive(c)
    <2>2. c \in Handlers /\ Handlers' = Handlers \ {c}
      BY <1>4 DEF DecActive, Goto, TypeOK, Handlers, Handling, Timed, Untimed
    <2>3. Holders' = Holders
      BY <1>4 DEF DecActive, Goto, TypeOK, Holders, Handling, Timed, Untimed
    <2>4. Cardinality(Handlers') = Cardinality(Handlers) - 1
      BY <2>2, <1>0, LeaveCount
    <2>5. CountInv'
      BY <1>0, <1>4, <2>3, <2>4 DEF DecActive, CountInv, TypeOK
    <2>6. active' \in Nat
      <3>1. IsFiniteSet(Handlers') BY <2>2, <1>0, FS_RemoveElement
      <3> QED BY <3>1, <2>5, FS_CardinalityType DEF CountInv
    <2>1. TypeOK'
      BY <1>4, <2>6, ConnectionConstants
         DEF DecActive, Goto, TypeOK, cacheVars, Lengths, NoBody
    <2>7. DataInv'
      BY <1>4 DEF DecActive, Goto, TypeOK, DataInv, Later, Sent
    <2>8. OnlyWholeBodiesCached'
      BY <1>4 DEF DecActive, OnlyWholeBodiesCached, cacheVars
    <2> QED BY <2>1, <2>5, <2>7, <2>8
  <1>5. CASE Release(c)
    <2>1. TypeOK'
      BY <1>5 DEF Release, Goto, TypeOK, cacheVars, answerVars
    <2>2. Handlers' = Handlers
      BY <1>5 DEF Release, Goto, TypeOK, Handlers, Handling, Timed, Untimed
    <2>3. c \in Holders /\ Holders' = Holders \ {c}
      BY <1>5 DEF Release, Goto, TypeOK, Holders, Handling, Timed, Untimed
    <2>4. Cardinality(Holders') = Cardinality(Holders) - 1
      BY <2>3, <1>0, LeaveCount
    <2>5. CountInv'
      BY <1>0, <1>5, <2>2, <2>4 DEF Release, CountInv, TypeOK
    <2>6. DataInv'
      BY <1>5 DEF Release, Goto, TypeOK, DataInv, Later, Sent, answerVars
    <2>7. OnlyWholeBodiesCached'
      BY <1>5 DEF Release, OnlyWholeBodiesCached, cacheVars
    <2> QED BY <2>1, <2>5, <2>6, <2>7
  <1> QED BY <1>1, <1>2, <1>3, <1>4, <1>5 DEF Task

-----------------------------------------------------------------------------
(* Steps of the handler that read, send or cache *)

\* Such a step keeps the invariant if its data does.
LEMMA InsideInv ==
  ASSUME Inv, NEW c \in Conns, NEW l \in Handling,
         pc[c] \in Handling, Goto(c, l), UNCHANGED serverVars,
         cache' \in [Urls -> Lengths], announced' \in [Urls -> Lengths],
         via' \in [Conns -> Decisions \cup {"none"}],
         url' \in [Conns -> Urls \cup {"none"}],
         want' \in [Conns -> Lengths],
         got' \in [Conns -> 0..MaxBody + 1], out' \in [Conns -> 0..MaxBody + 1],
         \A d \in Conns \ {c} :
           got'[d] = got[d] /\ out'[d] = out[d] /\ want'[d] = want[d],
         l \notin Later => got'[c] = 0 /\ out'[c] = 0,
         l \in Sent => out'[c] = got'[c],
         l = "put" => got'[c] - 1 = want'[c],
         OnlyWholeBodiesCached'
  PROVE  Inv'
  <1>1. pc' = [pc EXCEPT ![c] = l] /\ pc \in [Conns -> Handling \cup
               {"new", "queued", "admitted", "counted", "closed"}]
    BY DEF Goto, Inv, TypeOK
  <1>2. TypeOK' BY <1>1 DEF Inv, TypeOK, serverVars
  <1>3. CountInv' BY InsideCount DEF Inv
  <1>4. DataInv'
    <2> SUFFICES ASSUME NEW d \in Conns
                 PROVE  /\ pc'[d] \notin Later => got'[d] = 0 /\ out'[d] = 0
                        /\ pc'[d] \in Sent => out'[d] = got'[d]
                        /\ pc'[d] = "put" => got'[d] - 1 = want'[d]
      BY DEF DataInv
    <2>1. CASE d = c BY <2>1, <1>1
    <2>2. CASE d # c BY <2>2, <1>1 DEF Inv, DataInv
    <2> QED BY <2>1, <2>2
  <1> QED BY <1>2, <1>3, <1>4 DEF Inv

LEMMA RequestInv ==
  ASSUME Inv, NEW c \in Conns, Request(c)
  PROVE  Inv'
  <1>1. PICK rule \in Decisions, u \in Urls \cup {"none"} :
          /\ via' = [via EXCEPT ![c] = ResolveUpstream(rule)]
          /\ url' = [url EXCEPT ![c] =
                       IF ResolveUpstream(rule) \in {"Sni", "Direct"} THEN u ELSE "none"]
          /\ Goto(c, CASE ResolveUpstream(rule) = "Redirect" -> "reply"
                       [] ResolveUpstream(rule) = "Abort" -> "returned"
                       [] ResolveUpstream(rule) = "Mirror" -> "mirror_connect"
                       [] u # "none" -> "lookup"
                       [] ResolveUpstream(rule) = "Direct" -> "connect"
                       [] OTHER -> "sni_connect")
    BY DEF Request
  <1>2. ResolveUpstream(rule) \in Decisions BY DEF ResolveUpstream, Decisions
  <1>3. PICK l \in {"reply", "returned", "mirror_connect", "lookup", "connect",
                     "sni_connect"} : Goto(c, l)
    BY <1>1, <1>2 DEF Decisions
  <1>4. /\ pc[c] = "request" /\ UNCHANGED serverVars
        /\ UNCHANGED cacheVars /\ UNCHANGED answerVars
    BY DEF Request
  <1>5. TypeOK /\ DataInv /\ OnlyWholeBodiesCached BY DEF Inv
  <1>6. "request" \in Handling /\ l \in Handling /\ l \notin Sent /\ l # "put"
    BY DEF Handling, Timed, Untimed, Sent
  <1>7. got[c] = 0 /\ out[c] = 0 BY <1>4, <1>5 DEF DataInv, Later
  <1>8. OnlyWholeBodiesCached' BY <1>4, <1>5 DEF OnlyWholeBodiesCached, cacheVars
  <1>9. /\ via' \in [Conns -> Decisions \cup {"none"}]
        /\ url' \in [Conns -> Urls \cup {"none"}]
    BY <1>1, <1>2, <1>5 DEF TypeOK
  <1>10. /\ cache' \in [Urls -> Lengths] /\ announced' \in [Urls -> Lengths]
         /\ want' \in [Conns -> Lengths]
         /\ got' \in [Conns -> 0..MaxBody + 1] /\ out' \in [Conns -> 0..MaxBody + 1]
    BY <1>4, <1>5 DEF TypeOK, cacheVars, answerVars
  <1>11. got' = got /\ out' = out /\ want' = want BY <1>4 DEF answerVars
  <1> QED
    BY <1>3, <1>4, <1>6, <1>7, <1>8, <1>9, <1>10, <1>11, InsideInv

\* What every handler step that leaves the cache alone has in common.
LEMMA ReadingInv ==
  ASSUME Inv, NEW c \in Conns, NEW l \in Handling,
         pc[c] \in Handling, Goto(c, l),
         UNCHANGED <<serverVars, cacheVars, via, url>>,
         NEW g \in 0..MaxBody + 1, NEW o \in 0..MaxBody + 1, NEW w \in Lengths,
         got' = [got EXCEPT ![c] = g], out' = [out EXCEPT ![c] = o],
         want' = [want EXCEPT ![c] = w],
         l \in Later, l \in Sent => o = g, l = "put" => g - 1 = w
  PROVE  Inv'
  <1>1. TypeOK /\ OnlyWholeBodiesCached BY DEF Inv
  <1>2. /\ cache' \in [Urls -> Lengths] /\ announced' \in [Urls -> Lengths]
        /\ via' \in [Conns -> Decisions \cup {"none"}]
        /\ url' \in [Conns -> Urls \cup {"none"}]
    BY <1>1 DEF TypeOK, cacheVars
  <1>3. /\ want' \in [Conns -> Lengths] /\ got' \in [Conns -> 0..MaxBody + 1]
        /\ out' \in [Conns -> 0..MaxBody + 1]
    BY <1>1 DEF TypeOK
  <1>4. got'[c] = g /\ out'[c] = o /\ want'[c] = w BY <1>1 DEF TypeOK
  <1>5. \A d \in Conns \ {c} :
          got'[d] = got[d] /\ out'[d] = out[d] /\ want'[d] = want[d]
    BY <1>1 DEF TypeOK
  <1>6. OnlyWholeBodiesCached' BY <1>1 DEF OnlyWholeBodiesCached, cacheVars
  <1>7. UNCHANGED serverVars OBVIOUS
  <1> QED BY <1>2, <1>3, <1>4, <1>5, <1>6, <1>7, InsideInv

\* The types of one connection's numbers, and rewriting a part that stays.
LEMMA OwnNumbers ==
  ASSUME Inv, NEW c \in Conns
  PROVE  /\ got[c] \in 0..MaxBody + 1 /\ out[c] \in 0..MaxBody + 1
         /\ want[c] \in Lengths
         /\ got = [got EXCEPT ![c] = got[c]] /\ out = [out EXCEPT ![c] = out[c]]
         /\ want = [want EXCEPT ![c] = want[c]] /\ pc = [pc EXCEPT ![c] = pc[c]]
  <1>1. TypeOK BY DEF Inv
  <1> QED BY <1>1 DEF TypeOK

LEMMA ReadHeadInv ==
  ASSUME Inv, NEW c \in Conns, NEW label \in {"head", "head_sni"}, ReadHead(c, label)
  PROVE  Inv'
  <1>1. "send_head" \in Handling /\ "send_head" \in Later /\ "send_head" \notin Sent
        /\ label \in Handling
    BY DEF Handling, Timed, Untimed, Later, Sent
  <1>2. MaxBody \in Nat BY ConnectionConstants
  <1>3. CASE HeadRead(c, label)
    <2>1. PICK k \in 0..MaxBody, len \in Lengths :
            got' = [got EXCEPT ![c] = 1 + k] /\ want' = [want EXCEPT ![c] = len]
      BY <1>3 DEF HeadRead
    <2>2. 1 + k \in 0..MaxBody + 1 BY <1>2
    <2>3. out' = [out EXCEPT ![c] = out[c]] /\ out[c] \in 0..MaxBody + 1
      BY <1>3, OwnNumbers DEF HeadRead
    <2>4. /\ pc[c] \in Handling /\ Goto(c, "send_head")
          /\ UNCHANGED <<serverVars, cacheVars, via, url>>
      BY <1>1, <1>3 DEF HeadRead
    <2> QED BY <1>1, <2>1, <2>2, <2>3, <2>4, ReadingInv
  <1>4. CASE HeadBroken(c, label)
    <2>1. PICK k \in {0, 1} : got' = [got EXCEPT ![c] = k] BY <1>4 DEF HeadBroken
    <2>2. k \in 0..MaxBody + 1 BY <1>2
    <2>3. /\ out' = [out EXCEPT ![c] = out[c]]
          /\ want' = [want EXCEPT ![c] = want[c]]
          /\ out[c] \in 0..MaxBody + 1 /\ want[c] \in Lengths
      BY <1>4, OwnNumbers DEF HeadBroken
    <2>4. /\ pc[c] \in Handling /\ Goto(c, "send_head")
          /\ UNCHANGED <<serverVars, cacheVars, via, url>>
      BY <1>1, <1>4 DEF HeadBroken
    <2> QED BY <1>1, <2>1, <2>2, <2>3, <2>4, ReadingInv
  <1> QED BY <1>3, <1>4 DEF ReadHead

LEMMA SendInv ==
  ASSUME Inv, NEW c \in Conns, SendHead(c) \/ SendPage(c)
  PROVE  Inv'
  <1>0. /\ got[c] \in 0..MaxBody + 1 /\ out[c] \in 0..MaxBody + 1 /\ want[c] \in Lengths
    BY OwnNumbers
  <1>1. /\ pc[c] \in Handling /\ UNCHANGED <<serverVars, cacheVars, via, url>>
        /\ got' = [got EXCEPT ![c] = got[c]] /\ want' = [want EXCEPT ![c] = want[c]]
    <2>1. /\ pc[c] \in {"send_head", "send_page"}
          /\ UNCHANGED <<serverVars, cacheVars, via, url>> /\ got' = got /\ want' = want
      BY DEF SendHead, SendPage
    <2> QED BY <2>1, OwnNumbers DEF Handling, Untimed
  <1>2. \/ Goto(c, "returned") /\ out' = [out EXCEPT ![c] = out[c]]
        \/ /\ out' = [out EXCEPT ![c] = got[c]]
           /\ \E l \in {"relay", "body", "relay_metrics"} : Goto(c, l)
    BY OwnNumbers DEF SendHead, SendPage
  <1>3. CASE Goto(c, "returned") /\ out' = [out EXCEPT ![c] = out[c]]
    <2>1. "returned" \in Handling /\ "returned" \in Later /\ "returned" \notin Sent
      BY DEF Handling, Later, Sent
    <2> QED BY <1>0, <1>1, <1>3, <2>1, ReadingInv
  <1>4. ASSUME out' = [out EXCEPT ![c] = got[c]],
               NEW l \in {"relay", "body", "relay_metrics"}, Goto(c, l)
        PROVE  Inv'
    <2>1. l \in Handling /\ l \in Later /\ l # "put"
      BY DEF Handling, Timed, Untimed, Later
    <2> QED BY <1>0, <1>1, <1>4, <2>1, ReadingInv
  <1> QED BY <1>2, <1>3, <1>4

LEMMA BodyInv ==
  ASSUME Inv, NEW c \in Conns, ReadBody(c) \/ BodyEnds(c)
  PROVE  Inv'
  <1>1. "body" \in Handling /\ "body" \in Later /\ "body" \in Sent
        /\ "returned" \in Handling /\ "returned" \in Later /\ "returned" \notin Sent
        /\ "put" \in Handling /\ "put" \in Later
        /\ "relay" \in Handling /\ "relay" \in Later
    BY DEF Handling, Timed, Untimed, Later, Sent
  <1>2. MaxBody \in Nat BY ConnectionConstants
  <1>3. /\ pc[c] = "body" /\ UNCHANGED <<serverVars, cacheVars, via, url>>
        /\ want' = [want EXCEPT ![c] = want[c]]
    BY OwnNumbers DEF ReadBody, BodyEnds, answerVars
  <1>4. out[c] = got[c] BY <1>1, <1>3 DEF Inv, DataInv
  <1>0. /\ out[c] \in 0..MaxBody + 1 /\ want[c] \in Lengths /\ pc[c] \in Handling
    BY <1>1, <1>3, OwnNumbers
  <1>5. CASE ReadBody(c)
    <2>1. got[c] - 1 < want[c] BY <1>5 DEF ReadBody, Body
    <2>2. got[c] + 1 \in 0..MaxBody + 1 BY <1>2, <2>1, OwnNumbers DEF Lengths, NoBody
    <2>3. got' = [got EXCEPT ![c] = got[c] + 1] BY <1>5 DEF ReadBody
    <2>4. CASE out' = [out EXCEPT ![c] = @ + 1] /\ UNCHANGED pc
      <3>1. Goto(c, "body") BY <1>3, <2>4, OwnNumbers DEF Goto
      <3>2. out' = [out EXCEPT ![c] = got[c] + 1] BY <1>4, <2>4
      <3> QED BY <1>0, <1>1, <1>3, <2>2, <2>3, <3>1, <3>2, ReadingInv
    <2>5. CASE Goto(c, "returned") /\ UNCHANGED out
      <3>1. out' = [out EXCEPT ![c] = out[c]] BY <2>5, OwnNumbers
      <3> QED BY <1>0, <1>1, <1>3, <2>2, <2>3, <2>5, <3>1, ReadingInv
    <2> QED BY <1>5, <2>4, <2>5 DEF ReadBody
  <1>6. CASE BodyEnds(c)
    <2>1. /\ got' = [got EXCEPT ![c] = got[c]] /\ out' = [out EXCEPT ![c] = got[c]]
          /\ got[c] \in 0..MaxBody + 1 /\ want[c] \in Lengths /\ pc[c] \in Handling
      BY <1>1, <1>3, <1>4, <1>6, OwnNumbers DEF BodyEnds, answerVars
    <2>2. \/ got[c] - 1 = want[c] /\ Goto(c, "put")
          \/ Goto(c, "relay")
      BY <1>6 DEF BodyEnds, Body
    <2>3. CASE got[c] - 1 = want[c] /\ Goto(c, "put")
      BY <1>1, <1>3, <2>1, <2>3, ReadingInv
    <2>4. CASE Goto(c, "relay")
      BY <1>1, <1>3, <2>1, <2>4, ReadingInv
    <2> QED BY <2>2, <2>3, <2>4
  <1> QED BY <1>5, <1>6

LEMMA InjectHeadInv ==
  ASSUME Inv, NEW c \in Conns, InjectHead(c)
  PROVE  Inv'
  <1>1. PICK k \in 0..MaxBody + 1, l \in {"inject_length", "inject_body", "send_page"} :
          got' = [got EXCEPT ![c] = k] /\ Goto(c, l)
    BY DEF InjectHead
  <1>2. /\ pc[c] \in Handling /\ l \in Handling /\ l \in Later /\ l \notin Sent
        /\ l # "put"
    BY DEF InjectHead, Handling, Timed, Untimed, Later, Sent
  <1>3. /\ UNCHANGED <<serverVars, cacheVars, via, url>>
        /\ out' = [out EXCEPT ![c] = out[c]] /\ want' = [want EXCEPT ![c] = want[c]]
        /\ out[c] \in 0..MaxBody + 1 /\ want[c] \in Lengths
    BY OwnNumbers DEF InjectHead
  <1> QED BY <1>1, <1>2, <1>3, ReadingInv

\* The entry that put writes is as long as announced, by DataInv.
LEMMA PutInv ==
  ASSUME Inv, NEW c \in Conns, Put(c)
  PROVE  Inv'
  <1>1. TypeOK /\ DataInv /\ OnlyWholeBodiesCached BY DEF Inv
  <1>2. "put" \in Handling /\ "put" \in Sent /\ "relay" \in Handling
        /\ "relay" \in Later /\ "relay" # "put"
    BY DEF Handling, Timed, Untimed, Later, Sent
  <1>3. pc[c] = "put" /\ UNCHANGED serverVars /\ Goto(c, "relay")
        /\ via' = via /\ url' = url /\ got' = got /\ out' = out /\ want' = want
    BY DEF Put, answerVars
  <1>4. out[c] = got[c] /\ got[c] - 1 = want[c] BY <1>1, <1>2, <1>3 DEF DataInv
  <1>5. Body(c) = want[c] /\ want[c] \in Lengths BY <1>4, OwnNumbers DEF Body
  <1>6. /\ cache' \in [Urls -> Lengths] /\ announced' \in [Urls -> Lengths]
        /\ OnlyWholeBodiesCached'
    <2>1. CASE /\ cache' = [cache EXCEPT ![url[c]] = Body(c)]
               /\ announced' = [announced EXCEPT ![url[c]] = want[c]]
      <3>1. cache' = [cache EXCEPT ![url[c]] = want[c]] BY <1>5, <2>1
      <3> QED BY <1>1, <1>5, <2>1, <3>1 DEF TypeOK, OnlyWholeBodiesCached
    <2>2. CASE UNCHANGED cacheVars
      BY <1>1, <2>2 DEF TypeOK, OnlyWholeBodiesCached, cacheVars
    <2> QED BY <2>1, <2>2 DEF Put
  <1>7. /\ via' \in [Conns -> Decisions \cup {"none"}]
        /\ url' \in [Conns -> Urls \cup {"none"}]
        /\ want' \in [Conns -> Lengths]
        /\ got' \in [Conns -> 0..MaxBody + 1] /\ out' \in [Conns -> 0..MaxBody + 1]
    BY <1>1, <1>3 DEF TypeOK
  <1> QED BY <1>2, <1>3, <1>4, <1>6, <1>7, InsideInv

-----------------------------------------------------------------------------
(* The invariant *)

\* Every step of the handler that only waits and goes on.
LEMMA WaitsInv ==
  ASSUME Inv, NEW c \in Conns,
         \/ Peek(c) \/ ConnectHead(c) \/ HttpHead(c) \/ TunnelConnect(c)
         \/ HttpConnect(c) \/ Handshake(c) \/ RequestFails(c) \/ MirrorConnect(c)
         \/ OriginConnect(c) \/ Lookup(c) \/ Reply(c) \/ SniConnect(c) \/ Connect(c)
         \/ HeadFails(c) \/ InjectBody(c, "inject_length")
         \/ InjectBody(c, "inject_body") \/ RelayEnds(c) \/ RelayMetricsEnds(c)
  PROVE  Inv'
  <1> DEFINE Ahead == {"connect_head", "http_head", "handshake", "tunnel_connect",
                      "http_connect", "relay", "request", "returned", "reply",
                      "mirror_connect", "origin_connect", "sni_connect", "connect",
                      "inject_head", "relay_metrics", "head_sni", "head"}
  <1>1. ASSUME NEW from \in {"peek", "connect_head", "http_head", "tunnel_connect",
                             "http_connect", "handshake", "request", "mirror_connect",
                             "origin_connect", "lookup", "sni_connect", "connect", "head"},
               NEW to \in SUBSET Ahead, Await(c, from, to)
        PROVE  Inv'
    <2>1. from \in Timed \cup Untimed /\ from \notin Later
      BY DEF Timed, Untimed, Later
    <2>2. to \subseteq Handling \ {"put"} BY DEF Handling, Timed, Untimed
    <2> QED BY <1>1, <2>1, <2>2, AwaitInv
  <1>2. ASSUME NEW from \in {"reply", "inject_length", "inject_body", "relay",
                             "relay_metrics"},
               NEW to \in SUBSET {"reply", "returned"}, Await(c, from, to)
        PROVE  Inv'
    <2>1. from \in Timed \cup Untimed BY DEF Timed, Untimed
    <2>2. to \subseteq Handling \ {"put"} /\ \A l \in to : l \in Later /\ l \notin Sent
      BY DEF Handling, Untimed, Later, Sent
    <2> QED BY <1>2, <2>1, <2>2, AwaitInv
  <1>3. CASE Peek(c) BY <1>1, <1>3 DEF Peek
  <1>4. CASE ConnectHead(c)
    <2>1. CASE Await(c, "connect_head", {"returned"}) BY <1>1, <2>1
    <2>2. ASSUME NEW class \in Classes,
                 Await(c, "connect_head",
                       {CASE class = "Proxy" /\ config.mitm -> "handshake"
                          [] class = "Block" -> "returned"
                          [] OTHER -> "tunnel_connect"})
          PROVE  Inv'
      <3>1. PICK l \in Ahead :
               l = CASE class = "Proxy" /\ config.mitm -> "handshake"
                     [] class = "Block" -> "returned"
                     [] OTHER -> "tunnel_connect"
        OBVIOUS
      <3>2. Await(c, "connect_head", {l}) /\ {l} \in SUBSET Ahead BY <2>2, <3>1
      <3> QED BY <1>1, <3>2
    <2> QED BY <1>4, <2>1, <2>2 DEF ConnectHead
  <1>5. CASE HttpHead(c) BY <1>1, <1>5 DEF HttpHead
  <1>6. CASE TunnelConnect(c) BY <1>1, <1>6 DEF TunnelConnect
  <1>7. CASE HttpConnect(c) BY <1>1, <1>7 DEF HttpConnect
  <1>8. CASE Handshake(c) BY <1>1, <1>8 DEF Handshake
  <1>9. CASE RequestFails(c) BY <1>1, <1>9 DEF RequestFails
  <1>10. CASE MirrorConnect(c) BY <1>1, <1>10 DEF MirrorConnect
  <1>11. CASE OriginConnect(c) BY <1>1, <1>11 DEF OriginConnect
  <1>12. CASE Lookup(c) BY <1>1, <1>12 DEF Lookup
  <1>13. Forwarded(c) \in Ahead BY DEF Forwarded
  <1>14. CASE SniConnect(c) BY <1>1, <1>13, <1>14 DEF SniConnect
  <1>15. CASE Connect(c) BY <1>1, <1>13, <1>15 DEF Connect
  <1>16. CASE HeadFails(c) BY <1>1, <1>16 DEF HeadFails
  <1>17. CASE Reply(c) BY <1>2, <1>17 DEF Reply
  <1>18. CASE InjectBody(c, "inject_length") BY <1>2, <1>18 DEF InjectBody
  <1>19. CASE InjectBody(c, "inject_body") BY <1>2, <1>19 DEF InjectBody
  <1>20. CASE RelayEnds(c) BY <1>2, <1>20 DEF RelayEnds
  <1>21. CASE RelayMetricsEnds(c) BY <1>2, <1>21 DEF RelayMetricsEnds
  <1> QED BY <1>3, <1>4, <1>5, <1>6, <1>7, <1>8, <1>9, <1>10, <1>11, <1>12, <1>14,
             <1>15, <1>16, <1>17, <1>18, <1>19, <1>20, <1>21

\* A timeout is one of the ways its wait may end.
LEMMA TimedOutInv ==
  ASSUME Inv, NEW c \in Conns, TimedOut(c)
  PROVE  Inv'
  <1>1. CASE Await(c, "request", {"returned"}) BY <1>1, WaitsInv DEF RequestFails
  <1>2. CASE HeadBroken(c, "head_sni") BY <1>2, ReadHeadInv DEF ReadHead
  <1>3. CASE Await(c, "inject_body", {"reply"}) BY <1>3, WaitsInv DEF InjectBody
  <1>4. CASE Await(c, "relay", {"returned"}) BY <1>4, WaitsInv DEF RelayEnds
  <1> QED BY <1>1, <1>2, <1>3, <1>4 DEF TimedOut

LEMMA InvInit ==
  ASSUME Init PROVE Inv
  <1>1. TypeOK
    BY ConnectionConstants DEF Init, TypeOK, Lengths, NoBody
  <1>2. Handlers = {} /\ Holders = {}
    BY DEF Init, Handlers, Holders, Handling, Timed, Untimed
  <1>3. CountInv
    <2>1. config.max \in Nat BY ConnectionConstants DEF Init
    <2> QED BY <1>2, <2>1, FS_EmptySet DEF CountInv, Init
  <1>4. DataInv BY DEF Init, DataInv, Sent
  <1>5. OnlyWholeBodiesCached BY DEF Init, OnlyWholeBodiesCached
  <1> QED BY <1>1, <1>3, <1>4, <1>5 DEF Inv

LEMMA InvNext ==
  ASSUME Inv, [Next]_vars
  PROVE  Inv'
  <1>1. ASSUME NEW c \in Conns, Accept(c) \/ Task(c) PROVE Inv'
    BY <1>1, TaskInv
  <1>2. ASSUME NEW c \in Conns, Answered(c) PROVE Inv'
    BY <1>2, WaitsInv, ReadHeadInv, SendInv, BodyInv, PutInv, InjectHeadInv
       DEF Answered
  <1>3. ASSUME NEW c \in Conns, InTime(c) PROVE Inv'
    BY <1>3, WaitsInv, ReadHeadInv, RequestInv DEF InTime
  <1>4. ASSUME NEW u \in Urls, Drop(u) PROVE Inv'
    <2>1. TypeOK /\ CountInv /\ DataInv /\ OnlyWholeBodiesCached BY DEF Inv
    <2>2. TypeOK'
      BY <1>4, <2>1, ConnectionConstants
         DEF Drop, TypeOK, Lengths, NoBody, serverVars, answerVars
    <2>3. CountInv' BY <1>4, <2>1 DEF Drop, CountInv, Handlers, Holders, serverVars
    <2>4. DataInv' BY <1>4, <2>1 DEF Drop, DataInv, answerVars
    <2>5. OnlyWholeBodiesCached'
      BY <1>4, <2>1 DEF Drop, OnlyWholeBodiesCached, TypeOK
    <2> QED BY <2>2, <2>3, <2>4, <2>5 DEF Inv
  <1>5. CASE StopListening
    <2>1. TypeOK /\ CountInv /\ DataInv /\ OnlyWholeBodiesCached BY DEF Inv
    <2>2. TypeOK' BY <1>5, <2>1 DEF StopListening, TypeOK, cacheVars, answerVars
    <2>3. CountInv' BY <1>5, <2>1 DEF StopListening, CountInv, Handlers, Holders
    <2>4. DataInv' BY <1>5, <2>1 DEF StopListening, DataInv, answerVars
    <2>5. OnlyWholeBodiesCached'
      BY <1>5, <2>1 DEF StopListening, OnlyWholeBodiesCached, cacheVars
    <2> QED BY <2>2, <2>3, <2>4, <2>5 DEF Inv
  <1>6. CASE UNCHANGED vars
    <2>1. TypeOK /\ CountInv /\ DataInv /\ OnlyWholeBodiesCached BY DEF Inv
    <2>2. TypeOK' BY <1>6, <2>1 DEF vars, TypeOK
    <2>3. CountInv' BY <1>6, <2>1 DEF vars, CountInv, Handlers, Holders
    <2>4. DataInv' BY <1>6, <2>1 DEF vars, DataInv
    <2>5. OnlyWholeBodiesCached' BY <1>6, <2>1 DEF vars, OnlyWholeBodiesCached
    <2> QED BY <2>2, <2>3, <2>4, <2>5 DEF Inv
  <1>7. CASE Finished BY <1>6, <1>7 DEF Finished
  <1> QED BY <1>1, <1>2, <1>3, <1>4, <1>5, <1>6, <1>7, TimedOutInv DEF Next

\* For any limit and any number of clients: active_connections is the number
\* of handlers that run and never more than max_connections.
THEOREM ConnectionLimit == Spec => []ActiveWithinLimit
  <1>1. ASSUME Inv PROVE ActiveWithinLimit
    <2>1. TypeOK /\ CountInv BY <1>1 DEF Inv
    <2>2. active = Cardinality({c \in Conns : pc[c] \in Handling})
      BY <2>1 DEF CountInv, Handlers
    <2>3. config.max # 0 => active <= config.max
      BY <2>1, CountedFinite DEF CountInv, TypeOK
    <2> QED BY <2>2, <2>3 DEF ActiveWithinLimit
  <1> QED BY <1>1, InvInit, InvNext, PTL DEF Spec

\* However an answer reaches the relay, the client has been sent all of it
\* that was read on the way.
THEOREM ConnectionLosesNothing == Spec => []NothingLost
  <1>1. Inv => NothingLost BY DEF Inv, DataInv, NothingLost, Sent
  <1> QED BY <1>1, InvInit, InvNext, PTL DEF Spec

\* Only bodies of the announced length enter the cache, from any number of
\* connections at once.
THEOREM ConnectionCachesWholeBodies == Spec => []OnlyWholeBodiesCached
  <1>1. Inv => OnlyWholeBodiesCached BY DEF Inv
  <1> QED BY <1>1, InvInit, InvNext, PTL DEF Spec

-----------------------------------------------------------------------------
(* What AllServed rests on apart from fairness *)

\* How far a connection has come.
Distance(l) ==
  CASE l = "new" -> 0
    [] l = "queued" -> 1
    [] l = "admitted" -> 2
    [] l = "peek" -> 3
    [] l \in {"connect_head", "http_head"} -> 4
    [] l \in {"tunnel_connect", "http_connect", "handshake"} -> 5
    [] l = "request" -> 6
    [] l \in {"mirror_connect", "lookup"} -> 7
    [] l \in {"origin_connect", "sni_connect"} -> 8
    [] l = "connect" -> 9
    [] l \in {"head", "head_sni", "inject_head"} -> 10
    [] l \in {"send_head", "inject_length", "inject_body", "send_page"} -> 11
    [] l \in {"body", "reply"} -> 12
    [] l = "put" -> 13
    [] l \in {"relay", "relay_metrics"} -> 14
    [] l = "returned" -> 15
    [] l = "counted" -> 16
    [] l = "closed" -> 17

\* The distance of each label.
LEMMA Distances ==
  /\ Distance("new") = 0 /\ Distance("queued") = 1 /\ Distance("admitted") = 2
  /\ Distance("peek") = 3 /\ Distance("connect_head") = 4 /\ Distance("http_head") = 4
  /\ Distance("tunnel_connect") = 5 /\ Distance("http_connect") = 5
  /\ Distance("handshake") = 5 /\ Distance("request") = 6
  /\ Distance("mirror_connect") = 7 /\ Distance("lookup") = 7
  /\ Distance("origin_connect") = 8 /\ Distance("sni_connect") = 8
  /\ Distance("connect") = 9 /\ Distance("head") = 10 /\ Distance("head_sni") = 10
  /\ Distance("inject_head") = 10 /\ Distance("send_head") = 11
  /\ Distance("inject_length") = 11 /\ Distance("inject_body") = 11
  /\ Distance("send_page") = 11 /\ Distance("body") = 12 /\ Distance("reply") = 12
  /\ Distance("put") = 13 /\ Distance("relay") = 14 /\ Distance("relay_metrics") = 14
  /\ Distance("returned") = 15 /\ Distance("counted") = 16 /\ Distance("closed") = 17
  BY DEF Distance

\* A connection comes further, or reads one more unit of a body that is shorter
\* than announced.
GoesOn(c) ==
  \/ Distance(pc'[c]) > Distance(pc[c])
  \/ pc'[c] = "body" /\ pc[c] = "body" /\ got'[c] = got[c] + 1 /\ got'[c] <= want[c] + 1

\* A step takes one connection further and none back; the others are of the
\* listener or of the cache alone.
NoneGoesBack ==
  \/ UNCHANGED <<pc, got, want>>
  \/ \E c \in Conns :
       /\ GoesOn(c)
       /\ \A d \in Conns \ {c} : pc'[d] = pc[d] /\ got'[d] = got[d] /\ want'[d] = want[d]

\* A step of c that goes to a label further on.
LEMMA FurtherOn ==
  ASSUME TypeOK, NEW c \in Conns, NEW l, Goto(c, l), Distance(l) > Distance(pc[c]),
         \A d \in Conns \ {c} : got'[d] = got[d] /\ want'[d] = want[d]
  PROVE  NoneGoesBack
  <1>1. pc' = [pc EXCEPT ![c] = l] /\ DOMAIN pc = Conns BY DEF Goto, TypeOK
  <1>2. pc'[c] = l /\ \A d \in Conns \ {c} : pc'[d] = pc[d] BY <1>1
  <1> QED BY <1>2 DEF NoneGoesBack, GoesOn

LEMMA AwaitGoesOn ==
  ASSUME TypeOK, NEW c \in Conns, NEW from, NEW to, Await(c, from, to),
         \A l \in to : Distance(l) > Distance(from)
  PROVE  NoneGoesBack
  <1>1. PICK l \in to : Goto(c, l) BY DEF Await
  <1>2. Distance(l) > Distance(pc[c]) /\ UNCHANGED answerVars BY DEF Await
  <1> QED BY <1>1, <1>2, FurtherOn DEF answerVars

\* The task around the handler.
LEMMA TaskGoesOn ==
  ASSUME TypeOK, NEW c \in Conns, Accept(c) \/ Task(c)
  PROVE  NoneGoesBack
  <1>1. CASE Accept(c)
    <2>1. Distance("queued") > Distance("new") BY Distances
    <2> QED BY <1>1, <2>1, FurtherOn DEF Accept, answerVars
  <1>2. CASE Acquire(c)
    <2>1. Distance("admitted") > Distance("queued") BY Distances
    <2> QED BY <1>2, <2>1, FurtherOn DEF Acquire, answerVars
  <1>3. CASE IncActive(c)
    <2>1. Distance("peek") > Distance("admitted") BY Distances
    <2> QED BY <1>3, <2>1, FurtherOn DEF IncActive, answerVars
  <1>4. CASE DecActive(c)
    <2>1. Distance("counted") > Distance("returned") BY Distances
    <2>2. \A d \in Conns \ {c} : got'[d] = got[d] /\ want'[d] = want[d]
      BY <1>4 DEF DecActive, TypeOK
    <2> QED BY <1>4, <2>1, <2>2, FurtherOn DEF DecActive
  <1>5. CASE Release(c)
    <2>1. Distance("closed") > Distance("counted") BY Distances
    <2> QED BY <1>5, <2>1, FurtherOn DEF Release, answerVars
  <1> QED BY <1>1, <1>2, <1>3, <1>4, <1>5 DEF Task

\* The awaits of the handler that only choose a label.
LEMMA ChoiceGoesOn ==
  ASSUME TypeOK, NEW c \in Conns,
         \/ Peek(c) \/ ConnectHead(c) \/ HttpHead(c) \/ TunnelConnect(c) \/ HttpConnect(c)
         \/ Handshake(c) \/ MirrorConnect(c) \/ OriginConnect(c) \/ Lookup(c) \/ Reply(c)
         \/ SniConnect(c) \/ Connect(c) \/ HeadFails(c) \/ RelayMetricsEnds(c)
         \/ RequestFails(c) \/ RelayEnds(c)
         \/ InjectBody(c, "inject_length") \/ InjectBody(c, "inject_body")
  PROVE  NoneGoesBack
  <1>1. \E from, to : Await(c, from, to) /\ \A l \in to : Distance(l) > Distance(from)
    <2>1. CASE Peek(c)
      <3>1. \A l \in {"connect_head", "http_head", "returned"} : Distance(l) > Distance("peek")
        BY Distances
      <3> QED BY <2>1, <3>1 DEF Peek
    <2>2. CASE ConnectHead(c)
      <3>1. \A l \in {"handshake", "returned", "tunnel_connect"} :
              Distance(l) > Distance("connect_head")
        BY Distances
      <3>2. CASE Await(c, "connect_head", {"returned"}) BY <3>1, <3>2
      <3>3. ASSUME NEW class \in Classes,
                   Await(c, "connect_head",
                         {CASE class = "Proxy" /\ config.mitm -> "handshake"
                            [] class = "Block" -> "returned"
                            [] OTHER -> "tunnel_connect"})
            PROVE  \E l \in {"handshake", "returned", "tunnel_connect"} :
                     Await(c, "connect_head", {l})
        <4>1. CASE class = "Proxy" /\ config.mitm BY <3>3, <4>1
        <4>2. CASE ~(class = "Proxy" /\ config.mitm) /\ class = "Block" BY <3>3, <4>2
        <4>3. CASE ~(class = "Proxy" /\ config.mitm) /\ class # "Block" BY <3>3, <4>3
        <4> QED BY <4>1, <4>2, <4>3
      <3> QED BY <2>2, <3>1, <3>2, <3>3 DEF ConnectHead
    <2>3. CASE HttpHead(c)
      <3>1. \A l \in {"returned", "http_connect"} : Distance(l) > Distance("http_head") BY Distances
      <3> QED BY <2>3, <3>1 DEF HttpHead
    <2>4. CASE TunnelConnect(c) \/ HttpConnect(c)
      <3>1. \A l \in {"relay", "returned"} :
              Distance(l) > Distance("tunnel_connect") /\ Distance(l) > Distance("http_connect")
        BY Distances
      <3> QED BY <2>4, <3>1 DEF TunnelConnect, HttpConnect
    <2>5. CASE Handshake(c)
      <3>1. \A l \in {"request", "returned"} : Distance(l) > Distance("handshake") BY Distances
      <3> QED BY <2>5, <3>1 DEF Handshake
    <2>6. CASE MirrorConnect(c)
      <3>1. \A l \in {"relay", "origin_connect", "returned"} : Distance(l) > Distance("mirror_connect")
        BY Distances
      <3> QED BY <2>6, <3>1 DEF MirrorConnect
    <2>7. CASE OriginConnect(c)
      <3>1. \A l \in {"relay", "returned"} : Distance(l) > Distance("origin_connect") BY Distances
      <3> QED BY <2>7, <3>1 DEF OriginConnect
    <2>8. CASE Lookup(c)
      <3>1. \A l \in {"reply", "sni_connect", "connect"} : Distance(l) > Distance("lookup") BY Distances
      <3>2. PICK l \in {"reply", "sni_connect", "connect"} : Await(c, "lookup", {l})
        BY <2>8 DEF Lookup
      <3> QED BY <3>1, <3>2
    <2>9. CASE SniConnect(c) \/ Connect(c)
      <3>1. Forwarded(c) \in {"inject_head", "relay_metrics", "head_sni", "head", "relay"}
        BY DEF Forwarded
      <3>2. \A l \in {"inject_head", "relay_metrics", "head_sni", "head", "relay", "returned"} :
              Distance(l) > Distance("connect") /\ Distance(l) > Distance("sni_connect")
        BY Distances
      <3>3. Distance("connect") > Distance("sni_connect") BY Distances
      <3> HIDE DEF Forwarded
      <3> QED BY <2>9, <3>1, <3>2, <3>3 DEF SniConnect, Connect
    <2>10. CASE HeadFails(c) \/ RelayMetricsEnds(c) \/ RequestFails(c) \/ RelayEnds(c) \/ Reply(c)
      <3>1. \A l \in {"head", "relay_metrics", "request", "relay", "reply"} :
              Distance("returned") > Distance(l)
        BY Distances
      <3> QED
        BY <2>10, <3>1 DEF HeadFails, RelayMetricsEnds, RequestFails, RelayEnds, Reply
    <2>11. CASE InjectBody(c, "inject_length") \/ InjectBody(c, "inject_body")
      <3>1. Distance("reply") > Distance("inject_length") /\ Distance("reply") > Distance("inject_body")
        BY Distances
      <3> QED BY <2>11, <3>1 DEF InjectBody
    <2> QED
      BY <2>1, <2>2, <2>3, <2>4, <2>5, <2>6, <2>7, <2>8, <2>9, <2>10, <2>11
  <1> QED BY <1>1, AwaitGoesOn

\* The steps that read the request or an answer, or write it.
LEMMA DataGoesOn ==
  ASSUME TypeOK, NEW c \in Conns,
         \/ Request(c) \/ ReadHead(c, "head") \/ ReadHead(c, "head_sni") \/ SendHead(c)
         \/ ReadBody(c) \/ BodyEnds(c) \/ Put(c) \/ InjectHead(c) \/ SendPage(c)
  PROVE  NoneGoesBack
  <1>0. /\ DOMAIN pc = Conns /\ DOMAIN got = Conns /\ DOMAIN want = Conns
        /\ got[c] \in Int /\ want[c] \in Int
    BY ConnectionConstants DEF TypeOK, Lengths, NoBody
  <1>1. CASE Request(c)
    <2>1. \A l \in {"reply", "returned", "mirror_connect", "lookup", "connect", "sni_connect"} :
            Distance(l) > Distance("request")
      BY Distances
    <2>2. PICK l \in {"reply", "returned", "mirror_connect", "lookup", "connect", "sni_connect"} :
            Goto(c, l)
      BY <1>1 DEF Request
    <2>3. pc[c] = "request" /\ UNCHANGED answerVars BY <1>1 DEF Request
    <2> QED BY <2>1, <2>2, <2>3, FurtherOn DEF answerVars
  <1>2. ASSUME NEW label \in {"head", "head_sni"}, ReadHead(c, label) PROVE NoneGoesBack
    <2>1. Distance("send_head") > Distance(label) BY Distances
    <2>2. pc[c] = label /\ Goto(c, "send_head")
      BY <1>2 DEF ReadHead, HeadRead, HeadBroken
    <2>3. \A d \in Conns \ {c} : got'[d] = got[d] /\ want'[d] = want[d]
      BY <1>0, <1>2 DEF ReadHead, HeadRead, HeadBroken
    <2> QED BY <2>1, <2>2, <2>3, FurtherOn
  <1>3. CASE SendHead(c)
    <2>1. \A l \in {"returned", "relay", "body"} : Distance(l) > Distance("send_head") BY Distances
    <2>2. PICK l \in {"returned", "relay", "body"} : Goto(c, l) BY <1>3 DEF SendHead
    <2>3. pc[c] = "send_head" /\ UNCHANGED <<got, want>> BY <1>3 DEF SendHead
    <2> QED BY <2>1, <2>2, <2>3, FurtherOn
  <1>4. CASE ReadBody(c)
    <2>1. /\ pc[c] = "body" /\ got[c] - 1 < want[c] /\ got' = [got EXCEPT ![c] = @ + 1]
          /\ UNCHANGED want /\ (UNCHANGED pc \/ Goto(c, "returned"))
      BY <1>4 DEF ReadBody, Body
    <2>2. got'[c] = got[c] + 1 /\ \A d \in Conns \ {c} : got'[d] = got[d] /\ want'[d] = want[d]
      BY <1>0, <2>1
    <2>3. Distance("returned") > Distance("body") BY Distances
    <2>4. CASE UNCHANGED pc
      <3>1. GoesOn(c) BY <1>0, <2>1, <2>2, <2>4 DEF GoesOn
      <3> QED BY <2>2, <2>4, <3>1 DEF NoneGoesBack
    <2>5. CASE Goto(c, "returned") BY <2>1, <2>2, <2>3, <2>5, FurtherOn
    <2> QED BY <2>1, <2>4, <2>5
  <1>5. CASE BodyEnds(c)
    <2>1. \A l \in {"put", "relay"} : Distance(l) > Distance("body") BY Distances
    <2>2. PICK l \in {"put", "relay"} : Goto(c, l) BY <1>5 DEF BodyEnds
    <2>3. pc[c] = "body" /\ UNCHANGED answerVars BY <1>5 DEF BodyEnds
    <2> QED BY <2>1, <2>2, <2>3, FurtherOn DEF answerVars
  <1>6. CASE Put(c)
    <2>1. Distance("relay") > Distance("put") BY Distances
    <2> QED BY <1>6, <2>1, FurtherOn DEF Put, answerVars
  <1>7. CASE InjectHead(c)
    <2>1. \A l \in {"inject_length", "inject_body", "send_page"} : Distance(l) > Distance("inject_head")
      BY Distances
    <2>2. PICK l \in {"inject_length", "inject_body", "send_page"} : Goto(c, l)
      BY <1>7 DEF InjectHead
    <2>3. pc[c] = "inject_head" /\ \A d \in Conns \ {c} : got'[d] = got[d] /\ want'[d] = want[d]
      BY <1>0, <1>7 DEF InjectHead
    <2> QED BY <2>1, <2>2, <2>3, FurtherOn
  <1>8. CASE SendPage(c)
    <2>1. \A l \in {"returned", "relay_metrics"} : Distance(l) > Distance("send_page") BY Distances
    <2>2. PICK l \in {"returned", "relay_metrics"} : Goto(c, l) BY <1>8 DEF SendPage
    <2>3. pc[c] = "send_page" /\ UNCHANGED <<got, want>> BY <1>8 DEF SendPage
    <2> QED BY <2>1, <2>2, <2>3, FurtherOn
  <1> QED BY <1>1, <1>2, <1>3, <1>4, <1>5, <1>6, <1>7, <1>8

\* A timeout goes where the other end of the wait could have gone.
LEMMA TimeoutGoesOn ==
  ASSUME TypeOK, NEW c \in Conns, TimedOut(c)
  PROVE  NoneGoesBack
  <1>1. \/ RequestFails(c) \/ RelayEnds(c) \/ InjectBody(c, "inject_body")
        \/ ReadHead(c, "head_sni")
    BY DEF TimedOut, RequestFails, RelayEnds, InjectBody, ReadHead
  <1> QED BY <1>1, ChoiceGoesOn, DataGoesOn

\* No path through handle_connection, perform_mitm and the tunnel comes back to
\* where it was: a mirror that fails, a host that does not answer and a timeout
\* all lead on, and a connection takes at most seventeen steps and one for each
\* unit that it reads of a body of the announced length.
THEOREM ConnectionAdvances == Spec => [][NoneGoesBack]_vars
  <1>1. Inv /\ [Next]_vars => [NoneGoesBack]_vars
    <2> SUFFICES ASSUME Inv, Next PROVE NoneGoesBack
      OBVIOUS
    <2>1. TypeOK BY DEF Inv
    <2>2. ASSUME NEW c \in Conns, Accept(c) \/ Task(c) PROVE NoneGoesBack
      BY <2>1, <2>2, TaskGoesOn
    <2>3. ASSUME NEW c \in Conns, Answered(c) PROVE NoneGoesBack
      BY <2>1, <2>3, ChoiceGoesOn, DataGoesOn DEF Answered
    <2>4. ASSUME NEW c \in Conns, InTime(c) PROVE NoneGoesBack
      BY <2>1, <2>4, ChoiceGoesOn, DataGoesOn DEF InTime
    <2>5. ASSUME NEW c \in Conns, TimedOut(c) PROVE NoneGoesBack
      BY <2>1, <2>5, TimeoutGoesOn
    <2>6. CASE (\E u \in Urls : Drop(u)) \/ StopListening \/ Finished
      BY <2>6 DEF Drop, StopListening, Finished, vars, answerVars, NoneGoesBack
    <2> QED BY <2>2, <2>3, <2>4, <2>5, <2>6 DEF Next
  <1> QED BY <1>1, InvInit, InvNext, PTL DEF Spec

\* No connection waits for a permit that nobody will return: with a limit, one
\* that cannot be admitted waits for another task that has a permit and, by
\* ConnectionAdvances, goes on towards its release.
THEOREM QueueMoves ==
  Spec => [](\A c \in Conns : pc[c] = "queued" =>
               \/ config.max = 0 \/ permits > 0
               \/ \E d \in Conns \ {c} : pc[d] \in Handling \cup {"admitted", "counted"})
  <1>1. ASSUME Inv, NEW c \in Conns, pc[c] = "queued", config.max # 0, ~(permits > 0)
        PROVE  \E d \in Conns \ {c} : pc[d] \in Handling \cup {"admitted", "counted"}
    <2>1. permits + Cardinality(Holders) = config.max /\ permits \in Nat /\ config.max \in Nat
      BY <1>1, ConnectionConstants DEF Inv, CountInv, TypeOK
    <2>2. Cardinality(Holders) \in Nat /\ IsFiniteSet(Holders) BY CountedFinite
    <2>3. Cardinality(Holders) # 0 BY <1>1, <2>1, <2>2
    <2>4. Holders # {} BY <2>2, <2>3, FS_EmptySet
    <2>5. PICK d \in Conns : pc[d] \in Handling \cup {"admitted", "counted"}
      BY <2>4 DEF Holders
    <2>6. d # c BY <1>1, <2>5 DEF Handling, Timed, Untimed
    <2> QED BY <2>5, <2>6
  <1>2. Inv => \A c \in Conns : pc[c] = "queued" =>
               \/ config.max = 0 \/ permits > 0
               \/ \E d \in Conns \ {c} : pc[d] \in Handling \cup {"admitted", "counted"}
    BY <1>1
  <1> QED BY <1>2, InvInit, InvNext, PTL DEF Spec

-----------------------------------------------------------------------------
(* ProxyConnection implements Admission *)

\* Every step of the handler stays inside it and leaves the server alone.
HandlerMoves(c) ==
  /\ pc[c] \in Handling /\ UNCHANGED serverVars
  /\ \E l \in Handling : pc' = [pc EXCEPT ![c] = l]

LEMMA AwaitMoves ==
  ASSUME NEW c \in Conns, NEW from \in Handling, NEW to \in SUBSET Handling,
         Await(c, from, to)
  PROVE  HandlerMoves(c)
  BY DEF Await, Goto, HandlerMoves

LEMMA AnsweredMoves ==
  ASSUME TypeOK, NEW c \in Conns, Answered(c) \/ InTime(c) \/ TimedOut(c)
  PROVE  HandlerMoves(c)
  <1>2. ASSUME NEW from, NEW to, Await(c, from, to), to \subseteq Handling,
               from \in Handling
        PROVE  HandlerMoves(c)
    BY <1>2, AwaitMoves
  <1>3. CASE \/ Peek(c) \/ HttpHead(c) \/ TunnelConnect(c) \/ HttpConnect(c)
             \/ Handshake(c) \/ MirrorConnect(c) \/ OriginConnect(c)
    BY <1>2, <1>3 DEF Peek, HttpHead, TunnelConnect, HttpConnect, Handshake,
       MirrorConnect, OriginConnect, Handling, Timed, Untimed
  <1>4. CASE ConnectHead(c)
    <2>1. PICK l \in Handling : Await(c, "connect_head", {l})
      BY <1>4 DEF ConnectHead, Handling, Timed, Untimed
    <2> QED BY <1>2, <2>1 DEF Handling, Untimed
  <1>5. CASE Lookup(c)
    <2>1. PICK l \in Handling : Await(c, "lookup", {l})
      BY <1>5 DEF Lookup, Handling, Timed, Untimed
    <2> QED BY <1>2, <2>1 DEF Handling, Untimed
  <1>6. CASE SniConnect(c) \/ Connect(c)
    <2>1. Forwarded(c) \in Handling BY DEF Forwarded, Handling, Timed, Untimed
    <2> QED BY <1>2, <1>6, <2>1 DEF SniConnect, Connect, Handling, Untimed
  <1>7. CASE \/ Reply(c) \/ HeadFails(c) \/ RequestFails(c) \/ RelayEnds(c)
             \/ RelayMetricsEnds(c) \/ InjectBody(c, "inject_length")
             \/ InjectBody(c, "inject_body")
    BY <1>2, <1>7 DEF Reply, HeadFails, RequestFails, RelayEnds, RelayMetricsEnds,
       InjectBody, Handling, Timed, Untimed
  <1>8. CASE Request(c)
    <2>1. PICK l \in Handling : Goto(c, l)
      BY <1>8 DEF Request, Handling, Timed, Untimed
    <2> QED BY <1>8, <2>1 DEF Request, Goto, HandlerMoves, Handling, Timed
  <1>9. ASSUME NEW label \in {"head", "head_sni"}, ReadHead(c, label)
        PROVE  HandlerMoves(c)
    BY <1>9 DEF ReadHead, HeadRead, HeadBroken, Goto, HandlerMoves, Handling, Timed,
       Untimed
  <1>10. CASE SendHead(c) \/ SendPage(c)
    BY <1>10 DEF SendHead, SendPage, Goto, HandlerMoves, Handling, Timed, Untimed
  <1>11. CASE ReadBody(c)
    <2>1. pc[c] = "body" /\ UNCHANGED serverVars
          /\ (UNCHANGED pc \/ Goto(c, "returned"))
      BY <1>11 DEF ReadBody
    <2>2. pc = [pc EXCEPT ![c] = pc[c]] BY DEF TypeOK
    <2> QED BY <2>1, <2>2 DEF Goto, HandlerMoves, Handling, Untimed
  <1>12. CASE BodyEnds(c) \/ Put(c)
    BY <1>12 DEF BodyEnds, Put, Goto, HandlerMoves, Handling, Timed, Untimed
  <1>13. CASE InjectHead(c)
    <2>1. PICK l \in {"inject_length", "inject_body", "send_page"} : Goto(c, l)
      BY <1>13 DEF InjectHead
    <2> QED BY <1>13, <2>1 DEF InjectHead, Goto, HandlerMoves, Handling, Timed, Untimed
  <1>14. CASE TimedOut(c)
    <2>1. CASE HeadBroken(c, "head_sni") BY <1>9, <2>1 DEF ReadHead
    <2>2. CASE ~HeadBroken(c, "head_sni")
      BY <1>2, <1>14, <2>2 DEF TimedOut, Handling, Timed, Untimed
    <2> QED BY <2>1, <2>2
  <1> QED BY <1>3, <1>4, <1>5, <1>6, <1>7, <1>8, <1>9, <1>10, <1>11, <1>12, <1>13,
             <1>14 DEF Answered, InTime

\* Those inside at the level of Admission hold a permit, if there are permits.
LEMMA InsideIsHolders ==
  ASSUME TypeOK
  PROVE  Doors!Inside = Holders
  <1>1. \A c \in Conns : Where[c] = "inside" <=> pc[c] \in Handling \cup {"admitted", "counted"}
    BY DEF TypeOK, Where, Handling, Timed, Untimed
  <1> QED BY <1>1 DEF Doors!Inside, Holders

\* A connection that moves, moves at the level of Admission as its labels say.
LEMMA WhereMoves ==
  ASSUME TypeOK, NEW c \in Conns, NEW l, pc' = [pc EXCEPT ![c] = l],
         NEW w, w = CASE l = "new" -> "outside" [] l = "queued" -> "waiting"
                      [] l = "closed" -> "gone" [] OTHER -> "inside"
  PROVE  Where' = [Where EXCEPT ![c] = w]
  <1>1. \A d \in Conns : d # c => pc'[d] = pc[d] BY DEF TypeOK
  <1>2. pc'[c] = l BY DEF TypeOK
  <1>3. \A d \in Conns : Where'[d] = [Where EXCEPT ![c] = w][d]
    BY <1>1, <1>2 DEF Where
  <1> QED BY <1>3 DEF Where

\* The two modules count alike.
LEMMA SameCardinality == \A S : Doors!Cardinality(S) = Cardinality(S)
  BY DEF Doors!Cardinality, Cardinality

LEMMA AdmissionStep ==
  ASSUME Inv, [Next]_vars
  PROVE  [Doors!Next]_Doors!vars
  <1> USE DEF Doors!vars
  <1>0. TypeOK /\ CountInv BY DEF Inv
  <1>1. ASSUME NEW c \in Conns, HandlerMoves(c) PROVE UNCHANGED Doors!vars
    <2>1. PICK l \in Handling : pc' = [pc EXCEPT ![c] = l] BY <1>1 DEF HandlerMoves
    <2>2. l \notin {"new", "queued", "closed"}
      BY DEF Handling, Timed, Untimed
    <2>3. Where' = [Where EXCEPT ![c] = "inside"] BY <1>0, <2>1, <2>2, WhereMoves
    <2>4. Where[c] = "inside"
      BY <1>1 DEF HandlerMoves, Where, Handling, Timed, Untimed
    <2>5. Where' = Where BY <2>3, <2>4 DEF Where
    <2> QED BY <1>1, <2>5 DEF HandlerMoves, serverVars
  <1>2. ASSUME NEW c \in Conns, Accept(c) PROVE Doors!Next
    <2>1. /\ listening /\ pc[c] = "new" /\ pc' = [pc EXCEPT ![c] = "queued"]
          /\ listening' = listening /\ config' = config
      BY <1>2 DEF Accept, Goto, serverVars
    <2>2. Where' = [Where EXCEPT ![c] = "waiting"] BY <1>0, <2>1, WhereMoves
    <2>3. Where[c] = "outside" BY <2>1 DEF Where
    <2>4. Doors!Enter(c) BY <2>1, <2>2, <2>3 DEF Doors!Enter, Doors!Move
    <2> QED BY <2>4 DEF Doors!Next
  <1>3. ASSUME NEW c \in Conns, Acquire(c) PROVE Doors!Next
    <2>1. /\ pc[c] = "queued" /\ pc' = [pc EXCEPT ![c] = "admitted"]
          /\ listening' = listening /\ config' = config
      BY <1>3 DEF Acquire, Goto
    <2>0. config.max = 0 \/ permits > 0 BY <1>3 DEF Acquire
    <2>2. Where' = [Where EXCEPT ![c] = "inside"]
      <3>1. PICK l \in {"admitted"} : pc' = [pc EXCEPT ![c] = l] BY <2>1
      <3> QED BY <1>0, <3>1, WhereMoves
    <2>3. Where[c] = "waiting" BY <2>1 DEF Where
    <2>4. Cardinality(Holders) \in Nat BY CountedFinite
    <2>5. config.max = 0 \/ Cardinality(Holders) < config.max
      BY <1>0, <2>0, <2>4 DEF CountInv, TypeOK
    <2>6. config.max = 0 \/ Doors!Cardinality(Doors!Inside) < config.max
      BY <1>0, <2>5, InsideIsHolders, SameCardinality
    <2>7. Doors!Move(c, "waiting", "inside") BY <2>2, <2>3 DEF Doors!Move
    <2>8. listening' = listening /\ config.max' = config.max BY <2>1
    <2>9. Doors!Admit(c) BY <2>6, <2>7, <2>8 DEF Doors!Admit
    <2> QED BY <2>9 DEF Doors!Next
  <1>4. ASSUME NEW c \in Conns, IncActive(c) \/ DecActive(c) PROVE UNCHANGED Doors!vars
    <2>1. PICK l \in {"peek", "counted"} : pc' = [pc EXCEPT ![c] = l]
      BY <1>4 DEF IncActive, DecActive, Goto
    <2>2. pc[c] \in {"admitted", "returned"} /\ listening' = listening /\ config' = config
      BY <1>4 DEF IncActive, DecActive
    <2>3. Where' = [Where EXCEPT ![c] = "inside"] BY <1>0, <2>1, WhereMoves
    <2>4. Where[c] = "inside" BY <2>2 DEF Where
    <2>5. Where' = Where BY <2>3, <2>4 DEF Where
    <2> QED BY <2>2, <2>5
  <1>5. ASSUME NEW c \in Conns, Release(c) PROVE Doors!Next
    <2>1. /\ pc[c] = "counted" /\ pc' = [pc EXCEPT ![c] = "closed"]
          /\ listening' = listening /\ config' = config
      BY <1>5 DEF Release, Goto
    <2>2. Where' = [Where EXCEPT ![c] = "gone"] BY <1>0, <2>1, WhereMoves
    <2>3. Where[c] = "inside" BY <2>1 DEF Where
    <2>4. Doors!Leave(c) BY <2>1, <2>2, <2>3 DEF Doors!Leave, Doors!Move
    <2> QED BY <2>4 DEF Doors!Next
  <1>6. CASE StopListening
    <2>1. listening /\ listening' = FALSE /\ config' = config /\ pc' = pc
      BY <1>6 DEF StopListening
    <2>2. Where' = Where BY <2>1 DEF Where
    <2> QED BY <2>1, <2>2 DEF Doors!Next, Doors!Close
  <1>7. ASSUME pc' = pc, config' = config, listening' = listening
        PROVE  UNCHANGED Doors!vars
    BY <1>7 DEF Where
  <1>8. CASE Finished \/ UNCHANGED vars \/ (\E u \in Urls : Drop(u))
    BY <1>7, <1>8 DEF Finished, vars, Drop, serverVars
  <1>9. ASSUME NEW c \in Conns, Answered(c) \/ InTime(c) \/ TimedOut(c)
        PROVE  UNCHANGED Doors!vars
    BY <1>0, <1>1, <1>9, AnsweredMoves
  <1> QED BY <1>2, <1>3, <1>4, <1>5, <1>6, <1>8, <1>9 DEF Next, Task

\* For any finite number of clients and any limit, the server admits its
\* clients as Admission says.
THEOREM ServerImplementsAdmission == Spec => ImplementsAdmission
  <1>1. Init => Doors!Init
    <2> SUFFICES ASSUME Init PROVE Doors!Init
      OBVIOUS
    <2>1. Where = [c \in Conns |-> "outside"] BY DEF Init, Where
    <2>2. listening = TRUE /\ config.max \in Limits BY DEF Init
    <2> QED BY <2>1, <2>2 DEF Doors!Init
  <1>2. Inv /\ [Next]_vars => [Doors!Next]_Doors!vars BY AdmissionStep
  <1> QED
    BY <1>1, <1>2, InvInit, InvNext, PTL DEF Spec, ImplementsAdmission, Doors!Spec

-----------------------------------------------------------------------------
(* The mirror tracker that the mirror branch of the handler feeds: MirrorHealth *)

Consistent(h) == h \in Entries /\ (h.disabled <=> (h.failures = Threshold))

TrackerInv ==
    /\ health \in [Mirrors -> Entries]
    /\ \A m \in Mirrors : Consistent(health[m])

USE ThresholdAssumption, RecoveryAssumption, TimesAssumption

\* A saturated count reaches the threshold exactly at the last failure.
LEMMA SaturatedType ==
    ASSUME NEW n \in 0..Threshold
    PROVE  Saturated(n) \in 0..Threshold
  BY DEF Saturated

\* The moving average stays a natural number.
LEMMA AverageType ==
    ASSUME NEW h \in Entries, NEW t \in Times
    PROVE  Average(h, t) \in Nat
<1>1. t \in Nat /\ h.avg \in Nat
  BY DEF Entries
<1>2. 3 * t + 7 * h.avg \in Nat
  BY <1>1
<1>3. \A n \in Nat : n \div 10 \in Nat
  OBVIOUS
<1> QED
  BY <1>1, <1>2, <1>3 DEF Average

\* record_success leaves an enabled mirror with no failures.
LEMMA SuccessConsistent ==
    ASSUME NEW h, Consistent(h), NEW t \in Times
    PROVE  Consistent(RecordSuccess(h, t))
<1>1. RecordSuccess(h, t) \in Entries
  <2>1. Average(h, t) \in Nat /\ 0 \in 0..Threshold /\ 0 \in 0..RecoveryTicks
    BY AverageType DEF Consistent
  <2> QED
    BY <2>1 DEF RecordSuccess, Entries
<1>2. RecordSuccess(h, t).failures # Threshold /\ ~RecordSuccess(h, t).disabled
  BY DEF RecordSuccess
<1> QED
  BY <1>1, <1>2 DEF Consistent

\* record_failure disables exactly at the threshold.
LEMMA FailureConsistent ==
    ASSUME NEW h, Consistent(h)
    PROVE  Consistent(RecordFailure(h))
<1> DEFINE n == Saturated(h.failures)
<1>1. h \in Entries /\ h.failures \in 0..Threshold /\ n \in 0..Threshold
  BY SaturatedType DEF Consistent, Entries
<1>2. (h.disabled \/ n >= Threshold) \in BOOLEAN
  OBVIOUS
<1>3. RecordFailure(h) \in Entries
  BY <1>1, <1>2 DEF RecordFailure, Entries
<1>4. RecordFailure(h).failures = n
      /\ (RecordFailure(h).disabled <=> (h.disabled \/ n >= Threshold))
  BY <1>1 DEF RecordFailure, Entries
<1>5. (h.disabled \/ n >= Threshold) <=> n = Threshold
  BY <1>1 DEF Consistent, Saturated
<1> QED
  BY <1>3, <1>4, <1>5 DEF Consistent

\* is_available enables a mirror only together with resetting its count.
LEMMA CheckConsistent ==
    ASSUME NEW h, Consistent(h)
    PROVE  Consistent(AfterCheck(h))
<1>1. CASE Recovers(h)
  <2>1. 0 \in 0..Threshold /\ 0 \in 0..RecoveryTicks /\ 0 # Threshold
    OBVIOUS
  <2>2. AfterCheck(h) \in Entries
    BY <1>1, <2>1 DEF AfterCheck, Consistent, Entries
  <2>3. AfterCheck(h).failures = 0 /\ ~AfterCheck(h).disabled
    BY <1>1 DEF AfterCheck, Consistent, Entries
  <2> QED
    BY <2>1, <2>2, <2>3 DEF Consistent
<1>2. CASE ~Recovers(h)
  BY <1>2 DEF AfterCheck
<1> QED
  BY <1>1, <1>2

\* Updating one entry consistently keeps all of them consistent.
LEMMA UpdateOne ==
    ASSUME TrackerInv, NEW m, NEW h, Consistent(h),
           health' = [health EXCEPT ![m] = h]
    PROVE  TrackerInv'
  BY DEF TrackerInv, Consistent

\* Every step keeps the entries consistent.
LEMMA TrackerInvNext ==
    ASSUME TrackerInv, [TrackerNext]_trackerVars,
           \A r \in Requests : req[r].at # "idle" => req[r].mirror \in Mirrors
    PROVE  TrackerInv'
<1>1. CASE UNCHANGED health
  BY <1>1 DEF TrackerInv
<1>2. ASSUME NEW r \in Requests, NEW t \in Times,
             MirrorConnected(r, t) \/ OriginConnected(r, t)
      PROVE  TrackerInv'
  <2>1. req[r].mirror \in Mirrors
        /\ health' = [health EXCEPT ![req[r].mirror] =
                                       RecordSuccess(health[req[r].mirror], t)]
    BY <1>2 DEF MirrorConnected, OriginConnected
  <2> QED
    BY <2>1, SuccessConsistent, UpdateOne DEF TrackerInv
<1>3. ASSUME NEW r \in Requests, MirrorFailed(r)
      PROVE  TrackerInv'
  <2>1. req[r].mirror \in Mirrors
        /\ health' = [health EXCEPT ![req[r].mirror] =
                                       RecordFailure(health[req[r].mirror])]
    BY <1>3 DEF MirrorFailed
  <2> QED
    BY <2>1, FailureConsistent, UpdateOne DEF TrackerInv
<1>4. ASSUME NEW c \in Callers, NEW m \in Mirrors, Filter(c, m)
      PROVE  TrackerInv'
  <2>1. health' = [health EXCEPT ![m] = AfterCheck(health[m])]
    BY <1>4 DEF Filter
  <2> QED
    BY <2>1, CheckConsistent, UpdateOne DEF TrackerInv
<1>5. CASE Tick
  <2> SUFFICES ASSUME NEW m \in Mirrors PROVE Consistent(health'[m])
    <3>1. health' = [x \in Mirrors |-> health'[x]]
      BY <1>5 DEF Tick
    <3> QED
      BY <3>1 DEF TrackerInv, Consistent
  <2>1. Consistent(health[m])
    BY DEF TrackerInv
  <2>2. CASE Aging(health[m])
    <3>1. health'[m] = [health[m] EXCEPT !.age = @ + 1]
      BY <1>5, <2>2 DEF Tick
    <3>2. health[m].age + 1 \in 0..RecoveryTicks
      BY <2>1, <2>2 DEF Aging, Consistent, Entries
    <3> QED
      BY <3>1, <3>2, <2>1 DEF Consistent, Entries
  <2>3. CASE ~Aging(health[m])
    BY <1>5, <2>1, <2>3 DEF Tick
  <2> QED
    BY <2>2, <2>3
<1> QED
  BY <1>1, <1>2, <1>3, <1>4, <1>5
     DEF TrackerNext, RequestStep, Selection, StartRequest, OriginFailed, StartSelect, Pick,
         trackerVars

ReqRecords == [at : {"idle", "mirror", "origin"}, mirror : Mirrors \cup {NoMirror}]

\* A request that is under way knows its mirror.
ReqInv ==
    /\ req \in [Requests -> ReqRecords]
    /\ \A r \in Requests : req[r].at # "idle" => req[r].mirror \in Mirrors

\* Requests keep the mirror they were started with.
LEMMA ReqInvNext ==
    ASSUME ReqInv, [TrackerNext]_trackerVars
    PROVE  ReqInv'
<1> USE DEF ReqInv
<1>1. CASE UNCHANGED req
  BY <1>1
<1>2. ASSUME NEW r \in Requests, NEW m \in Mirrors, StartRequest(r, m)
      PROVE  ReqInv'
  <2>1. req' = [req EXCEPT ![r] = [at |-> "mirror", mirror |-> m]]
    BY <1>2 DEF StartRequest
  <2>2. [at |-> "mirror", mirror |-> m] \in ReqRecords
    BY DEF ReqRecords
  <2> QED
    BY <2>1, <2>2
<1>3. ASSUME NEW r \in Requests, req' = [req EXCEPT ![r] = IdleReq]
      PROVE  ReqInv'
  <2>1. IdleReq \in ReqRecords /\ IdleReq.at = "idle"
    BY DEF ReqRecords, IdleReq
  <2> QED
    BY <1>3, <2>1
<1>4. ASSUME NEW r \in Requests, MirrorFailed(r)
      PROVE  ReqInv'
  <2>1. req' = [req EXCEPT ![r] = [req[r] EXCEPT !.at = "origin"]]
        /\ req[r].mirror \in Mirrors
    BY <1>4 DEF MirrorFailed
  <2>2. [req[r] EXCEPT !.at = "origin"] \in ReqRecords
        /\ [req[r] EXCEPT !.at = "origin"].mirror = req[r].mirror
    BY DEF ReqRecords
  <2> QED
    BY <2>1, <2>2
<1> QED
  BY <1>1, <1>2, <1>3, <1>4
     DEF TrackerNext, RequestStep, Selection, MirrorConnected, OriginConnected,
         OriginFailed, StartSelect, Filter, Pick, Tick, trackerVars

\* Initially no mirror has an entry and no request is under way.
LEMMA TrackerInvInit == TrackerInit => TrackerInv /\ ReqInv
<1> SUFFICES ASSUME TrackerInit PROVE TrackerInv /\ ReqInv
  OBVIOUS
<1>1. Consistent(MirrorHealthDefault)
  <2>1. 0 \in 0..Threshold /\ 0 \in 0..RecoveryTicks /\ 0 # Threshold /\ 0 \in Nat
    OBVIOUS
  <2> QED
    BY <2>1 DEF Consistent, MirrorHealthDefault, Entries
<1>2. TrackerInv
  BY <1>1 DEF TrackerInit, TrackerInv, Consistent
<1>3. ReqInv
  BY DEF TrackerInit, ReqInv, ReqRecords, IdleReq
<1> QED
  BY <1>2, <1>3

\* Both invariants hold in every reachable state.
LEMMA TrackerInvariance == TrackerSpec => [](TrackerInv /\ ReqInv)
<1>1. TrackerInv /\ ReqInv /\ [TrackerNext]_trackerVars => (TrackerInv /\ ReqInv)'
  BY TrackerInvNext, ReqInvNext DEF ReqInv
<1> QED
  BY <1>1, TrackerInvInit, PTL DEF TrackerSpec

\* record_success, record_failure and is_available, in any interleaving of
\* requests and selections, keep disabled_at set exactly while the count of
\* consecutive failures is at the threshold.
THEOREM DisabledExactlyAtThreshold == TrackerSpec => []DisabledIffThreshold
<1>1. TrackerInv => DisabledIffThreshold
  BY DEF TrackerInv, Consistent, DisabledIffThreshold
<1> QED
  BY <1>1, TrackerInvariance, PTL

\* The age of a disabled mirror never goes back while it stays disabled.
LEMMA AgeGrows ==
    ASSUME TrackerInv, ReqInv, [TrackerNext]_trackerVars, NEW m \in Mirrors,
           health[m].disabled, health'[m].disabled
    PROVE  health'[m].age >= health[m].age
<1>1. health[m] \in Entries /\ health[m].age \in Nat
  BY DEF TrackerInv, Entries
<1>2. CASE health'[m] = health[m]
  BY <1>1, <1>2
<1>3. CASE health'[m] = RecordFailure(health[m])
  BY <1>1, <1>3 DEF RecordFailure, Entries
<1>4. ASSUME NEW t \in Times, health'[m] = RecordSuccess(health[m], t)
      PROVE  FALSE
  BY <1>4 DEF RecordSuccess
<1>5. CASE health'[m] = AfterCheck(health[m])
  BY <1>1, <1>5 DEF AfterCheck, Entries
<1>6. CASE Tick
  BY <1>1, <1>6 DEF Tick, Entries
<1>7. ASSUME NEW n \in Mirrors, NEW h, health' = [health EXCEPT ![n] = h]
      PROVE  health'[m] = IF m = n THEN h ELSE health[m]
  BY <1>7 DEF TrackerInv
<1>8. ASSUME NEW r \in Requests, NEW t \in Times,
             MirrorConnected(r, t) \/ OriginConnected(r, t)
      PROVE  health'[m] = health[m]
  <2>1. req[r].mirror \in Mirrors
        /\ health' = [health EXCEPT ![req[r].mirror] =
                                       RecordSuccess(health[req[r].mirror], t)]
    BY <1>8 DEF MirrorConnected, OriginConnected, ReqInv
  <2> QED
    BY <2>1, <1>4, <1>7
<1>9. ASSUME NEW r \in Requests, MirrorFailed(r)
      PROVE  health'[m] = health[m] \/ health'[m] = RecordFailure(health[m])
  <2>1. req[r].mirror \in Mirrors
        /\ health' = [health EXCEPT ![req[r].mirror] =
                                       RecordFailure(health[req[r].mirror])]
    BY <1>9 DEF MirrorFailed, ReqInv
  <2> QED
    BY <2>1, <1>7
<1>10. ASSUME NEW c \in Callers, NEW n \in Mirrors, Filter(c, n)
       PROVE  health'[m] = health[m] \/ health'[m] = AfterCheck(health[m])
  <2>1. health' = [health EXCEPT ![n] = AfterCheck(health[n])]
    BY <1>10 DEF Filter
  <2> QED
    BY <2>1, <1>7
<1>11. UNCHANGED health => health'[m] = health[m]
  OBVIOUS
<1> QED
  BY <1>2, <1>3, <1>5, <1>6, <1>8, <1>9, <1>10, <1>11
     DEF TrackerNext, RequestStep, Selection, StartRequest, OriginFailed, StartSelect, Pick,
         trackerVars

\* Failures of a disabled mirror do not postpone its recovery.
THEOREM RecoveryTimeKept == TrackerSpec => RecoveryNotPostponed
<1>1. TrackerInv /\ ReqInv /\ [TrackerNext]_trackerVars =>
        [\A m \in Mirrors : health[m].disabled /\ health'[m].disabled =>
            health'[m].age >= health[m].age]_trackerVars
  BY AgeGrows
<1> QED
  BY <1>1, TrackerInvariance, PTL DEF TrackerSpec, RecoveryNotPostponed

-----------------------------------------------------------------------------
(* Sequences of characters *)

\* A set of natural numbers that is not empty has a least one.
LEMMA LeastNatural ==
  ASSUME NEW S \in SUBSET Nat, S # {}
  PROVE  \E m \in S : \A n \in S : m <= n
  <1> DEFINE Less == {p \in Nat \X Nat : p[1] < p[2]}
  <1>1. IsWellFoundedOn(Less, Nat)
    BY NatLessThanWellFounded DEF OpToRel
  <1> HIDE DEF Less
  <1>2. PICK m \in S : \A n \in S : <<n, m>> \notin Less
    BY <1>1, WFMin
  <1>3. \A n \in S : ~(n < m)
    BY <1>2 DEF Less
  <1> QED
    BY <1>3

\* A prefix, character by character.
LEMMA PrefixByCharacter ==
  ASSUME NEW s \in Seq(Characters), NEW t \in Seq(Characters)
  PROVE  IsPrefix(s, t) <=> Len(s) <= Len(t) /\ \A k \in 1..Len(s) : s[k] = t[k]
  <1>1. ASSUME Len(s) <= Len(t)
        PROVE  /\ SubSeq(s, 1, Len(s)) = [k \in 1..Len(s) |-> s[k]]
               /\ SubSeq(t, 1, Len(s)) = [k \in 1..Len(s) |-> t[k]]
    BY <1>1
  <1>2. [k \in 1..Len(s) |-> s[k]] = [k \in 1..Len(s) |-> t[k]]
          <=> \A k \in 1..Len(s) : s[k] = t[k]
    OBVIOUS
  <1> QED
    BY <1>1, <1>2 DEF IsPrefix

\* The same for a suffix, whose characters are counted from the end.
LEMMA SuffixByCharacter ==
  ASSUME NEW s \in Seq(Characters), NEW t \in Seq(Characters)
  PROVE  IsSuffix(s, t) <=>
           Len(s) <= Len(t) /\ \A k \in 1..Len(s) : s[k] = t[Len(t) - Len(s) + k]
  <1> DEFINE m == Len(s)
             n == Len(t)
  <1>1. /\ Reverse(s) \in Seq(Characters) /\ Len(Reverse(s)) = m
        /\ Reverse(t) \in Seq(Characters) /\ Len(Reverse(t)) = n
        /\ \A k \in 1..m : Reverse(s)[k] = s[m - k + 1]
        /\ \A k \in 1..n : Reverse(t)[k] = t[n - k + 1]
    BY DEF Reverse
  <1>2. IsSuffix(s, t) <=> m <= n /\ \A k \in 1..m : Reverse(s)[k] = Reverse(t)[k]
    BY <1>1, PrefixByCharacter DEF IsSuffix
  <1>3. m \in Nat /\ n \in Nat
    OBVIOUS
  <1> HIDE DEF m, n
  <1>4. ASSUME m <= n
        PROVE  (\A k \in 1..m : Reverse(s)[k] = Reverse(t)[k])
                 <=> \A k \in 1..m : s[k] = t[n - m + k]
    <2>1. ASSUME \A k \in 1..m : Reverse(s)[k] = Reverse(t)[k], NEW k \in 1..m
          PROVE  s[k] = t[n - m + k]
      <3>1. m - k + 1 \in 1..m /\ m - k + 1 \in 1..n
        BY <1>3, <1>4
      <3>2. s[m - (m - k + 1) + 1] = t[n - (m - k + 1) + 1]
        BY <1>1, <2>1, <3>1
      <3>3. m - (m - k + 1) + 1 = k /\ n - (m - k + 1) + 1 = n - m + k
        BY <1>3
      <3> QED
        BY <3>2, <3>3
    <2>2. ASSUME \A k \in 1..m : s[k] = t[n - m + k], NEW k \in 1..m
          PROVE  Reverse(s)[k] = Reverse(t)[k]
      <3>1. m - k + 1 \in 1..m /\ k \in 1..n
        BY <1>3, <1>4
      <3>2. s[m - k + 1] = t[n - m + (m - k + 1)]
        BY <2>2, <3>1
      <3>3. n - m + (m - k + 1) = n - k + 1
        BY <1>3
      <3> QED
        BY <1>1, <3>1, <3>2, <3>3
    <2> QED
      BY <2>1, <2>2
  <1> QED
    BY <1>2, <1>4 DEF m, n

\* Two pieces in a row, character by character.
LEMMA ConcatByCharacter ==
  ASSUME NEW s \in Seq(Characters), NEW t \in Seq(Characters)
  PROVE  /\ s \o t \in Seq(Characters) /\ Len(s \o t) = Len(s) + Len(t)
         /\ \A k \in 1..Len(s) : (s \o t)[k] = s[k]
         /\ \A k \in 1..Len(t) : (s \o t)[Len(s) + k] = t[k]
  <1>1. s \o t \in Seq(Characters) /\ Len(s \o t) = Len(s) + Len(t)
    OBVIOUS
  <1>2. \A k \in 1..Len(s) : (s \o t)[k] = s[k]
    OBVIOUS
  <1>3. ASSUME NEW k \in 1..Len(t) PROVE (s \o t)[Len(s) + k] = t[k]
    <2>1. Len(s) + k \in 1..(Len(s) + Len(t)) /\ ~(Len(s) + k <= Len(s))
      OBVIOUS
    <2>2. (s \o t)[Len(s) + k] = t[(Len(s) + k) - Len(s)]
      BY <2>1
    <2> QED
      BY <2>2
  <1> QED
    BY <1>1, <1>2, <1>3

\* A piece of a sequence, character by character.
LEMMA PieceByCharacter ==
  ASSUME NEW s \in Seq(Characters), NEW i \in 0..Len(s), NEW j \in 0..Len(s), i <= j
  PROVE  /\ SubSeq(s, i + 1, j) \in Seq(Characters) /\ Len(SubSeq(s, i + 1, j)) = j - i
         /\ \A k \in 1..(j - i) : SubSeq(s, i + 1, j)[k] = s[i + k]
  OBVIOUS

\* The first characters of a sequence.
LEMMA FrontByCharacter ==
  ASSUME NEW s \in Seq(Characters), NEW j \in 0..Len(s)
  PROVE  /\ SubSeq(s, 1, j) \in Seq(Characters) /\ Len(SubSeq(s, 1, j)) = j
         /\ \A k \in 1..j : SubSeq(s, 1, j)[k] = s[k]
  OBVIOUS

\* d is three pieces in a row, character by character.
InPieces(d, a, m, b) ==
  /\ Len(d) = Len(a) + Len(m) + Len(b)
  /\ \A k \in 1..Len(a) : d[k] = a[k]
  /\ \A k \in 1..Len(m) : d[Len(a) + k] = m[k]
  /\ \A k \in 1..Len(b) : d[Len(a) + Len(m) + k] = b[k]

\* d begins with a, ends with b and has a piece of its own between them.
HasMiddle(d, a, b) ==
  \E i, j \in 0..Len(d) : i <= j /\ d = a \o SubSeq(d, i + 1, j) \o b

\* Three sequences are the pieces of their concatenation.
LEMMA ThreePieces ==
  ASSUME NEW a \in Seq(Characters), NEW m \in Seq(Characters), NEW b \in Seq(Characters)
  PROVE  a \o m \o b \in Seq(Characters) /\ InPieces(a \o m \o b, a, m, b)
  <1>1. PICK am \in Seq(Characters) : am = a \o m
    BY ConcatByCharacter
  <1>2. /\ Len(am) = Len(a) + Len(m)
        /\ \A k \in 1..Len(a) : am[k] = a[k]
        /\ \A k \in 1..Len(m) : am[Len(a) + k] = m[k]
    BY <1>1, ConcatByCharacter
  <1>3. PICK all \in Seq(Characters) : all = am \o b
    BY ConcatByCharacter
  <1>4. /\ Len(all) = Len(am) + Len(b)
        /\ \A k \in 1..Len(am) : all[k] = am[k]
        /\ \A k \in 1..Len(b) : all[Len(am) + k] = b[k]
    BY <1>3, ConcatByCharacter
  <1>5. /\ \A k \in 1..Len(a) : k \in 1..Len(am)
        /\ \A k \in 1..Len(m) : Len(a) + k \in 1..Len(am)
    BY <1>2
  <1>6. InPieces(all, a, m, b)
    BY <1>2, <1>4, <1>5 DEF InPieces
  <1> QED
    BY <1>1, <1>3, <1>6

\* A sequence that is three pieces, character by character, is their concatenation.
LEMMA AssembledPieces ==
  ASSUME NEW d \in Seq(Characters), NEW a \in Seq(Characters),
         NEW m \in Seq(Characters), NEW b \in Seq(Characters), InPieces(d, a, m, b)
  PROVE  d = a \o m \o b
  <1>1. PICK e \in Seq(Characters) : e = a \o m \o b /\ InPieces(e, a, m, b)
    BY ThreePieces
  <1> DEFINE x == Len(a)
             y == Len(m)
             z == Len(b)
  <1>2. x \in Nat /\ y \in Nat /\ z \in Nat
    OBVIOUS
  <1>3. Len(e) = x + y + z /\ Len(d) = x + y + z
    BY <1>1 DEF InPieces
  <1>4. \A k \in 1..x : d[k] = e[k]
    BY <1>1 DEF InPieces
  <1>5. \A k \in 1..y : d[x + k] = e[x + k]
    BY <1>1 DEF InPieces
  <1>6. \A k \in 1..z : d[x + y + k] = e[x + y + k]
    BY <1>1 DEF InPieces
  <1> HIDE DEF x, y, z
  <1>7. ASSUME NEW k \in 1..(x + y + z) PROVE d[k] = e[k]
    <2>1. CASE k <= x
      BY <1>2, <1>4, <2>1
    <2>2. CASE k > x /\ k <= x + y
      <3>1. k - x \in 1..y /\ k = x + (k - x)
        BY <1>2, <2>2
      <3> QED
        BY <1>5, <3>1
    <2>3. CASE k > x + y
      <3>1. k - (x + y) \in 1..z /\ k = x + y + (k - (x + y))
        BY <1>2, <2>3
      <3> QED
        BY <1>6, <3>1
    <2> QED
      BY <1>2, <2>1, <2>2, <2>3
  <1>8. d = e
    BY <1>3, <1>7
  <1> QED
    BY <1>1, <1>8

\* A pair at the front of a sequence.
LEMMA PairInFront ==
  ASSUME NEW x \in Characters, NEW y \in Characters, NEW t \in Seq(Characters)
  PROVE  IsPrefix(<<x, y>>, t) <=> Len(t) >= 2 /\ t[1] = x /\ t[2] = y
  <1>1. /\ <<x, y>> \in Seq(Characters) /\ Len(<<x, y>>) = 2
        /\ <<x, y>>[1] = x /\ <<x, y>>[2] = y
    OBVIOUS
  <1>2. PICK s \in Seq(Characters) : s = <<x, y>> /\ Len(s) = 2 /\ s[1] = x /\ s[2] = y
    BY <1>1
  <1>3. IsPrefix(s, t) <=> 2 <= Len(t) /\ \A k \in 1..2 : s[k] = t[k]
    BY <1>2, PrefixByCharacter
  <1>4. 1..2 = {1, 2}
    OBVIOUS
  <1> QED
    BY <1>2, <1>3, <1>4

\* The pieces of a sequence before and behind one of its characters.
LEMMA PiecesAround ==
  ASSUME NEW s \in Seq(Characters), NEW i \in 1..Len(s)
  PROVE  /\ SubSeq(s, 1, i - 1) \in Seq(Characters) /\ Len(SubSeq(s, 1, i - 1)) = i - 1
         /\ IsPrefix(SubSeq(s, 1, i - 1), s)
         /\ SubSeq(s, i + 1, Len(s)) \in Seq(Characters)
         /\ Len(SubSeq(s, i + 1, Len(s))) = Len(s) - i
         /\ IsSuffix(SubSeq(s, i + 1, Len(s)), s)
  <1>0. Len(s) \in Nat /\ i - 1 \in 0..Len(s)
    OBVIOUS
  <1>1. PICK a \in Seq(Characters) :
          /\ a = SubSeq(s, 1, i - 1) /\ Len(a) = i - 1
          /\ \A k \in 1..(i - 1) : a[k] = s[k]
    BY <1>0, FrontByCharacter
  <1>2. PICK b \in Seq(Characters) :
          /\ b = SubSeq(s, i + 1, Len(s)) /\ Len(b) = Len(s) - i
          /\ \A k \in 1..(Len(s) - i) : b[k] = s[i + k]
    <2>1. /\ SubSeq(s, i + 1, Len(s)) \in Seq(Characters)
          /\ Len(SubSeq(s, i + 1, Len(s))) = Len(s) - i
          /\ \A k \in 1..(Len(s) - i) : SubSeq(s, i + 1, Len(s))[k] = s[i + k]
      BY <1>0, PieceByCharacter
    <2> QED
      BY <1>0, <2>1
  <1>3. IsPrefix(a, s)
    <2>1. Len(a) <= Len(s) /\ \A k \in 1..Len(a) : a[k] = s[k]
      BY <1>0, <1>1
    <2> QED
      BY <2>1, PrefixByCharacter
  <1>4. IsSuffix(b, s)
    <2>1. Len(s) - Len(b) = i /\ Len(b) <= Len(s)
      BY <1>0, <1>2
    <2> QED
      BY <1>2, <2>1, SuffixByCharacter
  <1> QED
    BY <1>1, <1>2, <1>3, <1>4

\* A sequence with a piece in the middle left open.
LEMMA MiddleLeftOpen ==
  ASSUME NEW d \in Seq(Characters), NEW a \in Seq(Characters), NEW b \in Seq(Characters)
  PROVE  HasMiddle(d, a, b)
           <=> IsPrefix(a, d) /\ IsSuffix(b, d) /\ Len(d) >= Len(a) + Len(b)
  <1>0. Len(a) \in Nat /\ Len(b) \in Nat /\ Len(d) \in Nat
    OBVIOUS
  <1>1. ASSUME NEW i \in 0..Len(d), NEW j \in 0..Len(d), i <= j,
               d = a \o SubSeq(d, i + 1, j) \o b
        PROVE  IsPrefix(a, d) /\ IsSuffix(b, d) /\ Len(d) >= Len(a) + Len(b)
    <2>1. PICK m \in Seq(Characters) : m = SubSeq(d, i + 1, j)
      BY <1>1, PieceByCharacter
    <2>2. /\ Len(m) \in Nat /\ Len(d) = Len(a) + Len(m) + Len(b)
          /\ \A k \in 1..Len(a) : d[k] = a[k]
          /\ \A k \in 1..Len(b) : d[Len(a) + Len(m) + k] = b[k]
      <3>1. d = a \o m \o b
        BY <1>1, <2>1
      <3>2. InPieces(d, a, m, b)
        BY <3>1, ThreePieces
      <3> QED
        BY <3>2 DEF InPieces
    <2>3. /\ Len(d) >= Len(a) + Len(b) /\ Len(a) <= Len(d) /\ Len(b) <= Len(d)
          /\ Len(a) + Len(m) = Len(d) - Len(b)
      BY <1>0, <2>2
    <2> QED
      BY <2>2, <2>3, PrefixByCharacter, SuffixByCharacter
  <1>2. ASSUME IsPrefix(a, d), IsSuffix(b, d), Len(d) >= Len(a) + Len(b)
        PROVE  HasMiddle(d, a, b)
    <2>0. Len(a) \in 0..Len(d) /\ Len(d) - Len(b) \in 0..Len(d)
      BY <1>0, <1>2
    <2>1. PICK i \in 0..Len(d), j \in 0..Len(d) : i = Len(a) /\ j = Len(d) - Len(b)
      BY <2>0
    <2>2. i <= j
      BY <1>0, <1>2, <2>1
    <2>3. PICK m \in Seq(Characters) : m = SubSeq(d, i + 1, j)
      BY <2>2, PieceByCharacter
    <2>4. Len(m) = j - i /\ \A k \in 1..(j - i) : m[k] = d[i + k]
      BY <2>2, <2>3, PieceByCharacter
    <2>5. /\ Len(d) = Len(a) + Len(m) + Len(b) /\ Len(a) + Len(m) = Len(d) - Len(b)
          /\ \A k \in 1..Len(m) : d[Len(a) + k] = m[k]
      BY <1>0, <2>1, <2>4
    <2>6. /\ \A k \in 1..Len(a) : d[k] = a[k]
          /\ \A k \in 1..Len(b) : d[Len(a) + Len(m) + k] = b[k]
      <3>1. \A k \in 1..Len(a) : d[k] = a[k]
        BY <1>2, PrefixByCharacter
      <3>2. \A k \in 1..Len(b) : b[k] = d[Len(d) - Len(b) + k]
        BY <1>2, SuffixByCharacter
      <3> QED
        BY <2>5, <3>1, <3>2
    <2>7. d = a \o m \o b
      <3>1. InPieces(d, a, m, b)
        BY <2>5, <2>6 DEF InPieces
      <3> QED
        BY <3>1, AssembledPieces
    <2> QED
      BY <2>2, <2>3, <2>7 DEF HasMiddle
  <1> QED
    BY <1>1, <1>2 DEF HasMiddle

-----------------------------------------------------------------------------
(* What the comparisons of a rule mean *)

\* The first star of a name that has one.
LEMMA StarIsFirst ==
  ASSUME NEW from \in Seq(Characters), Contains(from, "*")
  PROVE  /\ Star(from) \in 1..Len(from) /\ from[Star(from)] = "*"
         /\ \A j \in 1..(Star(from) - 1) : from[j] # "*"
  <1> DEFINE S == {i \in 1..Len(from) : from[i] = "*"}
  <1>1. S \in SUBSET Nat /\ S # {}
    BY DEF Contains
  <1>2. PICK m \in S : \A i \in S : m <= i
    BY <1>1, LeastNatural
  <1>3. \A j \in 1..(m - 1) : j \in 1..Len(from) /\ ~(m <= j)
    BY <1>2
  <1>4. /\ m \in 1..Len(from) /\ from[m] = "*"
        /\ \A j \in 1..(m - 1) : from[j] # "*"
    BY <1>2, <1>3
  <1> QED
    BY <1>4 DEF Star

\* There is one first star.
LEMMA OneFirstStar ==
  ASSUME NEW from \in Seq(Characters), NEW star \in 1..Len(from), from[star] = "*",
         \A k \in 1..(star - 1) : from[k] # "*"
  PROVE  star = Star(from) /\ Contains(from, "*")
  <1>1. Contains(from, "*")
    BY DEF Contains
  <1>2. /\ Star(from) \in 1..Len(from) /\ from[Star(from)] = "*"
        /\ \A j \in 1..(Star(from) - 1) : from[j] # "*"
    BY <1>1, StarIsFirst
  <1>3. ~(star < Star(from)) /\ ~(Star(from) < star)
    BY <1>2
  <1> QED
    BY <1>1, <1>2, <1>3

\* The comparison of domains is what a domain pattern means: nothing that a star
\* could stand for is missed, and prefix and suffix never overlap.
LEMMA DomainMeaning ==
  ASSUME NEW rule \in Rules, NEW d \in Seq(Characters)
  PROVE  DomainMatches(rule, d) <=> Covers(rule.from, d)
  <1>1. PICK from \in Seq(Characters) : from = rule.from
    BY DEF Rules
  <1> DEFINE star == Star(from)
             Dotted == IsPrefix(<<"*", ".">>, from)
             Open(k) == LET a == SubSeq(from, 1, k - 1)
                            b == SubSeq(from, k + 1, Len(from))
                        IN IsPrefix(a, d) /\ IsSuffix(b, d) /\ Len(d) >= Len(a) + Len(b)
  <1>2. Dotted <=> Len(from) >= 2 /\ from[1] = "*" /\ from[2] = "."
    BY MatcherConstants, PairInFront
  <1>3. Dotted => Contains(from, "*")
    BY <1>2 DEF Contains
  <1>4. ASSUME NEW k \in 1..Len(from)
        PROVE  Open(k) <=> \E i, j \in 0..Len(d) :
                 i <= j /\ d = SubSeq(from, 1, k - 1) \o SubSeq(d, i + 1, j)
                              \o SubSeq(from, k + 1, Len(from))
    <2>1. PICK a \in Seq(Characters) : a = SubSeq(from, 1, k - 1)
      BY PiecesAround
    <2>2. PICK b \in Seq(Characters) : b = SubSeq(from, k + 1, Len(from))
      BY PiecesAround
    <2>3. HasMiddle(d, a, b)
            <=> IsPrefix(a, d) /\ IsSuffix(b, d) /\ Len(d) >= Len(a) + Len(b)
      BY MiddleLeftOpen
    <2> QED
      BY <2>1, <2>2, <2>3 DEF HasMiddle
  <1> HIDE DEF Dotted, Open
  <1>5. Covers(from, d) <=>
          \/ d = from
          \/ Dotted /\ d = Tail(Tail(from))
          \/ Contains(from, "*") /\ Open(star)
    <2>1. ASSUME NEW k \in 1..Len(from), from[k] = "*", \A h \in 1..(k - 1) : from[h] # "*"
          PROVE  k = star /\ Contains(from, "*")
      BY <2>1, OneFirstStar
    <2>2. Contains(from, "*") => /\ star \in 1..Len(from) /\ from[star] = "*"
                                 /\ \A h \in 1..(star - 1) : from[h] # "*"
      BY StarIsFirst
    <2> HIDE DEF star
    <2>3. (\E k \in 1..Len(from), i, j \in 0..Len(d) :
             /\ from[k] = "*" /\ \A h \in 1..(k - 1) : from[h] # "*"
             /\ i <= j
             /\ d = SubSeq(from, 1, k - 1) \o SubSeq(d, i + 1, j)
                    \o SubSeq(from, k + 1, Len(from)))
           <=> \E k \in 1..Len(from) :
                 from[k] = "*" /\ (\A h \in 1..(k - 1) : from[h] # "*") /\ Open(k)
      BY <1>4
    <2>4. (\E k \in 1..Len(from) :
             from[k] = "*" /\ (\A h \in 1..(k - 1) : from[h] # "*") /\ Open(k))
           <=> Contains(from, "*") /\ Open(star)
      BY <2>1, <2>2
    <2> QED
      BY <2>3, <2>4 DEF Covers, Dotted
  <1>6. ListOf(rule) = IF Dotted THEN "suffix" ELSE IF Contains(from, "*") THEN "wildcard"
                       ELSE "exact"
    BY <1>1 DEF ListOf, Dotted
  <1>7. CASE ~Contains(from, "*")
    BY <1>1, <1>3, <1>5, <1>6, <1>7 DEF DomainMatches
  <1>8. CASE Contains(from, "*")
    <2>1. /\ star \in 1..Len(from) /\ from[star] = "*"
          /\ \A j \in 1..(star - 1) : from[j] # "*"
      BY <1>8, StarIsFirst
    <2>2. PICK a \in Seq(Characters) :
            a = SubSeq(from, 1, star - 1) /\ Len(a) = star - 1 /\ IsPrefix(a, from)
      BY <2>1, PiecesAround
    <2>3. PICK b \in Seq(Characters) :
            /\ b = SubSeq(from, star + 1, Len(from)) /\ Len(b) = Len(from) - star
            /\ IsSuffix(b, from)
      BY <2>1, PiecesAround
    <2>4. Open(star) <=> IsPrefix(a, d) /\ IsSuffix(b, d) /\ Len(d) >= star - 1 + Len(b)
      BY <2>2, <2>3 DEF Open
    <2>5. d = from => Open(star)
      BY <2>1, <2>2, <2>3, <2>4
    <2>6. CASE ~Dotted
      <3>1. DomainMatches(rule, d) <=> /\ IsPrefix(a, d) /\ IsSuffix(b, d)
                                      /\ Len(d) >= star - 1 + Len(b)
        BY <1>1, <1>6, <1>8, <2>2, <2>3, <2>6 DEF DomainMatches
      <3> QED
        BY <1>1, <1>5, <1>8, <2>4, <2>5, <2>6, <3>1
    <2>7. CASE Dotted
      <3>1. star = 1
        BY <1>2, <2>1, <2>7
      <3>2. DomainMatches(rule, d) <=> d = Tail(b) \/ IsSuffix(b, d)
        BY <1>1, <1>6, <2>3, <2>7 DEF DomainMatches
      <3>3. Tail(b) = Tail(Tail(from))
        BY <1>2, <2>3, <2>7, <3>1
      <3>4. Open(star) <=> IsSuffix(b, d)
        <4>1. IsPrefix(a, d)
          <5>1. Len(a) = 0 /\ Len(d) \in Nat
            BY <2>2, <3>1
          <5>2. Len(a) <= Len(d) /\ \A k \in 1..Len(a) : a[k] = d[k]
            BY <5>1
          <5> QED
            BY <5>2, PrefixByCharacter
        <4>2. IsSuffix(b, d) => Len(b) <= Len(d)
          BY SuffixByCharacter
        <4> QED
          BY <2>4, <3>1, <4>1, <4>2
      <3> QED
        BY <1>1, <1>5, <1>8, <2>5, <2>7, <3>2, <3>3, <3>4
    <2> QED
      BY <2>6, <2>7
  <1> QED
    BY <1>7, <1>8
-----------------------------------------------------------------------------
(* The walk over a path *)

\* Chunk k of a text takes the characters of s behind p up to q.
Leads(text, s, k, p, q) ==
  IF text[k] = Wild THEN q > p /\ \A i \in (p + 1)..q : s[i] # "/"
  ELSE q = p + 1 /\ s[q] = text[k]

\* The first n chunks of a text take the front of s, divided as ends says.
Divides(text, s, n, ends) ==
  ends[0] = 0 /\ \A k \in 1..n : Leads(text, s, k, ends[k - 1], ends[k])

Takes(text, s, n, p) ==
  \E ends \in [0..n -> 0..Len(s)] : Divides(text, s, n, ends) /\ ends[n] = p

\* The first n chunks can take the first p characters of s and, when every
\* wildcard is a whole segment and there is another chunk, they take no others in
\* any division of the whole text.
Reached(text, s, n, p) ==
  /\ Takes(text, s, n, p)
  /\ Segmented(text) /\ n < Len(text) =>
       \A ends \in [0..Len(text) -> 0..Len(s)] :
         Divides(text, s, Len(text), ends) => ends[n] = p

\* Where the walk is: the chunks before the next one are behind it, and a wildcard
\* that is being taken has taken one character at least.
WalkInv ==
  at # "search" =>
    LET text == Pattern.text IN
    /\ verdict = 0 /\ next <= Len(rules) /\ Concerns /\ Walks
    /\ chunk \in 1..(Len(text) + 1) /\ pos \in 0..Len(path)
    /\ at = "chunk" => Reached(text, path, chunk - 1, pos)
    /\ at = "segment" =>
         /\ chunk <= Len(text) /\ text[chunk] = Wild
         /\ \E start \in 0..(pos - 1) :
              /\ Reached(text, path, chunk - 1, start)
              /\ \A i \in (start + 1)..pos : path[i] # "/"

\* A rule of an earlier list, or an earlier rule of the list that is searched.
PlaceOf(l) == CASE l = "exact" -> 1 [] l = "suffix" -> 2 [] OTHER -> 3
Passed(k) ==
  \/ PlaceOf(ListOf(rules[k])) < PlaceOf(list)
  \/ ListOf(rules[k]) = list /\ k < next
  \/ verdict = NoRule

\* Nothing that was passed is a match, and what the search stopped at is one.
SearchInv ==
  /\ \A k \in 1..Len(rules) :
       Passed(k) /\ Segmented(FromPattern(rules[k].pattern).text) =>
         ~Means(rules[k], domain, path)
  /\ verdict \notin {0, NoRule} =>
       /\ verdict = next /\ next <= Len(rules) /\ ListOf(rules[next]) = list
       /\ Means(rules[next], domain, path)

MatcherTypes ==
  /\ rules \in Seq(Rules)
  /\ domain \in Seq(Characters) /\ path \in Seq(Characters)
  /\ list \in {"exact", "suffix", "wildcard"} /\ next \in 1..(Len(rules) + 1)
  /\ at \in {"search", "chunk", "segment"}
  /\ verdict \in Nat \cup {NoRule}

MatcherInv == MatcherTypes /\ WalkInv /\ SearchInv

\* A pattern is compiled to a sequence of characters.
LEMMA TextIsSequence ==
  ASSUME NEW p \in Seq(Characters)
  PROVE  FromPattern(p).text \in Seq(Characters)
  <1> DEFINE S == {n \in 0..Len(p) : n = Len(p) \/ p[n + 1] # "^"}
             Stop(n) == (\A i \in 1..n : p[i] = "^") /\ (n = Len(p) \/ p[n + 1] # "^")
  <1>0. Len(p) \in Nat
    OBVIOUS
  <1>1. S \in SUBSET Nat /\ Len(p) \in S
    BY <1>0
  <1>2. PICK m \in S : \A n \in S : m <= n
    BY <1>1, LeastNatural
  <1>3. ASSUME NEW i \in 1..m PROVE p[i] = "^"
    <2>1. i - 1 \in 0..Len(p) /\ (i - 1) + 1 = i /\ ~(m <= i - 1)
      BY <1>0, <1>2
    <2>2. i - 1 \notin S
      BY <1>2, <2>1
    <2> QED
      BY <2>1, <2>2
  <1>4. m \in 0..Len(p) /\ Stop(m)
    BY <1>2, <1>3
  <1>5. PICK c \in 0..Len(p) : Trimmed(p) = SubSeq(p, c + 1, Len(p))
    <2>1. (CHOOSE n \in 0..Len(p) : Stop(n)) \in 0..Len(p)
      BY <1>4
    <2> QED
      BY <2>1 DEF Trimmed
  <1>6. Trimmed(p) \in Seq(Characters)
    <2>1. Len(p) \in 0..Len(p) /\ c <= Len(p)
      BY <1>0
    <2> QED
      BY <1>5, <2>1, PieceByCharacter
  <1>7. PICK t \in Seq(Characters) : t = Trimmed(p)
    BY <1>6
  <1>8. t # <<>> => Front(t) \in Seq(Characters)
    <2>1. t # <<>> => Len(t) - 1 \in 0..Len(t)
      OBVIOUS
    <2> QED
      BY <2>1, FrontByCharacter DEF Front
  <1>9. StripRest(t) \in Seq(Characters) /\ <<>> \in Seq(Characters)
    BY <1>8 DEF StripRest
  <1> QED
    BY <1>7, <1>8, <1>9 DEF FromPattern

\* Before the first chunk nothing of a path is taken.
LEMMA NothingReached ==
  ASSUME NEW text \in Seq(Characters), NEW s \in Seq(Characters)
  PROVE  Reached(text, s, 0, 0)
  <1> DEFINE none == [k \in 0..0 |-> 0]
  <1>1. none \in [0..0 -> 0..Len(s)] /\ none[0] = 0 /\ 1..0 = {}
    OBVIOUS
  <1>2. Divides(text, s, 0, none)
    BY <1>1 DEF Divides
  <1> HIDE DEF none
  <1> QED
    BY <1>1, <1>2 DEF Reached, Divides, Takes

\* A division is extended by one chunk.
LEMMA DivisionExtended ==
  ASSUME NEW text, NEW s \in Seq(Characters), NEW n \in Nat,
         NEW ends \in [0..n -> 0..Len(s)], Divides(text, s, n, ends),
         NEW q \in 0..Len(s), Leads(text, s, n + 1, ends[n], q)
  PROVE  Takes(text, s, n + 1, q)
  <1> DEFINE more == [k \in 0..(n + 1) |-> IF k <= n THEN ends[k] ELSE q]
  <1>1. /\ more \in [0..(n + 1) -> 0..Len(s)] /\ more[n + 1] = q
        /\ \A k \in 0..n : more[k] = ends[k]
    OBVIOUS
  <1> HIDE DEF more
  <1>2. ASSUME NEW k \in 1..(n + 1)
        PROVE  Leads(text, s, k, more[k - 1], more[k])
    <2>1. CASE k = n + 1
      <3>1. k - 1 = n /\ n \in 0..n
        BY <2>1
      <3> QED
        BY <1>1, <2>1, <3>1
    <2>2. CASE k # n + 1
      <3>1. k \in 1..n /\ k \in 0..n /\ k - 1 \in 0..n
        BY <2>2
      <3> QED
        BY <1>1, <3>1 DEF Divides
    <2> QED
      BY <2>1, <2>2
  <1>3. more[0] = 0
    BY <1>1 DEF Divides
  <1> QED
    BY <1>1, <1>2, <1>3 DEF Divides, Takes

\* A step of a division of the whole text.
LEMMA DivisionStep ==
  ASSUME NEW text \in Seq(Characters), NEW s \in Seq(Characters),
         NEW ends \in [0..Len(text) -> 0..Len(s)], Divides(text, s, Len(text), ends),
         NEW n \in 0..(Len(text) - 1)
  PROVE  /\ Leads(text, s, n + 1, ends[n], ends[n + 1])
         /\ ends[n] \in 0..Len(s) /\ ends[n + 1] \in 0..Len(s)
  <1>1. n + 1 \in 1..Len(text) /\ (n + 1) - 1 = n /\ n \in 0..Len(text)
        /\ n + 1 \in 0..Len(text)
    OBVIOUS
  <1> QED
    BY <1>1 DEF Divides

\* A literal character is taken in one way.
LEMMA CharacterReached ==
  ASSUME NEW text \in Seq(Characters), NEW s \in Seq(Characters),
         NEW n \in 0..(Len(text) - 1), NEW p \in 0..Len(s), Reached(text, s, n, p),
         text[n + 1] # Wild, p < Len(s), s[p + 1] = text[n + 1]
  PROVE  Reached(text, s, n + 1, p + 1)
  <1>0. /\ Len(text) \in Nat /\ Len(s) \in Nat /\ p + 1 \in 0..Len(s)
        /\ n \in Nat /\ n < Len(text)
    OBVIOUS
  <1>1. PICK ends \in [0..n -> 0..Len(s)] : Divides(text, s, n, ends) /\ ends[n] = p
    BY DEF Reached, Takes
  <1>2. Leads(text, s, n + 1, p, p + 1)
    BY DEF Leads
  <1>3. Takes(text, s, n + 1, p + 1)
    <2>1. Leads(text, s, n + 1, ends[n], p + 1)
      BY <1>1, <1>2
    <2> QED
      BY <1>0, <1>1, <2>1, DivisionExtended, Zenon
  <1>4. ASSUME Segmented(text), NEW full \in [0..Len(text) -> 0..Len(s)],
               Divides(text, s, Len(text), full)
        PROVE  full[n + 1] = p + 1
    <2>1. full[n] = p
      BY <1>0, <1>4, Zenon DEF Reached
    <2>2. Leads(text, s, n + 1, full[n], full[n + 1])
      BY <1>4, DivisionStep
    <2> QED
      BY <2>1, <2>2 DEF Leads
  <1> QED
    BY <1>3, <1>4 DEF Reached

\* A wildcard that is a whole segment takes all of it.
LEMMA SegmentReached ==
  ASSUME NEW text \in Seq(Characters), NEW s \in Seq(Characters),
         NEW n \in 0..(Len(text) - 1), NEW p \in 0..Len(s), Reached(text, s, n, p),
         text[n + 1] = Wild,
         NEW q \in 0..Len(s), p < q, \A i \in (p + 1)..q : s[i] # "/",
         q = Len(s) \/ s[q + 1] = "/"
  PROVE  Reached(text, s, n + 1, q)
  <1>0. Len(text) \in Nat /\ Len(s) \in Nat /\ n \in Nat /\ n < Len(text)
    OBVIOUS
  <1>1. PICK ends \in [0..n -> 0..Len(s)] : Divides(text, s, n, ends) /\ ends[n] = p
    BY DEF Reached, Takes
  <1>2. Leads(text, s, n + 1, p, q)
    BY DEF Leads
  <1>3. Takes(text, s, n + 1, q)
    <2>1. Leads(text, s, n + 1, ends[n], q)
      BY <1>1, <1>2
    <2> QED
      BY <1>0, <1>1, <2>1, DivisionExtended, Zenon
  <1>4. ASSUME Segmented(text), n + 1 < Len(text),
               NEW full \in [0..Len(text) -> 0..Len(s)],
               Divides(text, s, Len(text), full)
        PROVE  full[n + 1] = q
    <2> DEFINE e == full[n + 1]
               f == full[n + 1 + 1]
    <2>1. full[n] = p
      BY <1>0, <1>4, Zenon DEF Reached
    <2>2. Leads(text, s, n + 1, full[n], e) /\ e \in 0..Len(s)
      BY <1>4, DivisionStep
    <2>3. e > p /\ \A i \in (p + 1)..e : s[i] # "/"
      BY <2>1, <2>2 DEF Leads
    <2>4. Leads(text, s, n + 1 + 1, e, f) /\ f \in 0..Len(s)
      <3>1. n + 1 \in 0..(Len(text) - 1)
        BY <1>0, <1>4
      <3> QED
        BY <1>4, <3>1, DivisionStep
    <2>5. text[n + 1 + 1] = "/"
      <3>1. n + 1 \in 1..(Len(text) - 1)
        BY <1>0, <1>4
      <3> QED
        BY <1>4, <3>1 DEF Segmented
    <2>6. f = e + 1 /\ s[e + 1] = "/"
      BY <2>4, <2>5 DEF Leads, Wild
    <2> HIDE DEF e, f
    <2>7. ~(e < q)
      <3>1. e < q => e + 1 \in (p + 1)..q
        BY <2>2, <2>3
      <3> QED
        BY <2>6, <3>1
    <2>8. ~(q < e)
      <3>1. q < e => q + 1 \in (p + 1)..e /\ q # Len(s)
        BY <1>0, <2>2, <2>3
      <3> QED
        BY <2>3, <3>1
    <2>9. e = q
      BY <2>2, <2>7, <2>8
    <2> QED
      BY <2>9 DEF e
  <1> QED
    BY <1>3, <1>4 DEF Reached

\* The whole text is taken.
LEMMA AllReached ==
  ASSUME NEW text \in Seq(Characters), NEW s \in Seq(Characters), NEW p,
         Reached(text, s, Len(text), p)
  PROVE  Fits(text, s)
  BY DEF Reached, Takes, Divides, Leads, Fits

\* A chunk that does not fit where the walk is fits nowhere.
LEMMA StuckFitsNowhere ==
  ASSUME NEW text \in Seq(Characters), NEW s \in Seq(Characters),
         NEW n \in 0..(Len(text) - 1), NEW p \in 0..Len(s), Reached(text, s, n, p),
         Segmented(text),
         ~(p < Len(s) /\ IF text[n + 1] = Wild THEN s[p + 1] # "/"
                         ELSE s[p + 1] = text[n + 1])
  PROVE  ~Fits(text, s)
  <1>1. SUFFICES ASSUME NEW full \in [0..Len(text) -> 0..Len(s)],
                        Divides(text, s, Len(text), full)
                 PROVE  FALSE
    BY DEF Fits, Divides, Leads
  <1>2. full[n] = p
    <2>1. n < Len(text)
      OBVIOUS
    <2> QED
      BY <1>1, <2>1, Zenon DEF Reached
  <1>3. /\ Leads(text, s, n + 1, p, full[n + 1])
        /\ full[n + 1] \in 0..Len(s)
    BY <1>1, <1>2, DivisionStep
  <1>4. CASE text[n + 1] = Wild
    <2>1. full[n + 1] > p /\ \A i \in (p + 1)..full[n + 1] : s[i] # "/"
      BY <1>3, <1>4 DEF Leads
    <2>2. p < Len(s) /\ p + 1 \in (p + 1)..full[n + 1]
      BY <1>3, <2>1
    <2> QED
      BY <1>4, <2>1, <2>2
  <1>5. CASE text[n + 1] # Wild
    BY <1>3, <1>5 DEF Leads
  <1> QED
    BY <1>4, <1>5

-----------------------------------------------------------------------------
(* The search *)

\* What is decided about a rule is what it means.
LEMMA RuleMeaning ==
  ASSUME NEW rule \in Rules, NEW d \in Seq(Characters), NEW s \in Seq(Characters)
  PROVE  LET p == FromPattern(rule.pattern) IN
         Means(rule, d, s) <=>
           /\ DomainMatches(rule, d)
           /\ \/ rule.pattern = NoPattern
              \/ p.kind # "SegmentPrefix" /\ Matches(p, s)
              \/ p.kind = "SegmentPrefix" /\ Fits(p.text, s)
  <1>1. DomainMatches(rule, d) <=> Covers(rule.from, d)
    BY DomainMeaning
  <1> QED
    BY <1>1 DEF Means

\* The search begins with nothing passed.
LEMMA SearchBegins == MatchInit => MatcherInv
  <1> SUFFICES ASSUME MatchInit PROVE MatcherInv
    OBVIOUS
  <1>1. MatcherTypes
    <2>1. rules \in Seq(Rules) /\ domain \in Seq(Characters) /\ path \in Seq(Characters)
      BY MatcherConstants DEF MatchInit, Rules
    <2>2. 1 \in 1..(Len(rules) + 1)
      BY <2>1
    <2> QED
      BY <2>1, <2>2 DEF MatchInit, MatcherTypes
  <1>2. WalkInv
    BY DEF MatchInit, WalkInv
  <1>3. SearchInv
    <2>1. ASSUME NEW k \in 1..Len(rules) PROVE ~Passed(k)
      <3>1. ~(k < next)
        BY DEF MatchInit
      <3> QED
        BY <3>1 DEF MatchInit, Passed, PlaceOf, ListOf, NoRule
    <2> QED
      BY <2>1 DEF MatchInit, SearchInv
  <1> QED
    BY <1>1, <1>2, <1>3 DEF MatcherInv

\* A step inside the walk passes no rule.
LEMMA SearchStands ==
  SearchInv /\ UNCHANGED <<request, list, next, verdict>> => SearchInv'
  <1> SUFFICES ASSUME SearchInv, UNCHANGED <<request, list, next, verdict>>
               PROVE  SearchInv'
    OBVIOUS
  <1>1. /\ rules' = rules /\ domain' = domain /\ path' = path
        /\ list' = list /\ next' = next /\ verdict' = verdict
    BY DEF request
  <1>2. \A k : Passed(k)' <=> Passed(k)
    BY <1>1 DEF Passed
  <1> QED
    BY <1>1, <1>2 DEF SearchInv

\* The search stops at a rule that is a match.
LEMMA SearchDecides ==
  MatcherTypes /\ SearchInv /\ verdict = 0 /\ next <= Len(rules) /\ Concerns
    /\ Means(rules[next], domain, path) /\ Decide /\ UNCHANGED <<request, list>>
    => SearchInv'
  <1> SUFFICES ASSUME MatcherTypes, SearchInv, verdict = 0, next <= Len(rules), Concerns,
                      Means(rules[next], domain, path), Decide, UNCHANGED <<request, list>>
               PROVE  SearchInv'
    OBVIOUS
  <1>1. /\ rules' = rules /\ domain' = domain /\ path' = path
        /\ list' = list /\ next' = next /\ verdict' = next
    BY DEF request, Decide
  <1>2. next # NoRule /\ verdict # NoRule
    BY DEF MatcherTypes, NoRule
  <1>3. \A k : Passed(k)' <=> Passed(k)
    BY <1>1, <1>2 DEF Passed
  <1> QED
    BY <1>1, <1>3 DEF SearchInv, Concerns

\* A rule that the search goes on behind is no match, or its pattern has a wildcard
\* that is not a whole segment.
LEMMA SearchPasses ==
  MatcherTypes /\ SearchInv /\ verdict = 0 /\ next <= Len(rules)
    /\ (ListOf(rules[next]) = list /\ Segmented(FromPattern(rules[next].pattern).text)
          => ~Means(rules[next], domain, path))
    /\ PassBy /\ UNCHANGED <<request, list>>
    => SearchInv'
  <1> SUFFICES ASSUME MatcherTypes, SearchInv, verdict = 0, next <= Len(rules),
                      ListOf(rules[next]) = list
                        /\ Segmented(FromPattern(rules[next].pattern).text)
                        => ~Means(rules[next], domain, path),
                      PassBy, UNCHANGED <<request, list>>
               PROVE  SearchInv'
    OBVIOUS
  <1>1. /\ rules' = rules /\ domain' = domain /\ path' = path
        /\ list' = list /\ next' = next + 1 /\ verdict' = 0
    BY DEF request, PassBy
  <1>2. ASSUME NEW k \in 1..Len(rules), Passed(k)'
        PROVE  Passed(k) \/ (k = next /\ ListOf(rules[next]) = list)
    <2>1. k < next + 1 => k < next \/ k = next
      BY DEF MatcherTypes
    <2> QED
      BY <1>1, <1>2, <2>1 DEF Passed, NoRule
  <1> QED
    BY <1>1, <1>2 DEF SearchInv

\* Behind the last rule of a list, all of its rules are passed.
LEMMA ListPassed ==
  ASSUME MatcherTypes, next > Len(rules), NEW k \in 1..Len(rules),
         PlaceOf(ListOf(rules[k])) <= PlaceOf(list)
  PROVE  Passed(k)
  <1>1. k < next
    BY DEF MatcherTypes
  <1>2. ListOf(rules[k]) = list \/ PlaceOf(ListOf(rules[k])) < PlaceOf(list)
    BY DEF MatcherTypes, PlaceOf, ListOf
  <1> QED
    BY <1>1, <1>2 DEF Passed

\* Every step of the search and of the walk keeps the invariant.
LEMMA SearchKept == MatcherInv /\ [MatchNext]_matchVars => MatcherInv'
  <1> SUFFICES ASSUME MatcherInv, [MatchNext]_matchVars PROVE MatcherInv'
    OBVIOUS
  <1> DEFINE text == Pattern.text
  <1>0. MatcherTypes /\ WalkInv /\ SearchInv
    BY DEF MatcherInv
  <1>1. next <= Len(rules) =>
          /\ rules[next] \in Rules /\ text \in Seq(Characters) /\ Len(text) \in Nat
          /\ Means(rules[next], domain, path) <=>
               /\ DomainMatches(rules[next], domain)
               /\ \/ rules[next].pattern = NoPattern
                  \/ Pattern.kind # "SegmentPrefix" /\ Matches(Pattern, path)
                  \/ Pattern.kind = "SegmentPrefix" /\ Fits(text, path)
    <2> SUFFICES ASSUME next <= Len(rules)
                 PROVE  /\ rules[next] \in Rules
                        /\ text \in Seq(Characters) /\ Len(text) \in Nat
                        /\ Means(rules[next], domain, path) <=>
                             /\ DomainMatches(rules[next], domain)
                             /\ \/ rules[next].pattern = NoPattern
                                \/ Pattern.kind # "SegmentPrefix" /\ Matches(Pattern, path)
                                \/ Pattern.kind = "SegmentPrefix" /\ Fits(text, path)
      OBVIOUS
    <2>1. PICK rule \in Rules : rule = rules[next]
      BY <1>0 DEF MatcherTypes
    <2>2. rule.pattern \in Seq(Characters)
      BY DEF Rules
    <2>3. text \in Seq(Characters)
      BY <2>1, <2>2, TextIsSequence DEF Pattern
    <2>4. domain \in Seq(Characters) /\ path \in Seq(Characters)
      BY <1>0 DEF MatcherTypes
    <2>5. Means(rule, domain, path) <=>
            /\ DomainMatches(rule, domain)
            /\ \/ rule.pattern = NoPattern
               \/ FromPattern(rule.pattern).kind # "SegmentPrefix"
                    /\ Matches(FromPattern(rule.pattern), path)
               \/ FromPattern(rule.pattern).kind = "SegmentPrefix"
                    /\ Fits(FromPattern(rule.pattern).text, path)
      BY <2>4, RuleMeaning
    <2> QED
      BY <2>1, <2>3, <2>5 DEF Pattern
  <1>2. at # "search" =>
          /\ verdict = 0 /\ next <= Len(rules) /\ Concerns /\ Walks
          /\ chunk \in 1..(Len(text) + 1) /\ pos \in 0..Len(path)
    BY <1>0 DEF WalkInv
  <1>3. ASSUME UNCHANGED <<rules, next>> PROVE Pattern' = Pattern
    BY <1>3 DEF Pattern
  <1>4. ASSUME UNCHANGED <<request, list, next>>
        PROVE  (Concerns' <=> Concerns) /\ (Walks' <=> Walks)
    BY <1>3, <1>4 DEF Concerns, Walks, request
  <1> HIDE DEF text
  <1>5. CASE TryRule
    <2>1. MatcherTypes'
      BY <1>0, <1>5 DEF MatcherTypes, TryRule, Decide, PassBy, request
    <2>2. WalkInv'
      BY <1>5 DEF WalkInv, TryRule
    <2>3. SearchInv'
      <3>0. verdict = 0 /\ next <= Len(rules) /\ UNCHANGED <<request, list>>
        BY <1>5 DEF TryRule
      <3>1. CASE Concerns /\ (rules[next].pattern = NoPattern \/ Matches(Pattern, path))
        <4>1. Decide
          BY <1>5, <3>1 DEF TryRule
        <4>2. Means(rules[next], domain, path)
          BY <1>1, <1>5, <3>0, <3>1 DEF TryRule, Concerns, Walks
        <4> QED
          BY <1>0, <3>0, <3>1, <4>1, <4>2, SearchDecides
      <3>2. CASE ~(Concerns /\ (rules[next].pattern = NoPattern \/ Matches(Pattern, path)))
        <4>1. PassBy
          BY <1>5, <3>2 DEF TryRule
        <4>2. ListOf(rules[next]) = list => ~Means(rules[next], domain, path)
          BY <1>1, <1>5, <3>0, <3>2 DEF TryRule, Concerns, Walks
        <4> QED
          BY <1>0, <3>0, <4>1, <4>2, SearchPasses
      <3> QED
        BY <3>1, <3>2
    <2> QED
      BY <2>1, <2>2, <2>3 DEF MatcherInv
  <1>6. CASE BeginWalk
    <2>1. MatcherTypes'
      BY <1>0, <1>6 DEF MatcherTypes, BeginWalk, request
    <2>2. WalkInv'
      <3>1. /\ Pattern' = Pattern /\ Concerns' /\ Walks' /\ verdict' = 0
            /\ next' <= Len(rules') /\ path' = path /\ chunk' = 1 /\ pos' = 0
            /\ at' = "chunk"
        BY <1>3, <1>4, <1>6 DEF BeginWalk, request
      <3>2. path \in Seq(Characters) /\ text \in Seq(Characters) /\ Len(text) \in Nat
        BY <1>0, <1>1, <1>6 DEF MatcherTypes, BeginWalk
      <3>3. Reached(text, path, 0, 0)
        BY <3>2, NothingReached
      <3>4. 1 \in 1..(Len(text) + 1) /\ 0 \in 0..Len(path) /\ 1 - 1 = 0
        BY <3>2
      <3> QED
        BY <3>1, <3>3, <3>4 DEF WalkInv, text
    <2>3. SearchInv'
      BY <1>0, <1>6, SearchStands DEF BeginWalk
    <2> QED
      BY <2>1, <2>2, <2>3 DEF MatcherInv
  <1>7. CASE TakeCharacter
    <2>0. /\ at = "chunk" /\ chunk <= Len(text) /\ Fitting /\ pos' = pos + 1
          /\ UNCHANGED <<request, list, next, verdict>>
      BY <1>7 DEF TakeCharacter, text
    <2>1. MatcherTypes'
      BY <1>0, <1>7 DEF MatcherTypes, TakeCharacter, request
    <2>2. /\ Pattern' = Pattern /\ Concerns' /\ Walks' /\ verdict' = 0
          /\ next' <= Len(rules') /\ path' = path
      BY <1>2, <1>3, <1>4, <2>0 DEF request
    <2>3. /\ path \in Seq(Characters) /\ text \in Seq(Characters) /\ Len(text) \in Nat
          /\ Len(path) \in Nat /\ chunk \in 1..Len(text) /\ pos \in 0..Len(path)
      BY <1>0, <1>1, <1>2, <2>0 DEF MatcherTypes
    <2>4. /\ pos < Len(path) /\ pos + 1 \in 0..Len(path) /\ chunk - 1 \in 0..(Len(text) - 1)
          /\ (chunk - 1) + 1 = chunk /\ (chunk + 1) - 1 = chunk
      BY <2>0, <2>3 DEF Fitting
    <2>5. Reached(text, path, chunk - 1, pos)
      BY <1>0, <2>0 DEF WalkInv, text
    <2>6. WalkInv'
      <3>1. CASE text[chunk] = Wild
        <4>1. at' = "segment" /\ chunk' = chunk /\ path[pos + 1] # "/"
          BY <1>7, <2>0, <3>1 DEF TakeCharacter, Fitting, text
        <4>2. pos \in 0..((pos + 1) - 1) /\ (pos + 1)..(pos + 1) = {pos + 1}
          BY <2>3
        <4>3. \E start \in 0..((pos + 1) - 1) :
                /\ Reached(text, path, chunk - 1, start)
                /\ \A i \in (start + 1)..(pos + 1) : path[i] # "/"
          BY <2>5, <4>1, <4>2
        <4>4. chunk \in 1..(Len(text) + 1) /\ chunk <= Len(text)
          BY <2>3
        <4> QED
          BY <2>0, <2>2, <2>4, <3>1, <4>1, <4>3, <4>4 DEF WalkInv, text
      <3>2. CASE text[chunk] # Wild
        <4>1. at' = "chunk" /\ chunk' = chunk + 1 /\ path[pos + 1] = text[chunk]
          BY <1>7, <2>0, <3>2 DEF TakeCharacter, Fitting, text
        <4>2. Reached(text, path, (chunk - 1) + 1, pos + 1)
          BY <2>3, <2>4, <2>5, <3>2, <4>1, CharacterReached
        <4>3. Reached(text, path, (chunk + 1) - 1, pos + 1)
          BY <2>4, <4>2
        <4>4. chunk + 1 \in 1..(Len(text) + 1)
          BY <2>3
        <4> QED
          BY <2>0, <2>2, <2>4, <4>1, <4>3, <4>4 DEF WalkInv, text
      <3> QED
        BY <3>1, <3>2
    <2>7. SearchInv'
      BY <1>0, <2>0, SearchStands
    <2> QED
      BY <2>1, <2>6, <2>7 DEF MatcherInv
  <1>8. CASE TakeSegment
    <2>0. at = "segment" /\ UNCHANGED <<request, list, next, verdict>>
      BY <1>8 DEF TakeSegment
    <2>1. MatcherTypes'
      BY <1>0, <1>8 DEF MatcherTypes, TakeSegment, request
    <2>2. /\ Pattern' = Pattern /\ Concerns' /\ Walks' /\ verdict' = 0
          /\ next' <= Len(rules') /\ path' = path
      BY <1>2, <1>3, <1>4, <2>0 DEF request
    <2>3. /\ path \in Seq(Characters) /\ text \in Seq(Characters) /\ Len(text) \in Nat
          /\ Len(path) \in Nat /\ pos \in 0..Len(path)
          /\ chunk \in 1..Len(text) /\ text[chunk] = Wild
      <3>1. chunk <= Len(text) /\ text[chunk] = Wild
        BY <1>0, <2>0 DEF WalkInv, text
      <3> QED
        BY <1>0, <1>1, <1>2, <2>0, <3>1 DEF MatcherTypes
    <2>4. PICK start \in 0..(pos - 1) :
            /\ Reached(text, path, chunk - 1, start)
            /\ \A i \in (start + 1)..pos : path[i] # "/"
      BY <1>0, <2>0 DEF WalkInv, text
    <2>5. WalkInv'
      <3>1. CASE pos < Len(path) /\ path[pos + 1] # "/"
        <4>1. at' = "segment" /\ chunk' = chunk /\ pos' = pos + 1
          BY <1>8, <3>1 DEF TakeSegment
        <4>2. /\ start \in 0..((pos + 1) - 1) /\ pos + 1 \in 0..Len(path)
              /\ \A i \in (start + 1)..(pos + 1) : i \in (start + 1)..pos \/ i = pos + 1
          BY <2>3, <3>1
        <4>3. \E begun \in 0..((pos + 1) - 1) :
                /\ Reached(text, path, chunk - 1, begun)
                /\ \A i \in (begun + 1)..(pos + 1) : path[i] # "/"
          BY <2>4, <3>1, <4>2
        <4>4. chunk \in 1..(Len(text) + 1) /\ chunk <= Len(text)
          BY <2>3
        <4> QED
          BY <2>2, <2>3, <4>1, <4>2, <4>3, <4>4 DEF WalkInv, text
      <3>2. CASE ~(pos < Len(path) /\ path[pos + 1] # "/")
        <4>1. at' = "chunk" /\ chunk' = chunk + 1 /\ pos' = pos
          BY <1>8, <3>2 DEF TakeSegment
        <4>2. /\ chunk - 1 \in 0..(Len(text) - 1) /\ (chunk - 1) + 1 = chunk
              /\ (chunk + 1) - 1 = chunk /\ chunk + 1 \in 1..(Len(text) + 1)
              /\ start \in 0..Len(path) /\ start < pos
              /\ (pos = Len(path) \/ path[pos + 1] = "/")
          BY <2>3, <3>2
        <4>3. Reached(text, path, (chunk - 1) + 1, pos)
          BY <2>3, <2>4, <4>2, SegmentReached
        <4>4. Reached(text, path, (chunk + 1) - 1, pos)
          BY <4>2, <4>3
        <4> QED
          BY <2>2, <2>3, <4>1, <4>2, <4>4 DEF WalkInv, text
      <3> QED
        BY <3>1, <3>2
    <2>6. SearchInv'
      BY <1>0, <2>0, SearchStands
    <2> QED
      BY <2>1, <2>5, <2>6 DEF MatcherInv
  <1>9. CASE EndWalk
    <2>0. at = "chunk" /\ at' = "search" /\ UNCHANGED <<request, list>>
      BY <1>9 DEF EndWalk
    <2>1. MatcherTypes'
      BY <1>0, <1>2, <1>9 DEF MatcherTypes, EndWalk, Decide, PassBy, request
    <2>2. WalkInv'
      BY <2>0 DEF WalkInv
    <2>3. /\ path \in Seq(Characters) /\ text \in Seq(Characters) /\ Len(text) \in Nat
          /\ chunk \in 1..(Len(text) + 1) /\ pos \in 0..Len(path)
          /\ verdict = 0 /\ next <= Len(rules) /\ Concerns /\ Walks
      BY <1>0, <1>1, <1>2, <2>0 DEF MatcherTypes
    <2>4. Reached(text, path, chunk - 1, pos)
      BY <1>0, <2>0 DEF WalkInv, text
    <2>5. Means(rules[next], domain, path) <=> Fits(text, path)
      BY <1>1, <2>3 DEF Concerns, Walks
    <2>6. CASE chunk > Len(text)
      <3>1. Decide
        BY <1>9, <2>3, <2>6 DEF EndWalk, text
      <3>2. chunk - 1 = Len(text)
        BY <2>3, <2>6
      <3>3. Fits(text, path)
        BY <2>3, <2>4, <3>2, AllReached
      <3>4. SearchInv'
        BY <1>0, <2>0, <2>3, <2>5, <3>1, <3>3, SearchDecides
      <3> QED
        BY <2>1, <2>2, <3>4 DEF MatcherInv
    <2>7. CASE chunk <= Len(text)
      <3>1. PassBy /\ ~Fitting
        BY <1>9, <2>3, <2>7 DEF EndWalk, text
      <3>2. chunk - 1 \in 0..(Len(text) - 1) /\ (chunk - 1) + 1 = chunk
        BY <2>3, <2>7
      <3>3. ~(pos < Len(path) /\ IF text[(chunk - 1) + 1] = Wild THEN path[pos + 1] # "/"
                                 ELSE path[pos + 1] = text[(chunk - 1) + 1])
        BY <3>1, <3>2 DEF Fitting, text
      <3>4. Segmented(text) => ~Fits(text, path)
        BY <2>3, <2>4, <3>2, <3>3, StuckFitsNowhere
      <3>5. SearchInv'
        BY <1>0, <2>0, <2>3, <2>5, <3>1, <3>4, SearchPasses DEF text, Pattern
      <3> QED
        BY <2>1, <2>2, <3>5 DEF MatcherInv
    <2> QED
      BY <2>3, <2>6, <2>7
  <1>10. CASE NextList
    <2>0. /\ verdict = 0 /\ at = "search" /\ next > Len(rules) /\ next' = 1
          /\ rules' = rules /\ domain' = domain /\ path' = path /\ at' = at
      BY <1>10 DEF NextList, request
    <2>1. MatcherTypes'
      <3>1. 1 \in 1..(Len(rules) + 1) /\ 0 \in Nat
        BY <1>0 DEF MatcherTypes
      <3> QED
        BY <1>0, <1>10, <2>0, <3>1 DEF MatcherTypes, NextList
    <2>2. WalkInv'
      BY <2>0 DEF WalkInv
    <2>3. ASSUME NEW k \in 1..Len(rules), Passed(k)' PROVE Passed(k)
      <3>1. ~(k < 1)
        OBVIOUS
      <3>2. PlaceOf(ListOf(rules[k])) <= PlaceOf(list)
        BY <1>0, <1>10, <2>0, <2>3, <3>1 DEF NextList, Passed, PlaceOf, MatcherTypes, NoRule
      <3> QED
        BY <1>0, <2>0, <3>2, ListPassed
    <2>4. verdict' \in {0, NoRule}
      BY <1>10, <2>0 DEF NextList
    <2>5. SearchInv'
      BY <1>0, <2>0, <2>3, <2>4 DEF SearchInv
    <2> QED
      BY <2>1, <2>2, <2>5 DEF MatcherInv
  <1>11. CASE UNCHANGED matchVars
    <2>1. MatcherTypes'
      BY <1>0, <1>11 DEF MatcherTypes, matchVars, request
    <2>2. WalkInv'
      BY <1>0, <1>3, <1>4, <1>11 DEF WalkInv, matchVars, request
    <2>3. SearchInv'
      BY <1>0, <1>11, SearchStands DEF matchVars
    <2> QED
      BY <2>1, <2>2, <2>3 DEF MatcherInv
  <1> QED
    BY <1>5, <1>6, <1>7, <1>8, <1>9, <1>10, <1>11 DEF MatchNext, Found

\* Nothing passed was a match, so the rule found is the first.
LEMMA FirstMatchFollows == MatcherInv => VerdictIsFirstMatch
  <1> SUFFICES ASSUME MatcherInv, verdict # 0 PROVE VerdictIsFirstMatch
    BY DEF VerdictIsFirstMatch
  <1> DEFINE fit == {k \in 1..Len(rules) : Means(rules[k], domain, path)}
             AllSegmented == \A k \in 1..Len(rules) :
                               Segmented(FromPattern(rules[k].pattern).text)
             Precedes(k) == \/ Rank(rules[verdict]) < Rank(rules[k])
                            \/ Rank(rules[verdict]) = Rank(rules[k]) /\ verdict < k
  <1>0. MatcherTypes /\ SearchInv
    BY DEF MatcherInv
  <1>1. verdict # NoRule =>
          /\ verdict \in fit /\ verdict = next /\ ListOf(rules[verdict]) = list
    BY <1>0 DEF MatcherTypes, SearchInv
  <1>2. ASSUME AllSegmented, NEW k \in fit PROVE ~Passed(k)
    BY <1>0, <1>2 DEF SearchInv
  <1>3. ASSUME AllSegmented, NEW k \in fit \ {verdict} PROVE Precedes(k)
    <2>1. ~Passed(k) /\ verdict # NoRule
      BY <1>2, <1>3 DEF Passed
    <2>2. /\ Rank(rules[k]) = PlaceOf(ListOf(rules[k]))
          /\ Rank(rules[verdict]) = PlaceOf(list)
      BY <1>1, <2>1 DEF Rank, PlaceOf
    <2>3. /\ ~(PlaceOf(ListOf(rules[k])) < PlaceOf(list))
          /\ ~(ListOf(rules[k]) = list /\ k < verdict)
      BY <1>1, <2>1 DEF Passed
    <2>4. PlaceOf(ListOf(rules[k])) = PlaceOf(list) => ListOf(rules[k]) = list
      BY <1>0 DEF PlaceOf, MatcherTypes, ListOf
    <2>5. PlaceOf(ListOf(rules[k])) \in 1..3 /\ PlaceOf(list) \in 1..3
      BY DEF PlaceOf
    <2>6. k \in Nat /\ k # verdict /\ verdict \in Nat
      BY <1>0, <2>1 DEF MatcherTypes
    <2> QED
      BY <2>2, <2>3, <2>4, <2>5, <2>6
  <1>4. ASSUME AllSegmented, fit # {} PROVE verdict # NoRule
    BY <1>2, <1>4 DEF Passed
  <1>5. fit = {} => verdict = NoRule
    BY <1>1
  <1> HIDE DEF fit, AllSegmented, Precedes
  <1>6. /\ verdict # NoRule => verdict \in fit
        /\ AllSegmented => IF fit = {} THEN verdict = NoRule
                           ELSE \A k \in fit \ {verdict} : Precedes(k)
    BY <1>1, <1>3, <1>5
  <1> QED
    BY <1>6 DEF VerdictIsFirstMatch, fit, AllSegmented, Precedes

\* The search of match_domain answers with a rule that means the request, and,
\* when every wildcard of a pattern is a whole segment, with the first of those
\* of the most specific list: the three lists, the split of a domain at its star
\* and the single pass of matches_segment_prefix lose no match, for any rules,
\* domain and path.
THEOREM SearchFindsFirstMatch == MatchSpec => []VerdictIsFirstMatch
  <1>1. MatcherInv /\ [MatchNext]_matchVars => MatcherInv'
    BY SearchKept
  <1> QED
    BY <1>1, SearchBegins, FirstMatchFollows, PTL DEF MatchSpec

=============================================================================
