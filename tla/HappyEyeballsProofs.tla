------------------------- MODULE HappyEyeballsProofs -------------------------
(***************************************************************************)
(* Proofs about HappyEyeballs, for candidate lists of every length.        *)
(***************************************************************************)
EXTENDS HappyEyeballs, TLAPS

InFlight == {"tcp", "tls", "ok", "err"}

\* While a list is raced, the IPs before nextIdx have been started and are in
\* flight or failed, the others are idle, and more_candidates says exactly
\* whether one is left to start.
RaceShape ==
    phase \in Racing =>
        /\ round \in {1, 2}
        /\ result = "none"
        /\ nextIdx >= 2
        /\ nextIdx <= len[round] + 1
        /\ more <=> (nextIdx <= len[round])
        /\ \A i \in Idx : i < nextIdx => att[i] \in InFlight \cup {"failed"}
        /\ \A i \in Idx : i >= nextIdx => att[i] = "idle"
        /\ \A i \in Idx : att[i] = "failed" => <<round, i>> \in failed

\* One attempt at a time: all but the last started one have failed.
SequentialShape ==
    phase \in {"single", "seq"} =>
        \A i \in Idx : i < nextIdx - 1 => att[i] = "failed"

\* The first list is behind the call once it is past its race.
Progress ==
    /\ phase = "intl" => round = 1
    /\ result # "none" => phase = "done"
    /\ result = "all_failed" => round = 2

Inv ==
    /\ TypeOK
    /\ RaceShape
    /\ SequentialShape
    /\ SelectNeverStarves
    /\ Progress
    /\ FailureIsExhaustive

USE MaxCandsAssumption, ModesAssumption

\* The initial state satisfies the invariant.
LEMMA InvInit == Init => Inv
<1> SUFFICES ASSUME Init PROVE Inv
  OBVIOUS
<1>1. TypeOK
  <2>1. more \in BOOLEAN /\ mode \in Modes /\ failed \subseteq {1, 2} \X Idx
    BY DEF Init
  <2>2. att \in [Idx -> AttStates]
    BY DEF Init, AttStates
  <2>3. len \in [{1, 2} -> 0..MaxCands] /\ nextIdx \in 1..(MaxCands + 1)
    <3>1. 0 \in 0..MaxCands /\ 1 \in 1..(MaxCands + 1)
      OBVIOUS
    <3> QED
      BY <3>1 DEF Init
  <2> QED
    BY <2>1, <2>2, <2>3 DEF Init, TypeOK, Phases
<1>2. RaceShape /\ SequentialShape /\ SelectNeverStarves
  BY DEF Init, RaceShape, SequentialShape, SelectNeverStarves, Racing
<1>3. Progress /\ FailureIsExhaustive
  BY DEF Init, Progress, FailureIsExhaustive
<1> QED
  BY <1>1, <1>2, <1>3 DEF Inv

\* Starting a list of k >= 1 IPs establishes the shape of a race.
LEMMA BeginInv ==
    ASSUME Inv, NEW r \in {1, 2}, NEW k \in 1..MaxCands, BeginRace(r, k),
           r = 1 => phase \in {"entry", "resolve"},
           r = 2 => phase = "intl"
    PROVE  Inv'
<1> USE DEF Inv, BeginRace
<1>1. phase' \in Racing /\ round' = r /\ nextIdx' = 2 /\ len'[r] = k
      /\ result' = result /\ failed' = failed /\ mode' = mode
  BY DEF Racing, TypeOK
<1>2. att' = [i \in Idx |-> IF i = 1 THEN "tcp" ELSE "idle"]
  OBVIOUS
<1>3. result = "none"
  BY DEF Progress
<1>4. TypeOK'
  <2>1. len' \in [{1, 2} -> 0..MaxCands]
    BY DEF TypeOK
  <2>2. att' \in [Idx -> AttStates]
    BY <1>2 DEF AttStates
  <2>3. nextIdx' \in 1..(MaxCands + 1)
    BY <1>1
  <2>4. more' \in BOOLEAN
    <3>1. more' = (1 < k)
      OBVIOUS
    <3>2. (1 < k) \in BOOLEAN
      OBVIOUS
    <3> QED
      BY ONLY <3>1, <3>2, Zenon
  <2> QED
    BY <1>1, <2>1, <2>2, <2>3, <2>4 DEF TypeOK, Phases
<1>5. RaceShape'
  <2>1. more' <=> nextIdx' <= len'[round']
    <3>1. more' <=> 1 < k
      BY Zenon
    <3>2. (1 < k) <=> nextIdx' <= len'[round']
      BY <1>1
    <3> QED
      BY <3>1, <3>2
  <2>2. \A i \in Idx : i < nextIdx' => att'[i] \in InFlight \cup {"failed"}
    BY <1>1, <1>2 DEF InFlight, Idx
  <2>3. \A i \in Idx : i >= nextIdx' => att'[i] = "idle"
    BY <1>1, <1>2 DEF Idx
  <2>4. \A i \in Idx : att'[i] = "failed" => <<round', i>> \in failed'
    BY <1>2
  <2> QED
    BY <1>1, <1>3, <2>1, <2>2, <2>3, <2>4 DEF RaceShape
<1>6. SequentialShape'
  BY <1>1, <1>2 DEF SequentialShape, Idx
<1>7. SelectNeverStarves'
  <2>1. 1 \in Idx /\ att'[1] = "tcp"
    BY <1>2 DEF Idx
  <2> QED
    BY <2>1 DEF SelectNeverStarves, Pending
<1>8. Progress'
  BY <1>1, <1>3 DEF Progress, Racing
<1>9. FailureIsExhaustive'
  <2>1. CASE r = 1
    BY <2>1, <1>1, <1>3 DEF FailureIsExhaustive, Racing
  <2>2. CASE r = 2
    <3>1. len'[1] = len[1]
      BY <2>2 DEF TypeOK
    <3>2. len[1] > 0 /\ AllFailed(1)
      BY <2>2 DEF FailureIsExhaustive
    <3>3. len'[1] > 0 /\ AllFailed(1)'
      BY <3>1, <3>2, <1>1 DEF AllFailed
    <3> QED
      BY <3>3, <1>1, <1>3 DEF FailureIsExhaustive
  <2> QED
    BY <2>1, <2>2
<1> QED
  BY <1>4, <1>5, <1>6, <1>7, <1>8, <1>9

\* Returning without a connection before or between the races.
LEMMA ReturnInv ==
    ASSUME Inv, NEW res \in {"no_candidates", "intl_error"}, Return(res),
           UNCHANGED <<mode, round, len, att, nextIdx, more, failed>>,
           res = "no_candidates" => phase = "resolve",
           res = "intl_error" => phase = "intl"
    PROVE  Inv'
<1> USE DEF Inv, Return
<1>1. TypeOK'
  BY DEF TypeOK, Phases
<1>2. RaceShape' /\ SequentialShape' /\ SelectNeverStarves' /\ Progress'
  BY DEF RaceShape, SequentialShape, SelectNeverStarves, Progress, Racing
<1>3. AllFailed(1)' = AllFailed(1)
  BY DEF AllFailed
<1>4. FailureIsExhaustive'
  BY <1>3 DEF FailureIsExhaustive
<1> QED
  BY <1>1, <1>2, <1>4

\* An attempt that makes progress stays in flight: nothing else changes.
LEMMA AttemptInv ==
    ASSUME Inv, NEW i \in Idx, Attempt(i)
    PROVE  Inv'
<1> USE DEF Inv
<1>1. /\ phase \in Racing /\ att[i] \in {"tcp", "tls"}
      /\ UNCHANGED <<mode, phase, round, len, nextIdx, more, failed, result>>
  BY DEF Attempt, TcpConnected, TlsConnected, AttemptFails
<1>2. PICK new \in {"tls", "ok", "err"} : att' = [att EXCEPT ![i] = new]
  BY DEF Attempt, TcpConnected, TlsConnected, AttemptFails
<1>3. TypeOK'
  <2>1. att' \in [Idx -> AttStates]
    BY <1>2 DEF TypeOK, AttStates
  <2> QED
    BY <1>1, <2>1 DEF TypeOK
<1>4. \A j \in Idx : att'[j] = IF j = i THEN new ELSE att[j]
  BY <1>2 DEF TypeOK
<1>5. i < nextIdx
  BY <1>1 DEF RaceShape, TypeOK, Idx
<1>6. RaceShape'
  BY <1>1, <1>4, <1>5 DEF RaceShape, InFlight
<1>7. SequentialShape'
  <2> SUFFICES ASSUME phase' \in {"single", "seq"}, NEW j \in Idx,
                      j < nextIdx' - 1
               PROVE  att'[j] = "failed"
    BY DEF SequentialShape
  <2>1. att[j] = "failed"
    BY <1>1 DEF SequentialShape
  <2> QED
    BY <2>1, <1>1, <1>4
<1>8. SelectNeverStarves'
  <2>1. i \in Pending'
    BY <1>4 DEF Pending
  <2> QED
    BY <2>1 DEF SelectNeverStarves
<1>9. Progress'
  BY <1>1 DEF Progress
<1>10. FailureIsExhaustive'
  BY <1>1 DEF FailureIsExhaustive, AllFailed
<1> QED
  BY <1>3, <1>6, <1>7, <1>8, <1>9, <1>10

\* Once the last undecided attempt of a list has failed, all of them have:
\* the call goes on to the international list or ends.
LEMMA RaceFailedInv ==
    ASSUME Inv, phase \in Racing, RaceFailed,
           NEW i \in Idx, att' = [att EXCEPT ![i] = "failed"],
           failed' = failed \cup {<<round, i>>},
           UNCHANGED <<mode, round, len, nextIdx, more>>,
           nextIdx > len[round],
           \A j \in Idx : j < nextIdx /\ j # i => att[j] = "failed"
    PROVE  Inv'
<1> USE DEF Inv
<1>1. round \in {1, 2} /\ result = "none" /\ nextIdx = len[round] + 1
      /\ len[round] \in 0..MaxCands /\ len[round] >= 1
  BY DEF RaceShape, TypeOK
<1>2. AllFailed(round)'
  <2> SUFFICES ASSUME NEW j \in 1..len[round] PROVE <<round, j>> \in failed'
    BY DEF AllFailed
  <2>1. j \in Idx /\ j < nextIdx
    BY <1>1 DEF Idx
  <2>2. CASE j = i
    BY <2>2
  <2>3. CASE j # i
    BY <2>1, <2>3 DEF RaceShape
  <2> QED
    BY <2>2, <2>3
<1>3. TypeOK'
  <2>1. att' \in [Idx -> AttStates]
    BY DEF TypeOK, AttStates
  <2>2. failed' \subseteq {1, 2} \X Idx
    BY <1>1 DEF TypeOK
  <2>3. phase' \in Phases
        /\ result' \in {"none", "ok", "no_candidates", "intl_error", "all_failed"}
    BY <1>1 DEF RaceFailed, Return, Phases
  <2> QED
    BY <2>1, <2>2, <2>3 DEF TypeOK
<1>4. CASE round = 1
  <2>1. phase' = "intl" /\ result' = "none" /\ round' = 1 /\ len' = len
    BY <1>1, <1>4 DEF RaceFailed
  <2>2. RaceShape' /\ SequentialShape' /\ SelectNeverStarves' /\ Progress'
    BY <2>1 DEF RaceShape, SequentialShape, SelectNeverStarves, Progress, Racing
  <2>3. AllFailed(1)'
    BY <1>2, <1>4
  <2>4. FailureIsExhaustive'
    BY <2>1, <2>3, <1>1, <1>4 DEF FailureIsExhaustive
  <2> QED
    BY <1>3, <2>2, <2>4
<1>5. CASE round = 2
  <2>1. phase' = "done" /\ result' = "all_failed" /\ round' = 2 /\ len' = len
    BY <1>1, <1>5 DEF RaceFailed, Return
  <2>2. RaceShape' /\ SequentialShape' /\ SelectNeverStarves' /\ Progress'
    BY <2>1 DEF RaceShape, SequentialShape, SelectNeverStarves, Progress, Racing
  <2>3. AllFailed(2)'
    BY <1>2, <1>5
  <2>4. len[1] > 0 /\ AllFailed(1)
    BY <1>5 DEF FailureIsExhaustive
  <2>5. AllFailed(1)'
    BY <2>4 DEF AllFailed
  <2>6. FailureIsExhaustive'
    BY <2>1, <2>3, <2>4, <2>5, <1>1, <1>5 DEF FailureIsExhaustive
  <2> QED
    BY <1>3, <2>2, <2>6
<1> QED
  BY <1>1, <1>4, <1>5

\* A connection is returned: the race is over and nothing was given up.
LEMMA OkInv ==
    ASSUME Inv, phase \in Racing, Return("ok"), att' \in [Idx -> AttStates],
           UNCHANGED <<mode, round, len, nextIdx, more, failed>>
    PROVE  Inv'
<1> USE DEF Inv, Return
<1>1. TypeOK'
  BY DEF TypeOK, Phases
<1>2. RaceShape' /\ SequentialShape' /\ SelectNeverStarves'
  BY DEF RaceShape, SequentialShape, SelectNeverStarves, Racing
<1>3. Progress'
  BY DEF Progress
<1>4. FailureIsExhaustive'
  <2>1. round = 2 => len[1] > 0 /\ AllFailed(1)
    BY DEF FailureIsExhaustive
  <2>2. AllFailed(1) => AllFailed(1)'
    BY DEF AllFailed
  <2> QED
    BY <2>1, <2>2 DEF FailureIsExhaustive
<1> QED
  BY <1>1, <1>2, <1>3, <1>4

\* An error is taken out of pending: the race goes on, or the list is over.
LEMMA TakeErrorInv ==
    ASSUME Inv, NEW i \in Idx, TakeError(i)
    PROVE  Inv'
<1> USE DEF Inv, TakeError
<1>1. phase \in Racing /\ i < nextIdx
  BY DEF Racing, RaceShape, TypeOK, Idx
<1>2. CASE Exhausted(i)
  <2>1. nextIdx > len[round]
    BY <1>1, <1>2 DEF Exhausted, RaceShape, TypeOK
  <2>2. \A j \in Idx : j < nextIdx /\ j # i => att[j] = "failed"
    BY <1>1, <1>2 DEF Exhausted, RaceShape, Pending, InFlight
  <2>3. RaceFailed
    BY <1>2
  <2> QED
    BY <1>1, <2>1, <2>2, <2>3, RaceFailedInv
<1>3. CASE ~Exhausted(i)
  <2>1. UNCHANGED <<mode, phase, round, len, nextIdx, more, result>>
    BY <1>3
  <2>2. \A j \in Idx : att'[j] = IF j = i THEN "failed" ELSE att[j]
    BY DEF TypeOK
  <2>3. round \in {1, 2}
    BY <1>1 DEF RaceShape
  <2>4. TypeOK'
    <3>1. att' \in [Idx -> AttStates]
      BY DEF TypeOK, AttStates
    <3>2. failed' \subseteq {1, 2} \X Idx
      BY <2>3 DEF TypeOK
    <3> QED
      BY <2>1, <3>1, <3>2 DEF TypeOK
  <2>5. RaceShape'
    BY <1>1, <2>1, <2>2 DEF RaceShape
  <2>6. SequentialShape'
    BY <2>1 DEF SequentialShape
  <2>7. SelectNeverStarves'
    <3>1. i \in Pending
      BY DEF Pending
    <3>2. more \/ \E j \in Pending : j # i
      BY <1>3, <3>1 DEF Exhausted
    <3>3. \A j \in Pending : j # i => j \in Pending'
      BY <2>2 DEF Pending
    <3> QED
      BY <2>1, <3>2, <3>3 DEF SelectNeverStarves
  <2>8. Progress'
    BY <2>1 DEF Progress
  <2>9. FailureIsExhaustive'
    BY <2>1 DEF FailureIsExhaustive, AllFailed
  <2> QED
    BY <2>4, <2>5, <2>6, <2>7, <2>8, <2>9
<1> QED
  BY <1>2, <1>3

\* The stagger timer starts the next IP of the list.
LEMMA TimerInv ==
    ASSUME Inv, TimerFires
    PROVE  Inv'
<1> USE DEF Inv, TimerFires
<1>1. /\ phase \in Racing /\ round \in {1, 2} /\ nextIdx \in Idx
      /\ nextIdx <= len[round] /\ len[round] \in 0..MaxCands
  BY DEF Racing, RaceShape, TypeOK, Idx
<1>2. \A j \in Idx : att'[j] = IF j = nextIdx THEN "tcp" ELSE att[j]
  BY <1>1 DEF TypeOK
<1>3. more' <=> nextIdx + 1 <= len[round]
  BY Zenon
<1>4. TypeOK'
  <2>1. att' \in [Idx -> AttStates]
    BY DEF TypeOK, AttStates
  <2>2. nextIdx' \in 1..(MaxCands + 1)
    BY <1>1 DEF Idx
  <2>3. more' \in BOOLEAN
    <3>1. more' = (nextIdx + 1 <= len[round])
      OBVIOUS
    <3>2. (nextIdx + 1 <= len[round]) \in BOOLEAN
      OBVIOUS
    <3> QED
      BY ONLY <3>1, <3>2, Zenon
  <2> QED
    BY <2>1, <2>2, <2>3 DEF TypeOK
<1>5. RaceShape'
  <2>1. \A j \in Idx : j < nextIdx' => att'[j] \in InFlight \cup {"failed"}
    BY <1>1, <1>2 DEF RaceShape, InFlight, Idx
  <2>2. \A j \in Idx : j >= nextIdx' => att'[j] = "idle"
    BY <1>1, <1>2 DEF RaceShape, Idx
  <2>3. \A j \in Idx : att'[j] = "failed" => <<round, j>> \in failed
    BY <1>1, <1>2 DEF RaceShape
  <2>4. nextIdx' >= 2 /\ nextIdx' <= len[round] + 1
    BY <1>1 DEF Idx
  <2>5. more' <=> nextIdx' <= len'[round']
    BY <1>3
  <2> QED
    BY <1>1, <2>1, <2>2, <2>3, <2>4, <2>5 DEF RaceShape
<1>6. SequentialShape'
  BY DEF SequentialShape
<1>7. SelectNeverStarves'
  <2>1. nextIdx \in Pending'
    BY <1>1, <1>2 DEF Pending
  <2> QED
    BY <2>1 DEF SelectNeverStarves
<1>8. Progress' /\ FailureIsExhaustive'
  BY DEF Progress, FailureIsExhaustive, AllFailed
<1> QED
  BY <1>4, <1>5, <1>6, <1>7, <1>8

\* A sequential attempt failed: the next IP is tried, or the list is over.
LEMMA SequentialErrInv ==
    ASSUME Inv, SequentialErr
    PROVE  Inv'
<1> USE DEF Inv, SequentialErr
<1> DEFINE i == nextIdx - 1
<1>1. /\ phase \in Racing /\ round \in {1, 2} /\ nextIdx \in Nat
      /\ i \in Idx /\ i < nextIdx /\ i + 1 = nextIdx
      /\ len[round] \in 0..MaxCands /\ nextIdx <= len[round] + 1
  BY DEF Racing, RaceShape, TypeOK, Idx
<1>2. \A j \in Idx : j < nextIdx /\ j # i => att[j] = "failed"
  BY <1>1 DEF SequentialShape, Idx
<1>3. CASE nextIdx <= len[round]
  <2>1. nextIdx \in Idx
    BY <1>1, <1>3 DEF Idx
  <2>2. \A j \in Idx : att'[j] = IF j = i THEN "failed"
                                 ELSE IF j = nextIdx THEN "tcp" ELSE att[j]
    BY <1>1, <1>3, <2>1 DEF TypeOK
  <2>3. UNCHANGED <<mode, phase, round, len, result>> /\ nextIdx' = nextIdx + 1
    BY <1>3
  <2>4. more' = (nextIdx + 1 <= len[round])
    BY <1>3
  <2>5. TypeOK'
    <3>1. att' \in [Idx -> AttStates]
      BY <1>3 DEF TypeOK, AttStates
    <3>2. nextIdx' \in 1..(MaxCands + 1)
      BY <2>1, <2>3 DEF Idx
    <3>3. more' \in BOOLEAN
      <4>1. (nextIdx + 1 <= len[round]) \in BOOLEAN
        OBVIOUS
      <4> QED
        BY ONLY <4>1, <2>4, Zenon
    <3>4. failed' \subseteq {1, 2} \X Idx
      BY <1>1 DEF TypeOK
    <3> QED
      BY <2>3, <3>1, <3>2, <3>3, <3>4 DEF TypeOK
  <2>6. RaceShape'
    <3>1. \A j \in Idx : j < nextIdx' => att'[j] \in InFlight \cup {"failed"}
      BY <1>1, <2>1, <2>2, <2>3 DEF RaceShape, InFlight, Idx
    <3>2. \A j \in Idx : j >= nextIdx' => att'[j] = "idle"
      BY <1>1, <2>1, <2>2, <2>3 DEF RaceShape, Idx
    <3>3. \A j \in Idx : att'[j] = "failed" => <<round, j>> \in failed'
      BY <1>1, <2>2 DEF RaceShape
    <3>4. more' <=> nextIdx' <= len'[round']
      <4>1. more' <=> (nextIdx + 1 <= len[round])
        BY ONLY <2>4, Zenon
      <4> QED
        BY <4>1, <2>3
    <3>5. nextIdx' >= 2 /\ nextIdx' <= len[round] + 1
      BY <1>1, <1>3, <2>3 DEF Idx
    <3> QED
      BY <1>1, <2>3, <3>1, <3>2, <3>3, <3>4, <3>5 DEF RaceShape
  <2>7. SequentialShape'
    BY <1>1, <1>2, <2>2, <2>3 DEF SequentialShape, Idx
  <2>8. SelectNeverStarves' /\ Progress'
    BY <2>3 DEF SelectNeverStarves, Progress
  <2>9. FailureIsExhaustive'
    BY <2>3 DEF FailureIsExhaustive, AllFailed
  <2> QED
    BY <2>5, <2>6, <2>7, <2>8, <2>9
<1>4. CASE ~(nextIdx <= len[round])
  <2>1. nextIdx > len[round]
    BY <1>1, <1>4
  <2>2. /\ RaceFailed /\ att' = [att EXCEPT ![i] = "failed"]
        /\ failed' = failed \cup {<<round, i>>}
        /\ UNCHANGED <<mode, round, len, nextIdx, more>>
    BY <1>4
  <2> HIDE DEF i
  <2> QED
    BY <1>1, <1>2, <2>1, <2>2, RaceFailedInv
<1> QED
  BY <1>3, <1>4

\* Every step preserves the invariant.
LEMMA InvNext ==
    ASSUME Inv, [Next]_vars
    PROVE  Inv'
<1>1. CASE \E k \in 1..MaxCands : EnterWithIps(k)
  <2>1. PICK k \in 1..MaxCands : EnterWithIps(k)
    BY <1>1
  <2> QED
    BY <2>1, BeginInv DEF EnterWithIps
<1>2. CASE EnterResolving
  <2> USE DEF Inv, EnterResolving
  <2>1. TypeOK' /\ Progress'
    BY <1>2 DEF TypeOK, Phases, Progress
  <2>2. RaceShape' /\ SequentialShape' /\ SelectNeverStarves'
    BY <1>2 DEF RaceShape, SequentialShape, SelectNeverStarves, Racing
  <2>3. FailureIsExhaustive'
    BY <1>2 DEF FailureIsExhaustive, AllFailed
  <2> QED
    BY <2>1, <2>2, <2>3
<1>3. CASE \E k \in 0..MaxCands : Resolved(k)
  <2>1. PICK k \in 0..MaxCands : Resolved(k)
    BY <1>3
  <2>2. CASE k = 0
    BY <2>1, <2>2, ReturnInv DEF Resolved
  <2>3. CASE k # 0
    <3>1. k \in 1..MaxCands
      BY <2>3
    <3> QED
      BY <3>1, <2>1, <2>3, BeginInv DEF Resolved
  <2> QED
    BY <2>2, <2>3
<1>4. CASE \E k \in 0..MaxCands : InternationalResolved(k)
  <2>1. PICK k \in 0..MaxCands : InternationalResolved(k)
    BY <1>4
  <2>2. CASE k = 0
    BY <2>1, <2>2, ReturnInv DEF InternationalResolved
  <2>3. CASE k # 0
    <3>1. k \in 1..MaxCands
      BY <2>3
    <3> QED
      BY <3>1, <2>1, <2>3, BeginInv DEF InternationalResolved
  <2> QED
    BY <2>2, <2>3
<1>5. CASE \E i \in Idx : Attempt(i)
  BY <1>5, AttemptInv
<1>6. CASE \E i \in Idx : Take(i)
  <2>1. PICK i \in Idx : Take(i)
    BY <1>6
  <2>2. CASE TakeError(i)
    BY <2>2, TakeErrorInv
  <2>3. CASE TakeSuccess(i)
    <3>1. att' \in [Idx -> AttStates]
      BY <2>3 DEF TakeSuccess, Inv, TypeOK, AttStates
    <3> QED
      BY <2>3, <3>1, OkInv DEF TakeSuccess, Racing
  <2> QED
    BY <2>1, <2>2, <2>3 DEF Take
<1>7. CASE TimerFires
  BY <1>7, TimerInv
<1>8. CASE SequentialOk
  <2>1. att' \in [Idx -> AttStates]
    BY <1>8 DEF SequentialOk, Inv, TypeOK, AttStates
  <2> QED
    BY <1>8, <2>1, OkInv DEF SequentialOk, Racing
<1>9. CASE SequentialErr
  BY <1>9, SequentialErrInv
<1>10. CASE UNCHANGED vars
  BY <1>10 DEF vars, Inv, TypeOK, RaceShape, SequentialShape, Pending,
               SelectNeverStarves, Progress, FailureIsExhaustive, AllFailed
<1> QED
  BY <1>1, <1>2, <1>3, <1>4, <1>5, <1>6, <1>7, <1>8, <1>9, <1>10
     DEF Next, Terminated

\* The invariant holds in every reachable state.
LEMMA Invariance == Spec => []Inv
  BY InvInit, InvNext, PTL DEF Spec

\* The race's select! always has an enabled branch, however many candidates
\* there are and in whatever order attempts fail and the timer fires: the
\* missing `else` of run_happy_eyeballs can never panic.
THEOREM RaceNeverPanics == Spec => []SelectNeverStarves
<1>1. Inv => SelectNeverStarves
  BY DEF Inv
<1> QED
  BY <1>1, Invariance, PTL

\* connect_with_fallback, connect_with_ips and connect_tcp_with_fallback give
\* a list up only after the error of each of its IPs has been seen.
THEOREM GivesUpOnlyWhenExhausted == Spec => []FailureIsExhaustive
<1>1. Inv => FailureIsExhaustive
  BY DEF Inv
<1> QED
  BY <1>1, Invariance, PTL

\* No step abandons a list while one of its attempts is connected.
LEMMA SuccessKept ==
    ASSUME Inv, [Next]_vars, phase \in Racing, phase' # phase, result' # "ok",
           NEW i \in Idx
    PROVE  att[i] # "ok"
<1> USE DEF Inv
<1>1. (\E j \in Idx : TakeError(j) /\ Exhausted(j)) \/ SequentialErr
  BY DEF Next, EnterWithIps, EnterResolving, Resolved, InternationalResolved,
         Attempt, TcpConnected, TlsConnected, AttemptFails, Take, TakeSuccess,
         TakeError, TimerFires, SequentialOk, Return, Terminated, vars, Racing
<1>2. CASE \E j \in Idx : TakeError(j) /\ Exhausted(j)
  BY <1>2 DEF TakeError, Exhausted, Pending
<1>3. CASE SequentialErr
  <2>1. nextIdx \in Nat /\ nextIdx - 1 \in Idx
    BY <1>3 DEF SequentialErr, RaceShape, TypeOK, Racing, Idx
  <2>2. CASE i < nextIdx - 1
    BY <1>3, <2>2 DEF SequentialShape, SequentialErr
  <2>3. CASE i = nextIdx - 1
    BY <1>3, <2>3 DEF SequentialErr
  <2>4. CASE i >= nextIdx
    BY <2>4 DEF RaceShape
  <2> QED
    BY <2>1, <2>2, <2>3, <2>4 DEF Idx
<1> QED
  BY <1>1, <1>2, <1>3

\* An established connection is never thrown away in favour of the fallback or
\* of an error, whatever the order in which pending yields.
THEOREM EstablishedConnectionIsUsed == Spec => NoSuccessDiscarded
<1>1. Inv /\ [Next]_vars =>
        [(phase \in Racing /\ phase' # phase /\ result' # "ok")
            => (\A i \in Idx : att[i] # "ok")]_vars
  BY SuccessKept
<1> QED
  BY <1>1, Invariance, PTL DEF Spec, NoSuccessDiscarded

------------------------------------------------------------------------------
(* Refinement: a call implements Connector.                                *)

\* An error seen is the error of an address of a list that was returned, a list
\* that was not returned yet is empty, and an IP of the list being raced whose
\* error was seen is not raced any more.
FailedShape ==
    /\ phase \in {"entry", "resolve"} => round = 0
    /\ \A r \in {1, 2} : round < r => len[r] = 0
    /\ \A r \in {1, 2}, i \in Idx : <<r, i>> \in failed => r <= round /\ i <= len[r]
    /\ phase \in Racing => \A i \in Idx : <<round, i>> \in failed => att[i] = "failed"

\* A list begins: nothing of it has been seen.
LEMMA BeginFailedShape ==
    ASSUME Inv, FailedShape, NEW r \in {1, 2}, NEW k \in 1..MaxCands, BeginRace(r, k),
           r = 1 => round = 0, r = 2 => round = 1
    PROVE  FailedShape' /\ Known \subseteq Known' /\ failed' = failed /\ result' = result
<1>1. /\ phase' \in Racing /\ round' = r /\ len' = [len EXCEPT ![r] = k]
      /\ failed' = failed /\ result' = result
  BY DEF BeginRace, Racing
<1>2. TypeOK /\ len[r] = 0 /\ round < r
  BY DEF Inv, FailedShape
<1>3. len'[r] = k /\ \A q \in {1, 2} : q # r => len'[q] = len[q]
  BY <1>1, <1>2 DEF TypeOK
<1>4. \A i \in Idx : <<r, i>> \notin failed
  BY <1>2 DEF FailedShape
<1>5. phase' \notin {"entry", "resolve"}
  BY <1>1 DEF Racing
<1>6. \A q \in {1, 2} : round' < q => len'[q] = 0
  BY <1>1, <1>2, <1>3 DEF FailedShape
<1>7. \A q \in {1, 2}, i \in Idx : <<q, i>> \in failed' => q <= round' /\ i <= len'[q]
  BY <1>1, <1>2, <1>3, <1>4 DEF FailedShape
<1>8. FailedShape'
  BY <1>1, <1>4, <1>5, <1>6, <1>7 DEF FailedShape
<1>9. \A p \in {1, 2} \X Idx : p[2] <= len[p[1]] => p[2] <= len'[p[1]]
  <2> SUFFICES ASSUME NEW p \in {1, 2} \X Idx, p[2] <= len[p[1]]
               PROVE  p[2] <= len'[p[1]]
    OBVIOUS
  <2>1. p[1] \in {1, 2} /\ p[2] \in Nat /\ p[2] >= 1
    BY DEF Idx
  <2> QED
    BY <1>2, <1>3, <2>1
<1> QED
  BY <1>1, <1>8, <1>9 DEF Known

\* Steps of the attempts and of the timer are invisible.
LEMMA QuietFailedShape ==
    ASSUME Inv, FailedShape,
           \/ EnterResolving \/ TimerFires \/ (\E i \in Idx : Attempt(i))
    PROVE  FailedShape' /\ UNCHANGED <<len, failed, result, round>>
<1>1. UNCHANGED <<len, failed, result, round>>
  BY DEF EnterResolving, TimerFires, Attempt, TcpConnected, TlsConnected, AttemptFails
<1>2. CASE EnterResolving
  BY <1>1, <1>2 DEF EnterResolving, FailedShape, Racing
<1>3. ASSUME phase \in Racing, phase' = phase,
             \A i \in Idx : att[i] = "failed" => att'[i] = "failed"
      PROVE  FailedShape'
  BY <1>1, <1>3 DEF FailedShape, Racing
<1>4. CASE TimerFires
  <2>1. phase \in Racing /\ phase' = phase /\ att' = [att EXCEPT ![nextIdx] = "tcp"]
    BY <1>4 DEF TimerFires, Racing
  <2>2. nextIdx \in Idx => att[nextIdx] = "idle"
    BY <2>1 DEF Inv, TypeOK, RaceShape, Idx
  <2>3. \A i \in Idx : att[i] = "failed" => att'[i] = "failed"
    BY <2>1, <2>2 DEF Inv, TypeOK
  <2> QED
    BY <1>1, <1>3, <2>1, <2>3
<1>5. ASSUME NEW i \in Idx, Attempt(i) PROVE FailedShape'
  <2>1. phase \in Racing /\ phase' = phase /\ att[i] \in {"tcp", "tls"}
        /\ \E a \in AttStates : att' = [att EXCEPT ![i] = a]
    BY <1>5 DEF Attempt, TcpConnected, TlsConnected, AttemptFails, AttStates
  <2>2. \A j \in Idx : att[j] = "failed" => att'[j] = "failed"
    BY <2>1 DEF Inv, TypeOK
  <2> QED
    BY <1>3, <2>1, <2>2
<1> QED
  BY <1>1, <1>2, <1>4, <1>5

\* The error of IP i is taken.
LEMMA ErrorFailedShape ==
    ASSUME Inv, FailedShape, NEW i \in Idx, phase \in Racing, i < nextIdx,
           failed' = failed \cup {<<round, i>>}, UNCHANGED <<round, len>>,
           \/ phase' = phase
           \/ phase' \in {"intl", "done"},
           \A j \in Idx : att[j] = "failed" \/ j = i => att'[j] = "failed"
    PROVE  FailedShape' /\ <<round, i>> \in Known
<1>1. i <= len[round] /\ round \in {1, 2} /\ TypeOK
  BY DEF Inv, RaceShape, TypeOK, Idx
<1>2. phase' \notin {"entry", "resolve"}
  BY DEF Racing
<1>3. \A r \in {1, 2}, j \in Idx : <<r, j>> \in failed' => r <= round' /\ j <= len'[r]
  BY <1>1 DEF FailedShape
<1>4. \A j \in Idx : <<round', j>> \in failed' => att'[j] = "failed"
  BY DEF FailedShape
<1>5. FailedShape'
  BY <1>2, <1>3, <1>4 DEF FailedShape
<1> QED
  BY <1>1, <1>5 DEF Known

\* What the step of the call is at the level of Connector.
Quiet == UNCHANGED <<len, failed, result, round>>
Learns ==
    /\ result = "none" /\ UNCHANGED <<failed, result>>
    /\ round = 0 \/ round = 1
    /\ Known \subseteq Known'
GivesUp ==
    /\ result = "none" /\ UNCHANGED <<len, failed, round>>
    /\ result' \in {"no_candidates", "intl_error"}
    /\ Known \subseteq failed
Rejects(i) ==
    /\ result = "none" /\ UNCHANGED <<len, round>>
    /\ <<round, i>> \in Known /\ failed' = failed \cup {<<round, i>>}
    /\ \/ result' = "none"
       \/ result' = "all_failed" /\ round = 2 /\ Known \subseteq failed'
Succeeds ==
    /\ result = "none" /\ result' = "ok" /\ UNCHANGED <<len, failed, round>>
    /\ Known \ failed # {}

\* Each of these is a step of Connector, or none.
LEMMA MapStep ==
    ASSUME TypeOK, TypeOK',
           Quiet \/ Learns \/ GivesUp \/ Succeeds \/ (\E i \in Idx : Rejects(i))
    PROVE  [Call!Next]_Call!vars
<1> USE DEF Call!Next, Call!vars, Call!MayReturn
<1>1. CASE Quiet
  BY <1>1 DEF Quiet, Known
<1>2. CASE Learns
  <2>1. Known' \subseteq {1, 2} \X Idx
    BY DEF Known
  <2> QED
    BY <1>2, <2>1 DEF Learns, Call!Learn
<1>3. CASE GivesUp
  <2>1. Known' = Known
    BY <1>3 DEF GivesUp, Known
  <2> QED
    BY <1>3, <2>1 DEF GivesUp, Call!GiveUp
<1>4. CASE Succeeds
  <2>1. Known' = Known
    BY <1>4 DEF Succeeds, Known
  <2> QED
    BY <1>4, <2>1 DEF Succeeds, Call!Succeed
<1>5. ASSUME NEW i \in Idx, Rejects(i) PROVE Call!Next
  <2>1. Known' = Known /\ <<round, i>> \in Known
    BY <1>5 DEF Rejects, Known
  <2>2. Call!Reject(<<round, i>>)
    BY <1>5, <2>1 DEF Rejects, Call!Reject
  <2> QED
    BY <2>1, <2>2
<1> QED
  BY <1>1, <1>2, <1>3, <1>4, <1>5

\* The list given up last covers all that is known.
LEMMA KnownAllFailed ==
    ASSUME Inv, FailedShape, FailureIsExhaustive', UNCHANGED <<len, round>>,
           TypeOK', failed \subseteq failed',
           \/ result' = "no_candidates" /\ round = 0
           \/ result' = "intl_error" /\ round = 1
           \/ result' = "all_failed" /\ round = 2
    PROVE  Known \subseteq failed'
<1> SUFFICES ASSUME NEW p \in {1, 2} \X Idx, p[2] <= len[p[1]]
             PROVE  p \in failed'
  BY DEF Known
<1>1. PICK r \in {1, 2}, i \in Idx : p = <<r, i>>
  OBVIOUS
<1>2. i \in Nat /\ i >= 1 /\ i <= len[r] /\ TypeOK
  BY <1>1 DEF Idx, Inv
<1>3. r <= round
  BY <1>2 DEF FailedShape, TypeOK
<1>4. i \in 1..len'[r]
  BY <1>2 DEF TypeOK
<1> QED
  BY <1>1, <1>3, <1>4 DEF FailureIsExhaustive, AllFailed

LEMMA RefineStep ==
    ASSUME Inv, FailedShape, [Next]_vars
    PROVE  FailedShape' /\ [Call!Next]_Call!vars
<1>0. Inv' /\ TypeOK /\ TypeOK' /\ FailureIsExhaustive' /\ Progress
  BY InvNext DEF Inv
<1>1. ASSUME NEW k \in 1..MaxCands, EnterWithIps(k) PROVE FailedShape' /\ Learns
  <2>1. phase = "entry" /\ BeginRace(1, k) /\ round = 0 /\ result = "none"
    BY <1>0, <1>1 DEF EnterWithIps, FailedShape, Progress
  <2> QED
    BY <2>1, BeginFailedShape DEF Learns
<1>2. ASSUME NEW k \in 0..MaxCands, Resolved(k)
      PROVE  FailedShape' /\ (Learns \/ GivesUp)
  <2>1. phase = "resolve" /\ round = 0 /\ result = "none"
    BY <1>0, <1>2 DEF Resolved, FailedShape, Progress
  <2>2. CASE k = 0
    <3>1. /\ phase' = "done" /\ result' = "no_candidates"
          /\ UNCHANGED <<round, len, failed, att>>
      BY <1>2, <2>2 DEF Resolved, Return
    <3>2. Known \subseteq failed
      BY <1>0, <2>1, <3>1, KnownAllFailed
    <3> QED
      BY <2>1, <3>1, <3>2 DEF GivesUp, FailedShape, Racing
  <2>3. CASE k # 0
    <3>1. k \in 1..MaxCands /\ BeginRace(1, k)
      BY <1>2, <2>3 DEF Resolved
    <3> QED
      BY <2>1, <3>1, BeginFailedShape DEF Learns
  <2> QED
    BY <2>2, <2>3
<1>3. ASSUME NEW k \in 0..MaxCands, InternationalResolved(k)
      PROVE  FailedShape' /\ (Learns \/ GivesUp)
  <2>1. phase = "intl" /\ round = 1 /\ result = "none"
    BY <1>0, <1>3 DEF InternationalResolved, Progress
  <2>2. CASE k = 0
    <3>1. /\ phase' = "done" /\ result' = "intl_error"
          /\ UNCHANGED <<round, len, failed, att>>
      BY <1>3, <2>2 DEF InternationalResolved, Return
    <3>2. Known \subseteq failed
      BY <1>0, <2>1, <3>1, KnownAllFailed
    <3> QED
      BY <2>1, <3>1, <3>2 DEF GivesUp, FailedShape, Racing
  <2>3. CASE k # 0
    <3>1. k \in 1..MaxCands /\ BeginRace(2, k)
      BY <1>3, <2>3 DEF InternationalResolved
    <3> QED
      BY <2>1, <3>1, BeginFailedShape DEF Learns
  <2> QED
    BY <2>2, <2>3
<1>4. CASE EnterResolving \/ TimerFires \/ (\E i \in Idx : Attempt(i))
  BY <1>4, QuietFailedShape, <1>0, MapStep DEF Quiet
<1>5. ASSUME NEW i \in Idx, phase \in Racing, att[i] = "ok", result' = "ok",
             phase' = "done", UNCHANGED <<len, failed, round>>
      PROVE  FailedShape' /\ Succeeds
  <2>1. i < nextIdx /\ round \in {1, 2} /\ result = "none" /\ nextIdx <= len[round] + 1
    BY <1>5 DEF Inv, RaceShape, TypeOK, Idx
  <2>2. <<round, i>> \notin failed
    BY <1>5 DEF FailedShape
  <2>3. i <= len[round]
    BY <1>0, <2>1 DEF TypeOK, Idx
  <2>4. <<round, i>> \in Known
    BY <2>1, <2>3 DEF Known
  <2> QED
    BY <1>5, <2>1, <2>2, <2>4 DEF FailedShape, Succeeds, Racing
<1>6. ASSUME NEW i \in Idx, TakeSuccess(i) PROVE FailedShape' /\ Succeeds
  BY <1>5, <1>6 DEF TakeSuccess, Return, Racing
<1>7. ASSUME SequentialOk PROVE FailedShape' /\ Succeeds
  <2>1. nextIdx - 1 \in Idx
    BY <1>0, <1>7 DEF SequentialOk, Inv, RaceShape, TypeOK, Racing, Idx
  <2> QED
    BY <1>5, <1>7, <2>1 DEF SequentialOk, Return, Racing
<1>8. ASSUME NEW i \in Idx, phase \in Racing, i < nextIdx,
             failed' = failed \cup {<<round, i>>}, UNCHANGED <<round, len>>,
             \A j \in Idx : att[j] = "failed" \/ j = i => att'[j] = "failed",
             (UNCHANGED <<phase, result>>) \/ RaceFailed
      PROVE  FailedShape' /\ Rejects(i)
  <2>1. round \in {1, 2} /\ result = "none"
    BY <1>8 DEF Inv, RaceShape
  <2>2. \/ phase' = phase /\ result' = "none"
        \/ phase' = "intl" /\ result' = "none"
        \/ phase' = "done" /\ result' = "all_failed" /\ round = 2
    BY <1>8, <2>1 DEF RaceFailed, Return
  <2>3. FailedShape' /\ <<round, i>> \in Known
    BY <1>8, <2>2, ErrorFailedShape
  <2>4. result' = "all_failed" /\ round = 2 => Known \subseteq failed'
    BY <1>0, <1>8, KnownAllFailed
  <2> QED
    BY <1>8, <2>1, <2>2, <2>3, <2>4 DEF Rejects
<1>9. ASSUME NEW i \in Idx, TakeError(i) PROVE FailedShape' /\ Rejects(i)
  <2>1. /\ phase \in Racing /\ att[i] = "err" /\ att' = [att EXCEPT ![i] = "failed"]
        /\ failed' = failed \cup {<<round, i>>} /\ UNCHANGED <<round, len>>
        /\ (UNCHANGED <<phase, result>>) \/ RaceFailed
    BY <1>9 DEF TakeError, Racing
  <2>2. i < nextIdx
    BY <1>0, <2>1 DEF Inv, RaceShape, TypeOK, Idx
  <2>3. \A j \in Idx : att[j] = "failed" \/ j = i => att'[j] = "failed"
    BY <1>0, <2>1 DEF TypeOK
  <2> QED
    BY <1>8, <2>1, <2>2, <2>3
<1>10. CASE SequentialErr
  <2> DEFINE i == nextIdx - 1
  <2>1. phase \in Racing /\ i \in Idx /\ i < nextIdx /\ i # nextIdx /\ att[i] = "err"
    BY <1>0, <1>10 DEF SequentialErr, Inv, RaceShape, TypeOK, Racing, Idx
  <2>2. /\ failed' = failed \cup {<<round, i>>} /\ UNCHANGED <<round, len>>
        /\ (UNCHANGED <<phase, result>>) \/ RaceFailed
    BY <1>10 DEF SequentialErr
  <2>3. \A j \in Idx : att[j] = "failed" \/ j = i => att'[j] = "failed"
    <3>1. nextIdx \in Idx => att[nextIdx] = "idle"
      BY <1>0, <2>1 DEF Inv, RaceShape, TypeOK, Idx
    <3>2. CASE att' = [att EXCEPT ![nextIdx - 1] = "failed", ![nextIdx] = "tcp"]
      BY <1>0, <2>1, <3>1, <3>2 DEF TypeOK
    <3>3. CASE att' = [att EXCEPT ![nextIdx - 1] = "failed"]
      BY <1>0, <2>1, <3>3 DEF TypeOK
    <3> QED
      BY <1>10, <3>2, <3>3 DEF SequentialErr
  <2> HIDE DEF i
  <2>4. FailedShape' /\ Rejects(i)
    BY <1>8, <2>1, <2>2, <2>3
  <2> QED
    BY <1>0, <2>1, <2>4, MapStep
<1>11. CASE UNCHANGED vars
  <2>1. FailedShape' /\ Quiet
    BY <1>11 DEF vars, FailedShape, Quiet
  <2> QED
    BY <1>0, <2>1, MapStep
<1>12. ASSUME FailedShape' /\ (Learns \/ GivesUp \/ Succeeds \/ (\E i \in Idx : Rejects(i)))
       PROVE  FailedShape' /\ [Call!Next]_Call!vars
  BY <1>0, <1>12, MapStep
<1> QED
  BY <1>1, <1>2, <1>3, <1>4, <1>6, <1>7, <1>9, <1>10, <1>11, <1>12
     DEF Next, Take, Terminated

\* A call of the upstream connector, by whichever entry point and with lists of
\* any length, implements Connector.
THEOREM CallImplementsConnector == Spec => ImplementsConnector
<1>1. Init => FailedShape /\ Call!Init
  <2> SUFFICES ASSUME Init PROVE FailedShape /\ Call!Init
    OBVIOUS
  <2>1. FailedShape
    BY DEF Init, FailedShape, Racing
  <2>2. Known \in SUBSET ({1, 2} \X Idx)
    BY DEF Known
  <2> QED
    BY <2>1, <2>2 DEF Init, Call!Init
<1>2. Inv /\ FailedShape /\ [Next]_vars => FailedShape' /\ [Call!Next]_Call!vars
  BY RefineStep
<1> QED
  BY <1>1, <1>2, InvInit, InvNext, PTL DEF Spec, ImplementsConnector, Call!Spec

------------------------------------------------------------------------------
(* Termination: the part of RaceEnds that needs no fairness.               *)

\* The stages of a call, and of one attempt.
Stage ==
    IF phase = "entry" THEN 0 ELSE IF phase = "resolve" THEN 1
    ELSE IF phase \in Racing THEN IF round = 1 THEN 2 ELSE 4
    ELSE IF phase = "intl" THEN 3 ELSE 5
Rung(s) ==
    IF s = "idle" THEN 0 ELSE IF s = "tcp" THEN 1 ELSE IF s = "tls" THEN 2
    ELSE IF s \in Finished THEN 3 ELSE 4

\* The call comes to a later stage, or in the same one an attempt gets on and
\* none falls back.
Advances ==
    \/ Stage' > Stage
    \/ /\ Stage' = Stage
       /\ \A i \in Idx : Rung(att'[i]) >= Rung(att[i])
       /\ \E i \in Idx : Rung(att'[i]) > Rung(att[i])

\* The one attempt at a time is not behind its loop.
CurrentAttempt == phase \in {"single", "seq"} => att[nextIdx - 1] # "failed"

\* In a race an attempt is under way, or the loop has something to take or to start.
CanAdvance ==
    phase \in Racing =>
        \/ \E i \in Idx : att[i] \in {"tcp", "tls"}
        \/ phase = "race" /\ (more \/ \E i \in Idx : att[i] \in Finished)
        \/ phase # "race" /\ att[nextIdx - 1] \in Finished

\* One attempt that gets on, while all others stay.
LEMMA OneRung ==
    ASSUME TypeOK, NEW i \in Idx, NEW s, att' = [att EXCEPT ![i] = s],
           Rung(s) > Rung(att[i]), UNCHANGED <<phase, round>>
    PROVE  Advances
<1>1. Stage' = Stage
  BY DEF Stage
<1>2. att'[i] = s /\ \A j \in Idx : j # i => att'[j] = att[j]
  BY DEF TypeOK
<1>3. \A x : Rung(x) \in 0..4
  BY DEF Rung
<1> QED
  BY <1>1, <1>2, <1>3 DEF Advances

\* A list that is given up is followed by a later stage.
LEMMA LaterStage ==
    ASSUME phase \in Racing, RaceFailed
    PROVE  Advances
<1>1. Stage' > Stage
  BY DEF RaceFailed, Return, Stage, Racing
<1> QED
  BY <1>1 DEF Advances

\* Every step but the last stutter advances the call.
LEMMA StepAdvances ==
    ASSUME Inv, Next, vars' # vars
    PROVE  Advances
<1> USE DEF Inv
<1>1. CASE \E k \in 1..MaxCands : EnterWithIps(k)
  <2>1. Stage = 0 /\ Stage' = 2
    BY <1>1 DEF EnterWithIps, BeginRace, Stage, Racing
  <2> QED
    BY <2>1 DEF Advances
<1>2. CASE EnterResolving
  <2>1. Stage = 0 /\ Stage' = 1
    BY <1>2 DEF EnterResolving, Stage
  <2> QED
    BY <2>1 DEF Advances
<1>3. CASE \E k \in 0..MaxCands : Resolved(k)
  <2>1. Stage = 1 /\ Stage' \in {2, 5}
    BY <1>3 DEF Resolved, BeginRace, Return, Stage, Racing
  <2> QED
    BY <2>1 DEF Advances
<1>4. CASE \E k \in 0..MaxCands : InternationalResolved(k)
  <2>1. Stage = 3 /\ Stage' \in {4, 5}
    BY <1>4 DEF InternationalResolved, BeginRace, Return, Stage, Racing
  <2> QED
    BY <2>1 DEF Advances
<1>5. CASE \E i \in Idx : Attempt(i)
  <2>1. PICK i \in Idx : Attempt(i)
    BY <1>5
  <2>2. PICK s \in {"tls", "ok", "err"} :
          /\ att' = [att EXCEPT ![i] = s] /\ UNCHANGED <<phase, round>>
          /\ Rung(s) > Rung(att[i])
    BY <2>1 DEF Attempt, TcpConnected, TlsConnected, AttemptFails, Rung, Finished
  <2> QED
    BY <2>2, OneRung
<1>6. CASE \E i \in Idx : Take(i)
  <2>1. PICK i \in Idx : Take(i)
    BY <1>6
  <2>2. CASE TakeSuccess(i)
    <3>1. Stage \in {2, 4} /\ Stage' = 5
      BY <2>2 DEF TakeSuccess, Return, Stage, Racing
    <3> QED
      BY <3>1 DEF Advances
  <2>3. CASE TakeError(i) /\ Exhausted(i)
    BY <2>3, LaterStage DEF TakeError, Racing
  <2>4. CASE TakeError(i) /\ ~Exhausted(i)
    <3>1. /\ att' = [att EXCEPT ![i] = "failed"] /\ UNCHANGED <<phase, round>>
          /\ Rung("failed") > Rung(att[i])
      BY <2>4 DEF TakeError, Rung, Finished
    <3> QED
      BY <3>1, OneRung
  <2> QED
    BY <2>1, <2>2, <2>3, <2>4 DEF Take
<1>7. CASE TimerFires
  <2>1. nextIdx \in Idx /\ att[nextIdx] = "idle"
    BY <1>7 DEF TimerFires, RaceShape, TypeOK, Racing, Idx
  <2>2. /\ att' = [att EXCEPT ![nextIdx] = "tcp"] /\ UNCHANGED <<phase, round>>
        /\ Rung("tcp") > Rung(att[nextIdx])
    BY <1>7, <2>1 DEF TimerFires, Rung
  <2> QED
    BY <2>1, <2>2, OneRung
<1>8. CASE SequentialOk
  <2>1. Stage \in {2, 4} /\ Stage' = 5
    BY <1>8 DEF SequentialOk, Return, Stage, Racing
  <2> QED
    BY <2>1 DEF Advances
<1>9. CASE SequentialErr
  <2>1. CASE nextIdx <= len[round]
    <3>1. /\ nextIdx \in Idx /\ nextIdx - 1 \in Idx /\ nextIdx - 1 # nextIdx
          /\ att[nextIdx] = "idle" /\ att[nextIdx - 1] = "err"
      BY <1>9, <2>1 DEF SequentialErr, RaceShape, TypeOK, Racing, Idx
    <3>2. /\ att'[nextIdx - 1] = "failed" /\ att'[nextIdx] = "tcp"
          /\ \A j \in Idx : j \notin {nextIdx - 1, nextIdx} => att'[j] = att[j]
          /\ UNCHANGED <<phase, round>>
      BY <1>9, <2>1, <3>1 DEF SequentialErr, TypeOK
    <3>3. Stage' = Stage
      BY <3>2 DEF Stage
    <3>4. \A x : Rung(x) \in 0..4
      BY DEF Rung
    <3>5. Rung("tcp") > Rung("idle") /\ Rung("failed") > Rung("err")
      BY DEF Rung, Finished
    <3> QED
      BY <3>1, <3>2, <3>3, <3>4, <3>5 DEF Advances
  <2>2. CASE ~(nextIdx <= len[round])
    BY <1>9, <2>2, LaterStage DEF SequentialErr, Racing
  <2> QED
    BY <2>1, <2>2
<1> QED
  BY <1>1, <1>2, <1>3, <1>4, <1>5, <1>6, <1>7, <1>8, <1>9 DEF Next, Terminated

\* However long the lists are and however attempts end: no step of a call goes
\* back.  There are six stages and five rungs for each of finitely many attempts, so
\* that every call of connect_with_fallback makes finitely many steps.
THEOREM CallAdvances == Spec => [][Advances]_vars
<1>1. Inv /\ [Next]_vars => [Advances]_vars
  BY StepAdvances
<1> QED
  BY <1>1, Invariance, PTL DEF Spec

\* The attempt that the sequential loop waits for has not been left behind.
LEMMA CurrentKept ==
    ASSUME Inv, CurrentAttempt, [Next]_vars
    PROVE  CurrentAttempt'
<1> USE DEF Inv
<1>1. CASE \E k \in 1..MaxCands : EnterWithIps(k) \/ Resolved(k) \/ InternationalResolved(k)
  <2>1. phase' \in {"single", "seq"} => nextIdx' - 1 = 1 /\ att'[1] = "tcp"
    BY <1>1 DEF EnterWithIps, Resolved, InternationalResolved, BeginRace, Return, Idx
  <2> QED
    BY <2>1 DEF CurrentAttempt
<1>2. CASE \E i \in Idx : Attempt(i)
  <2>1. PICK i \in Idx : Attempt(i)
    BY <1>2
  <2>2. PICK s \in {"tls", "ok", "err"} :
          att' = [att EXCEPT ![i] = s] /\ UNCHANGED <<phase, nextIdx>>
    BY <2>1 DEF Attempt, TcpConnected, TlsConnected, AttemptFails
  <2>3. \A j : att'[j] = "failed" /\ j \in Idx => att[j] = "failed"
    BY <2>2 DEF TypeOK
  <2>4. phase \in {"single", "seq"} => nextIdx - 1 \in Idx
    BY DEF RaceShape, TypeOK, Racing, Idx
  <2> QED
    BY <2>2, <2>3, <2>4 DEF CurrentAttempt
<1>3. CASE SequentialErr
  <2>1. CASE nextIdx <= len[round]
    <3>1. nextIdx \in Idx /\ nextIdx' - 1 = nextIdx
      BY <1>3, <2>1 DEF SequentialErr, RaceShape, TypeOK, Racing, Idx
    <3>2. att'[nextIdx] = "tcp"
      BY <1>3, <2>1, <3>1 DEF SequentialErr, TypeOK
    <3> QED
      BY <3>1, <3>2 DEF CurrentAttempt
  <2>2. CASE ~(nextIdx <= len[round])
    BY <1>3, <2>2 DEF SequentialErr, RaceFailed, Return, CurrentAttempt
  <2> QED
    BY <2>1, <2>2
<1>4. CASE phase' \notin {"single", "seq"}
  BY <1>4 DEF CurrentAttempt
<1>5. CASE UNCHANGED vars
  BY <1>5 DEF vars, CurrentAttempt
<1>6. ASSUME Next, phase' \in {"single", "seq"}
      PROVE  \/ \E k \in 1..MaxCands : EnterWithIps(k) \/ Resolved(k) \/ InternationalResolved(k)
             \/ \E i \in Idx : Attempt(i)
             \/ SequentialErr
             \/ UNCHANGED vars
  <2>1. ASSUME NEW k \in 0..MaxCands, Resolved(k) \/ InternationalResolved(k)
        PROVE  k \in 1..MaxCands
    <3>1. k # 0
      BY <1>6, <2>1 DEF Resolved, InternationalResolved, Return
    <3> QED
      BY <3>1
  <2> QED
    BY <1>6, <2>1 DEF Next, EnterResolving, Take, TakeSuccess, TakeError, TimerFires,
                      SequentialOk, Return, RaceFailed, Terminated
<1> QED
  BY <1>1, <1>2, <1>3, <1>4, <1>5, <1>6

\* As long as a list is raced, an attempt is under way, each of which has a
\* timeout, or the loop can take a result or start the next IP: with CallAdvances,
\* every race ends if whoever can go on does.
THEOREM RaceNeverStuck == Spec => []CanAdvance
<1>1. Init => CurrentAttempt
  BY DEF Init, CurrentAttempt
<1>2. Inv /\ CurrentAttempt => CanAdvance
  <2> SUFFICES ASSUME Inv, CurrentAttempt, phase \in Racing PROVE CanAdvance
    BY DEF CanAdvance
  <2>1. CASE phase = "race"
    BY <2>1 DEF Inv, SelectNeverStarves, Pending, CanAdvance, Finished
  <2>2. CASE phase # "race"
    <3>1. nextIdx - 1 \in Idx /\ nextIdx - 1 < nextIdx
      BY DEF Inv, RaceShape, TypeOK, Idx
    <3>2. att[nextIdx - 1] \in InFlight
      BY <2>2, <3>1 DEF Inv, RaceShape, CurrentAttempt, Racing
    <3> QED
      BY <2>2, <3>1, <3>2 DEF CanAdvance, InFlight, Finished
  <2> QED
    BY <2>1, <2>2
<1>3. Inv /\ CurrentAttempt /\ [Next]_vars => CurrentAttempt'
  BY CurrentKept
<1> QED
  BY <1>1, <1>2, <1>3, Invariance, PTL DEF Spec
==============================================================================
