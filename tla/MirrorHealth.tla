---------------------------- MODULE MirrorHealth ----------------------------
(***************************************************************************)
(* MirrorHealthTracker (intercepts/mirror_health.rs) and the one place that*)
(* feeds it, the ProxyMirror branch of perform_mitm (proxy/handler.rs).    *)
(*                                                                         *)
(* Each tracker method holds the DashMap guard of one mirror's entry, so it*)
(* is one step; get_best_mirror is one such step per mirror and then a     *)
(* comparison.  Instants are ages since the mirror was disabled, capped at *)
(* RecoveryTicks, and response times are small integers.                   *)
(***************************************************************************)
EXTENDS Naturals, FiniteSets

CONSTANTS
    Mirrors,            \* mirror hosts
    Requests,           \* concurrent requests through a mirror
    Times,              \* response times, positive integers
    Threshold,          \* failure_threshold, already >= 1
    RecoveryTicks,      \* recovery_timeout
    Callers             \* concurrent users of the selection API

ASSUME ThresholdAssumption == Threshold \in Nat \ {0}
ASSUME RecoveryAssumption == RecoveryTicks \in Nat
ASSUME TimesAssumption == Times \subseteq Nat \ {0}

NoMirror == "none"  \* Option<String>::None

VARIABLES
    health,     \* the DashMap; a mirror without an entry has known = FALSE
    req,        \* req[r]: where request r is, and the mirror it goes to
    sel,        \* sel[c]: a get_best_mirror in progress
    streak      \* connection failures of the mirror since it last connected

trackerVars == <<health, req, sel, streak>>

\* failures (consecutive_failures) counts up to Threshold only: nothing tells
\* larger counts apart.  answered is response_time_count > 0, disabled is
\* disabled_at.is_some() and age the time since disabled_at.
Entries == [known : BOOLEAN, failures : 0..Threshold, answered : BOOLEAN,
            avg : Nat, disabled : BOOLEAN, age : 0..RecoveryTicks]

MirrorHealthDefault == [known |-> FALSE, failures |-> 0, answered |-> FALSE,
                        avg |-> 0, disabled |-> FALSE, age |-> 0]

IdleReq == [at |-> "idle", mirror |-> NoMirror]
IdleSel == [at |-> "idle", todo |-> {}, available |-> {}, best |-> NoMirror]

TrackerTypes ==
    /\ health \in [Mirrors -> Entries]
    /\ \A r \in Requests : /\ req[r].at \in {"idle", "mirror", "origin"}
                           /\ req[r].mirror \in Mirrors \cup {NoMirror}
    /\ \A c \in Callers : /\ sel[c].at \in {"idle", "filter", "done"}
                          /\ sel[c].todo \subseteq Mirrors
                          /\ sel[c].available \subseteq Mirrors
                          /\ sel[c].best \in Mirrors \cup {NoMirror}
    /\ streak \in [Mirrors -> 0..Threshold]

TrackerInit ==
    /\ health = [m \in Mirrors |-> MirrorHealthDefault]
    /\ req = [r \in Requests |-> IdleReq]
    /\ sel = [c \in Callers |-> IdleSel]
    /\ streak = [m \in Mirrors |-> 0]

Saturated(n) == IF n < Threshold THEN n + 1 ELSE Threshold

------------------------------------------------------------------------------
(* The tracker's methods, as the entry they leave behind.                  *)

\* The exponential moving average, smoothing factor 0.3.
Average(h, t) == IF h.answered THEN (3 * t + 7 * h.avg) \div 10 ELSE t

\* record_success: the failure count is reset and the mirror enabled.
RecordSuccess(h, t) ==
    [known |-> TRUE, failures |-> 0, answered |-> TRUE, avg |-> Average(h, t),
     disabled |-> FALSE, age |-> 0]

\* Mutant: every failure from the threshold on restarts the recovery time.
RecordFailure_Restamps(h) ==
    LET n == Saturated(h.failures)
    IN  [h EXCEPT !.known = TRUE, !.failures = n,
                  !.disabled = (n >= Threshold), !.age = 0]

\* record_failure: the mirror is disabled when the count reaches the
\* threshold; one that is disabled already keeps its time.
RecordFailure(h) ==
    LET n == Saturated(h.failures)
    IN  [h EXCEPT !.known = TRUE, !.failures = n,
                  !.disabled = (@ \/ n >= Threshold)]

Recovers(h) == h.disabled /\ h.age = RecoveryTicks

\* Mutant: recovery forgets to reset the failure count.
AfterCheck_KeepsCount(h) ==
    IF Recovers(h) THEN [h EXCEPT !.disabled = FALSE, !.age = 0] ELSE h

\* is_available: an entry past its recovery time is enabled again.
AfterCheck(h) ==
    IF Recovers(h) THEN [h EXCEPT !.disabled = FALSE, !.age = 0, !.failures = 0]
                   ELSE h

IsAvailable(h) == ~AfterCheck(h).disabled

------------------------------------------------------------------------------
(* perform_mitm, ProxyMirror: connect to the mirror, else to the origin.   *)

StartRequest(r, m) ==
    /\ req[r].at = "idle"
    /\ req' = [req EXCEPT ![r] = [at |-> "mirror", mirror |-> m]]
    /\ UNCHANGED <<health, sel, streak>>

\* connect_with_fallback(mirror) succeeded after t.
MirrorConnected(r, t) ==
    LET m == req[r].mirror
    IN  /\ req[r].at = "mirror"
        /\ health' = [health EXCEPT ![m] = RecordSuccess(health[m], t)]
        /\ streak' = [streak EXCEPT ![m] = 0]
        /\ req' = [req EXCEPT ![r] = IdleReq]
        /\ UNCHANGED sel

\* connect_with_fallback(mirror) failed: record_failure, and the request goes
\* on to the origin host.
MirrorFailed(r) ==
    LET m == req[r].mirror
    IN  /\ req[r].at = "mirror"
        /\ health' = [health EXCEPT ![m] = RecordFailure(health[m])]
        /\ streak' = [streak EXCEPT ![m] = Saturated(@)]
        /\ req' = [req EXCEPT ![r].at = "origin"]
        /\ UNCHANGED sel

\* The origin answered: `record_success(&mirror, response_time)` follows the
\* match, for both of its arms.
OriginConnected(r, t) ==
    LET m == req[r].mirror
    IN  /\ req[r].at = "origin"
        /\ health' = [health EXCEPT ![m] = RecordSuccess(health[m], t)]
        /\ req' = [req EXCEPT ![r] = IdleReq]
        /\ UNCHANGED <<sel, streak>>

OriginFailed(r) ==
    /\ req[r].at = "origin"
    /\ req' = [req EXCEPT ![r] = IdleReq]
    /\ UNCHANGED <<health, sel, streak>>

------------------------------------------------------------------------------
(* The selection API.                                                      *)

StartSelect(c, ms) ==
    /\ sel[c].at \in {"idle", "done"}
    /\ sel' = [sel EXCEPT ![c] = [IdleSel EXCEPT !.at = "filter", !.todo = ms]]
    /\ UNCHANGED <<health, req, streak>>

\* `.filter(|m| self.is_available(m))`, one mirror.
Filter(c, m) ==
    /\ sel[c].at = "filter" /\ m \in sel[c].todo
    /\ health' = [health EXCEPT ![m] = AfterCheck(@)]
    /\ sel' = [sel EXCEPT ![c].todo = @ \ {m},
                          ![c].available = IF IsAvailable(health[m])
                                           THEN @ \cup {m} ELSE @]
    /\ streak' = IF Recovers(health[m])
                 THEN [streak EXCEPT ![m] = 0] ELSE streak
    /\ UNCHANGED req

\* avg_response_time_ms(m) <= avg_response_time_ms(n), where a mirror without
\* an entry counts as f64::MAX.
NotSlower(m, n) ==
    \/ ~health[n].known
    \/ health[m].known /\ health[m].avg <= health[n].avg

\* min_by over what is left: a mirror no other one is faster than.
Pick(c) ==
    /\ sel[c].at = "filter" /\ sel[c].todo = {}
    /\ IF sel[c].available = {}
       THEN sel' = [sel EXCEPT ![c].at = "done"]
       ELSE \E m \in sel[c].available :
                /\ \A n \in sel[c].available : NotSlower(m, n)
                /\ sel' = [sel EXCEPT ![c].at = "done", ![c].best = m]
    /\ UNCHANGED <<health, req, streak>>

------------------------------------------------------------------------------
Aging(h) == h.disabled /\ h.age < RecoveryTicks

\* Time passes for every disabled mirror.
Tick ==
    /\ \E m \in Mirrors : Aging(health[m])
    /\ health' = [m \in Mirrors |-> IF Aging(health[m])
                                   THEN [health[m] EXCEPT !.age = @ + 1]
                                   ELSE health[m]]
    /\ UNCHANGED <<req, sel, streak>>

RequestStep(r) ==
    \/ \E m \in Mirrors : StartRequest(r, m)
    \/ \E t \in Times : MirrorConnected(r, t) \/ OriginConnected(r, t)
    \/ MirrorFailed(r)
    \/ OriginFailed(r)

Selection(c) ==
    \/ \E ms \in SUBSET Mirrors : StartSelect(c, ms)
    \/ \E m \in Mirrors : Filter(c, m)
    \/ Pick(c)

TrackerNext ==
    \/ \E r \in Requests : RequestStep(r)
    \/ \E c \in Callers : Selection(c)
    \/ Tick

TrackerSpec == TrackerInit /\ [][TrackerNext]_trackerVars

------------------------------------------------------------------------------
(* Properties.                                                             *)

(***************************************************************************)
(* A mirror is disabled exactly while its consecutive_failures is at the   *)
(* threshold, whichever requests and selections interleave: otherwise a    *)
(* mirror past its recovery time would stay usable after one more failure, *)
(* or a working one would stay disabled.                                   *)
(***************************************************************************)
DisabledIffThreshold ==
    \A m \in Mirrors : health[m].disabled <=> (health[m].failures = Threshold)

(***************************************************************************)
(* Failures of a mirror that is disabled already do not postpone its       *)
(* recovery.                                                               *)
(***************************************************************************)
RecoveryNotPostponed ==
    [][\A m \in Mirrors : health[m].disabled /\ health'[m].disabled =>
          health'[m].age >= health[m].age]_trackerVars

(***************************************************************************)
(* A mirror that was refused Threshold times since it last connected is    *)
(* disabled.                                                               *)
(***************************************************************************)
RepeatedFailureDisables ==
    \A m \in Mirrors : streak[m] = Threshold => health[m].disabled

==============================================================================
