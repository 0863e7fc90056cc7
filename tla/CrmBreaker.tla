------------------------------ MODULE CrmBreaker ------------------------------
(***************************************************************************)
(* The circuit breaker in front of the CRM and the calls it guards         *)
(* (sync_order_to_crm and sync_customers_from_crm).  All of them are       *)
(* coroutines of one event loop: the breaker's methods run without an      *)
(* await, and any number of calls are outstanding between them.            *)
(*                                                                         *)
(* Time is one bit: whether recovery_timeout has passed since the last     *)
(* recorded failure.  A call takes as long as it likes: each is a sequence *)
(* of HTTP requests with 10 s each, up to eight of them, so it may well    *)
(* outlive the 60 s of the breaker.                                        *)
(***************************************************************************)
EXTENDS Integers, FiniteSets

CONSTANTS
    Calls,              \* the calls that can be outstanding at one time
    FailureThreshold,   \* failure_threshold
    HalfOpenMax         \* half_open_max

ASSUME CrmBreakerAssumption ==
    /\ IsFiniteSet(Calls)
    /\ FailureThreshold \in Nat \ {0}
    /\ HalfOpenMax \in Nat \ {0}

VARIABLES
    state,          \* _state
    failureCount,   \* _failure_count; it is only compared with the threshold,
                    \* so it saturates there
    halfOpenCalls,  \* _half_open_calls
    recovered,      \* recovery_timeout has passed since _last_failure_time
    active,         \* the calls admitted and not yet ended
    probes,         \* those that hold a slot of the current half-open episode
    lost,           \* slots of this episode whose call ended unrecorded
    streak          \* failures recorded since the last recorded success,
                    \* saturating too

breakerVars == <<state, failureCount, halfOpenCalls, recovered, active, probes, lost, streak>>

BreakerTypeOK ==
    /\ state \in {"closed", "open", "half_open"}
    /\ failureCount \in 0..FailureThreshold
    /\ halfOpenCalls \in 0..HalfOpenMax
    /\ recovered \in BOOLEAN
    /\ active \in SUBSET Calls
    /\ probes \in SUBSET active
    /\ lost \in Nat
    /\ streak \in 0..FailureThreshold

OneMore(n) == IF n < FailureThreshold THEN n + 1 ELSE n

\* Faulty variant: it waits for the count to go down, which an open breaker
\* never does.
DueWhenBelowThreshold == state = "open" /\ recovered /\ failureCount < FailureThreshold

\* The state property: an open breaker turns half-open when it is read after
\* the recovery timeout.
DueForProbe == state = "open" /\ recovered

\* Faulty variant: the slots of the last episode are not given back.
ReadStateKeepSlots ==
    /\ DueForProbe
    /\ state' = "half_open"
    /\ probes' = {}
    /\ lost' = 0
    /\ UNCHANGED <<failureCount, halfOpenCalls, recovered, active, streak>>

\* Somebody reads the state: the status endpoints, span attributes.
ReadState ==
    /\ DueForProbe
    /\ state' = "half_open"
    /\ halfOpenCalls' = 0
    /\ probes' = {}
    /\ lost' = 0
    /\ UNCHANGED <<failureCount, recovered, active, streak>>

\* allow_request lets a call through a closed breaker.
AdmitClosed(c) ==
    /\ c \notin active
    /\ state = "closed"
    /\ active' = active \cup {c}
    /\ UNCHANGED <<state, failureCount, halfOpenCalls, recovered, probes, lost, streak>>

\* Faulty variant: one slot too many.
AdmitProbeOver(c) ==
    LET slots == IF DueForProbe THEN 0 ELSE halfOpenCalls
    IN  /\ c \notin active
        /\ state = "half_open" \/ DueForProbe
        /\ slots <= HalfOpenMax
        /\ state' = "half_open"
        /\ halfOpenCalls' = slots + 1
        /\ active' = active \cup {c}
        /\ probes' = (IF DueForProbe THEN {} ELSE probes) \cup {c}
        /\ lost' = IF DueForProbe THEN 0 ELSE lost
        /\ UNCHANGED <<failureCount, recovered, streak>>

\* allow_request takes a slot of a half-open breaker, or of one that its own
\* reading of the state has just made half-open.  (A call that gets none is
\* rejected and changes nothing.)
AdmitProbe(c) ==
    LET slots == IF DueForProbe THEN 0 ELSE halfOpenCalls
    IN  /\ c \notin active
        /\ state = "half_open" \/ DueForProbe
        /\ slots < HalfOpenMax
        /\ state' = "half_open"
        /\ halfOpenCalls' = slots + 1
        /\ active' = active \cup {c}
        /\ probes' = (IF DueForProbe THEN {} ELSE probes) \cup {c}
        /\ lost' = IF DueForProbe THEN 0 ELSE lost
        /\ UNCHANGED <<failureCount, recovered, streak>>

LeaveBreaker(c) ==
    /\ c \in active
    /\ active' = active \ {c}
    /\ probes' = probes \ {c}

\* Faulty variant: closing the breaker keeps the old count.
RecordSuccessKeepCount(c) ==
    /\ LeaveBreaker(c)
    /\ state' = IF state = "open" THEN state ELSE "closed"
    /\ failureCount' = IF state = "closed" THEN 0 ELSE failureCount
    /\ streak' = 0
    /\ UNCHANGED <<halfOpenCalls, recovered, lost>>

\* Faulty variant: a success leaves a half-open breaker half-open.
RecordSuccessIgnored(c) ==
    /\ LeaveBreaker(c)
    /\ failureCount' = IF state = "closed" THEN 0 ELSE failureCount
    /\ streak' = 0
    /\ UNCHANGED <<state, halfOpenCalls, recovered, lost>>

\* record_success: the CRM answered, with whatever status code.
RecordSuccess(c) ==
    /\ LeaveBreaker(c)
    /\ IF state = "open"
       THEN UNCHANGED <<state, failureCount>>
       ELSE state' = "closed" /\ failureCount' = 0
    /\ streak' = 0
    /\ UNCHANGED <<halfOpenCalls, recovered, lost>>

\* record_failure: the call raised.
RecordFailure(c) ==
    /\ LeaveBreaker(c)
    /\ failureCount' = OneMore(failureCount)
    /\ streak' = OneMore(streak)
    /\ recovered' = FALSE
    /\ state' = IF state = "half_open" \/ failureCount + 1 >= FailureThreshold
                THEN "open" ELSE state
    /\ UNCHANGED <<halfOpenCalls, lost>>

\* The answer is recorded, then reading its body raises: both, without an await.
RecordBoth(c) ==
    LET count == IF state = "open" THEN failureCount ELSE 0
    IN  /\ LeaveBreaker(c)
        /\ failureCount' = OneMore(count)
        /\ streak' = OneMore(0)
        /\ recovered' = FALSE
        /\ state' = IF state = "open" \/ count + 1 >= FailureThreshold
                    THEN "open" ELSE "closed"
        /\ UNCHANGED <<halfOpenCalls, lost>>

\* The call ends without telling the breaker: sync_order_to_crm found no CRM
\* customer, or the request was cancelled (CancelledError is no Exception).
EndUnrecorded(c) ==
    /\ LeaveBreaker(c)
    /\ lost' = IF c \in probes THEN lost + 1 ELSE lost
    /\ UNCHANGED <<state, failureCount, halfOpenCalls, recovered, streak>>

\* recovery_timeout seconds after the last failure
TimePasses ==
    /\ ~recovered
    /\ recovered' = TRUE
    /\ UNCHANGED <<state, failureCount, halfOpenCalls, active, probes, lost, streak>>

\* _last_failure_time is 0.0 at the start, long ago.
BreakerInit ==
    /\ state = "closed"
    /\ failureCount = 0
    /\ halfOpenCalls = 0
    /\ recovered = TRUE
    /\ active = {}
    /\ probes = {}
    /\ lost = 0
    /\ streak = 0

End(c) == RecordSuccess(c) \/ RecordFailure(c) \/ RecordBoth(c) \/ EndUnrecorded(c)

BreakerNext ==
    \/ ReadState
    \/ TimePasses
    \/ \E c \in Calls : AdmitClosed(c) \/ AdmitProbe(c) \/ End(c)

BreakerSpec == BreakerInit /\ [][BreakerNext]_breakerVars

-----------------------------------------------------------------------------
(* Properties *)

\* While the breaker is closed its counter is the length of the current run
\* of failures, over all the calls that end in any order, and that run is
\* shorter than the threshold: it trips on consecutive failures, at once, and
\* on nothing else.
ClosedCountsStreak ==
    state = "closed" => failureCount = streak /\ streak < FailureThreshold

\* The slots taken in a half-open episode are those of its outstanding probes
\* and those that were lost; a call left over from before the episode holds
\* none, although it may end it.
SlotsAccounted ==
    state = "half_open" =>
        /\ halfOpenCalls = Cardinality(probes) + lost
        /\ halfOpenCalls <= HalfOpenMax

\* A half-open episode that has let a probe through ends, unless a slot was
\* lost: no such episode lasts for ever.
ProbeDecidesUnlessLost == []<>~(state = "half_open" /\ halfOpenCalls > 0 /\ lost = 0)

\* An open breaker probes again, which is the only way out of being open: calls
\* that were already out may fail late and put the probe off, but there are
\* finitely many of them.
OpenProbesAgain == []<>(state # "open")

\* Every half-open episode with a probe under way ends.
ProbeDecides == state = "half_open" /\ probes # {} ~> state # "half_open"

-----------------------------------------------------------------------------
\* Every outstanding call ends, because each of its requests has a timeout;
\* time passes; the storefront keeps calling.
BreakerFairSpec ==
    /\ BreakerSpec
    /\ WF_breakerVars(TimePasses)
    /\ \A c \in Calls : WF_breakerVars(End(c)) /\ WF_breakerVars(AdmitClosed(c) \/ AdmitProbe(c))
=============================================================================
