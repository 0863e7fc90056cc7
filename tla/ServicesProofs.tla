----------------------------- MODULE ServicesProofs -----------------------------
(***************************************************************************)
(* What is proved of the components of MCServices, for every value of      *)
(* their constants: the breaker, the load runs, the session gate, the      *)
(* catalogue, the database bootstrap and the chaos hook.  Each has an      *)
(* invariant that says what the other actors cannot have done in between.  *)
(* With the order stream's, they give the types of all of them together.   *)
(***************************************************************************)
EXTENDS MCServices, OrderStreamProofs, InductionLemmas

-----------------------------------------------------------------------------
(* The CRM breaker *)

BreakerIInv == BreakerTypeOK /\ ClosedCountsStreak /\ SlotsAccounted

\* Whatever the outcome, a call that ends leaves finite sets smaller by itself.
LEMMA LeaveProbes ==
    ASSUME BreakerTypeOK, NEW c \in Calls, LeaveBreaker(c)
    PROVE  /\ active' \in SUBSET Calls /\ probes' \in SUBSET active'
           /\ Cardinality(probes) \in Nat
           /\ c \in probes => Cardinality(probes') = Cardinality(probes) - 1
           /\ c \notin probes => probes' = probes
<1> USE CrmBreakerAssumption
<1>1. IsFiniteSet(probes)
  BY FS_Subset DEF BreakerTypeOK
<1>2. Cardinality(probes) \in Nat
  BY <1>1, FS_CardinalityType
<1>3. c \in probes => Cardinality(probes') = Cardinality(probes) - 1
  BY <1>1, FS_RemoveElement DEF LeaveBreaker
<1>4. QED
  BY <1>2, <1>3 DEF LeaveBreaker, BreakerTypeOK

LEMMA BreakerInitially == BreakerInit => BreakerIInv
BY CrmBreakerAssumption, FS_EmptySet DEF BreakerInit, BreakerIInv, BreakerTypeOK, ClosedCountsStreak, SlotsAccounted

LEMMA BreakerNextKeeps == BreakerIInv /\ [BreakerNext]_breakerVars => BreakerIInv'
<1> SUFFICES ASSUME BreakerIInv, [BreakerNext]_breakerVars PROVE BreakerIInv'
  OBVIOUS
<1> USE CrmBreakerAssumption
<1> USE DEF BreakerIInv
<1>1. CASE ReadState
  <2>1. Cardinality(probes') = 0
    BY <1>1, FS_EmptySet DEF ReadState
  <2>2. QED
    BY <1>1, <2>1 DEF ReadState, DueForProbe, BreakerTypeOK, ClosedCountsStreak, SlotsAccounted
<1>2. ASSUME NEW c \in Calls, AdmitClosed(c)
      PROVE  BreakerIInv'
  BY <1>2 DEF AdmitClosed, BreakerTypeOK, ClosedCountsStreak, SlotsAccounted
<1>3. ASSUME NEW c \in Calls, AdmitProbe(c)
      PROVE  BreakerIInv'
  <2> DEFINE old   == IF DueForProbe THEN {} ELSE probes
             slots == IF DueForProbe THEN 0 ELSE halfOpenCalls
  <2>1. old \subseteq active /\ c \notin old /\ IsFiniteSet(old)
    BY <1>3, FS_Subset, FS_EmptySet DEF AdmitProbe, BreakerTypeOK
  <2>2. probes' = old \cup {c} /\ active' = active \cup {c}
    BY <1>3 DEF AdmitProbe
  <2>3. Cardinality(probes') = Cardinality(old) + 1 /\ Cardinality(old) \in Nat
    BY <2>1, <2>2, FS_AddElement, FS_CardinalityType
  <2>4. slots = Cardinality(old) + lost'
    <3>1. CASE DueForProbe
      BY <1>3, <3>1, FS_EmptySet DEF AdmitProbe
    <3>2. CASE ~DueForProbe
      BY <1>3, <3>2 DEF AdmitProbe, SlotsAccounted
    <3>3. QED
      BY <3>1, <3>2
  <2>5. halfOpenCalls' = slots + 1 /\ slots < HalfOpenMax /\ slots \in Nat
    BY <1>3 DEF AdmitProbe, BreakerTypeOK
  <2>6. SlotsAccounted'
    <3>1. lost' \in Nat
      BY <1>3 DEF AdmitProbe, BreakerTypeOK
    <3>2. QED
      BY <2>3, <2>4, <2>5, <3>1 DEF SlotsAccounted
  <2>7. BreakerTypeOK'
    BY <1>3, <2>1, <2>2, <2>5 DEF AdmitProbe, BreakerTypeOK
  <2>8. ClosedCountsStreak'
    BY <1>3 DEF AdmitProbe, ClosedCountsStreak
  <2>9. QED
    BY <2>6, <2>7, <2>8
<1>4. ASSUME NEW c \in Calls, RecordSuccess(c)
      PROVE  BreakerIInv'
  BY <1>4, LeaveProbes DEF RecordSuccess, BreakerTypeOK, ClosedCountsStreak, SlotsAccounted
<1>5. ASSUME NEW c \in Calls, RecordFailure(c)
      PROVE  BreakerIInv'
  <2>1. /\ state' \in {"closed", "open"}
        /\ state' = "closed" => state = "closed" /\ failureCount + 1 < FailureThreshold
    BY <1>5 DEF RecordFailure, BreakerTypeOK
  <2>2. BreakerTypeOK'
    <3>1. OneMore(failureCount) \in 0..FailureThreshold /\ OneMore(streak) \in 0..FailureThreshold
      BY DEF OneMore, BreakerTypeOK
    <3>2. recovered' = FALSE
      BY <1>5 DEF RecordFailure
    <3>3. active' \in SUBSET Calls /\ probes' \in SUBSET active'
      BY <1>5, LeaveProbes DEF RecordFailure
    <3>4. QED
      BY <1>5, <2>1, <3>1, <3>2, <3>3 DEF RecordFailure, BreakerTypeOK
  <2>3. ClosedCountsStreak'
    BY <1>5, <2>1 DEF RecordFailure, BreakerTypeOK, OneMore, ClosedCountsStreak
  <2>4. QED
    BY <2>1, <2>2, <2>3 DEF SlotsAccounted
<1>6. ASSUME NEW c \in Calls, EndUnrecorded(c)
      PROVE  BreakerIInv'
  <2>1. BreakerTypeOK' /\ ClosedCountsStreak'
    BY <1>6, LeaveProbes DEF EndUnrecorded, BreakerTypeOK, ClosedCountsStreak
  <2>2. SlotsAccounted'
    BY <1>6, LeaveProbes DEF EndUnrecorded, BreakerTypeOK, SlotsAccounted
  <2>3. QED
    BY <2>1, <2>2
<1>7. CASE TimePasses
  BY <1>7 DEF TimePasses, BreakerTypeOK, ClosedCountsStreak, SlotsAccounted
<1>8. ASSUME NEW c \in Calls, RecordBoth(c)
      PROVE  BreakerIInv'
  <2> DEFINE count == IF state = "open" THEN failureCount ELSE 0
  <2>1. count \in 0..FailureThreshold
    BY DEF BreakerTypeOK
  <2>2. OneMore(count) \in 0..FailureThreshold /\ OneMore(0) \in 0..FailureThreshold
    BY <2>1 DEF OneMore
  <2>3. /\ failureCount' = OneMore(count) /\ streak' = OneMore(0) /\ recovered' = FALSE
        /\ state' \in {"closed", "open"}
        /\ state' = "closed" => count = 0 /\ 1 < FailureThreshold
    BY <1>8, <2>1 DEF RecordBoth, BreakerTypeOK
  <2>4. active' \in SUBSET Calls /\ probes' \in SUBSET active'
    BY <1>8, LeaveProbes DEF RecordBoth
  <2>5. BreakerTypeOK'
    <3>1. state' \in {"closed", "open", "half_open"}
      BY <2>3
    <3>2. UNCHANGED <<halfOpenCalls, lost>>
      BY <1>8 DEF RecordBoth
    <3>3. QED
      BY <2>2, <2>3, <2>4, <3>1, <3>2 DEF BreakerTypeOK
  <2>6. ClosedCountsStreak'
    BY <2>3 DEF OneMore, ClosedCountsStreak
  <2>7. QED
    BY <2>3, <2>5, <2>6 DEF SlotsAccounted
<1>9. CASE UNCHANGED breakerVars
  BY <1>9 DEF breakerVars, BreakerTypeOK, ClosedCountsStreak, SlotsAccounted
<1>10. QED
  BY <1>1, <1>2, <1>3, <1>4, <1>5, <1>6, <1>7, <1>8, <1>9 DEF BreakerNext, End

THEOREM BreakerInductive == BreakerSpec => []BreakerIInv
<1>1. QED
  BY BreakerInitially, BreakerNextKeeps, PTL DEF BreakerSpec

\* Slots are never given out twice in an episode, whatever calls are left over
\* from before it and in whatever order they end.
THEOREM SlotsAreAccounted == BreakerSpec => []SlotsAccounted
<1>1. BreakerIInv => SlotsAccounted
  BY DEF BreakerIInv
<1>2. QED
  BY <1>1, BreakerInductive, PTL

\* The breaker counts consecutive failures and trips as soon as there are
\* failure_threshold of them.
THEOREM BreakerCountsStreaks == BreakerSpec => []ClosedCountsStreak
<1>1. BreakerIInv => ClosedCountsStreak
  BY DEF BreakerIInv
<1>2. QED
  BY <1>1, BreakerInductive, PTL

\* A half-open breaker without a free slot waits for a probe, or for nobody.
StuckByLossAlone ==
    state = "half_open" /\ halfOpenCalls = HalfOpenMax => probes # {} \/ lost = HalfOpenMax

\* A half-open breaker that lets nobody in has a probe on its way, or has lost
\* every slot it had to calls that ended unrecorded: calls from before the
\* episode, late answers and readers of the state never make it stick
\* (allow_request, record_success, record_failure, sync_order_to_crm).
THEOREM SlotsStickOnlyWhenLost == BreakerSpec => []StuckByLossAlone
<1>1. BreakerIInv => StuckByLossAlone
  <2> SUFFICES ASSUME BreakerIInv, state = "half_open", halfOpenCalls = HalfOpenMax, probes = {}
               PROVE  lost = HalfOpenMax
    BY DEF StuckByLossAlone
  <2>1. Cardinality(probes) = 0
    BY FS_EmptySet
  <2>2. halfOpenCalls = 0 + lost /\ lost \in Nat
    BY <2>1 DEF BreakerIInv, SlotsAccounted, BreakerTypeOK
  <2>3. QED
    BY <2>2
<1>2. QED
  BY <1>1, BreakerInductive, PTL
-----------------------------------------------------------------------------
(* Load runs *)

LoadIInv == LoadTypeOK /\ OverHasNoTask

LEMMA LoadInitOK == LoadInit => LoadIInv
  BY DEF LoadInit, LoadIInv, LoadTypeOK, LoadTerminal, OverHasNoTask

LEMMA LoadStepOK == LoadIInv /\ [LoadNext]_loadVars => LoadIInv'
  <1> SUFFICES ASSUME LoadIInv, [LoadNext]_loadVars PROVE LoadIInv'
    OBVIOUS
  <1> USE DEF LoadIInv, LoadTypeOK, LoadTerminal, OverHasNoTask
  <1>1. ASSUME NEW r \in LoadRunIds, NEW p \in Replicas, Launch(r, p) PROVE LoadIInv'
    BY <1>1 DEF Launch
  <1>2. ASSUME NEW r \in LoadRunIds, Dispatched(r) PROVE LoadIInv'
    BY <1>2 DEF Dispatched
  <1>3. ASSUME NEW r \in LoadRunIds, DispatchRaised(r) PROVE LoadIInv'
    BY <1>3 DEF DispatchRaised, Busy
  <1>4. ASSUME NEW r \in LoadRunIds, WatchOver(r) PROVE LoadIInv'
    BY <1>4 DEF WatchOver, Busy
  <1>5. ASSUME NEW r \in LoadRunIds, NEW p \in Replicas, CancelRead(r, p) \/ CancelWrite(r, p)
        PROVE  LoadIInv'
    BY <1>5 DEF CancelRead, CancelWrite
  <1>6. ASSUME NEW p \in Replicas, ShutDown(p) PROVE LoadIInv'
    BY <1>6 DEF ShutDown, HeldBy
  <1>7. ASSUME NEW p \in Replicas, Kill(p) PROVE LoadIInv'
    BY <1>7 DEF Kill, HeldBy
  <1>8. CASE UNCHANGED loadVars
    BY <1>8 DEF loadVars
  <1> QED
    BY <1>1, <1>2, <1>3, <1>4, <1>5, <1>6, <1>7, <1>8 DEF LoadNext, LoadStep

\* The states of ledger, holder and task are those of the code, and a run that has
\* succeeded or failed has no live copy (runs.py, executor.py).
THEOREM LoadInductive == LoadSpec => []LoadIInv
  BY LoadInitOK, LoadStepOK, PTL DEF LoadSpec

\* What succeeded or failed stays so, whatever the watcher, the replicas that stop
\* and the DELETEs on the run's own replica do; only a DELETE on another one that
\* had read it before can still write cancelled (runs_delete, wait_then_mark_complete).
THEOREM OverStaysOver == LoadSpec => OverIsOver
  <1> DEFINE Overtaken(r) ==
               /\ ledger'[r] = "cancelled"
               /\ \E p \in Replicas \ {holder[r]} : <<p, r>> \in deleting \ deleting'
             Stays == \A r \in LoadRunIds :
                        ledger[r] \in {"succeeded", "failed"} /\ ledger'[r] # ledger[r]
                        => Overtaken(r)
  <1>1. LoadIInv /\ [LoadNext]_loadVars => [Stays]_loadVars
    <2> SUFFICES ASSUME LoadIInv, LoadNext, NEW r \in LoadRunIds,
                        ledger[r] \in {"succeeded", "failed"}, ledger'[r] # ledger[r]
                 PROVE  Overtaken(r)
      OBVIOUS
    <2>1. /\ task[r] = "ended" /\ ledger[r] \in LoadTerminal /\ ledger[r] # "none"
          /\ <<holder[r], r>> \notin deleting
      BY DEF LoadIInv, OverHasNoTask, LoadTerminal
    <2>2. ASSUME NEW s \in LoadRunIds, NEW p \in Replicas, Launch(s, p)
          PROVE  ledger'[r] = ledger[r]
      BY <2>1, <2>2 DEF Launch, LoadIInv, LoadTypeOK
    <2>3. ASSUME NEW s \in LoadRunIds, LoadStep(s) PROVE ledger'[r] = ledger[r]
      BY <2>1, <2>3 DEF LoadStep, Dispatched, DispatchRaised, WatchOver, LoadIInv, LoadTypeOK
    <2>4. ASSUME NEW s \in LoadRunIds, NEW p \in Replicas, CancelRead(s, p)
          PROVE  ledger'[r] = ledger[r]
      BY <2>4 DEF CancelRead
    <2>5. ASSUME NEW p \in Replicas, ShutDown(p) \/ Kill(p) PROVE ledger'[r] = ledger[r]
      BY <2>1, <2>5 DEF ShutDown, Kill
    <2>6. PICK s \in LoadRunIds, p \in Replicas : CancelWrite(s, p)
      BY <2>2, <2>3, <2>4, <2>5 DEF LoadNext
    <2>7. s = r
      BY <2>6 DEF CancelWrite, LoadIInv, LoadTypeOK
    <2>8. <<p, r>> \in deleting /\ <<p, r>> \notin deleting' /\ ledger'[r] = "cancelled"
      BY <2>6, <2>7 DEF CancelWrite, LoadIInv, LoadTypeOK
    <2> QED
      BY <2>1, <2>8
  <1>2. LoadSpec => [][Stays]_loadVars
    BY <1>1, LoadInductive, PTL DEF LoadSpec
  <1> QED
    BY <1>2 DEF OverIsOver

-----------------------------------------------------------------------------
(* The session gate *)

\* A lookup that has found nothing has looked after the logout.
MissingMeansGone == \A t \in AuthThreads : lookup[t] = "missing" => ~sessionRow

GateIInv == GateTypeOK /\ OutageLogsNobodyOut /\ MissingMeansGone

LEMMA GateInitOK == GateInit => GateIInv
  <1> SUFFICES ASSUME GateInit PROVE GateIInv
    OBVIOUS
  <1>1. jobs \in Seq(Clients \cup {Nobody}) /\ Len(jobs) <= MaxJobs
    BY SessionGateAssumption DEF GateInit
  <1> QED
    BY <1>1 DEF GateInit, GateIInv, GateTypeOK, OutageLogsNobodyOut, MissingMeansGone

\* Any answer, but a refusal only without a session, keeps the answers right.
LEMMA ReplyOK ==
    ASSUME GateIInv, NEW c \in Clients \cup {Nobody},
           NEW a \in {"none", "through", "refused", "unavailable"},
           a = "refused" => ~sessionRow, sessionRow' = sessionRow, ReplyTo(c, a)
    PROVE  /\ gatePc' \in [Clients -> {"idle", "admission", "lookup"}]
           /\ answer' \in [Clients -> {"none", "through", "refused", "unavailable"}]
           /\ OutageLogsNobodyOut'
  BY DEF ReplyTo, Reply, GateIInv, GateTypeOK, OutageLogsNobodyOut

LEMMA JobsTail ==
    ASSUME GateTypeOK, jobs # <<>>
    PROVE  /\ Head(jobs) \in Clients \cup {Nobody}
           /\ Tail(jobs) \in Seq(Clients \cup {Nobody}) /\ Len(Tail(jobs)) <= MaxJobs
  <1>1. jobs \in Seq(Clients \cup {Nobody}) /\ Len(jobs) <= MaxJobs /\ MaxJobs \in Nat
    BY SessionGateAssumption DEF GateTypeOK
  <1>2. Len(Tail(jobs)) = Len(jobs) - 1 /\ Len(jobs) \in Nat
    BY <1>1
  <1> QED
    BY <1>1, <1>2

LEMMA GateStepOK == GateIInv /\ [GateNext]_gateVars => GateIInv'
  <1> SUFFICES ASSUME GateIInv, [GateNext]_gateVars PROVE GateIInv'
    OBVIOUS
  <1>1. ASSUME NEW c \in Clients, Arrive(c) PROVE GateIInv'
    BY <1>1 DEF Arrive, GateIInv, GateTypeOK, OutageLogsNobodyOut, MissingMeansGone
  <1>2. ASSUME NEW c \in Clients, Admit(c) PROVE GateIInv'
    <2>1. jobs' \in Seq(Clients \cup {Nobody}) /\ Len(jobs') <= MaxJobs
      BY <1>2, SessionGateAssumption DEF Admit, GateIInv, GateTypeOK
    <2> QED
      BY <1>2, <2>1 DEF Admit, GateIInv, GateTypeOK, OutageLogsNobodyOut, MissingMeansGone
  <1>3. ASSUME NEW c \in Clients, Saturated(c) PROVE GateIInv'
    BY <1>3 DEF Saturated, Reply, GateIInv, GateTypeOK, OutageLogsNobodyOut, MissingMeansGone
  <1>4. ASSUME NEW c \in Clients, TimeOut(c) PROVE GateIInv'
    <2>1. jobs' \in Seq(Clients \cup {Nobody}) /\ Len(jobs') <= MaxJobs
      <3>1. jobs \in Seq(Clients \cup {Nobody}) /\ Len(jobs) <= MaxJobs
        BY DEF GateIInv, GateTypeOK
      <3>2. jobs' = [i \in 1..Len(jobs) |-> IF jobs[i] = c THEN Nobody ELSE jobs[i]]
        BY <1>4 DEF TimeOut
      <3>3. \A i \in 1..Len(jobs) :
              (IF jobs[i] = c THEN Nobody ELSE jobs[i]) \in Clients \cup {Nobody}
        BY <3>1
      <3>4. Len(jobs) \in Nat
        BY <3>1
      <3> QED
        BY <3>1, <3>2, <3>3, <3>4
    <2>2. lookupOf' \in [AuthThreads -> Clients \cup {Nobody}]
      BY <1>4 DEF TimeOut, GateIInv, GateTypeOK
    <2> QED
      BY <1>4, <2>1, <2>2
      DEF TimeOut, Reply, GateIInv, GateTypeOK, OutageLogsNobodyOut, MissingMeansGone
  <1>5. ASSUME NEW t \in AuthThreads, Take(t) PROVE GateIInv'
    <2>1. /\ jobs # <<>> /\ jobs' = Tail(jobs) /\ UNCHANGED <<sessionRow, cached>>
          /\ Head(jobs) \in Clients \cup {Nobody}
          /\ Tail(jobs) \in Seq(Clients \cup {Nobody}) /\ Len(Tail(jobs)) <= MaxJobs
      BY <1>5, JobsTail DEF Take, GateIInv
    <2>2. CASE UNCHANGED <<gatePc, answer, lookupOf, lookup>>
      BY <2>1, <2>2 DEF GateIInv, GateTypeOK, OutageLogsNobodyOut, MissingMeansGone
    <2>3. CASE Reply(Head(jobs), "through") /\ UNCHANGED <<lookupOf, lookup>>
      BY <2>1, <2>3 DEF Reply, GateIInv, GateTypeOK, OutageLogsNobodyOut, MissingMeansGone
    <2>4. CASE /\ lookupOf' = [lookupOf EXCEPT ![t] = Head(jobs)]
               /\ lookup' = [lookup EXCEPT ![t] = "select"]
               /\ UNCHANGED <<gatePc, answer>>
      BY <2>1, <2>4 DEF GateIInv, GateTypeOK, OutageLogsNobodyOut, MissingMeansGone
    <2> QED
      BY <1>5, <2>2, <2>3, <2>4 DEF Take
  <1>6. ASSUME NEW t \in AuthThreads, Select(t) PROVE GateIInv'
    BY <1>6 DEF Select, GateIInv, GateTypeOK, OutageLogsNobodyOut, MissingMeansGone
  <1>7. ASSUME NEW t \in AuthThreads, Return(t) PROVE GateIInv'
    <2> DEFINE a == IF lookup[t] = "found" THEN "through" ELSE "refused"
    <2>1. lookupOf[t] \in Clients \cup {Nobody} /\ (a = "refused" => ~sessionRow)
      BY <1>7 DEF Return, GateIInv, GateTypeOK, MissingMeansGone
    <2>2. ReplyTo(lookupOf[t], a) /\ UNCHANGED <<jobs, sessionRow>> /\ ThreadFree(t)
      BY <1>7 DEF Return
    <2>3. a \in {"none", "through", "refused", "unavailable"}
      OBVIOUS
    <2> HIDE DEF a
    <2>4. /\ gatePc' \in [Clients -> {"idle", "admission", "lookup"}]
          /\ answer' \in [Clients -> {"none", "through", "refused", "unavailable"}]
          /\ OutageLogsNobodyOut'
      BY <2>1, <2>2, <2>3, ReplyOK
    <2>5. cached' \in {"none", "young", "old"}
      BY <1>7 DEF Return
    <2> QED
      BY <2>2, <2>4, <2>5 DEF ThreadFree, GateIInv, GateTypeOK, MissingMeansGone
  <1>8. ASSUME NEW t \in AuthThreads, Fail(t) PROVE GateIInv'
    <2>1. lookupOf[t] \in Clients \cup {Nobody}
      BY DEF GateIInv, GateTypeOK
    <2>2. /\ ReplyTo(lookupOf[t], "unavailable") /\ ThreadFree(t)
          /\ UNCHANGED <<jobs, sessionRow, cached>>
      BY <1>8 DEF Fail
    <2>3. /\ gatePc' \in [Clients -> {"idle", "admission", "lookup"}]
          /\ answer' \in [Clients -> {"none", "through", "refused", "unavailable"}]
          /\ OutageLogsNobodyOut'
      BY <2>1, <2>2, ReplyOK
    <2> QED
      BY <2>2, <2>3 DEF ThreadFree, GateIInv, GateTypeOK, MissingMeansGone
  <1>9. CASE Logout
    BY <1>9 DEF Logout, GateIInv, GateTypeOK, OutageLogsNobodyOut, MissingMeansGone
  <1>10. CASE CacheAges
    BY <1>10 DEF CacheAges, GateIInv, GateTypeOK, OutageLogsNobodyOut, MissingMeansGone
  <1>11. CASE UNCHANGED gateVars
    BY <1>11 DEF gateVars, GateIInv, GateTypeOK, OutageLogsNobodyOut, MissingMeansGone
  <1> QED
    BY <1>1, <1>2, <1>3, <1>4, <1>5, <1>6, <1>7, <1>8, <1>9, <1>10, <1>11 DEF GateNext

\* Nobody is refused while the session is in the table, however many requests,
\* threads, timeouts and failing lookups there are (get_current_user, dispatch).
THEOREM GateRefusesOnlyTheGone == GateSpec => []OutageLogsNobodyOut
  <1>1. GateIInv => OutageLogsNobodyOut
    BY DEF GateIInv
  <1> QED
    BY <1>1, GateInitOK, GateStepOK, PTL DEF GateSpec

-----------------------------------------------------------------------------
(* The database bootstrap *)

\* Whoever writes the account named admin is the only one who does, and the name
\* is free; the tables are only filled together with that account.
SeedGuarded ==
    /\ \A r \in Writing : account[r] = "admin" => adminOf = "none"
    /\ \A r, other \in Writing : account[r] = account[other] => r = other
    /\ \A r \in BootReplicas :
          bootPc[r] \in {"insert", "fill", "commit"} /\ filling[r] => account[r] = "admin"
    /\ demo # {} => adminOf # "none"

BootIInv == BootTypeOK /\ OneDemoSet /\ SeedGuarded

LEMMA BootInitOK == BootInit => BootIInv
  <1> SUFFICES ASSUME BootInit PROVE BootIInv
    OBVIOUS
  <1>1. BootTypeOK
    <2>1. restarts \in 0..MaxRestarts
      BY BootstrapAssumption DEF BootInit
    <2>2. /\ bootPc \in [BootReplicas -> {"down", "inspect", "drop", "create", "count",
                                          "reconcile", "insert", "fill", "commit", "up"}]
          /\ account \in [BootReplicas -> {"none", "admin", "crm-admin"}]
          /\ filling \in [BootReplicas -> BOOLEAN]
      BY DEF BootInit
    <2>3. /\ oracle \in BOOLEAN /\ unused \in BOOLEAN /\ crmAdmin \in BOOLEAN
          /\ adminOf \in {"none", "shop", "crm"}
          /\ tables \subseteq {"users", "shared", "shop", "crm"} /\ demo \subseteq {"shop", "crm"}
          /\ offers \subseteq {"shop", "crm", "shops"}
      BY DEF BootInit
    <2> QED
      BY <2>1, <2>2, <2>3 DEF BootTypeOK
  <1>2. \A r \in BootReplicas : bootPc[r] = "down"
    BY DEF BootInit
  <1>3. Writing = {} /\ SeedGuarded
    BY <1>2 DEF BootInit, SeedGuarded, Writing
  <1>4. OneDemoSet
    BY DEF BootInit, OneDemoSet
  <1> QED
    BY <1>1, <1>3, <1>4 DEF BootIInv

\* A step that moves one replica, not among those that write, and leaves the
\* accounts and the demo data alone.
LEMMA SeedKept ==
    ASSUME BootIInv, NEW r \in BootReplicas, NEW label, label \notin {"fill", "commit"},
           label = "insert" => bootPc[r] = "insert",
           Goto(r, label), UNCHANGED <<adminOf, demo, account, filling>>
    PROVE  OneDemoSet' /\ SeedGuarded'
  <1>1. /\ bootPc'[r] = label
        /\ \A other \in BootReplicas : other # r => bootPc'[other] = bootPc[other]
    BY DEF Goto, BootIInv, BootTypeOK
  <1>2. Writing' \subseteq Writing
    BY <1>1 DEF Writing
  <1>3. SeedGuarded'
    BY <1>1, <1>2 DEF SeedGuarded, BootIInv
  <1> QED
    BY <1>3 DEF BootIInv, OneDemoSet

LEMMA FailedLabel ==
    ASSUME BootIInv, NEW r \in BootReplicas, Failed(r)
    PROVE  \E label \in {"up", "down"} : Goto(r, label)
  BY DEF Failed

LEMMA BootTypeStep ==
    ASSUME BootIInv, [BootNext]_bootVars
    PROVE  BootTypeOK'
  <1>1. CASE UNCHANGED bootVars
    BY <1>1 DEF bootVars, content, BootIInv, BootTypeOK
  <1>2. ASSUME NEW r \in BootReplicas, BootStep(r) \/ Reseed(r) \/ Restarted(r)
        PROVE  BootTypeOK'
    <2>1. /\ bootPc' \in [BootReplicas -> {"down", "inspect", "drop", "create", "count",
                                           "reconcile", "insert", "fill", "commit", "up"}]
          /\ account' \in [BootReplicas -> {"none", "admin", "crm-admin"}]
          /\ filling' \in [BootReplicas -> BOOLEAN]
      BY <1>2
      DEF BootStep, Start, Inspect, DropAll, DropSome, Create, Missing, Look, Reconcile, Plan, Insert,
          Fill, CommitSeed, Reseed, Restarted, Goto, Failed, AccountFor, HasUsers, content,
          BootIInv, BootTypeOK
    <2>2. /\ tables' \subseteq {"users", "shared", "shop", "crm"}
          /\ demo' \subseteq {"shop", "crm"}
          /\ offers' \subseteq {"shop", "crm", "shops"}
      BY <1>2
      DEF BootStep, Start, Inspect, DropAll, DropSome, Create, Missing, Look, Reconcile, Plan, Insert,
          Fill, CommitSeed, Reseed, Restarted, Needed, Owner, Added, content, BootIInv, BootTypeOK
    <2>3. /\ oracle' \in BOOLEAN /\ crmAdmin' \in BOOLEAN /\ unused' \in BOOLEAN
          /\ adminOf' \in {"none", "shop", "crm"}
      BY <1>2
      DEF BootStep, Start, Inspect, DropAll, DropSome, Create, Missing, Look, Reconcile, Plan, Insert,
          Fill, CommitSeed, Reseed, Restarted, Owner, content, BootIInv, BootTypeOK
    <2>4. restarts' \in 0..MaxRestarts
      BY <1>2, BootstrapAssumption
      DEF BootStep, Start, Inspect, DropAll, DropSome, Create, Missing, Look, Reconcile, Plan, Insert,
          Fill, CommitSeed, Reseed, Restarted, CountRestart, BootIInv, BootTypeOK
    <2> QED
      BY <2>1, <2>2, <2>3, <2>4 DEF BootTypeOK
  <1> QED
    BY <1>1, <1>2 DEF BootNext

LEMMA BootStepOK == BootIInv /\ [BootNext]_bootVars => BootIInv'
  <1> SUFFICES ASSUME BootIInv, [BootNext]_bootVars PROVE OneDemoSet' /\ SeedGuarded'
    BY BootTypeStep DEF BootIInv
  <1> USE DEF content
  <1>1. ASSUME NEW r \in BootReplicas,
               Start(r) \/ Inspect(r) \/ Create(r) \/ Missing(r) \/ Reseed(r) \/ Restarted(r)
        PROVE  OneDemoSet' /\ SeedGuarded'
    <2>1. PICK label \in {"inspect", "create", "drop", "count", "up", "down"} : Goto(r, label)
      BY <1>1 DEF Start, Inspect, Create, Missing, Reseed, Restarted, Failed
    <2>2. UNCHANGED <<adminOf, demo, account, filling>>
      BY <1>1 DEF Start, Inspect, Create, Missing, Reseed, Restarted
    <2> QED
      BY <2>1, <2>2, SeedKept
  <1>2. ASSUME NEW r \in BootReplicas, DropAll(r) PROVE OneDemoSet' /\ SeedGuarded'
    <2>1. /\ adminOf' = "none" /\ demo' = {} /\ Goto(r, "create") /\ Writing = {}
          /\ UNCHANGED <<account, filling>>
      BY <1>2 DEF DropAll
    <2>2. Writing' = {}
      BY <2>1 DEF Goto, Writing, BootIInv, BootTypeOK
    <2> QED
      BY <2>1, <2>2 DEF Goto, SeedGuarded, OneDemoSet, BootIInv, BootTypeOK
  <1>3. ASSUME NEW r \in BootReplicas, DropSome(r) PROVE OneDemoSet' /\ SeedGuarded'
    <2>1. PICK label \in {"up", "down"} : Goto(r, label)
      BY <1>3, FailedLabel DEF DropSome
    <2>2. /\ demo' = demo \/ demo' = {}
          /\ UNCHANGED <<adminOf, account, filling>>
      BY <1>3 DEF DropSome
    <2>3. /\ bootPc'[r] = label
          /\ \A other \in BootReplicas : other # r => bootPc'[other] = bootPc[other]
      BY <2>1 DEF Goto, BootIInv, BootTypeOK
    <2>4. Writing' \subseteq Writing
      BY <2>3 DEF Writing
    <2> QED
      BY <2>2, <2>3, <2>4 DEF SeedGuarded, OneDemoSet, BootIInv
  <1>4. ASSUME NEW r \in BootReplicas, Reconcile(r) PROVE OneDemoSet' /\ SeedGuarded'
    <2>1. /\ Failed(r) \/ Goto(r, "up")
          /\ Writing = {} /\ adminOf' \in {adminOf, "shop"}
          /\ UNCHANGED <<demo, account, filling>>
      BY <1>4 DEF Reconcile
    <2>2. Writing' = {}
      BY <2>1 DEF Failed, Goto, Writing, BootIInv, BootTypeOK
    <2> QED
      BY <2>1, <2>2 DEF Failed, Goto, SeedGuarded, OneDemoSet, BootIInv, BootTypeOK
  <1>5. ASSUME NEW r \in BootReplicas, Plan(r) PROVE OneDemoSet' /\ SeedGuarded'
    <2>1. /\ bootPc[r] = "count" /\ Goto(r, "insert")
          /\ account' = [account EXCEPT ![r] = AccountFor(r)]
          /\ filling' = [filling EXCEPT ![r] = ~HasUsers]
          /\ UNCHANGED <<adminOf, demo>>
      BY <1>5 DEF Plan
    <2>2. /\ Writing' = Writing /\ r \notin Writing
          /\ \A other \in BootReplicas : other # r =>
                /\ bootPc'[other] = bootPc[other] /\ account'[other] = account[other]
                /\ filling'[other] = filling[other]
      BY <2>1 DEF Goto, Writing, BootIInv, BootTypeOK
    <2>3. filling'[r] => account'[r] = "admin"
      BY <2>1 DEF AccountFor, HasUsers, BootIInv, BootTypeOK
    <2>4. \A other \in Writing : account'[other] = account[other]
      BY <2>2 DEF Writing
    <2> QED
      BY <2>1, <2>2, <2>3, <2>4 DEF SeedGuarded, OneDemoSet, BootIInv
  <1>6. ASSUME NEW r \in BootReplicas, Insert(r) PROVE OneDemoSet' /\ SeedGuarded'
    <2>1. /\ bootPc[r] = "insert" /\ \A other \in Writing : account[other] # account[r]
          /\ UNCHANGED <<adminOf, demo, account, filling>>
      BY <1>6 DEF Insert
    <2>2. CASE Failed(r)
      BY <2>1, <2>2, FailedLabel, SeedKept
    <2>3. CASE ~Failed(r)
      <3>1. PICK label \in {"fill", "commit"} : Goto(r, label)
        BY <1>6, <2>3 DEF Insert
      <3>2. account[r] = "admin" => adminOf = "none"
        BY <1>6, <2>3 DEF Insert
      <3>3. /\ Writing' = Writing \cup {r}
            /\ \A other \in BootReplicas : other # r => bootPc'[other] = bootPc[other]
        BY <3>1 DEF Goto, Writing, BootIInv, BootTypeOK
      <3> QED
        BY <2>1, <3>2, <3>3 DEF SeedGuarded, OneDemoSet, BootIInv
    <2> QED
      BY <2>2, <2>3
  <1>7. ASSUME NEW r \in BootReplicas, Fill(r) PROVE OneDemoSet' /\ SeedGuarded'
    <2>1. /\ bootPc[r] = "fill" /\ UNCHANGED <<adminOf, demo, account, filling>>
      BY <1>7 DEF Fill
    <2>2. CASE Failed(r)
      BY <2>1, <2>2, FailedLabel, SeedKept
    <2>3. CASE Goto(r, "commit")
      <3>1. /\ Writing' = Writing /\ bootPc'[r] = "commit"
            /\ \A other \in BootReplicas : other # r => bootPc'[other] = bootPc[other]
        BY <2>1, <2>3 DEF Goto, Writing, BootIInv, BootTypeOK
      <3> QED
        BY <2>1, <3>1 DEF SeedGuarded, OneDemoSet, BootIInv
    <2> QED
      BY <1>7, <2>2, <2>3 DEF Fill
  <1>8. ASSUME NEW r \in BootReplicas, CommitSeed(r) PROVE OneDemoSet' /\ SeedGuarded'
    <2>1. /\ bootPc[r] = "commit" /\ Goto(r, "up")
          /\ adminOf' = IF account[r] = "admin" THEN Owner(r) ELSE adminOf
          /\ demo' = IF filling[r] THEN demo \cup {Owner(r)} ELSE demo
          /\ UNCHANGED <<account, filling>>
      BY <1>8 DEF CommitSeed
    <2>2. /\ r \in Writing /\ Writing' = Writing \ {r} /\ bootPc'[r] = "up"
          /\ \A other \in BootReplicas : other # r => bootPc'[other] = bootPc[other]
      BY <2>1 DEF Goto, Writing, BootIInv, BootTypeOK
    <2>3. Owner(r) \in {"shop", "crm"}
      BY DEF Owner
    <2>4. filling[r] => account[r] = "admin" /\ demo = {}
      BY <2>1, <2>2 DEF SeedGuarded, BootIInv
    <2>5. OneDemoSet'
      BY <2>1, <2>3, <2>4 DEF OneDemoSet, BootIInv
    <2>6. \A other \in Writing' : account[other] = "admin" => account[r] # "admin"
      BY <2>2 DEF SeedGuarded, BootIInv
    <2>7. SeedGuarded'
      BY <2>1, <2>2, <2>3, <2>4, <2>6 DEF SeedGuarded, BootIInv
    <2> QED
      BY <2>5, <2>7
  <1>9. ASSUME NEW r \in BootReplicas, Look(r) PROVE OneDemoSet' /\ SeedGuarded'
    <2>1. /\ Goto(r, "reconcile") /\ UNCHANGED <<adminOf, demo, account>>
          /\ filling' = [filling EXCEPT ![r] = Added(r) \notin offers]
      BY <1>9 DEF Look
    <2>2. /\ bootPc'[r] = "reconcile"
          /\ \A other \in BootReplicas : other # r =>
                bootPc'[other] = bootPc[other] /\ filling'[other] = filling[other]
      BY <2>1 DEF Goto, BootIInv, BootTypeOK
    <2>3. Writing' \subseteq Writing
      BY <2>2 DEF Writing
    <2> QED
      BY <2>1, <2>2, <2>3 DEF SeedGuarded, OneDemoSet, BootIInv
  <1>10. CASE UNCHANGED bootVars
    BY <1>10 DEF bootVars, BootIInv, OneDemoSet, SeedGuarded, Writing
  <1> QED
    BY <1>1, <1>2, <1>3, <1>4, <1>5, <1>6, <1>7, <1>8, <1>9, <1>10 DEF BootNext, BootStep

\* The demo customers and orders of the shop and those of the CRM are never mixed,
\* however many replicas of both start, are killed or reseed, whatever later
\* starts add to the catalogue of the first (seed_data, bootstrap_database).
THEOREM SeedsDoNotMix == BootSpec => []OneDemoSet
  <1>1. BootIInv => OneDemoSet
    BY DEF BootIInv
  <1> QED
    BY <1>1, BootInitOK, BootStepOK, PTL DEF BootSpec

-----------------------------------------------------------------------------
(* The catalogue *)

LEMMA CatalogInitially == CatalogInit => CatalogTypeOK
BY CatalogSyncAssumption DEF CatalogInit, CatalogTypeOK

\* A post is a snapshot of a product, with a row for its SKU only.
LEMMA PostKeeps ==
    ASSUME CatalogTypeOK, NEW h \in Handlers, NEW action \in {"upsert", "deactivate"},
           NEW product \in [sku : Skus, content : Contents, active : BOOLEAN],
           PostProduct(h, action, product)
    PROVE  post' \in [Handlers -> Posts \cup {NoProduct}] /\ changes' \in 0..MaxChanges
<1> DEFINE rows == [s \in Skus |-> IF s = product.sku THEN Snapshot(product) ELSE NoProduct]
<1>1. Snapshot(product) \in ShopRows
  BY DEF Snapshot, ShopRows
<1>2. rows \in [Skus -> ShopRows \cup {NoProduct}]
  BY <1>1
<1> HIDE DEF rows
<1>3. [action |-> action, rows |-> rows] \in Posts
  BY <1>2 DEF Posts
<1>4. post' = [post EXCEPT ![h] = [action |-> action, rows |-> rows]]
  BY DEF PostProduct, rows
<1>5. changes' \in 0..MaxChanges
  BY CatalogSyncAssumption DEF PostProduct, CountChange, CatalogTypeOK
<1>6. QED
  BY <1>3, <1>4, <1>5 DEF CatalogTypeOK

LEMMA CatalogStepKeeps == CatalogTypeOK /\ [CatalogNext]_catalogVars => CatalogTypeOK'
<1> SUFFICES ASSUME CatalogTypeOK, [CatalogNext]_catalogVars PROVE CatalogTypeOK'
  OBVIOUS
<1> DEFINE Product == [sku : Skus, content : Contents, active : BOOLEAN]
<1>1. ASSUME NEW h \in Handlers, NEW i \in CatalogIds, NEW p \in Product,
             CreateProduct(h, i, p) \/ UpdateProduct(h, i, p)
      PROVE  CatalogTypeOK'
  <2>1. catalog' = [catalog EXCEPT ![i] = p] /\ PostProduct(h, "upsert", p)
    BY <1>1 DEF CreateProduct, UpdateProduct
  <2>2. shopRow' = shopRow
    BY <2>1 DEF PostProduct
  <2>3. QED
    BY <2>1, <2>2, PostKeeps DEF CatalogTypeOK
<1>2. ASSUME NEW h \in Handlers, NEW i \in CatalogIds, DeleteProduct(h, i)
      PROVE  CatalogTypeOK'
  <2> DEFINE archived == [catalog[i] EXCEPT !.active = FALSE]
  <2>1. archived \in Product
    BY <1>2 DEF DeleteProduct, CatalogTypeOK
  <2>2. /\ catalog' \in {[catalog EXCEPT ![i] = archived], [catalog EXCEPT ![i] = NoProduct]}
        /\ PostProduct(h, "deactivate", archived)
    BY <1>2 DEF DeleteProduct
  <2> HIDE DEF archived
  <2>3. shopRow' = shopRow
    BY <2>2 DEF PostProduct
  <2>4. catalog' \in [CatalogIds -> Product \cup {NoProduct}]
    BY <2>1, <2>2 DEF CatalogTypeOK
  <2>5. QED
    BY <2>1, <2>2, <2>3, <2>4, PostKeeps DEF CatalogTypeOK
<1>3. ASSUME NEW h \in Handlers, SyncCatalog(h)
      PROVE  CatalogTypeOK'
  <2>1. PICK rows \in [Skus -> ShopRows \cup {NoProduct}] :
           post' = [post EXCEPT ![h] = [action |-> "upsert", rows |-> rows]]
    BY <1>3 DEF SyncCatalog
  <2>2. [action |-> "upsert", rows |-> rows] \in Posts
    BY DEF Posts
  <2>3. QED
    BY <1>3, <2>1, <2>2 DEF SyncCatalog, CatalogTypeOK
<1>4. ASSUME NEW h \in Handlers, Apply(h)
      PROVE  CatalogTypeOK'
  <2>1. post[h] \in Posts
    BY <1>4 DEF Apply, CatalogTypeOK
  <2>2. ASSUME NEW s \in Skus, post[h].rows[s] # NoProduct
        PROVE  [post[h].rows[s] EXCEPT !.active = @ /\ post[h].action # "deactivate"] \in ShopRows
    <3>1. post[h].rows[s] \in ShopRows
      BY <2>1, <2>2 DEF Posts
    <3>2. QED
      BY <3>1 DEF ShopRows
  <2>3. shopRow' \in [Skus -> ShopRows \cup {NoProduct}]
    BY <1>4, <2>2 DEF Apply, CatalogTypeOK
  <2>4. QED
    BY <1>4, <2>3 DEF Apply, CatalogTypeOK
<1>5. ASSUME NEW h \in Handlers, Lose(h)
      PROVE  CatalogTypeOK'
  BY <1>5 DEF Lose, CatalogTypeOK
<1>6. ASSUME NEW s \in Skus, NEW t \in Skus, NEW row \in ShopRows, ShopEdit(s, t, row)
      PROVE  CatalogTypeOK'
  BY <1>6, CatalogSyncAssumption DEF ShopEdit, CountChange, CatalogTypeOK
<1>7. CASE UNCHANGED catalogVars
  BY <1>7 DEF catalogVars, CatalogTypeOK
<1>8. QED
  BY <1>1, <1>2, <1>3, <1>4, <1>5, <1>6, <1>7 DEF CatalogNext

-----------------------------------------------------------------------------
(* The chaos hook *)

\* What a thread's connections are: an idle thread holds none, one that leaves
\* a statement has that statement's, and together they are not more than there are.
NestingKnown ==
    /\ \A t \in Threads : /\ hookPc[t] = "idle" => nested[t] = 0
                          /\ hookPc[t] = "leave" => nested[t] > 0
PoolNeverOverdrawn == Unused \in 0..PoolSize

HookIInv == HookTypeOK /\ NestingKnown /\ PoolNeverOverdrawn

\* The connections in use, and what one more or one less makes of them
LEMMA PoolCount ==
    ASSUME HookTypeOK
    PROVE  /\ SumFunction(nested) \in Nat
           /\ \A t \in Threads : nested[t] <= SumFunction(nested)
           /\ \A t \in Threads, n \in Nat :
                 nested' = [nested EXCEPT ![t] = n] =>
                    SumFunction(nested') = SumFunction(nested) + n - nested[t]
<1>1. nested \in [Threads -> Nat] /\ IsFiniteSet(Threads)
  BY ChaosHookAssumption DEF HookTypeOK
<1>2. SumFunction(nested) = SumFunctionOnSet(nested, Threads)
  BY <1>1 DEF SumFunction
<1>3. ASSUME NEW t \in Threads, NEW n \in Nat, nested' = [nested EXCEPT ![t] = n]
      PROVE  SumFunction(nested') = SumFunction(nested) + n - nested[t]
  <2>1. DOMAIN nested' = Threads
    BY <1>1, <1>3
  <2>2. SumFunction(nested') = SumFunctionOnSet([nested EXCEPT ![t] = n], Threads)
    BY <1>3, <2>1 DEF SumFunction
  <2>3. QED
    BY <1>1, <1>2, <2>2, SumExcept
<1>4. QED
  BY <1>1, <1>2, <1>3, SumBounds

LEMMA HookInitially == HookInit => HookIInv
<1> SUFFICES ASSUME HookInit PROVE HookIInv
  OBVIOUS
<1>1. HookTypeOK /\ NestingKnown
  BY ChaosHookAssumption DEF HookInit, HookTypeOK, NestingKnown, Scenarios
<1>2. SumFunction(nested) = 0
  BY SumOfZeros, ChaosHookAssumption DEF HookInit, SumFunction
<1>3. QED
  BY <1>1, <1>2, ChaosHookAssumption DEF HookIInv, PoolNeverOverdrawn, Unused

LEMMA HookStepKeeps == HookIInv /\ [HookNext]_hookVars => HookIInv'
<1> SUFFICES ASSUME HookIInv, [HookNext]_hookVars PROVE HookIInv'
  OBVIOUS
<1> USE DEF HookIInv
<1>1. ASSUME NEW t \in Threads, Statement(t) \/ GiveUp(t)
      PROVE  HookIInv'
  <2>1. nested' = nested /\ SumFunction(nested') = SumFunction(nested)
    BY <1>1 DEF Statement, GiveUp
  <2>2. HookTypeOK' /\ NestingKnown'
    BY <1>1 DEF Statement, GiveUp, HookTypeOK, NestingKnown
  <2>3. QED
    BY <2>1, <2>2 DEF PoolNeverOverdrawn, Unused
<1>2. ASSUME NEW t \in Threads, Connect(t)
      PROVE  HookIInv'
  <2> DEFINE n == nested[t] + 1
  <2>1. nested[t] \in Nat /\ n \in Nat /\ nested' = [nested EXCEPT ![t] = n]
    BY <1>2 DEF Connect, HookTypeOK
  <2>2. SumFunction(nested') = SumFunction(nested) + n - nested[t]
    <3> HIDE DEF n
    <3>1. QED
      BY <2>1, PoolCount
  <2>3. n \in 0..PoolSize /\ PoolNeverOverdrawn'
    <3>1. SumFunction(nested) \in Nat /\ nested[t] <= SumFunction(nested)
      BY PoolCount
    <3>2. SumFunction(nested) < PoolSize
      BY <1>2, <3>1, ChaosHookAssumption DEF Connect, Unused
    <3>3. QED
      BY <2>1, <2>2, <3>1, <3>2, ChaosHookAssumption DEF Unused, PoolNeverOverdrawn
  <2>4. HookTypeOK'
    BY <1>2, <2>3 DEF Connect, HookTypeOK, Scenarios
  <2>5. NestingKnown'
    BY <1>2, <2>1 DEF Connect, HookTypeOK, NestingKnown
  <2>6. QED
    BY <2>3, <2>4, <2>5
<1>3. ASSUME NEW t \in Threads, Fault(t) \/ Execute(t)
      PROVE  HookIInv'
  <2> DEFINE n == nested[t] - 1
  <2>1. PICK what \in Scenarios : hookPc[t] = "leave" /\ Ends(t, what)
    BY <1>3 DEF Fault, Execute, HookTypeOK, Scenarios
  <2>2. nested[t] \in 1..PoolSize /\ n \in Nat /\ nested' = [nested EXCEPT ![t] = n]
    BY <2>1, ChaosHookAssumption DEF Ends, HookTypeOK, NestingKnown
  <2>3. SumFunction(nested') = SumFunction(nested) + n - nested[t]
    <3> HIDE DEF n
    <3>1. nested[t] \in Nat
      BY <2>2, ChaosHookAssumption
    <3>2. QED
      BY <2>2, <3>1, PoolCount
  <2>4. PoolNeverOverdrawn'
    <3>1. SumFunction(nested) \in Nat /\ nested[t] <= SumFunction(nested)
      BY PoolCount
    <3>2. QED
      BY <2>2, <2>3, <3>1, ChaosHookAssumption DEF PoolNeverOverdrawn, Unused
  <2>5. hookPc' = [hookPc EXCEPT ![t] = IF nested[t] = 1 THEN "idle" ELSE "leave"]
    BY <2>1 DEF Ends
  <2>6. HookTypeOK'
    BY <2>1, <2>2, <2>5, ChaosHookAssumption DEF Ends, HookTypeOK
  <2>7. NestingKnown'
    BY <2>2, <2>5 DEF HookTypeOK, NestingKnown
  <2>8. QED
    BY <2>4, <2>6, <2>7
<1>4. ASSUME NEW s \in Scenarios, SetScenario(s)
      PROVE  HookIInv'
  BY <1>4 DEF SetScenario, HookTypeOK, NestingKnown, PoolNeverOverdrawn, Unused
<1>5. CASE UNCHANGED hookVars
  BY <1>5 DEF hookVars, HookTypeOK, NestingKnown, PoolNeverOverdrawn, Unused
<1>6. QED
  BY <1>1, <1>2, <1>3, <1>4, <1>5 DEF HookNext, HookStep

\* Threads that nest their reads never hold more connections than the pool has,
\* and give back each of them: an idle thread holds none (_inject and
\* get_active_state on the shop's synchronous engine).
THEOREM PoolIsKept == HookSpec => [](PoolNeverOverdrawn /\ NestingKnown)
<1>1. HookIInv => PoolNeverOverdrawn /\ NestingKnown
  BY DEF HookIInv
<1>2. QED
  BY <1>1, HookInitially, HookStepKeeps, PTL DEF HookSpec

-----------------------------------------------------------------------------
(* All of them, composed.  A component that does not move keeps its        *)
(* variables, so that each step is a step of every component or leaves it  *)
(* alone.                                                                  *)

ServicesIInv ==
    /\ BreakerIInv /\ IInv /\ LoadIInv /\ GateIInv
    /\ CatalogTypeOK /\ BootIInv /\ HookIInv

LEMMA ServicesInitially == ServicesInit => ServicesIInv
BY BreakerInitially, InitIInv, LoadInitOK, GateInitOK, CatalogInitially, BootInitOK,
   HookInitially DEF ServicesInit, ServicesIInv

LEMMA ServicesStep ==
    ASSUME [ServicesNext]_servicesVars
    PROVE  /\ [BreakerNext]_breakerVars /\ [Next]_vars /\ [LoadNext]_loadVars
           /\ [GateNext]_gateVars /\ [CatalogNext]_catalogVars /\ [BootNext]_bootVars
           /\ [HookNext]_hookVars
<1>1. CASE Only("breaker", BreakerNext)
  BY <1>1 DEF Only
<1>2. CASE Only("stream", Next)
  BY <1>2 DEF Only
<1>3. CASE Only("load", LoadNext)
  BY <1>3 DEF Only
<1>4. CASE Only("session", GateNext)
  BY <1>4 DEF Only
<1>5. CASE Only("catalogue", CatalogNext)
  BY <1>5 DEF Only
<1>6. CASE Only("bootstrap", BootNext)
  BY <1>6 DEF Only
<1>7. CASE Only("hook", HookNext)
  BY <1>7 DEF Only
<1>8. CASE UNCHANGED servicesVars
  BY <1>8 DEF servicesVars
<1>9. QED
  BY <1>1, <1>2, <1>3, <1>4, <1>5, <1>6, <1>7, <1>8 DEF ServicesNext

LEMMA ServicesStepKeeps == ServicesIInv /\ [ServicesNext]_servicesVars => ServicesIInv'
<1> SUFFICES ASSUME ServicesIInv, [ServicesNext]_servicesVars PROVE ServicesIInv'
  OBVIOUS
<1>1. BreakerIInv' /\ IInv' /\ LoadIInv'
  BY ServicesStep, BreakerNextKeeps, NextIInv, LoadStepOK DEF ServicesIInv
<1>2. GateIInv' /\ CatalogTypeOK' /\ BootIInv' /\ HookIInv'
  BY ServicesStep, GateStepOK, CatalogStepKeeps, BootStepOK, HookStepKeeps DEF ServicesIInv
<1>3. QED
  BY <1>1, <1>2 DEF ServicesIInv

\* The types of the seven components, whichever of them moves; with them, that a
\* worker deals with an entry of its batch, that a load run that is over has no
\* live copy, and that a thread never holds more connections than there are.
THEOREM ServicesKeepTypes == ServicesFairSpec => []ServicesTypeOK
<1>1. ServicesIInv => ServicesTypeOK
  BY DEF ServicesIInv, ServicesTypeOK, BreakerIInv, LoadIInv, GateIInv, BootIInv, HookIInv
<1>2. QED
  BY <1>1, ServicesInitially, ServicesStepKeeps, PTL DEF ServicesFairSpec

\* Each component moves in the composition as its own specification says, so
\* that what is proved of one holds of the specification that TLC runs: streaks
\* and probe slots, runs that are over, sessions, demo sets, connections.
THEOREM ServicesImplement ==
    ServicesFairSpec => /\ BreakerSpec /\ Spec /\ LoadSpec /\ GateSpec
                        /\ CatalogSpec /\ BootSpec /\ HookSpec
<1>1. ServicesInit => /\ BreakerInit /\ Init /\ LoadInit /\ GateInit
                     /\ CatalogInit /\ BootInit /\ HookInit
  BY DEF ServicesInit
<1>2. [ServicesNext]_servicesVars =>
         /\ [BreakerNext]_breakerVars /\ [Next]_vars /\ [LoadNext]_loadVars
         /\ [GateNext]_gateVars /\ [CatalogNext]_catalogVars /\ [BootNext]_bootVars
         /\ [HookNext]_hookVars
  BY ServicesStep
<1>3. QED
  BY <1>1, <1>2, PTL
     DEF ServicesFairSpec, BreakerSpec, Spec, LoadSpec, GateSpec, CatalogSpec, BootSpec, HookSpec
===============================================================================
