--------------------------- MODULE StreamPartsProofs ---------------------------
(***************************************************************************)
(* What is proved of the components of MCOrderStream besides the order     *)
(* stream, for every value of their constants: the remediator, the stress  *)
(* runner and the payment decision.  With the order stream's invariant     *)
(* they give the types of the part that moves.                             *)
(***************************************************************************)
EXTENDS MCOrderStream, OrderStreamProofs, InductionLemmas

-----------------------------------------------------------------------------
(* The remediator *)

\* Runs still to be proposed, and those of alarms nobody has taken, are new.
StillToPropose ==
    \A a \in Alarms :
        /\ takenBy[a] = NoPod => matching[a] = {}
        /\ \A t \in Tiers :
              takenBy[a] = NoPod \/ t \in matching[a] => remState[<<a, t>>] = "none"

\* What scale-hpa has read belongs to a run that is running.
ReadMeansRunning ==
    \A r \in PlaybookRuns :
        readMin[r] # NoValue => r[2] = "medium" /\ remState[r] = "running"

RemIInv == RemTypeOK /\ ExecutedOnce /\ StillToPropose /\ ReadMeansRunning

LEMMA RemInitOK == RemInit => RemIInv
  <1> SUFFICES ASSUME RemInit PROVE RemIInv
    OBVIOUS
  <1>1. RemTypeOK
    <2>1. BaseMin \in Int
      BY RemediationAssumption
    <2>2. /\ remState \in [PlaybookRuns -> RemStates]
          /\ readMin \in [PlaybookRuns -> Int \cup {NoValue}]
          /\ executed \in [PlaybookRuns -> Nat]
      BY DEF RemInit, RemStates
    <2>3. /\ takenBy \in [Alarms -> Pods \cup {NoPod}]
          /\ matching \in [Alarms -> SUBSET Tiers]
      BY DEF RemInit
    <2> QED
      BY <2>1, <2>2, <2>3 DEF RemInit, RemTypeOK
  <1>2. ExecutedOnce
    BY DEF RemInit, ExecutedOnce
  <1>3. StillToPropose
    BY DEF RemInit, StillToPropose, PlaybookRuns
  <1>4. ReadMeansRunning
    BY DEF RemInit, ReadMeansRunning
  <1> QED
    BY <1>1, <1>2, <1>3, <1>4 DEF RemIInv

\* An execution of a run that has not been executed.
LEMMA ExecuteFacts ==
    ASSUME RemIInv, NEW r \in PlaybookRuns, Execute(r), executed[r] = 0,
           remState[r] \in {"none", "proposed"}
    PROVE  /\ remState' \in [PlaybookRuns -> RemStates]
           /\ readMin' \in [PlaybookRuns -> Int \cup {NoValue}]
           /\ executed' \in [PlaybookRuns -> Nat]
           /\ ExecutedOnce' /\ ReadMeansRunning'
           /\ \A other \in PlaybookRuns : other # r => remState'[other] = remState[other]
  <1> USE DEF RemIInv
  <1>1. PICK s \in {"running", "succeeded", "failed"} : remState' = [remState EXCEPT ![r] = s]
    BY DEF Execute
  <1>2. executed' = [executed EXCEPT ![r] = executed[r] + 1]
    BY DEF Execute
  <1>3. /\ readMin' \in [PlaybookRuns -> Int \cup {NoValue}]
        /\ \A other \in PlaybookRuns : other # r => readMin'[other] = readMin[other]
    BY DEF Execute, RemTypeOK
  <1>4. /\ remState' \in [PlaybookRuns -> RemStates]
        /\ executed' \in [PlaybookRuns -> Nat]
    BY <1>1, <1>2 DEF RemTypeOK, RemStates
  <1>5. remState'[r] = s /\ executed'[r] = 1
    BY <1>1, <1>2 DEF RemTypeOK
  <1>6. \A other \in PlaybookRuns : other # r =>
          remState'[other] = remState[other] /\ executed'[other] = executed[other]
    BY <1>1, <1>2 DEF RemTypeOK
  <1>7. ExecutedOnce'
    BY <1>5, <1>6 DEF ExecutedOnce
  <1>8. readMin'[r] # NoValue => r[2] = "medium" /\ remState'[r] = "running"
    <2>1. readMin[r] = NoValue
      BY DEF ReadMeansRunning
    <2>2. CASE UNCHANGED readMin
      BY <2>1, <2>2
    <2>3. CASE r[2] = "medium" /\ remState' = [remState EXCEPT ![r] = "running"]
      BY <2>3 DEF RemTypeOK
    <2> QED
      BY <2>2, <2>3 DEF Execute
  <1>9. ReadMeansRunning'
    BY <1>3, <1>6, <1>8 DEF ReadMeansRunning
  <1> QED
    BY <1>3, <1>4, <1>6, <1>7, <1>9

\* A step that moves one run that is not new, and proposes nothing.
LEMMA OneRunMoves ==
    ASSUME RemIInv, NEW r \in PlaybookRuns, remState[r] # "none",
           \A other \in PlaybookRuns : other # r => remState'[other] = remState[other],
           UNCHANGED <<takenBy, matching>>
    PROVE  StillToPropose'
  <1>1. ASSUME NEW a \in Alarms, NEW t \in Tiers, takenBy[a] = NoPod \/ t \in matching[a]
        PROVE  remState'[<<a, t>>] = "none"
    <2>1. remState[<<a, t>>] = "none" /\ <<a, t>> \in PlaybookRuns
      BY <1>1 DEF RemIInv, StillToPropose, PlaybookRuns
    <2> QED
      BY <2>1
  <1> QED
    BY <1>1 DEF RemIInv, StillToPropose

LEMMA AlarmOK ==
    ASSUME RemIInv, NEW a \in Alarms, NEW p \in Pods, Alarm(a, p)
    PROVE  RemIInv'
  <1>1. PICK M \in SUBSET Tiers : matching' = [matching EXCEPT ![a] = M]
    BY DEF Alarm
  <1>2. /\ takenBy[a] = NoPod /\ takenBy' = [takenBy EXCEPT ![a] = p]
        /\ UNCHANGED <<remState, readMin, executed, hpa, cron>>
    BY DEF Alarm
  <1>3. RemTypeOK' /\ ExecutedOnce' /\ ReadMeansRunning'
    BY <1>1, <1>2 DEF RemIInv, RemTypeOK, ExecutedOnce, ReadMeansRunning, hpa
  <1>4. StillToPropose'
    <2>1. takenBy'[a] = p /\ \A t \in Tiers : remState'[<<a, t>>] = "none"
      BY <1>2 DEF RemIInv, RemTypeOK, StillToPropose
    <2>2. \A b \in Alarms : b # a => takenBy'[b] = takenBy[b] /\ matching'[b] = matching[b]
      BY <1>1, <1>2 DEF RemIInv, RemTypeOK
    <2> QED
      BY <1>2, <2>1, <2>2, RemediationAssumption DEF RemIInv, StillToPropose
  <1> QED
    BY <1>3, <1>4 DEF RemIInv

LEMMA ProposeOK ==
    ASSUME RemIInv, NEW a \in Alarms, Propose(a)
    PROVE  RemIInv'
  <1>1. PICK t \in matching[a] :
          /\ matching' = [matching EXCEPT ![a] = @ \ {t}]
          /\ IF Unattended(t) THEN Execute(<<a, t>>)
             ELSE /\ remState' = [remState EXCEPT ![<<a, t>>] = "proposed"]
                  /\ UNCHANGED <<readMin, executed>>
    BY DEF Propose
  <1>2. t \in Tiers /\ matching[a] \subseteq Tiers /\ takenBy[a] # NoPod
    BY DEF RemIInv, RemTypeOK, StillToPropose
  <1>3. UNCHANGED <<takenBy, hpa, cron>>
    BY DEF Propose
  <1> DEFINE r == <<a, t>>
  <1>4. r \in PlaybookRuns /\ remState[r] = "none" /\ executed[r] = 0
    BY <1>1, <1>2 DEF PlaybookRuns, RemIInv, StillToPropose, ExecutedOnce
  <1>5. /\ remState' \in [PlaybookRuns -> RemStates]
        /\ readMin' \in [PlaybookRuns -> Int \cup {NoValue}]
        /\ executed' \in [PlaybookRuns -> Nat]
        /\ ExecutedOnce' /\ ReadMeansRunning'
        /\ \A other \in PlaybookRuns : other # r => remState'[other] = remState[other]
    <2>1. CASE Execute(r)
      BY <2>1, <1>4, ExecuteFacts
    <2>2. CASE remState' = [remState EXCEPT ![r] = "proposed"] /\ UNCHANGED <<readMin, executed>>
      BY <2>2, <1>4 DEF RemIInv, RemTypeOK, RemStates, ExecutedOnce, ReadMeansRunning
    <2> QED
      BY <1>1, <2>1, <2>2
  <1>6. matching' \in [Alarms -> SUBSET Tiers]
    BY <1>1, <1>2 DEF RemIInv, RemTypeOK
  <1>7. RemTypeOK'
    BY <1>3, <1>5, <1>6 DEF RemIInv, RemTypeOK, hpa
  <1>8. /\ \A b \in Alarms : b # a => matching'[b] = matching[b]
        /\ matching'[a] = matching[a] \ {t}
    BY <1>1 DEF RemIInv, RemTypeOK
  <1>9. ASSUME NEW b \in Alarms, NEW u \in Tiers, takenBy[b] = NoPod \/ u \in matching'[b]
        PROVE  remState'[<<b, u>>] = "none"
    <2>1. <<b, u>> \in PlaybookRuns /\ remState[<<b, u>>] = "none"
      BY <1>8, <1>9 DEF PlaybookRuns, RemIInv, StillToPropose
    <2>2. <<b, u>> # r
      BY <1>2, <1>8, <1>9
    <2> QED
      BY <1>5, <2>1, <2>2
  <1>10. StillToPropose'
    BY <1>2, <1>3, <1>8, <1>9 DEF RemIInv, StillToPropose
  <1> QED
    BY <1>5, <1>7, <1>10 DEF RemIInv

LEMMA ApproveOK ==
    ASSUME RemIInv, NEW r \in PlaybookRuns, Approve(r)
    PROVE  RemIInv'
  <1>1. /\ remState[r] = "proposed" /\ Execute(r)
        /\ UNCHANGED <<takenBy, matching, hpa, cron>>
    BY DEF Approve
  <1>2. executed[r] = 0
    BY <1>1 DEF RemIInv, ExecutedOnce
  <1>3. /\ remState' \in [PlaybookRuns -> RemStates]
        /\ readMin' \in [PlaybookRuns -> Int \cup {NoValue}]
        /\ executed' \in [PlaybookRuns -> Nat]
        /\ ExecutedOnce' /\ ReadMeansRunning'
        /\ \A other \in PlaybookRuns : other # r => remState'[other] = remState[other]
    BY <1>1, <1>2, ExecuteFacts
  <1>4. RemTypeOK'
    BY <1>1, <1>3 DEF RemIInv, RemTypeOK, hpa
  <1> QED
    BY <1>1, <1>3, <1>4, OneRunMoves DEF RemIInv

\* A run that is rejected, or that ends.
LEMMA RunEnds ==
    ASSUME RemIInv, NEW r \in PlaybookRuns, NEW s \in {"rejected", "succeeded", "failed"},
           remState[r] \in {"proposed", "running"},
           s = "rejected" => remState[r] = "proposed",
           remState' = [remState EXCEPT ![r] = s],
           UNCHANGED <<takenBy, matching, executed>>
    PROVE  remState' \in [PlaybookRuns -> RemStates] /\ ExecutedOnce' /\ StillToPropose'
  <1>1. remState' \in [PlaybookRuns -> RemStates]
    BY DEF RemIInv, RemTypeOK, RemStates
  <1>2. /\ remState'[r] = s
        /\ \A other \in PlaybookRuns : other # r => remState'[other] = remState[other]
    BY DEF RemIInv, RemTypeOK
  <1>3. ExecutedOnce'
    BY <1>2 DEF RemIInv, ExecutedOnce
  <1> QED
    BY <1>1, <1>2, <1>3, OneRunMoves

\* Between its read and its patch a run of scale-hpa is running.
LEMMA PatchOK ==
    ASSUME RemIInv, NEW r \in PlaybookRuns, Patch(r)
    PROVE  RemIInv'
  <1>1. /\ readMin[r] \in Int /\ readMin[r] # NoValue /\ remState[r] = "running"
        /\ readMin' = [readMin EXCEPT ![r] = NoValue]
    BY DEF Patch, RemIInv, RemTypeOK, ReadMeansRunning
  <1>2. UNCHANGED <<takenBy, matching, executed, bumpedFrom, bumpIsOld, cron>>
    BY DEF Patch
  <1>3. PICK s \in {"succeeded", "failed"} : remState' = [remState EXCEPT ![r] = s]
    BY DEF Patch
  <1>4. hpaMin' \in Int
    BY <1>1 DEF Patch, RemIInv, RemTypeOK
  <1>5. remState' \in [PlaybookRuns -> RemStates] /\ ExecutedOnce' /\ StillToPropose'
    BY <1>1, <1>2, <1>3, RunEnds
  <1>6. RemTypeOK'
    BY <1>1, <1>2, <1>4, <1>5 DEF RemIInv, RemTypeOK
  <1>7. ReadMeansRunning'
    BY <1>1, <1>3 DEF RemIInv, RemTypeOK, ReadMeansRunning
  <1> QED
    BY <1>5, <1>6, <1>7 DEF RemIInv

\* A run that is rejected or a flush that is over has read nothing.
LEMMA RejectOrFlushOK ==
    ASSUME RemIInv, NEW r \in PlaybookRuns, Reject(r) \/ FlushOver(r)
    PROVE  RemIInv'
  <1>1. UNCHANGED <<takenBy, matching, readMin, executed, hpa, cron>>
    BY DEF Reject, FlushOver
  <1>2. PICK s \in {"rejected", "succeeded", "failed"} :
          /\ remState[r] \in {"proposed", "running"}
          /\ s = "rejected" => remState[r] = "proposed"
          /\ remState' = [remState EXCEPT ![r] = s]
    BY DEF Reject, FlushOver
  <1>3. remState' \in [PlaybookRuns -> RemStates] /\ ExecutedOnce' /\ StillToPropose'
    BY <1>1, <1>2, RunEnds
  <1>4. RemTypeOK'
    BY <1>1, <1>3 DEF RemIInv, RemTypeOK, hpa
  <1>5. readMin[r] = NoValue
    BY DEF Reject, FlushOver, RemIInv, ReadMeansRunning
  <1>6. ReadMeansRunning'
    BY <1>1, <1>2, <1>5 DEF RemIInv, RemTypeOK, ReadMeansRunning
  <1> QED
    BY <1>3, <1>4, <1>6 DEF RemIInv

LEMMA RestartOK ==
    ASSUME RemIInv, NEW p \in Pods, Restart(p)
    PROVE  RemIInv'
  <1>1. /\ matching' = [a \in Alarms |-> IF takenBy[a] = p THEN {} ELSE matching[a]]
        /\ remState' = [r \in PlaybookRuns |-> IF takenBy[r[1]] = p THEN "gone" ELSE remState[r]]
        /\ readMin' = [r \in PlaybookRuns |-> IF takenBy[r[1]] = p THEN NoValue ELSE readMin[r]]
        /\ UNCHANGED <<takenBy, executed, hpa, cron>>
    BY DEF Restart
  <1>2. RemTypeOK'
    BY <1>1 DEF RemIInv, RemTypeOK, RemStates, hpa
  <1>3. ExecutedOnce' /\ ReadMeansRunning'
    BY <1>1 DEF RemIInv, ExecutedOnce, ReadMeansRunning
  <1>4. StillToPropose'
    <2>1. ASSUME NEW a \in Alarms, NEW t \in Tiers, takenBy[a] = NoPod \/ t \in matching'[a]
          PROVE  remState'[<<a, t>>] = "none"
      <3>1. takenBy[a] # p
        BY <1>1, <2>1, RemediationAssumption
      <3>2. <<a, t>> \in PlaybookRuns /\ <<a, t>>[1] = a
        BY DEF PlaybookRuns
      <3>3. remState[<<a, t>>] = "none"
        BY <1>1, <2>1, <3>1 DEF RemIInv, StillToPropose
      <3> QED
        BY <1>1, <3>1, <3>2, <3>3
    <2> QED
      BY <1>1, <2>1 DEF RemIInv, StillToPropose
  <1> QED
    BY <1>2, <1>3, <1>4 DEF RemIInv

\* The annotations, the time and the CronJob
LEMMA CronOK ==
    ASSUME RemIInv, Annotate \/ TenMinutesPass \/ CronList \/ CronPatch \/ CronFails
    PROVE  RemIInv'
  <1>1. UNCHANGED remRuns
    BY DEF Annotate, TenMinutesPass, CronList, CronPatch, CronFails
  <1>2. BaseMin \in Int
    BY RemediationAssumption
  <1>3. hpaMin' \in Int /\ bumpedFrom' \in Int \cup {NoValue} /\ bumpIsOld' \in BOOLEAN
    <2>1. CASE CronPatch
      <3>1. cron.min \in Int /\ cron.base \in Int
        BY <2>1 DEF CronPatch, RemIInv, RemTypeOK
      <3>2. hpaMin' \in Int
        BY <2>1, <3>1 DEF CronPatch, RemIInv, RemTypeOK
      <3>3. bumpedFrom' \in Int \cup {NoValue} /\ bumpIsOld' \in BOOLEAN
        BY <2>1 DEF CronPatch, RemIInv, RemTypeOK
      <3> QED
        BY <3>2, <3>3
    <2>2. CASE Annotate \/ TenMinutesPass \/ CronList \/ CronFails
      BY <1>2, <2>2 DEF Annotate, TenMinutesPass, CronList, CronFails, RemIInv, RemTypeOK, hpa
    <2> QED
      BY <2>1, <2>2
  <1>4. cron' \in [min : Int, base : Int] \cup {NoValue}
    BY DEF Annotate, TenMinutesPass, CronList, CronPatch, CronFails, RemIInv, RemTypeOK
  <1>5. RemTypeOK'
    BY <1>1, <1>3, <1>4 DEF RemIInv, RemTypeOK, remRuns
  <1>6. ExecutedOnce' /\ StillToPropose' /\ ReadMeansRunning'
    BY <1>1 DEF RemIInv, ExecutedOnce, StillToPropose, ReadMeansRunning, remRuns
  <1> QED
    BY <1>5, <1>6 DEF RemIInv

LEMMA RemStepOK == RemIInv /\ [RemNext]_remVars => RemIInv'
  <1> SUFFICES ASSUME RemIInv, [RemNext]_remVars PROVE RemIInv'
    OBVIOUS
  <1>1. ASSUME NEW a \in Alarms, Propose(a) \/ \E p \in Pods : Alarm(a, p) PROVE RemIInv'
    BY <1>1, ProposeOK, AlarmOK
  <1>2. ASSUME NEW r \in PlaybookRuns, Approve(r) \/ Reject(r) \/ FlushOver(r) \/ Patch(r)
        PROVE  RemIInv'
    BY <1>2, ApproveOK, RejectOrFlushOK, PatchOK
  <1>3. ASSUME NEW p \in Pods, Restart(p) PROVE RemIInv'
    BY <1>3, RestartOK
  <1>4. CASE UNCHANGED remVars
    BY <1>4 DEF remVars, remRuns, hpa, RemIInv, RemTypeOK, ExecutedOnce, StillToPropose,
                ReadMeansRunning
  <1> QED
    BY <1>1, <1>2, <1>3, <1>4, CronOK DEF RemNext

\* No run is executed twice, nor one that was rejected or is still proposed, with
\* any number of alarms, replicas, operators and restarts (api.py).
THEOREM RunsExecuteOnce == RemSpec => []ExecutedOnce
  <1>1. RemIInv => ExecutedOnce
    BY DEF RemIInv
  <1> QED
    BY <1>1, RemInitOK, RemStepOK, PTL DEF RemSpec

\* Nothing takes the autoscaler, what scale-hpa has read of it or what the
\* CronJob has read below the baseline, and the annotation names the baseline.
HpaFloor ==
    /\ hpaMin >= BaseMin
    /\ bumpedFrom \in {BaseMin, NoValue}
    /\ \A r \in PlaybookRuns : readMin[r] # NoValue => readMin[r] >= BaseMin
    /\ cron # NoValue => cron.base = BaseMin

\* What is read of an autoscaler at or above the baseline is, too.
LEMMA ExecuteFloor ==
    ASSUME RemIInv, HpaFloor, NEW r \in PlaybookRuns, Execute(r)
    PROVE  \A other \in PlaybookRuns : readMin'[other] # NoValue => readMin'[other] >= BaseMin
  <1>1. CASE UNCHANGED readMin
    BY <1>1 DEF HpaFloor
  <1>2. CASE readMin' = [readMin EXCEPT ![r] = hpaMin]
    <2>1. \A other \in PlaybookRuns : readMin'[other] = readMin[other] \/ readMin'[other] = hpaMin
      BY <1>2 DEF RemIInv, RemTypeOK
    <2> QED
      BY <2>1 DEF HpaFloor
  <1> QED
    BY <1>1, <1>2 DEF Execute

LEMMA FloorStepOK == RemIInv /\ HpaFloor /\ [RemNext]_remVars => HpaFloor'
  <1> SUFFICES ASSUME RemIInv, HpaFloor, [RemNext]_remVars PROVE HpaFloor'
    OBVIOUS
  <1>1. BaseMin \in Int /\ hpaMin \in Int /\ readMin \in [PlaybookRuns -> Int \cup {NoValue}]
        /\ cron \in [min : Int, base : Int] \cup {NoValue}
    BY RemediationAssumption DEF RemIInv, RemTypeOK
  <1>2. ASSUME UNCHANGED <<hpa, cron>>,
               \A r \in PlaybookRuns : readMin'[r] # NoValue => readMin'[r] >= BaseMin
        PROVE  HpaFloor'
    BY <1>2 DEF HpaFloor, hpa
  <1>3. ASSUME NEW a \in Alarms, Propose(a) PROVE HpaFloor'
    <2>1. PICK t \in Tiers :
            UNCHANGED readMin \/ Execute(<<a, t>>)
      BY <1>1, <1>3 DEF Propose, RemIInv, RemTypeOK
    <2>2. <<a, t>> \in PlaybookRuns
      BY DEF PlaybookRuns
    <2>3. \A r \in PlaybookRuns : readMin'[r] # NoValue => readMin'[r] >= BaseMin
      BY <2>1, <2>2, ExecuteFloor DEF HpaFloor
    <2> QED
      BY <1>2, <1>3, <2>3 DEF Propose
  <1>4. ASSUME NEW r \in PlaybookRuns, Approve(r) PROVE HpaFloor'
    BY <1>2, <1>4, ExecuteFloor DEF Approve
  <1>5. ASSUME NEW r \in PlaybookRuns, Patch(r) PROVE HpaFloor'
    <2>1. readMin[r] \in Int /\ readMin[r] >= BaseMin
      BY <1>1, <1>5 DEF Patch, HpaFloor
    <2>2. hpaMin' >= BaseMin
      BY <1>1, <1>5, <2>1 DEF Patch, HpaFloor
    <2>3. \A other \in PlaybookRuns : readMin'[other] # NoValue => readMin'[other] = readMin[other]
      BY <1>1, <1>5 DEF Patch
    <2> QED
      BY <1>5, <2>2, <2>3 DEF Patch, HpaFloor
  <1>6. ASSUME NEW p \in Pods, Restart(p) PROVE HpaFloor'
    <2>1. \A r \in PlaybookRuns : readMin'[r] # NoValue => readMin'[r] = readMin[r]
      BY <1>6 DEF Restart
    <2> QED
      BY <1>2, <1>6, <2>1 DEF Restart, HpaFloor
  <1>7. ASSUME CronList PROVE HpaFloor'
    BY <1>7 DEF CronList, HpaFloor, hpa, remRuns
  <1>8. ASSUME CronPatch PROVE HpaFloor'
    <2>1. cron.min \in Int /\ cron.base = BaseMin
      BY <1>1, <1>8 DEF CronPatch, HpaFloor
    <2>2. hpaMin' >= BaseMin
      BY <1>1, <1>8, <2>1 DEF CronPatch, HpaFloor
    <2>3. bumpedFrom' \in {BaseMin, NoValue}
      BY <1>8 DEF CronPatch, HpaFloor
    <2> QED
      BY <1>8, <2>2, <2>3 DEF CronPatch, HpaFloor, remRuns
  <1>9. ASSUME UNCHANGED <<hpa, cron, readMin>> PROVE HpaFloor'
    BY <1>2, <1>9 DEF HpaFloor
  <1>10. ASSUME Annotate \/ TenMinutesPass \/ CronFails PROVE HpaFloor'
    BY <1>10 DEF Annotate, TenMinutesPass, CronFails, HpaFloor, hpa, remRuns
  <1> QED
    BY <1>3, <1>4, <1>5, <1>6, <1>7, <1>8, <1>9, <1>10
       DEF RemNext, Alarm, Reject, FlushOver, remVars, remRuns

\* A patch of the CronJob takes one replica back and never more than there are
\* above the baseline, unless a bump landed since it listed (autorevert.py).
THEOREM OneReplicaBack == RemSpec => OneStepDown
  <1>1. ASSUME RemIInv, HpaFloor, [RemNext]_remVars,
               cron # NoValue, cron' = NoValue, hpaMin' < hpaMin
        PROVE  hpaMin' >= BaseMin /\ (hpaMin' = hpaMin - 1 \/ hpaMin # cron.min)
    <2>1. /\ BaseMin \in Int /\ hpaMin \in Int /\ cron.min \in Int
          /\ cron.base = BaseMin
      BY <1>1, RemediationAssumption DEF RemIInv, RemTypeOK, HpaFloor
    <2>2. hpaMin' # hpaMin
      BY <1>1, <2>1
    <2>3. CronPatch
      BY <1>1, <2>2 DEF RemNext, Propose, Alarm, Approve, Reject, FlushOver, Patch, Restart,
         Annotate, TenMinutesPass, CronList, CronFails, remVars, hpa
    <2>4. cron.min > BaseMin /\ hpaMin' = cron.min - 1
      BY <2>1, <2>2, <2>3 DEF CronPatch
    <2> QED
      BY <2>1, <2>4
  <1>2. RemInit => HpaFloor
    BY RemediationAssumption DEF RemInit, HpaFloor
  <1>3. RemSpec => [](RemIInv /\ HpaFloor)
    BY <1>2, RemInitOK, RemStepOK, FloorStepOK, PTL DEF RemSpec
  <1>4. RemIInv /\ HpaFloor /\ [RemNext]_remVars =>
          [cron # NoValue /\ cron' = NoValue /\ hpaMin' < hpaMin =>
             hpaMin' >= BaseMin /\ (hpaMin' = hpaMin - 1 \/ hpaMin # cron.min)]_remVars
    BY <1>1
  <1> QED
    BY <1>3, <1>4, PTL DEF RemSpec, OneStepDown

-----------------------------------------------------------------------------
(* The stress runner *)

StressIInv == StressTypeOK /\ SpawnsAlone /\ RunnerKnowsItsK6

LEMMA StressInitially == StressInit => StressIInv
BY DEF StressInit, StressIInv, StressTypeOK, SpawnsAlone, RunnerKnowsItsK6

\* The steps of the request and of the CRM leave the runs alone.
LEMMA AskingKeeps ==
    ASSUME StressIInv, NEW r \in StressRunIds,
           \/ \E who \in {"crm", "other"} : PostRun(r, who)
           \/ TellUser(r) \/ Refuse(r) \/ SpawnFails(r)
    PROVE  StressIInv'
<1> USE DEF runVars, callerVars, StressIInv
<1>1. CASE \E who \in {"crm", "other"} : PostRun(r, who)
  BY <1>1 DEF PostRun, StressTypeOK, SpawnsAlone, RunnerKnowsItsK6, Busy, Unfinished, Answers
<1>2. CASE TellUser(r)
  BY <1>2 DEF TellUser, StressTypeOK, SpawnsAlone, RunnerKnowsItsK6, Busy, Unfinished, Answers
<1>3. CASE Refuse(r)
  BY <1>3 DEF Refuse, Locking, StressTypeOK, SpawnsAlone, RunnerKnowsItsK6, Busy, Unfinished,
              Answers
<1>4. CASE SpawnFails(r)
  BY <1>4 DEF SpawnFails, StressTypeOK, SpawnsAlone, RunnerKnowsItsK6, Busy, Unfinished, Answers
<1>5. QED BY <1>1, <1>2, <1>3, <1>4

\* A spawn begins when no process lives and nobody else spawns, ...
LEMMA SpawnKeeps ==
    ASSUME StressIInv, NEW r \in StressRunIds, Spawn(r)
    PROVE  StressIInv'
<1> USE DEF runVars, callerVars, StressIInv, Spawn, Locking, LockFree
<1>1. StressTypeOK' BY DEF StressTypeOK
<1>2. SpawnsAlone' BY DEF StressTypeOK, SpawnsAlone, Busy, Unfinished
<1>3. RunnerKnowsItsK6' BY DEF RunnerKnowsItsK6
<1>4. QED BY <1>1, <1>2, <1>3

\* ... so that the one it ends with is the only one.
LEMMA StartKeeps ==
    ASSUME StressIInv, NEW r \in StressRunIds, Start(r)
    PROVE  StressIInv'
<1> USE DEF runVars, callerVars, StressIInv, Start
<1>1. StressTypeOK' BY DEF StressTypeOK, Answers
<1>2. ~Busy /\ \A s \in StressRunIds \ {r} : post[s] # "spawning"
  BY DEF SpawnsAlone
<1>3. SpawnsAlone' BY <1>2 DEF StressTypeOK, SpawnsAlone
<1>4. \A s \in StressRunIds : k6[s] # "alive"
  BY <1>2, StressRunsAssumption DEF RunnerKnowsItsK6, Busy, Unfinished, StressTypeOK, SpawnsAlone
<1>5. RunnerKnowsItsK6' BY <1>4 DEF RunnerKnowsItsK6, StressTypeOK
<1>6. QED BY <1>1, <1>3, <1>5

\* Who ends a run signals a process that lives.
LEMMA EndingKeeps ==
    ASSUME StressIInv, NEW r \in StressRunIds,
           Clear \/ HardTimeout(r) \/ Completed(r)
    PROVE  StressIInv'
<1> USE DEF runVars, callerVars, StressIInv
<1>1. CASE Clear
  <2> USE <1>1 DEF Clear, Signal, Busy, Unfinished
  <2>1. StressTypeOK' BY DEF StressTypeOK
  <2>2. SpawnsAlone' BY DEF StressTypeOK, SpawnsAlone, LockFree
  <2>3. RunnerKnowsItsK6' BY DEF RunnerKnowsItsK6, StressTypeOK
  <2>4. QED BY <2>1, <2>2, <2>3
<1>2. CASE HardTimeout(r)
  <2> USE <1>2 DEF HardTimeout, Signal, Unfinished
  <2>1. StressTypeOK' BY DEF StressTypeOK
  <2>2. SpawnsAlone' BY DEF StressTypeOK, SpawnsAlone, LockFree
  <2>3. RunnerKnowsItsK6' BY DEF RunnerKnowsItsK6, StressTypeOK
  <2>4. QED BY <2>1, <2>2, <2>3
<1>3. CASE Completed(r)
  <2> USE <1>3 DEF Completed
  <2>1. StressTypeOK' BY DEF StressTypeOK
  <2>2. SpawnsAlone' BY DEF StressTypeOK, SpawnsAlone, LockFree
  <2>3. RunnerKnowsItsK6' BY DEF RunnerKnowsItsK6, StressTypeOK
  <2>4. QED BY <2>1, <2>2, <2>3
<1>4. QED BY <1>1, <1>2, <1>3

\* Processes end by themselves, with the loop's notice, or with the pod.
LEMMA ExitKeeps ==
    ASSUME StressIInv, NEW r \in StressRunIds,
           K6Exits(r) \/ Reap(r) \/ RunnerRestarts
    PROVE  StressIInv'
<1> USE DEF runVars, callerVars, StressIInv
<1>1. CASE K6Exits(r)
  <2> USE <1>1 DEF K6Exits
  <2>1. StressTypeOK' BY DEF StressTypeOK
  <2>2. SpawnsAlone' BY DEF StressTypeOK, SpawnsAlone, Busy, Unfinished
  <2>3. RunnerKnowsItsK6' BY DEF RunnerKnowsItsK6, StressTypeOK
  <2>4. QED BY <2>1, <2>2, <2>3
<1>2. CASE Reap(r)
  <2> USE <1>2 DEF Reap
  <2>1. StressTypeOK' BY DEF StressTypeOK
  <2>2. SpawnsAlone' BY DEF StressTypeOK, SpawnsAlone, Busy, Unfinished
  <2>3. RunnerKnowsItsK6' BY DEF RunnerKnowsItsK6, StressTypeOK
  <2>4. QED BY <2>1, <2>2, <2>3
<1>3. CASE RunnerRestarts
  <2> USE <1>3 DEF RunnerRestarts
  <2>1. StressTypeOK' BY DEF StressTypeOK, Answers
  <2>2. SpawnsAlone' BY DEF StressTypeOK, SpawnsAlone, Unfinished
  <2>3. RunnerKnowsItsK6' BY DEF RunnerKnowsItsK6, StressTypeOK, Unfinished
  <2>4. QED BY <2>1, <2>2, <2>3
<1>4. QED BY <1>1, <1>2, <1>3

LEMMA StressStepKeeps == StressIInv /\ [StressNext]_stressVars => StressIInv'
<1> SUFFICES ASSUME StressIInv, [StressNext]_stressVars PROVE StressIInv'
  OBVIOUS
<1>1. CASE UNCHANGED stressVars
  BY <1>1 DEF stressVars, callerVars, runVars, StressIInv, StressTypeOK, SpawnsAlone,
              RunnerKnowsItsK6, Busy, Unfinished
<1>2. CASE Clear \/ RunnerRestarts
  <2>1. CASE StressRunIds = {}
    BY <1>2, <2>1 DEF Clear, RunnerRestarts, callerVars, runVars, StressIInv, StressTypeOK,
                      SpawnsAlone, RunnerKnowsItsK6, Busy, Signal, Unfinished
  <2>2. CASE StressRunIds # {}
    BY <1>2, <2>2, EndingKeeps, ExitKeeps
  <2>3. QED BY <2>1, <2>2
<1>3. ASSUME NEW r \in StressRunIds,
             \/ \E who \in {"crm", "other"} : PostRun(r, who)
             \/ TellUser(r)
             \/ Refuse(r) \/ Spawn(r) \/ SpawnFails(r) \/ Start(r)
             \/ HardTimeout(r) \/ K6Exits(r) \/ Reap(r) \/ Completed(r)
      PROVE  StressIInv'
  BY <1>3, AskingKeeps, SpawnKeeps, StartKeeps, EndingKeeps, ExitKeeps
<1>4. QED BY <1>1, <1>2, <1>3 DEF StressNext

\* The runner's state is well typed, a spawn is alone, and a process that lives
\* is known: what StressRuns' steps keep.
THEOREM StressInductive == StressSpec => []StressIInv
BY StressInitially, StressStepKeeps, PTL DEF StressSpec

\* A k6 that lives is the active run, not reported as over, and told to stop or
\* with its hard timeout to come (run_scenario, clear_run, _hard_timeout and
\* _wait_for_completion of the stress runner).
THEOREM OneK6 == StressSpec => []RunnerKnowsItsK6
<1>1. StressIInv => RunnerKnowsItsK6 BY DEF StressIInv
<1>2. QED BY <1>1, StressInductive, PTL
-----------------------------------------------------------------------------
(* The payment decision *)

Statuses == {"authorized", "declined", "timeout"}
JavaAnswers == {"approved", "declined", "review", "timeout"}

\* An answer of the Java server has a code exactly when it does not approve.
AnswerOK(a) ==
    a # NoOpinion => a.decision \in JavaAnswers /\ (a.code = "" <=> a.decision = "approved")

\* A decision with its code is an answer, and not the absence of one.
LEMMA AnswerIsOne ==
    ASSUME NEW a, a.decision \in JavaAnswers, a.code = "" <=> a.decision = "approved"
    PROVE  a # NoOpinion /\ AnswerOK(a)
  <1>1. NoOpinion.decision \notin JavaAnswers
    BY DEF NoOpinion, JavaAnswers
  <1>2. a # NoOpinion
    BY <1>1
  <1> QED
    BY <1>2 DEF AnswerOK

\* So do the two answers of the Java server.
LEMMA VerificationSays ==
    ASSUME NEW input, NEW c, NEW issue, NEW a, a = Verification(input, c, issue)
    PROVE  a.decision \in {"approved", "declined", "review"} /\ a # NoOpinion /\ AnswerOK(a)
  <1>1. /\ a.decision \in {"approved", "declined", "review"}
        /\ a.code = "" <=> a.decision = "approved"
    BY DEF Verification, Answer
  <1>2. a.decision \in JavaAnswers
    BY <1>1 DEF JavaAnswers
  <1> QED
    BY <1>1, <1>2, AnswerIsOne

LEMMA ProcessingSays ==
    ASSUME NEW input, NEW a, a = Processing(input)
    PROVE  a.decision \in {"approved", "declined", "timeout"} /\ a # NoOpinion /\ AnswerOK(a)
  <1>1. /\ a.decision \in {"approved", "declined", "timeout"}
        /\ a.code = "" <=> a.decision = "approved"
    BY DEF Processing, Answer
  <1>2. a.decision \in JavaAnswers
    BY <1>1 DEF JavaAnswers
  <1> QED
    BY <1>1, <1>2, AnswerIsOne

\* An opinion has a code exactly when it does not authorize.
OpinionOK(o) == o.status \in Statuses /\ (o.code = "" <=> o.status = "authorized")

VerificationOK(v) == AnswerOK(v) /\ (v # NoOpinion => v.decision # "timeout")
ProcessingOK(p) == AnswerOK(p) /\ (p # NoOpinion => p.decision # "review")

\* The simulated provider says why it refuses.
LEMMA LocalSays ==
    ASSUME NEW input, NEW l, l = Local(input)
    PROVE  OpinionOK(l) /\ l.source = "python-simulator"
BY DEF Local, Opinion, OpinionOK, Statuses

\* What the merge of an opinion and a verification has of them.
ByVerification(o, v, m) ==
    /\ m.status = "authorized" =>
          o.status = "authorized" /\ (v # NoOpinion => v.decision # "declined")
    /\ \/ m.source = o.source /\ m.status = o.status
       \/ m.source = "java-antifraud-review" /\ m.status = o.status /\ v.decision = "review"
       \/ m.source = "java-antifraud-verification-app" /\ m.status = "declined"
             /\ v # NoOpinion /\ v.decision = "declined"

LEMMA VerificationMerged ==
    ASSUME NEW o, OpinionOK(o), NEW v, VerificationOK(v), NEW m, m = MergeVerification(o, v)
    PROVE  OpinionOK(m) /\ ByVerification(o, v, m)
  <1>1. CASE v = NoOpinion
    BY <1>1 DEF MergeVerification, ByVerification
  <1>2. CASE v # NoOpinion /\ v.decision = "declined"
    BY <1>2 DEF MergeVerification, Opinion, OpinionOK, VerificationOK, AnswerOK, Statuses,
                ByVerification
  <1>3. CASE v # NoOpinion /\ v.decision = "review"
    BY <1>3 DEF MergeVerification, Opinion, OpinionOK, ByVerification
  <1>4. CASE v # NoOpinion /\ v.decision = "approved"
    BY <1>4 DEF MergeVerification, Opinion, OpinionOK, ByVerification
  <1> QED
    BY <1>1, <1>2, <1>3, <1>4 DEF VerificationOK, AnswerOK, JavaAnswers

\* The processor has a say only in what is still authorized.
ByProcessor(o, p, m) ==
    \/ m = o /\ (o.status = "authorized" => p = NoOpinion)
    \/ /\ o.status = "authorized" /\ p # NoOpinion
       /\ m.status = (IF p.decision = "approved" THEN "authorized" ELSE p.decision)
       /\ m.source = "java-app-server"

LEMMA ProcessorMerged ==
    ASSUME NEW o, OpinionOK(o), NEW p, ProcessingOK(p), NEW m, m = MergeProcessor(o, p)
    PROVE  OpinionOK(m) /\ ByProcessor(o, p, m)
  <1>1. CASE p = NoOpinion \/ o.status \in {"declined", "timeout"}
    BY <1>1 DEF MergeProcessor, ByProcessor
  <1>2. CASE p # NoOpinion /\ o.status = "authorized"
    <2> DEFINE status == IF p.decision = "approved" THEN "authorized" ELSE p.decision
               code == IF p.code # "" THEN p.code ELSE o.code
               risk == IF p.risk # 0 THEN p.risk ELSE o.risk
    <2>1. m = Opinion(status, risk, code, "java-app-server")
      BY <1>2 DEF MergeProcessor
    <2>2. status \in Statuses /\ (code = "" <=> status = "authorized")
      BY <1>2 DEF OpinionOK, ProcessingOK, AnswerOK, JavaAnswers, Statuses
    <2> HIDE DEF status, code, risk
    <2>3. m.status = status /\ m.code = code /\ m.source = "java-app-server"
      BY <2>1 DEF Opinion
    <2> QED
      BY <1>2, <2>2, <2>3 DEF status, OpinionOK, ByProcessor
  <1> QED
    BY <1>1, <1>2 DEF OpinionOK, Statuses

\* The shop's own antifraud declines, or leaves all but the risk as it is.
ByAntifraud(o, c, m) ==
    \/ /\ ~ShouldDecline(c)
       /\ m.status = o.status /\ m.code = o.code /\ m.source = o.source
    \/ /\ ShouldDecline(c)
       /\ m.status = "declined"
       /\ m.source = IF o.source \in {"java-antifraud-verification-app", "java-antifraud-review"}
                     THEN o.source ELSE "internal-antifraud"

LEMMA AntifraudMerged ==
    ASSUME NEW o, OpinionOK(o), NEW c, NEW m, m = MergeAntifraud(o, c)
    PROVE  OpinionOK(m) /\ ByAntifraud(o, c, m)
BY DEF MergeAntifraud, Opinion, OpinionOK, ByAntifraud, Statuses

\* The four opinions together: NobodyObjected and Explained of a row.
ByAll(l, c, v, p, row) ==
    /\ row.status = "authorized" =>
          /\ l.status = "authorized" /\ ~ShouldDecline(c)
          /\ v # NoOpinion => v.decision # "declined"
          /\ p # NoOpinion => p.decision = "approved"
    /\ \/ row.source = "python-simulator" /\ row.status = l.status
       \/ row.source = "java-antifraud-verification-app" /\ row.status = "declined"
             /\ v # NoOpinion /\ v.decision = "declined"
       \/ row.source = "java-antifraud-review" /\ v.decision = "review"
             /\ (row.status = l.status \/ ShouldDecline(c))
       \/ row.source = "java-app-server"
             /\ row.status = (IF p.decision = "approved" THEN "authorized" ELSE p.decision)
       \/ row.source = "internal-antifraud" /\ ShouldDecline(c)

LEMMA MergedSays ==
    ASSUME NEW input, NEW c, NEW v, VerificationOK(v), NEW p, ProcessingOK(p),
           NEW l, l = Local(input), NEW row, row = Merged(input, c, v, p)
    PROVE  OpinionOK(row) /\ ByAll(l, c, v, p, row)
  <1> PICK m : m = MergeVerification(l, v)
    OBVIOUS
  <1> PICK n : n = MergeProcessor(m, p)
    OBVIOUS
  <1>1. OpinionOK(l) /\ l.source = "python-simulator"
    BY LocalSays
  <1>2. OpinionOK(m) /\ ByVerification(l, v, m)
    BY <1>1, VerificationMerged
  <1>3. OpinionOK(n) /\ ByProcessor(m, p, n)
    BY <1>2, ProcessorMerged
  <1>4. row = MergeAntifraud(n, c)
    BY DEF Merged
  <1>5. OpinionOK(row) /\ ByAntifraud(n, c, row)
    BY <1>3, <1>4, AntifraudMerged
  <1>6. CASE n = m /\ (m.status = "authorized" => p = NoOpinion)
    BY <1>1, <1>2, <1>5, <1>6 DEF ByVerification, ByAntifraud, ByAll
  <1>7. CASE /\ m.status = "authorized" /\ p # NoOpinion
             /\ n.status = (IF p.decision = "approved" THEN "authorized" ELSE p.decision)
             /\ n.source = "java-app-server"
    <2>1. n.status = "authorized" => p.decision = "approved"
      BY <1>7 DEF ProcessingOK, AnswerOK, JavaAnswers
    <2> QED
      BY <1>1, <1>2, <1>5, <1>7, <2>1 DEF ByVerification, ByAntifraud, ByAll
  <1> QED
    BY <1>3, <1>6, <1>7 DEF ByProcessor

\* The events of a payment, and what they are called
StepNames ==
    {"gateway_payment_received", "wallet_token_received", "gateway_token_decryption",
     "network_token_cryptogram_validation", "internal_antifraud_screening",
     "apple_pay_merchant_validation", "card_data_received", "gateway_card_tokenization",
     "card_network_routing", "verification_antifraud_request",
     "verification_antifraud_response", "processor_authorization_request",
     "processor_authorization_response", "network_authorization_routing",
     "merchant_authorization_result"}
StepStatuses == {"completed", "declined", "timeout", "review"} \cup Outages
StepRecords == [name : StepNames, status : StepStatuses]
Names(e) == [i \in 1..Len(e) |-> e[i].name]

LEMMA NamesAreASequence ==
    ASSUME NEW e \in Seq(StepRecords)
    PROVE  /\ Names(e) \in Seq(StepNames)
           /\ Len(Names(e)) = Len(e)
           /\ \A i \in 1..Len(e) : Names(e)[i] = e[i].name
  <1>1. Len(e) \in Nat /\ \A i \in 1..Len(e) : e[i] \in StepRecords
    BY LenProperties, ElementOfSeq
  <1>2. Names(e) \in [1..Len(e) -> StepNames]
    BY <1>1 DEF Names, StepRecords
  <1>3. Names(e) \in Seq(StepNames)
    BY <1>1, <1>2, SeqDef
  <1>4. Len(Names(e)) = Len(e)
    BY <1>1, <1>2, <1>3, LenProperties
  <1> QED
    BY <1>3, <1>4 DEF Names

LEMMA ConcatOfNames ==
    ASSUME NEW m \in Seq(StepNames), NEW n \in Seq(StepNames)
    PROVE  /\ m \o n \in Seq(StepNames) /\ Len(m \o n) = Len(m) + Len(n)
           /\ \A i \in 1..Len(m) + Len(n) :
                 (m \o n)[i] = IF i <= Len(m) THEN m[i] ELSE n[i - Len(m)]
BY ConcatProperties

LEMMA NamesConcat ==
    ASSUME NEW d \in Seq(StepRecords), NEW e \in Seq(StepRecords)
    PROVE  d \o e \in Seq(StepRecords) /\ Names(d \o e) = Names(d) \o Names(e)
  <1>1. /\ d \o e \in Seq(StepRecords) /\ Len(d \o e) = Len(d) + Len(e)
        /\ \A i \in 1..Len(d) + Len(e) :
              (d \o e)[i] = IF i <= Len(d) THEN d[i] ELSE e[i - Len(d)]
    BY ConcatProperties
  <1>2. Len(d) \in Nat /\ Len(e) \in Nat
    BY LenProperties
  <1> PICK m : m = Names(d)
    OBVIOUS
  <1> PICK n : n = Names(e)
    OBVIOUS
  <1> PICK b : b = Names(d \o e)
    OBVIOUS
  <1>3. /\ m \in Seq(StepNames) /\ Len(m) = Len(d) /\ \A i \in 1..Len(d) : m[i] = d[i].name
        /\ n \in Seq(StepNames) /\ Len(n) = Len(e) /\ \A i \in 1..Len(e) : n[i] = e[i].name
    BY NamesAreASequence
  <1>4. /\ b \in Seq(StepNames) /\ Len(b) = Len(d) + Len(e)
        /\ \A i \in 1..Len(d) + Len(e) : b[i] = (d \o e)[i].name
    BY <1>1, NamesAreASequence
  <1> PICK j : j = m \o n
    OBVIOUS
  <1>5. /\ j \in Seq(StepNames) /\ Len(j) = Len(d) + Len(e)
        /\ \A i \in 1..Len(d) + Len(e) :
              j[i] = IF i <= Len(d) THEN m[i] ELSE n[i - Len(d)]
    <2>1. m \in Seq(StepNames) /\ n \in Seq(StepNames) /\ Len(m) = Len(d) /\ Len(n) = Len(e)
      BY <1>3
    <2>2. /\ m \o n \in Seq(StepNames) /\ Len(m \o n) = Len(m) + Len(n)
          /\ \A i \in 1..Len(m) + Len(n) :
                (m \o n)[i] = IF i <= Len(m) THEN m[i] ELSE n[i - Len(m)]
      BY <2>1, ConcatOfNames
    <2> QED
      BY <2>1, <2>2
  <1>6. ASSUME NEW i \in 1..Len(d) + Len(e) PROVE b[i] = j[i]
    <2>1. CASE i <= Len(d)
      <3>1. i \in 1..Len(d)
        BY <1>2, <2>1
      <3>2. b[i] = d[i].name
        BY <1>1, <1>4, <2>1
      <3>3. j[i] = m[i]
        BY <1>5, <2>1
      <3> QED
        BY <1>3, <3>1, <3>2, <3>3
    <2>2. CASE ~(i <= Len(d))
      <3>1. i - Len(d) \in 1..Len(e)
        BY <1>2, <2>2
      <3>2. b[i] = e[i - Len(d)].name
        BY <1>1, <1>4, <2>2
      <3>3. j[i] = n[i - Len(d)]
        BY <1>5, <2>2
      <3> QED
        BY <1>3, <3>1, <3>2, <3>3
    <2> QED
      BY <2>1, <2>2
  <1>7. /\ b \in Seq(StepNames) /\ j \in Seq(StepNames)
        /\ Len(b) = Len(j) /\ Len(b) = Len(d) + Len(e)
    BY <1>4, <1>5
  <1>8. b = j
    BY <1>6, <1>7, SeqEqual
  <1> QED
    BY <1>1, <1>8

LEMMA NamesOfOne ==
    ASSUME NEW a \in StepRecords
    PROVE  Names(<<a>>) = <<a.name>>
  <1> PICK e : e = <<a>>
    OBVIOUS
  <1> PICK n : n = <<a.name>>
    OBVIOUS
  <1>1. e \in Seq(StepRecords) /\ Len(e) = 1 /\ e[1] = a
    OBVIOUS
  <1>2. a.name \in StepNames
    BY DEF StepRecords
  <1>3. n \in Seq(StepNames) /\ Len(n) = 1 /\ n[1] = a.name
    BY <1>2
  <1> PICK t : t = Names(e)
    OBVIOUS
  <1>4. /\ t \in Seq(StepNames) /\ Len(t) = 1
        /\ \A i \in 1..1 : t[i] = e[i].name
    BY <1>1, NamesAreASequence
  <1>5. \A i \in 1..Len(t) : t[i] = n[i]
    BY <1>1, <1>3, <1>4
  <1>6. t = n
    BY <1>3, <1>4, <1>5, SeqEqual
  <1> QED
    BY <1>1, <1>6

LEMMA NamesOfTwo ==
    ASSUME NEW a \in StepRecords, NEW b \in StepRecords
    PROVE  <<a, b>> \in Seq(StepRecords) /\ Names(<<a, b>>) = <<a.name, b.name>>
  <1> PICK e : e = <<a, b>>
    OBVIOUS
  <1> PICK n : n = <<a.name, b.name>>
    OBVIOUS
  <1>1. e \in Seq(StepRecords) /\ Len(e) = 2 /\ e[1] = a /\ e[2] = b
    OBVIOUS
  <1>2. a.name \in StepNames /\ b.name \in StepNames
    BY DEF StepRecords
  <1>3. n \in Seq(StepNames) /\ Len(n) = 2 /\ n[1] = a.name /\ n[2] = b.name
    BY <1>2
  <1> PICK t : t = Names(e)
    OBVIOUS
  <1>4. /\ t \in Seq(StepNames) /\ Len(t) = 2
        /\ \A i \in 1..2 : t[i] = e[i].name
    BY <1>1, NamesAreASequence
  <1>5. t[1] = n[1] /\ t[2] = n[2]
    BY <1>1, <1>3, <1>4
  <1>6. \A i \in 1..Len(t) : t[i] = n[i]
    BY <1>4, <1>5
  <1>7. t = n
    BY <1>3, <1>4, <1>6, SeqEqual
  <1> QED
    BY <1>1, <1>7

LEMMA NamesOfCompleted ==
    ASSUME NEW ns \in Seq(StepNames), NEW e, e = AllCompleted(ns)
    PROVE  /\ e \in Seq(StepRecords)
           /\ Names(e) = ns
           /\ \A i \in 1..Len(e) : e[i].status = "completed"
  <1>1. Len(ns) \in Nat /\ (\A i \in 1..Len(ns) : ns[i] \in StepNames)
    BY LenProperties, ElementOfSeq
  <1>2. "completed" \in StepStatuses
    BY DEF StepStatuses
  <1>3. e \in [1..Len(ns) -> StepRecords]
    BY <1>1, <1>2 DEF AllCompleted, Step, StepRecords
  <1>4. e \in Seq(StepRecords)
    BY <1>1, <1>3, SeqDef
  <1>5. Len(e) = Len(ns)
    BY <1>1, <1>3, <1>4, LenProperties
  <1>6. \A i \in 1..Len(ns) : e[i].name = ns[i] /\ e[i].status = "completed"
    BY DEF AllCompleted, Step
  <1> PICK t : t = Names(e)
    OBVIOUS
  <1>7. /\ t \in Seq(StepNames) /\ Len(t) = Len(e)
        /\ \A i \in 1..Len(e) : t[i] = e[i].name
    BY <1>4, NamesAreASequence
  <1>8. \A i \in 1..Len(t) : t[i] = ns[i]
    BY <1>5, <1>6, <1>7
  <1>9. t = ns
    BY <1>5, <1>7, <1>8, SeqEqual
  <1> QED
    BY <1>4, <1>5, <1>6, <1>9

LEMMA ShortSequences ==
    ASSUME NEW S
    PROVE  /\ \A a \in S : <<a>> \in Seq(S)
           /\ \A a, b \in S : <<a, b>> \in Seq(S)
           /\ \A a, b, c, d \in S : <<a, b, c, d>> \in Seq(S)
           /\ \A a, b, c, d, e \in S : <<a, b, c, d, e>> \in Seq(S)
OBVIOUS

LEMMA MethodStepsAreNames == ASSUME NEW m PROVE MethodSteps(m) \in Seq(StepNames)
  <1> DEFINE opening == <<"gateway_payment_received">>
             google == <<"wallet_token_received", "gateway_token_decryption",
                         "network_token_cryptogram_validation", "internal_antifraud_screening">>
             apple == <<"apple_pay_merchant_validation", "wallet_token_received",
                        "gateway_token_decryption", "network_token_cryptogram_validation",
                        "internal_antifraud_screening">>
             card == <<"card_data_received", "gateway_card_tokenization",
                       "internal_antifraud_screening", "card_network_routing">>
  <1>1. opening \in Seq(StepNames)
    BY DEF StepNames
  <1>2. google \in Seq(StepNames)
    BY DEF StepNames
  <1>3. apple \in Seq(StepNames)
    BY DEF StepNames
  <1>4. card \in Seq(StepNames)
    BY DEF StepNames
  <1>5. \/ MethodSteps(m) = opening \o google
        \/ MethodSteps(m) = opening \o apple
        \/ MethodSteps(m) = opening \o card
    <2>1. CASE m = "google_pay"
      BY <2>1 DEF MethodSteps
    <2>2. CASE m = "apple_pay"
      BY <2>2 DEF MethodSteps
    <2>3. CASE m # "google_pay" /\ m # "apple_pay"
      BY <2>3 DEF MethodSteps
    <2> QED
      BY <2>1, <2>2, <2>3
  <1> HIDE DEF opening, google, apple, card
  <1> QED
    BY <1>1, <1>2, <1>3, <1>4, <1>5, ConcatOfNames

\* The three ways in which the gateway's steps are strung together
LEMMA OneAndTwo ==
    ASSUME NEW S, NEW a \in S, NEW b \in S, NEW c \in S
    PROVE  <<a>> \o <<b, c>> = <<a, b, c>>
  <1> PICK s : s = <<a>> \o <<b, c>>
    OBVIOUS
  <1> PICK t : t = <<a, b, c>>
    OBVIOUS
  <1>1. t \in Seq(S) /\ Len(t) = 3 /\ t[1] = a /\ t[2] = b /\ t[3] = c
    OBVIOUS
  <1>2. <<a>> \in Seq(S) /\ Len(<<a>>) = 1 /\ <<a>>[1] = a
    OBVIOUS
  <1>3. <<b, c>> \in Seq(S) /\ Len(<<b, c>>) = 2 /\ <<b, c>>[1] = b /\ <<b, c>>[2] = c
    OBVIOUS
  <1>4. /\ s \in Seq(S) /\ Len(s) = 3
        /\ \A i \in 1..3 : s[i] = IF i <= 1 THEN <<a>>[i] ELSE <<b, c>>[i - 1]
    BY <1>2, <1>3, ConcatProperties
  <1>5. s[1] = a /\ s[2] = b /\ s[3] = c
    BY <1>2, <1>3, <1>4
  <1>6. \A i \in 1..Len(s) : s[i] = t[i]
    BY <1>1, <1>4, <1>5
  <1> QED
    BY <1>1, <1>4, <1>6, SeqEqual

LEMMA ThreeAndTwo ==
    ASSUME NEW S, NEW a \in S, NEW b \in S, NEW c \in S, NEW d \in S, NEW e \in S
    PROVE  <<a, b, c>> \o <<d, e>> = <<a, b, c, d, e>>
  <1> PICK s : s = <<a, b, c>> \o <<d, e>>
    OBVIOUS
  <1> PICK t : t = <<a, b, c, d, e>>
    OBVIOUS
  <1> PICK u : u = <<a, b, c>>
    OBVIOUS
  <1> PICK v : v = <<d, e>>
    OBVIOUS
  <1>1. /\ t \in Seq(S) /\ Len(t) = 5
        /\ t[1] = a /\ t[2] = b /\ t[3] = c /\ t[4] = d /\ t[5] = e
    OBVIOUS
  <1>2. u \in Seq(S) /\ Len(u) = 3 /\ u[1] = a /\ u[2] = b /\ u[3] = c
    OBVIOUS
  <1>3. v \in Seq(S) /\ Len(v) = 2 /\ v[1] = d /\ v[2] = e
    OBVIOUS
  <1>4. /\ s \in Seq(S) /\ Len(s) = 5
        /\ \A i \in 1..5 : s[i] = IF i <= 3 THEN u[i] ELSE v[i - 3]
    BY <1>2, <1>3, ConcatProperties
  <1>5. s[1] = a /\ s[2] = b /\ s[3] = c /\ s[4] = d /\ s[5] = e
    BY <1>2, <1>3, <1>4
  <1>6. \A i \in 1..Len(s) : s[i] = t[i]
    BY <1>1, <1>4, <1>5
  <1> QED
    BY <1>1, <1>4, <1>6, SeqEqual

LEMMA FiveAndOne ==
    ASSUME NEW S, NEW a \in S, NEW b \in S, NEW c \in S, NEW d \in S, NEW e \in S, NEW f \in S
    PROVE  <<a, b, c, d, e>> \o <<f>> = <<a, b, c, d, e, f>>
  <1> PICK s : s = <<a, b, c, d, e>> \o <<f>>
    OBVIOUS
  <1> PICK t : t = <<a, b, c, d, e, f>>
    OBVIOUS
  <1> PICK u : u = <<a, b, c, d, e>>
    OBVIOUS
  <1> PICK v : v = <<f>>
    OBVIOUS
  <1>1. /\ t \in Seq(S) /\ Len(t) = 6
        /\ t[1] = a /\ t[2] = b /\ t[3] = c /\ t[4] = d /\ t[5] = e /\ t[6] = f
    OBVIOUS
  <1>2. u \in Seq(S) /\ Len(u) = 5 /\ u[1] = a /\ u[2] = b /\ u[3] = c /\ u[4] = d /\ u[5] = e
    OBVIOUS
  <1>3. v \in Seq(S) /\ Len(v) = 1 /\ v[1] = f
    OBVIOUS
  <1>4. /\ s \in Seq(S) /\ Len(s) = 6
        /\ \A i \in 1..6 : s[i] = IF i <= 5 THEN u[i] ELSE v[i - 5]
    BY <1>2, <1>3, ConcatProperties
  <1>5. s[1] = a /\ s[2] = b /\ s[3] = c /\ s[4] = d /\ s[5] = e /\ s[6] = f
    BY <1>2, <1>3, <1>4
  <1>6. \A i \in 1..Len(s) : s[i] = t[i]
    BY <1>1, <1>4, <1>5
  <1> QED
    BY <1>1, <1>4, <1>6, SeqEqual

\* What the gateway has announced when a request to the Java server is due, and
\* when the merges are
ToVerify == <<"verification_antifraud_request">>
ToProcess == <<"verification_antifraud_request", "verification_antifraud_response",
               "processor_authorization_request">>
ToDecide == <<"verification_antifraud_request", "verification_antifraud_response",
              "processor_authorization_request", "processor_authorization_response",
              "network_authorization_routing">>

LEMMA Announcements ==
    ASSUME NEW m
    PROVE  /\ Append(MethodSteps(m), "verification_antifraud_request")
                 = MethodSteps(m) \o ToVerify
           /\ MethodSteps(m) \o ToVerify \in Seq(StepNames)
           /\ (MethodSteps(m) \o ToVerify)
                 \o <<"verification_antifraud_response", "processor_authorization_request">>
                 = MethodSteps(m) \o ToProcess
           /\ (MethodSteps(m) \o ToProcess)
                 \o <<"processor_authorization_response", "network_authorization_routing">>
                 = MethodSteps(m) \o ToDecide
           /\ (MethodSteps(m) \o ToDecide) \o <<"merchant_authorization_result">>
                 = Capabilities(m)
  <1> DEFINE a == "verification_antifraud_request"
             b == "verification_antifraud_response"
             c == "processor_authorization_request"
             d == "processor_authorization_response"
             e == "network_authorization_routing"
             f == "merchant_authorization_result"
             s == MethodSteps(m)
  <1>1. /\ a \in StepNames /\ b \in StepNames /\ c \in StepNames
        /\ d \in StepNames /\ e \in StepNames /\ f \in StepNames
    BY DEF StepNames
  <1>2. s \in Seq(StepNames)
    BY MethodStepsAreNames
  <1>3. /\ ToVerify = <<a>> /\ ToProcess = <<a, b, c>> /\ ToDecide = <<a, b, c, d, e>>
        /\ Capabilities(m) = s \o <<a, b, c, d, e, f>>
    BY DEF ToVerify, ToProcess, ToDecide, Capabilities
  <1> HIDE DEF a, b, c, d, e, f, s
  <1>4. /\ <<a>> \in Seq(StepNames) /\ <<b, c>> \in Seq(StepNames)
        /\ <<d, e>> \in Seq(StepNames) /\ <<f>> \in Seq(StepNames)
    BY <1>1, ShortSequences
  <1>5. <<a, b, c>> \in Seq(StepNames) /\ <<a, b, c, d, e>> \in Seq(StepNames)
    BY <1>1
  <1>6. Append(s, a) = s \o <<a>> /\ s \o <<a>> \in Seq(StepNames)
    <2>1. Append(s, a) = s \o <<a>>
      BY <1>1, <1>2, AppendIsConcat
    <2>2. s \o <<a>> \in Seq(StepNames)
      BY <1>2, <1>4, ConcatOfNames
    <2> QED
      BY <2>1, <2>2
  <1>7. (s \o <<a>>) \o <<b, c>> = s \o <<a, b, c>>
    <2>1. (s \o <<a>>) \o <<b, c>> = s \o (<<a>> \o <<b, c>>)
      BY <1>2, <1>4, ConcatAssociative
    <2>2. <<a>> \o <<b, c>> = <<a, b, c>>
      BY <1>1, OneAndTwo
    <2> QED
      BY <2>1, <2>2
  <1>8. (s \o <<a, b, c>>) \o <<d, e>> = s \o <<a, b, c, d, e>>
    <2>1. (s \o <<a, b, c>>) \o <<d, e>> = s \o (<<a, b, c>> \o <<d, e>>)
      BY <1>2, <1>4, <1>5, ConcatAssociative
    <2>2. <<a, b, c>> \o <<d, e>> = <<a, b, c, d, e>>
      BY <1>1, ThreeAndTwo
    <2> QED
      BY <2>1, <2>2
  <1>9. (s \o <<a, b, c, d, e>>) \o <<f>> = s \o <<a, b, c, d, e, f>>
    <2>1. (s \o <<a, b, c, d, e>>) \o <<f>> = s \o (<<a, b, c, d, e>> \o <<f>>)
      BY <1>2, <1>4, <1>5, ConcatAssociative
    <2>2. <<a, b, c, d, e>> \o <<f>> = <<a, b, c, d, e, f>>
      BY <1>1, FiveAndOne
    <2> QED
      BY <2>1, <2>2
  <1> QED
    BY <1>3, <1>6, <1>7, <1>8, <1>9 DEF a, b, c, d, e, f, s

Declined(v) == v # NoOpinion /\ v.decision = "declined"

\* Only a verification that declined has left a trace of a refusal, and it has.
Blameless ==
    payPc # "answered" =>
       \A i \in 1..Len(emitted) : emitted[i].status \in {"declined", "timeout"} => Declined(verified)
DeclineIsTold ==
    Declined(verified) =>
       \E i \in 1..Len(emitted) : emitted[i] = Step("verification_antifraud_response", "declined")

\* The announcements so far
Announced ==
    /\ payPc = "verify" => Names(emitted) = MethodSteps(context.method) \o ToVerify
    /\ payPc = "process" => Names(emitted) = MethodSteps(context.method) \o ToProcess
    /\ payPc = "decide" => Names(emitted) = MethodSteps(context.method) \o ToDecide

PayIInv ==
    /\ payRow # NoOpinion => payPc = "answered"
    /\ payPc \in {"start", "verify"} => verified = NoOpinion
    /\ payPc = "start" => emitted = <<>>
    /\ VerificationOK(verified) /\ ProcessingOK(processed)
    /\ emitted \in Seq(StepRecords)
    /\ Blameless /\ DeclineIsTold /\ Announced
    /\ DecisionStands

\* What the merges say is what DecisionStands asks of the row.
LEMMA RowIsExplained ==
    ASSUME OpinionOK(payRow), ByAll(Local(payInput), context, verified, processed, payRow)
    PROVE  NobodyObjected /\ Explained
  <1> PICK l : l = Local(payInput)
    OBVIOUS
  <1>1. ByAll(l, context, verified, processed, payRow)
    OBVIOUS
  <1>2. NobodyObjected
    BY <1>1 DEF NobodyObjected, ByAll
  <1>3. (payRow.code = "") = (payRow.status = "authorized")
    BY DEF OpinionOK
  <1>4. Explained
    BY <1>1, <1>3 DEF Explained, ByAll
  <1> QED
    BY <1>2, <1>4

LEMMA PayInitOK == PayInit => PayIInv
  <1> SUFFICES ASSUME PayInit PROVE PayIInv
    OBVIOUS
  <1>1. emitted \in Seq(StepRecords) /\ Len(emitted) = 0
    BY EmptySeq DEF PayInit
  <1>2. VerificationOK(verified) /\ ProcessingOK(processed) /\ ~Declined(verified)
    BY DEF PayInit, VerificationOK, ProcessingOK, AnswerOK, Declined
  <1>3. Blameless /\ DeclineIsTold /\ Announced
    BY <1>1, <1>2 DEF Blameless, DeclineIsTold, Announced, PayInit
  <1>4. DecisionStands
    BY DEF DecisionStands, NobodyObjected, Explained, Recorded, PayInit
  <1> QED
    BY <1>1, <1>2, <1>3, <1>4 DEF PayIInv, PayInit

\* A step that leaves the row alone leaves it unwritten.
LEMMA NoRowYet == payRow = NoOpinion => DecisionStands
BY DEF DecisionStands, NobodyObjected, Explained, Recorded

LEMMA BeginStepOK == PayIInv /\ Begin => PayIInv'
  <1> SUFFICES ASSUME PayIInv, Begin PROVE PayIInv'
    OBVIOUS
  <1>1. /\ payPc = "start" /\ payPc' = "verify" /\ payRow = NoOpinion /\ payRow' = NoOpinion
        /\ verified = NoOpinion /\ verified' = NoOpinion /\ processed' = processed
    BY DEF Begin, PayIInv
  <1>2. PICK d \in Details :
           /\ context'.method = d.method
           /\ emitted' = AllCompleted(Append(MethodSteps(d.method),
                                             "verification_antifraud_request"))
    BY DEF Begin
  <1> PICK ns : ns = MethodSteps(d.method) \o ToVerify
    OBVIOUS
  <1>3. ns \in Seq(StepNames) /\ emitted' = AllCompleted(ns)
    BY <1>2, Announcements
  <1>4. /\ emitted' \in Seq(StepRecords) /\ Names(emitted') = ns
        /\ \A i \in 1..Len(emitted') : emitted'[i].status = "completed"
    BY <1>3, NamesOfCompleted
  <1>5. Blameless' /\ DeclineIsTold'
    BY <1>1, <1>4 DEF Blameless, DeclineIsTold, Declined
  <1>6. Announced'
    BY <1>1, <1>2, <1>4 DEF Announced, Names
  <1>7. DecisionStands'
    BY <1>1 DEF DecisionStands, NobodyObjected, Explained, Recorded
  <1>8. VerificationOK(verified') /\ ProcessingOK(processed')
    BY <1>1 DEF PayIInv
  <1> QED
    BY <1>1, <1>4, <1>5, <1>6, <1>7, <1>8 DEF PayIInv

\* Two more steps, told after the ones so far
Continues(f, e, a, b) ==
    /\ f \in Seq(StepRecords)
    /\ Names(f) = Names(e) \o <<a.name, b.name>>
    /\ Len(e) \in Nat /\ Len(f) = Len(e) + 2
    /\ \A i \in 1..Len(e) : f[i] = e[i]
    /\ f[Len(e) + 1] = a /\ f[Len(e) + 2] = b

LEMMA TwoMoreSteps ==
    ASSUME NEW e \in Seq(StepRecords), NEW a \in StepRecords, NEW b \in StepRecords,
           NEW f, f = e \o <<a, b>>
    PROVE  Continues(f, e, a, b)
  <1> PICK t : t = <<a, b>>
    OBVIOUS
  <1>1. t \in Seq(StepRecords) /\ Names(t) = <<a.name, b.name>>
    BY NamesOfTwo
  <1>2. Len(t) = 2 /\ t[1] = a /\ t[2] = b
    OBVIOUS
  <1>3. f \in Seq(StepRecords) /\ Names(f) = Names(e) \o Names(t)
    BY <1>1, NamesConcat
  <1>4. Len(e) \in Nat
    BY LenProperties
  <1>5. /\ Len(f) = Len(e) + 2
        /\ \A i \in 1..Len(e) + 2 : f[i] = IF i <= Len(e) THEN e[i] ELSE t[i - Len(e)]
    BY <1>1, <1>2, ConcatProperties
  <1>6. \A i \in 1..Len(e) : f[i] = e[i]
    BY <1>4, <1>5
  <1>7. f[Len(e) + 1] = a /\ f[Len(e) + 2] = b
    BY <1>2, <1>4, <1>5
  <1> QED
    BY <1>1, <1>3, <1>4, <1>5, <1>6, <1>7 DEF Continues

LEMMA VerifyStepOK == PayIInv /\ Verify => PayIInv'
  <1> SUFFICES ASSUME PayIInv, Verify PROVE PayIInv'
    OBVIOUS
  <1>1. /\ payPc = "verify" /\ payPc' = "process" /\ payRow = NoOpinion /\ payRow' = NoOpinion
        /\ verified = NoOpinion /\ processed' = processed /\ context' = context
    BY DEF Verify, PayIInv
  <1>2. PICK status \in {"completed", "declined", "review"} \cup Outages :
           /\ IF status \in Outages THEN verified' = NoOpinion
              ELSE \E issue \in BOOLEAN :
                      /\ verified' = Verification(payInput, context, issue)
                      /\ status = IF verified'.decision = "approved" THEN "completed"
                                  ELSE verified'.decision
           /\ emitted' = emitted \o <<Step("verification_antifraud_response", status),
                                      Step("processor_authorization_request", "completed")>>
    BY DEF Verify
  <1> PICK a : a = Step("verification_antifraud_response", status)
    OBVIOUS
  <1> PICK b : b = Step("processor_authorization_request", "completed")
    OBVIOUS
  <1>3. /\ a \in StepRecords /\ a.status = status /\ a.name = "verification_antifraud_response"
        /\ b \in StepRecords /\ b.status = "completed"
        /\ b.name = "processor_authorization_request"
    BY DEF Step, StepRecords, StepNames, StepStatuses
  <1>4. emitted \in Seq(StepRecords) /\ emitted' = emitted \o <<a, b>>
    BY <1>2 DEF PayIInv
  <1>5. /\ emitted' \in Seq(StepRecords)
        /\ Names(emitted') = Names(emitted) \o <<a.name, b.name>>
        /\ Len(emitted) \in Nat /\ Len(emitted') = Len(emitted) + 2
        /\ \A i \in 1..Len(emitted) : emitted'[i] = emitted[i]
        /\ emitted'[Len(emitted) + 1] = a /\ emitted'[Len(emitted) + 2] = b
    <2> PICK e : e = emitted
      OBVIOUS
    <2> PICK f : f = emitted'
      OBVIOUS
    <2>1. e \in Seq(StepRecords) /\ f = e \o <<a, b>> /\ a \in StepRecords /\ b \in StepRecords
      BY <1>3, <1>4
    <2>2. Continues(f, e, a, b)
      BY <2>1, TwoMoreSteps
    <2> QED
      BY <2>2 DEF Continues
  <1>6. /\ VerificationOK(verified')
        /\ status \in {"declined", "timeout"} <=> Declined(verified')
        /\ status = "declined" <=> Declined(verified')
    <2>1. CASE status \in Outages
      BY <1>2, <2>1 DEF VerificationOK, AnswerOK, Declined, Outages
    <2>2. CASE status \notin Outages
      <3>1. PICK issue \in BOOLEAN : verified' = Verification(payInput, context, issue)
        BY <1>2, <2>2
      <3>2. status = IF verified'.decision = "approved" THEN "completed"
                     ELSE verified'.decision
        BY <1>2, <2>2
      <3>3. /\ verified'.decision \in {"approved", "declined", "review"}
            /\ verified' # NoOpinion /\ AnswerOK(verified')
        BY <3>1, VerificationSays
      <3> QED
        BY <3>2, <3>3 DEF VerificationOK, Declined
    <2> QED
      BY <2>1, <2>2
  <1>7. Blameless'
    <2> SUFFICES ASSUME NEW i \in 1..Len(emitted'), emitted'[i].status \in {"declined", "timeout"}
                 PROVE  Declined(verified')
      BY DEF Blameless, Declined
    <2>1. ~Declined(verified)
      BY <1>1 DEF Declined
    <2>2. \A j \in 1..Len(emitted) : emitted'[j].status \notin {"declined", "timeout"}
      BY <1>1, <1>5, <2>1 DEF PayIInv, Blameless
    <2>3. i \in 1..Len(emitted) \/ i = Len(emitted) + 1 \/ i = Len(emitted) + 2
      BY <1>5
    <2> QED
      BY <1>3, <1>5, <1>6, <2>2, <2>3
  <1>8. DeclineIsTold'
    <2> SUFFICES ASSUME Declined(verified')
                 PROVE  \E i \in 1..Len(emitted') :
                           emitted'[i] = Step("verification_antifraud_response", "declined")
      BY DEF DeclineIsTold, Declined, Step
    <2>1. a = Step("verification_antifraud_response", "declined")
      BY <1>6
    <2>2. Len(emitted) + 1 \in 1..Len(emitted')
      BY <1>5
    <2> QED
      BY <1>5, <2>1, <2>2
  <1>9. Announced'
    <2>1. Names(emitted) = MethodSteps(context.method) \o ToVerify
      BY <1>1 DEF PayIInv, Announced
    <2>2. Names(emitted') = MethodSteps(context.method) \o ToProcess
      BY <1>3, <1>5, <2>1, Announcements
    <2> QED
      BY <1>1, <2>2 DEF Announced, Names
  <1>10. DecisionStands'
    BY <1>1 DEF DecisionStands, NobodyObjected, Explained, Recorded
  <1>11. ProcessingOK(processed')
    BY <1>1 DEF PayIInv
  <1> QED
    BY <1>1, <1>5, <1>6, <1>7, <1>8, <1>9, <1>10, <1>11 DEF PayIInv

LEMMA ProcessStepOK == PayIInv /\ Process => PayIInv'
  <1> SUFFICES ASSUME PayIInv, Process PROVE PayIInv'
    OBVIOUS
  <1>1. /\ payPc = "process" /\ payPc' = "decide" /\ payRow = NoOpinion /\ payRow' = NoOpinion
        /\ verified' = verified /\ context' = context
    BY DEF Process, PayIInv
  <1>2. PICK status \in {"completed"} \cup Outages :
           /\ processed' = IF status = "completed" THEN Processing(payInput) ELSE NoOpinion
           /\ emitted' = emitted \o <<Step("processor_authorization_response", status),
                                      Step("network_authorization_routing", "completed")>>
    BY DEF Process
  <1> PICK a : a = Step("processor_authorization_response", status)
    OBVIOUS
  <1> PICK b : b = Step("network_authorization_routing", "completed")
    OBVIOUS
  <1>3. /\ a \in StepRecords /\ a.status = status /\ a.name = "processor_authorization_response"
        /\ b \in StepRecords /\ b.status = "completed"
        /\ b.name = "network_authorization_routing"
    BY DEF Step, StepRecords, StepNames, StepStatuses
  <1>4. emitted \in Seq(StepRecords) /\ emitted' = emitted \o <<a, b>>
    BY <1>2 DEF PayIInv
  <1>5. /\ emitted' \in Seq(StepRecords)
        /\ Names(emitted') = Names(emitted) \o <<a.name, b.name>>
        /\ Len(emitted) \in Nat /\ Len(emitted') = Len(emitted) + 2
        /\ \A i \in 1..Len(emitted) : emitted'[i] = emitted[i]
        /\ emitted'[Len(emitted) + 1] = a /\ emitted'[Len(emitted) + 2] = b
    <2> PICK e : e = emitted
      OBVIOUS
    <2> PICK f : f = emitted'
      OBVIOUS
    <2>1. e \in Seq(StepRecords) /\ f = e \o <<a, b>> /\ a \in StepRecords /\ b \in StepRecords
      BY <1>3, <1>4
    <2>2. Continues(f, e, a, b)
      BY <2>1, TwoMoreSteps
    <2> QED
      BY <2>2 DEF Continues
  <1>6. ProcessingOK(processed')
    <2>1. CASE status = "completed"
      BY <1>2, <2>1, ProcessingSays DEF ProcessingOK
    <2>2. CASE status # "completed"
      BY <1>2, <2>2 DEF ProcessingOK, AnswerOK
    <2> QED
      BY <2>1, <2>2
  <1>7. status \notin {"declined", "timeout"}
    BY DEF Outages
  <1>8. Blameless'
    <2> SUFFICES ASSUME NEW i \in 1..Len(emitted'), emitted'[i].status \in {"declined", "timeout"}
                 PROVE  Declined(verified')
      BY DEF Blameless, Declined
    <2>1. i \in 1..Len(emitted) \/ i = Len(emitted) + 1 \/ i = Len(emitted) + 2
      BY <1>5
    <2>2. emitted[i].status \in {"declined", "timeout"} /\ i \in 1..Len(emitted)
      BY <1>3, <1>5, <1>7, <2>1
    <2> QED
      BY <1>1, <2>2 DEF PayIInv, Blameless
  <1>9. DeclineIsTold'
    <2> SUFFICES ASSUME Declined(verified)
                 PROVE  \E i \in 1..Len(emitted') :
                           emitted'[i] = Step("verification_antifraud_response", "declined")
      BY <1>1 DEF DeclineIsTold, Declined, Step
    <2>1. PICK i \in 1..Len(emitted) :
             emitted[i] = Step("verification_antifraud_response", "declined")
      BY DEF PayIInv, DeclineIsTold
    <2>2. i \in 1..Len(emitted')
      BY <1>5
    <2> QED
      BY <1>5, <2>1, <2>2
  <1>10. Announced'
    <2>1. Names(emitted) = MethodSteps(context.method) \o ToProcess
      BY <1>1 DEF PayIInv, Announced
    <2>2. Names(emitted') = MethodSteps(context.method) \o ToDecide
      BY <1>3, <1>5, <2>1, Announcements
    <2> QED
      BY <1>1, <2>2 DEF Announced, Names
  <1>11. DecisionStands'
    BY <1>1 DEF DecisionStands, NobodyObjected, Explained, Recorded
  <1>12. VerificationOK(verified')
    BY <1>1 DEF PayIInv
  <1> QED
    BY <1>1, <1>5, <1>6, <1>8, <1>9, <1>10, <1>11, <1>12 DEF PayIInv

LEMMA DecideStepOK == PayIInv /\ Decide => PayIInv'
  <1> SUFFICES ASSUME PayIInv, Decide PROVE PayIInv'
    OBVIOUS
  <1>1. /\ payPc = "decide" /\ payPc' = "answered"
        /\ verified' = verified /\ processed' = processed /\ context' = context
        /\ payInput' = payInput
    BY DEF Decide
  <1>2. VerificationOK(verified) /\ ProcessingOK(processed)
    BY DEF PayIInv
  <1>3. OpinionOK(payRow')
        /\ ByAll(Local(payInput), context, verified, processed, payRow')
    <2> PICK l : l = Local(payInput)
      OBVIOUS
    <2> PICK row : row = payRow'
      OBVIOUS
    <2>1. row = Merged(payInput, context, verified, processed)
      BY DEF Decide
    <2>2. OpinionOK(row) /\ ByAll(l, context, verified, processed, row)
      BY <1>2, <2>1, MergedSays
    <2> QED
      BY <2>2
  <1>4. NobodyObjected' /\ Explained'
    BY <1>1, <1>3 DEF NobodyObjected, Explained, ByAll, OpinionOK
  <1> PICK a : a = FinalStep(payRow'.status)
    OBVIOUS
  <1>5. /\ a \in StepRecords /\ a.name = "merchant_authorization_result"
        /\ a.status = (IF payRow'.status = "authorized" THEN "completed" ELSE payRow'.status)
        /\ payRow'.status \in Statuses
    BY <1>3 DEF FinalStep, Step, StepRecords, StepNames, StepStatuses, OpinionOK, Statuses
  <1>6. emitted \in Seq(StepRecords) /\ emitted' = Append(emitted, a)
    BY DEF PayIInv, Decide
  <1>7. /\ emitted' \in Seq(StepRecords)
        /\ Len(emitted) \in Nat /\ Len(emitted') = Len(emitted) + 1
        /\ \A i \in 1..Len(emitted) : emitted'[i] = emitted[i]
        /\ emitted'[Len(emitted) + 1] = a
    <2>1. a \in StepRecords
      BY <1>5
    <2>2. Len(emitted) \in Nat
      BY <1>6, LenProperties
    <2> QED
      BY <1>6, <2>1, <2>2, AppendProperties
  <1>8. Names(emitted') = Capabilities(context.method)
    <2> PICK t : t = <<a>>
      OBVIOUS
    <2>1. t \in Seq(StepRecords) /\ Len(t) = 1 /\ t[1] = a
      BY <1>5
    <2>2. emitted' = emitted \o t
      <3>1. a \in StepRecords
        BY <1>5
      <3> QED
        BY <1>6, <3>1, AppendIsConcat
    <2>3. Names(emitted \o t) = Names(emitted) \o Names(t)
      BY <1>6, <2>1, NamesConcat
    <2>4. Names(t) = <<"merchant_authorization_result">>
      BY <1>5, NamesOfOne
    <2>5. Names(emitted) = MethodSteps(context.method) \o ToDecide
      BY <1>1 DEF PayIInv, Announced
    <2> QED
      BY <2>2, <2>3, <2>4, <2>5, Announcements
  <1>9. Recorded'
    <2>1. [i \in 1..Len(emitted') |-> emitted'[i].name] = Capabilities(context'.method)
      BY <1>1, <1>8 DEF Names
    <2>2. emitted'[Len(emitted')].status = "completed" <=> payRow'.status = "authorized"
      BY <1>5, <1>7 DEF Statuses
    <2>3. ASSUME payRow'.status = "authorized", NEW i \in 1..Len(emitted')
          PROVE  emitted'[i].status \notin {"declined", "timeout"}
      <3>1. ~Declined(verified)
        BY <1>3, <2>3 DEF ByAll, Declined
      <3>2. \A j \in 1..Len(emitted) : emitted[j].status \notin {"declined", "timeout"}
        BY <1>1, <3>1 DEF PayIInv, Blameless
      <3>3. i \in 1..Len(emitted) \/ i = Len(emitted) + 1
        BY <1>7
      <3> QED
        BY <1>5, <1>7, <2>3, <3>2, <3>3
    <2>4. ASSUME Declined(verified)
          PROVE  \E i \in 1..Len(emitted') :
                    emitted'[i] = Step("verification_antifraud_response", "declined")
      <3>1. PICK i \in 1..Len(emitted) :
               emitted[i] = Step("verification_antifraud_response", "declined")
        BY <2>4 DEF PayIInv, DeclineIsTold
      <3>2. i \in 1..Len(emitted') /\ emitted'[i] = emitted[i]
        BY <1>7
      <3> QED
        BY <3>1, <3>2
    <2>5. payRow'.source = "java-antifraud-verification-app" => Declined(verified)
      BY <1>3 DEF ByAll, Declined
    <2> QED
      BY <2>1, <2>2, <2>3, <2>4, <2>5 DEF Recorded, Step
  <1>10. Blameless' /\ Announced'
    BY <1>1 DEF Blameless, Announced
  <1>11. DeclineIsTold'
    <2> SUFFICES ASSUME Declined(verified)
                 PROVE  \E i \in 1..Len(emitted') :
                           emitted'[i] = Step("verification_antifraud_response", "declined")
      BY <1>1 DEF DeclineIsTold, Declined, Step
    <2>1. PICK i \in 1..Len(emitted) :
             emitted[i] = Step("verification_antifraud_response", "declined")
      BY DEF PayIInv, DeclineIsTold
    <2>2. i \in 1..Len(emitted') /\ emitted'[i] = emitted[i]
      BY <1>7
    <2> QED
      BY <2>1, <2>2
  <1> QED
    BY <1>1, <1>2, <1>4, <1>7, <1>9, <1>10, <1>11 DEF PayIInv, DecisionStands

\* The other steps say nothing new.
LEMMA QuietStepOK ==
    PayIInv /\ (Skip \/ Raise \/ UNCHANGED payVars) => PayIInv'
  <1> SUFFICES ASSUME PayIInv, Skip \/ Raise \/ UNCHANGED payVars PROVE PayIInv'
    OBVIOUS
  <1>1. UNCHANGED <<payInput, context, verified, processed, payRow, emitted>>
    BY DEF Skip, Raise, payVars
  <1>2. payPc' = payPc \/ (payPc' \in {"skipped", "raised"} /\ payPc # "answered")
    BY DEF Skip, Raise, payVars
  <1>3. DecisionStands'
    BY <1>1 DEF PayIInv, DecisionStands, NobodyObjected, Explained, Recorded
  <1>4. Blameless' /\ DeclineIsTold'
    BY <1>1, <1>2 DEF PayIInv, Blameless, DeclineIsTold, Declined
  <1>5. Announced'
    BY <1>1, <1>2 DEF PayIInv, Announced, Names
  <1>6. VerificationOK(verified') /\ ProcessingOK(processed')
    BY <1>1 DEF PayIInv
  <1> QED
    BY <1>1, <1>2, <1>3, <1>4, <1>5, <1>6 DEF PayIInv

LEMMA PayStepOK == PayIInv /\ [PayNext]_payVars => PayIInv'
BY BeginStepOK, VerifyStepOK, ProcessStepOK, DecideStepOK, QuietStepOK DEF PayNext

\* What was decided of a payment stands: no later opinion overturns a refusal,
\* the row explains itself, and the stored events tell the same story - for all
\* amounts, hashes and modes (authorize_simulated_payment and the merges).
THEOREM RefusalsStand == PaySpec => []DecisionStands
  <1>1. PayInit => PayIInv
    BY PayInitOK
  <1>2. PayIInv /\ [PayNext]_payVars => PayIInv'
    BY PayStepOK
  <1>3. PayIInv => DecisionStands
    BY DEF PayIInv
  <1> QED
    BY <1>1, <1>2, <1>3, PTL DEF PaySpec

\* The reasons there are for a score
Reasons == DOMAIN Weight

LEMMA ReasonsAreFinite == IsFiniteSet(Reasons)
  <1> DEFINE a == {"invalid_luhn", "expired_card", "invalid_cvv"}
             b == {"missing_wallet_token", "unsupported_card_network",
                   "unsupported_wallet_network"}
             c == {"missing_expiry", "legacy_no_card_details", "issuer_decline_test_card"}
  <1>1. ASSUME NEW x, NEW y, NEW z
        PROVE  IsFiniteSet({x, y, z})
    <2>1. IsFiniteSet({}) /\ {z} = {} \cup {z} /\ {y, z} = {z} \cup {y}
          /\ {x, y, z} = {y, z} \cup {x}
      BY FS_EmptySet
    <2>2. IsFiniteSet({z})
      BY <2>1, FS_AddElement
    <2>3. IsFiniteSet({y, z})
      BY <2>1, <2>2, FS_AddElement
    <2>4. QED
      BY <2>1, <2>3, FS_AddElement
  <1>2. IsFiniteSet(a) /\ IsFiniteSet(b) /\ IsFiniteSet(c)
    BY <1>1
  <1>3. Reasons = (a \cup b) \cup c
    BY DEF Reasons, Weight
  <1> HIDE DEF a, b, c
  <1>4. IsFiniteSet(a \cup b)
    BY <1>2, FS_Union
  <1>5. QED
    BY <1>2, <1>3, <1>4, FS_Union

LEMMA ReasonsAreKnown == ASSUME NEW d \in Details PROVE ReasonsOf(d) \subseteq Reasons
  <1>1. Reasons = {"invalid_luhn", "expired_card", "invalid_cvv", "missing_wallet_token",
                   "unsupported_card_network", "unsupported_wallet_network",
                   "missing_expiry", "legacy_no_card_details", "issuer_decline_test_card"}
    BY DEF Reasons, Weight
  <1>2. CASE d.method = "card"
    BY <1>1, <1>2 DEF ReasonsOf, Fulfilled
  <1>3. CASE d.method \in WalletMethods
    BY <1>1, <1>3 DEF ReasonsOf, Fulfilled, WalletMethods
  <1>4. CASE d.method = "transfer"
    BY <1>4 DEF ReasonsOf, WalletMethods
  <1>5. QED
    BY <1>2, <1>3, <1>4 DEF Details, Cards, Wallets

\* What reasons add up to is a number.
LEMMA ScoreIsANumber ==
    ASSUME NEW w, \A r \in Reasons : w[r] \in Nat, NEW R, R \subseteq Reasons
    PROVE  Score(w, R) \in Nat
  <1>1. IsFiniteSet(R)
    BY ReasonsAreFinite, FS_Subset
  <1>2. SumFunctionOnSet(w, R) \in Nat
    BY <1>1, SumBounds
  <1>3. Score(w, R) = SumFunctionOnSet(w, R)
    BY DEF Score, MapThenSumSet, SumFunctionOnSet, FoldFunctionOnSet, MapThenFoldSet
  <1>4. QED
    BY <1>2, <1>3

LEMMA WeightsAreNumbers ==
    /\ \A r \in Reasons : Weight[r] \in Nat
    /\ \A r \in Reasons : JavaWeight[r] \in Nat
BY DEF Reasons, Weight, JavaWeight

\* A risk is at most 99 percent.
Percent == 0..99

LEMMA Capped == ASSUME NEW n \in Nat PROVE AtMost(n, 99) \in Percent
BY DEF AtMost, Percent

LEMMA Floored ==
    ASSUME NEW n \in Percent, NEW m \in Percent
    PROVE  AtLeast(n, m) \in Percent
BY DEF AtLeast, Percent

\* The parts of a score that come from the input
LEMMA InputIsNumbers ==
    ASSUME NEW input \in PayInputs
    PROVE  input.amount \in Nat /\ input.domain \in Nat /\ input.entropy \in Nat
  <1>1. input.amount \in Amounts /\ input.domain \in {2, 8} /\ input.entropy \in Entropies
    BY DEF PayInputs
  <1>2. input.amount \in Nat /\ input.entropy \in Nat
    BY <1>1, PaymentDecisionAssumption
  <1>3. input.domain \in Nat
    BY <1>1
  <1>4. QED
    BY <1>2, <1>3

LEMMA PartsOfAmount ==
    ASSUME NEW input \in PayInputs
    PROVE  /\ AtMost(input.amount \div 100000, 55) \in Nat
           /\ AtMost(input.amount \div 150000, 45) \in Nat
           /\ AtMost(input.amount \div 200000, 45) \in Nat
  <1>1. ASSUME NEW n \in Nat
        PROVE  AtMost(n, 45) \in Nat /\ AtMost(n, 55) \in Nat
    BY DEF AtMost
  <1>2. ASSUME NEW n \in Nat
        PROVE  n \div 100000 \in Nat /\ n \div 150000 \in Nat /\ n \div 200000 \in Nat
    OBVIOUS
  <1>3. input.amount \in Nat
    BY InputIsNumbers
  <1>4. /\ input.amount \div 100000 \in Nat
        /\ input.amount \div 150000 \in Nat
        /\ input.amount \div 200000 \in Nat
    BY <1>2, <1>3
  <1>5. QED
    BY <1>1, <1>4

LEMMA ContextRiskOK ==
    ASSUME NEW input \in PayInputs, NEW d \in Details
    PROVE  ContextRisk(input, d) \in Percent
  <1> DEFINE amount == AtMost(input.amount \div 200000, 45)
             score == Score(Weight, ReasonsOf(d))
             postal == IF d.method = "card" /\ d.postalOdd THEN 15 ELSE 0
  <1>1. amount \in Nat
    BY InputIsNumbers, PartsOfAmount
  <1>2. score \in Nat
    BY ReasonsAreKnown, WeightsAreNumbers, ScoreIsANumber
  <1>3. postal \in Nat /\ input.domain \in Nat
    BY InputIsNumbers
  <1>4. ContextRisk(input, d) = AtMost(amount + input.domain + score + postal, 99)
    BY DEF ContextRisk
  <1> HIDE DEF amount, score, postal
  <1>5. amount + input.domain + score + postal \in Nat
    BY <1>1, <1>2, <1>3
  <1>6. QED
    BY <1>4, <1>5, Capped

LEMMA LocalRiskOK ==
    ASSUME NEW input \in PayInputs
    PROVE  Local(input).risk \in Percent
  <1> DEFINE amount == AtMost(input.amount \div 100000, 55)
  <1>1. amount \in Nat /\ input.domain \in Nat /\ input.entropy \in Nat
    BY InputIsNumbers, PartsOfAmount
  <1>2. LocalRisk(input) = AtMost(amount + input.domain + input.entropy, 99)
    BY DEF LocalRisk
  <1> HIDE DEF amount
  <1>3. amount + input.domain + input.entropy \in Nat
    BY <1>1
  <1>4. LocalRisk(input) \in Percent
    BY <1>2, <1>3, Capped
  <1>5. 85 \in Percent
    BY DEF Percent
  <1>6. AtLeast(LocalRisk(input), 85) \in Percent
    BY <1>4, <1>5, Floored
  <1>7. QED
    BY <1>4, <1>6 DEF Local, Opinion

LEMMA VerificationRiskOK ==
    ASSUME NEW input \in PayInputs, NEW c, c.risk \in Percent, c.reasons \subseteq Reasons,
           NEW issue
    PROVE  Verification(input, c, issue).risk \in Percent
  <1> DEFINE amount == AtMost(input.amount \div 150000, 45)
             score == Score(JavaWeight, c.reasons)
             hash == AtMost(input.entropy, 14)
             sum == amount + input.domain + score + hash
  <1>1. amount \in Nat /\ input.domain \in Nat
    BY InputIsNumbers, PartsOfAmount
  <1>2. score \in Nat
    BY WeightsAreNumbers, ScoreIsANumber
  <1>3. hash \in Nat
    BY InputIsNumbers DEF AtMost
  <1>4. VerificationRisk(input, c) = AtMost(AtLeast(sum, c.risk), 99)
    BY DEF VerificationRisk
  <1> HIDE DEF amount, score, hash
  <1>5. sum \in Nat
    BY <1>1, <1>2, <1>3
  <1> HIDE DEF sum
  <1>6. AtLeast(sum, c.risk) \in Nat
    BY <1>5 DEF AtLeast, Percent
  <1>7. VerificationRisk(input, c) \in Percent
    BY <1>4, <1>6, Capped
  <1>8. QED
    BY <1>7 DEF Verification, Answer

LEMMA ProcessingRiskOK ==
    ASSUME NEW input \in PayInputs
    PROVE  Processing(input).risk \in Percent
  <1> DEFINE amount == AtMost(input.amount \div 100000, 55)
             hash == AtMost(input.entropy, 19)
  <1>1. amount \in Nat /\ input.domain \in Nat
    BY InputIsNumbers, PartsOfAmount
  <1>2. hash \in Nat
    BY InputIsNumbers DEF AtMost
  <1>3. ProcessingRisk(input) = AtMost(amount + input.domain + hash, 99)
    BY DEF ProcessingRisk
  <1> HIDE DEF amount, hash
  <1>4. amount + input.domain + hash \in Nat
    BY <1>1, <1>2
  <1>5. ProcessingRisk(input) \in Percent
    BY <1>3, <1>4, Capped
  <1>6. QED
    BY <1>5 DEF Processing, Answer

\* No merge makes a risk of more than 99 percent.
RiskOK(a) == a # NoOpinion => a.risk \in Percent

LEMMA MergedRiskOK ==
    ASSUME NEW input \in PayInputs, NEW c, c.risk \in Percent,
           NEW v, VerificationOK(v), RiskOK(v), NEW p, RiskOK(p)
    PROVE  Merged(input, c, v, p).risk \in Percent
  <1> PICK l : l = Local(input)
    OBVIOUS
  <1> PICK m : m = MergeVerification(l, v)
    OBVIOUS
  <1> PICK n : n = MergeProcessor(m, p)
    OBVIOUS
  <1>1. l.risk \in Percent
    BY LocalRiskOK
  <1>2. m.risk \in Percent
    <2>1. CASE v = NoOpinion
      BY <1>1, <2>1 DEF MergeVerification
    <2>2. CASE v # NoOpinion
      <3>1. AtLeast(l.risk, v.risk) \in Percent
        BY <1>1, <2>2, Floored DEF RiskOK
      <3>2. v.decision \in {"approved", "declined", "review"}
        BY <2>2 DEF VerificationOK, AnswerOK, JavaAnswers
      <3> QED
        BY <2>2, <3>1, <3>2 DEF MergeVerification, Opinion
    <2> QED
      BY <2>1, <2>2
  <1>3. n.risk \in Percent
    <2>1. CASE p = NoOpinion \/ m.status \in {"declined", "timeout"}
      BY <1>2, <2>1 DEF MergeProcessor
    <2>2. CASE ~(p = NoOpinion \/ m.status \in {"declined", "timeout"})
      BY <1>2, <2>2 DEF MergeProcessor, Opinion, RiskOK
    <2> QED
      BY <2>1, <2>2
  <1>4. AtLeast(n.risk, c.risk) \in Percent
    BY <1>3, Floored
  <1>5. MergeAntifraud(n, c).risk = AtLeast(n.risk, c.risk)
    BY DEF MergeAntifraud, Opinion
  <1> QED
    BY <1>4, <1>5 DEF Merged

PayRisks ==
    /\ payPc \in {"start", "verify", "process", "decide", "answered", "skipped", "raised"}
    /\ payInput \in PayInputs
    /\ RiskOK(context) /\ RiskOK(verified) /\ RiskOK(processed) /\ RiskOK(payRow)
    /\ payPc \in {"verify", "process", "decide"} =>
          context.risk \in Percent /\ context.reasons \subseteq Reasons

LEMMA RisksInitially == PayInit => PayRisks
BY DEF PayInit, PayRisks, RiskOK

LEMMA RisksStayPercents == PayIInv /\ PayRisks /\ [PayNext]_payVars => PayRisks'
  <1> SUFFICES ASSUME PayIInv, PayRisks, [PayNext]_payVars PROVE PayRisks'
    OBVIOUS
  <1>1. CASE Begin
    <2>1. PICK d \in Details :
             /\ context' = [method |-> d.method, risk |-> ContextRisk(payInput, d),
                            reasons |-> ReasonsOf(d)]
      BY <1>1 DEF Begin
    <2>2. ContextRisk(payInput, d) \in Percent /\ ReasonsOf(d) \subseteq Reasons
      BY ContextRiskOK, ReasonsAreKnown DEF PayRisks
    <2>3. context'.risk \in Percent /\ context'.reasons \subseteq Reasons
      BY <2>1, <2>2
    <2> QED
      BY <1>1, <2>3 DEF Begin, PayRisks, RiskOK
  <1>2. CASE Verify
    <2>1. \/ verified' = NoOpinion
          \/ \E issue \in BOOLEAN : verified' = Verification(payInput, context, issue)
      BY <1>2 DEF Verify
    <2>2. RiskOK(verified')
      BY <1>2, <2>1, VerificationRiskOK DEF Verify, PayRisks, RiskOK
    <2> QED
      BY <1>2, <2>2 DEF Verify, PayRisks, RiskOK
  <1>3. CASE Process
    <2>1. processed' = NoOpinion \/ processed' = Processing(payInput)
      BY <1>3 DEF Process
    <2>2. RiskOK(processed')
      BY <2>1, ProcessingRiskOK DEF PayRisks, RiskOK
    <2> QED
      BY <1>3, <2>2 DEF Process, PayRisks, RiskOK
  <1>4. CASE Decide
    <2>1. /\ payRow' = Merged(payInput, context, verified, processed)
          /\ UNCHANGED <<payInput, context, verified, processed>> /\ payPc' = "answered"
      BY <1>4 DEF Decide
    <2>2. payRow'.risk \in Percent
      BY <1>4, <2>1, MergedRiskOK DEF Decide, PayRisks, PayIInv
    <2> QED
      BY <2>1, <2>2 DEF PayRisks, RiskOK
  <1>5. CASE Skip \/ Raise \/ UNCHANGED payVars
    BY <1>5 DEF Skip, Raise, payVars, PayRisks, RiskOK
  <1> QED
    BY <1>1, <1>2, <1>3, <1>4, <1>5 DEF PayNext

LEMMA PaymentTypes == PayIInv /\ PayRisks => PayTypeOK
  <1> SUFFICES ASSUME PayIInv, PayRisks PROVE PayTypeOK
    OBVIOUS
  <1>1. \A i \in 1..Len(emitted) : emitted[i] \in StepRecords
    <2>1. emitted \in Seq(StepRecords)
      BY DEF PayIInv
    <2> QED
      BY <2>1, ElementOfSeq
  <1>2. \A i \in 1..Len(emitted) : emitted[i].status \in StepStatuses
    BY <1>1 DEF StepRecords
  <1> QED
    BY <1>2 DEF PayTypeOK, PayRisks, RiskOK, Percent, StepStatuses

\* Whatever amounts, hashes and reasons add up to, every score that is kept is a
\* percentage below 100, and every event has one of the statuses there are
\* (_score_risk, decide, verifyPayment, authorizePayment and the merges).
THEOREM PaymentKeepsTypes == PaySpec => []PayTypeOK
  <1>1. PayInit => PayIInv /\ PayRisks
    BY PayInitOK, RisksInitially
  <1>2. PayIInv /\ PayRisks /\ [PayNext]_payVars => (PayIInv /\ PayRisks)'
    BY PayStepOK, RisksStayPercents
  <1>3. PayIInv /\ PayRisks => PayTypeOK
    BY PaymentTypes
  <1> QED
    BY <1>1, <1>2, <1>3, PTL DEF PaySpec

-----------------------------------------------------------------------------
(* All four, composed: the part that moves takes a step of its own, the    *)
(* others keep their variables.                                            *)

StreamIInv ==
    /\ part \in {"stream", "remediation", "payment", "stress"}
    /\ CopyInv /\ RemIInv /\ PayIInv /\ PayRisks /\ StressIInv

LEMMA StreamInitially == StreamInit => StreamIInv
BY InitCopyInv, RemInitOK, PayInitOK, RisksInitially, StressInitially
   DEF StreamInit, StreamIInv

LEMMA StreamStep ==
    ASSUME [StreamNext]_streamVars
    PROVE  /\ part' = part
           /\ [Next]_vars /\ [RemNext]_remVars /\ [PayNext]_payVars /\ [StressNext]_stressVars
BY DEF StreamNext, streamVars

LEMMA StreamStepKeeps == StreamIInv /\ [StreamNext]_streamVars => StreamIInv'
  <1> SUFFICES ASSUME StreamIInv, [StreamNext]_streamVars PROVE StreamIInv'
    OBVIOUS
  <1>1. CopyInv' /\ RemIInv'
    BY StreamStep, NextCopyInv, RemStepOK DEF StreamIInv
  <1>2. PayIInv' /\ PayRisks' /\ StressIInv'
    BY StreamStep, PayStepOK, RisksStayPercents, StressStepKeeps DEF StreamIInv
  <1> QED
    BY <1>1, <1>2, StreamStep DEF StreamIInv

\* The four components together, whichever moves.
THEOREM StreamInductive == StreamSpec => []StreamIInv
  <1> QED
    BY StreamInitially, StreamStepKeeps, PTL DEF StreamSpec

\* The types of all four components, whichever of them moves.
THEOREM StreamKeepTypes == StreamSpec => []StreamTypeOK
  <1>1. /\ part \in {"stream", "remediation", "payment", "stress"}
        /\ TypeOK /\ RemTypeOK /\ PayTypeOK /\ StressTypeOK /\ SpawnsAlone
        => StreamTypeOK
    BY DEF StreamTypeOK
  <1>2. CopyInv => TypeOK
    BY DEF CopyInv, IInv
  <1>3. StreamIInv => StreamTypeOK
    BY <1>1, <1>2, PaymentTypes DEF StreamIInv, RemIInv, StressIInv
  <1> QED
    BY <1>3, StreamInductive, PTL

\* Each component moves in the composition as its own specification says, so
\* that what is proved of one holds of the specification that TLC runs: that every
\* published order is accounted for and has one copy, that no playbook run is
\* executed twice, that no refusal is overturned, that the runner knows its k6.
THEOREM StreamImplements == StreamSpec => Spec /\ RemSpec /\ PaySpec /\ StressSpec
  <1>1. StreamInit => Init /\ RemInit /\ PayInit /\ StressInit
    BY DEF StreamInit
  <1>2. [StreamNext]_streamVars =>
           [Next]_vars /\ [RemNext]_remVars /\ [PayNext]_payVars /\ [StressNext]_stressVars
    BY StreamStep
  <1> QED
    BY <1>1, <1>2, PTL DEF StreamSpec, Spec, RemSpec, PaySpec, StressSpec

===============================================================================
