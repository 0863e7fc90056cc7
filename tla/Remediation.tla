------------------------------ MODULE Remediation ------------------------------
(***************************************************************************)
(* octo-remediator: alarms propose runs of playbooks, one per tier, and    *)
(* execute some of them; operators approve or reject the others; the       *)
(* scale-hpa playbook raises minReplicas of an autoscaler, and a CronJob   *)
(* (autorevert.py) lowers it again as its annotations say.                 *)
(*                                                                         *)
(* Runs live in the memory of the replica that took the alarm.  A replica  *)
(* is one event loop: cache-flush awaits while it runs; the calls of       *)
(* scale-hpa and restart-deployment block, so nothing else of the replica  *)
(* happens between them, but other processes do.                           *)
(*                                                                         *)
(* Nothing in the repository writes the annotations the CronJob goes by;   *)
(* Annotates says whether somebody outside of it does (an operator with    *)
(* kubectl, external).                                                     *)
(***************************************************************************)
EXTENDS Integers

CONSTANTS
    Alarms,         \* deliveries of alarms, a repeated one counted again
    Pods,           \* the remediator's replicas
    AutoMedium,     \* OCTO_REMEDIATOR_AUTO_MEDIUM
    Annotates,      \* somebody annotates a raised autoscaler
    BaseMin,        \* minReplicas at the start
    NoPod, NoValue

Tiers == {"low", "medium", "high"}
Rank == [low |-> 0, medium |-> 1, high |-> 2]
PlaybookRuns == Alarms \X Tiers

ASSUME RemediationAssumption ==
    /\ AutoMedium \in BOOLEAN /\ Annotates \in BOOLEAN
    /\ BaseMin \in Nat \ {0}
    /\ NoPod \notin Pods /\ NoValue \notin Int
    /\ NoValue \notin [min : Int, base : Int]

VARIABLES
    takenBy,    \* the replica whose handler has the alarm
    matching,   \* the tiers of its playbooks that are still to be proposed
    remState,   \* the state of each run in that replica's store
    readMin,    \* minReplicas as a running scale-hpa read it
    executed,   \* how many times each run has been executed
    hpaMin,     \* spec.minReplicas
    bumpedFrom, \* octo.oracle.com/bumped-from
    bumpIsOld,  \* bumped-at is ten minutes old
    cron        \* what the CronJob has read, while it is at this autoscaler

remRuns == <<takenBy, matching, remState, readMin, executed>>
hpa == <<hpaMin, bumpedFrom, bumpIsOld>>
remVars == <<remRuns, hpa, cron>>

RemStates == {"none", "proposed", "rejected", "running", "succeeded", "failed", "gone"}

RemTypeOK ==
    /\ takenBy \in [Alarms -> Pods \cup {NoPod}]
    /\ matching \in [Alarms -> SUBSET Tiers]
    /\ remState \in [PlaybookRuns -> RemStates]
    /\ readMin \in [PlaybookRuns -> Int \cup {NoValue}]
    /\ executed \in [PlaybookRuns -> Nat]
    /\ hpaMin \in Int
    /\ bumpedFrom \in Int \cup {NoValue}
    /\ bumpIsOld \in BOOLEAN
    /\ cron \in [min : Int, base : Int] \cup {NoValue}

-----------------------------------------------------------------------------
(* Replicas *)

\* A replica blocks while one of its runs is between the calls of scale-hpa.
Blocked(p) == \E a \in Alarms : takenBy[a] = p /\ readMin[<<a, "medium">>] # NoValue

\* The handler awaits the execution of a run it has started itself.
Unattended(t) == t = "low" \/ (t = "medium" /\ AutoMedium)
Awaits(a) == \E t \in Tiers : Unattended(t) /\ remState[<<a, t>>] = "running"

\* POST /events/alarm, as far as finding out what matches
Alarm(a, p) ==
    /\ takenBy[a] = NoPod
    /\ ~Blocked(p)
    /\ takenBy' = [takenBy EXCEPT ![a] = p]
    /\ \E M \in SUBSET Tiers : matching' = [matching EXCEPT ![a] = M]
    /\ UNCHANGED <<remState, readMin, executed, hpa, cron>>

\* _execute up to the playbook's first await, or to its end if it has none:
\* restart-deployment patches or raises; scale-hpa reads, or raises.  A dry run,
\* or a pod without a Kubernetes client, succeeds and does nothing.
Execute(r) ==
    /\ executed' = [executed EXCEPT ![r] = @ + 1]
    /\ \/ /\ r[2] = "low"
          /\ remState' = [remState EXCEPT ![r] = "running"]
          /\ UNCHANGED readMin
       \/ /\ r[2] = "medium"
          /\ remState' = [remState EXCEPT ![r] = "running"]
          /\ readMin' = [readMin EXCEPT ![r] = hpaMin]
       \/ /\ r[2] # "low"
          /\ \E s \in {"succeeded", "failed"} : remState' = [remState EXCEPT ![r] = s]
          /\ UNCHANGED readMin

\* Faulty variant: the run is stored first and executed later.
ProposeThenYield(a) ==
    /\ matching[a] # {}
    /\ ~Blocked(takenBy[a])
    /\ \E t \in matching[a] :
          /\ \A other \in matching[a] : Rank[t] <= Rank[other]
          /\ IF Unattended(t) /\ remState[<<a, t>>] \in {"proposed", "succeeded"}
             THEN Execute(<<a, t>>) /\ matching' = [matching EXCEPT ![a] = @ \ {t}]
             ELSE /\ remState' = [remState EXCEPT ![<<a, t>>] = "proposed"]
                  /\ matching' = IF Unattended(t) THEN matching ELSE [matching EXCEPT ![a] = @ \ {t}]
                  /\ UNCHANGED <<readMin, executed>>
    /\ UNCHANGED <<takenBy, hpa, cron>>

\* The next matching playbook, low before high: a run is proposed, and executed
\* at once if its tier allows it.
Propose(a) ==
    /\ matching[a] # {}
    /\ ~Awaits(a) /\ ~Blocked(takenBy[a])
    /\ \E t \in matching[a] :
          /\ \A other \in matching[a] : Rank[t] <= Rank[other]
          /\ matching' = [matching EXCEPT ![a] = @ \ {t}]
          /\ IF Unattended(t) THEN Execute(<<a, t>>)
             ELSE /\ remState' = [remState EXCEPT ![<<a, t>>] = "proposed"]
                  /\ UNCHANGED <<readMin, executed>>
    /\ UNCHANGED <<takenBy, hpa, cron>>

\* POST /runs/{run_id}/approve at the replica that has the run (at another
\* one, or for a run in another state, it is refused)
Approve(r) ==
    /\ remState[r] = "proposed"
    /\ ~Blocked(takenBy[r[1]])
    /\ Execute(r)
    /\ UNCHANGED <<takenBy, matching, hpa, cron>>

\* POST /runs/{run_id}/reject
Reject(r) ==
    /\ remState[r] = "proposed"
    /\ ~Blocked(takenBy[r[1]])
    /\ remState' = [remState EXCEPT ![r] = "rejected"]
    /\ UNCHANGED <<takenBy, matching, readMin, executed, hpa, cron>>

\* cache-flush has scanned and deleted, or the cache has failed it.
FlushOver(r) ==
    /\ r[2] = "low" /\ remState[r] = "running"
    /\ ~Blocked(takenBy[r[1]])
    /\ \E s \in {"succeeded", "failed"} : remState' = [remState EXCEPT ![r] = s]
    /\ UNCHANGED <<takenBy, matching, readMin, executed, hpa, cron>>

\* scale-hpa patches minReplicas to what it read and one more (the increment an
\* alarm has unless it says otherwise), or raises.
Patch(r) ==
    /\ r[2] = "medium" /\ readMin[r] # NoValue
    /\ readMin' = [readMin EXCEPT ![r] = NoValue]
    /\ \/ /\ hpaMin' = readMin[r] + 1
          /\ remState' = [remState EXCEPT ![r] = "succeeded"]
       \/ /\ remState' = [remState EXCEPT ![r] = "failed"]
          /\ UNCHANGED hpaMin
    /\ UNCHANGED <<takenBy, matching, executed, bumpedFrom, bumpIsOld, cron>>

\* A replica dies or is replaced, and its store with it.
Restart(p) ==
    /\ \E a \in Alarms : takenBy[a] = p /\ \E t \in Tiers : remState[<<a, t>>] \in {"proposed", "running"}
    /\ matching' = [a \in Alarms |-> IF takenBy[a] = p THEN {} ELSE matching[a]]
    /\ remState' = [r \in PlaybookRuns |-> IF takenBy[r[1]] = p THEN "gone" ELSE remState[r]]
    /\ readMin' = [r \in PlaybookRuns |-> IF takenBy[r[1]] = p THEN NoValue ELSE readMin[r]]
    /\ UNCHANGED <<takenBy, executed, hpa, cron>>

-----------------------------------------------------------------------------
(* The autoscaler: external annotations, time, and the CronJob *)

Annotate ==
    /\ Annotates
    /\ bumpedFrom = NoValue /\ hpaMin > BaseMin
    /\ bumpedFrom' = BaseMin
    /\ bumpIsOld' = FALSE
    /\ UNCHANGED <<remRuns, hpaMin, cron>>

TenMinutesPass ==
    /\ bumpedFrom # NoValue /\ ~bumpIsOld
    /\ bumpIsOld' = TRUE
    /\ UNCHANGED <<remRuns, hpaMin, bumpedFrom, cron>>

\* main() lists the autoscalers; without the annotations, or before the ten
\* minutes are over, it passes this one by.
CronList ==
    /\ cron = NoValue
    /\ bumpedFrom # NoValue /\ bumpIsOld
    /\ cron' = [min |-> hpaMin, base |-> bumpedFrom]
    /\ UNCHANGED <<remRuns, hpa>>

\* Faulty variant: back to the baseline in one go.
CronPatchAllAtOnce ==
    /\ cron # NoValue
    /\ cron' = NoValue
    /\ hpaMin' = cron.base
    /\ bumpedFrom' = NoValue
    /\ bumpIsOld' = FALSE
    /\ UNCHANGED remRuns

\* minReplicas down by one from what was listed, not below the baseline; the
\* annotations go when the baseline is reached, or was.
CronPatch ==
    /\ cron # NoValue
    /\ cron' = NoValue
    /\ IF cron.min <= cron.base
       THEN UNCHANGED hpaMin
       ELSE hpaMin' = IF cron.base > cron.min - 1 THEN cron.base ELSE cron.min - 1
    /\ IF cron.min <= cron.base + 1
       THEN bumpedFrom' = NoValue /\ bumpIsOld' = FALSE
       ELSE UNCHANGED <<bumpedFrom, bumpIsOld>>
    /\ UNCHANGED remRuns

\* The patch raises, and with it the job.
CronFails ==
    /\ cron # NoValue
    /\ cron' = NoValue
    /\ UNCHANGED <<remRuns, hpa>>

RemInit ==
    /\ takenBy = [a \in Alarms |-> NoPod]
    /\ matching = [a \in Alarms |-> {}]
    /\ remState = [r \in PlaybookRuns |-> "none"]
    /\ readMin = [r \in PlaybookRuns |-> NoValue]
    /\ executed = [r \in PlaybookRuns |-> 0]
    /\ hpaMin = BaseMin
    /\ bumpedFrom = NoValue
    /\ bumpIsOld = FALSE
    /\ cron = NoValue

RemNext ==
    \/ \E a \in Alarms : Propose(a) \/ \E p \in Pods : Alarm(a, p)
    \/ \E r \in PlaybookRuns : Approve(r) \/ Reject(r) \/ FlushOver(r) \/ Patch(r)
    \/ \E p \in Pods : Restart(p)
    \/ Annotate \/ TenMinutesPass \/ CronList \/ CronPatch \/ CronFails

RemSpec == RemInit /\ [][RemNext]_remVars

-----------------------------------------------------------------------------
(* Properties *)

\* Whatever the webhook, the operators and restarts do at the same time, a run
\* is executed at most once, and never if it was rejected or, in the high
\* tier, while nobody has approved it.
ExecutedOnce ==
    \A r \in PlaybookRuns :
        /\ executed[r] <= 1
        /\ remState[r] \in {"none", "proposed", "rejected"} => executed[r] = 0

\* The CronJob takes back one replica at a time and stops at the baseline,
\* except that it also undoes a bump that lands between its list and its patch.
OneStepDown ==
    [][cron # NoValue /\ cron' = NoValue /\ hpaMin' < hpaMin =>
          hpaMin' >= BaseMin /\ (hpaMin' = hpaMin - 1 \/ hpaMin # cron.min)]_remVars

\* "Bump HPA minReplicas by 1. Reverts itself 10min later if load drops."
\* (playbooks/scale_hpa.py:21).  The load drops and stays low.
BumpRevertsItself == hpaMin > BaseMin ~> hpaMin = BaseMin

\* The CronJob comes round; the playbooks' calls return.
RemFairSpec ==
    /\ RemSpec
    /\ WF_remVars(TenMinutesPass) /\ WF_remVars(CronList) /\ WF_remVars(CronPatch)
    /\ \A r \in PlaybookRuns : WF_remVars(Patch(r)) /\ WF_remVars(FlushOver(r))
=============================================================================
