------------------------------- MODULE LoadRuns -------------------------------
(***************************************************************************)
(* The runs of octo-load-control.  The ledger is a file of lines that all  *)
(* replicas share; the newest line of a run is its state.  The replica     *)
(* that took POST /runs keeps a copy of the run of its own, first in the   *)
(* handler, then in a background task that sleeps for the run's duration,  *)
(* and writes what it makes of that copy without reading the ledger again. *)
(* DELETE, on any replica, reads the file and writes it in two operations: *)
(* nothing awaits between them, so that the replica's own tasks stand      *)
(* still meanwhile, and nothing locks the file, so that those of the other *)
(* replicas do not.                                                        *)
(***************************************************************************)
CONSTANTS
    LoadRunIds,     \* the runs there will be
    Replicas,       \* the pods of the deployment
    NoReplica       \* nobody has taken the run yet

ASSUME LoadRunsAssumption == NoReplica \notin Replicas

VARIABLES
    ledger,     \* the state in the newest line of each run, "none" before the first
    holder,     \* the replica with the live copy of each run
    task,       \* what that copy is in: none, dispatch, watch; then ended or lost
    deleting    \* <<p, r>>: a DELETE of r on p has read it active and not yet written

loadVars == <<ledger, holder, task, deleting>>

LoadTerminal == {"succeeded", "failed", "cancelled"}

LoadTypeOK ==
    /\ ledger \in [LoadRunIds -> {"none", "starting", "running"} \cup LoadTerminal]
    /\ holder \in [LoadRunIds -> Replicas \cup {NoReplica}]
    /\ task \in [LoadRunIds -> {"none", "dispatch", "watch", "ended", "lost"}]
    /\ deleting \subseteq Replicas \X LoadRunIds

\* Faulty variant: the ledger is read with an await.
NeverBusy(p) == FALSE

\* The event loop of a replica is in a DELETE.
Busy(p) == \E r \in LoadRunIds : <<p, r>> \in deleting

\* POST /runs up to its first await: PENDING, then STARTING.
Launch(r, p) ==
    /\ ledger[r] = "none" /\ ~Busy(p)
    /\ ledger' = [ledger EXCEPT ![r] = "starting"]
    /\ holder' = [holder EXCEPT ![r] = p]
    /\ task' = [task EXCEPT ![r] = "dispatch"]
    /\ UNCHANGED deleting

\* Faulty variant: the watcher is started before the dispatch.
DispatchedUnwatched(r) ==
    /\ task[r] = "dispatch" /\ ~Busy(holder[r])
    /\ ledger' = [ledger EXCEPT ![r] = "running"]
    /\ task' = [task EXCEPT ![r] = "ended"]
    /\ UNCHANGED <<holder, deleting>>

\* dispatch returned, be it with {"status": "dispatch_error"}: RUNNING,
\* whatever the ledger says by now, and the watcher is created.
Dispatched(r) ==
    /\ task[r] = "dispatch" /\ ~Busy(holder[r])
    /\ ledger' = [ledger EXCEPT ![r] = "running"]
    /\ task' = [task EXCEPT ![r] = "watch"]
    /\ UNCHANGED <<holder, deleting>>

\* dispatch raised.
DispatchRaised(r) ==
    /\ task[r] = "dispatch" /\ ~Busy(holder[r])
    /\ ledger' = [ledger EXCEPT ![r] = "failed"]
    /\ task' = [task EXCEPT ![r] = "ended"]
    /\ UNCHANGED <<holder, deleting>>

\* wait_then_mark_complete: the sleep is over; SUCCEEDED over whatever is there.
WatchOver(r) ==
    /\ task[r] = "watch" /\ ~Busy(holder[r])
    /\ ledger' = [ledger EXCEPT ![r] = "succeeded"]
    /\ task' = [task EXCEPT ![r] = "ended"]
    /\ UNCHANGED <<holder, deleting>>

\* DELETE /runs/{run_id}: ledger.get and the test of the state; a run that is
\* over, or not there, is left alone.
CancelRead(r, p) ==
    /\ ~Busy(p)
    /\ ledger[r] \notin {"none"} \cup LoadTerminal
    /\ deleting' = deleting \cup {<<p, r>>}
    /\ UNCHANGED <<ledger, holder, task>>

\* Its ledger.update, over whatever is there by now.
CancelWrite(r, p) ==
    /\ <<p, r>> \in deleting
    /\ ledger' = [ledger EXCEPT ![r] = "cancelled"]
    /\ deleting' = deleting \ {<<p, r>>}
    /\ UNCHANGED <<holder, task>>

HeldBy(p) == {r \in LoadRunIds : holder[r] = p /\ task[r] \in {"dispatch", "watch"}}

\* A replica is stopped in good order: its watchers are cancelled and write so;
\* a handler that is cancelled in its dispatch writes nothing.
ShutDown(p) ==
    /\ HeldBy(p) # {} /\ ~Busy(p)
    /\ ledger' = [r \in LoadRunIds |-> IF r \in HeldBy(p) /\ task[r] = "watch"
                                       THEN "cancelled" ELSE ledger[r]]
    /\ task' = [r \in LoadRunIds |-> IF r \notin HeldBy(p) THEN task[r]
                                     ELSE IF task[r] = "watch" THEN "ended" ELSE "lost"]
    /\ UNCHANGED <<holder, deleting>>

\* It is killed, in a DELETE or not.
Kill(p) ==
    /\ HeldBy(p) # {} \/ Busy(p)
    /\ task' = [r \in LoadRunIds |-> IF r \in HeldBy(p) THEN "lost" ELSE task[r]]
    /\ deleting' = deleting \ ({p} \X LoadRunIds)
    /\ UNCHANGED <<ledger, holder>>

LoadInit ==
    /\ ledger = [r \in LoadRunIds |-> "none"]
    /\ holder = [r \in LoadRunIds |-> NoReplica]
    /\ task = [r \in LoadRunIds |-> "none"]
    /\ deleting = {}

LoadStep(r) == Dispatched(r) \/ DispatchRaised(r) \/ WatchOver(r)

LoadNext ==
    \/ \E r \in LoadRunIds, p \in Replicas :
          Launch(r, p) \/ CancelRead(r, p) \/ CancelWrite(r, p)
    \/ \E r \in LoadRunIds : LoadStep(r)
    \/ \E p \in Replicas : ShutDown(p) \/ Kill(p)

LoadSpec == LoadInit /\ [][LoadNext]_loadVars

-----------------------------------------------------------------------------
(* Properties *)

\* What "ignored if already terminal" (services/load-control/README.md:48)
\* comes to: once the ledger says succeeded or failed, neither the live copy of
\* the run nor a DELETE on the replica that ran it changes that again.  A DELETE
\* on another replica can, if it had read the run while it was active: what it
\* writes is cancelled.
OverIsOver ==
    [][\A r \in LoadRunIds :
          ledger[r] \in {"succeeded", "failed"} /\ ledger'[r] # ledger[r]
          => /\ ledger'[r] = "cancelled"
             /\ \E p \in Replicas \ {holder[r]} : <<p, r>> \in deleting \ deleting']_loadVars

\* What makes it so: such a run has no live copy that could still write, and no
\* DELETE on its own replica is about to.
OverHasNoTask ==
    \A r \in LoadRunIds :
        /\ ledger[r] \in {"succeeded", "failed"} =>
              task[r] = "ended" /\ <<holder[r], r>> \notin deleting
        /\ ledger[r] = "none" =>
              task[r] = "none" /\ \A p \in Replicas : <<p, r>> \notin deleting

\* A run comes to rest in a terminal state, unless its live copy died with
\* its replica; cancelled is such a state only once the copy is gone.
RunsComeToRest ==
    \A r \in LoadRunIds :
        <>[](ledger[r] \in {"none"} \cup LoadTerminal \/ task[r] = "lost")
=============================================================================
