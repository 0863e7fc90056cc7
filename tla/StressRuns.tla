------------------------------ MODULE StressRuns ------------------------------
(***************************************************************************)
(* The stress runner's pod, which runs one k6 process at a time, and the   *)
(* callers of POST /internal/run: the CRM's admin page, which tells its    *)
(* user what came of it, and whoever else holds the internal key.          *)
(*                                                                         *)
(* The runner is one event loop.  POST /internal/run keeps its lock while  *)
(* it awaits the new process; every other holder of the lock runs to the   *)
(* end without an await, and is one step that finds the lock free.  k6     *)
(* (external) ends when it likes, at the latest when it is told to, and    *)
(* the loop learns of it some time later (returncode).                     *)
(***************************************************************************)
EXTENDS Naturals, FiniteSets

CONSTANTS
    StressRunIds,   \* one for each POST
    NoRun           \* no run

ASSUME StressRunsAssumption == NoRun \notin StressRunIds

VARIABLES
    caller,     \* who posts a run: crm, other
    post,       \* where the POST is: new, locking, spawning, started, busy,
                \* invalid, failed
    told,       \* what the CRM told its user: none, started, active, unavailable
    active,     \* _active: the last run that was started
    k6,         \* the process of a run: none, alive, exited, reaped
    report,     \* run.status
    signalled,  \* the runs whose process was sent SIGTERM
    waiter,     \* run.waiter_task: none, pending, done
    timer       \* run.timeout_task: none, armed, cancelled, fired

callerVars == <<caller, told>>
runVars == <<k6, report, signalled, waiter, timer>>
stressVars == <<callerVars, post, active, runVars>>

Answers == {"started", "busy", "invalid", "failed"}

StressTypeOK ==
    /\ caller \in [StressRunIds -> {"crm", "other"}]
    /\ post \in [StressRunIds -> {"new", "locking", "spawning"} \cup Answers]
    /\ told \in [StressRunIds -> {"none", "started", "active", "unavailable"}]
    /\ active \in StressRunIds \cup {NoRun}
    /\ k6 \in [StressRunIds -> {"none", "alive", "exited", "reaped"}]
    /\ report \in [StressRunIds -> {"running", "stopping", "completed", "error", "expired"}]
    /\ signalled \in SUBSET StressRunIds
    /\ waiter \in [StressRunIds -> {"none", "pending", "done"}]
    /\ timer \in [StressRunIds -> {"none", "armed", "cancelled", "fired"}]

\* process.returncode is None, for a run that was spawned
Unfinished(r) == k6[r] \in {"alive", "exited"}

\* _state_lock is held across an await only by a POST that spawns.
LockFree == \A r \in StressRunIds : post[r] # "spawning"

Busy == active # NoRun /\ Unfinished(active)

-----------------------------------------------------------------------------
(* The request *)

\* The keys of runner_body, and those of the runner's RunRequest, which
\* requires all of them and forbids others
CrmBody == {"run_id", "scenario", "rps", "duration_seconds", "target_url", "note"}
RunRequest == {"run_id", "scenario", "rps", "duration_seconds", "target_host"}

Body(who) == IF who = "crm" THEN CrmBody ELSE RunRequest

\* FastAPI validates the body before the handler runs: 422.
PostRun(r, who) ==
    /\ post[r] = "new"
    /\ caller' = [caller EXCEPT ![r] = who]
    /\ post' = [post EXCEPT ![r] = IF Body(who) = RunRequest THEN "locking" ELSE "invalid"]
    /\ UNCHANGED <<told, active, runVars>>

\* apply_run: 409 is passed on, from 500 it says unavailable, and everything
\* else is a start.  It stops waiting after ten seconds.
TellUser(r) ==
    /\ caller[r] = "crm" /\ post[r] # "new" /\ told[r] = "none"
    /\ told' = [told EXCEPT ![r] = CASE post[r] = "busy" -> "active"
                                     [] post[r] \in {"started", "invalid"} -> "started"
                                     [] OTHER -> "unavailable"]
    /\ UNCHANGED <<caller, post, active, runVars>>

-----------------------------------------------------------------------------
(* run_scenario *)

\* Faulty variant: no lock around the check and the start.
LockingNoLock(r) == post[r] = "locking"

Locking(r) == post[r] = "locking" /\ LockFree

Refuse(r) ==
    /\ Locking(r) /\ Busy
    /\ post' = [post EXCEPT ![r] = "busy"]
    /\ UNCHANGED <<callerVars, active, runVars>>

\* _spawn_k6, and the await of the process
Spawn(r) ==
    /\ Locking(r) /\ ~Busy
    /\ post' = [post EXCEPT ![r] = "spawning"]
    /\ UNCHANGED <<callerVars, active, runVars>>

\* No scenario file, no k6, no memory: 500.
SpawnFails(r) ==
    /\ post[r] = "spawning"
    /\ post' = [post EXCEPT ![r] = "failed"]
    /\ UNCHANGED <<callerVars, active, runVars>>

Start(r) ==
    /\ post[r] = "spawning"
    /\ post' = [post EXCEPT ![r] = "started"]
    /\ k6' = [k6 EXCEPT ![r] = "alive"]
    /\ report' = [report EXCEPT ![r] = "running"]
    /\ waiter' = [waiter EXCEPT ![r] = "pending"]
    /\ timer' = [timer EXCEPT ![r] = "armed"]
    /\ active' = r
    /\ UNCHANGED <<callerVars, signalled>>

-----------------------------------------------------------------------------
(* The end of a run *)

\* SIGTERM to the active process; ProcessLookupError is passed over.
Signal == signalled' = IF k6[active] = "alive" THEN signalled \cup {active} ELSE signalled

\* clear_run
Clear ==
    /\ LockFree /\ Busy
    /\ Signal
    /\ report' = [report EXCEPT ![active] = "stopping"]
    /\ UNCHANGED <<callerVars, post, active, k6, waiter, timer>>

\* _hard_timeout, after the run's duration and 30 s
HardTimeout(r) ==
    /\ timer[r] = "armed" /\ LockFree
    /\ timer' = [timer EXCEPT ![r] = "fired"]
    /\ IF active = r /\ Unfinished(r)
       THEN /\ Signal
            /\ report' = [report EXCEPT ![r] = "expired"]
       ELSE UNCHANGED <<signalled, report>>
    /\ UNCHANGED <<callerVars, post, active, k6, waiter>>

K6Exits(r) ==
    /\ k6[r] = "alive"
    /\ k6' = [k6 EXCEPT ![r] = "exited"]
    /\ UNCHANGED <<callerVars, post, active, report, signalled, waiter, timer>>

\* The loop's child watcher sets the returncode.
Reap(r) ==
    /\ k6[r] = "exited"
    /\ k6' = [k6 EXCEPT ![r] = "reaped"]
    /\ UNCHANGED <<callerVars, post, active, report, signalled, waiter, timer>>

\* _wait_for_completion
Completed(r) ==
    /\ waiter[r] = "pending" /\ k6[r] = "reaped" /\ LockFree
    /\ waiter' = [waiter EXCEPT ![r] = "done"]
    /\ IF active = r
       THEN /\ \E s \in {"completed", "error"} : report' = [report EXCEPT ![r] = s]
            /\ timer' = [timer EXCEPT ![r] = IF @ = "armed" THEN "cancelled" ELSE @]
       ELSE UNCHANGED <<report, timer>>
    /\ UNCHANGED <<callerVars, post, active, k6, signalled>>

\* The container restarts, and k6 with it.
RunnerRestarts ==
    /\ post' = [r \in StressRunIds |-> IF post[r] \in {"locking", "spawning"} THEN "failed"
                                                                             ELSE post[r]]
    /\ active' = NoRun
    /\ k6' = [r \in StressRunIds |-> IF Unfinished(r) THEN "reaped" ELSE k6[r]]
    /\ waiter' = [r \in StressRunIds |-> IF waiter[r] = "pending" THEN "done" ELSE waiter[r]]
    /\ timer' = [r \in StressRunIds |-> IF timer[r] = "armed" THEN "cancelled" ELSE timer[r]]
    /\ UNCHANGED <<callerVars, report, signalled>>

-----------------------------------------------------------------------------
StressInit ==
    /\ caller = [r \in StressRunIds |-> "other"]
    /\ post = [r \in StressRunIds |-> "new"]
    /\ told = [r \in StressRunIds |-> "none"]
    /\ active = NoRun
    /\ k6 = [r \in StressRunIds |-> "none"]
    /\ report = [r \in StressRunIds |-> "running"]
    /\ signalled = {}
    /\ waiter = [r \in StressRunIds |-> "none"]
    /\ timer = [r \in StressRunIds |-> "none"]

StressNext ==
    \/ Clear \/ RunnerRestarts
    \/ \E r \in StressRunIds :
          \/ \E who \in {"crm", "other"} : PostRun(r, who)
          \/ TellUser(r)
          \/ Refuse(r) \/ Spawn(r) \/ SpawnFails(r) \/ Start(r)
          \/ HardTimeout(r) \/ K6Exits(r) \/ Reap(r) \/ Completed(r)

StressSpec == StressInit /\ [][StressNext]_stressVars

-----------------------------------------------------------------------------
(* Properties *)

\* Whatever posts, clears, timeouts and exits overlap, a k6 that lives is the
\* active run - so there is one, and a further POST is refused -, it is not
\* reported as over, and it was told to stop or its hard timeout will.
RunnerKnowsItsK6 ==
    \A r \in StressRunIds : k6[r] = "alive" =>
        /\ active = r
        /\ report[r] \notin {"completed", "error"}
        /\ r \in signalled \/ timer[r] = "armed"

\* What makes it inductive: nobody spawns next to a process that lives, and a
\* process has a run that was started.
SpawnsAlone ==
    \A r \in StressRunIds :
        /\ post[r] = "spawning" => ~Busy /\ \A s \in StressRunIds \ {r} : post[s] # "spawning"
        /\ k6[r] = "none" <=> post[r] # "started"

\* A run that the CRM calls started was started (apply_run answers 202 with
\* status "started", stress_test.py:295-297).
StartedWasStarted == \A r \in StressRunIds : told[r] = "started" => k6[r] # "none"
=============================================================================
