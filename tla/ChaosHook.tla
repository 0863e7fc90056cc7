------------------------------- MODULE ChaosHook -------------------------------
(***************************************************************************)
(* The shop's chaos hook on its synchronous engine.  Before each statement *)
(* SQLAlchemy calls _inject, which reads the active scenario from the      *)
(* database - through a connection and a statement of the same engine, so  *)
(* that the hook is called for its own read as well.  A statement of the   *)
(* shop therefore takes one connection after the other, until the pool has *)
(* none left and the innermost read gives up, and gives them back on the   *)
(* way out.                                                                *)
(*                                                                         *)
(* The pool (SQLAlchemy, external) hands out a bounded number of           *)
(* connections and lets whoever finds none wait for 30 s.  The scenario is *)
(* a row that the CRM's administrators write, and that expires.            *)
(***************************************************************************)
EXTENDS Integers, FiniteSets, Functions

CONSTANTS
    Threads,    \* threads of the shop, each with a statement at a time
    PoolSize    \* connections of the engine

ASSUME ChaosHookAssumption == IsFiniteSet(Threads) /\ PoolSize \in Nat \ {0}

VARIABLES
    chaosEnabled,   \* CHAOS_ENABLED
    scenario,       \* the row: none, harmless to this statement, fatal
    hookPc,         \* of a thread: idle, connect, leave
    nested,         \* the connections it holds, one in the other
    found           \* what the last read that ended has returned

hookVars == <<chaosEnabled, scenario, hookPc, nested, found>>

\* harmless: db.slow and db.pool_hold only take time, other workflows' faults
\* do not apply.  fatal: db.deadlock raises in half of the statements.
Scenarios == {"none", "harmless", "fatal"}

HookTypeOK ==
    /\ chaosEnabled \in BOOLEAN
    /\ scenario \in Scenarios
    /\ hookPc \in [Threads -> {"idle", "connect", "leave"}]
    /\ nested \in [Threads -> 0..PoolSize]
    /\ found \in [Threads -> Scenarios]

\* The connections that nobody holds
Unused == PoolSize - SumFunction(nested)

-----------------------------------------------------------------------------
\* The shop executes a statement: an event of the security log, the count of
\* low stock, the seed data.
Statement(t) ==
    /\ hookPc[t] = "idle"
    /\ hookPc' = [hookPc EXCEPT ![t] = "connect"]
    /\ UNCHANGED <<chaosEnabled, scenario, nested, found>>

\* The statement gets a connection, and _inject asks get_active_state, which
\* without chaos returns at once and with it executes the next statement.
Connect(t) ==
    /\ hookPc[t] = "connect" /\ Unused > 0
    /\ nested' = [nested EXCEPT ![t] = @ + 1]
    /\ hookPc' = [hookPc EXCEPT ![t] = IF chaosEnabled THEN "connect" ELSE "leave"]
    /\ found' = [found EXCEPT ![t] = "none"]
    /\ UNCHANGED <<chaosEnabled, scenario>>

\* A statement ends: what was waiting for it - the hook of the statement
\* around it - goes on with what the read has found.
Ends(t, what) ==
    /\ nested' = [nested EXCEPT ![t] = @ - 1]
    /\ found' = [found EXCEPT ![t] = what]
    /\ hookPc' = [hookPc EXCEPT ![t] = IF nested[t] = 1 THEN "idle" ELSE @]
    /\ UNCHANGED <<chaosEnabled, scenario>>

\* Faulty variant: whoever reads the state for a hook waits until there is a
\* connection.
GiveUpOutside(t) ==
    /\ hookPc[t] = "connect" /\ Unused = 0 /\ nested[t] = 0
    /\ hookPc' = [hookPc EXCEPT ![t] = "idle"]
    /\ UNCHANGED <<chaosEnabled, scenario, nested, found>>

\* No connection for 30 s: an error for the shop's statement, and no scenario
\* for a hook, whose statement goes on.
GiveUp(t) ==
    /\ hookPc[t] = "connect" /\ Unused = 0
    /\ hookPc' = [hookPc EXCEPT ![t] = IF nested[t] = 0 THEN "idle" ELSE "leave"]
    /\ UNCHANGED <<chaosEnabled, scenario, nested, found>>

\* The hook raises the fault: a read for another hook has found nothing then.
Fault(t) ==
    /\ hookPc[t] = "leave" /\ found[t] = "fatal"
    /\ Ends(t, "none")

\* The statement is executed; a read may also fail, which counts as nothing.
Execute(t) ==
    /\ hookPc[t] = "leave"
    /\ \E what \in {scenario, "none"} : Ends(t, what)

\* The CRM applies or clears a scenario, or it expires.
SetScenario(s) ==
    /\ scenario' = s
    /\ UNCHANGED <<chaosEnabled, hookPc, nested, found>>

HookInit ==
    /\ chaosEnabled \in BOOLEAN
    /\ scenario = "none"
    /\ hookPc = [t \in Threads |-> "idle"]
    /\ nested = [t \in Threads |-> 0]
    /\ found = [t \in Threads |-> "none"]

HookStep(t) == Connect(t) \/ GiveUp(t) \/ Fault(t) \/ Execute(t)

HookNext ==
    \/ \E s \in Scenarios : SetScenario(s)
    \/ \E t \in Threads : Statement(t) \/ HookStep(t)

HookSpec == HookInit /\ [][HookNext]_hookVars

-----------------------------------------------------------------------------
(* Properties *)

\* Every statement of the shop ends, also when the hooks of several threads
\* have taken the whole pool and each waits for the others' connections.
EveryStatementEnds == \A t \in Threads : []<>(hookPc[t] = "idle")
=============================================================================
