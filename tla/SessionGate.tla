------------------------------ MODULE SessionGate ------------------------------
(***************************************************************************)
(* The CRM's session gate in one replica: a request is admitted by a       *)
(* semaphore of twice as many slots as the executor has threads, its       *)
(* session is looked up by a thread of that executor (cache first, then a  *)
(* blocking SELECT), and the request waits for at most 8 s.  The requests  *)
(* carry the cookie of one session, which a logout - at any replica -      *)
(* deletes from the table.                                                 *)
(*                                                                         *)
(* A request that gives up cancels its lookup: a queued one stays in the   *)
(* executor's queue until a thread takes and skips it, a running one runs  *)
(* on for nobody (concurrent.futures, external).                           *)
(***************************************************************************)
EXTENDS Integers, FiniteSets, Sequences

CONSTANTS
    Clients,        \* each has one request at a time, again and again
    AuthThreads,    \* the threads of _auth_executor
    MaxJobs,        \* bound on the executor's queue, which has none
    Nobody          \* no client, or none that still waits

GateCapacity == 2 * Cardinality(AuthThreads)

ASSUME SessionGateAssumption ==
    /\ IsFiniteSet(Clients) /\ IsFiniteSet(AuthThreads) /\ AuthThreads # {}
    /\ MaxJobs \in Nat
    /\ Nobody \notin Clients

VARIABLES
    gatePc,         \* idle, admission, lookup
    answer,         \* the last answer: none, through, refused, unavailable
    jobs,           \* the executor's queue; a cancelled lookup is Nobody's
    lookupOf,       \* whose lookup a thread runs
    lookup,         \* where it is: none, select, found, missing
    sessionRow,     \* the session is in the table
    cached          \* the cache's entry: none, young, old

gateVars == <<gatePc, answer, jobs, lookupOf, lookup, sessionRow, cached>>

GateTypeOK ==
    /\ gatePc \in [Clients -> {"idle", "admission", "lookup"}]
    /\ answer \in [Clients -> {"none", "through", "refused", "unavailable"}]
    /\ jobs \in Seq(Clients \cup {Nobody}) /\ Len(jobs) <= MaxJobs
    /\ lookupOf \in [AuthThreads -> Clients \cup {Nobody}]
    /\ lookup \in [AuthThreads -> {"none", "select", "found", "missing"}]
    /\ sessionRow \in BOOLEAN
    /\ cached \in {"none", "young", "old"}

\* The slots of the semaphore that are taken
Holding == {c \in Clients : gatePc[c] = "lookup"}

Reply(c, a) ==
    /\ gatePc' = [gatePc EXCEPT ![c] = "idle"]
    /\ answer' = [answer EXCEPT ![c] = a]

\* A lookup ends with answer a, if somebody still waits for it.
ReplyTo(c, a) == IF c = Nobody THEN UNCHANGED <<gatePc, answer>> ELSE Reply(c, a)

-----------------------------------------------------------------------------
(* SessionGateMiddleware.dispatch, for a path that needs a session *)

Arrive(c) ==
    /\ gatePc[c] = "idle"
    /\ gatePc' = [gatePc EXCEPT ![c] = "admission"]
    /\ answer' = [answer EXCEPT ![c] = "none"]
    /\ UNCHANGED <<jobs, lookupOf, lookup, sessionRow, cached>>

\* _auth_inflight.acquire, and the lookup goes to the executor.
Admit(c) ==
    /\ gatePc[c] = "admission"
    /\ Cardinality(Holding) < GateCapacity
    /\ Len(jobs) < MaxJobs
    /\ gatePc' = [gatePc EXCEPT ![c] = "lookup"]
    /\ jobs' = Append(jobs, c)
    /\ UNCHANGED <<answer, lookupOf, lookup, sessionRow, cached>>

\* No slot for half a second (or, in the model, no room below its bound)
Saturated(c) ==
    /\ gatePc[c] = "admission"
    /\ Cardinality(Holding) = GateCapacity \/ Len(jobs) = MaxJobs
    /\ Reply(c, "unavailable")
    /\ UNCHANGED <<jobs, lookupOf, lookup, sessionRow, cached>>

\* No answer for 8 s: 503, and the slot is released whatever the thread does.
TimeOut(c) ==
    /\ gatePc[c] = "lookup"
    /\ jobs' = [i \in 1..Len(jobs) |-> IF jobs[i] = c THEN Nobody ELSE jobs[i]]
    /\ lookupOf' = [t \in AuthThreads |-> IF lookupOf[t] = c THEN Nobody ELSE lookupOf[t]]
    /\ Reply(c, "unavailable")
    /\ UNCHANGED <<lookup, sessionRow, cached>>

-----------------------------------------------------------------------------
(* get_current_user, in a thread of the executor *)

\* Faulty variant: a hit makes the entry young again.
TakeAndTouch(t) ==
    /\ lookup[t] = "none"
    /\ jobs # <<>>
    /\ jobs' = Tail(jobs)
    /\ IF Head(jobs) = Nobody THEN UNCHANGED <<gatePc, answer, lookupOf, lookup, cached>>
       ELSE IF cached # "none"
       THEN Reply(Head(jobs), "through") /\ cached' = "young" /\ UNCHANGED <<lookupOf, lookup>>
       ELSE /\ lookupOf' = [lookupOf EXCEPT ![t] = Head(jobs)]
            /\ lookup' = [lookup EXCEPT ![t] = "select"]
            /\ UNCHANGED <<gatePc, answer, cached>>
    /\ UNCHANGED sessionRow

\* The next lookup: a cancelled one is skipped, a hit answers at once.
Take(t) ==
    /\ lookup[t] = "none"
    /\ jobs # <<>>
    /\ jobs' = Tail(jobs)
    /\ IF Head(jobs) = Nobody THEN UNCHANGED <<gatePc, answer, lookupOf, lookup>>
       ELSE IF cached # "none"
       THEN Reply(Head(jobs), "through") /\ UNCHANGED <<lookupOf, lookup>>
       ELSE /\ lookupOf' = [lookupOf EXCEPT ![t] = Head(jobs)]
            /\ lookup' = [lookup EXCEPT ![t] = "select"]
            /\ UNCHANGED <<gatePc, answer>>
    /\ UNCHANGED <<sessionRow, cached>>

\* The SELECT, however long it takes
Select(t) ==
    /\ lookup[t] = "select"
    /\ lookup' = [lookup EXCEPT ![t] = IF sessionRow THEN "found" ELSE "missing"]
    /\ UNCHANGED <<gatePc, answer, jobs, lookupOf, sessionRow, cached>>

ThreadFree(t) ==
    /\ lookup' = [lookup EXCEPT ![t] = "none"]
    /\ lookupOf' = [lookupOf EXCEPT ![t] = Nobody]

\* What it has found is cached from now on; a miss empties the cache.
Return(t) ==
    /\ lookup[t] \in {"found", "missing"}
    /\ cached' = IF lookup[t] = "found" THEN "young" ELSE "none"
    /\ ReplyTo(lookupOf[t], IF lookup[t] = "found" THEN "through" ELSE "refused")
    /\ ThreadFree(t)
    /\ UNCHANGED <<jobs, sessionRow>>

\* Faulty variant: a failing database is no session.
FailRefuses(t) ==
    /\ lookup[t] = "select"
    /\ ReplyTo(lookupOf[t], "refused")
    /\ ThreadFree(t)
    /\ UNCHANGED <<jobs, sessionRow, cached>>

\* SessionLookupUnavailable: 503, never "no session"
Fail(t) ==
    /\ lookup[t] = "select"
    /\ ReplyTo(lookupOf[t], "unavailable")
    /\ ThreadFree(t)
    /\ UNCHANGED <<jobs, sessionRow, cached>>

-----------------------------------------------------------------------------

\* POST /api/auth/logout; no cache hears of it.
Logout ==
    /\ sessionRow
    /\ sessionRow' = FALSE
    /\ UNCHANGED <<gatePc, answer, jobs, lookupOf, lookup, cached>>

\* Half of _SESSION_CACHE_TTL
CacheAges ==
    /\ cached # "none"
    /\ cached' = IF cached = "young" THEN "old" ELSE "none"
    /\ UNCHANGED <<gatePc, answer, jobs, lookupOf, lookup, sessionRow>>

GateInit ==
    /\ gatePc = [c \in Clients |-> "idle"]
    /\ answer = [c \in Clients |-> "none"]
    /\ jobs = <<>>
    /\ lookupOf = [t \in AuthThreads |-> Nobody]
    /\ lookup = [t \in AuthThreads |-> "none"]
    /\ sessionRow = TRUE
    /\ cached = "none"

GateNext ==
    \/ \E c \in Clients : Arrive(c) \/ Admit(c) \/ Saturated(c) \/ TimeOut(c)
    \/ \E t \in AuthThreads : Take(t) \/ Select(t) \/ Return(t) \/ Fail(t)
    \/ Logout \/ CacheAges

GateSpec == GateInit /\ [][GateNext]_gateVars

-----------------------------------------------------------------------------
(* Properties *)

\* "Conflating them turns every DB hiccup into a fleet-wide forced logout"
\* (auth.py:218): whatever the database does and however long it takes, nobody
\* is sent to the login page while the session is in the table.
OutageLogsNobodyOut == \A c \in Clients : answer[c] = "refused" => ~sessionRow

\* After a logout the caches let the session in for a while, but not for ever,
\* however many requests keep using them.
LogoutTakesHold == <>[](~sessionRow => cached = "none")

\* "bound the number of auth lookups that can be in-flight (running or queued)
\* at once" (session_gate.py:23-29), by the semaphore's capacity.
Running == {t \in AuthThreads : lookup[t] # "none"}
Queued == {i \in 1..Len(jobs) : jobs[i] # Nobody}
InFlightBounded == Cardinality(Running) + Cardinality(Queued) <= GateCapacity
=============================================================================
