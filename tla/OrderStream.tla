------------------------------ MODULE OrderStream ------------------------------
(***************************************************************************)
(* The asynchronous path from the shop to the CRM: the Redis stream        *)
(* octo.orders.to-sync, its consumer group, the workers that read it, the  *)
(* dead-letter stream and the operator who drains it.                      *)
(*                                                                         *)
(* An entry is its index in the log of everything ever added to the        *)
(* stream.  The group has a last delivered entry and a list of pending     *)
(* ones; whose name a pending entry carries makes no difference, since     *)
(* XAUTOCLAIM takes what has been idle for 60 s from anybody and XACK      *)
(* acknowledges for the whole group.  Idle time is not modelled: the       *)
(* entries of a worker are handled one after the other, each with a POST   *)
(* of at least 10 s before it times out, so any pending entry can be idle  *)
(* that long, its worker dead or alive.                                    *)
(***************************************************************************)
EXTENDS Integers, Sequences, FiniteSets

CONSTANTS
    Orders,         \* the orders the shop publishes
    Workers,        \* the worker pods
    MaxAttempts,    \* max_delivery_attempts
    Count,          \* count_per_poll
    MaxLen,         \* maxlen of the stream
    MaxUpsets       \* bound: how often a worker dies, misses an answer of Redis
                    \* or loses an entry it has to another worker, or the
                    \* operator drains an entry

ASSUME OrderStreamAssumption ==
    /\ IsFiniteSet(Orders) /\ IsFiniteSet(Workers)
    /\ MaxAttempts \in Nat \ {0}
    /\ Count \in Nat \ {0}
    /\ MaxLen \in Nat \ {0}
    /\ MaxUpsets \in Nat

\* An entry's payload is the order's JSON or, once it is not valid, something
\* no JSON parser reads.
Entry == [order: Orders, attempt: 1..MaxAttempts, valid: BOOLEAN]
Dead  == [order: Orders, valid: BOOLEAN]

VARIABLES
    log,        \* every entry added to the stream
    first,      \* the first that has not been trimmed
    last,       \* last-delivered-id of the group
    pel,        \* pending entries of the group
    dlq,        \* the dead-letter stream
    batch,      \* the entries a worker has in memory
    at, stage,  \* the one it is at, or 0, and what it does to it
    drain,      \* the operator has put the first dead entry back and must delete it
    upsets,     \* how often that happened
    published, crm,     \* orders put on the stream, orders the CRM has
    refused,    \* answered 200 with an error although the payload was valid
    blanked,    \* answered 200 with an error because it was not
    dropped,    \* deleted from the dead letters by the operator
    trimmed,    \* lost an entry to trimming that was not yet acknowledged
    disturbed   \* an entry of theirs was claimed from a worker that still has
                \* it, or was in memory in a crash, or was drained

stream == <<log, first, last, pel>>
worker == <<batch, at, stage>>
operator == <<drain, dropped>>
ghosts == <<published, crm, refused, blanked>>
vars == <<stream, dlq, worker, operator, upsets, ghosts, trimmed, disturbed>>

TypeOK ==
    /\ log \in Seq(Entry)
    /\ first \in 1..(Len(log) + 1)
    /\ last \in 0..Len(log)
    /\ pel \in SUBSET (1..last)
    /\ dlq \in Seq(Dead)
    /\ batch \in [Workers -> SUBSET (1..last)]
    /\ at \in [Workers -> 0..last]
    /\ stage \in [Workers -> {"idle", "park", "force", "ack"}]
    /\ drain \in BOOLEAN
    /\ upsets \in 0..MaxUpsets
    /\ published \in SUBSET Orders
    /\ crm \in SUBSET Orders
    /\ refused \in SUBSET Orders
    /\ blanked \in SUBSET Orders
    /\ dropped \in SUBSET Orders
    /\ trimmed \in SUBSET Orders
    /\ disturbed \in SUBSET Orders

-----------------------------------------------------------------------------
(* The stream *)

Waiting(i) == i \in first..Len(log) /\ (i > last \/ i \in pel)

\* XADD with an approximate MAXLEN: trims some, all or none of what exceeds it.
Add(e) ==
    /\ log' = Append(log, e)
    /\ first' \in {first} \cup (first..(Len(log) + 2 - MaxLen))
    /\ trimmed' = trimmed \cup {log[i].order : i \in {j \in first..(first' - 1) : Waiting(j)}}
    /\ UNCHANGED <<last, pel>>

\* EventPublisher.publish
Publish(o) ==
    /\ o \notin published
    /\ published' = published \cup {o}
    /\ Add([order |-> o, attempt |-> 1, valid |-> TRUE])
    /\ UNCHANGED <<dlq, worker, operator, upsets, crm, refused, blanked, disturbed>>

-----------------------------------------------------------------------------
(* A worker *)

\* One of the disturbances that are counted
Upset == upsets < MaxUpsets /\ upsets' = upsets + 1

Idle(w) == stage[w] = "idle" /\ batch[w] = {}
Held == UNION {batch[w] : w \in Workers}

\* The worker goes on with another entry of its batch, if it has one.
Leave(w) ==
    /\ at' = [at EXCEPT ![w] = 0]
    /\ stage' = [stage EXCEPT ![w] = "idle"]

\* Faulty variant: XREADGROUP with NOACK, nothing becomes pending.
PollNoAck(w) ==
    LET from == IF last + 1 < first THEN first ELSE last + 1
        to   == IF from + Count - 1 < Len(log) THEN from + Count - 1 ELSE Len(log)
    IN  /\ Idle(w)
        /\ from <= Len(log)
        /\ last' = to
        /\ batch' = [batch EXCEPT ![w] = from..to]
        /\ UNCHANGED <<log, first, pel, dlq, at, stage, operator, upsets, ghosts,
                       trimmed, disturbed>>

\* StreamConsumer.poll: XREADGROUP of new entries.  When its answer is lost
\* they are pending and no worker has them.
Poll(w) ==
    LET from == IF last + 1 < first THEN first ELSE last + 1
        to   == IF from + Count - 1 < Len(log) THEN from + Count - 1 ELSE Len(log)
    IN  /\ Idle(w)
        /\ from <= Len(log)
        /\ last' = to
        /\ pel' = pel \cup (from..to)
        /\ \/ batch' = [batch EXCEPT ![w] = from..to] /\ UNCHANGED upsets
           \/ Upset /\ UNCHANGED batch
        /\ UNCHANGED <<log, first, dlq, at, stage, operator, ghosts, trimmed, disturbed>>

\* Faulty variant: what was claimed is not handled.
RecoverIgnored(w, claimed) ==
    /\ Idle(w)
    /\ pel' = {i \in pel : i \in claimed => i >= first}
    /\ disturbed' = disturbed \cup {log[i].order : i \in claimed \cap Held}
    /\ IF claimed \cap Held = {} THEN UNCHANGED upsets ELSE Upset
    /\ UNCHANGED <<log, first, last, dlq, worker, operator, ghosts, trimmed>>

\* StreamConsumer.recover_pending: XAUTOCLAIM of idle pending entries, which
\* forgets the trimmed ones.
Recover(w, claimed) ==
    /\ Idle(w)
    /\ pel' = {i \in pel : i \in claimed => i >= first}
    /\ batch' = [batch EXCEPT ![w] = {i \in claimed : i >= first}]
    /\ disturbed' = disturbed \cup {log[i].order : i \in claimed \cap Held}
    /\ IF claimed \cap Held = {} THEN UNCHANGED upsets ELSE Upset
    /\ UNCHANGED <<log, first, last, dlq, at, stage, operator, ghosts, trimmed>>

\* handlers/order_sync.handle: POST /api/orders.  The CRM stores an order it
\* does not have, or answers 200 with an error when it knows no such customer
\* (a payload that is no JSON has none).  429, 5xx and exceptions are retried;
\* the CRM may have stored the order all the same.  Other 4xx are not.
Post(w) ==
    \E i \in batch[w] :
        LET e == log[i]
        IN
        /\ stage[w] = "idle"
        /\ \A j \in batch[w] : i <= j
        /\ at' = [at EXCEPT ![w] = i]
        /\ \/ /\ e.valid
              /\ crm' = crm \cup {e.order}
              /\ stage' = [stage EXCEPT ![w] = "ack"]
              /\ UNCHANGED <<refused, blanked>>
           \/ /\ stage' = [stage EXCEPT ![w] = "ack"]
              /\ refused' = IF e.valid THEN refused \cup {e.order} ELSE refused
              /\ blanked' = IF e.valid THEN blanked ELSE blanked \cup {e.order}
              /\ UNCHANGED crm
           \/ /\ stage' = [stage EXCEPT ![w] = "park"]
              /\ crm' \in {crm, IF e.valid THEN crm \cup {e.order} ELSE crm}
              /\ UNCHANGED <<refused, blanked>>
           \/ /\ stage' = [stage EXCEPT ![w] = "force"]
              /\ UNCHANGED <<crm, refused, blanked>>
        /\ UNCHANGED <<stream, dlq, batch, operator, upsets, published, trimmed, disturbed>>

\* Faulty variants: one attempt too many; attempts that are not counted.
ParkOver(w) ==
    LET e == log[at[w]]
    IN  /\ stage[w] = "park"
        /\ IF e.attempt > MaxAttempts
           THEN /\ dlq' = Append(dlq, [order |-> e.order, valid |-> e.valid])
                /\ UNCHANGED <<stream, trimmed>>
           ELSE Add([e EXCEPT !.attempt = @ + 1]) /\ UNCHANGED dlq
        /\ stage' = [stage EXCEPT ![w] = "ack"]
        /\ UNCHANGED <<batch, at, operator, upsets, ghosts, disturbed>>

ParkUncounted(w) ==
    /\ stage[w] = "park"
    /\ Add(log[at[w]])
    /\ stage' = [stage EXCEPT ![w] = "ack"]
    /\ UNCHANGED <<dlq, batch, at, operator, upsets, ghosts, disturbed>>

\* park_for_retry_or_dlq, up to its XADD
Park(w) ==
    LET e == log[at[w]]
    IN  /\ stage[w] = "park"
        /\ IF e.attempt + 1 > MaxAttempts
           THEN /\ dlq' = Append(dlq, [order |-> e.order, valid |-> e.valid])
                /\ UNCHANGED <<stream, trimmed>>
           ELSE Add([e EXCEPT !.attempt = @ + 1]) /\ UNCHANGED dlq
        /\ stage' = [stage EXCEPT ![w] = "ack"]
        /\ UNCHANGED <<batch, at, operator, upsets, ghosts, disturbed>>

\* Worker._force_dlq, up to its XADD: the payload is written as str(dict).
ForceDlq(w) ==
    /\ stage[w] = "force"
    /\ dlq' = Append(dlq, [order |-> log[at[w]].order, valid |-> FALSE])
    /\ stage' = [stage EXCEPT ![w] = "ack"]
    /\ UNCHANGED <<stream, batch, at, operator, upsets, ghosts, trimmed, disturbed>>

\* Faulty variant: the XACK is forgotten.
AckForgotten(w) ==
    /\ stage[w] = "ack"
    /\ batch' = [batch EXCEPT ![w] = @ \ {at[w]}]
    /\ Leave(w)
    /\ UNCHANGED <<stream, dlq, operator, upsets, ghosts, trimmed, disturbed>>

\* XACK
Ack(w) ==
    /\ stage[w] = "ack"
    /\ pel' = pel \ {at[w]}
    /\ batch' = [batch EXCEPT ![w] = @ \ {at[w]}]
    /\ Leave(w)
    /\ UNCHANGED <<log, first, last, dlq, operator, upsets, ghosts, trimmed, disturbed>>

\* The pod dies, or Redis fails in an XADD or XACK, which nothing catches.
Crash(w) ==
    /\ batch[w] # {}
    /\ Upset
    /\ batch' = [batch EXCEPT ![w] = {}]
    /\ Leave(w)
    /\ disturbed' = disturbed \cup {log[i].order : i \in batch[w]}
    /\ UNCHANGED <<stream, dlq, operator, ghosts, trimmed>>

-----------------------------------------------------------------------------
(* The operator: octo-dlq-drain, oldest entry first *)

DrainRetry ==
    /\ dlq # <<>> /\ ~drain
    /\ Upset
    /\ drain' = TRUE
    /\ Add([order |-> Head(dlq).order, attempt |-> 1, valid |-> Head(dlq).valid])
    /\ disturbed' = disturbed \cup {Head(dlq).order}
    /\ UNCHANGED <<dlq, worker, dropped, ghosts>>

\* XDEL, or the tool dies before it.
DrainDelete ==
    /\ drain
    /\ drain' = FALSE
    /\ dlq' = Tail(dlq) \/ UNCHANGED dlq
    /\ UNCHANGED <<stream, worker, dropped, upsets, ghosts, trimmed, disturbed>>

DrainDrop ==
    /\ dlq # <<>> /\ ~drain
    /\ Upset
    /\ dlq' = Tail(dlq)
    /\ dropped' = dropped \cup {Head(dlq).order}
    /\ UNCHANGED <<stream, worker, drain, ghosts, trimmed, disturbed>>

-----------------------------------------------------------------------------
Init ==
    /\ log = <<>> /\ first = 1 /\ last = 0 /\ pel = {}
    /\ dlq = <<>>
    /\ batch = [w \in Workers |-> {}]
    /\ at = [w \in Workers |-> 0]
    /\ stage = [w \in Workers |-> "idle"]
    /\ drain = FALSE
    /\ upsets = 0
    /\ published = {} /\ crm = {} /\ refused = {} /\ blanked = {}
    /\ dropped = {} /\ trimmed = {} /\ disturbed = {}

Handle(w) == Post(w) \/ Park(w) \/ ForceDlq(w) \/ Ack(w)

Next ==
    \/ \E o \in Orders : Publish(o)
    \/ \E w \in Workers : \/ Poll(w) \/ Handle(w) \/ Crash(w)
                          \/ \E claimed \in SUBSET pel \ {{}} : Recover(w, claimed)
    \/ DrainRetry \/ DrainDelete \/ DrainDrop

Spec == Init /\ [][Next]_vars

-----------------------------------------------------------------------------
(* Properties *)

\* Entries whose worker has nothing left to do but acknowledge them
Moving == {at[w] : w \in {v \in Workers : stage[v] = "ack"}}

\* The dead letters, without one that is back on the stream
DeadOnes == (IF drain THEN 2 ELSE 1)..Len(dlq)

\* An order is in the CRM, was refused or dropped, lost an entry to trimming,
\* or somebody still has to deal with a copy of it.
Kept(o) ==
    \/ o \in crm \cup refused \cup dropped \cup trimmed
    \/ \E i \in 1..Len(log) : Waiting(i) /\ i \notin Moving /\ log[i].order = o
    \/ \E k \in DeadOnes : dlq[k].order = o

\* No crash, claim, lost answer or drain loses a published order, except that
\* the CRM answers 200 to an unreadable payload.
NothingLost == \A o \in published : Kept(o) \/ o \in blanked

\* What makes it inductive: a worker deals with an entry of its batch, and a
\* dead letter that is back on the stream is still there.
Position(w) == stage[w] # "idle" => at[w] \in batch[w]
IInv ==
    /\ TypeOK
    /\ \A w \in Workers : Position(w)
    /\ drain => dlq # <<>>
    /\ NothingLost

\* Unless an entry was claimed from a live worker, was in memory in a crash or
\* was drained, its order has one copy at a time: a retry moves it, the dead
\* letters included, and it is put on the stream max_delivery_attempts times
\* at most.
Copies(o) == {i \in 1..Len(log) : Waiting(i) /\ i \notin Moving /\ log[i].order = o}
OneCopy ==
    \A o \in Orders \ disturbed :
        /\ Cardinality(Copies(o)) + Cardinality({k \in DeadOnes : dlq[k].order = o}) <= 1
        /\ Cardinality({i \in 1..Len(log) : log[i].order = o}) <= MaxAttempts

\* What makes that inductive.  An entry is live until whoever has it, or will
\* get it, has nothing left to do but acknowledge it.  An undisturbed order has
\* only its newest entry live, with the highest attempt and in one memory at
\* most, or one dead letter instead.
Entries(o) == {i \in 1..Len(log) : log[i].order = o}
DeadLetters(o) == {k \in DeadOnes : dlq[k].order = o}
LiveEntry(i) == i \notin Moving /\ (i \in Held \/ Waiting(i))
SingleFile(o) ==
    /\ \A i, j \in Entries(o) : i < j => log[i].attempt < log[j].attempt
    /\ \A i, j \in Entries(o) : LiveEntry(i) => j <= i
    /\ \A k, l \in DeadLetters(o) : k = l
    /\ (\E i \in Entries(o) : LiveEntry(i)) => DeadLetters(o) = {}
    /\ \A i \in Entries(o) : \A v, w \in Workers : i \in batch[v] \cap batch[w] => v = w
LogPublished == \A i \in 1..Len(log) : log[i].order \in published
DeadPublished == \A k \in 1..Len(dlq) : dlq[k].order \in published
DrainDisturbs == drain => Head(dlq).order \in disturbed
CopyInv ==
    /\ IInv
    /\ LogPublished /\ DeadPublished
    /\ DrainDisturbs
    /\ \A o \in Orders \ disturbed : SingleFile(o)

\* Every published order gets to the CRM or to the dead letters, is refused or
\* trimmed, although workers die with entries in memory.
Settled(o) ==
    o \in crm \cup refused \cup blanked \cup dropped \cup trimmed
    \/ \E k \in 1..Len(dlq) : dlq[k].order = o
EveryOrderSettles == \A o \in Orders : []<>(o \in published => Settled(o))

\* What the operator puts back on the stream is still the order.
RetryKeepsTheOrder == \A o \in published : Kept(o)

-----------------------------------------------------------------------------
\* A recovery pass claims something that no worker has.
RecoverIdle ==
    \E w \in Workers, claimed \in SUBSET pel :
        ~(claimed \subseteq Held) /\ Recover(w, claimed)

\* Workers poll, handle what they have, and every 20 polls recover; an entry
\* no worker has is idle in the end and stays so until it is claimed.
FairSpec ==
    /\ Spec
    /\ \A w \in Workers : WF_vars(Poll(w)) /\ WF_vars(Handle(w))
    /\ SF_vars(RecoverIdle)
=============================================================================
