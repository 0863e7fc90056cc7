--------------------------- MODULE OrderStreamProofs ---------------------------
(***************************************************************************)
(* No published order is lost by the asynchronous path, for any number of  *)
(* orders, workers, attempts, crashes, claims and drains.                  *)
(***************************************************************************)
EXTENDS OrderStream, SequenceTheorems, FiniteSetTheorems, TLAPS

LEMMA InitIInv == Init => IInv
<1> SUFFICES ASSUME Init PROVE IInv
  OBVIOUS
<1>1. log \in Seq(Entry) /\ dlq \in Seq(Dead) /\ Len(log) = 0
  BY DEF Init
<1>2. last = 0 /\ first = 1 /\ pel = {} /\ upsets \in 0..MaxUpsets
  BY OrderStreamAssumption DEF Init
<1>3. /\ batch \in [Workers -> SUBSET (1..last)]
      /\ at \in [Workers -> 0..last]
      /\ stage \in [Workers -> {"idle", "park", "force", "ack"}]
  BY <1>2 DEF Init
<1>4. TypeOK
  <2>1. first \in 1..(Len(log) + 1) /\ last \in 0..Len(log) /\ pel \in SUBSET (1..last)
    BY <1>1, <1>2
  <2>2. /\ drain \in BOOLEAN
        /\ published \in SUBSET Orders /\ crm \in SUBSET Orders
        /\ refused \in SUBSET Orders /\ blanked \in SUBSET Orders
        /\ dropped \in SUBSET Orders /\ trimmed \in SUBSET Orders
        /\ disturbed \in SUBSET Orders
    BY DEF Init
  <2>3. QED
    BY <1>1, <1>2, <1>3, <2>1, <2>2 DEF TypeOK
<1>5. QED
  BY <1>4 DEF Init, IInv, Position, NothingLost

-----------------------------------------------------------------------------
(* What one XADD does *)

\* What the stream's part of TypeOK says, for arithmetic.
LEMMA StreamType ==
    ASSUME TypeOK
    PROVE  /\ log \in Seq(Entry) /\ Len(log) \in Nat
           /\ first \in Nat /\ first \in 1..(Len(log) + 1)
           /\ last \in Nat /\ last <= Len(log)
           /\ \A i \in 1..Len(log) : log[i] \in Entry /\ log[i].order \in Orders
           /\ \A i \in pel : i \in Nat /\ 1 <= i /\ i <= last
<1>1. log \in Seq(Entry) /\ Len(log) \in Nat
  BY DEF TypeOK
<1>2. first \in 1..(Len(log) + 1) /\ last \in 0..Len(log) /\ pel \in SUBSET (1..last)
  BY DEF TypeOK
<1>3. ASSUME NEW i \in 1..Len(log)
      PROVE  log[i] \in Entry /\ log[i].order \in Orders
  <2>1. log[i] \in Entry
    BY <1>1
  <2>2. QED
    BY <2>1 DEF Entry
<1>4. QED
  BY <1>1, <1>2, <1>3

\* XADD keeps the log a log of entries, trims no more than there is, and
\* touches neither what was delivered nor what is pending.
LEMMA AddType ==
    ASSUME TypeOK, NEW e \in Entry, Add(e)
    PROVE  /\ log' = Append(log, e) /\ log' \in Seq(Entry)
           /\ Len(log') = Len(log) + 1
           /\ first' \in Nat /\ first <= first' /\ first' <= Len(log) + 1
           /\ first' \in 1..(Len(log') + 1)
           /\ trimmed' \in SUBSET Orders
           /\ last' = last /\ pel' = pel
<1>1. log' = Append(log, e) /\ log' \in Seq(Entry) /\ Len(log') = Len(log) + 1
  BY StreamType DEF Add
<1>2. first' \in Nat /\ first <= first' /\ first' <= Len(log) + 1
  <2>1. MaxLen \in Nat /\ MaxLen >= 1
    BY OrderStreamAssumption
  <2>2. first' \in {first} \cup (first..(Len(log) + 2 - MaxLen))
    BY DEF Add
  <2>3. QED
    BY <2>1, <2>2, StreamType
<1>3. first' \in 1..(Len(log') + 1)
  BY <1>1, <1>2, StreamType
<1>4. trimmed' \in SUBSET Orders
  <2>1. first..(first' - 1) \subseteq 1..Len(log)
    BY <1>2, StreamType
  <2>2. trimmed \in SUBSET Orders
    BY DEF TypeOK
  <2>3. \A i \in first..(first' - 1) : log[i].order \in Orders
    BY <2>1, StreamType
  <2>4. QED
    BY <2>2, <2>3 DEF Add
<1>5. last' = last /\ pel' = pel
  BY DEF Add
<1>6. QED
  BY <1>1, <1>2, <1>3, <1>4, <1>5

\* An entry that waits still does after an XADD, or its order is trimmed; the
\* new entry waits.
LEMMA AddKeeps ==
    ASSUME TypeOK, NEW e \in Entry, Add(e)
    PROVE  /\ \A i \in 1..Len(log) :
                 /\ i \in 1..Len(log') /\ log'[i] = log[i]
                 /\ Waiting(i) => Waiting(i)' \/ log[i].order \in trimmed'
           /\ \E n \in 1..Len(log') : log'[n] = e /\ Waiting(n)' /\ n > last'
           /\ trimmed \subseteq trimmed'
<1>1. ASSUME NEW i \in 1..Len(log)
      PROVE  i \in 1..Len(log') /\ log'[i] = log[i]
  BY AddType, StreamType
<1>2. ASSUME NEW i \in 1..Len(log), Waiting(i), ~Waiting(i)'
      PROVE  log[i].order \in trimmed'
  <2>1. i >= first /\ (i > last \/ i \in pel)
    BY <1>2, StreamType DEF Waiting
  <2>2. i \notin first'..Len(log')
    BY <1>2, <2>1, AddType DEF Waiting
  <2>3. i < first'
    BY <2>2, <1>1, AddType, StreamType
  <2>4. i \in first..(first' - 1)
    BY <2>1, <2>3, AddType, StreamType
  <2>5. QED
    BY <2>4, <1>2 DEF Add
<1>3. \E n \in 1..Len(log') : log'[n] = e /\ Waiting(n)' /\ n > last'
  <2>1. PICK n \in Nat : n = Len(log) + 1
    BY StreamType
  <2>2. n \in 1..Len(log') /\ log'[n] = e
    BY <2>1, AddType, StreamType
  <2>3. n \in first'..Len(log') /\ n > last'
    BY <2>1, AddType, StreamType
  <2>4. QED
    BY <2>2, <2>3 DEF Waiting
<1>4. QED
  BY <1>1, <1>2, <1>3 DEF Add

\* Entries that are being acknowledged have been delivered.
LEMMA MovingDelivered ==
    ASSUME TypeOK, \A w \in Workers : Position(w)
    PROVE  Moving \subseteq 1..last
BY DEF TypeOK, Position, Moving

\* After an XADD the stream's part of TypeOK still holds.
LEMMA AddTypeOK ==
    ASSUME TypeOK, NEW e \in Entry, Add(e)
    PROVE  /\ log' \in Seq(Entry)
           /\ first' \in 1..(Len(log') + 1)
           /\ last' = last /\ last' \in 0..Len(log')
           /\ pel' \in SUBSET (1..last')
           /\ trimmed' \in SUBSET Orders
<1>1. last' = last /\ pel' = pel /\ Len(log') = Len(log) + 1
  BY AddType
<1>2. last \in 0..Len(log) /\ pel \in SUBSET (1..last) /\ Len(log) \in Nat
  BY StreamType DEF TypeOK
<1>3. QED
  BY <1>1, <1>2, AddType

-----------------------------------------------------------------------------
(* Types *)

LEMMA PublishType == ASSUME IInv, NEW o \in Orders, Publish(o) PROVE TypeOK'
<1>1. TypeOK
  BY DEF IInv
<1>2. [order |-> o, attempt |-> 1, valid |-> TRUE] \in Entry
  BY OrderStreamAssumption DEF Entry
<1>3. Add([order |-> o, attempt |-> 1, valid |-> TRUE])
  BY DEF Publish
<1>4. QED
  BY <1>1, <1>2, <1>3, AddTypeOK DEF TypeOK, Publish, worker, operator

LEMMA PollType == ASSUME IInv, NEW w \in Workers, Poll(w) PROVE TypeOK'
<1> DEFINE from == IF last + 1 < first THEN first ELSE last + 1
           to   == IF from + Count - 1 < Len(log) THEN from + Count - 1 ELSE Len(log)
<1>1. TypeOK
  BY DEF IInv
<1>2. /\ last' = to /\ pel' = pel \cup (from..to) /\ from <= Len(log)
      /\ batch' = [batch EXCEPT ![w] = from..to] \/ batch' = batch
      /\ UNCHANGED <<log, first, at>>
  BY DEF Poll
<1>3. /\ to \in Nat /\ last <= to /\ to <= Len(log)
      /\ from..to \subseteq 1..to /\ 1..last \subseteq 1..to /\ 0..last \subseteq 0..to
  BY <1>1, <1>2, StreamType, OrderStreamAssumption
<1>4. last' \in 0..Len(log') /\ pel' \in SUBSET (1..last')
  <2>1. pel \in SUBSET (1..last)
    BY <1>1 DEF TypeOK
  <2>2. pel \cup (from..to) \in SUBSET (1..to)
    BY <1>3, <2>1
  <2>3. to \in 0..Len(log)
    BY <1>1, <1>3, StreamType
  <2>4. QED
    BY <1>2, <2>2, <2>3
<1>5. batch' \in [Workers -> SUBSET (1..last')] /\ at' \in [Workers -> 0..last']
  <2>1. batch \in [Workers -> SUBSET (1..last)] /\ at \in [Workers -> 0..last]
    BY <1>1 DEF TypeOK
  <2>2. batch \in [Workers -> SUBSET (1..to)] /\ at \in [Workers -> 0..to]
    BY <1>3, <2>1
  <2>3. QED
    BY <1>2, <1>3, <2>2
<1>6. upsets' \in 0..MaxUpsets
  BY <1>1, OrderStreamAssumption DEF TypeOK, Poll, Upset
<1>7. QED
  BY <1>1, <1>2, <1>4, <1>5, <1>6 DEF TypeOK, Poll, operator, ghosts

LEMMA RecoverType ==
    ASSUME IInv, NEW w \in Workers, NEW claimed \in SUBSET pel, Recover(w, claimed)
    PROVE  TypeOK'
<1>1. TypeOK
  BY DEF IInv
<1>2. pel \in SUBSET (1..last) /\ batch \in [Workers -> SUBSET (1..last)]
  BY <1>1 DEF TypeOK
<1>3. last' = last /\ pel' \in SUBSET (1..last')
  BY <1>2 DEF Recover
<1>4. batch' \in [Workers -> SUBSET (1..last')]
  BY <1>2, <1>3 DEF Recover
<1>5. disturbed' \in SUBSET Orders
  <2>1. \A i \in claimed : log[i].order \in Orders
    <3>1. claimed \subseteq 1..Len(log)
      BY <1>1, <1>2, StreamType
    <3>2. QED
      BY <1>1, <3>1, StreamType
  <2>2. disturbed \in SUBSET Orders
    BY <1>1 DEF TypeOK
  <2>3. QED
    BY <2>1, <2>2 DEF Recover
<1>6. upsets' \in 0..MaxUpsets
  BY <1>1, OrderStreamAssumption DEF TypeOK, Recover, Upset
<1>7. QED
  BY <1>1, <1>3, <1>4, <1>5, <1>6 DEF TypeOK, Recover, operator, ghosts

\* The entry a worker deals with is one that was delivered.
LEMMA AtDelivered ==
    ASSUME IInv, NEW w \in Workers, stage[w] # "idle"
    PROVE  at[w] \in 1..Len(log) /\ at[w] \in Nat /\ log[at[w]] \in Entry
<1>1. TypeOK /\ Position(w)
  BY DEF IInv
<1>2. at[w] \in 1..last
  BY <1>1 DEF TypeOK, Position
<1>3. at[w] \in 1..Len(log)
  BY <1>1, <1>2, StreamType
<1>4. QED
  BY <1>1, <1>3, StreamType

LEMMA PostType == ASSUME IInv, NEW w \in Workers, Post(w) PROVE TypeOK'
<1>1. TypeOK
  BY DEF IInv
<1>2. PICK i \in batch[w] :
        /\ at' = [at EXCEPT ![w] = i]
        /\ crm' \in {crm, crm \cup {log[i].order}}
        /\ refused' \in {refused, refused \cup {log[i].order}}
        /\ blanked' \in {blanked, blanked \cup {log[i].order}}
        /\ stage' \in {[stage EXCEPT ![w] = s] : s \in {"park", "force", "ack"}}
  BY Zenon DEF Post
<1>3. i \in 1..last /\ log[i].order \in Orders
  <2>1. i \in 1..last
    BY <1>1 DEF TypeOK
  <2>2. QED
    BY <1>1, <2>1, StreamType
<1>4. at' \in [Workers -> 0..last] /\ stage' \in [Workers -> {"idle", "park", "force", "ack"}]
  <2>1. i \in 0..last
    BY <1>1, <1>3, StreamType
  <2>2. PICK s \in {"park", "force", "ack"} : stage' = [stage EXCEPT ![w] = s]
    BY <1>2
  <2>3. at \in [Workers -> 0..last] /\ stage \in [Workers -> {"idle", "park", "force", "ack"}]
    BY <1>1 DEF TypeOK
  <2>4. QED
    BY <1>2, <2>1, <2>2, <2>3
<1>5. crm' \in SUBSET Orders /\ refused' \in SUBSET Orders /\ blanked' \in SUBSET Orders
  BY <1>1, <1>2, <1>3 DEF TypeOK
<1>6. QED
  BY <1>1, <1>4, <1>5 DEF TypeOK, Post, stream, operator

LEMMA ParkType == ASSUME IInv, NEW w \in Workers, Park(w) PROVE TypeOK'
<1> DEFINE e == log[at[w]]
           d == [order |-> e.order, valid |-> e.valid]
           again == [e EXCEPT !.attempt = @ + 1]
<1>1. TypeOK /\ e \in Entry
  BY AtDelivered DEF IInv, Park
<1>2. stage' \in [Workers -> {"idle", "park", "force", "ack"}]
  BY <1>1 DEF TypeOK, Park
<1>3. CASE e.attempt + 1 > MaxAttempts
  <2>1. d \in Dead
    BY <1>1 DEF Entry, Dead
  <2>2. dlq' = Append(dlq, d) /\ UNCHANGED <<stream, trimmed>>
    BY <1>3 DEF Park
  <2>3. dlq' \in Seq(Dead)
    BY <1>1, <2>1, <2>2 DEF TypeOK
  <2>4. QED
    BY <1>1, <1>2, <2>2, <2>3 DEF TypeOK, Park, stream, operator, ghosts
<1>4. CASE ~(e.attempt + 1 > MaxAttempts)
  <2>1. again \in Entry
    BY <1>1, <1>4, OrderStreamAssumption DEF Entry
  <2>2. Add(again) /\ UNCHANGED dlq
    BY <1>4 DEF Park
  <2>3. QED
    BY <1>1, <1>2, <2>1, <2>2, AddTypeOK DEF TypeOK, Park, operator, ghosts
<1>5. QED
  BY <1>3, <1>4

LEMMA ForceType == ASSUME IInv, NEW w \in Workers, ForceDlq(w) PROVE TypeOK'
<1>1. TypeOK /\ log[at[w]] \in Entry
  BY AtDelivered DEF IInv, ForceDlq
<1>2. dlq' \in Seq(Dead)
  <2>1. [order |-> log[at[w]].order, valid |-> FALSE] \in Dead
    BY <1>1 DEF Entry, Dead
  <2>2. QED
    BY <1>1, <2>1 DEF TypeOK, ForceDlq
<1>3. QED
  BY <1>1, <1>2 DEF TypeOK, ForceDlq, stream, operator, ghosts

LEMMA AckType == ASSUME IInv, NEW w \in Workers, Ack(w) PROVE TypeOK'
<1>1. TypeOK
  BY DEF IInv
<1>2. /\ batch' \in [Workers -> SUBSET (1..last)] /\ at' \in [Workers -> 0..last]
      /\ stage' \in [Workers -> {"idle", "park", "force", "ack"}]
      /\ pel' \in SUBSET (1..last)
  <2>1. 0 \in 0..last
    BY <1>1, StreamType
  <2>2. QED
    BY <1>1, <2>1 DEF TypeOK, Ack, Leave
<1>3. QED
  BY <1>1, <1>2 DEF TypeOK, Ack, operator, ghosts

LEMMA CrashType == ASSUME IInv, NEW w \in Workers, Crash(w) PROVE TypeOK'
<1>1. TypeOK
  BY DEF IInv
<1>2. /\ batch' \in [Workers -> SUBSET (1..last)] /\ at' \in [Workers -> 0..last]
      /\ stage' \in [Workers -> {"idle", "park", "force", "ack"}]
  <2>1. 0 \in 0..last
    BY <1>1, StreamType
  <2>2. QED
    BY <1>1, <2>1 DEF TypeOK, Crash, Leave
<1>3. disturbed' \in SUBSET Orders
  <2>1. batch[w] \subseteq 1..last
    BY <1>1 DEF TypeOK
  <2>2. \A i \in batch[w] : log[i].order \in Orders
    <3>1. batch[w] \subseteq 1..Len(log)
      BY <1>1, <2>1, StreamType
    <3>2. QED
      BY <1>1, <3>1, StreamType
  <2>3. disturbed \in SUBSET Orders
    BY <1>1 DEF TypeOK
  <2>4. QED
    BY <2>2, <2>3 DEF Crash
<1>4. upsets' \in 0..MaxUpsets
  BY <1>1, OrderStreamAssumption DEF TypeOK, Crash, Upset
<1>5. QED
  BY <1>1, <1>2, <1>3, <1>4 DEF TypeOK, Crash, stream, operator, ghosts

\* The oldest dead letter, and what is left without it.
LEMMA HeadAndTail ==
    ASSUME TypeOK, dlq # <<>>
    PROVE  /\ Head(dlq) \in Dead /\ Head(dlq) = dlq[1]
           /\ Tail(dlq) \in Seq(Dead)
           /\ Len(dlq) \in Nat /\ Len(dlq) >= 1 /\ Len(Tail(dlq)) = Len(dlq) - 1
           /\ \A k \in 1..(Len(dlq) - 1) : Tail(dlq)[k] = dlq[k + 1]
BY DEF TypeOK

LEMMA DrainType ==
    ASSUME IInv, DrainRetry \/ DrainDelete \/ DrainDrop
    PROVE  TypeOK'
<1>1. TypeOK /\ dlq # <<>>
  BY DEF IInv, DrainRetry, DrainDelete, DrainDrop
<1>2. Head(dlq) \in Dead /\ Head(dlq).order \in Orders /\ Tail(dlq) \in Seq(Dead)
  <2>1. Head(dlq) \in Dead /\ Tail(dlq) \in Seq(Dead)
    BY <1>1, HeadAndTail
  <2>2. QED
    BY <2>1 DEF Dead
<1>3. CASE DrainRetry
  <2> DEFINE e == [order |-> Head(dlq).order, attempt |-> 1, valid |-> Head(dlq).valid]
  <2>1. e \in Entry
    BY <1>2, OrderStreamAssumption DEF Entry, Dead
  <2>2. Add(e) /\ disturbed' = disturbed \cup {Head(dlq).order}
    BY <1>3 DEF DrainRetry
  <2>3. upsets' \in 0..MaxUpsets
    BY <1>1, <1>3, OrderStreamAssumption DEF TypeOK, DrainRetry, Upset
  <2>4. QED
    BY <1>1, <1>2, <1>3, <2>1, <2>2, <2>3, AddTypeOK DEF TypeOK, DrainRetry, worker, ghosts
<1>4. CASE DrainDelete
  BY <1>1, <1>2, <1>4 DEF TypeOK, DrainDelete, stream, worker, ghosts
<1>5. CASE DrainDrop
  <2>1. upsets' \in 0..MaxUpsets
    BY <1>1, <1>5, OrderStreamAssumption DEF TypeOK, DrainDrop, Upset
  <2>2. QED
    BY <1>1, <1>2, <1>5, <2>1 DEF TypeOK, DrainDrop, stream, worker, ghosts
<1>6. QED
  BY <1>3, <1>4, <1>5

LEMMA NextType == ASSUME IInv, [Next]_vars PROVE TypeOK'
<1>1. CASE UNCHANGED vars
  BY <1>1 DEF IInv, TypeOK, vars, stream, worker, operator, ghosts
<1>2. CASE Next
  BY <1>2, PublishType, PollType, RecoverType, PostType, ParkType, ForceType, AckType,
     CrashType, DrainType DEF Next, Handle
<1>3. QED
  BY <1>1, <1>2

-----------------------------------------------------------------------------
(* The auxiliary conjuncts *)

\* Nothing changes a worker's batch without leaving or keeping its place in it.
LEMMA NextPosition == ASSUME IInv, [Next]_vars PROVE \A w \in Workers : Position(w)'
<1> SUFFICES ASSUME NEW v \in Workers PROVE Position(v)'
  OBVIOUS
<1>1. /\ TypeOK /\ Position(v)
      /\ batch \in [Workers -> SUBSET (1..last)] /\ at \in [Workers -> 0..last]
      /\ stage \in [Workers -> {"idle", "park", "force", "ack"}]
  BY DEF IInv, TypeOK
<1>2. ASSUME UNCHANGED worker PROVE Position(v)'
  BY <1>1, <1>2 DEF Position, worker
<1>3. ASSUME UNCHANGED <<batch, at>>, NEW w \in Workers, stage[w] # "idle",
             stage' = [stage EXCEPT ![w] = "ack"]
      PROVE  Position(v)'
  BY <1>1, <1>3 DEF IInv, Position
<1>4. ASSUME NEW w \in Workers, UNCHANGED <<at, stage>>, Idle(w),
             batch' = batch \/ \E b : batch' = [batch EXCEPT ![w] = b]
      PROVE  Position(v)'
  BY <1>1, <1>4 DEF Position, Idle
<1>5. ASSUME NEW w \in Workers, Leave(w),
             batch' = batch \/ \E b : batch' = [batch EXCEPT ![w] = b]
      PROVE  Position(v)'
  BY <1>1, <1>5 DEF Position, Leave
<1>6. ASSUME NEW w \in Workers, Post(w) PROVE Position(v)'
  <2>1. PICK i \in batch[w] :
          /\ at' = [at EXCEPT ![w] = i]
          /\ \E s : stage' = [stage EXCEPT ![w] = s]
          /\ batch' = batch
    BY <1>6, Zenon DEF Post
  <2>2. QED
    BY <1>1, <2>1 DEF Position
<1>7. ASSUME NEW w \in Workers, Poll(w) PROVE Position(v)'
  <2>1. UNCHANGED <<at, stage>> /\ Idle(w)
    BY <1>7 DEF Poll
  <2>2. batch' = batch \/ \E b : batch' = [batch EXCEPT ![w] = b]
    BY <1>7, Zenon DEF Poll
  <2>3. QED
    BY <1>4, <2>1, <2>2
<1>8. ASSUME NEW w \in Workers, NEW claimed, Recover(w, claimed) PROVE Position(v)'
  <2>1. UNCHANGED <<at, stage>> /\ Idle(w)
    BY <1>8 DEF Recover
  <2>2. batch' = batch \/ \E b : batch' = [batch EXCEPT ![w] = b]
    BY <1>8, Zenon DEF Recover
  <2>3. QED
    BY <1>4, <2>1, <2>2
<1>9. ASSUME NEW w \in Workers, Park(w) \/ ForceDlq(w) PROVE Position(v)'
  BY <1>3, <1>9 DEF Park, ForceDlq
<1>10. ASSUME NEW w \in Workers, Ack(w) \/ Crash(w) PROVE Position(v)'
  <2>1. Leave(w)
    BY <1>10 DEF Ack, Crash
  <2>2. batch' = batch \/ \E b : batch' = [batch EXCEPT ![w] = b]
    BY <1>10, Zenon DEF Ack, Crash
  <2>3. QED
    BY <1>5, <2>1, <2>2
<1>11. ASSUME (\E o \in Orders : Publish(o)) \/ DrainRetry \/ DrainDelete \/ DrainDrop
              \/ UNCHANGED vars
       PROVE  Position(v)'
  BY <1>2, <1>11 DEF Publish, DrainRetry, DrainDelete, DrainDrop, vars, worker
<1>12. QED
  BY <1>6, <1>7, <1>8, <1>9, <1>10, <1>11 DEF Next, Handle

\* The dead letters only grow until the operator deletes one.
LEMMA NextDrain == ASSUME IInv, [Next]_vars PROVE drain' => dlq' # <<>>
<1>1. TypeOK /\ (drain => dlq # <<>>)
  BY DEF IInv
<1>2. ASSUME NEW d, dlq' = Append(dlq, d) PROVE dlq' # <<>>
  <2>1. dlq \in Seq(Dead \cup {d}) /\ d \in Dead \cup {d}
    BY <1>1 DEF TypeOK
  <2>2. QED
    BY <1>2, <2>1, AppendProperties
<1>3. ASSUME NEW w \in Workers, Park(w) \/ ForceDlq(w) PROVE drain' => dlq' # <<>>
  BY <1>1, <1>2, <1>3 DEF Park, ForceDlq, operator
<1>4. ASSUME NEW w \in Workers,
             Poll(w) \/ Post(w) \/ Ack(w) \/ Crash(w) \/ \E claimed \in SUBSET pel : Recover(w, claimed)
      PROVE  drain' => dlq' # <<>>
  BY <1>1, <1>4 DEF Poll, Post, Ack, Crash, Recover, operator
<1>5. ASSUME (\E o \in Orders : Publish(o)) \/ DrainRetry \/ DrainDelete \/ DrainDrop
             \/ UNCHANGED vars
      PROVE  drain' => dlq' # <<>>
  BY <1>1, <1>5 DEF Publish, DrainRetry, DrainDelete, DrainDrop, vars, operator
<1>6. QED
  BY <1>3, <1>4, <1>5 DEF Next, Handle

-----------------------------------------------------------------------------
(* Nothing is lost *)

\* NothingLost speaks of each order on its own.
Safe(o) == Kept(o) \/ o \in blanked

LEMMA ByOrigin ==
    ASSUME NothingLost,
           crm \subseteq crm', refused \subseteq refused', blanked \subseteq blanked',
           dropped \subseteq dropped', trimmed \subseteq trimmed',
           \A o : o \in published' => o \in published \/ Safe(o)',
           \A o : \A i \in 1..Len(log) :
               Waiting(i) /\ i \notin Moving /\ log[i].order = o => Safe(o)',
           \A o : \A k \in DeadOnes : dlq[k].order = o => Safe(o)'
    PROVE  NothingLost'
<1> SUFFICES ASSUME NEW o, o \in published' PROVE Safe(o)'
  BY DEF NothingLost, Safe
<1>1. CASE o \in crm \cup refused \cup dropped \cup trimmed \cup blanked
  BY <1>1 DEF Safe, Kept
<1>2. CASE \E i \in 1..Len(log) : Waiting(i) /\ i \notin Moving /\ log[i].order = o
  BY <1>2
<1>3. CASE \E k \in DeadOnes : dlq[k].order = o
  BY <1>3
<1>4. QED
  BY <1>1, <1>2, <1>3 DEF NothingLost, Kept, Safe

\* An entry that waits is still there and nobody has moved it.
LEMMA StillWaits ==
    ASSUME NEW o, NEW i \in 1..Len(log'), log'[i].order = o, Waiting(i)', i \notin Moving'
    PROVE  Safe(o)'
BY DEF Safe, Kept

LEMMA StillDead ==
    ASSUME NEW o, NEW k \in DeadOnes', dlq'[k].order = o
    PROVE  Safe(o)'
BY DEF Safe, Kept

\* When no worker's step changes, neither does what is being acknowledged.
LEMMA SameMoving == ASSUME UNCHANGED <<at, stage>> PROVE Moving' = Moving
BY DEF Moving

\* When one worker begins something else than to acknowledge, less is moving.
LEMMA LessMoving ==
    ASSUME TypeOK, NEW w \in Workers, NEW i, NEW s, s # "ack",
           at' = [at EXCEPT ![w] = i], stage' = [stage EXCEPT ![w] = s]
    PROVE  Moving' \subseteq Moving
<1>1. at \in [Workers -> 0..last] /\ stage \in [Workers -> {"idle", "park", "force", "ack"}]
  BY DEF TypeOK
<1>2. ASSUME NEW v \in Workers, stage'[v] = "ack" PROVE stage[v] = "ack" /\ at'[v] = at[v]
  BY <1>1, <1>2
<1>3. QED
  BY <1>2 DEF Moving

\* When one worker begins to acknowledge an entry, only that one moves too.
LEMMA OneMoreMoving ==
    ASSUME TypeOK, NEW w \in Workers, NEW i,
           at' = [at EXCEPT ![w] = i], stage' = [stage EXCEPT ![w] = "ack"]
    PROVE  Moving' \subseteq Moving \cup {i}
<1>1. at \in [Workers -> 0..last] /\ stage \in [Workers -> {"idle", "park", "force", "ack"}]
  BY DEF TypeOK
<1>2. ASSUME NEW v \in Workers, stage'[v] = "ack"
      PROVE  at'[v] = i \/ (stage[v] = "ack" /\ at'[v] = at[v])
  BY <1>1, <1>2
<1>3. QED
  BY <1>2 DEF Moving

\* An XADD keeps every waiting entry's order, and gives its own a copy.
LEMMA AddIsSafe ==
    ASSUME IInv, NEW e \in Entry, Add(e),
           NEW o, NEW i \in 1..Len(log), Waiting(i), i \notin Moving', log[i].order = o
    PROVE  Safe(o)'
<1>1. /\ i \in 1..Len(log') /\ log'[i] = log[i]
      /\ Waiting(i)' \/ log[i].order \in trimmed'
  BY AddKeeps DEF IInv
<1>2. CASE Waiting(i)'
  BY <1>1, <1>2, StillWaits
<1>3. CASE log[i].order \in trimmed'
  BY <1>3 DEF Safe, Kept
<1>4. QED
  BY <1>1, <1>2, <1>3

LEMMA AddedIsSafe ==
    ASSUME IInv, NEW e \in Entry, Add(e), Moving' \subseteq 1..last', NEW o, e.order = o
    PROVE  Safe(o)'
<1>1. PICK n \in 1..Len(log') : log'[n] = e /\ Waiting(n)' /\ n > last'
  BY AddKeeps DEF IInv
<1>2. last' \in Nat
  BY AddType, StreamType DEF IInv
<1>3. n \notin Moving'
  BY <1>1, <1>2
<1>4. QED
  BY <1>1, <1>3, StillWaits

\* Steps that leave the log, the dead letters and the drain alone: every
\* waiting entry that nobody had moved still waits, or its order is settled.
LEMMA QuietStep ==
    ASSUME NothingLost, UNCHANGED <<log, dlq, drain, published, dropped, trimmed>>,
           crm \subseteq crm', refused \subseteq refused', blanked \subseteq blanked',
           \A i \in 1..Len(log) : Waiting(i) /\ i \notin Moving =>
               \/ Waiting(i)' /\ i \notin Moving'
               \/ log[i].order \in crm' \cup refused' \cup blanked'
    PROVE  NothingLost'
<1>1. ASSUME NEW o, NEW i \in 1..Len(log), Waiting(i), i \notin Moving, log[i].order = o
      PROVE  Safe(o)'
  <2>1. CASE Waiting(i)' /\ i \notin Moving'
    BY <1>1, <2>1, StillWaits
  <2>2. CASE log[i].order \in crm' \cup refused' \cup blanked'
    BY <1>1, <2>2 DEF Safe, Kept
  <2>3. QED
    BY <1>1, <2>1, <2>2
<1>2. ASSUME NEW o, NEW k \in DeadOnes, dlq[k].order = o PROVE Safe(o)'
  <2>1. k \in DeadOnes' /\ dlq'[k].order = o
    BY <1>2 DEF DeadOnes
  <2>2. QED
    BY <2>1, StillDead
<1>3. QED
  BY <1>1, <1>2, ByOrigin

LEMMA PublishSafe == ASSUME IInv, NEW q \in Orders, Publish(q) PROVE NothingLost'
<1> DEFINE e == [order |-> q, attempt |-> 1, valid |-> TRUE]
<1>1. e \in Entry /\ Add(e) /\ TypeOK /\ NothingLost
  BY OrderStreamAssumption DEF Entry, Publish, IInv
<1>2. UNCHANGED <<dlq, drain, crm, refused, blanked, dropped, at, stage>>
      /\ published' = published \cup {q}
  BY DEF Publish, worker, operator
<1>3. Moving' = Moving /\ Moving' \subseteq 1..last'
  BY <1>1, <1>2, SameMoving, MovingDelivered, AddType DEF IInv
<1>4. ASSUME NEW o, o \in published' PROVE o \in published \/ Safe(o)'
  BY <1>1, <1>2, <1>3, <1>4, AddedIsSafe
<1>5. ASSUME NEW o, NEW i \in 1..Len(log), Waiting(i), i \notin Moving, log[i].order = o
      PROVE  Safe(o)'
  BY <1>1, <1>3, <1>5, AddIsSafe
<1>6. ASSUME NEW o, NEW k \in DeadOnes, dlq[k].order = o PROVE Safe(o)'
  <2>1. k \in DeadOnes' /\ dlq'[k].order = o
    BY <1>2, <1>6 DEF DeadOnes
  <2>2. QED
    BY <2>1, StillDead
<1>7. trimmed \subseteq trimmed'
  BY <1>1, AddKeeps
<1>8. QED
  BY <1>1, <1>2, <1>4, <1>5, <1>6, <1>7, ByOrigin

LEMMA PollSafe == ASSUME IInv, NEW w \in Workers, Poll(w) PROVE NothingLost'
<1> DEFINE from == IF last + 1 < first THEN first ELSE last + 1
           to   == IF from + Count - 1 < Len(log) THEN from + Count - 1 ELSE Len(log)
<1>1. TypeOK /\ NothingLost
  BY DEF IInv
<1>2. last' = to /\ pel' = pel \cup (from..to) /\ from <= Len(log) /\ first' = first
  BY DEF Poll
<1>3. UNCHANGED <<log, dlq, drain, published, crm, refused, blanked, dropped, trimmed, at, stage>>
  BY DEF Poll, operator, ghosts
<1>4. ASSUME NEW i \in 1..Len(log), Waiting(i) PROVE Waiting(i)'
  <2>1. i \in first..Len(log) /\ (i > last \/ i \in pel)
    BY <1>4 DEF Waiting
  <2>2. CASE i \in pel
    BY <1>2, <1>3, <2>1, <2>2 DEF Waiting
  <2>3. CASE i > last
    <3>1. i > to \/ i \in from..to
      BY <1>1, <2>1, <2>3, StreamType, OrderStreamAssumption
    <3>2. QED
      BY <1>2, <1>3, <2>1, <3>1 DEF Waiting
  <2>4. QED
    BY <2>1, <2>2, <2>3
<1>5. Moving' = Moving
  BY <1>3, SameMoving
<1>6. QED
  BY <1>1, <1>3, <1>4, <1>5, QuietStep

LEMMA RecoverSafe ==
    ASSUME IInv, NEW w \in Workers, NEW claimed \in SUBSET pel, Recover(w, claimed)
    PROVE  NothingLost'
<1>1. TypeOK /\ NothingLost
  BY DEF IInv
<1>2. /\ UNCHANGED <<log, first, last, dlq, drain, published, crm, refused, blanked, dropped,
                     trimmed, at, stage>>
      /\ pel' = {i \in pel : i \in claimed => i >= first}
  BY DEF Recover, operator, ghosts
<1>3. ASSUME NEW i \in 1..Len(log), Waiting(i) PROVE Waiting(i)'
  <2>1. i \in first..Len(log) /\ (i > last \/ i \in pel)
    BY <1>3 DEF Waiting
  <2>2. i >= first
    BY <1>1, <2>1, StreamType
  <2>3. i > last \/ i \in pel'
    BY <1>2, <2>1, <2>2
  <2>4. QED
    BY <1>2, <2>1, <2>3 DEF Waiting
<1>4. Moving' = Moving
  BY <1>2, SameMoving
<1>5. QED
  BY <1>1, <1>2, <1>3, <1>4, QuietStep

LEMMA PostSafe == ASSUME IInv, NEW w \in Workers, Post(w) PROVE NothingLost'
<1>1. TypeOK /\ NothingLost
  BY DEF IInv
<1>2. PICK i \in batch[w] :
        /\ at' = [at EXCEPT ![w] = i]
        /\ crm \subseteq crm' /\ refused \subseteq refused' /\ blanked \subseteq blanked'
        /\ \/ /\ stage' = [stage EXCEPT ![w] = "ack"]
              /\ log[i].order \in crm' \cup refused' \cup blanked'
           \/ stage' = [stage EXCEPT ![w] = "park"]
           \/ stage' = [stage EXCEPT ![w] = "force"]
  BY DEF Post
<1>3. UNCHANGED <<log, first, last, pel, dlq, drain, published, dropped, trimmed>>
  BY DEF Post, stream, operator
<1>4. Moving' \subseteq Moving
      \/ (Moving' \subseteq Moving \cup {i} /\ log[i].order \in crm' \cup refused' \cup blanked')
  BY <1>1, <1>2, LessMoving, OneMoreMoving
<1>5. \A j \in 1..Len(log) : Waiting(j) => Waiting(j)'
  BY <1>3 DEF Waiting
<1>6. QED
  BY <1>1, <1>2, <1>3, <1>4, <1>5, QuietStep

LEMMA AckSafe == ASSUME IInv, NEW w \in Workers, Ack(w) PROVE NothingLost'
<1>1. TypeOK /\ NothingLost
  BY DEF IInv
<1>2. /\ UNCHANGED <<log, first, last, dlq, drain, published, crm, refused, blanked, dropped,
                     trimmed>>
      /\ pel' = pel \ {at[w]} /\ stage[w] = "ack"
      /\ at' = [at EXCEPT ![w] = 0] /\ stage' = [stage EXCEPT ![w] = "idle"]
  BY DEF Ack, Leave, operator, ghosts
<1>3. Moving' \subseteq Moving
  BY <1>1, <1>2, LessMoving
<1>4. at[w] \in Moving
  BY <1>2 DEF Moving
<1>5. ASSUME NEW i \in 1..Len(log), Waiting(i), i \notin Moving PROVE Waiting(i)'
  BY <1>2, <1>4, <1>5 DEF Waiting
<1>6. QED
  BY <1>1, <1>2, <1>3, <1>5, QuietStep

LEMMA CrashSafe == ASSUME IInv, NEW w \in Workers, Crash(w) PROVE NothingLost'
<1>1. TypeOK /\ NothingLost
  BY DEF IInv
<1>2. /\ UNCHANGED <<log, first, last, pel, dlq, drain, published, crm, refused, blanked,
                     dropped, trimmed>>
      /\ at' = [at EXCEPT ![w] = 0] /\ stage' = [stage EXCEPT ![w] = "idle"]
  BY DEF Crash, Leave, stream, operator, ghosts
<1>3. Moving' \subseteq Moving
  BY <1>1, <1>2, LessMoving
<1>4. \A i \in 1..Len(log) : Waiting(i) => Waiting(i)'
  BY <1>2 DEF Waiting
<1>5. QED
  BY <1>1, <1>2, <1>3, <1>4, QuietStep

\* A new dead letter keeps its order and all the others'.
LEMMA DeadGrows ==
    ASSUME IInv, NEW d \in Dead, dlq' = Append(dlq, d), drain' = drain
    PROVE  /\ \A o : d.order = o => Safe(o)'
           /\ \A o : \A k \in DeadOnes : dlq[k].order = o => Safe(o)'
<1>1. /\ dlq \in Seq(Dead) /\ Len(dlq) \in Nat /\ (drain => Len(dlq) >= 1)
      /\ Len(dlq') = Len(dlq) + 1 /\ dlq'[Len(dlq) + 1] = d
      /\ \A k \in 1..Len(dlq) : dlq'[k] = dlq[k]
  BY DEF IInv, TypeOK
<1>2. ASSUME NEW o, d.order = o PROVE Safe(o)'
  <2>1. PICK k \in Nat : k = Len(dlq) + 1
    BY <1>1
  <2>2. k \in DeadOnes' /\ dlq'[k].order = o
    BY <1>1, <1>2, <2>1 DEF DeadOnes
  <2>3. QED
    BY <2>2, StillDead
<1>3. ASSUME NEW o, NEW k \in DeadOnes, dlq[k].order = o PROVE Safe(o)'
  <2>1. k \in DeadOnes' /\ dlq'[k].order = o
    BY <1>1, <1>3 DEF DeadOnes
  <2>2. QED
    BY <2>1, StillDead
<1>4. QED
  BY <1>2, <1>3

\* A worker that dead-letters its entry loses neither that one nor another.
LEMMA DeadLetterSafe ==
    ASSUME IInv, NEW w \in Workers, NEW d \in Dead, dlq' = Append(dlq, d),
           stage[w] # "idle", d.order = log[at[w]].order,
           stage' = [stage EXCEPT ![w] = "ack"],
           UNCHANGED <<log, first, last, pel, at, drain, published, crm, refused, blanked,
                       dropped, trimmed>>
    PROVE  NothingLost'
<1>1. TypeOK /\ NothingLost
  BY DEF IInv
<1>2. at' = [at EXCEPT ![w] = at[w]]
  BY <1>1 DEF TypeOK
<1>3. Moving' \subseteq Moving \cup {at[w]}
  BY <1>1, <1>2, OneMoreMoving
<1>4. ASSUME NEW o, NEW i \in 1..Len(log), Waiting(i), i \notin Moving, log[i].order = o
      PROVE  Safe(o)'
  <2>1. CASE i = at[w]
    BY <1>4, <2>1, DeadGrows
  <2>2. CASE i # at[w]
    <3>1. Waiting(i)' /\ i \notin Moving'
      BY <1>3, <1>4, <2>2 DEF Waiting
    <3>2. QED
      BY <1>4, <3>1, StillWaits
  <2>3. QED
    BY <2>1, <2>2
<1>5. QED
  BY <1>1, <1>4, DeadGrows, ByOrigin

LEMMA ParkSafe == ASSUME IInv, NEW w \in Workers, Park(w) PROVE NothingLost'
<1> DEFINE e == log[at[w]]
           d == [order |-> e.order, valid |-> e.valid]
           again == [e EXCEPT !.attempt = @ + 1]
<1>1. TypeOK /\ NothingLost /\ stage[w] = "park" /\ e \in Entry
  BY AtDelivered DEF IInv, Park
<1>2. /\ UNCHANGED <<at, drain, published, crm, refused, blanked, dropped>>
      /\ stage' = [stage EXCEPT ![w] = "ack"]
  BY DEF Park, operator, ghosts
<1>3. CASE e.attempt + 1 > MaxAttempts
  <2>1. d \in Dead /\ d.order = log[at[w]].order
    BY <1>1 DEF Entry, Dead
  <2>2. dlq' = Append(dlq, d) /\ UNCHANGED <<log, first, last, pel, trimmed>>
    BY <1>3 DEF Park, stream
  <2>3. QED
    BY <1>1, <1>2, <2>1, <2>2, DeadLetterSafe
<1>4. CASE ~(e.attempt + 1 > MaxAttempts)
  <2>1. again \in Entry /\ again.order = e.order
    BY <1>1, <1>4, OrderStreamAssumption DEF Entry
  <2>2. Add(again) /\ UNCHANGED dlq
    BY <1>4 DEF Park
  <2>3. at' = [at EXCEPT ![w] = at[w]]
    BY <1>1, <1>2 DEF TypeOK
  <2>4. Moving' \subseteq Moving \cup {at[w]}
    BY <1>1, <1>2, <2>3, OneMoreMoving
  <2>5. Moving' \subseteq 1..last'
    <3>1. Moving \subseteq 1..last
      BY MovingDelivered DEF IInv
    <3>2. at[w] \in 1..last
      BY <1>1 DEF IInv, TypeOK, Position
    <3>3. last' = last
      BY <1>1, <2>1, <2>2, AddType
    <3>4. QED
      BY <2>4, <3>1, <3>2, <3>3
  <2>6. ASSUME NEW o, NEW i \in 1..Len(log), Waiting(i), i \notin Moving, log[i].order = o
        PROVE  Safe(o)'
    <3>1. CASE i = at[w]
      BY <2>1, <2>2, <2>5, <2>6, <3>1, AddedIsSafe
    <3>2. CASE i # at[w]
      BY <2>1, <2>2, <2>4, <2>6, <3>2, AddIsSafe
    <3>3. QED
      BY <3>1, <3>2
  <2>7. ASSUME NEW o, NEW k \in DeadOnes, dlq[k].order = o PROVE Safe(o)'
    <3>1. k \in DeadOnes' /\ dlq'[k].order = o
      BY <1>2, <2>2, <2>7 DEF DeadOnes
    <3>2. QED
      BY <3>1, StillDead
  <2>8. trimmed \subseteq trimmed'
    BY <1>1, <2>1, <2>2, AddKeeps
  <2>9. QED
    BY <1>1, <1>2, <2>6, <2>7, <2>8, ByOrigin
<1>5. QED
  BY <1>3, <1>4

LEMMA ForceSafe == ASSUME IInv, NEW w \in Workers, ForceDlq(w) PROVE NothingLost'
<1> DEFINE d == [order |-> log[at[w]].order, valid |-> FALSE]
<1>1. stage[w] = "force" /\ log[at[w]] \in Entry
  BY AtDelivered DEF ForceDlq
<1>2. d \in Dead /\ d.order = log[at[w]].order
  BY <1>1 DEF Entry, Dead
<1>3. /\ dlq' = Append(dlq, d) /\ stage' = [stage EXCEPT ![w] = "ack"]
      /\ UNCHANGED <<log, first, last, pel, at, drain, published, crm, refused, blanked,
                     dropped, trimmed>>
  BY DEF ForceDlq, stream, operator, ghosts
<1>4. QED
  BY <1>1, <1>2, <1>3, DeadLetterSafe

LEMMA DrainRetrySafe == ASSUME IInv, DrainRetry PROVE NothingLost'
<1> DEFINE e == [order |-> Head(dlq).order, attempt |-> 1, valid |-> Head(dlq).valid]
<1>1. /\ TypeOK /\ NothingLost /\ dlq # <<>> /\ ~drain /\ drain'
      /\ Add(e)
      /\ UNCHANGED <<dlq, at, stage, published, crm, refused, blanked, dropped>>
  BY DEF IInv, DrainRetry, worker, ghosts
<1>2. e \in Entry
  <2>1. Head(dlq) \in Dead
    BY <1>1, HeadAndTail
  <2>2. QED
    BY <2>1, OrderStreamAssumption DEF Entry, Dead
<1>3. Moving' = Moving /\ Moving' \subseteq 1..last'
  BY <1>1, <1>2, SameMoving, MovingDelivered, AddType DEF IInv
<1>4. ASSUME NEW o, NEW i \in 1..Len(log), Waiting(i), i \notin Moving, log[i].order = o
      PROVE  Safe(o)'
  BY <1>1, <1>2, <1>3, <1>4, AddIsSafe
<1>5. ASSUME NEW o, NEW k \in DeadOnes, dlq[k].order = o PROVE Safe(o)'
  <2>1. CASE k = 1
    <3>1. e.order = o
      BY <1>1, <1>5, <2>1, HeadAndTail
    <3>2. QED
      BY <1>1, <1>2, <1>3, <3>1, AddedIsSafe
  <2>2. CASE k # 1
    <3>1. k \in DeadOnes' /\ dlq'[k].order = o
      BY <1>1, <1>5, <2>2, HeadAndTail DEF DeadOnes
    <3>2. QED
      BY <3>1, StillDead
  <2>3. QED
    BY <2>1, <2>2
<1>6. trimmed \subseteq trimmed'
  BY <1>1, <1>2, AddKeeps
<1>7. QED
  BY <1>1, <1>4, <1>5, <1>6, ByOrigin

LEMMA DrainEndSafe == ASSUME IInv, DrainDelete \/ DrainDrop PROVE NothingLost'
<1>1. /\ TypeOK /\ NothingLost /\ dlq # <<>>
      /\ UNCHANGED <<log, first, last, pel, at, stage, published, crm, refused, blanked, trimmed>>
      /\ dropped \subseteq dropped'
  BY DEF IInv, DrainDelete, DrainDrop, stream, worker, ghosts
<1>2. Moving' = Moving
  BY <1>1, SameMoving
<1>3. ASSUME NEW o, NEW i \in 1..Len(log), Waiting(i), i \notin Moving, log[i].order = o
      PROVE  Safe(o)'
  <2>1. Waiting(i)'
    BY <1>1, <1>3 DEF Waiting
  <2>2. QED
    BY <1>1, <1>2, <1>3, <2>1, StillWaits
<1>4. ASSUME NEW o, NEW k \in DeadOnes, dlq[k].order = o PROVE Safe(o)'
  <2>1. k \in 1..Len(dlq) /\ Len(dlq) \in Nat /\ (drain => k >= 2)
    BY <1>1, <1>4, HeadAndTail DEF DeadOnes
  <2>2. CASE dlq' = dlq
    <3>1. k \in DeadOnes' /\ dlq'[k].order = o
      BY <1>4, <2>1, <2>2 DEF DeadOnes, DrainDelete, DrainDrop
    <3>2. QED
      BY <3>1, StillDead
  <2>3. CASE dlq' = Tail(dlq) /\ k = 1
    BY <1>1, <1>4, <2>1, <2>3, HeadAndTail DEF DrainDelete, DrainDrop, Safe, Kept
  <2>4. CASE dlq' = Tail(dlq) /\ k # 1
    <3>1. PICK j \in Nat : j = k - 1
      BY <2>1
    <3>2. j \in 1..(Len(dlq) - 1) /\ j + 1 = k
      BY <2>1, <2>4, <3>1
    <3>3. dlq'[j].order = o /\ Len(dlq') = Len(dlq) - 1
      BY <1>1, <1>4, <2>4, <3>2, HeadAndTail
    <3>4. ~drain'
      BY DEF DrainDelete, DrainDrop
    <3>5. j \in DeadOnes'
      BY <3>2, <3>3, <3>4 DEF DeadOnes
    <3>6. QED
      BY <3>3, <3>5, StillDead
  <2>5. QED
    BY <2>2, <2>3, <2>4 DEF DrainDelete, DrainDrop
<1>5. QED
  BY <1>1, <1>3, <1>4, ByOrigin

LEMMA NextNothingLost == ASSUME IInv, [Next]_vars PROVE NothingLost'
<1>1. CASE UNCHANGED vars
  BY <1>1 DEF IInv, NothingLost, Kept, DeadOnes, Waiting, Moving, vars, stream, operator, worker, ghosts
<1>2. CASE Next
  BY <1>2, PublishSafe, PollSafe, RecoverSafe, PostSafe, ParkSafe, ForceSafe, AckSafe,
     CrashSafe, DrainRetrySafe, DrainEndSafe DEF Next, Handle
<1>3. QED
  BY <1>1, <1>2

-----------------------------------------------------------------------------
(* One copy at a time *)

\* The entries of an order are positions in the log with a number of attempts.
LEMMA EntriesType ==
    ASSUME TypeOK, NEW o, NEW i \in Entries(o)
    PROVE  /\ i \in 1..Len(log) /\ i \in Nat /\ log[i].order = o
           /\ log[i].attempt \in Nat /\ log[i].attempt \in 1..MaxAttempts
<1>1. i \in 1..Len(log) /\ log[i].order = o
  BY DEF Entries
<1>2. log[i] \in Entry
  BY <1>1, StreamType
<1>3. log[i].attempt \in 1..MaxAttempts
  BY <1>2 DEF Entry
<1>4. QED
  BY <1>1, <1>3, StreamType, OrderStreamAssumption

\* A step after which no other entry of the order is live, no other worker has
\* one and no other dead letter appears keeps its copies in single file.
LEMMA KeepsFile ==
    ASSUME NEW o, SingleFile(o), Entries(o)' = Entries(o),
           \A i \in Entries(o) : log'[i] = log[i],
           \A i \in Entries(o) : LiveEntry(i)' => LiveEntry(i),
           \A i \in Entries(o) : \A v, w \in Workers : i \in batch'[v] \cap batch'[w] => v = w,
           \A k, l \in DeadLetters(o)' : k = l,
           DeadLetters(o)' # {} => DeadLetters(o) # {}
    PROVE  SingleFile(o)'
<1>1. \A i, j \in Entries(o)' : i < j => log'[i].attempt < log'[j].attempt
  BY DEF SingleFile
<1>2. \A i, j \in Entries(o)' : LiveEntry(i)' => j <= i
  BY DEF SingleFile
<1>3. (\E i \in Entries(o)' : LiveEntry(i)') => DeadLetters(o)' = {}
  BY DEF SingleFile
<1>4. QED
  BY <1>1, <1>2, <1>3 DEF SingleFile

\* The same for a step that leaves the log and the dead letters alone.
LEMMA SameLog ==
    ASSUME NEW o, SingleFile(o), UNCHANGED <<log, dlq, drain>>,
           \A i \in Entries(o) : LiveEntry(i)' => LiveEntry(i),
           \A i \in Entries(o) : \A v, w \in Workers : i \in batch'[v] \cap batch'[w] => v = w
    PROVE  SingleFile(o)'
<1>1. Entries(o)' = Entries(o) /\ \A i \in Entries(o) : log'[i] = log[i]
  BY DEF Entries
<1>2. DeadLetters(o)' = DeadLetters(o)
  BY DEF DeadLetters, DeadOnes
<1>3. \A k, l \in DeadLetters(o)' : k = l
  BY <1>2 DEF SingleFile
<1>4. QED
  BY <1>1, <1>2, <1>3, KeepsFile

\* Its one live entry is its newest, has the most attempts and no dead letter.
LEMMA NewestIsLive ==
    ASSUME TypeOK, NEW o, SingleFile(o), NEW a \in Entries(o), LiveEntry(a)
    PROVE  /\ \A i \in Entries(o) : LiveEntry(i) => i = a
           /\ \A i \in Entries(o) : log[i].attempt <= log[a].attempt
           /\ DeadLetters(o) = {}
<1>1. ASSUME NEW i \in Entries(o), LiveEntry(i) PROVE i = a
  <2>1. i <= a /\ a <= i
    BY <1>1 DEF SingleFile
  <2>2. QED
    BY <2>1, EntriesType
<1>2. ASSUME NEW i \in Entries(o) PROVE log[i].attempt <= log[a].attempt
  <2>1. i <= a
    BY DEF SingleFile
  <2>2. CASE i = a
    BY <2>2, EntriesType
  <2>3. CASE i < a
    BY <2>3, EntriesType DEF SingleFile
  <2>4. QED
    BY <2>1, <2>2, <2>3, EntriesType
<1>3. QED
  BY <1>1, <1>2 DEF SingleFile

\* An entry a worker is about to give up is live: no other worker has it.
LEMMA AtIsLive ==
    ASSUME IInv, NEW w \in Workers, stage[w] # "idle", stage[w] # "ack",
           NEW o, log[at[w]].order = o, SingleFile(o)
    PROVE  at[w] \in Entries(o) /\ at[w] \in batch[w] /\ LiveEntry(at[w])
<1>1. at[w] \in Entries(o)
  BY AtDelivered DEF Entries
<1>2. at[w] \in batch[w] /\ at[w] \in Held
  BY DEF IInv, Position, Held
<1>3. ASSUME NEW v \in Workers, stage[v] = "ack", at[v] = at[w] PROVE FALSE
  <2>1. at[w] \in batch[v]
    BY <1>3 DEF IInv, Position
  <2>2. v = w
    BY <1>1, <1>2, <2>1 DEF SingleFile
  <2>3. QED
    BY <1>3, <2>2
<1>4. at[w] \notin Moving
  BY <1>3 DEF Moving
<1>5. QED
  BY <1>1, <1>2, <1>4 DEF LiveEntry

\* A worker that begins something leaves the entries of the others moving.
LEMMA MovingStays ==
    ASSUME TypeOK, NEW w \in Workers, NEW i, NEW s,
           at' = [at EXCEPT ![w] = i], stage' = [stage EXCEPT ![w] = s]
    PROVE  \A j \in Moving : stage[w] # "ack" \/ j # at[w] => j \in Moving'
<1>1. at \in [Workers -> 0..last] /\ stage \in [Workers -> {"idle", "park", "force", "ack"}]
  BY DEF TypeOK
<1>2. ASSUME NEW v \in Workers, stage[v] = "ack", stage[w] # "ack" \/ at[v] # at[w]
      PROVE  stage'[v] = "ack" /\ at'[v] = at[v]
  BY <1>1, <1>2
<1>3. QED
  BY <1>2 DEF Moving

\* A worker that begins to acknowledge its entry moves it.
LEMMA NowMoving ==
    ASSUME TypeOK, NEW w \in Workers, at' = at, stage' = [stage EXCEPT ![w] = "ack"]
    PROVE  Moving \subseteq Moving' /\ at[w] \in Moving'
<1>1. at \in [Workers -> 0..last] /\ stage \in [Workers -> {"idle", "park", "force", "ack"}]
  BY DEF TypeOK
<1>2. \A v \in Workers : stage[v] = "ack" => stage'[v] = "ack"
  BY <1>1
<1>3. stage'[w] = "ack"
  BY <1>1
<1>4. QED
  BY <1>2, <1>3 DEF Moving

-----------------------------------------------------------------------------
(* The steps of a worker *)

LEMMA PollFile ==
    ASSUME IInv, NEW w \in Workers, Poll(w), NEW o, SingleFile(o) PROVE SingleFile(o)'
<1> DEFINE from == IF last + 1 < first THEN first ELSE last + 1
           to   == IF from + Count - 1 < Len(log) THEN from + Count - 1 ELSE Len(log)
<1>1. TypeOK /\ batch \in [Workers -> SUBSET (1..last)]
  BY DEF IInv, TypeOK
<1>2. /\ last' = to /\ pel' = pel \cup (from..to) /\ from <= Len(log)
      /\ batch' = [batch EXCEPT ![w] = from..to] \/ batch' = batch
      /\ UNCHANGED <<log, first, dlq, drain, at, stage>>
  BY DEF Poll, operator
<1>3. /\ to \in Nat /\ last <= to /\ to <= Len(log)
      /\ from \in Nat /\ first <= from /\ last < from
  BY <1>1, <1>2, StreamType, OrderStreamAssumption
<1> HIDE DEF from, to
<1>4. ASSUME NEW i \in from..to PROVE i \in 1..Len(log) => Waiting(i) /\ i > last
  BY <1>1, <1>3, <1>4, StreamType DEF Waiting
<1>5. ASSUME NEW i \in Entries(o), LiveEntry(i)' PROVE LiveEntry(i)
  <2>1. i \notin Moving /\ i \in 1..Len(log) /\ i \in Nat
    BY <1>1, <1>2, <1>5, SameMoving, EntriesType DEF LiveEntry
  <2>2. CASE i \in from..to
    BY <1>4, <2>1, <2>2 DEF LiveEntry
  <2>3. CASE i \in Held' /\ i \notin from..to
    <3>1. PICK v \in Workers : i \in batch'[v]
      BY <2>3 DEF Held
    <3>2. i \in batch[v]
      BY <1>1, <1>2, <2>3, <3>1
    <3>3. QED
      BY <2>1, <3>2 DEF LiveEntry, Held
  <2>4. CASE Waiting(i)' /\ i \notin from..to
    <3>1. i \in first..Len(log) /\ (i > to \/ i \in pel)
      BY <1>2, <2>4 DEF Waiting
    <3>2. i > last \/ i \in pel
      BY <1>1, <1>3, <2>1, <3>1, StreamType
    <3>3. QED
      BY <2>1, <3>1, <3>2 DEF LiveEntry, Waiting
  <2>5. QED
    BY <1>5, <2>2, <2>3, <2>4 DEF LiveEntry
<1>6. ASSUME NEW i \in Entries(o), NEW v \in Workers, NEW u \in Workers,
             i \in batch'[v] \cap batch'[u]
      PROVE  v = u
  <2>1. \A x \in Workers : i \in batch[x] => i \notin from..to
    <3>1. \A x \in Workers : i \in batch[x] => i \in 1..last
      BY <1>1
    <3>2. QED
      BY <1>1, <1>3, <3>1, StreamType
  <2>2. \A x \in Workers : i \in batch'[x] => i \in batch[x] \/ (x = w /\ i \in from..to)
    BY <1>1, <1>2
  <2>3. i \in batch[v] \cap batch[u] => v = u
    BY DEF SingleFile
  <2>4. QED
    BY <1>6, <2>1, <2>2, <2>3
<1>7. QED
  BY <1>2, <1>5, <1>6, SameLog

LEMMA RecoverFile ==
    ASSUME IInv, NEW w \in Workers, NEW claimed \in SUBSET pel, Recover(w, claimed),
           NEW o, o \notin disturbed', SingleFile(o)
    PROVE  SingleFile(o)'
<1>1. TypeOK /\ batch \in [Workers -> SUBSET (1..last)]
  BY DEF IInv, TypeOK
<1>2. /\ UNCHANGED <<log, first, last, dlq, drain, at, stage>>
      /\ pel' = {i \in pel : i \in claimed => i >= first}
      /\ batch' = [batch EXCEPT ![w] = {i \in claimed : i >= first}]
      /\ disturbed' = disturbed \cup {log[i].order : i \in claimed \cap Held}
  BY DEF Recover, operator
<1>3. \A x \in Workers : \A i :
          i \in batch'[x] => i \in batch[x] \/ (x = w /\ i \in claimed /\ i >= first)
  BY <1>1, <1>2
<1>4. \A i \in Entries(o) : i \in claimed => i \notin Held
  BY <1>2 DEF Entries
<1>5. ASSUME NEW i \in Entries(o), LiveEntry(i)' PROVE LiveEntry(i)
  <2>1. i \notin Moving /\ i \in 1..Len(log) /\ i \in Nat
    BY <1>1, <1>2, <1>5, SameMoving, EntriesType DEF LiveEntry
  <2>2. CASE i \in claimed /\ i >= first
    <3>1. i \in first..Len(log) /\ i \in pel
      BY <1>1, <2>1, <2>2, StreamType
    <3>2. QED
      BY <2>1, <3>1 DEF LiveEntry, Waiting
  <2>3. CASE i \in Held' /\ ~(i \in claimed /\ i >= first)
    BY <1>3, <2>1, <2>3 DEF LiveEntry, Held
  <2>4. CASE Waiting(i)'
    BY <1>2, <2>1, <2>4 DEF LiveEntry, Waiting
  <2>5. QED
    BY <1>5, <2>2, <2>3, <2>4 DEF LiveEntry
<1>6. ASSUME NEW i \in Entries(o), NEW v \in Workers, NEW u \in Workers,
             i \in batch'[v] \cap batch'[u]
      PROVE  v = u
  <2>1. i \in batch[v] \cap batch[u] => v = u
    BY DEF SingleFile
  <2>2. \A x \in Workers : i \in batch[x] => i \in Held
    BY DEF Held
  <2>3. QED
    BY <1>3, <1>4, <1>6, <2>1, <2>2
<1>7. QED
  BY <1>2, <1>5, <1>6, SameLog

\* A step that only moves entries along keeps the copies in single file.
LEMMA MovesOn ==
    ASSUME NEW o, SingleFile(o), UNCHANGED <<log, first, last, pel, dlq, drain, batch>>,
           Moving \subseteq Moving'
    PROVE  SingleFile(o)'
<1>1. \A i \in Entries(o) : LiveEntry(i)' => LiveEntry(i)
  BY DEF LiveEntry, Held, Waiting
<1>2. \A i \in Entries(o) : \A v, w \in Workers : i \in batch'[v] \cap batch'[w] => v = w
  BY DEF SingleFile
<1>3. QED
  BY <1>1, <1>2, SameLog

LEMMA PostFile ==
    ASSUME IInv, NEW w \in Workers, Post(w), NEW o, SingleFile(o) PROVE SingleFile(o)'
<1>1. PICK i \in batch[w] :
        /\ at' = [at EXCEPT ![w] = i] /\ stage[w] = "idle"
        /\ \E s : stage' = [stage EXCEPT ![w] = s]
  BY Zenon DEF Post
<1>2. Moving \subseteq Moving'
  BY <1>1, MovingStays DEF IInv
<1>3. UNCHANGED <<log, first, last, pel, dlq, drain, batch>>
  BY DEF Post, stream, operator
<1>4. QED
  BY <1>2, <1>3, MovesOn

LEMMA AckFile ==
    ASSUME IInv, NEW w \in Workers, Ack(w), NEW o, SingleFile(o) PROVE SingleFile(o)'
<1>1. /\ TypeOK /\ batch \in [Workers -> SUBSET (1..last)]
      /\ at[w] \in batch[w] /\ at[w] \in 1..last
  BY DEF IInv, TypeOK, Position, Ack
<1>2. /\ UNCHANGED <<log, first, last, dlq, drain>>
      /\ pel' = pel \ {at[w]}
      /\ batch' = [batch EXCEPT ![w] = @ \ {at[w]}]
      /\ at' = [at EXCEPT ![w] = 0] /\ stage' = [stage EXCEPT ![w] = "idle"]
  BY DEF Ack, Leave, operator
<1>3. \A x \in Workers : \A i :
          i \in batch'[x] => i \in batch[x] /\ (x = w => i # at[w])
  BY <1>1, <1>2
<1>4. ASSUME NEW i \in Entries(o), LiveEntry(i)' PROVE LiveEntry(i)
  <2>1. i \in Held' => i \in Held
    BY <1>3 DEF Held
  <2>2. Waiting(i)' => Waiting(i)
    BY <1>2 DEF Waiting
  <2>3. CASE i # at[w]
    <3>1. i \notin Moving
      BY <1>1, <1>2, <1>4, <2>3, MovingStays DEF LiveEntry
    <3>2. QED
      BY <1>4, <2>1, <2>2, <3>1 DEF LiveEntry
  <2>4. CASE i = at[w]
    <3>1. i \notin Held'
      <4>1. ASSUME NEW v \in Workers, i \in batch'[v] PROVE FALSE
        <5>1. i \in batch[v] /\ v # w
          BY <1>3, <2>4, <4>1
        <5>2. QED
          BY <1>1, <2>4, <5>1 DEF SingleFile
      <4>2. QED
        BY <4>1 DEF Held
    <3>2. ~Waiting(i)'
      BY <1>1, <1>2, <2>4, StreamType DEF Waiting
    <3>3. QED
      BY <1>4, <3>1, <3>2 DEF LiveEntry
  <2>5. QED
    BY <2>3, <2>4
<1>5. \A i \in Entries(o) : \A v, u \in Workers : i \in batch'[v] \cap batch'[u] => v = u
  BY <1>3 DEF SingleFile
<1>6. QED
  BY <1>2, <1>4, <1>5, SameLog

LEMMA CrashFile ==
    ASSUME IInv, NEW w \in Workers, Crash(w), NEW o, o \notin disturbed', SingleFile(o)
    PROVE  SingleFile(o)'
<1>1. TypeOK /\ batch \in [Workers -> SUBSET (1..last)]
  BY DEF IInv, TypeOK
<1>2. /\ UNCHANGED <<log, first, last, pel, dlq, drain>>
      /\ batch' = [batch EXCEPT ![w] = {}]
      /\ at' = [at EXCEPT ![w] = 0] /\ stage' = [stage EXCEPT ![w] = "idle"]
      /\ disturbed' = disturbed \cup {log[i].order : i \in batch[w]}
  BY DEF Crash, Leave, stream, operator
<1>3. \A x \in Workers : \A i : i \in batch'[x] => i \in batch[x]
  BY <1>1, <1>2
<1>4. ASSUME NEW i \in Entries(o), LiveEntry(i)' PROVE LiveEntry(i)
  <2>1. i \in Held' => i \in Held
    BY <1>3 DEF Held
  <2>2. Waiting(i)' => Waiting(i)
    BY <1>2 DEF Waiting
  <2>3. i \notin batch[w]
    BY <1>2 DEF Entries
  <2>4. stage[w] # "ack" \/ i # at[w]
    BY <2>3 DEF IInv, Position
  <2>5. i \notin Moving
    BY <1>1, <1>2, <1>4, <2>4, MovingStays DEF LiveEntry
  <2>6. QED
    BY <1>4, <2>1, <2>2, <2>5 DEF LiveEntry
<1>5. \A i \in Entries(o) : \A v, u \in Workers : i \in batch'[v] \cap batch'[u] => v = u
  BY <1>3 DEF SingleFile
<1>6. QED
  BY <1>2, <1>4, <1>5, SameLog

-----------------------------------------------------------------------------
(* The steps that add to the stream or to the dead letters *)

\* A dead letter more leaves the others; it is the order's first.
LEMMA DeadLetterFile ==
    ASSUME IInv, NEW w \in Workers, NEW d \in Dead, dlq' = Append(dlq, d),
           stage[w] # "idle", stage[w] # "ack", d.order = log[at[w]].order,
           stage' = [stage EXCEPT ![w] = "ack"],
           UNCHANGED <<log, first, last, pel, batch, at, drain>>,
           NEW o, SingleFile(o)
    PROVE  SingleFile(o)'
<1>1. /\ TypeOK /\ dlq \in Seq(Dead) /\ Len(dlq) \in Nat /\ Len(dlq') = Len(dlq) + 1
      /\ dlq'[Len(dlq) + 1] = d /\ \A k \in 1..Len(dlq) : dlq'[k] = dlq[k]
  BY DEF IInv, TypeOK
<1>2. Moving \subseteq Moving' /\ at[w] \in Moving'
  BY <1>1, NowMoving
<1>3. /\ Entries(o)' = Entries(o) /\ \A i \in Entries(o) : log'[i] = log[i]
      /\ \A i \in Entries(o) : LiveEntry(i)' => LiveEntry(i)
  BY <1>2 DEF Entries, LiveEntry, Held, Waiting
<1>4. \A k \in DeadLetters(o)' :
          k \in DeadLetters(o) \/ (k = Len(dlq) + 1 /\ d.order = o)
  <2>1. ASSUME NEW k \in DeadLetters(o)'
        PROVE  k \in DeadLetters(o) \/ (k = Len(dlq) + 1 /\ d.order = o)
    <3>1. /\ k \in (IF drain THEN 2 ELSE 1)..(Len(dlq) + 1)
          /\ dlq'[k].order = o
      BY <1>1, <2>1 DEF DeadLetters, DeadOnes
    <3>2. CASE k = Len(dlq) + 1
      BY <1>1, <3>1, <3>2
    <3>3. CASE k # Len(dlq) + 1
      <4>1. k \in DeadOnes /\ k \in 1..Len(dlq)
        BY <1>1, <3>1, <3>3 DEF DeadOnes
      <4>2. QED
        BY <1>1, <3>1, <4>1 DEF DeadLetters
    <3>4. QED
      BY <3>2, <3>3
  <2>2. QED
    BY <2>1
<1>5. CASE d.order # o
  <2>1. DeadLetters(o)' \subseteq DeadLetters(o)
    BY <1>4, <1>5
  <2>2. \A k, l \in DeadLetters(o)' : k = l
    BY <2>1 DEF SingleFile
  <2>3. \A i \in Entries(o) : \A v, u \in Workers : i \in batch'[v] \cap batch'[u] => v = u
    BY DEF SingleFile
  <2>4. QED
    BY <1>3, <2>1, <2>2, <2>3, KeepsFile
<1>6. CASE d.order = o
  <2>1. at[w] \in Entries(o) /\ LiveEntry(at[w])
    BY <1>6, AtIsLive
  <2>2. DeadLetters(o) = {} /\ \A i \in Entries(o) : LiveEntry(i) => i = at[w]
    BY <1>1, <2>1, NewestIsLive
  <2>3. \A i \in Entries(o)' : ~LiveEntry(i)'
    BY <1>2, <1>3, <2>2 DEF LiveEntry
  <2>4. \A k, l \in DeadLetters(o)' : k = l
    BY <1>4, <2>2
  <2>5. /\ \A i, j \in Entries(o)' : i < j => log'[i].attempt < log'[j].attempt
        /\ \A i \in Entries(o)' : \A v, u \in Workers : i \in batch'[v] \cap batch'[u] => v = u
    BY <1>3 DEF SingleFile
  <2>6. QED
    BY <2>3, <2>4, <2>5 DEF SingleFile
<1>7. QED
  BY <1>5, <1>6

\* An XADD leaves the older entries where they are: none begins to wait, and
\* nobody has the new one.
LEMMA AddEntries ==
    ASSUME IInv, NEW e \in Entry, Add(e), batch' = batch, NEW o
    PROVE  /\ Entries(o) \subseteq Entries(o)' /\ \A i \in Entries(o) : log'[i] = log[i]
           /\ \A i \in Entries(o) : i \in Moving' \/ i \notin Moving => (LiveEntry(i)' => LiveEntry(i))
           /\ \A i \in Entries(o)' : i \in Entries(o) \/ (i = Len(log) + 1 /\ e.order = o)
           /\ log'[Len(log) + 1] = e
           /\ \A w \in Workers : Len(log) + 1 \notin batch'[w]
<1>1. /\ TypeOK /\ Len(log) \in Nat /\ last \in Nat /\ last <= Len(log) /\ first \in Nat
      /\ Len(log') = Len(log) + 1 /\ first' \in Nat /\ first <= first'
      /\ last' = last /\ pel' = pel
  BY AddType, StreamType DEF IInv
<1>2. log'[Len(log) + 1] = e /\ \A i \in 1..Len(log) : log'[i] = log[i]
  BY <1>1, AddType, StreamType
<1>3. ASSUME NEW i \in Entries(o)
      PROVE  i \in Entries(o)' /\ log'[i] = log[i]
  BY <1>1, <1>2 DEF Entries
<1>4. ASSUME NEW i \in Entries(o), i \in Moving' \/ i \notin Moving, LiveEntry(i)' PROVE LiveEntry(i)
  <2>1. i \notin Moving /\ i \in 1..Len(log)
    BY <1>1, <1>4, EntriesType DEF LiveEntry
  <2>2. Waiting(i)' => Waiting(i)
    BY <1>1, <2>1 DEF Waiting
  <2>3. QED
    BY <1>4, <2>1, <2>2 DEF LiveEntry, Held
<1>5. ASSUME NEW i \in Entries(o)'
      PROVE  i \in Entries(o) \/ (i = Len(log) + 1 /\ e.order = o)
  <2>1. i \in 1..(Len(log) + 1) /\ log'[i].order = o
    BY <1>1, <1>5 DEF Entries
  <2>2. CASE i = Len(log) + 1
    BY <1>2, <2>1, <2>2
  <2>3. CASE i # Len(log) + 1
    <3>1. i \in 1..Len(log)
      BY <1>1, <2>1, <2>3
    <3>2. QED
      BY <1>2, <2>1, <3>1 DEF Entries
  <2>4. QED
    BY <2>2, <2>3
<1>6. \A w \in Workers : Len(log) + 1 \notin batch'[w]
  <2>1. \A w \in Workers : batch[w] \subseteq 1..last
    BY <1>1 DEF TypeOK
  <2>2. Len(log) + 1 \notin 1..last
    BY <1>1
  <2>3. QED
    BY <2>1, <2>2
<1>7. QED
  BY <1>2, <1>3, <1>4, <1>5, <1>6

\* An XADD for another order.
LEMMA OtherAdded ==
    ASSUME IInv, NEW e \in Entry, Add(e), batch' = batch, Moving \subseteq Moving',
           NEW o, e.order # o, SingleFile(o), DeadLetters(o)' \subseteq DeadLetters(o)
    PROVE  SingleFile(o)'
<1>1. Entries(o)' = Entries(o) /\ \A i \in Entries(o) : log'[i] = log[i]
  BY AddEntries
<1>2. \A i \in Entries(o) : LiveEntry(i)' => LiveEntry(i)
  BY AddEntries
<1>3. \A i \in Entries(o) : \A v, w \in Workers : i \in batch'[v] \cap batch'[w] => v = w
  BY DEF SingleFile
<1>4. \A k, l \in DeadLetters(o)' : k = l
  BY DEF SingleFile
<1>5. QED
  BY <1>1, <1>2, <1>3, <1>4, KeepsFile

\* An XADD for the order itself, with one attempt more, when no other copy of
\* it is left.
LEMMA NextAdded ==
    ASSUME IInv, NEW e \in Entry, Add(e), batch' = batch,
           NEW o, e.order = o, SingleFile(o), DeadLetters(o)' = {},
           \A i \in Entries(o) : ~LiveEntry(i)',
           \A i \in Entries(o) : log[i].attempt < e.attempt
    PROVE  SingleFile(o)'
<1>1. /\ \A i \in Entries(o) : log'[i] = log[i] /\ i \in Nat /\ i <= Len(log)
      /\ \A i \in Entries(o)' : i \in Entries(o) \/ i = Len(log) + 1
      /\ log'[Len(log) + 1] = e /\ Len(log) \in Nat
  BY AddEntries, EntriesType, StreamType DEF IInv
<1>2. ASSUME NEW i \in Entries(o)', NEW j \in Entries(o)', i < j
      PROVE  log'[i].attempt < log'[j].attempt
  <2>1. CASE j \in Entries(o)
    <3>1. i \in Entries(o)
      BY <1>1, <1>2, <2>1
    <3>2. QED
      BY <1>1, <1>2, <2>1, <3>1 DEF SingleFile
  <2>2. CASE j = Len(log) + 1
    <3>1. i # j
      <4>1. j \in Int
        BY <1>1, <2>2
      <4>2. QED
        BY <1>2, <4>1
    <3>2. i \in Entries(o)
      BY <1>1, <2>2, <3>1
    <3>3. QED
      BY <1>1, <2>2, <3>2
  <2>3. QED
    BY <1>1, <2>1, <2>2
<1>3. \A i, j \in Entries(o)' : LiveEntry(i)' => j <= i
  BY <1>1
<1>4. ASSUME NEW i \in Entries(o)', NEW v \in Workers, NEW w \in Workers,
             i \in batch'[v] \cap batch'[w]
      PROVE  v = w
  <2>1. i \in Entries(o)
    BY <1>1, <1>4, AddEntries
  <2>2. QED
    BY <1>4, <2>1 DEF SingleFile
<1>5. QED
  BY <1>2, <1>3, <1>4 DEF SingleFile

LEMMA PublishFile ==
    ASSUME CopyInv, NEW q \in Orders, Publish(q), NEW o \in Orders, SingleFile(o)
    PROVE  SingleFile(o)'
<1> DEFINE e == [order |-> q, attempt |-> 1, valid |-> TRUE]
<1>1. /\ IInv /\ e \in Entry /\ Add(e) /\ UNCHANGED <<dlq, drain, batch, at, stage>>
      /\ q \notin published
  BY OrderStreamAssumption DEF CopyInv, Entry, Publish, worker, operator
<1>2. Moving' = Moving /\ DeadLetters(o)' = DeadLetters(o)
  BY <1>1, SameMoving DEF DeadLetters, DeadOnes
<1>3. CASE q # o
  BY <1>1, <1>2, <1>3, OtherAdded
<1>4. CASE q = o
  <2>1. Entries(o) = {}
    BY <1>1, <1>4 DEF CopyInv, LogPublished, Entries
  <2>2. DeadLetters(o) = {}
    <3>1. DeadOnes \subseteq 1..Len(dlq)
      BY <1>1 DEF DeadOnes, IInv, TypeOK
    <3>2. QED
      BY <1>1, <1>4, <3>1 DEF CopyInv, DeadPublished, DeadLetters
  <2>3. QED
    BY <1>1, <1>2, <1>4, <2>1, <2>2, NextAdded
<1>5. QED
  BY <1>3, <1>4

LEMMA ParkFile ==
    ASSUME IInv, NEW w \in Workers, Park(w), NEW o, SingleFile(o) PROVE SingleFile(o)'
<1> DEFINE e == log[at[w]]
           d == [order |-> e.order, valid |-> e.valid]
           again == [e EXCEPT !.attempt = @ + 1]
<1>1. TypeOK /\ stage[w] = "park" /\ e \in Entry /\ e.attempt \in Nat
  BY AtDelivered, OrderStreamAssumption DEF IInv, Park, Entry
<1>2. UNCHANGED <<batch, at, drain>> /\ stage' = [stage EXCEPT ![w] = "ack"]
  BY DEF Park, operator
<1>3. Moving \subseteq Moving' /\ at[w] \in Moving'
  BY <1>1, <1>2, NowMoving
<1>4. CASE e.attempt + 1 > MaxAttempts
  <2>1. d \in Dead /\ d.order = log[at[w]].order
    BY <1>1 DEF Entry, Dead
  <2>2. dlq' = Append(dlq, d) /\ UNCHANGED <<log, first, last, pel>>
    BY <1>4 DEF Park, stream
  <2>3. QED
    BY <1>1, <1>2, <2>1, <2>2, DeadLetterFile
<1>5. CASE ~(e.attempt + 1 > MaxAttempts)
  <2>1. again \in Entry /\ again.order = e.order /\ again.attempt = e.attempt + 1
    BY <1>1, <1>5, OrderStreamAssumption DEF Entry
  <2>2. Add(again) /\ UNCHANGED dlq
    BY <1>5 DEF Park
  <2>3. DeadLetters(o)' = DeadLetters(o)
    BY <1>2, <2>2 DEF DeadLetters, DeadOnes
  <2> HIDE DEF again
  <2>4. CASE e.order # o
    BY <1>2, <1>3, <2>1, <2>2, <2>3, <2>4, OtherAdded
  <2>5. CASE e.order = o
    <3>1. at[w] \in Entries(o) /\ LiveEntry(at[w])
      BY <1>1, <2>5, AtIsLive
    <3>2. /\ \A i \in Entries(o) : LiveEntry(i) => i = at[w]
          /\ \A i \in Entries(o) : log[i].attempt <= e.attempt
          /\ DeadLetters(o) = {}
      BY <1>1, <3>1, NewestIsLive
    <3>3. \A i \in Entries(o) : ~LiveEntry(i)'
      <4>1. \A i \in Entries(o) : i \in Moving' \/ i \notin Moving => (LiveEntry(i)' => LiveEntry(i))
        BY <1>2, <2>1, <2>2, AddEntries
      <4>2. QED
        BY <1>3, <3>2, <4>1 DEF LiveEntry
    <3>4. \A i \in Entries(o) : log[i].attempt < again.attempt
      BY <1>1, <2>1, <3>2, EntriesType
    <3>5. QED
      BY <1>2, <2>1, <2>2, <2>3, <2>5, <3>2, <3>3, <3>4, NextAdded
  <2>6. QED
    BY <2>4, <2>5
<1>6. QED
  BY <1>4, <1>5

LEMMA ForceFile ==
    ASSUME IInv, NEW w \in Workers, ForceDlq(w), NEW o, SingleFile(o) PROVE SingleFile(o)'
<1> DEFINE d == [order |-> log[at[w]].order, valid |-> FALSE]
<1>1. stage[w] = "force" /\ log[at[w]] \in Entry
  BY AtDelivered DEF ForceDlq
<1>2. d \in Dead /\ d.order = log[at[w]].order
  BY <1>1 DEF Entry, Dead
<1>3. /\ dlq' = Append(dlq, d) /\ stage' = [stage EXCEPT ![w] = "ack"]
      /\ UNCHANGED <<log, first, last, pel, batch, at, drain>>
  BY DEF ForceDlq, stream, operator
<1>4. QED
  BY <1>1, <1>2, <1>3, DeadLetterFile

-----------------------------------------------------------------------------
(* The steps of the operator *)

LEMMA DrainRetryFile ==
    ASSUME IInv, DrainRetry, NEW o, o \notin disturbed', SingleFile(o)
    PROVE  SingleFile(o)'
<1> DEFINE e == [order |-> Head(dlq).order, attempt |-> 1, valid |-> Head(dlq).valid]
<1>1. /\ TypeOK /\ dlq # <<>> /\ ~drain /\ drain' /\ Add(e)
      /\ UNCHANGED <<dlq, batch, at, stage>>
      /\ disturbed' = disturbed \cup {Head(dlq).order}
  BY DEF IInv, DrainRetry, worker
<1>2. e \in Entry
  <2>1. Head(dlq) \in Dead
    BY <1>1, HeadAndTail
  <2>2. QED
    BY <2>1, OrderStreamAssumption DEF Entry, Dead
<1>3. e.order # o
  BY <1>1
<1>4. Moving' = Moving
  BY <1>1, SameMoving
<1>5. DeadLetters(o)' \subseteq DeadLetters(o)
  BY <1>1, HeadAndTail DEF DeadLetters, DeadOnes
<1> HIDE DEF e
<1>6. QED
  BY <1>1, <1>2, <1>3, <1>4, <1>5, OtherAdded

\* The dead letters lose their head, which is on the stream again or dropped;
\* when the tool dies before it deletes it, only a disturbed order is back.
LEMMA DrainEndFile ==
    ASSUME IInv, DrainDelete \/ DrainDrop, drain => Head(dlq).order \in disturbed,
           NEW o, o \notin disturbed, SingleFile(o)
    PROVE  SingleFile(o)'
<1>1. /\ TypeOK /\ dlq # <<>> /\ ~drain'
      /\ UNCHANGED <<log, first, last, pel, batch, at, stage>>
  BY DEF IInv, DrainDelete, DrainDrop, stream, worker
<1>2. Entries(o)' = Entries(o) /\ \A i \in Entries(o) : log'[i] = log[i]
  BY <1>1 DEF Entries
<1>3. Moving' = Moving
  BY <1>1, SameMoving
<1>4. \A i \in Entries(o) : LiveEntry(i)' => LiveEntry(i)
  BY <1>1, <1>3 DEF LiveEntry, Held, Waiting
<1>5. \A i \in Entries(o) : \A v, w \in Workers : i \in batch'[v] \cap batch'[w] => v = w
  BY <1>1 DEF SingleFile
<1>6. CASE dlq' = Tail(dlq)
  <2>1. \A k \in DeadLetters(o)' : k \in Nat /\ k + 1 \in DeadLetters(o)
    <3>1. ASSUME NEW k \in DeadLetters(o)'
          PROVE  k \in Nat /\ k + 1 \in DeadLetters(o)
      <4>1. k \in 1..(Len(dlq) - 1) /\ dlq'[k].order = o /\ Len(dlq) \in Nat
        BY <1>1, <1>6, <3>1, HeadAndTail DEF DeadLetters, DeadOnes
      <4>2. dlq[k + 1].order = o
        BY <1>1, <1>6, <4>1, HeadAndTail
      <4>3. k \in Nat /\ k + 1 \in DeadOnes
        BY <4>1 DEF DeadOnes
      <4>4. QED
        BY <4>2, <4>3 DEF DeadLetters
    <3>2. QED
      BY <3>1
  <2>2. ASSUME NEW k \in DeadLetters(o)', NEW l \in DeadLetters(o)' PROVE k = l
    <3>1. k + 1 = l + 1
      BY <2>1 DEF SingleFile
    <3>2. k \in Nat /\ l \in Nat
      BY <2>1
    <3>3. QED
      BY <3>1, <3>2
  <2>3. DeadLetters(o)' # {} => DeadLetters(o) # {}
    BY <2>1
  <2>4. QED
    BY <1>2, <1>4, <1>5, <2>2, <2>3, KeepsFile
<1>7. CASE dlq' = dlq /\ drain
  <2>1. ASSUME NEW k \in DeadLetters(o)' PROVE k \in DeadLetters(o)
    <3>1. k \in 1..Len(dlq) /\ dlq[k].order = o /\ Len(dlq) \in Nat
      BY <1>1, <1>7, <2>1, HeadAndTail DEF DeadLetters, DeadOnes
    <3>2. k # 1
      BY <1>1, <1>7, <3>1, HeadAndTail
    <3>3. QED
      BY <3>1, <3>2 DEF DeadLetters, DeadOnes
  <2>2. \A k, l \in DeadLetters(o)' : k = l
    BY <2>1 DEF SingleFile
  <2>3. QED
    BY <1>2, <1>4, <1>5, <2>1, <2>2, KeepsFile
<1>8. QED
  BY <1>6, <1>7 DEF DrainDelete, DrainDrop

-----------------------------------------------------------------------------
(* The copy invariant *)

\* A step that disturbs nobody else's order keeps every undisturbed order's
\* copies in single file.
LEMMA NextSingleFile ==
    ASSUME CopyInv, [Next]_vars, NEW o \in Orders \ disturbed'
    PROVE  SingleFile(o)'
<1>1. disturbed \subseteq disturbed'
  BY DEF Next, Handle, Publish, Poll, Recover, Post, Park, ForceDlq, Ack, Crash, DrainRetry,
         DrainDelete, DrainDrop, vars
<1>2. IInv /\ o \in Orders /\ o \notin disturbed /\ o \notin disturbed' /\ SingleFile(o)
      /\ (drain => Head(dlq).order \in disturbed)
  BY <1>1 DEF CopyInv, DrainDisturbs
<1>3. CASE UNCHANGED vars
  <2>1. UNCHANGED <<log, first, last, pel, dlq, drain, batch, at, stage>>
    BY <1>3 DEF vars, stream, worker, operator
  <2>2. Moving' = Moving
    BY <2>1, SameMoving
  <2>3. QED
    BY <1>2, <2>1, <2>2, MovesOn
<1>4. ASSUME NEW q \in Orders, Publish(q) PROVE SingleFile(o)'
  BY <1>2, <1>4, PublishFile
<1>5. ASSUME NEW w \in Workers, Poll(w) PROVE SingleFile(o)'
  BY <1>2, <1>5, PollFile
<1>6. ASSUME NEW w \in Workers, NEW claimed \in SUBSET pel, Recover(w, claimed)
      PROVE  SingleFile(o)'
  BY <1>2, <1>6, RecoverFile
<1>7. ASSUME NEW w \in Workers, Handle(w) PROVE SingleFile(o)'
  BY <1>2, <1>7, PostFile, ParkFile, ForceFile, AckFile DEF Handle
<1>8. ASSUME NEW w \in Workers, Crash(w) PROVE SingleFile(o)'
  BY <1>2, <1>8, CrashFile
<1>9. ASSUME DrainRetry PROVE SingleFile(o)'
  BY <1>2, <1>9, DrainRetryFile
<1>10. ASSUME DrainDelete \/ DrainDrop PROVE SingleFile(o)'
  BY <1>2, <1>10, DrainEndFile
<1>11. QED
  BY <1>3, <1>4, <1>5, <1>6, <1>7, <1>8, <1>9, <1>10 DEF Next

\* Every entry is of a published order: a retry and a drain keep the order.
LEMMA AddedPublished ==
    ASSUME CopyInv, NEW e \in Entry, Add(e), e.order \in published', published \subseteq published'
    PROVE  LogPublished'
<1>1. /\ TypeOK /\ \A i \in 1..Len(log) : log[i].order \in published
      /\ Len(log) \in Nat /\ Len(log') = Len(log) + 1
  BY AddType, StreamType DEF CopyInv, IInv, LogPublished
<1>2. log'[Len(log) + 1] = e /\ \A i \in 1..Len(log) : log'[i] = log[i]
  BY <1>1, AddType, StreamType
<1>3. ASSUME NEW i \in 1..(Len(log) + 1) PROVE log'[i].order \in published'
  <2>1. CASE i = Len(log) + 1
    BY <1>2, <2>1
  <2>2. CASE i # Len(log) + 1
    <3>1. i \in 1..Len(log)
      BY <1>1, <2>2
    <3>2. QED
      BY <1>1, <1>2, <3>1
  <2>3. QED
    BY <2>1, <2>2
<1>4. QED
  BY <1>1, <1>3 DEF LogPublished

LEMMA NextLogPublished == ASSUME CopyInv, [Next]_vars PROVE LogPublished'
<1>1. IInv /\ TypeOK /\ LogPublished
  BY DEF CopyInv, IInv
<1>2. ASSUME UNCHANGED <<log, published>> PROVE LogPublished'
  BY <1>1, <1>2 DEF LogPublished
<1>3. ASSUME NEW q \in Orders, Publish(q) PROVE LogPublished'
  <2> DEFINE e == [order |-> q, attempt |-> 1, valid |-> TRUE]
  <2>1. e \in Entry /\ Add(e) /\ e.order = q /\ published' = published \cup {q}
    BY <1>3, OrderStreamAssumption DEF Entry, Publish
  <2> HIDE DEF e
  <2>2. QED
    BY <2>1, AddedPublished
<1>4. ASSUME NEW w \in Workers, Park(w) PROVE LogPublished'
  <2> DEFINE e == log[at[w]]
             again == [e EXCEPT !.attempt = @ + 1]
  <2>1. e \in Entry /\ e.order \in published /\ published' = published
    BY <1>1, <1>4, AtDelivered DEF LogPublished, Park, ghosts
  <2>2. CASE UNCHANGED log
    BY <1>2, <2>1, <2>2
  <2>3. CASE ~(e.attempt + 1 > MaxAttempts)
    <3>1. again \in Entry /\ again.order = e.order
      BY <2>1, <2>3, OrderStreamAssumption DEF Entry
    <3>2. Add(again)
      BY <1>4, <2>3 DEF Park
    <3> HIDE DEF again
    <3>3. QED
      BY <2>1, <3>1, <3>2, AddedPublished
  <2>4. QED
    BY <1>4, <2>2, <2>3 DEF Park, stream
<1>5. ASSUME DrainRetry PROVE LogPublished'
  <2> DEFINE e == [order |-> Head(dlq).order, attempt |-> 1, valid |-> Head(dlq).valid]
  <2>1. dlq # <<>> /\ Add(e) /\ published' = published
    BY <1>5 DEF DrainRetry, ghosts
  <2>2. Head(dlq) \in Dead /\ Head(dlq).order \in published
    BY <1>1, <2>1, HeadAndTail DEF CopyInv, DeadPublished
  <2>3. e \in Entry /\ e.order = Head(dlq).order
    BY <2>2, OrderStreamAssumption DEF Entry, Dead
  <2> HIDE DEF e
  <2>4. QED
    BY <2>1, <2>2, <2>3, AddedPublished
<1>6. QED
  BY <1>2, <1>3, <1>4, <1>5 DEF Next, Handle, Poll, Recover, Post, ForceDlq, Ack, Crash,
     DrainDelete, DrainDrop, vars, stream, ghosts

\* A dead letter is of the order of the entry it was.
LEMMA NextDeadPublished == ASSUME CopyInv, [Next]_vars PROVE DeadPublished'
<1>1. IInv /\ TypeOK /\ LogPublished /\ DeadPublished
  BY DEF CopyInv, IInv
<1>2. published \subseteq published'
  BY DEF Next, Handle, Publish, Poll, Recover, Post, Park, ForceDlq, Ack, Crash, DrainRetry,
         DrainDelete, DrainDrop, vars, ghosts
<1>3. ASSUME UNCHANGED dlq PROVE DeadPublished'
  BY <1>1, <1>2, <1>3 DEF DeadPublished
<1>4. ASSUME NEW d \in Dead, dlq' = Append(dlq, d), d.order \in published PROVE DeadPublished'
  BY <1>1, <1>2, <1>4 DEF TypeOK, DeadPublished
<1>5. ASSUME NEW w \in Workers, Park(w) \/ ForceDlq(w) PROVE DeadPublished'
  <2> DEFINE e == log[at[w]]
             d == [order |-> e.order, valid |-> e.valid]
             g == [order |-> e.order, valid |-> FALSE]
  <2>1. e \in Entry /\ e.order \in published
    BY <1>1, <1>5, AtDelivered DEF LogPublished, Park, ForceDlq
  <2>2. d \in Dead /\ g \in Dead /\ d.order = e.order /\ g.order = e.order
    BY <2>1 DEF Entry, Dead
  <2>3. UNCHANGED dlq \/ dlq' = Append(dlq, d) \/ dlq' = Append(dlq, g)
    BY <1>5 DEF Park, ForceDlq
  <2> HIDE DEF d, g
  <2>4. QED
    BY <1>3, <1>4, <2>1, <2>2, <2>3
<1>6. ASSUME dlq # <<>>, dlq' = Tail(dlq) PROVE DeadPublished'
  <2>1. /\ Len(dlq) \in Nat /\ Len(dlq') = Len(dlq) - 1
        /\ \A k \in 1..(Len(dlq) - 1) : dlq'[k] = dlq[k + 1]
    BY <1>1, <1>6, HeadAndTail
  <2>2. ASSUME NEW k \in 1..(Len(dlq) - 1) PROVE dlq'[k].order \in published'
    <3>1. k + 1 \in 1..Len(dlq)
      BY <2>1
    <3>2. QED
      BY <1>1, <1>2, <2>1, <3>1 DEF DeadPublished
  <2>3. QED
    BY <2>1, <2>2 DEF DeadPublished
<1>7. ASSUME DrainDelete \/ DrainDrop PROVE DeadPublished'
  BY <1>1, <1>3, <1>6, <1>7 DEF DrainDelete, DrainDrop, IInv
<1>8. QED
  BY <1>3, <1>5, <1>7 DEF Next, Handle, Publish, Poll, Recover, Post, Ack, Crash, DrainRetry, vars

\* While the operator has put the first dead entry back, it stays the first.
LEMMA NextDrainDisturbs == ASSUME CopyInv, [Next]_vars PROVE DrainDisturbs'
<1>1. IInv /\ TypeOK /\ DrainDisturbs
  BY DEF CopyInv, IInv
<1>2. disturbed \subseteq disturbed'
  BY DEF Next, Handle, Publish, Poll, Recover, Post, Park, ForceDlq, Ack, Crash, DrainRetry,
         DrainDelete, DrainDrop, vars
<1>3. ASSUME UNCHANGED <<dlq, drain>> PROVE DrainDisturbs'
  BY <1>1, <1>2, <1>3 DEF DrainDisturbs
<1>4. ASSUME NEW d \in Dead, dlq' = Append(dlq, d), UNCHANGED drain PROVE DrainDisturbs'
  <2>1. drain => dlq # <<>>
    BY <1>1 DEF IInv
  <2>2. dlq # <<>> => Head(dlq') = Head(dlq)
    BY <1>1, <1>4 DEF TypeOK
  <2>3. QED
    BY <1>1, <1>2, <1>4, <2>1, <2>2 DEF DrainDisturbs
<1>5. ASSUME NEW w \in Workers, Park(w) \/ ForceDlq(w) PROVE DrainDisturbs'
  <2> DEFINE e == log[at[w]]
             d == [order |-> e.order, valid |-> e.valid]
             g == [order |-> e.order, valid |-> FALSE]
  <2>1. e \in Entry
    BY <1>1, <1>5, AtDelivered DEF Park, ForceDlq
  <2>2. d \in Dead /\ g \in Dead
    BY <2>1 DEF Entry, Dead
  <2>3. UNCHANGED drain /\ (UNCHANGED dlq \/ dlq' = Append(dlq, d) \/ dlq' = Append(dlq, g))
    BY <1>5 DEF Park, ForceDlq, operator
  <2> HIDE DEF d, g
  <2>4. QED
    BY <1>3, <1>4, <2>2, <2>3
<1>6. ASSUME DrainRetry \/ DrainDelete \/ DrainDrop PROVE DrainDisturbs'
  BY <1>6 DEF DrainRetry, DrainDelete, DrainDrop, DrainDisturbs
<1>7. QED
  BY <1>3, <1>5, <1>6 DEF Next, Handle, Publish, Poll, Recover, Post, Ack, Crash, vars, operator

LEMMA InitCopyInv == Init => CopyInv
<1> SUFFICES ASSUME Init PROVE CopyInv
  OBVIOUS
<1>1. Len(log) = 0 /\ Len(dlq) = 0 /\ ~drain
  BY DEF Init
<1>2. LogPublished /\ DeadPublished /\ DrainDisturbs
  BY <1>1 DEF LogPublished, DeadPublished, DrainDisturbs
<1>3. \A o : Entries(o) = {} /\ DeadLetters(o) = {}
  BY <1>1 DEF Entries, DeadLetters, DeadOnes
<1>4. \A o : SingleFile(o)
  BY <1>3 DEF SingleFile
<1>5. QED
  BY InitIInv, <1>2, <1>4 DEF CopyInv

LEMMA NextCopyInv == ASSUME CopyInv, [Next]_vars PROVE CopyInv'
<1>1. IInv'
  BY NextType, NextPosition, NextDrain, NextNothingLost DEF CopyInv, IInv
<1>2. QED
  BY <1>1, NextSingleFile, NextLogPublished, NextDeadPublished, NextDrainDisturbs DEF CopyInv

\* Single file means one copy at most, and attempts that all differ.
LEMMA OneInFile ==
    ASSUME TypeOK, NEW o, SingleFile(o)
    PROVE  /\ Cardinality(Copies(o)) + Cardinality({k \in DeadOnes : dlq[k].order = o}) <= 1
           /\ Cardinality({i \in 1..Len(log) : log[i].order = o}) <= MaxAttempts
<1>1. \A S : (\A x, y \in S : x = y) => Cardinality(S) \in {0, 1} /\ (S # {} => Cardinality(S) = 1)
  <2>1. ASSUME NEW S, \A x, y \in S : x = y
        PROVE  Cardinality(S) \in {0, 1} /\ (S # {} => Cardinality(S) = 1)
    <3>1. CASE S = {}
      BY <3>1, FS_EmptySet
    <3>2. CASE S # {}
      <4>1. PICK x : S = {x}
        BY <2>1, <3>2
      <4>2. QED
        BY <4>1, FS_Singleton
    <3>3. QED
      BY <3>1, <3>2
  <2>2. QED
    BY <2>1
<1>2. \A i \in Copies(o) : i \in Entries(o) /\ LiveEntry(i)
  BY DEF Copies, Entries, LiveEntry
<1>3. \A i, j \in Copies(o) : i = j
  BY <1>2, NewestIsLive
<1>4. Copies(o) # {} => DeadLetters(o) = {}
  BY <1>2 DEF SingleFile
<1>5. /\ Cardinality(Copies(o)) \in {0, 1} /\ Cardinality(DeadLetters(o)) \in {0, 1}
      /\ Copies(o) = {} => Cardinality(Copies(o)) = 0
      /\ Copies(o) # {} => Cardinality(DeadLetters(o)) = 0
  <2>1. Cardinality({}) = 0
    BY FS_EmptySet
  <2>2. \A k, l \in DeadLetters(o) : k = l
    BY DEF SingleFile
  <2>3. QED
    BY <1>1, <1>3, <1>4, <2>1, <2>2
<1>6. Cardinality(Copies(o)) + Cardinality(DeadLetters(o)) <= 1
  BY <1>5
<1>7. Cardinality(Entries(o)) <= MaxAttempts
  <2> DEFINE f == [i \in Entries(o) |-> log[i].attempt]
  <2>1. f \in [Entries(o) -> 1..MaxAttempts]
    BY EntriesType
  <2>2. ASSUME NEW i \in Entries(o), NEW j \in Entries(o), f[i] = f[j] PROVE i = j
    <3>1. log[i].attempt = log[j].attempt /\ log[i].attempt \in Nat /\ i \in Nat /\ j \in Nat
      BY <2>2, EntriesType
    <3>2. ~(i < j) /\ ~(j < i)
      BY <3>1 DEF SingleFile
    <3>3. QED
      BY <3>1, <3>2
  <2>3. f \in Injection(Entries(o), 1..MaxAttempts)
    BY <2>1, <2>2 DEF Injection, IsInjective
  <2>4. IsFiniteSet(1..MaxAttempts) /\ Cardinality(1..MaxAttempts) = MaxAttempts
    BY FS_Interval, OrderStreamAssumption
  <2>5. QED
    BY <2>3, <2>4, FS_Injection
<1>8. QED
  BY <1>6, <1>7 DEF DeadLetters, Entries

-----------------------------------------------------------------------------
LEMMA NextIInv == IInv /\ [Next]_vars => IInv'
BY NextType, NextPosition, NextDrain, NextNothingLost DEF IInv

\* The inductive invariant holds of every reachable state.
THEOREM Inductive == Spec => []IInv
BY InitIInv, NextIInv, PTL DEF Spec

\* No crash, claim, lost answer, retry or drain loses a published order other
\* than by trimming or the CRM's answer to an unreadable payload.
THEOREM NoOrderLost == Spec => []NothingLost
<1>1. IInv => NothingLost
  BY DEF IInv
<1>2. QED
  BY Inductive, <1>1, PTL

\* An order that no crash, claim or drain disturbed has its entries and its dead
\* letter in single file, and an entry is always of a published order.
THEOREM FilesAreKept == Spec => []CopyInv
BY InitCopyInv, NextCopyInv, PTL DEF Spec

\* An undisturbed order has one copy at a time, dead letters included, and is
\* put on the stream max_delivery_attempts times at most.
THEOREM OneCopyAtATime == Spec => []OneCopy
<1>1. CopyInv => OneCopy
  BY OneInFile DEF CopyInv, IInv, OneCopy
<1>2. QED
  BY FilesAreKept, <1>1, PTL
=============================================================================
