-------------------------- MODULE OrderWebhookProofs --------------------------
(***************************************************************************)
(* What webhooks may do to an order's status, for any number of events and *)
(* concurrent deliveries.  At the end, the types of the two components of  *)
(* MCOrders, whichever of them moves.                                      *)
(***************************************************************************)
EXTENDS MCOrders, CheckoutProofs

USE OrderWebhookAssumption

WebhookIInv == /\ WebhookTypeOK
        /\ RefundedWasPaid
        /\ PaidKnown
        /\ \A h \in Handlers : HandlerKnows(h)

LEMMA LegalStates ==
    /\ Legal \subseteq OrderStates \X OrderStates
    /\ \A s \in OrderStates : <<s, "refunded">> \in Legal => s = "paid"
BY DEF Legal, OrderStates

LEMMA WebhookInitIInv == WebhookInit => WebhookIInv
BY DEF WebhookInit, WebhookIInv, WebhookTypeOK, RefundedWasPaid, PaidKnown, HandlerKnows, OrderStates

\* Answering, well or not, frees the handler and touches nothing else.
LEMMA AnswerKeeps ==
    ASSUME WebhookIInv, NEW h \in Handlers, webhookPc[h] # "idle",
           Answer2xx(h) \/ AnswerError(h),
           UNCHANGED <<visible, status, kind, sent, wasPaid, edited>>
    PROVE  WebhookIInv'
<1>1. /\ webhookPc' = [webhookPc EXCEPT ![h] = "idle"]
      /\ event' = [event EXCEPT ![h] = NoEvent]
      /\ seen' = [seen EXCEPT ![h] = "pending"]
  BY DEF Answer2xx, AnswerError
<1>2. event[h] \in sent
  BY DEF WebhookIInv, WebhookTypeOK, HandlerKnows
<1>3. acked' \in SUBSET sent
  BY <1>2 DEF Answer2xx, AnswerError, WebhookIInv, WebhookTypeOK
<1>4. WebhookTypeOK'
  BY <1>1, <1>3 DEF WebhookIInv, WebhookTypeOK, OrderStates
<1>5. RefundedWasPaid' /\ PaidKnown'
  BY DEF WebhookIInv, RefundedWasPaid, PaidKnown
<1>6. ASSUME NEW q \in Handlers PROVE HandlerKnows(q)'
  BY <1>1 DEF WebhookIInv, WebhookTypeOK, HandlerKnows, Target
<1>7. QED
  BY <1>4, <1>5, <1>6 DEF WebhookIInv

LEMMA WebhookNextIInv == WebhookIInv /\ [WebhookNext]_webhookVars => WebhookIInv'
<1> SUFFICES ASSUME WebhookIInv, [WebhookNext]_webhookVars PROVE WebhookIInv'
  OBVIOUS
<1> USE DEF WebhookIInv
<1>1. CASE CheckoutCommits
  BY <1>1 DEF CheckoutCommits, handlers, WebhookTypeOK, RefundedWasPaid, PaidKnown, HandlerKnows, Target
<1>2. ASSUME NEW e \in Events, Happen(e)
      PROVE  WebhookIInv'
  BY <1>2 DEF Happen, handlers, WebhookTypeOK, RefundedWasPaid, PaidKnown, HandlerKnows, Target
<1>3. ASSUME NEW s \in AdminStatuses, AdminUpdate(s)
      PROVE  WebhookIInv'
  <2>1. WebhookTypeOK'
    BY <1>3 DEF AdminUpdate, handlers, WebhookTypeOK
  <2>2. RefundedWasPaid' /\ PaidKnown' /\ (wasPaid => wasPaid')
    BY <1>3 DEF AdminUpdate, RefundedWasPaid, PaidKnown
  <2>3. ASSUME NEW q \in Handlers PROVE HandlerKnows(q)'
    BY <1>3, <2>2 DEF AdminUpdate, handlers, HandlerKnows, Target
  <2>4. QED
    BY <2>1, <2>2, <2>3
<1>4. ASSUME NEW h \in Handlers, NEW e \in Events, Deliver(h, e)
      PROVE  WebhookIInv'
  <2>1. WebhookTypeOK'
    BY <1>4 DEF Deliver, WebhookTypeOK
  <2>2. RefundedWasPaid' /\ PaidKnown'
    BY <1>4 DEF Deliver, RefundedWasPaid, PaidKnown
  <2>3. ASSUME NEW q \in Handlers PROVE HandlerKnows(q)'
    BY <1>4 DEF Deliver, HandlerKnows, Target, WebhookTypeOK
  <2>4. QED
    BY <2>1, <2>2, <2>3
<1>5. ASSUME NEW h \in Handlers,
             UnknownOrder(h) \/ Ignore(h) \/ Emit(h) \/ Interrupt(h)
      PROVE  WebhookIInv'
  <2>1. /\ webhookPc[h] # "idle" /\ (Answer2xx(h) \/ AnswerError(h))
        /\ UNCHANGED <<visible, status, kind, sent, wasPaid, edited>>
    BY <1>5 DEF UnknownOrder, Ignore, Emit, Interrupt
  <2>2. QED
    BY <2>1, AnswerKeeps
<1>6. ASSUME NEW h \in Handlers, Choose(h)
      PROVE  WebhookIInv'
  <2>1. Current(status) \in OrderStates
    BY DEF Current, OrderStates
  <2>2. Current(status) = "paid" => status = "paid"
    BY DEF Current, OrderStates
  <2>3. WebhookTypeOK'
    BY <1>6, <2>1 DEF Choose, WebhookTypeOK
  <2>4. RefundedWasPaid' /\ PaidKnown'
    BY <1>6 DEF Choose, RefundedWasPaid, PaidKnown
  <2>5. ASSUME NEW q \in Handlers PROVE HandlerKnows(q)'
    BY <1>6, <2>2 DEF Choose, HandlerKnows, PaidKnown, Target, WebhookTypeOK
  <2>6. QED
    BY <2>3, <2>4, <2>5
<1>7. ASSUME NEW h \in Handlers, Write(h)
      PROVE  WebhookIInv'
  <2>1. /\ <<seen[h], Target(event[h])>> \in Legal /\ seen[h] \in OrderStates
        /\ seen[h] = "paid" => wasPaid
    BY <1>7 DEF Write, HandlerKnows, WebhookTypeOK
  <2>2. status' \in OrderStates /\ (status' = "refunded" => wasPaid)
    BY <1>7, <2>1, LegalStates DEF Write
  <2>3. wasPaid' = (wasPaid \/ status' = "paid")
    BY <1>7 DEF Write
  <2>4. wasPaid' \in BOOLEAN
    BY <2>3
  <2>5. WebhookTypeOK'
    BY <1>7, <2>2, <2>4 DEF Write, WebhookTypeOK
  <2>6. RefundedWasPaid' /\ PaidKnown'
    BY <2>2, <2>3 DEF RefundedWasPaid, PaidKnown
  <2>7. ASSUME NEW q \in Handlers PROVE HandlerKnows(q)'
    BY <1>7, <2>3 DEF Write, HandlerKnows, Target, WebhookTypeOK
  <2>8. QED
    BY <2>5, <2>6, <2>7
<1>8. CASE UNCHANGED webhookVars
  BY <1>8 DEF webhookVars, WebhookTypeOK, RefundedWasPaid, PaidKnown, HandlerKnows, Target
<1>9. QED
  BY <1>1, <1>2, <1>3, <1>4, <1>5, <1>6, <1>7, <1>8 DEF WebhookNext, Select

THEOREM WebhookInductive == WebhookSpec => []WebhookIInv
<1>1. QED
  BY WebhookInitIInv, WebhookNextIInv, PTL DEF WebhookSpec

\* However many deliveries overlap, duplicate and overtake each other, no
\* order is refunded by webhooks that was never paid.
THEOREM RefundsNeedPayment == WebhookSpec => []RefundedWasPaid
<1>1. WebhookIInv => RefundedWasPaid
  BY DEF WebhookIInv
<1>2. QED
  BY <1>1, WebhookInductive, PTL

\* A status change off the edges of the state machine is an administrator's or
\* a lost update: the state machine alone makes no other.
THEOREM ChangesAreLegalOrStale == WebhookSpec => LegalOrStale
<1> DEFINE A == status' # status =>
                  \/ <<Current(status), status'>> \in Legal
                  \/ \E h \in Handlers : Write(h) /\ seen[h] # Current(status)
                  \/ \E s \in AdminStatuses : AdminUpdate(s)
<1>1. WebhookIInv /\ [WebhookNext]_webhookVars => [A]_webhookVars
  <2> SUFFICES ASSUME WebhookIInv, WebhookNext, status' # status PROVE A
    OBVIOUS
  <2>1. CASE \E s \in AdminStatuses : AdminUpdate(s)
    BY <2>1
  <2>2. ASSUME NEW h \in Handlers, Write(h)
        PROVE  A
    BY <2>2 DEF Write, WebhookIInv, HandlerKnows
  <2>3. QED
    BY <2>1, <2>2 DEF WebhookNext, CheckoutCommits, Happen, Deliver, Select, UnknownOrder,
       Ignore, Choose, Emit, Interrupt
<1>2. QED
  BY <1>1, WebhookInductive, PTL DEF WebhookSpec, LegalOrStale

-----------------------------------------------------------------------------
(* Placements and webhooks, composed *)

LEMMA OrdersStart == OrdersInit => CoreInv /\ WebhookIInv
BY InitCoreInv, WebhookInitIInv DEF OrdersInit

LEMMA OrdersStep ==
    CoreInv /\ WebhookIInv /\ [OrdersNext]_<<part, vars, webhookVars>>
        => CoreInv' /\ WebhookIInv'
<1> SUFFICES ASSUME CoreInv, WebhookIInv, [OrdersNext]_<<part, vars, webhookVars>>
             PROVE  CoreInv' /\ WebhookIInv'
  OBVIOUS
<1>1. [Next]_vars /\ [WebhookNext]_webhookVars
  BY DEF OrdersNext
<1>2. QED
  BY <1>1, NextCoreInv, WebhookNextIInv

\* The tables and the handlers of placements and of webhooks keep their types,
\* whichever of them moves.
THEOREM OrdersKeepTypes == OrdersFairSpec => []OrdersTypeOK
<1>1. CoreInv /\ WebhookIInv => OrdersTypeOK
  BY DEF CoreInv, WebhookIInv, OrdersTypeOK
<1>2. QED
  BY <1>1, OrdersStart, OrdersStep, PTL DEF OrdersFairSpec, OrdersSpec

\* Each of the two moves in the composition as its own specification says, so that
\* what is proved of placements or of webhooks holds of the one that TLC runs.
THEOREM OrdersImplement == OrdersFairSpec => Spec /\ WebhookSpec
<1>1. OrdersInit => Init /\ WebhookInit
  BY DEF OrdersInit
<1>2. [OrdersNext]_<<part, vars, webhookVars>> => [Next]_vars /\ [WebhookNext]_webhookVars
  BY DEF OrdersNext
<1>3. QED
  BY <1>1, <1>2, PTL DEF OrdersFairSpec, OrdersSpec, Spec, WebhookSpec
=============================================================================
