----------------------------- MODULE OrderWebhook -----------------------------
(***************************************************************************)
(* POST /api/payments/webhooks/{provider} against the status column of one *)
(* order, next to the administrator who overwrites that column.            *)
(*                                                                         *)
(* The payment provider (external) delivers each event until it is         *)
(* answered with 2xx, may deliver it again after that, and never waits for *)
(* one delivery before it makes another.  A delivery is a SELECT, then an  *)
(* UPDATE and COMMIT, then the emission of a change event; nothing locks   *)
(* the row or compares versions in between.  The row carries the           *)
(* provider's reference only once the checkout that wrote it commits.      *)
(***************************************************************************)
CONSTANTS
    Events,         \* the provider's events about this order
    Handlers,       \* deliveries that can run at the same time
    AdminStatuses,  \* what an administrator may set the status to
    NoEvent         \* none of them

OrderStates == {"pending", "payment_pending", "paid", "failed", "cancelled", "refunded"}

\* PaymentEventKind
Kinds == {"succeeded", "failed", "cancelled", "refunded", "pending"}

ASSUME OrderWebhookAssumption ==
    /\ NoEvent \notin Events
    /\ AdminStatuses \subseteq STRING

VARIABLES
    visible,    \* the checkout has committed the order and its reference
    status,     \* orders.status
    kind,       \* the kind of each event
    sent,       \* the events that have happened at the provider
    acked,      \* the events answered with 2xx
    webhookPc, event, seen, \* one per handler: where it is, the event it delivers,
                            \* the state it computed from the row
    wasPaid,    \* the status has been "paid"
    edited      \* an administrator has set the status

webhookVars == <<visible, status, kind, sent, acked, webhookPc, event, seen, wasPaid, edited>>
handlers == <<webhookPc, event, seen>>

\* What receive_webhook makes of a status it does not know
Current(s) == IF s \in OrderStates THEN s ELSE "pending"

WebhookTypeOK ==
    /\ visible \in BOOLEAN
    /\ status \in OrderStates \cup AdminStatuses
    /\ kind \in [Events -> Kinds]
    /\ sent \in SUBSET Events
    /\ acked \in SUBSET sent
    /\ webhookPc \in [Handlers -> {"idle", "select", "write", "emit"}]
    /\ event \in [Handlers -> sent \cup {NoEvent}]
    /\ seen \in [Handlers -> OrderStates]
    /\ wasPaid \in BOOLEAN
    /\ edited \in BOOLEAN

-----------------------------------------------------------------------------
(* The state machine *)

\* _event_kind_to_target_state; "pending" is informational.
Target(e) == CASE kind[e] = "succeeded" -> "paid"
               [] kind[e] = "failed"    -> "failed"
               [] kind[e] = "cancelled" -> "cancelled"
               [] kind[e] = "refunded"  -> "refunded"
               [] OTHER -> NoEvent

\* Faulty variant: a refund needs no payment.
LegalRefundUnpaid ==
    {<<"pending", "payment_pending">>, <<"pending", "cancelled">>,
     <<"payment_pending", "paid">>, <<"payment_pending", "failed">>,
     <<"payment_pending", "cancelled">>, <<"payment_pending", "refunded">>}

\* _LEGAL_TRANSITIONS
Legal ==
    {<<"pending", "payment_pending">>, <<"pending", "cancelled">>,
     <<"payment_pending", "paid">>, <<"payment_pending", "failed">>,
     <<"payment_pending", "cancelled">>, <<"paid", "refunded">>}

-----------------------------------------------------------------------------
(* The webhook handler *)

\* Faulty variant: the event is forgotten before it is acknowledged.
Answer2xxLate(h) ==
    /\ event' = [event EXCEPT ![h] = NoEvent]
    /\ acked' = acked \cup {event'[h]}
    /\ webhookPc' = [webhookPc EXCEPT ![h] = "idle"]
    /\ seen' = [seen EXCEPT ![h] = "pending"]

Answer2xx(h) ==
    /\ acked' = acked \cup {event[h]}
    /\ webhookPc' = [webhookPc EXCEPT ![h] = "idle"]
    /\ event' = [event EXCEPT ![h] = NoEvent]
    /\ seen' = [seen EXCEPT ![h] = "pending"]

AnswerError(h) ==
    /\ webhookPc' = [webhookPc EXCEPT ![h] = "idle"]
    /\ event' = [event EXCEPT ![h] = NoEvent]
    /\ seen' = [seen EXCEPT ![h] = "pending"]
    /\ UNCHANGED acked

\* A verified event; an informational one is acknowledged without a look.
Deliver(h, e) ==
    /\ webhookPc[h] = "idle"
    /\ e \in sent
    /\ IF kind[e] = "pending"
       THEN acked' = acked \cup {e} /\ UNCHANGED <<webhookPc, event>>
       ELSE /\ webhookPc' = [webhookPc EXCEPT ![h] = "select"]
            /\ event' = [event EXCEPT ![h] = e]
            /\ UNCHANGED acked
    /\ UNCHANGED <<visible, status, kind, sent, seen, wasPaid, edited>>

\* No order with the event's reference: 404, so the provider tries again.
UnknownOrder(h) ==
    /\ webhookPc[h] = "select"
    /\ ~visible
    /\ AnswerError(h)
    /\ UNCHANGED <<visible, status, kind, sent, wasPaid, edited>>

\* Faulty variants: the illegal transition is logged and written all the same,
\* or answered with an error.
IgnoreNot(h) ==
    /\ webhookPc[h] = "select"
    /\ visible /\ <<Current(status), Target(event[h])>> \notin Legal
    /\ seen' = [seen EXCEPT ![h] = Current(status)]
    /\ webhookPc' = [webhookPc EXCEPT ![h] = "write"]
    /\ UNCHANGED <<visible, status, kind, sent, acked, event, wasPaid, edited>>
IgnoreWithError(h) ==
    /\ webhookPc[h] = "select"
    /\ visible /\ <<Current(status), Target(event[h])>> \notin Legal
    /\ AnswerError(h)
    /\ UNCHANGED <<visible, status, kind, sent, wasPaid, edited>>

\* The state is the target already, or the transition is illegal: 200.
Ignore(h) ==
    /\ webhookPc[h] = "select"
    /\ visible /\ <<Current(status), Target(event[h])>> \notin Legal
    /\ Answer2xx(h)
    /\ UNCHANGED <<visible, status, kind, sent, wasPaid, edited>>

Choose(h) ==
    /\ webhookPc[h] = "select"
    /\ visible /\ <<Current(status), Target(event[h])>> \in Legal
    /\ seen' = [seen EXCEPT ![h] = Current(status)]
    /\ webhookPc' = [webhookPc EXCEPT ![h] = "write"]
    /\ UNCHANGED <<visible, status, kind, sent, acked, event, wasPaid, edited>>

Select(h) == UnknownOrder(h) \/ Ignore(h) \/ Choose(h)

\* order.status = new_state.value and the commit
Write(h) ==
    /\ webhookPc[h] = "write"
    /\ status' = Target(event[h])
    /\ wasPaid' = (wasPaid \/ status' = "paid")
    /\ webhookPc' = [webhookPc EXCEPT ![h] = "emit"]
    /\ UNCHANGED <<visible, kind, sent, acked, event, seen, edited>>

\* emit_order_state_change (fire and forget), then 200
Emit(h) ==
    /\ webhookPc[h] = "emit"
    /\ Answer2xx(h)
    /\ UNCHANGED <<visible, status, kind, sent, wasPaid, edited>>

\* The database fails, the pod dies, or the answer is lost.
Interrupt(h) ==
    /\ webhookPc[h] # "idle"
    /\ AnswerError(h)
    /\ UNCHANGED <<visible, status, kind, sent, wasPaid, edited>>

-----------------------------------------------------------------------------
(* The rest of the system *)

\* Something happens to the payment at the provider.
Happen(e) ==
    /\ e \notin sent
    /\ sent' = sent \cup {e}
    /\ UNCHANGED <<visible, status, kind, acked, handlers, wasPaid, edited>>

CheckoutCommits ==
    /\ ~visible
    /\ visible' = TRUE
    /\ UNCHANGED <<status, kind, sent, acked, handlers, wasPaid, edited>>

\* PUT /admin/orders/{id}; the status it sets goes through no state machine.
AdminUpdate(s) ==
    /\ visible
    /\ status' = s
    /\ wasPaid' = (wasPaid \/ s = "paid")
    /\ edited' = TRUE
    /\ UNCHANGED <<visible, kind, sent, acked, handlers>>

\* A checkout leaves an order authorized or not.
WebhookInit ==
    /\ visible = FALSE
    /\ status \in {"payment_pending", "paid"}
    /\ kind \in [Events -> Kinds]
    /\ sent = {}
    /\ acked = {}
    /\ webhookPc = [h \in Handlers |-> "idle"]
    /\ event = [h \in Handlers |-> NoEvent]
    /\ seen = [h \in Handlers |-> "pending"]
    /\ wasPaid = (status = "paid")
    /\ edited = FALSE

WebhookNext ==
    \/ CheckoutCommits
    \/ \E e \in Events : Happen(e)
    \/ \E s \in AdminStatuses : AdminUpdate(s)
    \/ \E h \in Handlers : \/ \E e \in Events : Deliver(h, e)
                           \/ Select(h) \/ Write(h) \/ Emit(h) \/ Interrupt(h)

WebhookSpec == WebhookInit /\ [][WebhookNext]_webhookVars

-----------------------------------------------------------------------------
(* Properties *)

\* The webhooks change the status along an edge of the state machine, unless
\* the row was changed between the handler's SELECT and its UPDATE: a lost
\* update is the only way off the edges.
LegalOrStale ==
    [][status' # status =>
         \/ <<Current(status), status'>> \in Legal
         \/ \E h \in Handlers : Write(h) /\ seen[h] # Current(status)
         \/ \E s \in AdminStatuses : AdminUpdate(s)]_webhookVars

\* No order is refunded that was never paid, in whatever order, how often and
\* how concurrently the events arrive.
RefundedWasPaid == status = "refunded" => wasPaid \/ edited

\* What makes these inductive: a handler writes along an edge from what it
\* saw, and remembers a payment it saw.
HandlerKnows(h) ==
    /\ webhookPc[h] # "idle" => event[h] \in Events
    /\ webhookPc[h] = "write" =>
          /\ <<seen[h], Target(event[h])>> \in Legal
          /\ seen[h] = "paid" => wasPaid
PaidKnown == status = "paid" => wasPaid

\* Every event is acknowledged in the end, the illegal and the early ones too,
\* once the order it is about is committed.
EveryEventAcked == <>[](visible => sent \subseteq acked)

\* Terminal states are sinks, except for paid to refunded (state_machine.py:12-13).
Terminal == {"paid", "failed", "cancelled", "refunded"}
Sinks == [][status' # status /\ status \in Terminal =>
              status = "paid" /\ status' = "refunded"]_webhookVars

\* The provider delivers an event again until it gets its 2xx, and not every
\* one of these deliveries is interrupted at the same step.
WebhookFairSpec ==
    /\ WebhookSpec
    /\ \A e \in Events :
          /\ SF_webhookVars(e \notin acked /\ \E h \in Handlers : Deliver(h, e))
          /\ SF_webhookVars(\E h \in Handlers : event[h] = e /\ Select(h))
          /\ SF_webhookVars(\E h \in Handlers : event[h] = e /\ Write(h))
          /\ SF_webhookVars(\E h \in Handlers : event[h] = e /\ Emit(h))
=============================================================================
