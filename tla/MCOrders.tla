------------------------------- MODULE MCOrders -------------------------------
(***************************************************************************)
(* Small instances for TLC of the webhooks about the payment of an order   *)
(* (OrderWebhook), and of the placement of orders with waits that can      *)
(* become deadlocks (Checkout).  One run checks both: part says which of   *)
(* them moves, the other stays in an initial state.  The fairness is that  *)
(* of the component that moves.                                            *)
(***************************************************************************)
EXTENDS CheckoutProps, OrderWebhook, TLC

CONSTANTS r1, r2, p1, p2, s1, s2, k1, c1, e1, e2, n1, n2, h1, h2

VARIABLE part

P(knd, s, k, c, e, d) == [kind |-> knd, session |-> s, key |-> k,
                           coupon |-> c, email |-> e, direct |-> d]
L(p, q) == [product |-> p, quantity |-> q]

\* Opposite product orders under two e-mails and one key, and a keyless order,
\* for waits and deadlocks.  No cart.
MCCrossParams == {P("checkout", s2, k1, None, e1, <<L(p1, 1), L(p2, 1)>>),
                  P("checkout", s2, k1, None, e2, <<L(p2, 1), L(p1, 1)>>),
                  P("orders", None, None, c1, e2, <<L(p2, 2), L(p1, 1)>>)}
MCInitStock == p1 :> 2 @@ p2 :> 1
MCMaxUses == c1 :> 1
MCInitCustomers == {e1}
MCNoCart == <<>>

OrdersInit ==
    /\ part \in {"placement", "webhook"}
    /\ Init
    /\ part # "placement" => req = [r \in Requests |-> CHOOSE p \in Params : TRUE]
    /\ WebhookInit
    /\ part # "webhook" => status = "paid" /\ kind = [e \in Events |-> "pending"]

OrdersNext ==
    \/ part = "placement" /\ Next /\ UNCHANGED <<part, webhookVars>>
    \/ part = "webhook" /\ WebhookNext /\ UNCHANGED <<part, vars>>

PlacementFair ==
    \A r \in Requests :
        /\ WF_vars(part = "placement" /\ Statement(r))
        /\ WF_vars(part = "placement" /\ DeadlockVictim(r))
WebhookFair ==
    \A e \in Events :
        /\ SF_webhookVars(part = "webhook" /\ e \notin acked /\ \E h \in Handlers : Deliver(h, e))
        /\ SF_webhookVars(part = "webhook" /\ \E h \in Handlers : event[h] = e /\ Select(h))
        /\ SF_webhookVars(part = "webhook" /\ \E h \in Handlers : event[h] = e /\ Write(h))
        /\ SF_webhookVars(part = "webhook" /\ \E h \in Handlers : event[h] = e /\ Emit(h))

OrdersSpec == OrdersInit /\ [][OrdersNext]_<<part, vars, webhookVars>>
OrdersFairSpec == OrdersSpec /\ PlacementFair /\ WebhookFair

\* The types of both components
OrdersTypeOK == TypeOK /\ WebhookTypeOK
=============================================================================
