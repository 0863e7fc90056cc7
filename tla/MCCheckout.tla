------------------------------ MODULE MCCheckout ------------------------------
(* Small instances of Checkout for TLC. *)
EXTENDS CheckoutProps, TLC

CONSTANTS r1, r2, r3, a1, a2, p1, p2, s1, s2, k1, c1, e1, e2

L(p, q) == [product |-> p, quantity |-> q]
P(kind, s, k, c, e, d) == [kind |-> kind, session |-> s, key |-> k,
                           coupon |-> c, email |-> e, direct |-> d]

\* The storefront's checkout (cart plus the same items in the payload), its
\* retry from another device under another e-mail, a keyless API checkout,
\* and POST /orders with and without a session.
MCParams == {P("checkout", s1, k1, c1, e1, <<L(p1, 1)>>),
             P("checkout", s2, k1, c1, e2, <<L(p2, 1), L(p1, 2)>>),
             P("checkout", s1, None, None, e2, <<>>),
             P("orders", None, None, c1, e2, <<L(p1, 1), L(p2, 1)>>),
             P("orders", s1, None, c1, e1, <<>>)}
MCAddParams == {[session |-> s1, product |-> p1, quantity |-> 1],
                [session |-> s1, product |-> p2, quantity |-> 2]}
MCInitStock == p1 :> 2 @@ p2 :> 1
MCMaxUses == c1 :> 1
MCInitCustomers == {e1}
MCInitCart == a1 :> [session |-> s1, product |-> p1, quantity |-> 1] @@ a2 :> None

MCNoCart == <<>>

\* Two keyless placements that redeem the same coupon under two e-mails.
MCCouponParams == {P("orders", None, None, c1, e, <<L(p1, 1)>>) : e \in {e1, e2}}
=============================================================================
