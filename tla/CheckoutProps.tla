----------------------------- MODULE CheckoutProps -----------------------------
(***************************************************************************)
(* What placing orders must get right, stated over Checkout.               *)
(***************************************************************************)
EXTENDS Checkout

\* However requests with one idempotency key interleave, fail and are retried,
\* at most one order exists under the key (uq_orders_checkout_key together
\* with place_order's two lookups).
OneOrderPerKey ==
    \A r, s \in Placed : req[r].key # None /\ req[r].key = req[s].key => r = s

\* Whoever is answered with an order is answered with a committed one, its own
\* or one placed under its key: neither a draft nor a rolled back order is
\* ever pushed to the CRM or returned.
AnswersArePlaced ==
    \A r \in Requests : pc[r] \in {"push", "done"} /\ ans[r] # None =>
        /\ ans[r] \in Placed
        /\ ans[r] # r => req[r].key # None /\ req[ans[r]].key = req[r].key

\* The units of a product that the first n of some order lines ask for
Ordered(lines, n, p) ==
    LET upTo[i \in 0..Len(lines)] ==
          IF i = 0 THEN 0
          ELSE upTo[i - 1] + (IF lines[i].product = p THEN lines[i].quantity ELSE 0)
    IN  upTo[n]

\* An order goes short of a product only if what is left when it commits could
\* not cover the missing units: no order is cut because of a reservation that
\* was rolled back later, or a stock count read before another order's commit.
ShortOnlyWhenGone ==
    [][\A r \in Requests : order[r] = None /\ order'[r] # None =>
          \A p \in Products :
             LET missing == Ordered(items[r], Len(items[r]), p) - order'[r].taken[p]
             IN  missing > 0 => missing > stock'[p]]_vars

\* A coupon has been used once for each order that got its discount: a
\* rollback, the conflict path included, gives the use back.
CouponUsesAreOrders ==
    \A c \in Coupons :
        used[c] = Cardinality({r \in Placed : order[r].discounted /\ req[r].coupon = c})

\* The three payment columns of an order tell one story and it is the
\* gateway's: paid exactly when this order's own authorization succeeded.
ColumnsAgree(o, outcome) ==
    /\ o.status = "paid" <=> outcome = "authorized"
    /\ o.paymentStatus = "paid" <=> outcome = "authorized"
    /\ o.paymentRequired <=> outcome # "authorized"
    /\ o.paymentStatus = "failed" <=> outcome \in {"declined", "timeout"}
PaymentColumnsAgree == \A r \in Placed : ColumnsAgree(order[r], charged[r])

\* One key is authorized twice only if the first authorization's transaction
\* was rolled back: a replay, a lost race and a conflict never reach the gateway.
SecondChargeNeedsRollback ==
    \A r, s \in Requests :
        /\ r # s /\ req[r].key # None /\ req[r].key = req[s].key
        /\ charged[r] = "authorized" /\ charged[s] = "authorized"
        => \E x \in {r, s} : pc[x] = "failed" /\ order[x] = None

\* The CRM is told only about committed orders, and what a request tells it from
\* the snapshot that it took before its transaction ended (at the INSERT, at a
\* replay, when the gateway's answer was persisted) is the payment status that
\* was committed, whatever was rolled back or retried in between.
CrmHearsTheTruth ==
    \A r \in Requests :
        pushed[r] # "none" => r \in Placed /\ pushed[r] = order[r].paymentStatus

\* A row leaves a cart only when it is removed by id, or in the very step
\* that commits an order of the same session: an aborted placement never
\* costs the buyer the cart.
CartRowsLeaveWithAnOrder ==
    [][\A a \in Adds : cart[a] # None /\ cart'[a] = None =>
          \/ \A b \in Adds \ {a} : cart'[b] = cart[b]
             /\ UNCHANGED <<stock, used, customers, order, pc>>
          \/ \E r \in Requests : /\ order[r] = None /\ order'[r] # None
                                 /\ req[r].session = cart[a].session]_vars

\* Every placement that begins is answered or fails: waits for rows held by
\* other placements, cycles of them included, come to an end.
EveryPlacementEnds == <>[](\A r \in Requests : pc[r] \in {"start"} \cup Ended)

\* The detailed transactions implement the abstract order book.
Book == INSTANCE OrderBook WITH
          key    <- [r \in Requests |-> req[r].key],
          placed <- Placed,
          answer <- [r \in Requests |-> IF pc[r] \in {"push"} \cup Ended
                                        THEN ans[r] ELSE None]
ImplementsOrderBook == Book!Spec

-----------------------------------------------------------------------------
(* The strengthening that makes the invariants above inductive *)

\* A row or unique value is held by at most one transaction.
LocksExclusive ==
    \A r, s \in Requests : r # s => locks[r] \cap locks[s] = {}

BeforeInsert == {"start", "customer", "upsert", "lookup", "coupon", "redeem", "insert"}
WithDraft    == {"reserve", "clear", "pay", "settle"}

\* What a request's place in the handler says about its local state
Position(r) ==
    /\ pc[r] \in BeforeInsert => line[r] = 0 /\ ans[r] = None
    /\ pc[r] \in BeforeInsert \ {"start"} => items[r] # <<>>
    /\ pc[r] = "redeem" => req[r].coupon # None
    /\ pc[r] = "conflict" => req[r].key # None /\ ans[r] = None
    /\ pc[r] = "reserve" => line[r] < Len(items[r])
    /\ pc[r] \in WithDraft => draft[r] # None
    /\ draft[r] # None => pc[r] \in WithDraft \cup {"commit"} /\ ans[r] = r
    /\ pc[r] \in {"commit", "push"} => ans[r] # None
    /\ order[r] # None => pc[r] \in {"push"} \cup Ended

\* A draft owns its key, which no committed order has, and has taken only
\* units that are there, of products it has locked.
DraftOwns(r) ==
    draft[r] # None =>
        /\ req[r].key # None => /\ <<"key", req[r].key>> \in locks[r]
                                /\ PlacedFor(req[r].key) = {}
        /\ \A p \in Products :
              /\ draft[r].taken[p] <= stock[p]
              /\ draft[r].taken[p] > 0 => <<"product", p>> \in locks[r]

\* An answer that is not a draft is a committed order, r's own or its key's.
AnswerPlaced(r) ==
    ans[r] # None /\ draft[r] = None =>
        /\ ans[r] \in Placed
        /\ ans[r] # r => req[r].key # None /\ req[ans[r]].key = req[r].key

\* The invariant of keys, locks, drafts and answers
CoreInv ==
    /\ TypeOK
    /\ LocksExclusive
    /\ \A r \in Requests : Position(r) /\ DraftOwns(r) /\ AnswerPlaced(r)
    /\ OneOrderPerKey

\* The gateway hears of a request only while it has a draft, whose columns say
\* what the gateway answered once that is persisted; what became of the
\* authorized draft is a rollback or an order.
PaymentSoFar(r) ==
    /\ pc[r] \in BeforeInsert \cup {"conflict", "reserve", "clear", "pay"}
          => charged[r] = "none"
    /\ pc[r] = "settle" => charged[r] # "none"
    /\ draft[r] # None =>
          ColumnsAgree(draft[r], IF pc[r] = "settle" THEN "none" ELSE charged[r])
    /\ charged[r] # "none" => draft[r] # None \/ order[r] # None \/ pc[r] = "failed"

\* The snapshot of the payment status follows the draft, or the order found.
Snapshot(r) ==
    /\ draft[r] # None => ans[r] = r /\ says[r] = draft[r].paymentStatus
    /\ ans[r] # None /\ draft[r] = None => says[r] = order[ans[r]].paymentStatus

\* The only coupon a request locks is its own; from the INSERT on the lock and
\* the order's discount go together.
CouponHeld(r) ==
    /\ \A c \in Coupons : <<"coupon", c>> \in locks[r] =>
          c = req[r].coupon /\ (pc[r] = "insert" \/ draft[r] # None)
    /\ draft[r] # None =>
          (draft[r].discounted <=> <<"coupon", req[r].coupon>> \in locks[r])

\* A locked cart row is a row of the session, locked by a request with a draft.
RowsHeld(r) ==
    \A a \in Adds : <<"row", a>> \in locks[r] =>
        draft[r] # None /\ cart[a] # None /\ cart[a].session = req[r].session

\* For the lines a draft has reserved so far: it took no more than they ask
\* for, holds the product of each, and missed units only where the stock could
\* not cover all of them.
LinesReserved(r) ==
    draft[r] # None =>
        /\ pc[r] # "reserve" => line[r] = Len(items[r])
        /\ \A p \in Products :
              LET ordered == Ordered(items[r], line[r], p)
              IN  /\ draft[r].taken[p] <= ordered
                  /\ ordered > 0 => <<"product", p>> \in locks[r]
                  /\ ordered > draft[r].taken[p] => ordered > stock[p]

\* The row an add would insert is not there before the add writes it.
AddPending(a) == addpc[a] # "done" => cart[a] = None

\* What the invariants on payments, coupons, carts and stock rest on
Bookkeeping ==
    /\ \A r \in Requests : PaymentSoFar(r) /\ Snapshot(r) /\ CouponHeld(r)
                           /\ RowsHeld(r) /\ LinesReserved(r)
    /\ \A a \in Adds : AddPending(a)
    /\ CouponUsesAreOrders
    /\ PaymentColumnsAgree
    /\ CrmHearsTheTruth

\* Everything above at once: the invariant the proofs are about.
IInv == CoreInv /\ Bookkeeping

-----------------------------------------------------------------------------
\* A coupon with a cap is used at most that often.
CouponCapRespected == \A c \in Coupons : MaxUses[c] # 0 => used[c] <= MaxUses[c]
=============================================================================
