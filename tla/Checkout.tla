------------------------------- MODULE Checkout -------------------------------
(***************************************************************************)
(* Placing an order in the shop: POST /api/shop/checkout and POST          *)
(* /api/orders, the place_order service both call, and POST /api/cart/add  *)
(* and DELETE /api/cart/{id} on the same cart.                             *)
(*                                                                         *)
(* Each placement request runs one database transaction (get_db commits on *)
(* a normal exit and rolls back on an exception) with an await between any *)
(* two statements, so one action is one statement.  The database is READ   *)
(* COMMITTED (Oracle or PostgreSQL, engine defaults): a SELECT sees        *)
(* committed rows; an UPDATE or DELETE waits for the row's lock and an     *)
(* INSERT of a unique value waits for another uncommitted insert of it;    *)
(* locks last until commit or rollback.  What a transaction has written is *)
(* read off the locks it holds and its draft order, and reaches the tables *)
(* in Commit.                                                              *)
(***************************************************************************)
EXTENDS Integers, Sequences, FiniteSets, Functions

CONSTANTS
    Requests,       \* order-placing HTTP requests; the order a request
                    \* inserts is named after the request
    Adds,           \* cart/add requests; the row an add inserts is named after it
    Products, Sessions, Keys, Coupons, Emails,
    None,           \* no session, key, coupon, row, order or request
    Params,         \* what a placement request may ask for
    AddParams,      \* what an add may ask for
    InitStock,      \* products.stock at the start
    MaxUses,        \* coupons.max_uses; 0 means unlimited
    InitCustomers,  \* the e-mails that have a customers row at the start
    InitCart        \* the cart_items rows that earlier adds left

Line  == [product: Products, quantity: Nat \ {0}]
Row   == [session: Sessions, product: Products, quantity: Nat \ {0}]

Param == [kind: {"checkout", "orders"}, session: Sessions \cup {None},
          key: Keys \cup {None}, coupon: Coupons \cup {None}, email: Emails,
          direct: Seq(Line)]

\* payment_status outcomes of authorize_simulated_payment
Outcome == {"authorized", "declined", "timeout"}

\* What the CRM can be told about the payment of an order; nothing so far.
Heard == {"none", "pending", "paid", "failed"}

Order == [items: Seq(Line), discounted: BOOLEAN, taken: [Products -> Nat],
          status: {"payment_pending", "paid"},
          paymentStatus: {"pending", "paid", "failed"},
          paymentRequired: BOOLEAN]

\* The rows and unique values a transaction can hold until it ends.
Resource == ({"customer"} \X Emails) \cup ({"coupon"} \X Coupons)
            \cup ({"key"} \X Keys) \cup ({"product"} \X Products)
            \cup ({"row"} \X Adds)

\* POST /orders has no idempotency key; it reads the cart iff it has a
\* session, while a checkout always has one (a fresh uuid if need be).
ASSUME CheckoutAssumption ==
    /\ IsFiniteSet(Requests) /\ IsFiniteSet(Adds)
    /\ None \notin Requests \cup Adds \cup Keys \cup Sessions \cup Coupons
    /\ None \notin Row \cup Order
    /\ Params \subseteq Param
    /\ \A p \in Params : /\ p.kind = "orders" => p.key = None
                         /\ p.kind = "checkout" => p.session # None
    /\ AddParams \subseteq Row
    /\ InitStock \in [Products -> Nat]
    /\ MaxUses \in [Coupons -> Nat]
    /\ InitCustomers \subseteq Emails
    /\ InitCart \in [Adds -> AddParams \cup {None}]

VARIABLES
    stock, used, customers, cart, order,            \* committed tables
    req, pc, items, line, known, ans, draft, says, locks, \* one per placement request
                            \* (says: the payment status it will tell the CRM)
    charged, pushed,        \* what the payment gateway and the CRM have heard
    addreq, addpc, addrow                           \* one per add

tables  == <<stock, used, customers, cart, order>>
adding  == <<addreq, addpc, addrow>>
outside == <<charged, pushed>>
vars    == <<tables, req, pc, items, line, known, ans, draft, says, locks,
             outside, adding>>

InTransaction == {"customer", "upsert", "lookup", "coupon", "redeem", "insert",
                  "conflict", "reserve", "clear", "pay", "settle", "commit"}
Ended == {"done", "failed"}
Locations == {"start", "push"} \cup InTransaction \cup Ended

TypeOK ==
    /\ stock \in [Products -> Nat]
    /\ used \in [Coupons -> Nat]
    /\ customers \in SUBSET Emails
    /\ cart \in [Adds -> Row \cup {None}]
    /\ order \in [Requests -> Order \cup {None}]
    /\ req \in [Requests -> Params]
    /\ pc \in [Requests -> Locations]
    /\ items \in [Requests -> Seq(Line)]
    /\ line \in [Requests -> Nat]
    /\ known \in [Requests -> BOOLEAN]
    /\ ans \in [Requests -> Requests \cup {None}]
    /\ draft \in [Requests -> Order \cup {None}]
    /\ says \in [Requests -> Heard]
    /\ locks \in [Requests -> SUBSET Resource]
    /\ charged \in [Requests -> Outcome \cup {"none"}]
    /\ pushed \in [Requests -> Heard]
    /\ addreq \in [Adds -> AddParams]
    /\ addpc \in [Adds -> {"start", "write", "done"}]
    /\ addrow \in [Adds -> Adds \cup {None}]

-----------------------------------------------------------------------------
(* Committed rows and lock waits *)

Placed == {r \in Requests : order[r] # None}

\* Faulty variants: a lookup that wants a paid order; one that forgets the key.
PaidFor(k) == {r \in Placed : req[r].key = k /\ order[r].status = "paid"}
AnyPlaced(k) == Placed

PlacedFor(k) == {r \in Placed : req[r].key = k}

CartRows(s) == {a \in Adds : cart[a] # None /\ cart[a].session = s}

\* The rows or unique values the next statement of r must lock.
Needs(r) ==
    CASE pc[r] = "upsert"  -> {<<"customer", req[r].email>>}
      [] pc[r] = "redeem"  -> {<<"coupon", req[r].coupon>>}
      [] pc[r] = "insert"  -> {"key"} \X ({req[r].key} \ {None})
      [] pc[r] = "reserve" -> {<<"product", items[r][line[r] + 1].product>>}
      [] pc[r] = "clear"   -> {"row"} \X CartRows(req[r].session)
      [] OTHER -> {}

WaitsFor(r, s) == r # s /\ Needs(r) \cap locks[s] # {}

\* The statement of r gets its locks; it waits while another holds one.
Acquire(r) ==
    /\ \A s \in Requests : ~WaitsFor(r, s)
    /\ locks' = [locks EXCEPT ![r] = @ \cup Needs(r)]

Goto(r, l) == pc' = [pc EXCEPT ![r] = l]

\* Faulty variant: the coupon's use is counted outside the transaction.
RollbackButCoupon(r) ==
    /\ locks' = [locks EXCEPT ![r] = @ \cap ({"coupon"} \X Coupons)]
    /\ draft' = [draft EXCEPT ![r] = None]
    /\ ans' = [ans EXCEPT ![r] = None]
    /\ says' = [says EXCEPT ![r] = "none"]

\* get_db's rollback: every lock and every write of r is gone.
Rollback(r) ==
    /\ locks' = [locks EXCEPT ![r] = {}]
    /\ draft' = [draft EXCEPT ![r] = None]
    /\ ans' = [ans EXCEPT ![r] = None]
    /\ says' = [says EXCEPT ![r] = "none"]

-----------------------------------------------------------------------------
(* The placement transaction, one statement at a time *)

\* A cart is read ORDER BY created_at DESC; the timestamps tie, so any order.
CartLines(rows) ==
    {[i \in 1..Cardinality(rows) |->
        [product |-> cart[s[i]].product, quantity |-> cart[s[i]].quantity]] :
     s \in Bijection(1..Cardinality(rows), rows)}

\* fetch_cart_items, else resolve_direct_items; an empty cart is answered.
FetchItems(r) ==
    LET rows   == CartRows(req[r].session)
        direct == req[r].kind = "checkout" \/ req[r].session = None
    IN  /\ pc[r] = "start"
        /\ \E lines \in IF rows = {} THEN {IF direct THEN req[r].direct ELSE <<>>}
                                     ELSE CartLines(rows) :
             /\ items' = [items EXCEPT ![r] = lines]
             /\ Goto(r, IF lines = <<>> THEN "done" ELSE "customer")
        /\ UNCHANGED <<tables, req, line, known, ans, draft, says, locks, outside, adding>>

\* ensure_customer's SELECT
SelectCustomer(r) ==
    /\ pc[r] = "customer"
    /\ known' = [known EXCEPT ![r] = req[r].email \in customers]
    /\ Goto(r, "upsert")
    /\ UNCHANGED <<tables, req, items, line, ans, draft, says, locks, outside, adding>>

\* ensure_customer's UPDATE or INSERT.  The e-mail is unique, and nothing
\* catches the violation when another request inserted it meanwhile.
UpsertCustomer(r) ==
    /\ pc[r] = "upsert"
    /\ IF ~known[r] /\ req[r].email \in customers
       THEN /\ \A s \in Requests : ~WaitsFor(r, s)
            /\ UNCHANGED locks
            /\ Goto(r, "failed")
       ELSE Acquire(r) /\ Goto(r, "lookup")
    /\ UNCHANGED <<tables, req, items, line, known, ans, draft, says, outside, adding>>

\* place_order returns an order found under the key as it reads it; the request
\* keeps the payment status of that row.
Replay(r) ==
    /\ \E s \in PlacedFor(req[r].key) :
          /\ ans' = [ans EXCEPT ![r] = s]
          /\ says' = [says EXCEPT ![r] = order[s].paymentStatus]
    /\ Goto(r, "commit")

\* The order already placed under the key, if any.
LookupKey(r) ==
    /\ pc[r] = "lookup"
    /\ IF req[r].key # None /\ PlacedFor(req[r].key) # {}
       THEN Replay(r)
       ELSE UNCHANGED <<ans, says>> /\ Goto(r, "coupon")
    /\ UNCHANGED <<tables, req, items, line, known, draft, locks, outside, adding>>

CouponValid(c) == c # None /\ (MaxUses[c] # 0 => used[c] < MaxUses[c])

\* apply_coupon's SELECT and its test of used_count
SelectCoupon(r) ==
    /\ pc[r] = "coupon"
    /\ Goto(r, IF CouponValid(req[r].coupon) THEN "redeem" ELSE "insert")
    /\ UNCHANGED <<tables, req, items, line, known, ans, draft, says, locks, outside, adding>>

\* apply_coupon's UPDATE of used_count
RedeemCoupon(r) ==
    /\ pc[r] = "redeem"
    /\ Acquire(r)
    /\ Goto(r, "insert")
    /\ UNCHANGED <<tables, req, items, line, known, ans, draft, says, outside, adding>>

NewOrder(r) ==
    [items |-> items[r], discounted |-> <<"coupon", req[r].coupon>> \in locks[r],
     taken |-> [p \in Products |-> 0], status |-> "payment_pending",
     paymentStatus |-> "pending", paymentRequired |-> TRUE]

\* Faulty variant: no unique constraint on the key.
InsertNoUnique(r) ==
    /\ pc[r] = "insert"
    /\ draft' = [draft EXCEPT ![r] = NewOrder(r)]
    /\ ans' = [ans EXCEPT ![r] = r]
    /\ says' = [says EXCEPT ![r] = "pending"]
    /\ Goto(r, "reserve")
    /\ UNCHANGED <<tables, req, items, line, known, locks, outside, adding>>

\* INSERT INTO orders; on IntegrityError place_order rolls back and looks again.
InsertOrder(r) ==
    /\ pc[r] = "insert"
    /\ IF req[r].key # None /\ PlacedFor(req[r].key) # {}
       THEN /\ \A s \in Requests : ~WaitsFor(r, s)
            /\ Rollback(r)
            /\ Goto(r, "conflict")
       ELSE /\ Acquire(r)
            /\ draft' = [draft EXCEPT ![r] = NewOrder(r)]
            /\ ans' = [ans EXCEPT ![r] = r]
            /\ says' = [says EXCEPT ![r] = "pending"]
            /\ Goto(r, "reserve")
    /\ UNCHANGED <<tables, req, items, line, known, outside, adding>>

\* Faulty variant: tries the INSERT again.
RetryConflict(r) ==
    /\ pc[r] = "conflict"
    /\ Goto(r, "insert")
    /\ UNCHANGED <<tables, req, items, line, known, ans, draft, says, locks, outside, adding>>

\* The lookup after the rollback: a replay, or the error again.
LookupConflict(r) ==
    /\ pc[r] = "conflict"
    /\ IF PlacedFor(req[r].key) # {}
       THEN Replay(r)
       ELSE UNCHANGED <<ans, says>> /\ Goto(r, "failed")
    /\ UNCHANGED <<tables, req, items, line, known, draft, locks, outside, adding>>

\* Faulty variants: the UPDATE without its CASE; its last unit stays behind.
TakeAlways(o, l) == [o EXCEPT !.taken[l.product] = @ + l.quantity]
TakeStrict(o, l) ==
    [o EXCEPT !.taken =
        [p \in Products |->
            IF p = l.product /\ stock[p] - o.taken[p] > l.quantity
            THEN o.taken[p] + l.quantity ELSE o.taken[p]]]

\* The stock UPDATE of one line: subtracts nothing when there is too little.
Take(o, l) ==
    [o EXCEPT !.taken =
        [p \in Products |->
            IF p = l.product /\ stock[p] - o.taken[p] >= l.quantity
            THEN o.taken[p] + l.quantity ELSE o.taken[p]]]

\* One order line: INSERT INTO order_items and UPDATE products SET stock
ReserveLine(r) ==
    /\ pc[r] = "reserve"
    /\ Acquire(r)
    /\ draft' = [draft EXCEPT ![r] = Take(@, items[r][line[r] + 1])]
    /\ line' = [line EXCEPT ![r] = @ + 1]
    /\ Goto(r, IF line[r] + 1 = Len(items[r]) THEN "clear" ELSE "reserve")
    /\ UNCHANGED <<tables, req, items, known, ans, says, outside, adding>>

\* Faulty variant: the DELETE is committed at once.
ClearCartAtOnce(r) ==
    /\ pc[r] = "clear"
    /\ Acquire(r)
    /\ cart' = [a \in Adds |-> IF a \in CartRows(req[r].session) THEN None ELSE cart[a]]
    /\ Goto(r, IF req[r].kind = "checkout" THEN "pay" ELSE "commit")
    /\ UNCHANGED <<stock, used, customers, order, req, items, line, known, ans,
                   draft, says, outside, adding>>

\* The shipment, the audit row, and DELETE FROM cart_items of the session.
\* POST /orders then commits; a checkout authorizes the payment first.
ClearCart(r) ==
    /\ pc[r] = "clear"
    /\ Acquire(r)
    /\ Goto(r, IF req[r].kind = "checkout" THEN "pay" ELSE "commit")
    /\ UNCHANGED <<tables, req, items, line, known, ans, draft, says, outside, adding>>

\* authorize_simulated_payment, awaited inside the transaction; "skipped"
\* when the simulation is switched off.
AuthorizePayment(r) ==
    /\ pc[r] = "pay"
    /\ \/ \E o \in Outcome : /\ charged' = [charged EXCEPT ![r] = o]
                             /\ Goto(r, "settle")
       \/ UNCHANGED charged /\ Goto(r, "commit")
    /\ UNCHANGED <<tables, req, items, line, known, ans, draft, says, locks, pushed, adding>>

\* Faulty variant: payment_required is cleared whatever the outcome.
SettledAlways(o, outcome) ==
    [o EXCEPT !.status = IF outcome = "authorized" THEN "paid" ELSE "payment_pending",
              !.paymentStatus = IF outcome = "authorized" THEN "paid" ELSE "failed",
              !.paymentRequired = FALSE]

\* update_order_payment_state
Settled(o, outcome) ==
    [o EXCEPT !.status = IF outcome = "authorized" THEN "paid" ELSE "payment_pending",
              !.paymentStatus = IF outcome = "authorized" THEN "paid" ELSE "failed",
              !.paymentRequired = outcome # "authorized"]

\* Faulty variant: the request keeps the payment state it took from the INSERT.
PersistUnheard(r) ==
    /\ pc[r] = "settle"
    /\ draft' = [draft EXCEPT ![r] = Settled(@, charged[r])]
    /\ Goto(r, "commit")
    /\ UNCHANGED <<tables, req, items, line, known, ans, says, locks, outside, adding>>

\* The UPDATE; the request keeps the payment state that was written.
PersistPayment(r) ==
    /\ pc[r] = "settle"
    /\ draft' = [draft EXCEPT ![r] = Settled(@, charged[r])]
    /\ says' = [says EXCEPT ![r] = draft'[r].paymentStatus]
    /\ Goto(r, "commit")
    /\ UNCHANGED <<tables, req, items, line, known, ans, locks, outside, adding>>

\* The writes of r become visible and its locks are released.
Commit(r) ==
    /\ pc[r] = "commit"
    /\ customers' = customers \cup {e \in Emails : <<"customer", e>> \in locks[r]}
    /\ used' = [c \in Coupons |->
                  used[c] + (IF <<"coupon", c>> \in locks[r] THEN 1 ELSE 0)]
    /\ cart' = [a \in Adds |-> IF <<"row", a>> \in locks[r] THEN None ELSE cart[a]]
    /\ IF draft[r] # None
       THEN /\ order' = [order EXCEPT ![r] = draft[r]]
            /\ stock' = [p \in Products |-> stock[p] - draft[r].taken[p]]
       ELSE UNCHANGED <<order, stock>>
    /\ locks' = [locks EXCEPT ![r] = {}]
    /\ draft' = [draft EXCEPT ![r] = None]
    /\ Goto(r, "push")
    /\ UNCHANGED <<req, items, line, known, ans, says, outside, adding>>

\* sync_order_to_crm after the commit, with the request's own snapshot of the
\* payment status (POST /orders sends the default), delivered or not; then the answer.
PushToCrm(r) ==
    /\ pc[r] = "push"
    /\ \/ pushed' = [pushed EXCEPT ![ans[r]] = says[r]]
       \/ UNCHANGED pushed
    /\ Goto(r, "done")
    /\ UNCHANGED <<tables, req, items, line, known, ans, draft, says, locks, charged, adding>>

-----------------------------------------------------------------------------
(* Failures *)

\* An exception, a cancelled request or a killed pod inside the transaction
Abort(r) ==
    /\ pc[r] \in InTransaction
    /\ Rollback(r)
    /\ Goto(r, "failed")
    /\ UNCHANGED <<tables, req, items, line, known, outside, adding>>

\* The process dies after the commit: no push and no answer.
CrashAfterCommit(r) ==
    /\ pc[r] = "push"
    /\ Goto(r, "failed")
    /\ UNCHANGED <<tables, req, items, line, known, ans, draft, says, locks, outside, adding>>

\* r is on a cycle of waits (each waiter waits for one row or value).
Deadlocked(r) ==
    \E C \in SUBSET Requests :
        /\ r \in C
        /\ \A x \in C : \E y \in C : WaitsFor(x, y)
        /\ \A y \in C : \E x \in C : WaitsFor(x, y)

\* The database picks a victim; its error propagates and get_db rolls back.
DeadlockVictim(r) ==
    /\ pc[r] \in InTransaction
    /\ Deadlocked(r)
    /\ Rollback(r)
    /\ Goto(r, "failed")
    /\ UNCHANGED <<tables, req, items, line, known, outside, adding>>

-----------------------------------------------------------------------------
(* The cart: POST /cart/add reads, then writes; DELETE /cart/{id} *)

AddSelect(a) ==
    LET same == {b \in CartRows(addreq[a].session) : cart[b].product = addreq[a].product}
    IN  /\ addpc[a] = "start"
        /\ IF stock[addreq[a].product] <= 0
           THEN addpc' = [addpc EXCEPT ![a] = "done"] /\ UNCHANGED addrow
           ELSE /\ addpc' = [addpc EXCEPT ![a] = "write"]
                /\ \E b \in IF same = {} THEN {None} ELSE same :
                     addrow' = [addrow EXCEPT ![a] = b]
        /\ UNCHANGED <<tables, req, pc, items, line, known, ans, draft, says,
                       locks, outside, addreq>>

RowFree(a) == \A r \in Requests : <<"row", a>> \notin locks[r]

\* Increments the row it saw, if that is still there, or inserts its own.
AddWrite(a) ==
    LET b == addrow[a]
    IN  /\ addpc[a] = "write"
        /\ IF b = None
           THEN cart' = [cart EXCEPT ![a] = addreq[a]]
           ELSE /\ RowFree(b)
                /\ cart' = IF cart[b] = None THEN cart
                           ELSE [cart EXCEPT ![b].quantity = @ + addreq[a].quantity]
        /\ addpc' = [addpc EXCEPT ![a] = "done"]
        /\ UNCHANGED <<stock, used, customers, order, req, pc, items, line, known,
                       ans, draft, says, locks, outside, addreq, addrow>>

RemoveRow(a) ==
    /\ cart[a] # None
    /\ RowFree(a)
    /\ cart' = [cart EXCEPT ![a] = None]
    /\ UNCHANGED <<stock, used, customers, order, req, pc, items, line, known,
                   ans, draft, says, locks, outside, adding>>

-----------------------------------------------------------------------------
Init ==
    /\ stock = InitStock
    /\ used = [c \in Coupons |-> 0]
    /\ customers = InitCustomers
    /\ cart = InitCart
    /\ order = [r \in Requests |-> None]
    /\ req \in [Requests -> Params]
    /\ pc = [r \in Requests |-> "start"]
    /\ items = [r \in Requests |-> <<>>]
    /\ line = [r \in Requests |-> 0]
    /\ known = [r \in Requests |-> FALSE]
    /\ ans = [r \in Requests |-> None]
    /\ draft = [r \in Requests |-> None]
    /\ says = [r \in Requests |-> "none"]
    /\ locks = [r \in Requests |-> {}]
    /\ charged = [r \in Requests |-> "none"]
    /\ pushed = [r \in Requests |-> "none"]
    /\ addreq \in {f \in [Adds -> AddParams] :
                    \A a \in Adds : InitCart[a] # None => f[a] = InitCart[a]}
    /\ addpc = [a \in Adds |-> IF InitCart[a] = None THEN "start" ELSE "done"]
    /\ addrow = [a \in Adds |-> None]

\* The statements of a request whose handler has begun
Statement(r) ==
    \/ SelectCustomer(r) \/ UpsertCustomer(r) \/ LookupKey(r) \/ SelectCoupon(r)
    \/ RedeemCoupon(r) \/ InsertOrder(r) \/ LookupConflict(r) \/ ReserveLine(r)
    \/ ClearCart(r) \/ AuthorizePayment(r) \/ PersistPayment(r) \/ Commit(r)
    \/ PushToCrm(r)

Next ==
    \/ \E r \in Requests : \/ FetchItems(r) \/ Statement(r) \/ Abort(r)
                           \/ CrashAfterCommit(r) \/ DeadlockVictim(r)
    \/ \E a \in Adds : AddSelect(a) \/ AddWrite(a) \/ RemoveRow(a)

Spec == Init /\ [][Next]_vars

\* The event loop runs every handler on, the database grants a lock once it
\* is free and breaks deadlocks.  Arrivals and failures are owed nothing.
FairSpec ==
    Spec /\ \A r \in Requests : WF_vars(Statement(r)) /\ WF_vars(DeadlockVictim(r))
=============================================================================
