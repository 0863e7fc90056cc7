---------------------------- MODULE PlacementProofs ----------------------------
(***************************************************************************)
(* What CoreInv does not say about placing orders: the payment columns,    *)
(* the coupon counts, the cart rows, what the CRM heard, and the stock     *)
(* that short orders leave behind.  IInv adds their bookkeeping to CoreInv *)
(* and is inductive too.                                                   *)
(***************************************************************************)
EXTENDS CheckoutProofs, InductionLemmas

-----------------------------------------------------------------------------
(* Totals over order lines *)

\* The running totals of a finite sequence of numbers exist.
LEMMA RunningTotal ==
    ASSUME NEW L \in Nat, NEW w \in [1..L -> Nat]
    PROVE  \E f \in [0..L -> Nat] :
              f[0] = 0 /\ \A i \in 1..L : f[i] = f[i - 1] + w[i]
<1> DEFINE Totals(n, f) == f[0] = 0 /\ \A i \in 1..n : f[i] = f[i - 1] + w[i]
           S == {n \in Nat : n <= L => \E f \in [0..n -> Nat] : Totals(n, f)}
<1>1. 0 \in S
  <2>1. [i \in 0..0 |-> 0] \in [0..0 -> Nat] /\ Totals(0, [i \in 0..0 |-> 0])
    OBVIOUS
  <2>2. QED
    BY <2>1
<1>2. ASSUME NEW n \in Nat, n \in S
      PROVE  n + 1 \in S
  <2>1. CASE ~(n + 1 <= L)
    BY <2>1
  <2>2. CASE n + 1 <= L
    <3>1. PICK f \in [0..n -> Nat] : Totals(n, f)
      BY <1>2, <2>2
    <3> DEFINE g == [i \in 0..(n + 1) |-> IF i = n + 1 THEN f[n] + w[n + 1] ELSE f[i]]
    <3>2. f[n] \in Nat /\ w[n + 1] \in Nat
      BY <2>2
    <3>3. g \in [0..(n + 1) -> Nat]
      BY <3>2
    <3>4. g[0] = 0 /\ g[n + 1] = g[n] + w[n + 1]
      BY <3>1
    <3>5. ASSUME NEW i \in 1..n
          PROVE  g[i] = g[i - 1] + w[i]
      <4>1. g[i] = f[i] /\ g[i - 1] = f[i - 1]
        OBVIOUS
      <4>2. QED
        BY <3>1, <4>1
    <3>6. Totals(n + 1, g)
      <4> HIDE DEF g
      <4>1. \A i \in 1..(n + 1) : i = n + 1 \/ i \in 1..n
        OBVIOUS
      <4>2. (n + 1) - 1 = n
        OBVIOUS
      <4>3. QED
        BY <3>4, <3>5, <4>1, <4>2
    <3>7. QED
      <4> HIDE DEF g, Totals
      <4>1. \E h \in [0..(n + 1) -> Nat] : Totals(n + 1, h)
        BY <3>3, <3>6
      <4>2. n + 1 \in Nat
        OBVIOUS
      <4>3. QED
        BY <4>1, <4>2, Zenon
  <2>3. QED
    BY <2>1, <2>2
<1>3. L \in S
  <2> HIDE DEF S
  <2>1. QED
    BY <1>1, <1>2, SetInduction
<1>4. \E f \in [0..L -> Nat] : Totals(L, f)
  <2> HIDE DEF Totals
  <2>1. QED
    BY <1>3
<1>5. QED
  BY <1>4

\* The recursion of Ordered does what it says: it starts at nothing and each
\* line adds its quantity to its own product.
LEMMA OrderedSteps ==
    ASSUME NEW ls \in Seq(Line), NEW p
    PROVE  /\ \A n \in 0..Len(ls) : Ordered(ls, n, p) \in Nat
           /\ Ordered(ls, 0, p) = 0
           /\ \A n \in 1..Len(ls) :
                 Ordered(ls, n, p) = Ordered(ls, n - 1, p)
                    + (IF ls[n].product = p THEN ls[n].quantity ELSE 0)
<1> DEFINE w == [i \in 1..Len(ls) |-> IF ls[i].product = p THEN ls[i].quantity ELSE 0]
           Equation(f) == f = [i \in 0..Len(ls) |->
               IF i = 0 THEN 0
               ELSE f[i - 1] + (IF ls[i].product = p THEN ls[i].quantity ELSE 0)]
           upTo == CHOOSE f : Equation(f)
<1>1. w \in [1..Len(ls) -> Nat] /\ Len(ls) \in Nat
  <2>1. \A i \in 1..Len(ls) : ls[i] \in Line
    OBVIOUS
  <2>3. \A l \in Line : l.quantity \in Nat
    BY DEF Line
  <2>2. QED
    BY <2>1, <2>3
<1>2. PICK f \in [0..Len(ls) -> Nat] :
        f[0] = 0 /\ \A i \in 1..Len(ls) : f[i] = f[i - 1] + w[i]
  <2> HIDE DEF w
  <2>1. QED
    BY <1>1, RunningTotal
<1>3. Equation(f)
  BY <1>1, <1>2
<1>4. Equation(upTo)
  BY <1>3
<1>5. \A n : Ordered(ls, n, p) = upTo[n]
  BY DEF Ordered
<1>6. upTo[0] = 0 /\ \A n \in 1..Len(ls) : upTo[n] = upTo[n - 1] + w[n]
  <2> HIDE DEF upTo
  <2>1. QED
    BY <1>1, <1>4
<1>7. \A n \in 0..Len(ls) : upTo[n] \in Nat
  <2> DEFINE S == {n \in Nat : n <= Len(ls) => upTo[n] \in Nat}
  <2> HIDE DEF upTo, w
  <2>1. 0 \in S
    BY <1>6
  <2>2. ASSUME NEW n \in Nat, n \in S
        PROVE  n + 1 \in S
    BY <1>1, <1>6, <2>2
  <2>3. Nat \subseteq S
    <3> HIDE DEF S
    <3>1. QED
      BY <2>1, <2>2, SetInduction
  <2>4. QED
    BY <1>1, <2>3
<1>8. QED
  <2> HIDE DEF upTo
  <2>1. QED
    BY <1>5, <1>6, <1>7

-----------------------------------------------------------------------------
(* What a step leaves alone *)

USE CheckoutAssumption

\* What the bookkeeping of a request looks at, apart from stock and carts
Still(q) ==
    /\ Same(q) /\ locks'[q] = locks[q] /\ charged'[q] = charged[q]

\* A step of one request, or of the cart endpoints, leaves the others still.
LEMMA OthersStill ==
    ASSUME TypeOK, NEW r \in Requests, NEW q \in Requests, q # r,
           \/ FetchItems(r) \/ Statement(r) \/ Abort(r)
           \/ CrashAfterCommit(r) \/ DeadlockVictim(r)
    PROVE  Still(q)
<1> USE DEF TypeOK, outside, adding, tables, Acquire
<1>1. Same(q)
  BY OthersSame
<1>2. CASE FetchItems(r) \/ Abort(r) \/ CrashAfterCommit(r) \/ DeadlockVictim(r)
  BY <1>1, <1>2 DEF FetchItems, Abort, CrashAfterCommit, DeadlockVictim, Rollback, Still
<1>3. CASE SelectCustomer(r) \/ UpsertCustomer(r) \/ LookupKey(r) \/ SelectCoupon(r)
           \/ RedeemCoupon(r) \/ LookupConflict(r) \/ ClearCart(r)
  BY <1>1, <1>3 DEF SelectCustomer, UpsertCustomer, LookupKey, SelectCoupon,
     RedeemCoupon, LookupConflict, ClearCart, Still
<1>4. CASE InsertOrder(r) \/ ReserveLine(r) \/ AuthorizePayment(r)
  BY <1>1, <1>4 DEF InsertOrder, ReserveLine, AuthorizePayment, Rollback, Still
<1>5. CASE PersistPayment(r) \/ Commit(r) \/ PushToCrm(r)
  BY <1>1, <1>5 DEF PersistPayment, Commit, PushToCrm, Still
<1>6. QED
  BY <1>2, <1>3, <1>4, <1>5 DEF Statement

LEMMA CartStepsStill ==
    ASSUME NEW q \in Requests,
           UNCHANGED vars \/ \E a \in Adds : AddSelect(a) \/ AddWrite(a) \/ RemoveRow(a)
    PROVE  Still(q)
<1>1. ASSUME NEW a \in Adds, AddSelect(a) \/ AddWrite(a) \/ RemoveRow(a)
      PROVE  Still(q)
  BY <1>1 DEF AddSelect, AddWrite, RemoveRow, Same, Still, tables, outside
<1>2. CASE UNCHANGED vars
  BY <1>2 DEF vars, tables, outside, Same, Still
<1>3. QED
  BY <1>1, <1>2

\* What a request's own step does to its place, locks, draft, order and
\* charge: one definition per kind of step.
Books(q) == <<order[q], charged[q], items[q], line[q]>>

Passes(q) ==     \* no draft yet, or none any more
    /\ \/ /\ pc[q] \in BeforeInsert \ {"insert"}
          /\ pc'[q] \in BeforeInsert \cup {"commit", "failed", "done"}
       \/ pc[q] = "conflict" /\ pc'[q] \in {"commit", "failed"}
       \/ pc[q] = "push" /\ pc'[q] \in Ended
    /\ \/ locks'[q] = locks[q]
       \/ locks'[q] = locks[q] \cup {<<"customer", req[q].email>>}
       \/ locks'[q] = locks[q] \cup {<<"coupon", req[q].coupon>>} /\ pc'[q] = "insert"
    /\ draft'[q] = draft[q] /\ order'[q] = order[q] /\ charged'[q] = charged[q]
Conflicts(q) ==  \* the INSERT fails and is rolled back
    /\ pc[q] = "insert" /\ pc'[q] = "conflict"
    /\ locks'[q] = {} /\ draft'[q] = None /\ Books(q)' = Books(q)
Inserts(q) ==    \* the draft appears
    /\ pc[q] = "insert" /\ pc'[q] = "reserve" /\ draft'[q] = NewOrder(q)
    /\ locks'[q] = locks[q] \cup ({"key"} \X ({req[q].key} \ {None}))
    /\ Books(q)' = Books(q)
Reserves(q) ==   \* the draft takes one line
    LET l == items[q][line[q] + 1]
    IN  /\ pc[q] = "reserve" /\ line'[q] = line[q] + 1
        /\ pc'[q] = IF line'[q] = Len(items[q]) THEN "clear" ELSE "reserve"
        /\ draft'[q] = Take(draft[q], l)
        /\ locks'[q] = locks[q] \cup {<<"product", l.product>>}
        /\ items'[q] = items[q] /\ order'[q] = order[q] /\ charged'[q] = charged[q]
Clears(q) ==     \* the cart is emptied
    /\ pc[q] = "clear" /\ pc'[q] \in {"pay", "commit"}
    /\ locks'[q] = locks[q] \cup ({"row"} \X CartRows(req[q].session))
    /\ draft'[q] = draft[q] /\ Books(q)' = Books(q)
Pays(q) ==       \* the gateway answers, or is not asked
    /\ pc[q] = "pay"
    /\ \/ pc'[q] = "settle" /\ charged'[q] \in Outcome
       \/ pc'[q] = "commit" /\ charged'[q] = charged[q]
    /\ locks'[q] = locks[q] /\ draft'[q] = draft[q] /\ order'[q] = order[q]
    /\ items'[q] = items[q] /\ line'[q] = line[q]
Settles(q) ==    \* the outcome is written to the draft
    /\ pc[q] = "settle" /\ pc'[q] = "commit"
    /\ draft'[q] = Settled(draft[q], charged[q])
    /\ locks'[q] = locks[q] /\ Books(q)' = Books(q)
Commits(q) ==    \* the draft, if any, becomes the order
    /\ pc[q] = "commit" /\ pc'[q] = "push"
    /\ locks'[q] = {} /\ draft'[q] = None
    /\ order'[q] = IF draft[q] # None THEN draft[q] ELSE order[q]
    /\ charged'[q] = charged[q]
Fails(q) ==      \* everything is rolled back
    /\ pc[q] \in InTransaction /\ pc'[q] = "failed"
    /\ locks'[q] = {} /\ draft'[q] = None /\ Books(q)' = Books(q)

\* Every step either leaves a request still or is one of the kinds above.
LEMMA OwnSteps ==
    ASSUME TypeOK, [Next]_vars, NEW q \in Requests
    PROVE  \/ Still(q) \/ Passes(q) \/ Conflicts(q) \/ Inserts(q) \/ Reserves(q)
           \/ Clears(q) \/ Pays(q) \/ Settles(q) \/ Commits(q) \/ Fails(q)
<1> USE DEF TypeOK, Goto, outside, tables, Acquire, Books
<1>1. CASE FetchItems(q)
  BY <1>1 DEF FetchItems, Passes, BeforeInsert
<1>2. CASE SelectCustomer(q) \/ UpsertCustomer(q)
  BY <1>2 DEF SelectCustomer, UpsertCustomer, Needs, Passes, BeforeInsert
<1>3. CASE LookupKey(q)
  BY <1>3 DEF LookupKey, Replay, Passes, BeforeInsert
<1>4. CASE SelectCoupon(q) \/ RedeemCoupon(q)
  BY <1>4 DEF SelectCoupon, RedeemCoupon, Needs, Passes, BeforeInsert
<1>5. CASE InsertOrder(q)
  BY <1>5 DEF InsertOrder, Needs, Rollback, Conflicts, Inserts
<1>6. CASE LookupConflict(q)
  BY <1>6 DEF LookupConflict, Replay, Passes
<1>7. CASE ReserveLine(q)
  BY <1>7 DEF ReserveLine, Needs, Reserves
<1>8. CASE ClearCart(q)
  BY <1>8 DEF ClearCart, Needs, Clears
<1>9. CASE AuthorizePayment(q)
  BY <1>9 DEF AuthorizePayment, Pays
<1>10. CASE PersistPayment(q)
  BY <1>10 DEF PersistPayment, Settles
<1>11. CASE Commit(q)
  BY <1>11 DEF Commit, Commits
<1>12. CASE PushToCrm(q) \/ CrashAfterCommit(q)
  BY <1>12 DEF PushToCrm, CrashAfterCommit, Passes, Ended
<1>13. CASE Abort(q) \/ DeadlockVictim(q)
  BY <1>13 DEF Abort, DeadlockVictim, Rollback, Fails
<1>14. QED
  BY <1>1, <1>2, <1>3, <1>4, <1>5, <1>6, <1>7, <1>8, <1>9, <1>10, <1>11, <1>12,
     <1>13, OthersStill, CartStepsStill DEF Next, Statement

-----------------------------------------------------------------------------
(* Payments *)

LEMMA ColumnsOfDrafts ==
    ASSUME NEW o \in Order
    PROVE  /\ \A l \in Line : \A x : ColumnsAgree(Take(o, l), x) = ColumnsAgree(o, x)
           /\ \A x \in Outcome : ColumnsAgree(Settled(o, x), x)
<1>1. ASSUME NEW l \in Line, NEW x
      PROVE  ColumnsAgree(Take(o, l), x) = ColumnsAgree(o, x)
  <2>1. /\ Take(o, l).status = o.status
        /\ Take(o, l).paymentStatus = o.paymentStatus
        /\ Take(o, l).paymentRequired = o.paymentRequired
    BY DEF Take, Order
  <2>2. QED
    BY <2>1 DEF ColumnsAgree
<1>2. ASSUME NEW x \in Outcome
      PROVE  ColumnsAgree(Settled(o, x), x)
  BY DEF Settled, Order, Outcome, ColumnsAgree
<1>3. QED
  BY <1>1, <1>2

LEMMA NextPaymentSoFar ==
    ASSUME TypeOK, [Next]_vars, \A r \in Requests : Position(r) /\ PaymentSoFar(r),
           NEW q \in Requests
    PROVE  PaymentSoFar(q)'
<1> USE DEF PaymentSoFar, Books
<1>0. PaymentSoFar(q) /\ Position(q)
  OBVIOUS
<1>1. CASE Still(q)
  BY <1>0, <1>1 DEF Still, Same
<1>2. CASE Passes(q)
  BY <1>0, <1>2 DEF Passes, BeforeInsert, Ended, Position, WithDraft
<1>3. CASE Conflicts(q)
  BY <1>0, <1>3 DEF Conflicts, BeforeInsert
<1>4. CASE Inserts(q)
  <2>1. ColumnsAgree(NewOrder(q), "none")
    BY DEF NewOrder, ColumnsAgree
  <2>2. charged'[q] = "none"
    BY <1>0, <1>4 DEF Inserts, BeforeInsert
  <2>3. QED
    BY <1>4, <2>1, <2>2 DEF Inserts
<1>5. CASE Reserves(q)
  <2>1. draft[q] \in Order /\ draft[q] # None /\ items[q][line[q] + 1] \in Line
    BY <1>0, <1>5 DEF TypeOK, Position, Reserves, WithDraft
  <2>2. charged'[q] = "none" /\ ColumnsAgree(draft[q], "none")
    BY <1>0, <1>5, <2>1 DEF Reserves
  <2>3. ColumnsAgree(draft'[q], "none")
    BY <1>5, <2>1, <2>2, ColumnsOfDrafts DEF Reserves
  <2>4. QED
    BY <1>5, <2>2, <2>3 DEF Reserves
<1>6. CASE Clears(q)
  BY <1>0, <1>6 DEF Clears
<1>7. CASE Pays(q)
  <2>1. draft'[q] # None /\ ColumnsAgree(draft'[q], "none") /\ charged[q] = "none"
    BY <1>0, <1>7 DEF Pays, Position, WithDraft
  <2>2. QED
    BY <1>7, <2>1 DEF Pays, BeforeInsert, Outcome
<1>8. CASE Settles(q)
  <2>1. draft[q] \in Order /\ charged[q] \in Outcome
    BY <1>0, <1>8 DEF TypeOK, Position, Settles, WithDraft
  <2>2. ColumnsAgree(draft'[q], charged'[q])
    BY <1>8, <2>1, ColumnsOfDrafts DEF Settles
  <2>3. draft'[q] # None /\ pc'[q] = "commit"
    <3>1. Settled(draft[q], charged[q]) \in Order
      BY <2>1 DEF Settled, Order
    <3>2. Settled(draft[q], charged[q]) # None
      BY <3>1
    <3>3. QED
      BY <1>8, <3>2 DEF Settles
  <2>4. ColumnsAgree(draft'[q], IF pc'[q] = "settle" THEN "none" ELSE charged'[q])
    BY <2>2, <2>3
  <2>5. QED
    BY <2>3, <2>4 DEF BeforeInsert
<1>9. CASE Commits(q)
  BY <1>0, <1>9 DEF Commits, BeforeInsert
<1>10. CASE Fails(q)
  BY <1>0, <1>10 DEF Fails, BeforeInsert
<1>11. QED
  BY <1>1, <1>2, <1>3, <1>4, <1>5, <1>6, <1>7, <1>8, <1>9, <1>10, OwnSteps

\* A placed order keeps its columns, and the gateway is not asked again.
LEMMA NextPaymentColumns ==
    ASSUME TypeOK, [Next]_vars, \A r \in Requests : Position(r) /\ PaymentSoFar(r),
           PaymentColumnsAgree
    PROVE  PaymentColumnsAgree'
<1> SUFFICES ASSUME NEW q \in Placed' PROVE ColumnsAgree(order'[q], charged'[q])
  BY DEF PaymentColumnsAgree
<1>0. q \in Requests /\ Position(q) /\ PaymentSoFar(q) /\ order'[q] # None
  BY DEF Placed
<1>1. CASE order'[q] = order[q] /\ charged'[q] = charged[q]
  BY <1>0, <1>1 DEF PaymentColumnsAgree, Placed
<1>2. CASE Commits(q)
  <2>1. CASE draft[q] = None
    BY <1>1, <1>2, <2>1 DEF Commits
  <2>2. CASE draft[q] # None
    BY <1>0, <1>2, <2>2 DEF Commits, PaymentSoFar
  <2>3. QED
    BY <2>1, <2>2
<1>3. CASE Pays(q)
  BY <1>0, <1>3 DEF Pays, Position, Ended
<1>4. QED
  BY <1>0, <1>1, <1>2, <1>3, OwnSteps DEF Still, Same, Passes, Conflicts, Inserts,
     Reserves, Clears, Settles, Fails, Books

-----------------------------------------------------------------------------
(* Coupons *)

LEMMA NextCouponHeld ==
    ASSUME TypeOK, [Next]_vars, \A r \in Requests : Position(r) /\ CouponHeld(r),
           NEW q \in Requests
    PROVE  CouponHeld(q)'
<1> USE DEF CouponHeld
<1>0. CouponHeld(q) /\ Position(q) /\ UNCHANGED req
  BY ReqConstant
<1>1. CASE Still(q)
  BY <1>0, <1>1 DEF Still, Same
<1>2. CASE Passes(q)
  <2>1. draft[q] = None /\ draft'[q] = None /\ pc[q] # "insert"
    BY <1>0, <1>2 DEF Passes, Position, BeforeInsert, WithDraft
  <2>2. \A c \in Coupons : <<"coupon", c>> \notin locks[q]
    BY <1>0, <2>1
  <2>3. QED
    BY <1>0, <1>2, <2>1, <2>2 DEF Passes
<1>3. CASE Conflicts(q) \/ Commits(q) \/ Fails(q)
  BY <1>3 DEF Conflicts, Commits, Fails
<1>4. CASE Inserts(q)
  <2>1. \A c : <<"coupon", c>> \in locks'[q] <=> <<"coupon", c>> \in locks[q]
    BY <1>4 DEF Inserts
  <2>2. NewOrder(q) \in Order
    BY DEF NewOrder, Order, TypeOK
  <2>3. NewOrder(q) # None
    BY <2>2
  <2>4. NewOrder(q).discounted <=> <<"coupon", req[q].coupon>> \in locks[q]
    BY DEF NewOrder
  <2>5. draft'[q] = NewOrder(q)
    BY <1>4 DEF Inserts
  <2>6. QED
    BY <1>0, <2>1, <2>3, <2>4, <2>5
<1>5. CASE Reserves(q)
  <2>1. draft[q] \in Order /\ draft[q] # None /\ items[q][line[q] + 1] \in Line
    BY <1>0, <1>5 DEF TypeOK, Position, Reserves, WithDraft
  <2>2. draft'[q] # None /\ draft'[q].discounted = draft[q].discounted
    <3>1. draft'[q] = Take(draft[q], items[q][line[q] + 1])
      BY <1>5 DEF Reserves
    <3>2. draft'[q] \in Order
      BY <2>1, <3>1, TakeType
    <3>3. Take(draft[q], items[q][line[q] + 1]).discounted = draft[q].discounted
      BY <2>1 DEF Take, Order
    <3>4. QED
      BY <3>1, <3>2, <3>3
  <2>3. \A c : <<"coupon", c>> \in locks'[q] <=> <<"coupon", c>> \in locks[q]
    BY <1>5 DEF Reserves
  <2>4. QED
    BY <1>0, <2>1, <2>2, <2>3
<1>6. CASE Clears(q)
  <2>1. draft'[q] = draft[q] /\ draft[q] # None
    BY <1>0, <1>6 DEF Clears, Position, WithDraft
  <2>2. \A c : <<"coupon", c>> \in locks'[q] <=> <<"coupon", c>> \in locks[q]
    BY <1>6 DEF Clears
  <2>3. QED
    BY <1>0, <2>1, <2>2
<1>7. CASE Pays(q)
  BY <1>0, <1>7 DEF Pays
<1>8. CASE Settles(q)
  <2>1. draft[q] \in Order /\ draft[q] # None
    BY <1>0, <1>8 DEF TypeOK, Position, Settles, WithDraft
  <2>2. draft'[q] # None /\ draft'[q].discounted = draft[q].discounted
    <3>1. draft'[q] = Settled(draft[q], charged[q])
      BY <1>8 DEF Settles
    <3>2. Settled(draft[q], charged[q]) \in Order
      BY <2>1 DEF Settled, Order
    <3>3. Settled(draft[q], charged[q]).discounted = draft[q].discounted
      BY <2>1 DEF Settled, Order
    <3>4. QED
      BY <3>1, <3>2, <3>3
  <2>3. QED
    BY <1>0, <1>8, <2>1, <2>2 DEF Settles
<1>9. QED
  BY <1>1, <1>2, <1>3, <1>4, <1>5, <1>6, <1>7, <1>8, OwnSteps

\* A commit counts one use per coupon it holds, and it holds its order's own.
LEMMA NextCouponUses ==
    ASSUME TypeOK, [Next]_vars, \A r \in Requests : Position(r) /\ CouponHeld(r),
           CouponUsesAreOrders
    PROVE  CouponUsesAreOrders'
<1> DEFINE Users(c) == {r \in Placed : order[r].discounted /\ req[r].coupon = c}
<1>0. UNCHANGED req
  BY ReqConstant
<1>1. CASE UNCHANGED <<used, order>>
  <2>1. \A c : Users(c)' = Users(c)
    BY <1>0, <1>1 DEF Placed
  <2>2. QED
    BY <1>1, <2>1 DEF CouponUsesAreOrders
<1>2. ASSUME NEW r \in Requests, Commit(r), NEW c \in Coupons
      PROVE  used'[c] = Cardinality(Users(c)')
  <2>0. /\ pc[r] = "commit" /\ Position(r) /\ CouponHeld(r)
        /\ used'[c] = used[c] + (IF <<"coupon", c>> \in locks[r] THEN 1 ELSE 0)
        /\ draft[r] = None => UNCHANGED order
        /\ draft[r] # None => order' = [order EXCEPT ![r] = draft[r]]
    BY <1>2 DEF Commit
  <2>1. IsFiniteSet(Users(c)) /\ used[c] = Cardinality(Users(c)) /\ used[c] \in Nat
    <3>1. Users(c) \in SUBSET Requests
      BY DEF Placed
    <3>2. QED
      BY <3>1, FS_Subset DEF CouponUsesAreOrders, TypeOK
  <2>2. r \notin Placed
    BY <2>0 DEF Position, Placed, Ended
  <2>3. CASE <<"coupon", c>> \in locks[r]
    <3>1. draft[r] # None /\ c = req[r].coupon /\ draft[r].discounted
      BY <2>0, <2>3 DEF CouponHeld
    <3>2. Placed' = Placed \cup {r}
      BY <2>0, <3>1 DEF Placed, TypeOK
    <3>3. \A q \in Placed : order'[q] = order[q]
      BY <2>0, <2>2, <3>1 DEF Placed, TypeOK
    <3>4. order'[r] = draft[r]
      BY <2>0, <3>1 DEF TypeOK
    <3>5. Users(c)' = Users(c) \cup {r}
      BY <1>0, <3>1, <3>2, <3>3, <3>4
    <3>6. r \notin Users(c)
      BY <2>2
    <3>7. QED
      <4> HIDE DEF Users
      <4>1. Cardinality(Users(c) \cup {r}) = Cardinality(Users(c)) + 1
        BY <2>1, <3>6, FS_AddElement
      <4>2. QED
        BY <2>0, <2>1, <2>3, <3>5, <4>1
  <2>4. CASE <<"coupon", c>> \notin locks[r]
    <3>1. used'[c] = used[c]
      BY <2>0, <2>1, <2>4
    <3>2. Users(c)' = Users(c)
      <4>1. CASE draft[r] = None
        BY <1>0, <2>0, <4>1 DEF Placed
      <4>2. CASE draft[r] # None
        <5>1. ~(draft[r].discounted /\ req[r].coupon = c)
          BY <2>0, <2>4, <4>2 DEF CouponHeld
        <5>2. Placed' = Placed \cup {r} /\ order'[r] = draft[r]
          BY <2>0, <4>2 DEF Placed, TypeOK
        <5>3. \A q \in Placed : order'[q] = order[q]
          BY <2>0, <2>2, <4>2 DEF Placed, TypeOK
        <5>4. QED
          BY <1>0, <2>2, <5>1, <5>2, <5>3
      <4>3. QED
        BY <4>1, <4>2
    <3>3. QED
      BY <2>1, <3>1, <3>2
  <2>5. QED
    BY <2>3, <2>4
<1>3. ASSUME ~\E r \in Requests : Commit(r)
      PROVE  UNCHANGED <<used, order>>
  <2> USE DEF tables, outside, adding
  <2>1. ASSUME NEW r \in Requests, Statement(r)
        PROVE  UNCHANGED <<used, order>>
    BY <1>3, <2>1 DEF Statement, SelectCustomer, UpsertCustomer, LookupKey,
       SelectCoupon, RedeemCoupon, InsertOrder, LookupConflict, ReserveLine,
       ClearCart, AuthorizePayment, PersistPayment, PushToCrm
  <2>2. ASSUME NEW r \in Requests,
               FetchItems(r) \/ Abort(r) \/ CrashAfterCommit(r) \/ DeadlockVictim(r)
        PROVE  UNCHANGED <<used, order>>
    BY <2>2 DEF FetchItems, Abort, CrashAfterCommit, DeadlockVictim
  <2>3. ASSUME NEW a \in Adds, AddSelect(a) \/ AddWrite(a) \/ RemoveRow(a)
        PROVE  UNCHANGED <<used, order>>
    BY <2>3 DEF AddSelect, AddWrite, RemoveRow
  <2>4. QED
    BY <2>1, <2>2, <2>3 DEF Next, vars
<1>4. QED
  BY <1>1, <1>2, <1>3 DEF CouponUsesAreOrders

-----------------------------------------------------------------------------
(* Cart rows *)

\* Only commits and the cart endpoints touch the cart, and only commits the
\* stock, the coupon counts and the orders.
LEMMA TableSteps ==
    ASSUME [Next]_vars
    PROVE  \/ \E r \in Requests : Commit(r)
           \/ /\ UNCHANGED <<stock, used, customers, order>>
              /\ UNCHANGED <<cart, addpc>> \/ \E a \in Adds : AddSelect(a) \/ AddWrite(a) \/ RemoveRow(a)
<1> USE DEF tables, outside, adding
<1>1. ASSUME NEW r \in Requests, Statement(r), ~Commit(r)
      PROVE  UNCHANGED <<stock, used, customers, order, cart, addpc>>
  BY <1>1 DEF Statement, SelectCustomer, UpsertCustomer, LookupKey,
     SelectCoupon, RedeemCoupon, InsertOrder, LookupConflict, ReserveLine,
     ClearCart, AuthorizePayment, PersistPayment, PushToCrm
<1>2. ASSUME NEW r \in Requests,
             FetchItems(r) \/ Abort(r) \/ CrashAfterCommit(r) \/ DeadlockVictim(r)
      PROVE  UNCHANGED <<stock, used, customers, order, cart, addpc>>
  BY <1>2 DEF FetchItems, Abort, CrashAfterCommit, DeadlockVictim
<1>3. ASSUME NEW a \in Adds, AddSelect(a) \/ AddWrite(a) \/ RemoveRow(a)
      PROVE  UNCHANGED <<stock, used, customers, order>>
  BY <1>3 DEF AddSelect, AddWrite, RemoveRow
<1>4. QED
  BY <1>1, <1>2, <1>3 DEF Next, vars

\* An add that has not written yet has no row; an increment finds a row of an
\* add that has.
LEMMA NextAddPending ==
    ASSUME TypeOK, [Next]_vars, \A b \in Adds : AddPending(b), NEW a \in Adds
    PROVE  AddPending(a)'
<1>1. CASE UNCHANGED <<cart, addpc>>
  BY <1>1 DEF AddPending
<1>2. ASSUME NEW r \in Requests, Commit(r)
      PROVE  AddPending(a)'
  BY <1>2 DEF Commit, AddPending, adding
<1>3. ASSUME NEW b \in Adds, AddSelect(b)
      PROVE  AddPending(a)'
  BY <1>3 DEF AddSelect, AddPending, TypeOK, tables
<1>4. ASSUME NEW b \in Adds, AddWrite(b)
      PROVE  AddPending(a)'
  <2>1. addpc[b] = "write" /\ addpc' = [addpc EXCEPT ![b] = "done"]
    BY <1>4 DEF AddWrite
  <2>2. CASE a = b
    BY <2>1, <2>2 DEF AddPending, TypeOK
  <2>3. CASE a # b
    <3>1. cart'[a] = cart[a] \/ cart[a] # None
      BY <1>4, <2>3 DEF AddWrite, TypeOK
    <3>2. QED
      BY <2>1, <2>3, <3>1 DEF AddPending, TypeOK
  <2>4. QED
    BY <2>2, <2>3
<1>5. ASSUME NEW b \in Adds, RemoveRow(b)
      PROVE  AddPending(a)'
  BY <1>5 DEF RemoveRow, AddPending, TypeOK, adding
<1>6. QED
  BY <1>1, <1>2, <1>3, <1>4, <1>5, TableSteps

\* A locked row stays in its cart until its holder's transaction ends.
LEMMA LockedRowStays ==
    ASSUME TypeOK, TypeOK', LocksExclusive, [Next]_vars, \A b \in Adds : AddPending(b),
           NEW q \in Requests, NEW a \in Adds, <<"row", a>> \in locks[q],
           cart[a] # None, locks'[q] # {}
    PROVE  cart'[a] # None /\ cart'[a].session = cart[a].session
<1>1. CASE UNCHANGED <<cart, addpc>>
  BY <1>1
<1>2. ASSUME NEW r \in Requests, Commit(r)
      PROVE  cart'[a] = cart[a]
  <2>1. r # q
    BY <1>2 DEF Commit, TypeOK
  <2>2. <<"row", a>> \notin locks[r]
    BY <2>1 DEF LocksExclusive
  <2>3. QED
    BY <1>2, <2>2 DEF Commit
<1>3. ASSUME NEW b \in Adds, AddSelect(b)
      PROVE  cart'[a] = cart[a]
  BY <1>3 DEF AddSelect, tables
<1>4. ASSUME NEW b \in Adds, AddWrite(b)
      PROVE  cart'[a] = cart[a]
  <2>1. a # b
    BY <1>4 DEF AddWrite, AddPending
  <2>2. addrow[b] # None => addrow[b] # a
    BY <1>4 DEF AddWrite, RowFree
  <2>3. QED
    BY <1>4, <2>1, <2>2 DEF AddWrite, TypeOK
<1>5. ASSUME NEW b \in Adds, RemoveRow(b)
      PROVE  cart'[a] = cart[a]
  <2>1. a # b
    BY <1>5 DEF RemoveRow, RowFree
  <2>2. QED
    BY <1>5, <2>1 DEF RemoveRow, TypeOK
<1>6. QED
  BY <1>1, <1>2, <1>3, <1>4, <1>5, TableSteps

LEMMA NextRowsHeld ==
    ASSUME TypeOK, TypeOK', LocksExclusive, [Next]_vars,
           \A r \in Requests : Position(r) /\ RowsHeld(r),
           \A b \in Adds : AddPending(b),
           NEW q \in Requests
    PROVE  RowsHeld(q)'
<1> SUFFICES ASSUME NEW a \in Adds, <<"row", a>> \in locks'[q]
             PROVE  /\ draft'[q] # None /\ cart'[a] # None
                    /\ cart'[a].session = req'[q].session
  BY DEF RowsHeld
<1>0. RowsHeld(q) /\ Position(q) /\ UNCHANGED req
  BY ReqConstant
<1>1. CASE <<"row", a>> \in locks[q]
  <2>1. draft[q] # None /\ cart[a] # None /\ cart[a].session = req[q].session
    BY <1>0, <1>1 DEF RowsHeld
  <2>2. cart'[a] # None /\ cart'[a].session = cart[a].session
    BY <1>1, <2>1, LockedRowStays
  <2>3. draft'[q] # None
    <3>1. CASE Reserves(q)
      <4>1. draft[q] \in Order /\ items[q][line[q] + 1] \in Line
        BY <1>0, <2>1, <3>1 DEF TypeOK, Position, Reserves
      <4>2. draft'[q] \in Order
        BY <3>1, <4>1, TakeType DEF Reserves
      <4>3. QED
        BY <4>2
    <3>2. CASE Settles(q)
      <4>0. draft[q] \in Order
        BY <2>1 DEF TypeOK
      <4>1. Settled(draft[q], charged[q]) \in Order
        BY <4>0 DEF Settled, Order
      <4>2. Settled(draft[q], charged[q]) # None
        BY <4>1
      <4>3. QED
        BY <3>2, <4>2 DEF Settles
    <3>3. CASE Inserts(q)
      BY <1>0, <2>1, <3>3 DEF Inserts, Position, WithDraft
    <3>4. CASE Still(q) \/ Passes(q) \/ Clears(q) \/ Pays(q)
      BY <2>1, <3>4 DEF Still, Same, Passes, Clears, Pays
    <3>5. CASE Conflicts(q) \/ Commits(q) \/ Fails(q)
      BY <3>5 DEF Conflicts, Commits, Fails
    <3>6. QED
      BY <3>1, <3>2, <3>3, <3>4, <3>5, OwnSteps
  <2>4. QED
    BY <1>0, <2>1, <2>2, <2>3
<1>2. CASE <<"row", a>> \notin locks[q]
  <2>1. Clears(q) /\ a \in CartRows(req[q].session)
    BY <1>2, OwnSteps DEF Still, Passes, Conflicts, Inserts, Reserves, Clears, Pays,
       Settles, Commits, Fails
  <2>2. draft'[q] # None /\ cart[a] # None /\ cart[a].session = req[q].session
    BY <1>0, <2>1 DEF Clears, Position, WithDraft, CartRows
  <2>3. UNCHANGED cart
    <3>1. pc'[q] # pc[q] /\ pc[q] = "clear"
      BY <2>1 DEF Clears
    <3>2. ASSUME NEW r \in Requests, Commit(r)
          PROVE  FALSE
      BY <3>1, <3>2 DEF Commit, Goto, TypeOK
    <3>3. ASSUME NEW b \in Adds, AddSelect(b) \/ AddWrite(b) \/ RemoveRow(b)
          PROVE  FALSE
      BY <3>1, <3>3 DEF AddSelect, AddWrite, RemoveRow
    <3>4. QED
      BY <3>2, <3>3, TableSteps
  <2>4. QED
    BY <1>0, <2>2, <2>3
<1>3. QED
  BY <1>1, <1>2

-----------------------------------------------------------------------------
(* Stock *)

\* The stock of a locked product changes only in its holder's own commit.
LEMMA LockedStockStays ==
    ASSUME TypeOK, LocksExclusive, [Next]_vars,
           \A r \in Requests : DraftOwns(r),
           NEW q \in Requests, NEW p \in Products,
           <<"product", p>> \in locks[q], locks'[q] # {}
    PROVE  stock'[p] = stock[p]
<1>1. ASSUME NEW r \in Requests, Commit(r)
      PROVE  stock'[p] = stock[p]
  <2>1. r # q
    BY <1>1 DEF Commit, TypeOK
  <2>2. <<"product", p>> \notin locks[r]
    BY <2>1 DEF LocksExclusive
  <2>3. CASE draft[r] = None
    BY <1>1, <2>3 DEF Commit
  <2>4. CASE draft[r] # None
    <3>1. stock' = [x \in Products |-> stock[x] - draft[r].taken[x]]
      BY <1>1, <2>4 DEF Commit
    <3>2. draft[r].taken[p] \in Nat /\ stock[p] \in Nat
      <4>1. draft[r] \in Order
        BY <2>4 DEF TypeOK
      <4>2. QED
        BY <4>1 DEF Order, TypeOK
    <3>3. ~(draft[r].taken[p] > 0)
      BY <2>2, <2>4 DEF DraftOwns
    <3>4. QED
      BY <3>1, <3>2, <3>3
  <2>5. QED
    BY <2>3, <2>4
<1>2. QED
  BY <1>1, TableSteps

\* The stock UPDATE takes the whole line or, when there is too little, nothing.
LEMMA TakesAllOrNothing ==
    ASSUME NEW o \in Order, NEW l \in Line
    PROVE  /\ stock[l.product] - o.taken[l.product] >= l.quantity
                 => Take(o, l).taken[l.product] = o.taken[l.product] + l.quantity
           /\ ~(stock[l.product] - o.taken[l.product] >= l.quantity)
                 => Take(o, l).taken[l.product] = o.taken[l.product]
           /\ \A p \in Products \ {l.product} : Take(o, l).taken[p] = o.taken[p]
BY DEF Take, Order, Line

LEMMA NextLinesReserved ==
    ASSUME TypeOK, TypeOK', LocksExclusive, [Next]_vars,
           \A r \in Requests : Position(r) /\ DraftOwns(r) /\ LinesReserved(r),
           NEW q \in Requests
    PROVE  LinesReserved(q)'
<1> DEFINE Held(ordered, p) ==
             /\ draft[q].taken[p] <= ordered
             /\ ordered > 0 => <<"product", p>> \in locks[q]
             /\ ordered > draft[q].taken[p] => ordered > stock[p]
<1>0. /\ LinesReserved(q) /\ Position(q) /\ items[q] \in Seq(Line)
      /\ \A p \in Products : stock[p] \in Nat /\ stock'[p] \in Nat
      /\ draft[q] # None => draft[q] \in Order
  BY DEF TypeOK
<1>1. ASSUME draft[q] # None, draft'[q] # None, draft'[q].taken = draft[q].taken,
             items'[q] = items[q], line'[q] = line[q], line[q] \in 0..Len(items[q]),
             pc[q] # "reserve" \/ pc'[q] = "reserve"
      PROVE  LinesReserved(q)'
  <2>1. locks[q] \subseteq locks'[q]
    BY <1>1, LocksKept
  <2>2. ASSUME NEW p \in Products
        PROVE  Held(Ordered(items[q], line[q], p), p)'
    <3> DEFINE n == Ordered(items[q], line[q], p)
    <3>1. n \in Nat /\ draft[q].taken[p] \in Nat
      <4>1. n \in Nat
        BY <1>0, <1>1, OrderedSteps
      <4>2. QED
        BY <1>0, <1>1, <4>1 DEF Order
    <3>2. Held(n, p)
      BY <1>0, <1>1 DEF LinesReserved
    <3>3. n' = n
      BY <1>1
    <3> HIDE DEF n
    <3>4. n > 0 => stock'[p] = stock[p]
      BY <2>1, <3>2, LockedStockStays
    <3>5. Held(n, p)'
      BY <1>0, <1>1, <2>1, <3>1, <3>2, <3>3, <3>4
    <3>6. QED
      BY <3>5 DEF n
  <2>3. pc'[q] # "reserve" => line'[q] = Len(items'[q])
    BY <1>0, <1>1 DEF LinesReserved
  <2>4. QED
    BY <2>2, <2>3 DEF LinesReserved
<1>2. line[q] \in 0..Len(items[q]) \/ draft[q] = None
  BY <1>0 DEF LinesReserved, Position, TypeOK
<1>3. CASE Still(q)
  <2>1. CASE draft[q] = None
    BY <1>3, <2>1 DEF Still, Same, LinesReserved
  <2>2. CASE draft[q] # None
    BY <1>1, <1>2, <1>3, <2>2 DEF Still, Same
  <2>3. QED
    BY <2>1, <2>2
<1>4. CASE Passes(q)
  <2>1. draft'[q] = None
    BY <1>0, <1>4 DEF Passes, Position, BeforeInsert, WithDraft
  <2>2. QED
    BY <2>1 DEF LinesReserved
<1>5. CASE Conflicts(q) \/ Commits(q) \/ Fails(q)
  BY <1>5 DEF Conflicts, Commits, Fails, LinesReserved
<1>6. CASE Inserts(q)
  <2>1. /\ pc'[q] = "reserve" /\ line'[q] = 0 /\ items'[q] = items[q]
        /\ draft'[q] = NewOrder(q)
    BY <1>0, <1>6 DEF Inserts, Books, Position, BeforeInsert
  <2>2. \A p \in Products : draft'[q].taken[p] = 0
    BY <2>1 DEF NewOrder
  <2>3. \A p \in Products : Ordered(items[q], 0, p) = 0
    BY <1>0, OrderedSteps
  <2>4. \A p \in Products : Ordered(items'[q], line'[q], p) = 0
    BY <2>1, <2>3
  <2>5. QED
    BY <2>1, <2>2, <2>4 DEF LinesReserved
<1>7. CASE Reserves(q)
  <2> DEFINE l == items[q][line[q] + 1]
  <2>1. /\ pc[q] = "reserve" /\ draft[q] # None /\ draft[q] \in Order
        /\ line[q] \in Nat /\ line[q] < Len(items[q]) /\ l \in Line
        /\ items'[q] = items[q] /\ line'[q] = line[q] + 1
        /\ pc'[q] # "reserve" => line'[q] = Len(items'[q])
        /\ draft'[q] = Take(draft[q], l)
        /\ locks'[q] = locks[q] \cup {<<"product", l.product>>}
    BY <1>0, <1>7 DEF Reserves, Position, WithDraft, TypeOK
  <2>2. UNCHANGED stock
    <3>1. pc'[q] # "push"
      BY <1>7 DEF Reserves
    <3>2. line'[q] # line[q]
      BY <2>1
    <3>3. ASSUME NEW r \in Requests, Commit(r)
          PROVE  FALSE
      BY <3>2, <3>3 DEF Commit
    <3>4. QED
      BY <3>3, TableSteps
  <2>3. ASSUME NEW p \in Products
        PROVE  Held(Ordered(items[q], line[q], p), p)'
    <3> DEFINE n == Ordered(items[q], line[q], p)
               m == Ordered(items[q], line[q] + 1, p)
               t == draft[q].taken[p]
               u == Take(draft[q], l).taken[p]
    <3>1. /\ n \in Nat /\ m \in Nat
          /\ m = n + (IF l.product = p THEN l.quantity ELSE 0)
      <4>1. /\ line[q] \in 0..Len(items[q]) /\ line[q] + 1 \in 1..Len(items[q])
            /\ line[q] + 1 \in 0..Len(items[q]) /\ (line[q] + 1) - 1 = line[q]
        BY <1>0, <2>1
      <4>2. n \in Nat /\ m \in Nat
        BY <1>0, <4>1, OrderedSteps
      <4>3. m = Ordered(items[q], (line[q] + 1) - 1, p)
                   + (IF l.product = p THEN l.quantity ELSE 0)
        BY <1>0, <4>1, OrderedSteps
      <4>4. QED
        BY <4>1, <4>2, <4>3
    <3>2. /\ t <= n
          /\ n > 0 => <<"product", p>> \in locks[q]
          /\ n > t => n > stock[p]
      BY <1>0, <2>1 DEF LinesReserved
    <3>3. t \in Nat /\ stock[p] \in Nat /\ l.quantity \in Nat \ {0}
      BY <1>0, <2>1 DEF Order, Line
    <3>4. /\ u <= m
          /\ m > u => m > stock[p]
          /\ m > 0 => <<"product", p>> \in locks'[q]
      <4>1. CASE l.product # p
        <5>1. u = t /\ m = n
          BY <2>1, <3>1, <4>1, TakesAllOrNothing
        <5>2. QED
          BY <2>1, <3>2, <5>1
      <4>2. CASE l.product = p /\ stock[p] - t >= l.quantity
        <5>1. u = t + l.quantity /\ m = n + l.quantity
          BY <2>1, <3>1, <4>2, TakesAllOrNothing
        <5>2. <<"product", p>> \in locks'[q]
          BY <2>1, <4>2
        <5> HIDE DEF l, n, m, t, u
        <5>3. QED
          BY <3>1, <3>2, <3>3, <5>1, <5>2
      <4>3. CASE l.product = p /\ ~(stock[p] - t >= l.quantity)
        <5>1. u = t /\ m = n + l.quantity
          BY <2>1, <3>1, <4>3, TakesAllOrNothing
        <5>2. <<"product", p>> \in locks'[q]
          BY <2>1, <4>3
        <5> HIDE DEF l, n, m, t, u
        <5>3. QED
          BY <3>1, <3>2, <3>3, <4>3, <5>1, <5>2
      <4>4. QED
        BY <4>1, <4>2, <4>3
    <3>5. Ordered(items[q], line[q], p)' = m /\ draft'[q].taken[p] = u /\ stock'[p] = stock[p]
      BY <2>1, <2>2
    <3>6. QED
      <4> HIDE DEF m, u
      <4>1. QED
        BY <3>4, <3>5
  <2>4. QED
    BY <2>1, <2>3 DEF LinesReserved
<1>8. CASE Clears(q) \/ Pays(q)
  <2>1. /\ draft[q] # None /\ draft'[q] = draft[q] /\ pc[q] # "reserve"
        /\ items'[q] = items[q] /\ line'[q] = line[q]
    BY <1>0, <1>8 DEF Clears, Pays, Books, Position, WithDraft
  <2>2. QED
    BY <1>1, <1>2, <2>1
<1>9. CASE Settles(q)
  <2>1. /\ draft[q] # None /\ draft[q] \in Order /\ pc[q] # "reserve"
        /\ draft'[q] = Settled(draft[q], charged[q])
        /\ items'[q] = items[q] /\ line'[q] = line[q]
    BY <1>0, <1>9 DEF Settles, Books, Position, WithDraft
  <2>2. draft'[q] # None
    <3>1. Settled(draft[q], charged[q]) \in Order
      BY <2>1 DEF Settled, Order
    <3>2. Settled(draft[q], charged[q]) # None
      BY <3>1
    <3>3. QED
      BY <2>1, <3>2
  <2>3. draft'[q].taken = draft[q].taken
    BY <2>1 DEF Settled, Order
  <2>4. QED
    BY <1>1, <1>2, <2>1, <2>2, <2>3
<1>10. QED
  BY <1>3, <1>4, <1>5, <1>6, <1>7, <1>8, <1>9, OwnSteps

-----------------------------------------------------------------------------
(* The CRM *)

\* Orders are written once: a placed order never changes.
LEMMA OrdersFrozen ==
    ASSUME TypeOK, [Next]_vars, \A r \in Requests : Position(r),
           NEW q \in Placed
    PROVE  order'[q] = order[q]
<1>1. ASSUME NEW r \in Requests, Commit(r)
      PROVE  order'[q] = order[q]
  <2>1. r # q
    BY <1>1 DEF Commit, Position, Placed, Ended
  <2>2. QED
    BY <1>1, <2>1 DEF Commit, TypeOK, Placed
<1>2. QED
  BY <1>1, TableSteps

\* An answer that is no draft is an order that stays what it is.
LEMMA AnswerFrozen ==
    ASSUME TypeOK, [Next]_vars, \A r \in Requests : Position(r) /\ AnswerPlaced(r),
           NEW q \in Requests, ans[q] # None, draft[q] = None
    PROVE  order'[ans[q]] = order[ans[q]]
<1>1. ans[q] \in Placed
  BY DEF AnswerPlaced
<1>2. QED
  BY <1>1, OrdersFrozen

\* The snapshot follows the draft, then the order that the draft has become.
LEMMA NextSnapshot ==
    ASSUME TypeOK, TypeOK', [Next]_vars,
           \A r \in Requests : Position(r) /\ AnswerPlaced(r) /\ Snapshot(r),
           NEW q \in Requests
    PROVE  Snapshot(q)'
<1> USE DEF Snapshot
<1>0. Snapshot(q) /\ Position(q) /\ AnswerPlaced(q)
  OBVIOUS
<1>1. CASE Same(q)
  BY <1>0, <1>1, AnswerFrozen DEF Same
<1>2. CASE LookupKey(q) \/ LookupConflict(q)
  <2>1. draft'[q] = None /\ ans[q] = None /\ UNCHANGED order
    BY <1>0, <1>2 DEF LookupKey, LookupConflict, Position, BeforeInsert, WithDraft, tables
  <2>2. CASE Replay(q)
    <3>1. PICK s \in PlacedFor(req[q].key) :
            /\ ans' = [ans EXCEPT ![q] = s]
            /\ says' = [says EXCEPT ![q] = order[s].paymentStatus]
      BY <2>2 DEF Replay
    <3>2. QED
      BY <2>1, <3>1 DEF TypeOK
  <2>3. CASE ans' = ans
    BY <2>1, <2>3
  <2>4. QED
    BY <1>2, <2>2, <2>3 DEF LookupKey, LookupConflict
<1>3. CASE Rollback(q)
  BY <1>3 DEF Rollback, TypeOK
<1>4. CASE InsertOrder(q)
  <2>1. CASE ~Rollback(q)
    <3>1. /\ draft'[q] = NewOrder(q) /\ ans'[q] = q /\ says'[q] = "pending"
      BY <1>4, <2>1 DEF InsertOrder, TypeOK
    <3>2. NewOrder(q).paymentStatus = "pending"
      BY DEF NewOrder
    <3>3. NewOrder(q) \in Order
      BY DEF NewOrder, Order, TypeOK
    <3>4. QED
      BY <3>1, <3>2, <3>3
  <2>2. QED
    BY <1>3, <2>1
<1>5. CASE ReserveLine(q)
  <2>1. /\ draft[q] \in Order /\ draft[q] # None
        /\ draft'[q] = Take(draft[q], items[q][line[q] + 1])
        /\ UNCHANGED <<ans, says>>
    BY <1>0, <1>5 DEF ReserveLine, Position, WithDraft, TypeOK
  <2>2. draft'[q].paymentStatus = draft[q].paymentStatus
    BY <2>1 DEF Take, Order
  <2>3. draft'[q] # None
    BY <1>5, <2>1, TakeType DEF ReserveLine, Position, TypeOK
  <2>4. QED
    BY <1>0, <2>1, <2>2, <2>3
<1>6. CASE PersistPayment(q)
  <2>1. /\ draft[q] \in Order /\ draft[q] # None
        /\ draft'[q] = Settled(draft[q], charged[q])
        /\ says'[q] = draft'[q].paymentStatus
        /\ UNCHANGED ans
    BY <1>0, <1>6 DEF PersistPayment, Position, WithDraft, TypeOK
  <2>2. draft'[q] \in Order
    BY <2>1 DEF Settled, Order
  <2>3. QED
    BY <1>0, <2>1, <2>2
<1>7. CASE Commit(q)
  <2>1. draft'[q] = None /\ UNCHANGED <<ans, says>>
    BY <1>7 DEF Commit, TypeOK
  <2>2. CASE draft[q] = None
    BY <1>0, <2>1, <2>2, AnswerFrozen
  <2>3. CASE draft[q] # None
    BY <1>0, <1>7, <2>1, <2>3 DEF Commit, TypeOK
  <2>4. QED
    BY <2>2, <2>3
<1>8. CASE \/ FetchItems(q) \/ SelectCustomer(q) \/ UpsertCustomer(q) \/ SelectCoupon(q)
           \/ RedeemCoupon(q) \/ ClearCart(q) \/ AuthorizePayment(q)
           \/ PushToCrm(q) \/ CrashAfterCommit(q)
  <2>1. UNCHANGED <<draft, ans, says, order>>
    BY <1>8 DEF FetchItems, SelectCustomer, UpsertCustomer, SelectCoupon, RedeemCoupon,
       ClearCart, AuthorizePayment, PushToCrm, CrashAfterCommit, tables
  <2>2. QED
    BY <1>0, <2>1
<1>9. CASE Abort(q) \/ DeadlockVictim(q)
  BY <1>3, <1>9 DEF Abort, DeadlockVictim
<1>10. ASSUME NEW r \in Requests, r # q,
              \/ FetchItems(r) \/ Statement(r) \/ Abort(r)
              \/ CrashAfterCommit(r) \/ DeadlockVictim(r)
       PROVE  Same(q)
  BY <1>10, OthersSame
<1>11. CASE UNCHANGED vars \/ \E a \in Adds : AddSelect(a) \/ AddWrite(a) \/ RemoveRow(a)
  BY <1>1, <1>11, CartStepsStill DEF Still
<1>12. QED
  BY <1>1, <1>2, <1>4, <1>5, <1>6, <1>7, <1>8, <1>9, <1>10, <1>11 DEF Next, Statement

\* What the CRM hears is the payment status of a placed order, and stays it.
LEMMA NextCrmHears ==
    ASSUME TypeOK, [Next]_vars, CrmHearsTheTruth,
           \A r \in Requests : Position(r) /\ AnswerPlaced(r) /\ Snapshot(r)
    PROVE  CrmHearsTheTruth'
<1> SUFFICES ASSUME NEW q \in Requests, pushed'[q] # "none"
             PROVE  q \in Placed' /\ pushed'[q] = order'[q].paymentStatus
  BY DEF CrmHearsTheTruth
<1>1. CASE pushed'[q] = pushed[q]
  <2>1. q \in Placed /\ pushed[q] = order[q].paymentStatus
    BY <1>1 DEF CrmHearsTheTruth
  <2>2. QED
    BY <1>1, <2>1, OrdersStay, OrdersFrozen
<1>2. ASSUME NEW r \in Requests, PushToCrm(r), pushed'[q] # pushed[q]
      PROVE  q \in Placed' /\ pushed'[q] = order'[q].paymentStatus
  <2>1. pc[r] = "push" /\ pushed' = [pushed EXCEPT ![ans[r]] = says[r]]
        /\ UNCHANGED order
    BY <1>2 DEF PushToCrm, tables
  <2>2. ans[r] # None /\ draft[r] = None
    BY <2>1 DEF Position, WithDraft
  <2>3. ans[r] \in Placed
    BY <2>2 DEF AnswerPlaced
  <2>4. q = ans[r] /\ pushed'[q] = order[q].paymentStatus
    BY <1>2, <2>1, <2>2 DEF TypeOK, Snapshot
  <2>5. QED
    BY <2>1, <2>3, <2>4 DEF Placed
<1>3. ASSUME NEW r \in Requests, Statement(r), ~PushToCrm(r)
      PROVE  pushed' = pushed
  BY <1>3 DEF Statement, SelectCustomer, UpsertCustomer, LookupKey, SelectCoupon,
     RedeemCoupon, InsertOrder, LookupConflict, ReserveLine, ClearCart,
     AuthorizePayment, PersistPayment, Commit, outside
<1>4. ASSUME NEW r \in Requests,
             FetchItems(r) \/ Abort(r) \/ CrashAfterCommit(r) \/ DeadlockVictim(r)
      PROVE  pushed' = pushed
  BY <1>4 DEF FetchItems, Abort, CrashAfterCommit, DeadlockVictim, outside
<1>5. ASSUME NEW a \in Adds, AddSelect(a) \/ AddWrite(a) \/ RemoveRow(a)
      PROVE  pushed' = pushed
  BY <1>5 DEF AddSelect, AddWrite, RemoveRow, outside
<1>6. QED
  BY <1>1, <1>2, <1>3, <1>4, <1>5 DEF Next, vars, outside

-----------------------------------------------------------------------------
(* The theorems *)

LEMMA InitIInv == Init => IInv
<1> SUFFICES ASSUME Init PROVE IInv
  OBVIOUS
<1>1. CoreInv
  BY InitCoreInv
<1>2. \A r \in Requests : /\ PaymentSoFar(r) /\ Snapshot(r) /\ CouponHeld(r)
                         /\ RowsHeld(r) /\ LinesReserved(r)
  BY DEF Init, PaymentSoFar, Snapshot, CouponHeld, RowsHeld, LinesReserved
<1>3. \A a \in Adds : AddPending(a)
  BY DEF Init, AddPending
<1>4. Placed = {}
  BY DEF Init, Placed
<1>5. CouponUsesAreOrders
  <2>1. \A c : {r \in Placed : order[r].discounted /\ req[r].coupon = c} = {}
    BY <1>4
  <2>2. QED
    BY <2>1, FS_EmptySet DEF Init, CouponUsesAreOrders
<1>6. PaymentColumnsAgree /\ CrmHearsTheTruth
  BY <1>4 DEF Init, PaymentColumnsAgree, CrmHearsTheTruth
<1>7. QED
  BY <1>1, <1>2, <1>3, <1>5, <1>6 DEF IInv, Bookkeeping

LEMMA NextIInv == IInv /\ [Next]_vars => IInv'
<1> SUFFICES ASSUME IInv, [Next]_vars PROVE IInv'
  OBVIOUS
<1>1. CoreInv /\ CoreInv'
  BY NextCoreInv DEF IInv
<1>2. /\ TypeOK /\ TypeOK' /\ LocksExclusive
      /\ \A r \in Requests : Position(r) /\ DraftOwns(r) /\ AnswerPlaced(r)
  BY <1>1 DEF CoreInv
<1>3. /\ \A r \in Requests : /\ PaymentSoFar(r) /\ Snapshot(r) /\ CouponHeld(r)
                             /\ RowsHeld(r) /\ LinesReserved(r)
      /\ \A a \in Adds : AddPending(a)
      /\ CouponUsesAreOrders /\ PaymentColumnsAgree /\ CrmHearsTheTruth
  BY DEF IInv, Bookkeeping
<1>4. \A r \in Requests : PaymentSoFar(r)'
  BY <1>2, <1>3, NextPaymentSoFar
<1>5. \A r \in Requests : CouponHeld(r)'
  BY <1>2, <1>3, NextCouponHeld
<1>6. \A r \in Requests : RowsHeld(r)'
  BY <1>2, <1>3, NextRowsHeld
<1>7. \A r \in Requests : LinesReserved(r)'
  BY <1>2, <1>3, NextLinesReserved
<1>8. \A a \in Adds : AddPending(a)'
  BY <1>2, <1>3, NextAddPending
<1>9. CouponUsesAreOrders' /\ PaymentColumnsAgree' /\ CrmHearsTheTruth'
  BY <1>2, <1>3, NextCouponUses, NextPaymentColumns, NextCrmHears
<1>10. \A r \in Requests : Snapshot(r)'
  BY <1>2, <1>3, NextSnapshot
<1>11. QED
  BY <1>1, <1>4, <1>5, <1>6, <1>7, <1>8, <1>9, <1>10 DEF IInv, Bookkeeping

\* Whatever the numbers of requests, keys, coupons, products and carts, every
\* reachable state satisfies the core invariant and the bookkeeping on top of
\* it: what the run "checkout" checks on its instance.
THEOREM BooksAreKept == Spec => []IInv
<1>1. QED
  BY InitIInv, NextIInv, PTL DEF Spec

\* A coupon has been used exactly once for each order that got its discount,
\* whatever was rolled back, lost a race or replayed an earlier order.
THEOREM CouponsAreCounted == Spec => []CouponUsesAreOrders
<1>1. IInv => CouponUsesAreOrders
  BY DEF IInv, Bookkeeping
<1>2. QED
  BY <1>1, BooksAreKept, PTL

\* The three payment columns of every placed order say what the gateway
\* answered for that very order.
THEOREM ColumnsTellOneStory == Spec => []PaymentColumnsAgree
<1>1. IInv => PaymentColumnsAgree
  BY DEF IInv, Bookkeeping
<1>2. QED
  BY <1>1, BooksAreKept, PTL

\* The CRM hears only of placed orders, and the snapshot of the payment status that
\* a request sends it after its commit is the one that was committed.
THEOREM CrmIsToldTheTruth == Spec => []CrmHearsTheTruth
<1>1. IInv => CrmHearsTheTruth
  BY DEF IInv, Bookkeeping
<1>2. QED
  BY <1>1, BooksAreKept, PTL

\* Under one idempotency key the gateway authorizes a second time only after
\* the first authorization's transaction was rolled back.
THEOREM KeyIsChargedOnce == Spec => []SecondChargeNeedsRollback
<1>1. IInv => SecondChargeNeedsRollback
  <2> SUFFICES ASSUME IInv, NEW r \in Requests, NEW s \in Requests,
                      r # s, req[r].key # None, req[r].key = req[s].key,
                      charged[r] = "authorized", charged[s] = "authorized",
                      \A x \in {r, s} : pc[x] = "failed" => order[x] # None
               PROVE  FALSE
    BY DEF SecondChargeNeedsRollback
  <2>1. /\ LocksExclusive /\ OneOrderPerKey /\ DraftOwns(r) /\ DraftOwns(s)
        /\ PaymentSoFar(r) /\ PaymentSoFar(s)
    BY DEF IInv, CoreInv, Bookkeeping
  <2>2. /\ draft[r] # None \/ r \in Placed
        /\ draft[s] # None \/ s \in Placed
    BY <2>1 DEF PaymentSoFar, Placed
  <2>3. CASE draft[r] # None /\ draft[s] # None
    BY <2>1, <2>3 DEF DraftOwns, LocksExclusive
  <2>4. CASE draft[r] # None /\ s \in Placed
    BY <2>1, <2>4 DEF DraftOwns, PlacedFor
  <2>5. CASE r \in Placed /\ draft[s] # None
    BY <2>1, <2>5 DEF DraftOwns, PlacedFor
  <2>6. CASE r \in Placed /\ s \in Placed
    BY <2>1, <2>6 DEF OneOrderPerKey
  <2>7. QED
    BY <2>2, <2>3, <2>4, <2>5, <2>6
<1>2. QED
  BY <1>1, BooksAreKept, PTL

\* A cart row goes by a removal of that row, or with an order of its session.
THEOREM CartsEmptyWithOrders == Spec => CartRowsLeaveWithAnOrder
<1>1. IInv /\ [Next]_vars =>
        \A a \in Adds : cart[a] # None /\ cart'[a] = None =>
          \/ \A b \in Adds \ {a} : cart'[b] = cart[b]
             /\ UNCHANGED <<stock, used, customers, order, pc>>
          \/ \E r \in Requests : /\ order[r] = None /\ order'[r] # None
                                 /\ req[r].session = cart[a].session
  <2> SUFFICES ASSUME IInv, [Next]_vars, NEW a \in Adds, cart[a] # None, cart'[a] = None
               PROVE  \/ \A b \in Adds \ {a} : cart'[b] = cart[b]
                         /\ UNCHANGED <<stock, used, customers, order, pc>>
                      \/ \E r \in Requests : /\ order[r] = None /\ order'[r] # None
                                             /\ req[r].session = cart[a].session
    OBVIOUS
  <2>0. TypeOK /\ \A r \in Requests : Position(r) /\ RowsHeld(r)
    BY DEF IInv, CoreInv, Bookkeeping
  <2>1. ASSUME NEW r \in Requests, Commit(r)
        PROVE  /\ order[r] = None /\ order'[r] # None
               /\ req[r].session = cart[a].session
    <3>1. <<"row", a>> \in locks[r]
      BY <2>1 DEF Commit
    <3>2. draft[r] # None /\ cart[a].session = req[r].session
      BY <2>0, <3>1 DEF RowsHeld
    <3>3. order[r] = None /\ order' = [order EXCEPT ![r] = draft[r]]
      BY <2>0, <2>1, <3>2 DEF Commit, Position, Ended
    <3>4. QED
      BY <2>0, <3>2, <3>3 DEF TypeOK
  <2>2. ASSUME NEW b \in Adds, AddSelect(b)
        PROVE  FALSE
    BY <2>2 DEF AddSelect, tables
  <2>3. ASSUME NEW b \in Adds, AddWrite(b)
        PROVE  FALSE
    <3>1. \A c \in Adds : cart[c] # None => cart[c] \in Row
      BY <2>0 DEF TypeOK
    <3>2. addreq[b] \in Row /\ addreq[b].quantity \in Nat
      BY <2>0 DEF TypeOK, Row
    <3>3. \A w \in Row : [w EXCEPT !.quantity = @ + addreq[b].quantity] \in Row
      BY <3>2 DEF Row
    <3>4. QED
      BY <2>0, <2>3, <3>1, <3>2, <3>3 DEF AddWrite, TypeOK
  <2>4. ASSUME NEW b \in Adds, RemoveRow(b)
        PROVE  /\ UNCHANGED <<stock, used, customers, order, pc>>
               /\ \A c \in Adds \ {a} : cart'[c] = cart[c]
    BY <2>0, <2>4 DEF RemoveRow, TypeOK
  <2>5. QED
    BY <2>1, <2>2, <2>3, <2>4, TableSteps
<1>2. QED
  BY <1>1, BooksAreKept, PTL DEF Spec, CartRowsLeaveWithAnOrder

\* An order that goes short goes short of something that was gone: whatever
\* orders, rollbacks and commits interleave, the units it misses are more than
\* its own commit leaves in stock.
THEOREM ShortOrdersFoundTooLittle == Spec => ShortOnlyWhenGone
<1>1. IInv /\ [Next]_vars =>
        \A r \in Requests : order[r] = None /\ order'[r] # None =>
          \A p \in Products :
             LET missing == Ordered(items[r], Len(items[r]), p) - order'[r].taken[p]
             IN  missing > 0 => missing > stock'[p]
  <2> SUFFICES ASSUME IInv, [Next]_vars, NEW r \in Requests, NEW p \in Products,
                      order[r] = None, order'[r] # None
               PROVE  LET missing == Ordered(items[r], Len(items[r]), p)
                                     - order'[r].taken[p]
                      IN  missing > 0 => missing > stock'[p]
    OBVIOUS
  <2>0. TypeOK /\ LinesReserved(r)
    BY DEF IInv, CoreInv, Bookkeeping
  <2>1. PICK q \in Requests : Commit(q)
    BY TableSteps
  <2>2. q = r /\ draft[r] # None
    BY <2>0, <2>1 DEF Commit, TypeOK
  <2>3. /\ pc[r] = "commit" /\ order'[r] = draft[r]
        /\ stock' = [x \in Products |-> stock[x] - draft[r].taken[x]]
    BY <2>0, <2>1, <2>2 DEF Commit, TypeOK
  <2> DEFINE n == Ordered(items[r], Len(items[r]), p)
             t == draft[r].taken[p]
  <2>4. t <= n /\ (n > t => n > stock[p])
    BY <2>0, <2>2, <2>3 DEF LinesReserved
  <2>5. n \in Nat /\ t \in Nat /\ stock[p] \in Nat
    <3>1. items[r] \in Seq(Line) /\ draft[r] \in Order /\ Len(items[r]) \in 0..Len(items[r])
      BY <2>0, <2>2 DEF TypeOK
    <3>2. QED
      BY <2>0, <3>1, OrderedSteps DEF TypeOK, Order
  <2>6. order'[r].taken[p] = t /\ stock'[p] = stock[p] - t
    BY <2>3
  <2> HIDE DEF n, t
  <2>7. n - t > 0 => n - t > stock'[p]
    BY <2>4, <2>5, <2>6
  <2>8. QED
    BY <2>6, <2>7 DEF n
<1>2. QED
  BY <1>1, BooksAreKept, PTL DEF Spec, ShortOnlyWhenGone

-----------------------------------------------------------------------------
(* Waits for locks *)

\* Locks are held inside transactions only, and not before the first write or
\* between the rollback and the second lookup.
HoldersAreInside ==
    \A r \in Requests :
        locks[r] # {} => pc[r] \in InTransaction \ {"customer", "upsert", "conflict"}

\* Some transaction has all the locks its next statement needs, or the database
\* sees a circle that one is on.
NobodyIsStuck ==
    (\E r \in Requests : pc[r] \in InTransaction) =>
        \E r \in Requests : /\ pc[r] \in InTransaction
                            /\ (\A s \in Requests : ~WaitsFor(r, s)) \/ Deadlocked(r)

LEMMA HoldersStayInside ==
    ASSUME TypeOK, HoldersAreInside, [Next]_vars
    PROVE  HoldersAreInside'
<1> DEFINE Inside(q) ==
      locks[q] # {} => pc[q] \in InTransaction \ {"customer", "upsert", "conflict"}
<1>1. ASSUME NEW r \in Requests, NEW q \in Requests, q # r,
             \/ FetchItems(r) \/ Statement(r) \/ Abort(r)
             \/ CrashAfterCommit(r) \/ DeadlockVictim(r)
      PROVE  Inside(q)'
  BY <1>1, OthersStill DEF HoldersAreInside, Still, Same
<1>2. ASSUME NEW r \in Requests,
             \/ FetchItems(r) \/ Abort(r) \/ CrashAfterCommit(r) \/ DeadlockVictim(r)
      PROVE  Inside(r)'
  BY <1>2 DEF HoldersAreInside, FetchItems, Abort, CrashAfterCommit, DeadlockVictim,
     Rollback, Goto, TypeOK, InTransaction
<1>3. ASSUME NEW r \in Requests,
             \/ SelectCustomer(r) \/ UpsertCustomer(r) \/ LookupKey(r) \/ SelectCoupon(r)
             \/ RedeemCoupon(r) \/ LookupConflict(r) \/ ClearCart(r)
      PROVE  Inside(r)'
  BY <1>3 DEF HoldersAreInside, SelectCustomer, UpsertCustomer, LookupKey, SelectCoupon,
     RedeemCoupon, LookupConflict, Replay, ClearCart, Goto, TypeOK, InTransaction
<1>4. ASSUME NEW r \in Requests,
             \/ InsertOrder(r) \/ ReserveLine(r) \/ AuthorizePayment(r)
             \/ PersistPayment(r) \/ Commit(r) \/ PushToCrm(r)
      PROVE  Inside(r)'
  <2>1. pc \in [Requests -> Locations] /\ locks \in [Requests -> SUBSET Resource]
    BY DEF TypeOK
  <2>2. CASE InsertOrder(r)
    <3>1. \/ locks'[r] = {}
          \/ pc'[r] = "reserve"
      BY <2>1, <2>2 DEF InsertOrder, Rollback, Goto
    <3>2. QED
      BY <3>1 DEF InTransaction
  <2>3. CASE ReserveLine(r) \/ AuthorizePayment(r) \/ PersistPayment(r)
    <3>1. pc'[r] \in {"clear", "reserve", "settle", "commit"}
      BY <2>1, <2>3 DEF ReserveLine, AuthorizePayment, PersistPayment, Goto
    <3>2. QED
      BY <3>1 DEF InTransaction
  <2>4. CASE Commit(r)
    <3>1. locks'[r] = {}
      BY <2>1, <2>4 DEF Commit
    <3>2. QED
      BY <3>1
  <2>5. CASE PushToCrm(r)
    <3>1. locks'[r] = locks[r] /\ pc[r] = "push"
      BY <2>1, <2>5 DEF PushToCrm
    <3>2. QED
      BY <3>1 DEF HoldersAreInside, InTransaction
  <2>6. QED
    BY <1>4, <2>2, <2>3, <2>4, <2>5
<1>5. ASSUME UNCHANGED vars \/ \E a \in Adds : AddSelect(a) \/ AddWrite(a) \/ RemoveRow(a),
             NEW q \in Requests
      PROVE  Inside(q)'
  BY <1>5, CartStepsStill DEF HoldersAreInside, Still, Same
<1>6. \A q \in Requests : Inside(q)'
  BY <1>1, <1>2, <1>3, <1>4, <1>5 DEF Next, Statement
<1>7. QED
  BY <1>6 DEF HoldersAreInside

\* Who waits, waits inside a transaction, for one that holds a lock there.
LEMMA WaitersAreInside ==
    ASSUME HoldersAreInside, NEW r \in Requests, NEW s \in Requests, WaitsFor(r, s)
    PROVE  pc[r] \in InTransaction /\ pc[s] \in InTransaction /\ r # s
<1>1. Needs(r) # {} /\ locks[s] # {} /\ r # s
  BY DEF WaitsFor
<1>2. pc[r] \in InTransaction
  BY <1>1 DEF Needs, InTransaction
<1>3. QED
  BY <1>1, <1>2 DEF HoldersAreInside

LEMMA SomebodyMoves == HoldersAreInside => NobodyIsStuck
<1> SUFFICES ASSUME HoldersAreInside, NEW b \in Requests, pc[b] \in InTransaction,
                    \A r \in Requests : pc[r] \in InTransaction =>
                        \E s \in Requests : WaitsFor(r, s)
             PROVE  \E r \in Requests : pc[r] \in InTransaction /\ Deadlocked(r)
  BY DEF NobodyIsStuck
<1> DEFINE S == {r \in Requests : pc[r] \in InTransaction}
           R == {e \in Requests \X Requests : WaitsFor(e[1], e[2])}
<1>1. IsFiniteSet(S) /\ S # {}
  BY FS_Subset
<1>2. ASSUME NEW x \in S
      PROVE  \E y \in S : y # x /\ <<x, y>> \in R
  <2>1. PICK y \in Requests : WaitsFor(x, y)
    OBVIOUS
  <2>2. pc[y] \in InTransaction /\ x # y
    BY <2>1, WaitersAreInside
  <2>3. y \in S /\ <<x, y>> \in R
    BY <2>1, <2>2
  <2>4. QED
    BY <2>2, <2>3
<1>3. PICK C \in SUBSET S : /\ C # {}
                            /\ \A x \in C : \E y \in C : <<x, y>> \in R
                            /\ \A y \in C : \E x \in C : <<x, y>> \in R
  <2> HIDE DEF S, R
  <2>1. QED
    BY <1>1, <1>2, WaitersCircle
<1>4. ASSUME NEW x \in C, NEW y \in C, <<x, y>> \in R
      PROVE  WaitsFor(x, y)
  <2>1. PICK e \in Requests \X Requests : e = <<x, y>> /\ WaitsFor(e[1], e[2])
    BY <1>4
  <2>2. QED
    BY <2>1
<1>5. PICK r \in C : r \in Requests /\ pc[r] \in InTransaction
  BY <1>3
<1>6. C \in SUBSET Requests
  OBVIOUS
<1>7. Deadlocked(r)
  <2> HIDE DEF S, R
  <2>1. /\ \A x \in C : \E y \in C : WaitsFor(x, y)
        /\ \A y \in C : \E x \in C : WaitsFor(x, y)
    BY <1>3, <1>4
  <2>2. QED
    BY <1>6, <2>1 DEF Deadlocked
<1>8. QED
  BY <1>5, <1>7

\* Waits come to an end: in every reachable state in which any placement is in its
\* transaction, one of them waits for nobody, or is on a circle, where the database
\* makes it the victim.  Handlers that left their locks behind, or waits for a
\* transaction that is over, would break this (get_db, place_order).
THEOREM SomebodyAlwaysMoves == Spec => []NobodyIsStuck
<1>1. Init => TypeOK /\ HoldersAreInside
  <2>1. Init => HoldersAreInside
    BY DEF Init, HoldersAreInside
  <2>2. QED
    BY <2>1, InitType
<1>2. TypeOK /\ HoldersAreInside /\ [Next]_vars => HoldersAreInside'
  BY HoldersStayInside
<1>3. HoldersAreInside => NobodyIsStuck
  BY SomebodyMoves
<1>4. QED
  BY <1>1, <1>2, <1>3, TypeCorrect, PTL DEF Spec
=============================================================================
