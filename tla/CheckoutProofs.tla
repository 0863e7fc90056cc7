----------------------------- MODULE CheckoutProofs -----------------------------
(***************************************************************************)
(* CoreInv is an inductive invariant of Checkout.                          *)
(***************************************************************************)
EXTENDS CheckoutProps, FiniteSetTheorems, TLAPS

USE CheckoutAssumption

-----------------------------------------------------------------------------
(* Lemmas about the operators of the model *)

LEMMA TupleIsSeq ==
    ASSUME NEW S, NEW n \in Nat
    PROVE  [1..n -> S] \subseteq Seq(S)
OBVIOUS

\* A cart, read in any order, is a sequence of order lines.
LEMMA CartLinesType ==
    ASSUME NEW rows \in SUBSET Adds,
           cart \in [Adds -> Row \cup {None}],
           \A a \in rows : cart[a] # None
    PROVE  /\ CartLines(rows) \subseteq Seq(Line)
           /\ rows # {} => \A l \in CartLines(rows) : l # <<>>
<1>1. IsFiniteSet(rows) /\ Cardinality(rows) \in Nat
  BY FS_Subset, FS_CardinalityType
<1>2. ASSUME NEW s \in Bijection(1..Cardinality(rows), rows)
      PROVE  [i \in 1..Cardinality(rows) |->
                 [product |-> cart[s[i]].product, quantity |-> cart[s[i]].quantity]]
             \in [1..Cardinality(rows) -> Line]
  BY DEF Bijection, Injection, Row, Line
<1>3. CartLines(rows) \subseteq [1..Cardinality(rows) -> Line]
  BY <1>2 DEF CartLines
<1>4. [1..Cardinality(rows) -> Line] \subseteq Seq(Line)
  BY <1>1, TupleIsSeq
<1>5. ASSUME rows # {}, NEW l \in CartLines(rows)
      PROVE  l # <<>>
  <2>1. Cardinality(rows) # 0
    BY <1>1, <1>5, FS_EmptySet
  <2>2. 1 \in DOMAIN l
    BY <1>1, <1>3, <1>5, <2>1
  <2>3. QED
    BY <2>2
<1>6. QED
  BY <1>3, <1>4, <1>5

\* The locks of one transaction grow by what its statement needs, which
\* nobody else holds.
LEMMA AcquireExclusive ==
    ASSUME LocksExclusive, locks \in [Requests -> SUBSET Resource],
           NEW r \in Requests, Acquire(r)
    PROVE  LocksExclusive'
BY DEF LocksExclusive, Acquire, WaitsFor

\* What a statement needs is a resource.
LEMMA NeedsAreResources ==
    ASSUME TypeOK, NEW r \in Requests, Position(r)
    PROVE  Needs(r) \subseteq Resource
<1>1. CASE pc[r] = "upsert"
  BY <1>1 DEF Needs, Resource, TypeOK, Param
<1>2. CASE pc[r] = "redeem"
  BY <1>2 DEF Needs, Resource, TypeOK, Param, Position
<1>3. CASE pc[r] = "insert"
  BY <1>3 DEF Needs, Resource, TypeOK, Param
<1>4. CASE pc[r] = "reserve"
  <2>1. items[r][line[r] + 1] \in Line
    BY <1>4 DEF TypeOK, Position
  <2>2. QED
    BY <1>4, <2>1 DEF Needs, Resource, Line
<1>5. CASE pc[r] = "clear"
  BY <1>5 DEF Needs, Resource, CartRows
<1>6. CASE pc[r] \notin {"upsert", "redeem", "insert", "reserve", "clear"}
  BY <1>6 DEF Needs
<1>7. QED
  BY <1>1, <1>2, <1>3, <1>4, <1>5, <1>6

LEMMA AcquireType ==
    ASSUME TypeOK, NEW r \in Requests, Position(r), Acquire(r)
    PROVE  locks' \in [Requests -> SUBSET Resource]
BY NeedsAreResources DEF TypeOK, Acquire

LEMMA RollbackType ==
    ASSUME TypeOK, NEW r \in Requests, Rollback(r)
    PROVE  /\ locks' \in [Requests -> SUBSET Resource]
           /\ draft' \in [Requests -> Order \cup {None}]
           /\ ans' \in [Requests -> Requests \cup {None}]
           /\ says' \in [Requests -> Heard]
BY DEF Rollback, TypeOK, Heard

LEMMA ReplayType ==
    ASSUME TypeOK, NEW r \in Requests, Replay(r)
    PROVE  /\ ans' \in [Requests -> Requests \cup {None}]
           /\ says' \in [Requests -> Heard]
<1>1. PICK q \in PlacedFor(req[r].key) :
        /\ ans' = [ans EXCEPT ![r] = q]
        /\ says' = [says EXCEPT ![r] = order[q].paymentStatus]
  BY DEF Replay
<1>2. q \in Requests /\ order[q] \in Order
  BY DEF PlacedFor, Placed, TypeOK
<1>3. order[q].paymentStatus \in Heard
  BY <1>2 DEF Order, Heard
<1>4. QED
  BY <1>1, <1>2, <1>3 DEF TypeOK

\* The stock UPDATE takes from one product only, and never more than there is.
LEMMA TakeType ==
    ASSUME NEW o \in Order, NEW l \in Line
    PROVE  Take(o, l) \in Order
<1> DEFINE t == [p \in Products |->
                   IF p = l.product /\ stock[p] - o.taken[p] >= l.quantity
                   THEN o.taken[p] + l.quantity ELSE o.taken[p]]
<1>1. t \in [Products -> Nat]
  BY DEF Order, Line
<1>2. \A u \in [Products -> Nat] : [o EXCEPT !.taken = u] \in Order
  BY DEF Order
<1>3. QED
  BY <1>1, <1>2 DEF Take

LEMMA TakeBounded ==
    ASSUME stock \in [Products -> Nat], NEW o \in Order, NEW l \in Line,
           NEW p \in Products, o.taken[p] <= stock[p]
    PROVE  /\ Take(o, l).taken[p] <= stock[p]
           /\ p # l.product => Take(o, l).taken[p] = o.taken[p]
BY DEF Take, Order, Line

-----------------------------------------------------------------------------
(* Types *)

LEMMA InitType == Init => TypeOK
BY DEF Init, TypeOK, Locations, Param, Heard

LEMMA LocationNames ==
    /\ "start" \in Locations /\ "customer" \in Locations
    /\ "upsert" \in Locations /\ "lookup" \in Locations
    /\ "coupon" \in Locations /\ "redeem" \in Locations
    /\ "insert" \in Locations /\ "conflict" \in Locations
    /\ "reserve" \in Locations /\ "clear" \in Locations
    /\ "pay" \in Locations /\ "settle" \in Locations
    /\ "commit" \in Locations /\ "push" \in Locations
    /\ "done" \in Locations /\ "failed" \in Locations
BY DEF Locations, InTransaction, Ended

\* Every action keeps every variable in its type.
LEMMA NextType ==
    ASSUME TypeOK, [Next]_vars,
           \A r \in Requests : Position(r) /\ DraftOwns(r) /\ AnswerPlaced(r)
    PROVE  TypeOK'
<1> USE LocationNames DEF Goto
<1>1. ASSUME NEW r \in Requests, FetchItems(r)
      PROVE  TypeOK'
  <2>1. req[r].direct \in Seq(Line)
    BY DEF TypeOK, Param
  <2>2. CartLines(CartRows(req[r].session)) \subseteq Seq(Line)
    BY CartLinesType DEF TypeOK, CartRows
  <2>3. PICK lines \in CartLines(CartRows(req[r].session)) \cup {<<>>, req[r].direct} :
          items' = [items EXCEPT ![r] = lines] /\ Goto(r, IF lines = <<>> THEN "done" ELSE "customer")
    BY <1>1 DEF FetchItems
  <2>6. <<>> \in Seq(Line)
    OBVIOUS
  <2>5. lines \in Seq(Line)
    BY <2>1, <2>2, <2>3, <2>6
  <2>4. QED
    BY <1>1, <2>3, <2>5 DEF FetchItems, TypeOK, tables, outside, adding
<1>2. ASSUME NEW r \in Requests, SelectCustomer(r)
      PROVE  TypeOK'
  BY <1>2 DEF SelectCustomer, TypeOK, tables, outside, adding
<1>3. ASSUME NEW r \in Requests, UpsertCustomer(r)
      PROVE  TypeOK'
  <2>1. locks' \in [Requests -> SUBSET Resource]
    <3>1. CASE Acquire(r)
      BY <3>1, AcquireType
    <3>2. CASE UNCHANGED locks
      BY <3>2 DEF TypeOK
    <3>3. QED
      BY <1>3, <3>1, <3>2 DEF UpsertCustomer
  <2>2. \E l \in Locations : pc' = [pc EXCEPT ![r] = l]
    BY <1>3 DEF UpsertCustomer
  <2>3. QED
    BY <1>3, <2>1, <2>2 DEF UpsertCustomer, TypeOK, tables, outside, adding
<1>4. ASSUME NEW r \in Requests, LookupKey(r)
      PROVE  TypeOK'
  <2>1. /\ ans' \in [Requests -> Requests \cup {None}]
        /\ says' \in [Requests -> Heard]
    <3>1. CASE UNCHANGED <<ans, says>>
      BY <3>1 DEF TypeOK
    <3>2. CASE Replay(r)
      BY <3>2, ReplayType
    <3>3. QED
      BY <1>4, <3>1, <3>2 DEF LookupKey
  <2>2. \E l \in Locations : pc' = [pc EXCEPT ![r] = l]
    BY <1>4 DEF LookupKey, Replay
  <2>3. QED
    BY <1>4, <2>1, <2>2 DEF LookupKey, TypeOK, tables, outside, adding
<1>5. ASSUME NEW r \in Requests, SelectCoupon(r)
      PROVE  TypeOK'
  BY <1>5 DEF SelectCoupon, TypeOK, tables, outside, adding
<1>6. ASSUME NEW r \in Requests, RedeemCoupon(r)
      PROVE  TypeOK'
  BY <1>6, AcquireType DEF RedeemCoupon, TypeOK, tables, outside, adding
<1>7. ASSUME NEW r \in Requests, InsertOrder(r)
      PROVE  TypeOK'
  <2>1. NewOrder(r) \in Order
    BY DEF NewOrder, Order, TypeOK
  <2>2. CASE req[r].key # None /\ PlacedFor(req[r].key) # {}
    <3>1. Rollback(r) /\ pc' = [pc EXCEPT ![r] = "conflict"]
      BY <1>7, <2>2 DEF InsertOrder
    <3>2. QED
      BY <1>7, <3>1, RollbackType DEF InsertOrder, TypeOK, tables, outside, adding
  <2>3. CASE ~(req[r].key # None /\ PlacedFor(req[r].key) # {})
    <3>1. locks' \in [Requests -> SUBSET Resource]
      BY <1>7, <2>3, AcquireType DEF InsertOrder
    <3>2. /\ draft' \in [Requests -> Order \cup {None}]
          /\ ans' \in [Requests -> Requests \cup {None}]
          /\ says' \in [Requests -> Heard]
          /\ pc' = [pc EXCEPT ![r] = "reserve"]
      <4>1. /\ draft' = [draft EXCEPT ![r] = NewOrder(r)]
            /\ ans' = [ans EXCEPT ![r] = r]
            /\ says' = [says EXCEPT ![r] = "pending"]
            /\ pc' = [pc EXCEPT ![r] = "reserve"]
        BY <1>7, <2>3 DEF InsertOrder
      <4>2. QED
        BY <2>1, <4>1 DEF TypeOK, Heard
    <3>3. QED
      BY <1>7, <3>1, <3>2 DEF InsertOrder, TypeOK, tables, outside, adding
  <2>4. QED
    BY <2>2, <2>3
<1>8. ASSUME NEW r \in Requests, LookupConflict(r)
      PROVE  TypeOK'
  <2>1. /\ ans' \in [Requests -> Requests \cup {None}]
        /\ says' \in [Requests -> Heard]
    <3>1. CASE UNCHANGED <<ans, says>>
      BY <3>1 DEF TypeOK
    <3>2. CASE Replay(r)
      BY <3>2, ReplayType
    <3>3. QED
      BY <1>8, <3>1, <3>2 DEF LookupConflict
  <2>2. \E l \in Locations : pc' = [pc EXCEPT ![r] = l]
    BY <1>8 DEF LookupConflict, Replay
  <2>3. QED
    BY <1>8, <2>1, <2>2 DEF LookupConflict, TypeOK, tables, outside, adding
<1>9. ASSUME NEW r \in Requests, ReserveLine(r)
      PROVE  TypeOK'
  <2>1. items[r][line[r] + 1] \in Line
    BY <1>9 DEF TypeOK, Position, ReserveLine
  <2>2. draft[r] \in Order
    BY <1>9 DEF TypeOK, Position, ReserveLine, WithDraft
  <2>3. Take(draft[r], items[r][line[r] + 1]) \in Order
    BY <2>1, <2>2, TakeType
  <2>4. draft' \in [Requests -> Order \cup {None}]
    BY <1>9, <2>3 DEF ReserveLine, TypeOK
  <2>5. locks' \in [Requests -> SUBSET Resource]
    BY <1>9, AcquireType DEF ReserveLine
  <2>6. \E l \in Locations : pc' = [pc EXCEPT ![r] = l]
    BY <1>9 DEF ReserveLine
  <2>7. line' \in [Requests -> Nat]
    BY <1>9 DEF ReserveLine, TypeOK
  <2>8. QED
    BY <1>9, <2>4, <2>5, <2>6, <2>7 DEF ReserveLine, TypeOK, tables, outside, adding
<1>10. ASSUME NEW r \in Requests, ClearCart(r)
       PROVE  TypeOK'
  BY <1>10, AcquireType DEF ClearCart, TypeOK, tables, outside, adding
<1>11. ASSUME NEW r \in Requests, AuthorizePayment(r)
       PROVE  TypeOK'
  <2>1. charged' \in [Requests -> Outcome \cup {"none"}]
    BY <1>11 DEF AuthorizePayment, TypeOK
  <2>2. pc' \in [Requests -> Locations]
    BY <1>11 DEF AuthorizePayment, TypeOK
  <2>3. QED
    BY <1>11, <2>1, <2>2 DEF AuthorizePayment, TypeOK, tables, adding
<1>12. ASSUME NEW r \in Requests, PersistPayment(r)
       PROVE  TypeOK'
  <2>1. draft[r] \in Order
    BY <1>12 DEF TypeOK, Position, PersistPayment, WithDraft
  <2>2. Settled(draft[r], charged[r]) \in Order
    BY <2>1 DEF Settled, Order
  <2>4. draft'[r].paymentStatus \in Heard
    BY <1>12, <2>2 DEF PersistPayment, TypeOK, Order, Heard
  <2>3. QED
    BY <1>12, <2>2, <2>4 DEF PersistPayment, TypeOK, tables, outside, adding
<1>13. ASSUME NEW r \in Requests, Commit(r)
       PROVE  TypeOK'
  <2>1. stock' \in [Products -> Nat]
    <3>1. CASE draft[r] = None
      BY <1>13, <3>1 DEF Commit, TypeOK
    <3>2. CASE draft[r] # None
      <4>1. draft[r] \in Order /\ \A p \in Products : draft[r].taken[p] <= stock[p]
        BY <3>2 DEF TypeOK, DraftOwns
      <4>2. QED
        BY <1>13, <3>2, <4>1 DEF Commit, TypeOK, Order
    <3>3. QED
      BY <3>1, <3>2
  <2>2. order' \in [Requests -> Order \cup {None}]
    BY <1>13 DEF Commit, TypeOK
  <2>3. cart' \in [Adds -> Row \cup {None}] /\ customers' \in SUBSET Emails
    BY <1>13 DEF Commit, TypeOK
  <2>4. used' \in [Coupons -> Nat]
    BY <1>13 DEF Commit, TypeOK
  <2>5. QED
    BY <1>13, <2>1, <2>2, <2>3, <2>4 DEF Commit, TypeOK, outside, adding
<1>14. ASSUME NEW r \in Requests, PushToCrm(r)
       PROVE  TypeOK'
  BY <1>14 DEF PushToCrm, TypeOK, tables, outside, adding
<1>15. ASSUME NEW r \in Requests, Abort(r) \/ DeadlockVictim(r)
       PROVE  TypeOK'
  <2>1. Rollback(r) /\ pc' = [pc EXCEPT ![r] = "failed"]
    BY <1>15 DEF Abort, DeadlockVictim
  <2>2. UNCHANGED <<tables, req, items, line, known, outside, adding>>
    BY <1>15 DEF Abort, DeadlockVictim
  <2>3. QED
    BY <2>1, <2>2, RollbackType DEF TypeOK, tables, outside, adding
<1>16. ASSUME NEW r \in Requests, CrashAfterCommit(r)
       PROVE  TypeOK'
  BY <1>16 DEF CrashAfterCommit, TypeOK, tables, outside, adding
<1>17. ASSUME NEW a \in Adds, AddSelect(a)
       PROVE  TypeOK'
  <2>1. addrow' \in [Adds -> Adds \cup {None}]
    BY <1>17 DEF AddSelect, TypeOK, CartRows
  <2>2. \E l \in {"start", "write", "done"} : addpc' = [addpc EXCEPT ![a] = l]
    BY <1>17 DEF AddSelect
  <2>3. QED
    BY <1>17, <2>1, <2>2 DEF AddSelect, TypeOK, tables, outside
<1>18. ASSUME NEW a \in Adds, AddWrite(a)
       PROVE  TypeOK'
  <2>1. cart' \in [Adds -> Row \cup {None}]
    <3>1. CASE addrow[a] = None
      BY <1>18, <3>1 DEF AddWrite, TypeOK
    <3>2. CASE addrow[a] # None /\ cart[addrow[a]] # None
      <4>1. addrow[a] \in Adds /\ cart[addrow[a]] \in Row /\ addreq[a] \in Row
        BY <3>2 DEF TypeOK
      <4>2. [cart[addrow[a]] EXCEPT !.quantity = @ + addreq[a].quantity] \in Row
        BY <4>1 DEF Row
      <4>3. QED
        BY <1>18, <3>2, <4>1, <4>2 DEF AddWrite, TypeOK
    <3>3. CASE addrow[a] # None /\ cart[addrow[a]] = None
      BY <1>18, <3>3 DEF AddWrite, TypeOK
    <3>4. QED
      BY <3>1, <3>2, <3>3
  <2>2. QED
    BY <1>18, <2>1 DEF AddWrite, TypeOK, outside
<1>19. ASSUME NEW a \in Adds, RemoveRow(a)
       PROVE  TypeOK'
  BY <1>19 DEF RemoveRow, TypeOK, outside, adding
<1>20. CASE UNCHANGED vars
  BY <1>20 DEF TypeOK, vars, tables, outside, adding
<1>21. QED
  BY <1>1, <1>2, <1>3, <1>4, <1>5, <1>6, <1>7, <1>8, <1>9, <1>10, <1>11, <1>12,
     <1>13, <1>14, <1>15, <1>16, <1>17, <1>18, <1>19, <1>20 DEF Next, Statement
-----------------------------------------------------------------------------
(* Locks, local positions and drafts *)

\* r ends its transaction, so it has no locks and no draft.
Ends(r) == /\ locks' = [locks EXCEPT ![r] = {}]
           /\ draft' = [draft EXCEPT ![r] = None]

\* A step leaves the locks alone, or one transaction acquires what its
\* statement needs or ends.
LEMMA LockSteps ==
    ASSUME [Next]_vars
    PROVE  UNCHANGED locks \/ \E r \in Requests : Acquire(r) \/ Ends(r)
<1> USE DEF outside, adding, tables, Ends
<1>1. ASSUME NEW r \in Requests, Statement(r)
      PROVE  UNCHANGED locks \/ Acquire(r) \/ Ends(r)
  BY <1>1 DEF Statement, SelectCustomer, UpsertCustomer, LookupKey, SelectCoupon,
     RedeemCoupon, InsertOrder, LookupConflict, ReserveLine, ClearCart,
     AuthorizePayment, PersistPayment, Commit, PushToCrm, Rollback
<1>2. ASSUME NEW r \in Requests,
             FetchItems(r) \/ Abort(r) \/ CrashAfterCommit(r) \/ DeadlockVictim(r)
      PROVE  UNCHANGED locks \/ Ends(r)
  BY <1>2 DEF FetchItems, Abort, CrashAfterCommit, DeadlockVictim, Rollback
<1>3. ASSUME NEW a \in Adds, AddSelect(a) \/ AddWrite(a) \/ RemoveRow(a)
      PROVE  UNCHANGED locks
  BY <1>3 DEF AddSelect, AddWrite, RemoveRow
<1>4. CASE UNCHANGED vars
  BY <1>4 DEF vars
<1>5. QED
  BY <1>1, <1>2, <1>3, <1>4 DEF Next

LEMMA NextExclusive ==
    ASSUME LocksExclusive, locks \in [Requests -> SUBSET Resource], [Next]_vars
    PROVE  LocksExclusive'
<1>1. CASE UNCHANGED locks
  BY <1>1 DEF LocksExclusive
<1>2. ASSUME NEW r \in Requests, Acquire(r)
      PROVE  LocksExclusive'
  BY <1>2, AcquireExclusive
<1>3. ASSUME NEW r \in Requests, Ends(r)
      PROVE  LocksExclusive'
  BY <1>3 DEF LocksExclusive, Ends
<1>4. QED
  BY <1>1, <1>2, <1>3, LockSteps

\* A request's parameters never change.
LEMMA ReqConstant == [Next]_vars => UNCHANGED req
<1> USE DEF outside, adding, tables
<1>1. ASSUME NEW r \in Requests, Statement(r)
      PROVE  UNCHANGED req
  BY <1>1 DEF Statement, SelectCustomer, UpsertCustomer, LookupKey, SelectCoupon,
     RedeemCoupon, InsertOrder, LookupConflict, ReserveLine, ClearCart,
     AuthorizePayment, PersistPayment, Commit, PushToCrm
<1>2. ASSUME NEW r \in Requests,
             FetchItems(r) \/ Abort(r) \/ CrashAfterCommit(r) \/ DeadlockVictim(r)
      PROVE  UNCHANGED req
  BY <1>2 DEF FetchItems, Abort, CrashAfterCommit, DeadlockVictim
<1>3. ASSUME NEW a \in Adds, AddSelect(a) \/ AddWrite(a) \/ RemoveRow(a)
      PROVE  UNCHANGED req
  BY <1>3 DEF AddSelect, AddWrite, RemoveRow
<1>4. QED
  BY <1>1, <1>2, <1>3 DEF Next, vars

\* What a step does to drafts, orders, answers and stock: nothing, a rollback,
\* a replayed answer, an insert, a reservation, a payment outcome, a commit.
LEMMA OrderSteps ==
    ASSUME [Next]_vars
    PROVE  \/ UNCHANGED <<draft, order, ans, stock>>
           \/ \E r \in Requests : Rollback(r) /\ UNCHANGED <<order, stock>>
           \/ \E r \in Requests : LookupKey(r) \/ LookupConflict(r)
           \/ \E r \in Requests : /\ InsertOrder(r)
                                  /\ ~(req[r].key # None /\ PlacedFor(req[r].key) # {})
           \/ \E r \in Requests : ReserveLine(r) \/ PersistPayment(r) \/ Commit(r)
<1> USE DEF outside, adding, tables
<1>1. ASSUME NEW r \in Requests,
             \/ SelectCustomer(r) \/ UpsertCustomer(r) \/ SelectCoupon(r)
             \/ RedeemCoupon(r) \/ ClearCart(r) \/ AuthorizePayment(r) \/ PushToCrm(r)
             \/ FetchItems(r) \/ CrashAfterCommit(r)
      PROVE  UNCHANGED <<draft, order, ans, stock>>
  BY <1>1 DEF SelectCustomer, UpsertCustomer, SelectCoupon, RedeemCoupon, ClearCart,
     AuthorizePayment, PushToCrm, FetchItems, CrashAfterCommit
<1>2. ASSUME NEW r \in Requests,
             \/ Abort(r) \/ DeadlockVictim(r)
             \/ InsertOrder(r) /\ req[r].key # None /\ PlacedFor(req[r].key) # {}
      PROVE  Rollback(r) /\ UNCHANGED <<order, stock>>
  BY <1>2 DEF Abort, DeadlockVictim, InsertOrder
<1>3. ASSUME NEW a \in Adds, AddSelect(a) \/ AddWrite(a) \/ RemoveRow(a)
      PROVE  UNCHANGED <<draft, order, ans, stock>>
  BY <1>3 DEF AddSelect, AddWrite, RemoveRow
<1>4. CASE UNCHANGED vars
  BY <1>4 DEF vars
<1>5. QED
  BY <1>1, <1>2, <1>3, <1>4 DEF Next, Statement

\* What Position looks at
Same(q) ==
    /\ pc'[q] = pc[q] /\ items'[q] = items[q] /\ line'[q] = line[q]
    /\ ans'[q] = ans[q] /\ draft'[q] = draft[q] /\ order'[q] = order[q]
    /\ says'[q] = says[q]

\* A step of one request leaves the others where they are.
LEMMA OthersSame ==
    ASSUME TypeOK, NEW r \in Requests, NEW q \in Requests, q # r,
           \/ FetchItems(r) \/ Statement(r) \/ Abort(r)
           \/ CrashAfterCommit(r) \/ DeadlockVictim(r)
    PROVE  Same(q)
<1> USE DEF Same, Goto, TypeOK, outside, adding, tables
<1>1. CASE FetchItems(r) \/ Abort(r) \/ CrashAfterCommit(r) \/ DeadlockVictim(r)
  BY <1>1 DEF FetchItems, Abort, CrashAfterCommit, DeadlockVictim, Rollback
<1>2. CASE SelectCustomer(r) \/ UpsertCustomer(r) \/ LookupKey(r) \/ SelectCoupon(r)
           \/ RedeemCoupon(r) \/ LookupConflict(r) \/ ClearCart(r)
  BY <1>2 DEF SelectCustomer, UpsertCustomer, LookupKey, SelectCoupon, RedeemCoupon,
     LookupConflict, ClearCart, Replay
<1>3. CASE InsertOrder(r) \/ ReserveLine(r) \/ AuthorizePayment(r)
  BY <1>3 DEF InsertOrder, ReserveLine, AuthorizePayment, Rollback
<1>4. CASE PersistPayment(r) \/ Commit(r) \/ PushToCrm(r)
  BY <1>4 DEF PersistPayment, Commit, PushToCrm
<1>5. QED
  BY <1>1, <1>2, <1>3, <1>4 DEF Statement

LEMMA NextPosition ==
    ASSUME TypeOK, TypeOK', [Next]_vars, \A r \in Requests : Position(r),
           NEW q \in Requests
    PROVE  Position(q)'
<1> USE DEF Goto
<1>0. UNCHANGED req
  BY ReqConstant
<1>1. CASE Same(q)
  BY <1>0, <1>1 DEF Same, Position
<1>2. CASE FetchItems(q)
  <2>1. /\ pc[q] = "start" /\ pc'[q] \in {"done", "customer"}
        /\ pc'[q] = "customer" => items'[q] # <<>>
        /\ UNCHANGED <<line, ans, draft, order>>
    BY <1>2 DEF FetchItems, TypeOK, tables
  <2>2. QED
    BY <1>0, <2>1 DEF Position, BeforeInsert, WithDraft, Ended
<1>3. CASE SelectCustomer(q) \/ UpsertCustomer(q)
  <2>1. /\ \/ pc[q] = "customer" /\ pc'[q] = "upsert"
           \/ pc[q] = "upsert" /\ pc'[q] \in {"lookup", "failed"}
        /\ UNCHANGED <<items, line, ans, draft, order>>
    <3>1. CASE SelectCustomer(q)
      <4>1. /\ pc[q] = "customer" /\ pc' = [pc EXCEPT ![q] = "upsert"]
            /\ UNCHANGED <<tables, items, line, ans, draft>>
        BY <3>1, Zenon DEF SelectCustomer
      <4>2. QED
        BY <4>1 DEF TypeOK, tables
    <3>2. CASE UpsertCustomer(q)
      <4>1. \E l \in {"lookup", "failed"} : pc' = [pc EXCEPT ![q] = l]
        BY <3>2 DEF UpsertCustomer
      <4>2. QED
        BY <3>2, <4>1 DEF UpsertCustomer, TypeOK, tables
    <3>3. QED
      BY <1>3, <3>1, <3>2
  <2>2. QED
    BY <1>0, <2>1 DEF Position, BeforeInsert, WithDraft, Ended
<1>4. CASE LookupKey(q)
  <2>1. /\ pc[q] = "lookup"
        /\ \/ pc'[q] = "commit" /\ ans'[q] \in Requests
           \/ pc'[q] = "coupon" /\ UNCHANGED ans
        /\ UNCHANGED <<items, line, draft, order>>
    BY <1>4 DEF LookupKey, Replay, TypeOK, tables, PlacedFor, Placed
  <2>2. QED
    BY <1>0, <2>1 DEF Position, BeforeInsert, WithDraft, Ended
<1>5. CASE SelectCoupon(q) \/ RedeemCoupon(q)
  <2>1. /\ \/ pc[q] = "coupon" /\ pc'[q] = "redeem" /\ req[q].coupon # None
           \/ pc[q] \in {"coupon", "redeem"} /\ pc'[q] = "insert"
        /\ UNCHANGED <<items, line, ans, draft, order>>
    BY <1>5 DEF SelectCoupon, RedeemCoupon, CouponValid, TypeOK, tables
  <2>2. QED
    BY <1>0, <2>1 DEF Position, BeforeInsert, WithDraft, Ended
<1>6. CASE InsertOrder(q)
  <2>1. CASE req[q].key # None /\ PlacedFor(req[q].key) # {}
    <3>1. /\ pc[q] = "insert" /\ pc'[q] = "conflict"
          /\ ans'[q] = None /\ draft'[q] = None
          /\ UNCHANGED <<items, line, order>>
      BY <1>6, <2>1 DEF InsertOrder, Rollback, TypeOK, tables
    <3>2. QED
      BY <1>0, <2>1, <3>1 DEF Position, BeforeInsert, WithDraft, Ended
  <2>2. CASE ~(req[q].key # None /\ PlacedFor(req[q].key) # {})
    <3>1. /\ pc[q] = "insert" /\ pc'[q] = "reserve"
          /\ ans'[q] = q /\ draft'[q] = NewOrder(q)
          /\ UNCHANGED <<items, line, order>>
      BY <1>6, <2>2 DEF InsertOrder, TypeOK, tables
    <3>2. NewOrder(q) # None
      <4>1. NewOrder(q) \in Order
        BY DEF NewOrder, Order, TypeOK
      <4>2. QED
        BY <4>1
    <3>3. items[q] \in Seq(Line) /\ items[q] # <<>> /\ line[q] = 0
      BY <3>1 DEF TypeOK, Position, BeforeInsert
    <3>4. line[q] < Len(items[q])
      BY <3>3
    <3>5. q # None
      OBVIOUS
    <3>6. QED
      BY <1>0, <3>1, <3>2, <3>4, <3>5 DEF Position, BeforeInsert, WithDraft, Ended
  <2>3. QED
    BY <2>1, <2>2
<1>7. CASE LookupConflict(q)
  <2>1. /\ pc[q] = "conflict"
        /\ \/ pc'[q] = "commit" /\ ans'[q] \in Requests
           \/ pc'[q] = "failed" /\ UNCHANGED ans
        /\ UNCHANGED <<items, line, draft, order>>
    BY <1>7 DEF LookupConflict, Replay, TypeOK, tables, PlacedFor, Placed
  <2>2. draft[q] = None /\ order[q] = None
    BY <2>1 DEF Position, WithDraft, Ended
  <2>3. QED
    BY <1>0, <2>1, <2>2 DEF Position, BeforeInsert, WithDraft, Ended
<1>8. CASE ReserveLine(q)
  <2>1. /\ pc[q] = "reserve" /\ line'[q] = line[q] + 1
        /\ \/ pc'[q] = "clear" /\ line'[q] = Len(items[q])
           \/ pc'[q] = "reserve" /\ line'[q] # Len(items[q])
        /\ draft'[q] = Take(draft[q], items[q][line[q] + 1])
        /\ UNCHANGED <<items, ans, order>>
    BY <1>8 DEF ReserveLine, TypeOK, tables
  <2>2. draft[q] \in Order /\ items[q][line[q] + 1] \in Line /\ line[q] < Len(items[q])
    BY <2>1 DEF Position, WithDraft, TypeOK
  <2>3. draft'[q] # None
    BY <2>1, <2>2, TakeType
  <2>4. pc'[q] = "reserve" => line'[q] < Len(items[q])
    BY <2>1, <2>2 DEF TypeOK
  <2>5. QED
    BY <1>0, <2>1, <2>3, <2>4 DEF Position, BeforeInsert, WithDraft, Ended
<1>9. CASE ClearCart(q) \/ AuthorizePayment(q)
  <2>1. /\ pc[q] \in {"clear", "pay"} /\ pc'[q] \in {"pay", "settle", "commit"}
        /\ UNCHANGED <<items, line, ans, draft, order>>
    BY <1>9 DEF ClearCart, AuthorizePayment, TypeOK, tables
  <2>2. ans[q] # None
    BY <2>1 DEF Position, WithDraft
  <2>3. QED
    BY <1>0, <2>1, <2>2 DEF Position, BeforeInsert, WithDraft, Ended
<1>10. CASE PersistPayment(q)
  <2>1. /\ pc[q] = "settle" /\ pc'[q] = "commit"
        /\ UNCHANGED <<items, line, ans, order>>
    BY <1>10 DEF PersistPayment, TypeOK, tables
  <2>2. draft[q] # None /\ ans[q] = q
    BY <2>1 DEF Position, WithDraft
  <2>3. QED
    BY <1>0, <2>1, <2>2 DEF Position, BeforeInsert, WithDraft, Ended
<1>11. CASE Commit(q)
  <2>1. /\ pc[q] = "commit" /\ pc'[q] = "push" /\ draft'[q] = None
        /\ UNCHANGED <<items, line, ans>>
    BY <1>11 DEF Commit, TypeOK
  <2>2. ans[q] # None
    BY <2>1 DEF Position
  <2>3. QED
    BY <1>0, <2>1, <2>2 DEF Position, BeforeInsert, WithDraft, Ended
<1>12. CASE PushToCrm(q) \/ CrashAfterCommit(q)
  <2>1. /\ pc[q] = "push" /\ pc'[q] \in Ended
        /\ UNCHANGED <<items, line, ans, draft, order>>
    BY <1>12 DEF PushToCrm, CrashAfterCommit, TypeOK, tables, Ended
  <2>2. QED
    BY <1>0, <2>1 DEF Position, BeforeInsert, WithDraft, Ended
<1>13. CASE Abort(q) \/ DeadlockVictim(q)
  <2>1. /\ pc'[q] = "failed" /\ draft'[q] = None /\ ans'[q] = None
        /\ UNCHANGED <<items, line, order>>
    BY <1>13 DEF Abort, DeadlockVictim, Rollback, TypeOK, tables
  <2>2. QED
    BY <1>0, <2>1 DEF Position, BeforeInsert, WithDraft, Ended
<1>14. ASSUME NEW a \in Adds, AddSelect(a) \/ AddWrite(a) \/ RemoveRow(a)
       PROVE  Same(q)
  BY <1>14 DEF AddSelect, AddWrite, RemoveRow, Same, tables
<1>15. CASE UNCHANGED vars
  BY <1>15, <1>1 DEF vars, tables, Same
<1>16. QED
  BY <1>1, <1>2, <1>3, <1>4, <1>5, <1>6, <1>7, <1>8, <1>9, <1>10, <1>11, <1>12,
     <1>13, <1>14, <1>15, OthersSame DEF Next, Statement

\* While a request has a draft it keeps its locks.
LEMMA LocksKept ==
    ASSUME TypeOK, [Next]_vars, NEW q \in Requests, draft'[q] # None
    PROVE  locks[q] \subseteq locks'[q]
<1>1. ASSUME NEW r \in Requests, Acquire(r)
      PROVE  locks[q] \subseteq locks'[q]
  BY <1>1 DEF Acquire, TypeOK
<1>2. ASSUME NEW r \in Requests, Ends(r)
      PROVE  locks[q] \subseteq locks'[q]
  <2>1. q # r
    BY <1>2 DEF Ends, TypeOK
  <2>2. QED
    BY <1>2, <2>1 DEF Ends, TypeOK
<1>3. QED
  BY <1>1, <1>2, LockSteps

\* An unchanged draft stays covered as long as stock and orders are unchanged.
LEMMA DraftKept ==
    ASSUME TypeOK, [Next]_vars, NEW q \in Requests, DraftOwns(q),
           draft'[q] = draft[q], UNCHANGED <<order, stock>>
    PROVE  DraftOwns(q)'
<1>1. UNCHANGED req
  BY ReqConstant
<1>2. draft'[q] # None => locks[q] \subseteq locks'[q]
  BY LocksKept
<1>3. \A k : PlacedFor(k)' = PlacedFor(k)
  BY <1>1 DEF PlacedFor, Placed
<1>4. QED
  BY <1>1, <1>2, <1>3 DEF DraftOwns

LEMMA NextDraftOwns ==
    ASSUME TypeOK, TypeOK', LocksExclusive, [Next]_vars,
           \A r \in Requests : Position(r) /\ DraftOwns(r),
           NEW q \in Requests
    PROVE  DraftOwns(q)'
<1>0. UNCHANGED req
  BY ReqConstant
<1>1. CASE UNCHANGED <<draft, order, ans, stock>>
  BY <1>1, DraftKept
<1>2. ASSUME NEW r \in Requests, Rollback(r), UNCHANGED <<order, stock>>
      PROVE  DraftOwns(q)'
  <2>1. CASE q = r
    BY <1>2, <2>1 DEF Rollback, DraftOwns, TypeOK
  <2>2. CASE q # r
    BY <1>2, <2>2, DraftKept DEF Rollback, TypeOK
  <2>3. QED
    BY <2>1, <2>2
<1>3. ASSUME NEW r \in Requests, LookupKey(r) \/ LookupConflict(r)
      PROVE  DraftOwns(q)'
  BY <1>3, DraftKept DEF LookupKey, LookupConflict, tables
<1>4. ASSUME NEW r \in Requests, InsertOrder(r),
             ~(req[r].key # None /\ PlacedFor(req[r].key) # {})
      PROVE  DraftOwns(q)'
  <2>1. /\ pc[r] = "insert" /\ Acquire(r)
        /\ draft' = [draft EXCEPT ![r] = NewOrder(r)]
        /\ UNCHANGED <<order, stock>>
    BY <1>4 DEF InsertOrder, tables
  <2>2. CASE q # r
    BY <2>1, <2>2, DraftKept DEF TypeOK
  <2>3. CASE q = r
    <3>1. req[r].key # None => <<"key", req[r].key>> \in locks'[r]
      BY <2>1 DEF Acquire, Needs, TypeOK
    <3>2. req[r].key # None => PlacedFor(req[r].key)' = {}
      BY <1>0, <1>4, <2>1 DEF PlacedFor, Placed
    <3>3. \A p \in Products : draft'[r].taken[p] = 0
      BY <2>1 DEF NewOrder, TypeOK
    <3>4. \A p \in Products : draft'[r].taken[p] <= stock'[p]
      BY <2>1, <3>3 DEF TypeOK
    <3>5. QED
      BY <1>0, <2>3, <3>1, <3>2, <3>3, <3>4 DEF DraftOwns
  <2>4. QED
    BY <2>2, <2>3
<1>5. ASSUME NEW r \in Requests, ReserveLine(r)
      PROVE  DraftOwns(q)'
  <2> DEFINE l == items[r][line[r] + 1]
  <2>1. /\ pc[r] = "reserve" /\ Acquire(r)
        /\ draft' = [draft EXCEPT ![r] = Take(@, l)]
        /\ UNCHANGED <<order, stock>>
    BY <1>5 DEF ReserveLine, tables
  <2>2. CASE q # r
    BY <2>1, <2>2, DraftKept DEF TypeOK
  <2>3. CASE q = r
    <3>1. draft[r] \in Order /\ l \in Line
      BY <2>1 DEF TypeOK, Position, WithDraft
    <3>2. draft'[r] = Take(draft[r], l) /\ draft[r] # None /\ draft'[r] # None
      BY <2>1, <3>1, TakeType DEF TypeOK
    <3>3. locks[r] \subseteq locks'[r]
      BY <3>2, LocksKept
    <3>4. <<"product", l.product>> \in locks'[r]
      BY <2>1 DEF Acquire, Needs, TypeOK
    <3>5. req[r].key # None => /\ <<"key", req[r].key>> \in locks'[r]
                              /\ PlacedFor(req[r].key)' = {}
      BY <1>0, <2>1, <3>2, <3>3 DEF DraftOwns, PlacedFor, Placed
    <3>6. ASSUME NEW p \in Products
          PROVE  /\ draft'[r].taken[p] <= stock'[p]
                 /\ draft'[r].taken[p] > 0 => <<"product", p>> \in locks'[r]
      <4>1. draft[r].taken[p] <= stock[p] /\ stock' = stock
        BY <2>1, <3>2 DEF DraftOwns
      <4>2. /\ draft'[r].taken[p] <= stock'[p]
            /\ p # l.product => draft'[r].taken[p] = draft[r].taken[p]
        BY <3>1, <3>2, <4>1, TakeBounded DEF TypeOK
      <4>3. CASE p = l.product
        BY <3>4, <4>2, <4>3
      <4>4. CASE p # l.product
        BY <3>2, <3>3, <4>2, <4>4 DEF DraftOwns
      <4>5. QED
        BY <4>3, <4>4
    <3>7. QED
      BY <1>0, <2>3, <3>5, <3>6 DEF DraftOwns
  <2>4. QED
    BY <2>2, <2>3
<1>6. ASSUME NEW r \in Requests, PersistPayment(r)
      PROVE  DraftOwns(q)'
  <2>1. /\ pc[r] = "settle" /\ UNCHANGED <<order, stock, locks>>
        /\ draft' = [draft EXCEPT ![r] = Settled(@, charged[r])]
    BY <1>6 DEF PersistPayment, tables
  <2>2. CASE q # r
    BY <2>1, <2>2, DraftKept DEF TypeOK
  <2>3. CASE q = r
    <3>1. draft[r] \in Order /\ draft[r] # None
      BY <2>1 DEF TypeOK, Position, WithDraft
    <3>2. draft'[r].taken = draft[r].taken
      BY <2>1, <3>1 DEF TypeOK, Settled, Order
    <3>3. req[r].key # None => PlacedFor(req[r].key)' = PlacedFor(req[r].key)
      BY <1>0, <2>1 DEF PlacedFor, Placed
    <3>4. QED
      BY <1>0, <2>1, <2>3, <3>1, <3>2, <3>3 DEF DraftOwns
  <2>4. QED
    BY <2>2, <2>3
<1>7. ASSUME NEW r \in Requests, Commit(r)
      PROVE  DraftOwns(q)'
  <2>1. /\ draft' = [draft EXCEPT ![r] = None]
        /\ draft[r] = None => UNCHANGED <<order, stock>>
        /\ draft[r] # None =>
              /\ order' = [order EXCEPT ![r] = draft[r]]
              /\ stock' = [p \in Products |-> stock[p] - draft[r].taken[p]]
    BY <1>7 DEF Commit
  <2>2. CASE q = r
    BY <2>1, <2>2 DEF DraftOwns, TypeOK
  <2>3. CASE q # r /\ draft[r] = None
    BY <2>1, <2>3, DraftKept DEF TypeOK
  <2>4. CASE q # r /\ draft[r] # None /\ draft[q] # None
    <3>1. draft'[q] = draft[q] /\ locks[q] \subseteq locks'[q]
      BY <2>1, <2>4, LocksKept DEF TypeOK
    <3>2. locks[q] \cap locks[r] = {}
      BY <2>4 DEF LocksExclusive
    <3>3. req[q].key # None => req[r].key # req[q].key
      BY <2>4, <3>2 DEF DraftOwns
    <3>4. req[q].key # None => PlacedFor(req[q].key)' = {}
      <4>1. Placed' \subseteq Placed \cup {r}
        BY <2>1, <2>4 DEF Placed, TypeOK
      <4>2. req[q].key # None => PlacedFor(req[q].key) = {}
        BY <2>4 DEF DraftOwns
      <4>3. QED
        BY <1>0, <3>3, <4>1, <4>2 DEF PlacedFor
    <3>5. ASSUME NEW p \in Products
          PROVE  /\ draft'[q].taken[p] <= stock'[p]
                 /\ draft'[q].taken[p] > 0 => <<"product", p>> \in locks'[q]
      <4>1. /\ draft[q].taken[p] \in Nat /\ draft[r].taken[p] \in Nat
            /\ stock[p] \in Nat /\ stock'[p] \in Nat
        <5>1. draft[q] \in Order /\ draft[r] \in Order
          BY <2>4 DEF TypeOK
        <5>2. stock[p] \in Nat /\ stock'[p] \in Nat
          BY DEF TypeOK
        <5>3. QED
          BY <5>1, <5>2 DEF Order
      <4>2. CASE draft[q].taken[p] = 0
        BY <3>1, <4>1, <4>2
      <4>3. CASE draft[q].taken[p] > 0
        <5>1. <<"product", p>> \in locks[q] /\ draft[q].taken[p] <= stock[p]
          BY <2>4, <4>3 DEF DraftOwns
        <5>2. ~(draft[r].taken[p] > 0)
          BY <2>4, <3>2, <5>1 DEF DraftOwns
        <5>3. stock'[p] = stock[p]
          BY <2>1, <2>4, <4>1, <5>2
        <5>4. QED
          BY <3>1, <5>1, <5>3
      <4>4. QED
        BY <4>1, <4>2, <4>3
    <3>6. QED
      BY <1>0, <2>4, <3>1, <3>4, <3>5 DEF DraftOwns
  <2>5. CASE q # r /\ draft[q] = None
    BY <2>1, <2>5 DEF DraftOwns, TypeOK
  <2>6. QED
    BY <2>2, <2>3, <2>4, <2>5
<1>8. QED
  BY <1>1, <1>2, <1>3, <1>4, <1>5, <1>6, <1>7, OrderSteps

-----------------------------------------------------------------------------
(* Answers and keys *)

\* Only Commit changes the committed orders, and no order goes away.
LEMMA OrdersStay ==
    ASSUME TypeOK, [Next]_vars, \A r \in Requests : Position(r)
    PROVE  Placed \subseteq Placed'
<1>1. ASSUME NEW r \in Requests, Commit(r)
      PROVE  Placed \subseteq Placed'
  BY <1>1 DEF Commit, Placed, TypeOK
<1>2. ASSUME UNCHANGED order
      PROVE  Placed \subseteq Placed'
  BY <1>2 DEF Placed
<1>3. ASSUME NEW r \in Requests,
             LookupKey(r) \/ LookupConflict(r) \/ InsertOrder(r) \/ ReserveLine(r)
             \/ PersistPayment(r)
      PROVE  UNCHANGED order
  BY <1>3 DEF LookupKey, LookupConflict, InsertOrder, ReserveLine, PersistPayment, tables
<1>4. QED
  BY <1>1, <1>2, <1>3, OrderSteps

\* An answer given stays right, whether the draft is kept or gone.
LEMMA AnswerKept ==
    ASSUME TypeOK, [Next]_vars, \A r \in Requests : Position(r),
           NEW q \in Requests, AnswerPlaced(q), ans'[q] = ans[q],
           draft'[q] = None => draft[q] = None
    PROVE  AnswerPlaced(q)'
BY ReqConstant, OrdersStay DEF AnswerPlaced

LEMMA NextAnswerPlaced ==
    ASSUME TypeOK, TypeOK', [Next]_vars,
           \A r \in Requests : Position(r) /\ AnswerPlaced(r),
           NEW q \in Requests
    PROVE  AnswerPlaced(q)'
<1>0. UNCHANGED req /\ Placed \subseteq Placed'
  BY ReqConstant, OrdersStay
<1>1. CASE UNCHANGED <<draft, order, ans, stock>>
  BY <1>1, AnswerKept
<1>2. ASSUME NEW r \in Requests, Rollback(r)
      PROVE  AnswerPlaced(q)'
  <2>1. CASE q = r
    BY <1>2, <2>1 DEF Rollback, AnswerPlaced, TypeOK
  <2>2. CASE q # r
    BY <1>2, <2>2, AnswerKept DEF Rollback, TypeOK
  <2>3. QED
    BY <2>1, <2>2
<1>3. ASSUME NEW r \in Requests, LookupKey(r) \/ LookupConflict(r)
      PROVE  AnswerPlaced(q)'
  <2>1. /\ draft' = draft
        /\ \/ ans' = ans
           \/ /\ req[r].key # None
              /\ \E s \in PlacedFor(req[r].key) : ans' = [ans EXCEPT ![r] = s]
    BY <1>3 DEF LookupKey, LookupConflict, Replay, Position
  <2>2. CASE ans' = ans \/ q # r
    BY <2>1, <2>2, AnswerKept DEF TypeOK
  <2>3. CASE q = r /\ ans' # ans
    <3>1. req[r].key # None /\ ans'[r] \in Placed /\ req[ans'[r]].key = req[r].key
      BY <2>1, <2>3 DEF TypeOK, PlacedFor, Placed
    <3>2. QED
      BY <1>0, <2>3, <3>1 DEF AnswerPlaced
  <2>4. QED
    BY <2>2, <2>3
<1>4. ASSUME NEW r \in Requests, InsertOrder(r),
             ~(req[r].key # None /\ PlacedFor(req[r].key) # {})
      PROVE  AnswerPlaced(q)'
  <2>1. /\ draft' = [draft EXCEPT ![r] = NewOrder(r)]
        /\ ans' = [ans EXCEPT ![r] = r]
    BY <1>4 DEF InsertOrder
  <2>2. CASE q # r
    BY <2>1, <2>2, AnswerKept DEF TypeOK
  <2>3. CASE q = r
    <3>1. NewOrder(r) \in Order
      BY DEF NewOrder, Order, TypeOK
    <3>2. draft'[r] # None
      BY <2>1, <3>1 DEF TypeOK
    <3>3. QED
      BY <2>3, <3>2 DEF AnswerPlaced
  <2>4. QED
    BY <2>2, <2>3
<1>5. ASSUME NEW r \in Requests, ReserveLine(r) \/ PersistPayment(r)
      PROVE  AnswerPlaced(q)'
  <2>1. /\ pc[r] \in WithDraft /\ ans' = ans
        /\ \E o : draft' = [draft EXCEPT ![r] = o]
    BY <1>5 DEF ReserveLine, PersistPayment, WithDraft
  <2>2. CASE q # r
    BY <2>1, <2>2, AnswerKept DEF TypeOK
  <2>3. CASE q = r
    <3>1. draft[r] \in Order
      BY <2>1 DEF TypeOK, Position
    <3>2. CASE ReserveLine(r)
      <4>1. items[r][line[r] + 1] \in Line
        BY <3>2 DEF TypeOK, Position, ReserveLine
      <4>2. draft'[r] \in Order
        BY <3>1, <3>2, <4>1, TakeType DEF ReserveLine, TypeOK
      <4>3. QED
        BY <2>3, <4>2 DEF AnswerPlaced
    <3>3. CASE PersistPayment(r)
      <4>1. Settled(draft[r], charged[r]) \in Order
        BY <3>1 DEF Settled, Order
      <4>2. draft'[r] \in Order
        BY <3>3, <4>1 DEF PersistPayment, TypeOK
      <4>3. QED
        BY <2>3, <4>2 DEF AnswerPlaced
    <3>4. QED
      BY <1>5, <3>2, <3>3
  <2>4. QED
    BY <2>2, <2>3
<1>6. ASSUME NEW r \in Requests, Commit(r)
      PROVE  AnswerPlaced(q)'
  <2>1. /\ draft' = [draft EXCEPT ![r] = None] /\ ans' = ans
        /\ draft[r] # None => order' = [order EXCEPT ![r] = draft[r]]
    BY <1>6 DEF Commit
  <2>2. CASE q # r \/ draft[r] = None
    BY <2>1, <2>2, AnswerKept DEF TypeOK
  <2>3. CASE q = r /\ draft[r] # None
    BY <2>1, <2>3 DEF AnswerPlaced, Position, Placed, TypeOK
  <2>4. QED
    BY <2>2, <2>3
<1>7. QED
  BY <1>1, <1>2, <1>3, <1>4, <1>5, <1>6, OrderSteps

\* A commit adds the order of a draft, whose key is in nobody else's hands.
LEMMA NextOneOrderPerKey ==
    ASSUME TypeOK, [Next]_vars, OneOrderPerKey,
           \A r \in Requests : DraftOwns(r)
    PROVE  OneOrderPerKey'
<1>0. UNCHANGED req
  BY ReqConstant
<1>1. ASSUME NEW r \in Requests, Commit(r)
      PROVE  OneOrderPerKey'
  <2>1. CASE draft[r] = None
    BY <1>0, <1>1, <2>1 DEF Commit, OneOrderPerKey, Placed
  <2>2. CASE draft[r] # None
    <3>1. Placed' \subseteq Placed \cup {r}
      BY <1>1, <2>2 DEF Commit, Placed, TypeOK
    <3>2. req[r].key # None => PlacedFor(req[r].key) = {}
      BY <2>2 DEF DraftOwns
    <3>3. QED
      BY <1>0, <3>1, <3>2 DEF OneOrderPerKey, PlacedFor
  <2>3. QED
    BY <2>1, <2>2
<1>2. ASSUME UNCHANGED order
      PROVE  OneOrderPerKey'
  BY <1>0, <1>2 DEF OneOrderPerKey, Placed
<1>3. ASSUME NEW r \in Requests,
             LookupKey(r) \/ LookupConflict(r) \/ InsertOrder(r) \/ ReserveLine(r)
             \/ PersistPayment(r)
      PROVE  UNCHANGED order
  BY <1>3 DEF LookupKey, LookupConflict, InsertOrder, ReserveLine, PersistPayment, tables
<1>4. QED
  BY <1>1, <1>2, <1>3, OrderSteps

-----------------------------------------------------------------------------
(* The theorems *)

LEMMA InitCoreInv == Init => CoreInv
<1> SUFFICES ASSUME Init PROVE CoreInv
  OBVIOUS
<1>1. TypeOK
  BY InitType
<1>2. LocksExclusive /\ OneOrderPerKey
  BY DEF Init, LocksExclusive, OneOrderPerKey, Placed
<1>3. \A r \in Requests : Position(r) /\ DraftOwns(r) /\ AnswerPlaced(r)
  BY DEF Init, Position, DraftOwns, AnswerPlaced, BeforeInsert, WithDraft
<1>4. QED
  BY <1>1, <1>2, <1>3 DEF CoreInv

LEMMA NextCoreInv == CoreInv /\ [Next]_vars => CoreInv'
<1> SUFFICES ASSUME CoreInv, [Next]_vars PROVE CoreInv'
  OBVIOUS
<1>1. /\ TypeOK /\ LocksExclusive /\ OneOrderPerKey
      /\ \A r \in Requests : Position(r) /\ DraftOwns(r) /\ AnswerPlaced(r)
  BY DEF CoreInv
<1>2. TypeOK'
  BY <1>1, NextType
<1>3. LocksExclusive'
  BY <1>1, NextExclusive DEF TypeOK
<1>4. \A r \in Requests : Position(r)'
  BY <1>1, <1>2, NextPosition
<1>5. \A r \in Requests : DraftOwns(r)'
  BY <1>1, <1>2, NextDraftOwns
<1>6. \A r \in Requests : AnswerPlaced(r)'
  BY <1>1, <1>2, NextAnswerPlaced
<1>7. OneOrderPerKey'
  BY <1>1, NextOneOrderPerKey
<1>8. QED
  BY <1>2, <1>3, <1>4, <1>5, <1>6, <1>7 DEF CoreInv

\* Whatever the numbers of requests, keys, products and customers, every
\* reachable state of the placement transactions satisfies CoreInv: types,
\* exclusive locks, and drafts that own their key and the units they took.
THEOREM Inductive == Spec => []CoreInv
<1>1. QED
  BY InitCoreInv, NextCoreInv, PTL DEF Spec

\* Every variable of the placement keeps its type; the stock stays a natural
\* number although orders subtract from it concurrently.
THEOREM TypeCorrect == Spec => []TypeOK
<1>1. CoreInv => TypeOK
  BY DEF CoreInv
<1>2. QED
  BY <1>1, Inductive, PTL

\* However requests under one idempotency key interleave, fail and are
\* retried, at most one order is ever placed under the key.
THEOREM KeyIsPlacedOnce == Spec => []OneOrderPerKey
<1>1. CoreInv => OneOrderPerKey
  BY DEF CoreInv
<1>2. QED
  BY <1>1, Inductive, PTL

\* Whoever is answered with an order is answered with a committed one, its own
\* or its key's.
THEOREM AnswersAreCommitted == Spec => []AnswersArePlaced
<1>1. CoreInv => AnswersArePlaced
  BY DEF CoreInv, AnswersArePlaced, AnswerPlaced, Position, WithDraft
<1>2. QED
  BY <1>1, Inductive, PTL

-----------------------------------------------------------------------------
(* The transactions implement the order book *)

\* The answer of the order book: what a request that is past its commit got.
Answer(r) == IF pc[r] \in {"push"} \cup Ended THEN ans[r] ELSE None

\* Apart from commits, a step shows the order book nothing.
LEMMA QuietSteps ==
    ASSUME TypeOK, [Next]_vars, \A r \in Requests : Position(r),
           \A r \in Requests : ~Commit(r)
    PROVE  UNCHANGED <<req, order>> /\ \A q \in Requests : Answer(q)' = Answer(q)
<1> USE DEF Goto, Ended, Answer
<1>1. UNCHANGED req
  BY ReqConstant
<1>2. UNCHANGED order
  <2>1. ASSUME NEW r \in Requests,
               \/ LookupKey(r) \/ LookupConflict(r) \/ InsertOrder(r)
               \/ ReserveLine(r) \/ PersistPayment(r)
        PROVE  UNCHANGED order
    BY <2>1 DEF LookupKey, LookupConflict, InsertOrder, ReserveLine, PersistPayment, tables
  <2>2. QED
    BY <2>1, OrderSteps
<1>3. ASSUME NEW q \in Requests, Same(q)
      PROVE  Answer(q)' = Answer(q)
  BY <1>3 DEF Same
<1>4. ASSUME NEW q \in Requests, FetchItems(q)
      PROVE  Answer(q)' = Answer(q)
  <2>1. pc[q] = "start" /\ ans'[q] = ans[q]
    BY <1>4 DEF FetchItems
  <2>2. ans[q] = None
    BY <2>1 DEF Position, BeforeInsert
  <2>3. QED
    BY <2>1, <2>2
<1>5. ASSUME NEW q \in Requests, UpsertCustomer(q) \/ LookupConflict(q)
      PROVE  Answer(q)' = Answer(q)
  <2>1. pc[q] \in {"upsert", "conflict"} /\ (ans'[q] = ans[q] \/ pc'[q] = "commit")
    BY <1>5 DEF UpsertCustomer, LookupConflict, Replay, TypeOK
  <2>2. ans[q] = None
    BY <2>1 DEF Position, BeforeInsert
  <2>3. QED
    BY <2>1, <2>2
<1>6. ASSUME NEW q \in Requests, PushToCrm(q) \/ CrashAfterCommit(q)
      PROVE  Answer(q)' = Answer(q)
  BY <1>6 DEF PushToCrm, CrashAfterCommit, TypeOK
<1>7. ASSUME NEW q \in Requests, Abort(q) \/ DeadlockVictim(q)
      PROVE  Answer(q)' = Answer(q)
  BY <1>7 DEF Abort, DeadlockVictim, Rollback, InTransaction, TypeOK
<1>8. ASSUME NEW q \in Requests,
             \/ SelectCustomer(q) \/ LookupKey(q) \/ SelectCoupon(q) \/ RedeemCoupon(q)
             \/ InsertOrder(q) \/ ReserveLine(q) \/ ClearCart(q)
             \/ AuthorizePayment(q) \/ PersistPayment(q)
      PROVE  Answer(q)' = Answer(q)
  <2>1. pc[q] \in InTransaction \ {"conflict"} /\ pc'[q] \in InTransaction
    BY <1>8 DEF SelectCustomer, LookupKey, SelectCoupon, RedeemCoupon, InsertOrder, Replay,
       ReserveLine, ClearCart, AuthorizePayment, PersistPayment, InTransaction, TypeOK
  <2>2. QED
    BY <2>1 DEF InTransaction
<1>9. ASSUME NEW q \in Requests, NEW a \in Adds,
             AddSelect(a) \/ AddWrite(a) \/ RemoveRow(a)
      PROVE  Same(q)
  BY <1>9 DEF AddSelect, AddWrite, RemoveRow, Same, tables
<1>10. ASSUME NEW q \in Requests, UNCHANGED vars
       PROVE  Same(q)
  BY <1>10 DEF vars, tables, Same
<1>11. QED
  BY <1>1, <1>2, <1>3, <1>4, <1>5, <1>6, <1>7, <1>8, <1>9, <1>10, OthersSame
     DEF Next, Statement

\* A commit places the request's own order or replays its key's.
LEMMA CommitRefines ==
    ASSUME CoreInv, [Next]_vars, NEW r \in Requests, Commit(r)
    PROVE  Book!Next
<1> DEFINE answer == [q \in Requests |-> Answer(q)]
           key    == [q \in Requests |-> req[q].key]
<1>0. /\ TypeOK /\ Position(r) /\ DraftOwns(r) /\ AnswerPlaced(r)
      /\ \A q \in Requests : Position(q)
  BY DEF CoreInv
<1>1. /\ pc[r] = "commit" /\ pc' = [pc EXCEPT ![r] = "push"] /\ UNCHANGED <<ans, req>>
      /\ draft[r] = None => UNCHANGED order
      /\ draft[r] # None => order' = [order EXCEPT ![r] = draft[r]]
  BY DEF Commit, Goto
<1>2. answer[r] = None /\ r \notin Placed /\ UNCHANGED key
  BY <1>0, <1>1 DEF Position, Placed, Answer, Ended
<1>3. answer' = [answer EXCEPT ![r] = ans[r]]
  <2>1. \A q \in Requests : q # r => Answer(q)' = Answer(q)
    BY <1>0, <1>1 DEF Answer, TypeOK
  <2>2. Answer(r)' = ans[r]
    BY <1>0, <1>1 DEF Answer, TypeOK
  <2>3. QED
    BY <2>1, <2>2
<1>4. CASE draft[r] # None
  <2>1. ans[r] = r
    BY <1>0, <1>4 DEF Position
  <2>2. Placed' = Placed \cup {r}
    BY <1>0, <1>1, <1>4 DEF Placed, TypeOK
  <2>3. key[r] # None => \A s \in Placed : key[s] # key[r]
    BY <1>0, <1>4 DEF DraftOwns, PlacedFor, Placed
  <2>4. Book!Place(r)
    BY <1>2, <1>3, <2>1, <2>2, <2>3 DEF Book!Place, Answer
  <2>5. QED
    BY <2>4 DEF Book!Next
<1>5. CASE draft[r] = None
  <2>1. ans[r] # None
    BY <1>0, <1>1 DEF Position
  <2>2. ans[r] \in Placed /\ key[r] # None /\ key[ans[r]] = key[r]
    BY <1>0, <1>2, <1>5, <2>1 DEF AnswerPlaced, Placed
  <2>3. Placed' = Placed
    BY <1>1, <1>5 DEF Placed
  <2>4. Book!Replay(r)
    BY <1>2, <1>3, <2>2, <2>3 DEF Book!Replay, Answer
  <2>5. QED
    BY <2>4 DEF Book!Next
<1>6. QED
  BY <1>4, <1>5

\* Every behaviour of the statement-level transactions, with their locks,
\* failures and retries, is a behaviour of the abstract order book.
THEOREM Refinement == Spec => ImplementsOrderBook
<1>1. Init => Book!Init
  BY DEF Init, Book!Init, Placed, Ended
<1>2. CoreInv /\ [Next]_vars => [Book!Next]_(Book!vars)
  <2> SUFFICES ASSUME CoreInv, [Next]_vars, \A r \in Requests : ~Commit(r)
               PROVE  UNCHANGED Book!vars
    BY CommitRefines
  <2>1. TypeOK /\ \A r \in Requests : Position(r)
    BY DEF CoreInv
  <2>2. UNCHANGED <<req, order>> /\ \A q \in Requests : Answer(q)' = Answer(q)
    BY <2>1, QuietSteps
  <2>3. QED
    BY <2>2 DEF Book!vars, Placed, Answer
<1>3. QED
  BY <1>1, <1>2, Inductive, PTL DEF Spec, ImplementsOrderBook, Book!Spec
=============================================================================
