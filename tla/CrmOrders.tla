------------------------------- MODULE CrmOrders -------------------------------
(***************************************************************************)
(* The CRM's copies of the shop's orders: the pushes of single orders      *)
(* (POST /api/orders), the pulls of the latest ones (_orders_sync_loop and *)
(* POST /api/orders/sync), and the CRM's users (PATCH .../status).         *)
(*                                                                         *)
(* A pull is one transaction with a savepoint per order; a push is one     *)
(* transaction.  Both read a row, compute, and write back only the columns *)
(* they have changed in their own copy of it (the ORM's UPDATE).  The      *)
(* database is read committed, holds the lock of a written row until the   *)
(* end of the transaction, and keeps (source_system, source_order_id), the *)
(* e-mail of a customer and the SKU of a product unique: an INSERT waits   *)
(* for another one of the same value that is not committed.                *)
(*                                                                         *)
(* The CRM has a database of its own (crm/docker-compose.yml) or shares    *)
(* the shop's schema (ARCHITECTURE.md, Table ownership).  On the shared    *)
(* schema the shop lists the copies among its orders, and a pull copies    *)
(* the copies; a copy is as old as its original, or as the push that made  *)
(* it, so that the shop may list any orders first, in any order.           *)
(***************************************************************************)
EXTENDS Integers, FiniteSets

CONSTANTS
    MaxOrders,      \* the orders OrderNumbers are placed in this order
    Depth,          \* bound: copies of copies ... of copies that are copied
    Window,         \* limit: how many orders a pull asks for
    Pulls,          \* the pulls that can run at a time
    Pushes,         \* the pushes there will be
    Statuses,       \* what an administrator or a user may set a status to
    MaxEvents,      \* bound: changes at the shop, edits, failures
    Customers, Products,
    CustomerOf,     \* whose order it is
    ProductOf,      \* what it is for
    Nothing         \* no row, no order, no copy

Status == Statuses \cup {"payment_pending", "paid"}

\* BACKLOG_STATUSES, as far as these statuses go
Backlog == {"pending", "processing"}

OrderNumbers == 1..MaxOrders

\* What the shop can list: <<o, 0>> is order o itself, <<o, d + 1>> the copy that
\* the CRM has made of <<o, d>>.
Keys == OrderNumbers \X (0..Depth)

\* The unique values
Names == Customers \cup Products

Rows == [status : Status, required : BOOLEAN, backlog : BOOLEAN]

ASSUME CrmOrdersAssumption ==
    /\ MaxOrders \in Nat /\ Depth \in Nat /\ Window \in Nat /\ MaxEvents \in Nat
    /\ Pulls \cap Pushes = {}
    /\ Customers \cap Products = {}
    /\ CustomerOf \in [OrderNumbers -> Customers] /\ ProductOf \in [OrderNumbers -> Products]
    /\ Nothing \notin Rows /\ Nothing \notin Status /\ Nothing \notin Keys
    /\ Nothing \notin Nat /\ Nothing \notin BOOLEAN /\ Nothing \notin Pulls \cup Pushes
    /\ Nothing \notin [status : Status, required : BOOLEAN]

VARIABLES
    shared,     \* the CRM and the shop share a schema
    stocked,    \* the products that the CRM has under the shop's number
    names,      \* the customers it has, and the products that pulls have added
    shopOrder,  \* the shop's orders: status and payment_required
    crmRow,     \* the committed copies
    crmItems,   \* who inserted the committed items of each copy
    rowLock,    \* the pull that holds the lock of a written row
    pullPc,     \* idle, select, customer, write, items
    listed,     \* what the shop answered to each pull: the listed statuses
    toDo,       \* the listed keys still to be written
    current,    \* the key a pull is at
    pullSaw,    \* its copy of the row
    written,    \* the rows it has written in its transaction
    deleted,    \* the items it has deleted
    inserted,   \* the names it has inserted
    fresh,      \* those inserted since the last savepoint
    pushPc, pushOf, pushSays, pushSaw,  \* one per push: the order, the body's
                \* payment_required (if it has one) and its copy of the row
    events      \* changes, edits and failures so far

setting == <<shared, stocked>>
crmTables == <<crmRow, crmItems>>
pulls == <<pullPc, listed, toDo, current, pullSaw, written, deleted, inserted, fresh>>
pushes == <<pushPc, pushOf, pushSays, pushSaw>>
crmVars == <<setting, names, shopOrder, crmTables, rowLock, pulls, pushes, events>>

CrmTypeOK ==
    /\ shared \in BOOLEAN
    /\ stocked \in SUBSET Products
    /\ names \in SUBSET Names
    /\ shopOrder \in [OrderNumbers -> [status : Status, required : BOOLEAN] \cup {Nothing}]
    /\ crmRow \in [Keys -> Rows \cup {Nothing}]
    /\ crmItems \in [Keys -> SUBSET (Pulls \cup Pushes)]
    /\ rowLock \in [Keys -> Pulls \cup {Nothing}]
    /\ pullPc \in [Pulls -> {"idle", "select", "customer", "write", "items"}]
    /\ listed \in [Pulls -> [Keys -> Status \cup {Nothing}]]
    /\ toDo \in [Pulls -> SUBSET Keys]
    /\ current \in [Pulls -> Keys \cup {Nothing}]
    /\ pullSaw \in [Pulls -> Rows \cup {Nothing}]
    /\ written \in [Pulls -> [Keys -> Rows \cup {Nothing}]]
    /\ deleted \in [Pulls -> [Keys -> SUBSET (Pulls \cup Pushes)]]
    /\ inserted \in [Pulls -> SUBSET Names]
    /\ fresh \in [Pulls -> SUBSET Names]
    /\ pushPc \in [Pushes -> {"idle", "write", "done"}]
    /\ pushOf \in [Pushes -> OrderNumbers \cup {Nothing}]
    /\ pushSays \in [Pushes -> BOOLEAN \cup {Nothing}]
    /\ pushSaw \in [Pushes -> Rows \cup {Nothing}]
    /\ events \in 0..MaxEvents

Count == events < MaxEvents /\ events' = events + 1

-----------------------------------------------------------------------------
(* The shop *)

\* The next checkout: paid at once or not.
Place(o) ==
    /\ shopOrder[o] = Nothing
    /\ \A n \in 1..(o - 1) : shopOrder[n] # Nothing
    /\ \E paid \in BOOLEAN :
          shopOrder' = [shopOrder EXCEPT ![o] =
                          [status |-> IF paid THEN "paid" ELSE "payment_pending",
                           required |-> ~paid]]
    /\ UNCHANGED <<setting, names, crmTables, rowLock, pulls, pushes, events>>

\* A webhook or an administrator sets the status.
Change(o, s) ==
    /\ shopOrder[o] # Nothing
    /\ Count
    /\ shopOrder' = [shopOrder EXCEPT ![o].status = s]
    /\ UNCHANGED <<setting, names, crmTables, rowLock, pulls, pushes>>

\* The row behind a key, in the table that the shop lists
Source(k) == IF k[2] = 0 THEN shopOrder[k[1]]
             ELSE IF shared THEN crmRow[<<k[1], k[2] - 1>>] ELSE Nothing

\* GET /api/orders for an internal service: every order there is, whosever,
\* the latest first, cut at the limit.  These are the lists it may answer with.
Listed == {k \in Keys : Source(k) # Nothing}
Latest == {list \in SUBSET Listed :
              /\ Cardinality(list) <= Window
              /\ list = Listed \/ Cardinality(list) = Window
              /\ shared \/ \A k \in list, n \in Listed : n[1] > k[1] => n \in list}

-----------------------------------------------------------------------------
(* The ORM *)

\* Faulty variant: the row is written when its backlog column changes.
MergeByBacklog(row, saw, new) == IF new.backlog = saw.backlog THEN row ELSE new

\* Only the columns that differ from the copy that was read are written.
Merge(row, saw, new) ==
    [status |-> IF new.status = saw.status THEN row.status ELSE new.status,
     required |-> IF new.required = saw.required THEN row.required ELSE new.required,
     backlog |-> IF new.backlog = saw.backlog THEN row.backlog ELSE new.backlog]

-----------------------------------------------------------------------------
(* A pull: sync_external_orders *)

\* _fetch_external_orders; a failed one ends the pull before it begins.
Fetch(p) ==
    /\ pullPc[p] = "idle"
    /\ \E list \in Latest :
          /\ toDo' = [toDo EXCEPT ![p] = list]
          /\ listed' = [listed EXCEPT ![p] =
                          [k \in Keys |-> IF k \in list THEN Source(k).status ELSE Nothing]]
    /\ pullPc' = [pullPc EXCEPT ![p] = "select"]
    /\ UNCHANGED <<setting, names, shopOrder, crmTables, rowLock, current, pullSaw, written,
                   deleted, inserted, fresh, pushes, events>>

\* Faulty variant: the orders are taken as they come.
AnyTurn(p) == toDo[p]

\* Whose turn it is: the latest
Turn(p) == {k \in toDo[p] : shared \/ \A other \in toDo[p] : other[1] <= k[1]}

\* The next listed order: _resolve_customer's SELECT, and _upsert_order's if the
\* customer is there.
PullSelect(p) ==
    /\ pullPc[p] = "select"
    /\ \E k \in Turn(p) :
          /\ current' = [current EXCEPT ![p] = k]
          /\ toDo' = [toDo EXCEPT ![p] = @ \ {k}]
          /\ IF CustomerOf[k[1]] \in names \cup inserted[p]
             THEN /\ pullSaw' = [pullSaw EXCEPT ![p] = crmRow[k]]
                  /\ pullPc' = [pullPc EXCEPT ![p] = "write"]
             ELSE /\ pullPc' = [pullPc EXCEPT ![p] = "customer"]
                  /\ UNCHANGED pullSaw
    /\ UNCHANGED <<setting, names, shopOrder, crmTables, rowLock, listed, written, deleted,
                   inserted, fresh, pushes, events>>

\* The name that the next statement of a pull inserts, if it is at an INSERT.
Inserts(p) ==
    CASE pullPc[p] = "customer" -> {CustomerOf[current[p][1]]}
      [] pullPc[p] = "items"    -> {ProductOf[current[p][1]]} \ stocked
      [] OTHER -> {}

\* No other pull has inserted it and not yet committed.
NameFree(p) == \A other \in Pulls \ {p} : Inserts(p) \cap inserted[other] = {}

\* _resolve_customer's INSERT, then _upsert_order's SELECT
InsertCustomer(p) ==
    /\ pullPc[p] = "customer"
    /\ NameFree(p) /\ Inserts(p) \cap names = {}
    /\ inserted' = [inserted EXCEPT ![p] = @ \cup Inserts(p)]
    /\ fresh' = [fresh EXCEPT ![p] = Inserts(p)]
    /\ pullSaw' = [pullSaw EXCEPT ![p] = crmRow[current[p]]]
    /\ pullPc' = [pullPc EXCEPT ![p] = "write"]
    /\ UNCHANGED <<setting, names, shopOrder, crmTables, rowLock, listed, toDo, current,
                   written, deleted, pushes, events>>

\* The payload and the copy of the row have been used.
Used(p) ==
    /\ listed' = [listed EXCEPT ![p][current[p]] = Nothing]
    /\ pullSaw' = [pullSaw EXCEPT ![p] = Nothing]

Pulled(p) == LET s == listed[p][current[p]] IN [status |-> s, backlog |-> s \in Backlog]

\* Faulty variant: only a new row or a changed status is written, and locked.
PullWriteIfChanged(p) ==
    LET k == current[p]
        new == [status |-> Pulled(p).status, required |-> TRUE, backlog |-> Pulled(p).backlog]
    IN  /\ pullPc[p] = "write"
        /\ rowLock[k] = Nothing
        /\ pullSaw[p] = Nothing => crmRow[k] = Nothing
        /\ rowLock' = IF pullSaw[p] # Nothing /\ pullSaw[p].status = new.status
                      THEN rowLock ELSE [rowLock EXCEPT ![k] = p]
        /\ written' = [written EXCEPT ![p][k] =
                         IF pullSaw[p] = Nothing THEN new
                         ELSE Merge(crmRow[k], pullSaw[p],
                                    [new EXCEPT !.required = pullSaw[p].required])]
        /\ pullPc' = [pullPc EXCEPT ![p] = "items"]
        /\ Used(p)
        /\ UNCHANGED <<setting, names, shopOrder, crmTables, toDo, current, deleted,
                       inserted, fresh, pushes, events>>

\* _upsert_order's INSERT, or its UPDATE of status, backlog_status and
\* last_synced_at (which always changes, so that the row is always locked).
PullWrite(p) ==
    LET k == current[p]
        new == [status |-> Pulled(p).status, required |-> TRUE, backlog |-> Pulled(p).backlog]
    IN  /\ pullPc[p] = "write"
        /\ rowLock[k] = Nothing
        /\ pullSaw[p] = Nothing => crmRow[k] = Nothing
        /\ rowLock' = [rowLock EXCEPT ![k] = p]
        /\ written' = [written EXCEPT ![p][k] =
                         IF pullSaw[p] = Nothing THEN new
                         ELSE Merge(crmRow[k], pullSaw[p],
                                    [new EXCEPT !.required = pullSaw[p].required])]
        /\ pullPc' = [pullPc EXCEPT ![p] = "items"]
        /\ Used(p)
        /\ UNCHANGED <<setting, names, shopOrder, crmTables, toDo, current, deleted,
                       inserted, fresh, pushes, events>>

\* On to the next order
NextOrder(p) ==
    /\ pullPc' = [pullPc EXCEPT ![p] = "select"]
    /\ current' = [current EXCEPT ![p] = Nothing]
    /\ fresh' = [fresh EXCEPT ![p] = {}]
    /\ Used(p)

\* Faulty variant: what the savepoint has written is kept.
RollBackLockOnly(p) ==
    /\ rowLock' = [rowLock EXCEPT ![current[p]] = IF @ = p THEN Nothing ELSE @]
    /\ UNCHANGED <<written, inserted>>
    /\ NextOrder(p)

\* The savepoint is rolled back, with what it locked; the pull goes on.
RollBackSavepoint(p) ==
    /\ rowLock' = [rowLock EXCEPT ![current[p]] = IF @ = p THEN Nothing ELSE @]
    /\ written' = [written EXCEPT ![p][current[p]] = Nothing]
    /\ inserted' = [inserted EXCEPT ![p] = @ \ fresh[p]]
    /\ NextOrder(p)

\* Somebody has inserted the row, or the customer, since the SELECT missed it; or
\* the product is there, which the lookup by the shop's number always misses.
PullClash(p) ==
    /\ \/ /\ pullPc[p] = "write" /\ rowLock[current[p]] = Nothing
          /\ pullSaw[p] = Nothing /\ crmRow[current[p]] # Nothing
       \/ NameFree(p) /\ Inserts(p) \cap (names \cup inserted[p]) # {}
    /\ RollBackSavepoint(p)
    /\ UNCHANGED <<setting, names, shopOrder, crmTables, toDo, deleted, pushes, events>>

\* Anything else goes wrong with this order.
PullFails(p) ==
    /\ pullPc[p] \in {"customer", "write", "items"}
    /\ Count
    /\ RollBackSavepoint(p)
    /\ UNCHANGED <<setting, names, shopOrder, crmTables, toDo, deleted, pushes>>

\* A pull waits for the row or the name that another has written.
WaitsFor(p, other) ==
    /\ other # p
    /\ \/ pullPc[p] = "write" /\ rowLock[current[p]] = other
       \/ Inserts(p) \cap inserted[other] # {}
Circle(C) == \A p \in C : \E other \in C : WaitsFor(p, other)

\* The database ends a circle of waits at one of them: its savepoint is rolled
\* back, and it keeps what it has written before.
PullVictim(p) ==
    /\ \E C \in SUBSET Pulls : /\ p \in C /\ Circle(C)
                               /\ \A q \in C : \E x \in C : WaitsFor(x, q)
    /\ RollBackSavepoint(p)
    /\ UNCHANGED <<setting, names, shopOrder, crmTables, toDo, deleted, pushes, events>>

\* _replace_order_items: DELETE; _resolve_product, which inserts a product that
\* the CRM does not have under the shop's number; INSERT
PullItems(p) ==
    /\ pullPc[p] = "items"
    /\ NameFree(p) /\ Inserts(p) \cap (names \cup inserted[p]) = {}
    /\ inserted' = [inserted EXCEPT ![p] = @ \cup Inserts(p)]
    /\ deleted' = [deleted EXCEPT ![p][current[p]] = crmItems[current[p]]]
    /\ NextOrder(p)
    /\ UNCHANGED <<setting, names, shopOrder, crmTables, rowLock, toDo, written, pushes, events>>

PullOver(p) ==
    /\ pullPc' = [pullPc EXCEPT ![p] = "idle"]
    /\ rowLock' = [k \in Keys |-> IF rowLock[k] = p THEN Nothing ELSE rowLock[k]]
    /\ listed' = [listed EXCEPT ![p] = [k \in Keys |-> Nothing]]
    /\ toDo' = [toDo EXCEPT ![p] = {}]
    /\ current' = [current EXCEPT ![p] = Nothing]
    /\ pullSaw' = [pullSaw EXCEPT ![p] = Nothing]
    /\ written' = [written EXCEPT ![p] = [k \in Keys |-> Nothing]]
    /\ deleted' = [deleted EXCEPT ![p] = [k \in Keys |-> {}]]
    /\ inserted' = [inserted EXCEPT ![p] = {}]
    /\ fresh' = [fresh EXCEPT ![p] = {}]

PullCommit(p) ==
    /\ pullPc[p] = "select" /\ toDo[p] = {}
    /\ crmRow' = [k \in Keys |-> IF written[p][k] = Nothing THEN crmRow[k] ELSE written[p][k]]
    /\ crmItems' = [k \in Keys |-> IF written[p][k] = Nothing THEN crmItems[k]
                                   ELSE (crmItems[k] \ deleted[p][k]) \cup {p}]
    /\ names' = names \cup inserted[p]
    /\ PullOver(p)
    /\ UNCHANGED <<setting, shopOrder, pushes, events>>

\* The pod dies, or the commit fails.
PullLost(p) ==
    /\ pullPc[p] # "idle"
    /\ Count
    /\ PullOver(p)
    /\ UNCHANGED <<setting, names, shopOrder, crmTables, pushes>>

-----------------------------------------------------------------------------
(* A push: create_order *)

\* _apply_payment_metadata; backlog_status is left alone.
Applied(q, row) ==
    LET required == IF pushSays[q] = Nothing THEN row.required ELSE pushSays[q]
    IN  [status |-> IF required THEN "payment_pending" ELSE "paid",
         required |-> required, backlog |-> row.backlog]

\* _ensure_crm_customer, in a transaction of its own
PushCustomer(q, o) ==
    /\ pushPc[q] = "idle"
    /\ shopOrder[o] # Nothing
    /\ CustomerOf[o] \notin names /\ \A p \in Pulls : CustomerOf[o] \notin inserted[p]
    /\ names' = names \cup {CustomerOf[o]}
    /\ UNCHANGED <<setting, shopOrder, crmTables, rowLock, pulls, pushes, events>>

\* sync_order_to_crm says whether payment is required, the asynchronous
\* worker's body does not; either may come late and more than once.  SELECT.
PushSelect(q, o) ==
    /\ pushPc[q] = "idle"
    /\ shopOrder[o] # Nothing /\ CustomerOf[o] \in names
    /\ \E says \in {shopOrder[o].required, Nothing} : pushSays' = [pushSays EXCEPT ![q] = says]
    /\ pushOf' = [pushOf EXCEPT ![q] = o]
    /\ pushSaw' = [pushSaw EXCEPT ![q] = crmRow[<<o, 0>>]]
    /\ pushPc' = [pushPc EXCEPT ![q] = "write"]
    /\ UNCHANGED <<setting, names, shopOrder, crmTables, rowLock, pulls, events>>

PushOver(q) ==
    /\ pushPc' = [pushPc EXCEPT ![q] = "done"]
    /\ pushOf' = [pushOf EXCEPT ![q] = Nothing]
    /\ pushSays' = [pushSays EXCEPT ![q] = Nothing]
    /\ pushSaw' = [pushSaw EXCEPT ![q] = Nothing]

\* The row was there: UPDATE, unless nothing changed, and COMMIT.
PushUpdate(q) ==
    LET k == <<pushOf[q], 0>>
        new == Applied(q, pushSaw[q])
    IN  /\ pushPc[q] = "write"
        /\ pushSaw[q] # Nothing
        /\ new # pushSaw[q] => rowLock[k] = Nothing
        /\ crmRow' = [crmRow EXCEPT ![k] = Merge(crmRow[k], pushSaw[q], new)]
        /\ PushOver(q)
        /\ UNCHANGED <<setting, names, shopOrder, crmItems, rowLock, pulls, events>>

\* It was not: INSERT of the order and its items, and COMMIT.
PushInsert(q) ==
    LET k == <<pushOf[q], 0>>
    IN  /\ pushPc[q] = "write"
        /\ pushSaw[q] = Nothing
        /\ rowLock[k] = Nothing /\ crmRow[k] = Nothing
        /\ crmRow' = [crmRow EXCEPT ![k] = Applied(q, [required |-> TRUE, backlog |-> TRUE])]
        /\ crmItems' = [crmItems EXCEPT ![k] = {q}]
        /\ PushOver(q)
        /\ UNCHANGED <<setting, names, shopOrder, rowLock, pulls, events>>

\* IntegrityError: somebody else has inserted it.  ROLLBACK, and SELECT again.
PushReselect(q) ==
    LET k == <<pushOf[q], 0>>
    IN  /\ pushPc[q] = "write"
        /\ pushSaw[q] = Nothing
        /\ rowLock[k] = Nothing /\ crmRow[k] # Nothing
        /\ pushSaw' = [pushSaw EXCEPT ![q] = crmRow[k]]
        /\ UNCHANGED <<setting, names, shopOrder, crmTables, rowLock, pulls, pushPc, pushOf,
                       pushSays, events>>

PushLost(q) ==
    /\ pushPc[q] = "write"
    /\ PushOver(q)
    /\ UNCHANGED <<setting, names, shopOrder, crmTables, rowLock, pulls, events>>

-----------------------------------------------------------------------------
(* A user: update_order_status, its SELECT and UPDATE taken as one step; on *)
(* the shared schema the shop's administrator may set the status of a copy  *)

Edit(k, s) ==
    /\ crmRow[k] # Nothing
    /\ rowLock[k] = Nothing
    /\ Count
    /\ \E backlog \in {s \in Backlog} \cup (IF shared THEN {crmRow[k].backlog} ELSE {}) :
          crmRow' = [crmRow EXCEPT ![k].status = s, ![k].backlog = backlog]
    /\ UNCHANGED <<setting, names, shopOrder, crmItems, rowLock, pulls, pushes>>

\* On the shared schema the customers and products of the orders are there.
CrmInit ==
    /\ shared \in BOOLEAN
    /\ stocked \in SUBSET Products /\ names \in SUBSET Customers
    /\ shared => stocked = Products /\ names = Customers
    /\ shopOrder = [o \in OrderNumbers |-> Nothing]
    /\ crmRow = [k \in Keys |-> Nothing]
    /\ crmItems = [k \in Keys |-> {}]
    /\ rowLock = [k \in Keys |-> Nothing]
    /\ pullPc = [p \in Pulls |-> "idle"]
    /\ listed = [p \in Pulls |-> [k \in Keys |-> Nothing]]
    /\ toDo = [p \in Pulls |-> {}]
    /\ current = [p \in Pulls |-> Nothing]
    /\ pullSaw = [p \in Pulls |-> Nothing]
    /\ written = [p \in Pulls |-> [k \in Keys |-> Nothing]]
    /\ deleted = [p \in Pulls |-> [k \in Keys |-> {}]]
    /\ inserted = [p \in Pulls |-> {}]
    /\ fresh = [p \in Pulls |-> {}]
    /\ pushPc = [q \in Pushes |-> "idle"]
    /\ pushOf = [q \in Pushes |-> Nothing]
    /\ pushSays = [q \in Pushes |-> Nothing]
    /\ pushSaw = [q \in Pushes |-> Nothing]
    /\ events = 0

PullStep(p) ==
    \/ PullSelect(p) \/ InsertCustomer(p) \/ PullWrite(p) \/ PullClash(p) \/ PullVictim(p)
    \/ PullItems(p) \/ PullCommit(p)
PushStep(q) == PushUpdate(q) \/ PushInsert(q) \/ PushReselect(q)

CrmNext ==
    \/ \E o \in OrderNumbers : Place(o) \/ \E s \in Statuses \cup {"paid"} : Change(o, s)
    \/ \E p \in Pulls : Fetch(p) \/ PullStep(p) \/ PullFails(p) \/ PullLost(p)
    \/ \E q \in Pushes : PushStep(q) \/ PushLost(q)
    \/ \E q \in Pushes, o \in OrderNumbers : PushCustomer(q, o) \/ PushSelect(q, o)
    \/ \E k \in Keys, s \in Statuses : Edit(k, s)

CrmSpec == CrmInit /\ [][CrmNext]_crmVars

-----------------------------------------------------------------------------
(* Properties *)

\* Every copy has exactly one set of items, whoever inserted the row and
\* whichever pulls have replaced its items since, at the same time or not.
OneSetOfItems ==
    \A k \in Keys : IF crmRow[k] = Nothing THEN crmItems[k] = {}
                    ELSE \E who \in Pulls \cup Pushes : crmItems[k] = {who}

\* A name is inserted by one pull at a time, and none that is there already.
NamesAreOnce ==
    \A p \in Pulls :
        /\ inserted[p] \cap names = {}
        /\ fresh[p] \subseteq inserted[p]
        /\ \A other \in Pulls \ {p} : inserted[p] \cap inserted[other] = {}

\* What makes it so: a pull holds the lock of each row it has written, what it
\* has deleted is all there was and stays all there is, and rows do not go away.
\* In a database of its own the orders still to be written are older than those
\* it holds.
PullHolds(p) ==
    /\ pullPc[p] = "idle" => toDo[p] = {}
    /\ \A k \in Keys :
          /\ (rowLock[k] = p) = (written[p][k] # Nothing)
          /\ rowLock[k] = p =>
                /\ pullPc[p] # "idle"
                /\ \A other \in toDo[p] : other # k /\ (shared \/ other[1] < k[1])
                /\ pullPc[p] \in {"customer", "write"} =>
                      current[p] # k /\ (shared \/ current[p][1] < k[1])
                /\ deleted[p][k] = crmItems[k] \/ (pullPc[p] = "items" /\ current[p] = k)
PullKnows(p) ==
    /\ \A k \in toDo[p] : listed[p][k] # Nothing /\ (shared \/ k[2] = 0)
    /\ pullPc[p] \in {"customer", "write", "items"} =>
          /\ current[p] # Nothing
          /\ \A other \in toDo[p] : other # current[p] /\ (shared \/ other[1] < current[p][1])
    /\ pullPc[p] \in {"customer", "write"} =>
          listed[p][current[p]] # Nothing
    /\ pullPc[p] = "write" /\ pullSaw[p] # Nothing => crmRow[current[p]] # Nothing
    /\ pullPc[p] = "items" => rowLock[current[p]] = p
PushKnows(q) ==
    pushPc[q] = "write" =>
        /\ pushOf[q] # Nothing
        /\ pushSaw[q] # Nothing => crmRow[<<pushOf[q], 0>>] # Nothing
CrmIInv ==
    /\ CrmTypeOK /\ OneSetOfItems /\ NamesAreOnce
    /\ \A p \in Pulls : PullHolds(p) /\ PullKnows(p)
    /\ \A q \in Pushes : PushKnows(q)

\* A pull waits at a key for a lock that another one holds.
WaitsAt(p, k) == pullPc[p] = "write" /\ current[p] = k /\ rowLock[k] # Nothing

\* At the rows of orders pulls on a database of their own wait downwards: the one
\* that is waited for waits, if at such a row, at an older order.
WaitsDescend ==
    ~shared => \A p \in Pulls, k, older \in Keys :
                  WaitsAt(p, k) /\ WaitsAt(rowLock[k], older) => older[1] < k[1]

\* So pulls do not wait for each other in a circle, unless one of them is there to
\* insert a customer or a product that the CRM did not have.
CirclesAreAboutNames ==
    ~shared => \A C \in SUBSET Pulls : C # {} /\ Circle(C) => \E p \in C : Inserts(p) # {}

\* A copy shows what the shop shows.
Agrees(o) ==
    LET row == crmRow[<<o, 0>>]
    IN  /\ row # Nothing
        /\ row.status = shopOrder[o].status
        /\ row.backlog = (row.status \in Backlog)

\* In a database of its own, no order for a product that the CRM has is among the
\* latest Window for ever and its copy wrong for ever: however pushes, users and
\* overlapping pulls have left it, deadlocks among these included, once they and
\* the shop are done the next pull brings it back.
CopiesConverge ==
    \A o \in OrderNumbers :
        <>[](/\ ~shared /\ ProductOf[o] \in stocked
             /\ \A list \in Latest : <<o, 0>> \in list
             => Agrees(o))
-----------------------------------------------------------------------------
\* _orders_sync_loop pulls for ever, and the database answers in the end.
CrmFairSpec ==
    /\ CrmSpec
    /\ \A p \in Pulls : WF_crmVars(Fetch(p)) /\ WF_crmVars(PullStep(p))
=============================================================================
