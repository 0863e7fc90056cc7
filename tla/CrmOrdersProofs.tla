---------------------------- MODULE CrmOrdersProofs ----------------------------
(***************************************************************************)
(* The CRM's copies, for any number of orders, pulls and pushes: CrmIInv   *)
(* is inductive, and with it no copy ever has two sets of items, and on a  *)
(* database of the CRM's own pulls do not wait for each other in a circle  *)
(* but about the customers and products that they insert.                  *)
(***************************************************************************)
EXTENDS CrmOrders, InductionLemmas

\* Rows are only inserted and written, never deleted, and the schema stays what
\* it is.
RowsStay == shared' = shared /\ \A k \in Keys : crmRow[k] # Nothing => crmRow'[k] # Nothing

\* Pull x's own variables stay.
OwnStay(x) ==
    /\ pullPc'[x] = pullPc[x] /\ listed'[x] = listed[x] /\ toDo'[x] = toDo[x]
    /\ current'[x] = current[x] /\ pullSaw'[x] = pullSaw[x]
    /\ written'[x] = written[x] /\ deleted'[x] = deleted[x]

\* It holds the locks it held, and the items of what it holds stay.
HeldStay(x) ==
    \A k \in Keys :
        /\ (rowLock'[k] = x) = (rowLock[k] = x)
        /\ rowLock[k] = x => crmItems'[k] = crmItems[k]

-----------------------------------------------------------------------------
(* Types, element by element *)

LEMMA KeyFacts ==
    ASSUME NEW k \in Keys
    PROVE  /\ k[1] \in OrderNumbers /\ k[1] \in Nat /\ k[2] \in 0..Depth
           /\ k = <<k[1], k[2]>>
  BY CrmOrdersAssumption DEF Keys, OrderNumbers

LEMMA OrderFacts ==
    ASSUME CrmTypeOK, NEW k \in Keys
    PROVE  /\ crmRow[k] \in Rows \cup {Nothing}
           /\ crmItems[k] \in SUBSET (Pulls \cup Pushes)
           /\ rowLock[k] \in Pulls \cup {Nothing}
  BY DEF CrmTypeOK

LEMMA ShopFacts ==
    ASSUME CrmTypeOK, NEW o \in OrderNumbers
    PROVE  shopOrder[o] \in [status : Status, required : BOOLEAN] \cup {Nothing}
  BY DEF CrmTypeOK

LEMMA PushedKey == \A o \in OrderNumbers : <<o, 0>> \in Keys
  BY CrmOrdersAssumption DEF Keys

LEMMA ListedFacts ==
    ASSUME CrmTypeOK, NEW k \in Keys, Source(k) # Nothing
    PROVE  Source(k).status \in Status /\ (shared \/ k[2] = 0)
  <1>1. CASE k[2] = 0
    BY <1>1, KeyFacts, ShopFacts DEF Source
  <1>2. CASE k[2] # 0
    <2>1. shared /\ Source(k) = crmRow[<<k[1], k[2] - 1>>]
      BY <1>2 DEF Source
    <2>2. <<k[1], k[2] - 1>> \in Keys
      BY <1>2, KeyFacts, CrmOrdersAssumption DEF Keys
    <2> QED
      BY <2>1, <2>2, OrderFacts DEF Rows
  <1> QED
    BY <1>1, <1>2

LEMMA PullFacts ==
    ASSUME CrmTypeOK, NEW p \in Pulls
    PROVE  /\ pullPc[p] \in {"idle", "select", "customer", "write", "items"}
           /\ listed[p] \in [Keys -> Status \cup {Nothing}]
           /\ toDo[p] \in SUBSET Keys
           /\ current[p] \in Keys \cup {Nothing}
           /\ pullSaw[p] \in Rows \cup {Nothing}
           /\ written[p] \in [Keys -> Rows \cup {Nothing}]
           /\ deleted[p] \in [Keys -> SUBSET (Pulls \cup Pushes)]
  BY DEF CrmTypeOK

LEMMA PushFacts ==
    ASSUME CrmTypeOK, NEW q \in Pushes
    PROVE  /\ pushPc[q] \in {"idle", "write", "done"}
           /\ pushOf[q] \in OrderNumbers \cup {Nothing}
           /\ pushSays[q] \in BOOLEAN \cup {Nothing}
           /\ pushSaw[q] \in Rows \cup {Nothing}
  BY DEF CrmTypeOK

\* Nothing is no pull, no row and no order's number.
LEMMA NothingElse ==
    /\ Nothing \notin Pulls /\ Nothing \notin Rows /\ Nothing \notin Keys
    /\ Nothing \notin OrderNumbers
  BY CrmOrdersAssumption DEF OrderNumbers

\* What the ORM writes back is a row.
LEMMA MergeRow ==
    ASSUME NEW row \in Rows, NEW saw \in Rows, NEW new \in Rows
    PROVE  Merge(row, saw, new) \in Rows
  BY DEF Merge, Rows

\* What a push makes of a row it knows, or of a new one, is a row.
LEMMA AppliedRow ==
    ASSUME CrmTypeOK, NEW q \in Pushes, NEW row,
           row.required \in BOOLEAN, row.backlog \in BOOLEAN
    PROVE  Applied(q, row) \in Rows
  <1> DEFINE required == IF pushSays[q] = Nothing THEN row.required ELSE pushSays[q]
  <1>1. required \in BOOLEAN
    BY PushFacts
  <1>2. (IF required THEN "payment_pending" ELSE "paid") \in Status
    BY DEF Status
  <1> QED
    BY <1>1, <1>2 DEF Applied, Rows

-----------------------------------------------------------------------------
(* What a step leaves alone stays known *)

LEMMA OtherPulls ==
    ASSUME CrmIInv, NEW x \in Pulls, OwnStay(x), HeldStay(x), RowsStay
    PROVE  PullHolds(x)' /\ PullKnows(x)'
  <1>1. PullHolds(x) /\ PullKnows(x) /\ current[x] \in Keys \cup {Nothing}
    BY PullFacts DEF CrmIInv
  <1>2. PullHolds(x)'
    BY <1>1 DEF PullHolds, OwnStay, HeldStay, RowsStay
  <1>3. PullKnows(x)'
    BY <1>1 DEF PullKnows, OwnStay, HeldStay, RowsStay
  <1> QED
    BY <1>2, <1>3

LEMMA PullsUntouched ==
    ASSUME CrmIInv, UNCHANGED <<rowLock, pulls>>, RowsStay,
           \A k \in Keys : rowLock[k] # Nothing => crmItems'[k] = crmItems[k]
    PROVE  \A x \in Pulls : PullHolds(x)' /\ PullKnows(x)'
  <1> SUFFICES ASSUME NEW x \in Pulls PROVE PullHolds(x)' /\ PullKnows(x)'
    OBVIOUS
  <1>1. OwnStay(x)
    BY DEF OwnStay, pulls
  <1>2. HeldStay(x)
    BY NothingElse DEF HeldStay
  <1> QED
    BY <1>1, <1>2, OtherPulls

LEMMA NamesUntouched ==
    ASSUME CrmIInv, UNCHANGED <<names, inserted, fresh>>
    PROVE  NamesAreOnce'
  BY DEF CrmIInv, NamesAreOnce

LEMMA PushesUntouched ==
    ASSUME CrmIInv, UNCHANGED pushes, RowsStay
    PROVE  \A q \in Pushes : PushKnows(q)'
  BY PushFacts, PushedKey DEF CrmIInv, PushKnows, pushes, RowsStay

\* A push changes no more than its own state.
LEMMA OtherPushes ==
    ASSUME CrmIInv, RowsStay, NEW q \in Pushes,
           \A x \in Pushes \ {q} :
               pushPc'[x] = pushPc[x] /\ pushOf'[x] = pushOf[x] /\ pushSaw'[x] = pushSaw[x]
    PROVE  \A x \in Pushes \ {q} : PushKnows(x)'
  BY PushFacts, PushedKey DEF CrmIInv, PushKnows, RowsStay

-----------------------------------------------------------------------------
(* The shop and the CRM's users *)

LEMMA InitOK == CrmInit => CrmIInv
  <1> SUFFICES ASSUME CrmInit PROVE CrmIInv
    OBVIOUS
  <1>1. CrmTypeOK
    <2>1. shared \in BOOLEAN /\ stocked \in SUBSET Products /\ names \in SUBSET Names
      BY DEF CrmInit, Names
    <2>2. /\ inserted \in [Pulls -> SUBSET Names] /\ fresh \in [Pulls -> SUBSET Names]
          /\ crmItems \in [Keys -> SUBSET (Pulls \cup Pushes)]
          /\ toDo \in [Pulls -> SUBSET Keys]
          /\ deleted \in [Pulls -> [Keys -> SUBSET (Pulls \cup Pushes)]]
      BY DEF CrmInit
    <2>3. events \in 0..MaxEvents
      BY CrmOrdersAssumption DEF CrmInit
    <2> QED
      BY <2>1, <2>2, <2>3 DEF CrmInit, CrmTypeOK
  <1>2. OneSetOfItems
    BY DEF CrmInit, OneSetOfItems
  <1>3. \A p \in Pulls : PullHolds(p) /\ PullKnows(p)
    BY NothingElse DEF CrmInit, PullHolds, PullKnows
  <1>4. \A q \in Pushes : PushKnows(q)
    BY DEF CrmInit, PushKnows
  <1>5. NamesAreOnce
    BY DEF CrmInit, NamesAreOnce
  <1> QED
    BY <1>1, <1>2, <1>3, <1>4, <1>5 DEF CrmIInv

LEMMA PlaceOK ==
    ASSUME CrmIInv, NEW o \in OrderNumbers, Place(o)
    PROVE  CrmIInv'
  <1>1. CrmTypeOK'
    <2>1. \A paid \in BOOLEAN :
            [status |-> IF paid THEN "paid" ELSE "payment_pending", required |-> ~paid]
              \in [status : Status, required : BOOLEAN]
      BY DEF Status
    <2>2. shopOrder' \in [OrderNumbers -> [status : Status, required : BOOLEAN] \cup {Nothing}]
      BY <2>1 DEF Place, CrmIInv, CrmTypeOK
    <2> QED
      BY <2>2 DEF Place, CrmIInv, CrmTypeOK, crmTables, pulls, pushes, setting
  <1>2. OneSetOfItems'
    BY DEF Place, CrmIInv, OneSetOfItems, crmTables, setting
  <1>3. RowsStay /\ UNCHANGED <<names, rowLock, pulls, pushes, crmItems>>
    BY DEF Place, RowsStay, crmTables, setting
  <1> QED
    BY <1>1, <1>2, <1>3, PullsUntouched, PushesUntouched, NamesUntouched DEF CrmIInv, pulls

LEMMA ChangeOK ==
    ASSUME CrmIInv, NEW o \in OrderNumbers, NEW s \in Statuses \cup {"paid"}, Change(o, s)
    PROVE  CrmIInv'
  <1>1. CrmTypeOK'
    <2>1. shopOrder' \in [OrderNumbers -> [status : Status, required : BOOLEAN] \cup {Nothing}]
      BY DEF Change, CrmIInv, CrmTypeOK, Status
    <2>2. events' \in 0..MaxEvents
      BY CrmOrdersAssumption DEF Change, Count, CrmIInv, CrmTypeOK
    <2> QED
      BY <2>1, <2>2 DEF Change, CrmIInv, CrmTypeOK, crmTables, pulls, pushes, setting
  <1>2. OneSetOfItems'
    BY DEF Change, CrmIInv, OneSetOfItems, crmTables, setting
  <1>3. RowsStay /\ UNCHANGED <<names, rowLock, pulls, pushes, crmItems>>
    BY DEF Change, RowsStay, crmTables, setting
  <1> QED
    BY <1>1, <1>2, <1>3, PullsUntouched, PushesUntouched, NamesUntouched DEF CrmIInv, pulls

LEMMA EditOK ==
    ASSUME CrmIInv, NEW k \in Keys, NEW s \in Statuses, Edit(k, s)
    PROVE  CrmIInv'
  <1>1. PICK backlog \in {s \in Backlog} \cup (IF shared THEN {crmRow[k].backlog} ELSE {}) :
          crmRow' = [crmRow EXCEPT ![k] = [crmRow[k] EXCEPT !.status = s,
                                                           !.backlog = backlog]]
    BY DEF Edit, CrmIInv, CrmTypeOK
  <1>2. crmRow[k] \in Rows /\ backlog \in BOOLEAN
    <2>1. crmRow[k] \in Rows
      BY OrderFacts DEF Edit, CrmIInv
    <2>2. (s \in Backlog) \in BOOLEAN /\ crmRow[k].backlog \in BOOLEAN
      BY <2>1 DEF Rows
    <2> QED
      BY <2>1, <2>2
  <1>3. [crmRow[k] EXCEPT !.status = s, !.backlog = backlog] \in Rows
    BY <1>2 DEF Rows, Status
  <1>4. CrmTypeOK'
    <2>1. crmRow' \in [Keys -> Rows \cup {Nothing}]
      BY <1>1, <1>3 DEF CrmIInv, CrmTypeOK
    <2>2. events' \in 0..MaxEvents
      BY CrmOrdersAssumption DEF Edit, Count, CrmIInv, CrmTypeOK
    <2> QED
      BY <2>1, <2>2 DEF Edit, CrmIInv, CrmTypeOK, pulls, pushes, setting
  <1>5. \A n \in Keys : (crmRow'[n] = Nothing) = (crmRow[n] = Nothing)
    BY <1>1, <1>2, <1>3, NothingElse DEF CrmIInv, CrmTypeOK
  <1>6. OneSetOfItems'
    BY <1>5 DEF Edit, CrmIInv, OneSetOfItems
  <1>7. RowsStay /\ UNCHANGED <<names, rowLock, pulls, pushes, crmItems>>
    BY <1>5 DEF Edit, RowsStay, setting
  <1> QED
    BY <1>4, <1>6, <1>7, PullsUntouched, PushesUntouched, NamesUntouched DEF CrmIInv, pulls

-----------------------------------------------------------------------------
(* A pull *)

\* What a step of pull p means for the others, and for the pushes.
LEMMA OnlyPull ==
    ASSUME CrmIInv, NEW p \in Pulls, RowsStay, UNCHANGED pushes,
           \A x \in Pulls \ {p} : OwnStay(x) /\ HeldStay(x),
           CrmTypeOK', OneSetOfItems', NamesAreOnce', PullHolds(p)', PullKnows(p)'
    PROVE  CrmIInv'
  <1>1. \A x \in Pulls : PullHolds(x)' /\ PullKnows(x)'
    BY OtherPulls
  <1> QED
    BY <1>1, PushesUntouched DEF CrmIInv

LEMMA FetchOK ==
    ASSUME CrmIInv, NEW p \in Pulls, Fetch(p)
    PROVE  CrmIInv'
  <1>1. PICK list \in Latest :
          /\ toDo' = [toDo EXCEPT ![p] = list]
          /\ listed' = [listed EXCEPT ![p] =
                          [k \in Keys |-> IF k \in list THEN Source(k).status ELSE Nothing]]
    BY DEF Fetch
  <1> DEFINE answer == [k \in Keys |-> IF k \in list THEN Source(k).status ELSE Nothing]
  <1>2. list \subseteq Keys /\ \A k \in list : Source(k) # Nothing
    BY DEF Latest, Listed
  <1>3. \A k \in list : Source(k).status \in Status /\ (shared \/ k[2] = 0)
    BY <1>2, ListedFacts DEF CrmIInv
  <1>4. answer \in [Keys -> Status \cup {Nothing}]
    BY <1>3
  <1>5. listed' = [listed EXCEPT ![p] = answer]
    BY <1>1
  <1>6. \A k \in list : answer[k] # Nothing
    BY <1>2, <1>3, CrmOrdersAssumption DEF Status
  <1> HIDE DEF answer
  <1>7. CrmTypeOK'
    BY <1>1, <1>2, <1>4, <1>5 DEF Fetch, CrmIInv, CrmTypeOK, crmTables, pushes, setting
  <1>8. OneSetOfItems' /\ RowsStay
    BY DEF Fetch, CrmIInv, OneSetOfItems, RowsStay, crmTables, setting
  <1>9. \A x \in Pulls \ {p} : OwnStay(x) /\ HeldStay(x)
    BY <1>1 DEF Fetch, OwnStay, HeldStay, CrmIInv, CrmTypeOK, crmTables
  <1>10. /\ pullPc[p] = "idle" /\ pullPc'[p] = "select" /\ toDo'[p] = list
         /\ listed'[p] = answer /\ UNCHANGED <<shared, rowLock, written, crmItems>>
    BY <1>1, <1>5 DEF Fetch, CrmIInv, CrmTypeOK, crmTables, setting
  <1>11. PullHolds(p)'
    <2>1. \A k \in Keys : rowLock[k] # p /\ written[p][k] = Nothing
      BY <1>10 DEF CrmIInv, PullHolds
    <2> QED
      BY <1>10, <2>1 DEF PullHolds
  <1>12. PullKnows(p)'
    BY <1>3, <1>6, <1>10 DEF PullKnows
  <1>13. NamesAreOnce'
    BY NamesUntouched DEF Fetch
  <1> QED
    BY <1>7, <1>8, <1>9, <1>11, <1>12, <1>13, OnlyPull DEF Fetch

LEMMA PullSelectOK ==
    ASSUME CrmIInv, NEW p \in Pulls, PullSelect(p)
    PROVE  CrmIInv'
  <1>1. PICK k \in toDo[p] :
          /\ shared \/ \A other \in toDo[p] : other[1] <= k[1]
          /\ current' = [current EXCEPT ![p] = k]
          /\ toDo' = [toDo EXCEPT ![p] = @ \ {k}]
          /\ \/ /\ pullSaw' = [pullSaw EXCEPT ![p] = crmRow[k]]
                /\ pullPc' = [pullPc EXCEPT ![p] = "write"]
             \/ /\ pullPc' = [pullPc EXCEPT ![p] = "customer"]
                /\ UNCHANGED pullSaw
    BY DEF PullSelect, Turn
  <1>2. k \in Keys /\ toDo[p] \subseteq Keys
    BY PullFacts DEF CrmIInv
  <1>3. CrmTypeOK'
    BY <1>1, <1>2, OrderFacts DEF PullSelect, CrmIInv, CrmTypeOK, crmTables, pushes, setting
  <1>4. OneSetOfItems' /\ RowsStay
    BY DEF PullSelect, CrmIInv, OneSetOfItems, RowsStay, crmTables, setting
  <1>5. \A x \in Pulls \ {p} : OwnStay(x) /\ HeldStay(x)
    BY <1>1 DEF PullSelect, OwnStay, HeldStay, CrmIInv, CrmTypeOK, crmTables
  <1>6. /\ pullPc[p] = "select" /\ pullPc'[p] \in {"customer", "write"}
        /\ toDo'[p] = toDo[p] \ {k} /\ current'[p] = k
        /\ pullPc'[p] = "write" => pullSaw'[p] = crmRow[k]
        /\ UNCHANGED <<shared, rowLock, written, deleted, listed, crmItems, crmRow>>
    BY <1>1 DEF PullSelect, CrmIInv, CrmTypeOK, crmTables, setting
  <1>7. PullHolds(p) /\ PullKnows(p)
    BY DEF CrmIInv
  <1>8. PullHolds(p)'
    BY <1>1, <1>6, <1>7 DEF PullHolds
  <1>9. \A other \in toDo[p] \ {k} : other # k /\ (shared \/ other[1] < k[1])
    <2> SUFFICES ASSUME NEW other \in toDo[p] \ {k}, ~shared PROVE other[1] < k[1]
      OBVIOUS
    <2>1. k[2] = 0 /\ other[2] = 0 /\ other[1] <= k[1]
      BY <1>1, <1>7 DEF PullKnows
    <2> QED
      BY <1>2, <2>1, KeyFacts
  <1>10. PullKnows(p)'
    BY <1>1, <1>2, <1>6, <1>7, <1>9, NothingElse DEF PullKnows
  <1>11. NamesAreOnce'
    BY NamesUntouched DEF PullSelect
  <1> QED
    BY <1>3, <1>4, <1>5, <1>8, <1>10, <1>11, OnlyPull DEF PullSelect

\* The name at whose INSERT a pull is, is one; nobody else has it, nor the CRM.
LEMMA InsertsName ==
    ASSUME CrmIInv, NEW p \in Pulls, NameFree(p), Inserts(p) \cap names = {},
           names' = names, inserted' = [inserted EXCEPT ![p] = @ \cup Inserts(p)],
           fresh'[p] \subseteq inserted'[p], \A x \in Pulls \ {p} : fresh'[x] = fresh[x]
    PROVE  NamesAreOnce' /\ inserted' \in [Pulls -> SUBSET Names]
  <1>1. Inserts(p) \subseteq Names
    <2>1. pullPc[p] \in {"customer", "items"} => current[p] \in Keys
      BY PullFacts DEF CrmIInv, PullKnows
    <2> QED
      BY <2>1, KeyFacts, CrmOrdersAssumption DEF Inserts, Names
  <1>2. inserted' \in [Pulls -> SUBSET Names]
    BY <1>1 DEF CrmIInv, CrmTypeOK
  <1>3. /\ inserted'[p] = inserted[p] \cup Inserts(p)
        /\ \A x \in Pulls \ {p} : inserted'[x] = inserted[x]
    BY DEF CrmIInv, CrmTypeOK
  <1>4. \A x \in Pulls \ {p} : Inserts(p) \cap inserted[x] = {}
    BY DEF NameFree
  <1>5. NamesAreOnce
    BY DEF CrmIInv
  <1>6. \A x \in Pulls : inserted'[x] \cap names = {} /\ fresh'[x] \subseteq inserted'[x]
    BY <1>3, <1>5 DEF NamesAreOnce
  <1>7. \A x \in Pulls, y \in Pulls : x # y => inserted'[x] \cap inserted'[y] = {}
    BY <1>3, <1>4, <1>5 DEF NamesAreOnce
  <1>8. NamesAreOnce'
    BY <1>6, <1>7 DEF NamesAreOnce
  <1> QED
    BY <1>2, <1>8

LEMMA InsertCustomerOK ==
    ASSUME CrmIInv, NEW p \in Pulls, InsertCustomer(p)
    PROVE  CrmIInv'
  <1> DEFINE k == current[p]
  <1>1. /\ pullPc[p] = "customer" /\ pullPc' = [pullPc EXCEPT ![p] = "write"]
        /\ pullSaw' = [pullSaw EXCEPT ![p] = crmRow[k]]
        /\ inserted' = [inserted EXCEPT ![p] = @ \cup Inserts(p)]
        /\ fresh' = [fresh EXCEPT ![p] = Inserts(p)]
        /\ UNCHANGED <<setting, names, shopOrder, crmRow, crmItems, rowLock, listed, toDo,
                       current, written, deleted, pushes, events>>
    BY DEF InsertCustomer, crmTables
  <1>2. k \in Keys /\ PullHolds(p) /\ PullKnows(p)
    BY <1>1, PullFacts DEF CrmIInv, PullKnows
  <1>3. NamesAreOnce' /\ inserted' \in [Pulls -> SUBSET Names]
    <2>1. fresh'[p] \subseteq inserted'[p] /\ \A x \in Pulls \ {p} : fresh'[x] = fresh[x]
      BY <1>1 DEF CrmIInv, CrmTypeOK
    <2> QED
      BY <1>1, <2>1, InsertsName DEF InsertCustomer
  <1>4. fresh' \in [Pulls -> SUBSET Names]
    <2>1. Inserts(p) \subseteq Names
      BY <1>1, <1>3 DEF CrmIInv, CrmTypeOK
    <2> QED
      BY <1>1, <2>1 DEF CrmIInv, CrmTypeOK
  <1>5. CrmTypeOK'
    BY <1>1, <1>2, <1>3, <1>4, OrderFacts DEF CrmIInv, CrmTypeOK, pushes, setting
  <1>6. OneSetOfItems' /\ RowsStay
    BY <1>1 DEF CrmIInv, OneSetOfItems, RowsStay, setting
  <1>7. \A x \in Pulls \ {p} : OwnStay(x) /\ HeldStay(x)
    BY <1>1 DEF OwnStay, HeldStay, CrmIInv, CrmTypeOK
  <1>8. pullPc'[p] = "write" /\ pullSaw'[p] = crmRow[k] /\ shared' = shared
    BY <1>1 DEF CrmIInv, CrmTypeOK, setting
  <1>9. PullHolds(p)'
    BY <1>1, <1>2, <1>8 DEF PullHolds
  <1>10. PullKnows(p)'
    BY <1>1, <1>2, <1>8, NothingElse DEF PullKnows
  <1> QED
    BY <1>1, <1>3, <1>5, <1>6, <1>7, <1>9, <1>10, OnlyPull

\* What pull p writes is a row.
LEMMA PulledRow ==
    ASSUME CrmIInv, NEW p \in Pulls, pullPc[p] = "write", NEW required \in BOOLEAN
    PROVE  [status |-> Pulled(p).status, required |-> required,
            backlog |-> Pulled(p).backlog] \in Rows
  <1>1. current[p] \in Keys /\ listed[p][current[p]] \in Status
    BY PullFacts DEF CrmIInv, PullKnows
  <1>2. (listed[p][current[p]] \in Backlog) \in BOOLEAN
    OBVIOUS
  <1>3. \A status \in Status, backlog \in BOOLEAN :
          [status |-> status, required |-> required, backlog |-> backlog] \in Rows
    BY DEF Rows
  <1>4. /\ Pulled(p).status = listed[p][current[p]]
        /\ Pulled(p).backlog = (listed[p][current[p]] \in Backlog)
    BY DEF Pulled
  <1> QED
    BY <1>1, <1>2, <1>3, <1>4

LEMMA PullWriteOK ==
    ASSUME CrmIInv, NEW p \in Pulls, PullWrite(p)
    PROVE  CrmIInv'
  <1> DEFINE k == current[p]
             new == [status |-> Pulled(p).status, required |-> TRUE,
                     backlog |-> Pulled(p).backlog]
             row == IF pullSaw[p] = Nothing THEN new
                    ELSE Merge(crmRow[k], pullSaw[p],
                               [new EXCEPT !.required = pullSaw[p].required])
  <1>1. /\ pullPc[p] = "write" /\ rowLock[k] = Nothing
        /\ rowLock' = [rowLock EXCEPT ![k] = p]
        /\ written' = [written EXCEPT ![p][k] = row]
        /\ pullPc' = [pullPc EXCEPT ![p] = "items"]
        /\ listed' = [listed EXCEPT ![p][k] = Nothing]
        /\ pullSaw' = [pullSaw EXCEPT ![p] = Nothing]
        /\ UNCHANGED <<setting, names, shopOrder, crmRow, crmItems, toDo, current, deleted,
                       inserted, fresh, pushes, events>>
    BY DEF PullWrite, Used, crmTables, setting
  <1>2. /\ k \in Keys /\ PullHolds(p) /\ PullKnows(p)
        /\ \A n \in toDo[p] : n # k /\ (shared \/ n[1] < k[1])
        /\ pullSaw[p] # Nothing => crmRow[k] # Nothing
    BY <1>1, PullFacts DEF CrmIInv, PullKnows
  <1>3. row \in Rows
    <2>1. CASE pullSaw[p] = Nothing
      BY <2>1, <1>1, PulledRow
    <2>2. CASE pullSaw[p] # Nothing
      <3>1. pullSaw[p] \in Rows /\ crmRow[k] \in Rows /\ pullSaw[p].required \in BOOLEAN
        BY <2>2, <1>2, PullFacts, OrderFacts DEF CrmIInv, Rows
      <3>2. [new EXCEPT !.required = pullSaw[p].required]
              = [status |-> Pulled(p).status, required |-> pullSaw[p].required,
                 backlog |-> Pulled(p).backlog]
        OBVIOUS
      <3>3. [new EXCEPT !.required = pullSaw[p].required] \in Rows
        BY <3>1, <3>2, <1>1, PulledRow
      <3> QED
        BY <2>2, <3>1, <3>3, MergeRow
    <2> QED
      BY <2>1, <2>2
  <1> HIDE DEF row
  <1>4. CrmTypeOK'
    <2>1. written' \in [Pulls -> [Keys -> Rows \cup {Nothing}]]
      BY <1>1, <1>2, <1>3 DEF CrmIInv, CrmTypeOK
    <2>2. listed' \in [Pulls -> [Keys -> Status \cup {Nothing}]]
      BY <1>1, <1>2 DEF CrmIInv, CrmTypeOK
    <2>3. rowLock' \in [Keys -> Pulls \cup {Nothing}]
      BY <1>1, <1>2 DEF CrmIInv, CrmTypeOK
    <2>4. pullPc' \in [Pulls -> {"idle", "select", "customer", "write", "items"}]
      BY <1>1 DEF CrmIInv, CrmTypeOK
    <2>5. pullSaw' \in [Pulls -> Rows \cup {Nothing}]
      BY <1>1 DEF CrmIInv, CrmTypeOK
    <2> QED
      BY <1>1, <2>1, <2>2, <2>3, <2>4, <2>5 DEF CrmIInv, CrmTypeOK, pushes, setting
  <1>5. OneSetOfItems' /\ RowsStay
    BY <1>1 DEF CrmIInv, OneSetOfItems, RowsStay, setting
  <1>6. /\ pullPc'[p] = "items" /\ toDo'[p] = toDo[p] /\ current'[p] = k /\ shared' = shared
        /\ deleted'[p] = deleted[p] /\ rowLock'[k] = p
        /\ written'[p][k] = row /\ listed'[p][k] = Nothing
        /\ \A n \in Keys \ {k} :
              /\ rowLock'[n] = rowLock[n] /\ written'[p][n] = written[p][n]
              /\ listed'[p][n] = listed[p][n]
    BY <1>1, <1>2, PullFacts DEF CrmIInv, CrmTypeOK, setting
  <1>7. \A x \in Pulls \ {p} : OwnStay(x) /\ HeldStay(x)
    <2> SUFFICES ASSUME NEW x \in Pulls \ {p} PROVE OwnStay(x) /\ HeldStay(x)
      OBVIOUS
    <2>1. OwnStay(x)
      BY <1>1 DEF OwnStay, CrmIInv, CrmTypeOK
    <2>2. HeldStay(x)
      BY <1>1, <1>6, NothingElse DEF HeldStay
    <2> QED
      BY <2>1, <2>2
  <1>8. PullHolds(p)'
    <2> SUFFICES ASSUME NEW n \in Keys
                 PROVE  /\ (rowLock'[n] = p) = (written'[p][n] # Nothing)
                        /\ rowLock'[n] = p =>
                              /\ \A other \in toDo[p] :
                                    other # n /\ (shared \/ other[1] < n[1])
                              /\ deleted[p][n] = crmItems[n] \/ n = k
      BY <1>1, <1>6 DEF PullHolds
    <2>1. CASE n = k
      BY <2>1, <1>2, <1>3, <1>6, NothingElse
    <2>2. CASE n # k
      BY <2>2, <1>1, <1>2, <1>6 DEF PullHolds
    <2> QED
      BY <2>1, <2>2
  <1>9. PullKnows(p)'
    <2>1. \A n \in toDo[p] : n \in Keys /\ n # k /\ listed'[p][n] = listed[p][n]
      BY <1>2, <1>6, PullFacts, OrderFacts DEF CrmIInv
    <2> QED
      BY <1>2, <1>6, <2>1, NothingElse DEF PullKnows
  <1> QED
    BY <1>1, <1>4, <1>5, <1>7, <1>8, <1>9, NamesUntouched, OnlyPull

\* A savepoint that is rolled back: what it locked, wrote and inserted is gone, and
\* the pull is between two orders again.
LEMMA SavepointOK ==
    ASSUME CrmIInv, NEW p \in Pulls, pullPc[p] \in {"customer", "write", "items"},
           RollBackSavepoint(p),
           UNCHANGED <<setting, names, shopOrder, crmTables, toDo, deleted, pushes>>, events' \in 0..MaxEvents
    PROVE  CrmIInv'
  <1> DEFINE k == current[p]
  <1>1. /\ rowLock' = [rowLock EXCEPT ![k] = IF rowLock[k] = p THEN Nothing ELSE rowLock[k]]
        /\ written' = [written EXCEPT ![p][k] = Nothing]
        /\ pullPc' = [pullPc EXCEPT ![p] = "select"]
        /\ current' = [current EXCEPT ![p] = Nothing]
        /\ listed' = [listed EXCEPT ![p][k] = Nothing]
        /\ pullSaw' = [pullSaw EXCEPT ![p] = Nothing]
        /\ inserted' = [inserted EXCEPT ![p] = @ \ fresh[p]]
        /\ fresh' = [fresh EXCEPT ![p] = {}]
        /\ UNCHANGED <<setting, names, shopOrder, crmRow, crmItems, toDo, deleted, pushes>>
    <2>1. k \in Keys
      BY PullFacts DEF CrmIInv, PullKnows
    <2> QED
      BY <2>1 DEF RollBackSavepoint, NextOrder, Used, crmTables, CrmIInv, CrmTypeOK, setting
  <1>2. /\ k \in Keys /\ PullHolds(p) /\ PullKnows(p)
        /\ \A n \in toDo[p] : n # k /\ (shared \/ n[1] < k[1])
    BY PullFacts DEF CrmIInv, PullKnows
  <1>3. CrmTypeOK'
    <2>1. written' \in [Pulls -> [Keys -> Rows \cup {Nothing}]]
      BY <1>1, <1>2 DEF CrmIInv, CrmTypeOK
    <2>2. listed' \in [Pulls -> [Keys -> Status \cup {Nothing}]]
      BY <1>1, <1>2 DEF CrmIInv, CrmTypeOK
    <2>3. rowLock' \in [Keys -> Pulls \cup {Nothing}]
      BY <1>1, <1>2 DEF CrmIInv, CrmTypeOK
    <2>4. /\ pullPc' \in [Pulls -> {"idle", "select", "customer", "write", "items"}]
          /\ current' \in [Pulls -> Keys \cup {Nothing}]
          /\ pullSaw' \in [Pulls -> Rows \cup {Nothing}]
      BY <1>1 DEF CrmIInv, CrmTypeOK
    <2>5. inserted' \in [Pulls -> SUBSET Names] /\ fresh' \in [Pulls -> SUBSET Names]
      BY <1>1 DEF CrmIInv, CrmTypeOK
    <2> QED
      BY <1>1, <2>1, <2>2, <2>3, <2>4, <2>5 DEF CrmIInv, CrmTypeOK, pushes, setting
  <1>4. OneSetOfItems' /\ RowsStay
    BY <1>1 DEF CrmIInv, OneSetOfItems, RowsStay, setting
  <1>5. /\ shared' = shared /\ pullPc'[p] = "select" /\ toDo'[p] = toDo[p]
        /\ deleted'[p] = deleted[p]
        /\ rowLock'[k] = (IF rowLock[k] = p THEN Nothing ELSE rowLock[k])
        /\ written'[p][k] = Nothing
        /\ \A n \in Keys \ {k} :
              /\ rowLock'[n] = rowLock[n] /\ written'[p][n] = written[p][n]
              /\ listed'[p][n] = listed[p][n]
    BY <1>1, <1>2, PullFacts DEF CrmIInv, CrmTypeOK, setting
  <1>6. \A x \in Pulls \ {p} : OwnStay(x) /\ HeldStay(x)
    <2> SUFFICES ASSUME NEW x \in Pulls \ {p} PROVE OwnStay(x) /\ HeldStay(x)
      OBVIOUS
    <2>1. OwnStay(x)
      BY <1>1 DEF OwnStay, CrmIInv, CrmTypeOK
    <2>2. HeldStay(x)
      BY <1>1, <1>5, NothingElse DEF HeldStay
    <2> QED
      BY <2>1, <2>2
  <1>7. PullHolds(p)'
    <2> SUFFICES ASSUME NEW n \in Keys
                 PROVE  /\ (rowLock'[n] = p) = (written'[p][n] # Nothing)
                        /\ rowLock'[n] = p =>
                              /\ \A other \in toDo[p] :
                                    other # n /\ (shared \/ other[1] < n[1])
                              /\ deleted[p][n] = crmItems[n]
      BY <1>1, <1>5 DEF PullHolds
    <2>1. CASE n = k
      BY <2>1, <1>5, NothingElse
    <2>2. CASE n # k
      BY <2>2, <1>2, <1>5 DEF PullHolds
    <2> QED
      BY <2>1, <2>2
  <1>8. PullKnows(p)'
    <2>1. \A n \in toDo[p] : n \in Keys /\ n # k /\ listed'[p][n] = listed[p][n]
      BY <1>2, <1>5, PullFacts, OrderFacts DEF CrmIInv
    <2> QED
      BY <1>2, <1>5, <2>1 DEF PullKnows
  <1>9. NamesAreOnce'
    BY <1>1 DEF CrmIInv, CrmTypeOK, NamesAreOnce
  <1> QED
    BY <1>1, <1>3, <1>4, <1>6, <1>7, <1>8, <1>9, OnlyPull

LEMMA PullClashOK ==
    ASSUME CrmIInv, NEW p \in Pulls, PullClash(p)
    PROVE  CrmIInv'
  <1>1. pullPc[p] \in {"customer", "write", "items"}
    BY PullFacts DEF PullClash, Inserts, CrmIInv
  <1>2. events' \in 0..MaxEvents
    BY DEF PullClash, CrmIInv, CrmTypeOK
  <1> QED
    BY <1>1, <1>2, SavepointOK DEF PullClash

LEMMA PullVictimOK ==
    ASSUME CrmIInv, NEW p \in Pulls, PullVictim(p)
    PROVE  CrmIInv'
  <1>1. \E other \in Pulls : WaitsFor(p, other)
    BY DEF PullVictim, Circle
  <1>2. pullPc[p] \in {"customer", "write", "items"}
    BY <1>1, PullFacts DEF WaitsFor, Inserts, CrmIInv
  <1>3. events' \in 0..MaxEvents
    BY DEF PullVictim, CrmIInv, CrmTypeOK
  <1> QED
    BY <1>2, <1>3, SavepointOK DEF PullVictim

LEMMA PullFailsOK ==
    ASSUME CrmIInv, NEW p \in Pulls, PullFails(p)
    PROVE  CrmIInv'
  <1>1. events' \in 0..MaxEvents
    BY CrmOrdersAssumption DEF PullFails, Count, CrmIInv, CrmTypeOK
  <1> QED
    BY <1>1, SavepointOK DEF PullFails

LEMMA PullItemsOK ==
    ASSUME CrmIInv, NEW p \in Pulls, PullItems(p)
    PROVE  CrmIInv'
  <1> DEFINE k == current[p]
  <1>1. /\ pullPc[p] = "items"
        /\ deleted' = [deleted EXCEPT ![p][k] = crmItems[k]]
        /\ pullPc' = [pullPc EXCEPT ![p] = "select"]
        /\ current' = [current EXCEPT ![p] = Nothing]
        /\ listed' = [listed EXCEPT ![p][k] = Nothing]
        /\ pullSaw' = [pullSaw EXCEPT ![p] = Nothing]
        /\ inserted' = [inserted EXCEPT ![p] = @ \cup Inserts(p)]
        /\ fresh' = [fresh EXCEPT ![p] = {}]
        /\ UNCHANGED <<setting, names, shopOrder, crmRow, crmItems, rowLock, toDo, written,
                       pushes, events>>
    BY DEF PullItems, NextOrder, Used, crmTables, setting
  <1>2. /\ k \in Keys /\ PullHolds(p) /\ PullKnows(p) /\ rowLock[k] = p
        /\ \A n \in toDo[p] : n # k /\ (shared \/ n[1] < k[1])
    BY <1>1, PullFacts DEF CrmIInv, PullKnows
  <1>3. NamesAreOnce' /\ inserted' \in [Pulls -> SUBSET Names]
    <2>1. fresh'[p] = {} /\ \A x \in Pulls \ {p} : fresh'[x] = fresh[x]
      BY <1>1 DEF CrmIInv, CrmTypeOK
    <2> QED
      BY <1>1, <2>1, InsertsName DEF PullItems
  <1>4. CrmTypeOK'
    <2>1. deleted' \in [Pulls -> [Keys -> SUBSET (Pulls \cup Pushes)]]
      BY <1>1, <1>2 DEF CrmIInv, CrmTypeOK
    <2>2. listed' \in [Pulls -> [Keys -> Status \cup {Nothing}]]
      BY <1>1, <1>2 DEF CrmIInv, CrmTypeOK
    <2>3. /\ pullPc' \in [Pulls -> {"idle", "select", "customer", "write", "items"}]
          /\ current' \in [Pulls -> Keys \cup {Nothing}]
          /\ pullSaw' \in [Pulls -> Rows \cup {Nothing}]
          /\ fresh' \in [Pulls -> SUBSET Names]
      BY <1>1 DEF CrmIInv, CrmTypeOK
    <2> QED
      BY <1>1, <1>3, <2>1, <2>2, <2>3 DEF CrmIInv, CrmTypeOK, pushes, setting
  <1>5. OneSetOfItems' /\ RowsStay
    BY <1>1 DEF CrmIInv, OneSetOfItems, RowsStay, setting
  <1>6. /\ shared' = shared /\ pullPc'[p] = "select" /\ toDo'[p] = toDo[p]
        /\ deleted'[p][k] = crmItems[k]
        /\ written'[p] = written[p]
        /\ \A n \in Keys \ {k} :
              /\ deleted'[p][n] = deleted[p][n] /\ listed'[p][n] = listed[p][n]
    BY <1>1, <1>2, PullFacts DEF CrmIInv, CrmTypeOK, setting
  <1>7. \A x \in Pulls \ {p} : OwnStay(x) /\ HeldStay(x)
    BY <1>1 DEF OwnStay, HeldStay, CrmIInv, CrmTypeOK
  <1>8. PullHolds(p)'
    BY <1>1, <1>2, <1>6 DEF PullHolds
  <1>9. PullKnows(p)'
    <2>1. \A n \in toDo[p] : n \in Keys /\ n # k /\ listed'[p][n] = listed[p][n]
      BY <1>2, <1>6, PullFacts, OrderFacts DEF CrmIInv
    <2> QED
      BY <1>2, <1>6, <2>1 DEF PullKnows
  <1> QED
    BY <1>1, <1>4, <1>5, <1>7, <1>8, <1>9, <1>3, OnlyPull

\* The end of a transaction: whatever the tables are then, the pull holds
\* nothing and knows nothing.
LEMMA OverHolds ==
    ASSUME CrmIInv, NEW p \in Pulls, PullOver(p)
    PROVE  /\ PullHolds(p)' /\ PullKnows(p)'
           /\ inserted'[p] = {} /\ fresh'[p] = {}
           /\ \A x \in Pulls \ {p} :
                 /\ OwnStay(x) /\ inserted'[x] = inserted[x] /\ fresh'[x] = fresh[x]
                 /\ \A k \in Keys : (rowLock'[k] = x) = (rowLock[k] = x)
  <1>1. /\ pullPc'[p] = "idle" /\ toDo'[p] = {}
        /\ \A k \in Keys :
              /\ rowLock'[k] = (IF rowLock[k] = p THEN Nothing ELSE rowLock[k])
              /\ written'[p][k] = Nothing
    BY DEF PullOver, CrmIInv, CrmTypeOK
  <1>2. \A k \in Keys : rowLock'[k] # p
    BY <1>1, NothingElse
  <1>3. PullHolds(p)' /\ PullKnows(p)'
    BY <1>1, <1>2 DEF PullHolds, PullKnows
  <1>4. /\ inserted'[p] = {} /\ fresh'[p] = {}
        /\ \A x \in Pulls \ {p} :
              OwnStay(x) /\ inserted'[x] = inserted[x] /\ fresh'[x] = fresh[x]
    BY DEF PullOver, OwnStay, CrmIInv, CrmTypeOK
  <1> QED
    BY <1>1, <1>3, <1>4, NothingElse

LEMMA OverTypes ==
    ASSUME CrmIInv, NEW p \in Pulls, PullOver(p),
           UNCHANGED <<setting, shopOrder, pushes>>, names' \in SUBSET Names,
           events' \in 0..MaxEvents,
           crmRow' \in [Keys -> Rows \cup {Nothing}],
           crmItems' \in [Keys -> SUBSET (Pulls \cup Pushes)]
    PROVE  CrmTypeOK'
  <1>1. /\ pullPc' \in [Pulls -> {"idle", "select", "customer", "write", "items"}]
        /\ current' \in [Pulls -> Keys \cup {Nothing}]
        /\ pullSaw' \in [Pulls -> Rows \cup {Nothing}]
        /\ toDo' \in [Pulls -> SUBSET Keys]
        /\ inserted' \in [Pulls -> SUBSET Names] /\ fresh' \in [Pulls -> SUBSET Names]
    BY DEF PullOver, CrmIInv, CrmTypeOK
  <1>2. /\ listed' \in [Pulls -> [Keys -> Status \cup {Nothing}]]
        /\ written' \in [Pulls -> [Keys -> Rows \cup {Nothing}]]
        /\ deleted' \in [Pulls -> [Keys -> SUBSET (Pulls \cup Pushes)]]
    BY DEF PullOver, CrmIInv, CrmTypeOK
  <1>3. rowLock' \in [Keys -> Pulls \cup {Nothing}]
    BY OrderFacts DEF PullOver, CrmIInv
  <1> QED
    BY <1>1, <1>2, <1>3 DEF CrmIInv, CrmTypeOK, pushes, setting

LEMMA PullLostOK ==
    ASSUME CrmIInv, NEW p \in Pulls, PullLost(p)
    PROVE  CrmIInv'
  <1>1. PullOver(p) /\ UNCHANGED <<setting, names, shopOrder, crmRow, crmItems, pushes>>
    BY DEF PullLost, crmTables, setting
  <1>2. CrmTypeOK'
    <2>1. events' \in 0..MaxEvents
      BY CrmOrdersAssumption DEF PullLost, Count, CrmIInv, CrmTypeOK
    <2>2. /\ crmRow' \in [Keys -> Rows \cup {Nothing}]
          /\ crmItems' \in [Keys -> SUBSET (Pulls \cup Pushes)]
      BY <1>1 DEF CrmIInv, CrmTypeOK
    <2>3. names' \in SUBSET Names
      BY <1>1 DEF CrmIInv, CrmTypeOK
    <2> QED
      BY <1>1, <2>1, <2>2, <2>3, OverTypes
  <1>3. OneSetOfItems' /\ RowsStay
    BY <1>1 DEF CrmIInv, OneSetOfItems, RowsStay, setting
  <1>4. \A x \in Pulls \ {p} : OwnStay(x) /\ HeldStay(x)
    BY <1>1, OverHolds DEF HeldStay
  <1>5. NamesAreOnce'
    BY <1>1, OverHolds DEF CrmIInv, NamesAreOnce
  <1> QED
    BY <1>1, <1>2, <1>3, <1>4, <1>5, OverHolds, OnlyPull

LEMMA PullCommitOK ==
    ASSUME CrmIInv, NEW p \in Pulls, PullCommit(p)
    PROVE  CrmIInv'
  <1>1. /\ pullPc[p] = "select" /\ PullOver(p) /\ UNCHANGED <<setting, shopOrder, pushes, events>>
        /\ names' = names \cup inserted[p]
        /\ crmRow' = [k \in Keys |->
                        IF written[p][k] = Nothing THEN crmRow[k] ELSE written[p][k]]
        /\ crmItems' = [k \in Keys |->
                          IF written[p][k] = Nothing THEN crmItems[k]
                          ELSE (crmItems[k] \ deleted[p][k]) \cup {p}]
    BY DEF PullCommit
  <1>2. PullHolds(p)
    BY DEF CrmIInv
  <1>3. \A k \in Keys :
          /\ written[p][k] # Nothing => /\ rowLock[k] = p /\ crmItems'[k] = {p}
                                        /\ crmRow'[k] # Nothing
          /\ written[p][k] = Nothing => crmRow'[k] = crmRow[k] /\ crmItems'[k] = crmItems[k]
    BY <1>1, <1>2 DEF PullHolds
  <1>4. CrmTypeOK'
    <2>1. crmRow' \in [Keys -> Rows \cup {Nothing}]
      BY <1>1, OrderFacts, PullFacts DEF CrmIInv
    <2>2. crmItems' \in [Keys -> SUBSET (Pulls \cup Pushes)]
      BY <1>1, OrderFacts, PullFacts DEF CrmIInv
    <2>3. events' \in 0..MaxEvents /\ names' \in SUBSET Names
      BY <1>1 DEF CrmIInv, CrmTypeOK
    <2> QED
      BY <1>1, <2>1, <2>2, <2>3, OverTypes
  <1>5. OneSetOfItems'
    BY <1>3 DEF CrmIInv, OneSetOfItems
  <1>6. RowsStay
    BY <1>1, <1>3 DEF RowsStay, setting
  <1>7. \A x \in Pulls \ {p} : OwnStay(x) /\ HeldStay(x)
    <2> SUFFICES ASSUME NEW x \in Pulls \ {p} PROVE OwnStay(x) /\ HeldStay(x)
      OBVIOUS
    <2>1. \A k \in Keys : rowLock[k] = x => crmItems'[k] = crmItems[k]
      BY <1>3
    <2> QED
      BY <1>1, <2>1, OverHolds DEF HeldStay
  <1>8. NamesAreOnce'
    BY <1>1, OverHolds DEF CrmIInv, NamesAreOnce
  <1> QED
    BY <1>1, <1>4, <1>5, <1>6, <1>7, <1>8, OverHolds, OnlyPull

-----------------------------------------------------------------------------
(* A push *)

\* What a push's step means for the pulls, and for the other pushes.
LEMMA OnlyPush ==
    ASSUME CrmIInv, NEW q \in Pushes, RowsStay, UNCHANGED <<names, rowLock, pulls>>,
           \A k \in Keys : rowLock[k] # Nothing => crmItems'[k] = crmItems[k],
           \A x \in Pushes \ {q} :
               pushPc'[x] = pushPc[x] /\ pushOf'[x] = pushOf[x] /\ pushSaw'[x] = pushSaw[x],
           CrmTypeOK', OneSetOfItems', PushKnows(q)'
    PROVE  CrmIInv'
  <1>1. \A x \in Pushes : PushKnows(x)'
    BY OtherPushes
  <1> QED
    BY <1>1, PullsUntouched, NamesUntouched DEF CrmIInv, pulls

\* The end of a push.
LEMMA PushOverFacts ==
    ASSUME CrmTypeOK, NEW q \in Pushes, PushOver(q)
    PROVE  /\ pushPc' \in [Pushes -> {"idle", "write", "done"}]
           /\ pushOf' \in [Pushes -> OrderNumbers \cup {Nothing}]
           /\ pushSays' \in [Pushes -> BOOLEAN \cup {Nothing}]
           /\ pushSaw' \in [Pushes -> Rows \cup {Nothing}]
           /\ PushKnows(q)'
           /\ \A x \in Pushes \ {q} :
                 pushPc'[x] = pushPc[x] /\ pushOf'[x] = pushOf[x] /\ pushSaw'[x] = pushSaw[x]
  BY DEF PushOver, CrmTypeOK, PushKnows

LEMMA PushCustomerOK ==
    ASSUME CrmIInv, NEW q \in Pushes, NEW o \in OrderNumbers, PushCustomer(q, o)
    PROVE  CrmIInv'
  <1>1. /\ names' = names \cup {CustomerOf[o]} /\ \A p \in Pulls : CustomerOf[o] \notin inserted[p]
        /\ UNCHANGED <<setting, shopOrder, crmRow, crmItems, rowLock, pulls, pushes, events>>
    BY DEF PushCustomer, crmTables
  <1>2. CrmTypeOK'
    <2>1. names' \in SUBSET Names
      BY <1>1, CrmOrdersAssumption DEF CrmIInv, CrmTypeOK, Names
    <2> QED
      BY <1>1, <2>1 DEF CrmIInv, CrmTypeOK, pulls, pushes, setting
  <1>3. OneSetOfItems' /\ RowsStay
    BY <1>1 DEF CrmIInv, OneSetOfItems, RowsStay, setting
  <1>4. NamesAreOnce'
    BY <1>1 DEF CrmIInv, NamesAreOnce, pulls
  <1> QED
    BY <1>1, <1>2, <1>3, <1>4, PullsUntouched, PushesUntouched DEF CrmIInv

LEMMA PushSelectOK ==
    ASSUME CrmIInv, NEW q \in Pushes, NEW o \in OrderNumbers, PushSelect(q, o)
    PROVE  CrmIInv'
  <1>1. PICK says \in {shopOrder[o].required, Nothing} :
          pushSays' = [pushSays EXCEPT ![q] = says]
    BY DEF PushSelect
  <1>2. says \in BOOLEAN \cup {Nothing}
    BY ShopFacts DEF PushSelect, CrmIInv
  <1>3. /\ pushOf' = [pushOf EXCEPT ![q] = o]
        /\ pushSaw' = [pushSaw EXCEPT ![q] = crmRow[<<o, 0>>]]
        /\ pushPc' = [pushPc EXCEPT ![q] = "write"]
        /\ UNCHANGED <<setting, names, shopOrder, crmRow, crmItems, rowLock, pulls, events>>
    BY DEF PushSelect, crmTables, setting
  <1>4. CrmTypeOK'
    <2>1. /\ pushSays' \in [Pushes -> BOOLEAN \cup {Nothing}]
          /\ pushOf' \in [Pushes -> OrderNumbers \cup {Nothing}]
          /\ pushSaw' \in [Pushes -> Rows \cup {Nothing}]
          /\ pushPc' \in [Pushes -> {"idle", "write", "done"}]
      BY <1>1, <1>2, <1>3, OrderFacts, PushedKey DEF CrmIInv, CrmTypeOK
    <2> QED
      BY <1>3, <2>1 DEF CrmIInv, CrmTypeOK, pulls, setting
  <1>5. OneSetOfItems' /\ RowsStay
    BY <1>3 DEF CrmIInv, OneSetOfItems, RowsStay, setting
  <1>6. PushKnows(q)'
    BY <1>3, NothingElse DEF PushKnows, CrmIInv, CrmTypeOK
  <1>7. \A x \in Pushes \ {q} :
          pushPc'[x] = pushPc[x] /\ pushOf'[x] = pushOf[x] /\ pushSaw'[x] = pushSaw[x]
    BY <1>3 DEF CrmIInv, CrmTypeOK
  <1> QED
    BY <1>3, <1>4, <1>5, <1>6, <1>7, OnlyPush

LEMMA PushUpdateOK ==
    ASSUME CrmIInv, NEW q \in Pushes, PushUpdate(q)
    PROVE  CrmIInv'
  <1> DEFINE k == <<pushOf[q], 0>>
             row == Merge(crmRow[k], pushSaw[q], Applied(q, pushSaw[q]))
  <1>1. /\ pushSaw[q] # Nothing /\ PushOver(q)
        /\ crmRow' = [crmRow EXCEPT ![k] = row]
        /\ UNCHANGED <<setting, names, shopOrder, crmItems, rowLock, pulls, events>>
    BY DEF PushUpdate
  <1>2. k \in Keys /\ crmRow[k] \in Rows /\ pushSaw[q] \in Rows
    BY <1>1, PushFacts, PushedKey, OrderFacts DEF PushUpdate, CrmIInv, PushKnows
  <1>3. row \in Rows
    <2>1. pushSaw[q].required \in BOOLEAN /\ pushSaw[q].backlog \in BOOLEAN
      BY <1>2 DEF Rows
    <2> QED
      BY <1>2, <2>1, AppliedRow, MergeRow DEF CrmIInv
  <1> HIDE DEF row, k
  <1>4. CrmTypeOK'
    <2>1. crmRow' \in [Keys -> Rows \cup {Nothing}]
      BY <1>1, <1>3 DEF CrmIInv, CrmTypeOK
    <2> QED
      BY <1>1, <2>1, PushOverFacts DEF CrmIInv, CrmTypeOK, pulls, setting
  <1>5. \A n \in Keys : (crmRow'[n] = Nothing) = (crmRow[n] = Nothing)
    BY <1>1, <1>2, <1>3, NothingElse DEF CrmIInv, CrmTypeOK
  <1>6. OneSetOfItems' /\ RowsStay
    BY <1>1, <1>5 DEF CrmIInv, OneSetOfItems, RowsStay, setting
  <1> QED
    BY <1>1, <1>4, <1>6, PushOverFacts, OnlyPush DEF CrmIInv

LEMMA PushInsertOK ==
    ASSUME CrmIInv, NEW q \in Pushes, PushInsert(q)
    PROVE  CrmIInv'
  <1> DEFINE k == <<pushOf[q], 0>>
             row == Applied(q, [required |-> TRUE, backlog |-> TRUE])
  <1>1. /\ rowLock[k] = Nothing /\ crmRow[k] = Nothing /\ PushOver(q)
        /\ crmRow' = [crmRow EXCEPT ![k] = row]
        /\ crmItems' = [crmItems EXCEPT ![k] = {q}]
        /\ UNCHANGED <<setting, names, shopOrder, rowLock, pulls, events>>
    BY DEF PushInsert
  <1>2. k \in Keys
    BY PushFacts, PushedKey DEF PushInsert, CrmIInv, PushKnows
  <1>3. row \in Rows
    <2> DEFINE new == [required |-> TRUE, backlog |-> TRUE]
    <2>1. new.required \in BOOLEAN /\ new.backlog \in BOOLEAN
      OBVIOUS
    <2>2. CrmTypeOK
      BY DEF CrmIInv
    <2> HIDE DEF new
    <2>3. Applied(q, new) \in Rows
      BY <2>1, <2>2, AppliedRow
    <2> QED
      BY <2>3 DEF new
  <1> HIDE DEF row
  <1>4. /\ crmRow'[k] = row /\ crmItems'[k] = {q}
        /\ \A n \in Keys \ {k} : crmRow'[n] = crmRow[n] /\ crmItems'[n] = crmItems[n]
    BY <1>1, <1>2 DEF CrmIInv, CrmTypeOK
  <1>5. CrmTypeOK'
    <2>1. /\ crmRow' \in [Keys -> Rows \cup {Nothing}]
          /\ crmItems' \in [Keys -> SUBSET (Pulls \cup Pushes)]
      BY <1>1, <1>3 DEF CrmIInv, CrmTypeOK
    <2> QED
      BY <1>1, <2>1, PushOverFacts DEF CrmIInv, CrmTypeOK, pulls, setting
  <1>6. OneSetOfItems'
    BY <1>3, <1>4, NothingElse DEF CrmIInv, OneSetOfItems
  <1>7. RowsStay
    BY <1>1, <1>3, <1>4, NothingElse DEF RowsStay, setting
  <1>8. \A n \in Keys : rowLock[n] # Nothing => crmItems'[n] = crmItems[n]
    BY <1>1, <1>4
  <1> QED
    BY <1>1, <1>5, <1>6, <1>7, <1>8, PushOverFacts, OnlyPush DEF CrmIInv

LEMMA PushReselectOK ==
    ASSUME CrmIInv, NEW q \in Pushes, PushReselect(q)
    PROVE  CrmIInv'
  <1> DEFINE k == <<pushOf[q], 0>>
  <1>1. /\ crmRow[k] # Nothing
        /\ pushSaw' = [pushSaw EXCEPT ![q] = crmRow[k]]
        /\ UNCHANGED <<setting, names, shopOrder, crmRow, crmItems, rowLock, pulls, pushPc, pushOf,
                       pushSays, events>>
    BY DEF PushReselect, crmTables, setting
  <1>2. pushOf[q] \in OrderNumbers /\ k \in Keys
    BY PushFacts, PushedKey DEF PushReselect, CrmIInv, PushKnows
  <1>3. CrmTypeOK'
    <2>1. pushSaw' \in [Pushes -> Rows \cup {Nothing}]
      BY <1>1, <1>2, OrderFacts DEF CrmIInv, CrmTypeOK
    <2> QED
      BY <1>1, <2>1 DEF CrmIInv, CrmTypeOK, pulls, setting
  <1>4. OneSetOfItems' /\ RowsStay
    BY <1>1 DEF CrmIInv, OneSetOfItems, RowsStay, setting
  <1>5. PushKnows(q)'
    BY <1>1, <1>2, NothingElse DEF PushKnows
  <1>6. \A x \in Pushes \ {q} :
          pushPc'[x] = pushPc[x] /\ pushOf'[x] = pushOf[x] /\ pushSaw'[x] = pushSaw[x]
    BY <1>1 DEF CrmIInv, CrmTypeOK
  <1> QED
    BY <1>1, <1>3, <1>4, <1>5, <1>6, OnlyPush

LEMMA PushLostOK ==
    ASSUME CrmIInv, NEW q \in Pushes, PushLost(q)
    PROVE  CrmIInv'
  <1>1. PushOver(q) /\ UNCHANGED <<setting, names, shopOrder, crmRow, crmItems, rowLock, pulls, events>>
    BY DEF PushLost, crmTables, setting
  <1>2. CrmTypeOK'
    BY <1>1, PushOverFacts DEF CrmIInv, CrmTypeOK, pulls, setting
  <1>3. OneSetOfItems' /\ RowsStay
    BY <1>1 DEF CrmIInv, OneSetOfItems, RowsStay, setting
  <1> QED
    BY <1>1, <1>2, <1>3, PushOverFacts, OnlyPush DEF CrmIInv

-----------------------------------------------------------------------------
(* The theorems *)

LEMMA CrmStep == CrmIInv /\ [CrmNext]_crmVars => CrmIInv'
  <1> SUFFICES ASSUME CrmIInv, [CrmNext]_crmVars PROVE CrmIInv'
    OBVIOUS
  <1>1. ASSUME NEW o \in OrderNumbers, Place(o) \/ \E s \in Statuses \cup {"paid"} : Change(o, s)
        PROVE  CrmIInv'
    BY <1>1, PlaceOK, ChangeOK
  <1>2. ASSUME NEW p \in Pulls, Fetch(p) \/ PullStep(p) \/ PullFails(p) \/ PullLost(p)
        PROVE  CrmIInv'
    BY <1>2, FetchOK, PullSelectOK, InsertCustomerOK, PullWriteOK, PullClashOK, PullVictimOK,
       PullItemsOK, PullCommitOK, PullFailsOK, PullLostOK DEF PullStep
  <1>3. ASSUME NEW q \in Pushes,
               \/ PushStep(q) \/ PushLost(q)
               \/ \E o \in OrderNumbers : PushCustomer(q, o) \/ PushSelect(q, o)
        PROVE  CrmIInv'
    BY <1>3, PushCustomerOK, PushSelectOK, PushUpdateOK, PushInsertOK, PushReselectOK, PushLostOK DEF PushStep
  <1>4. ASSUME NEW k \in Keys, NEW s \in Statuses, Edit(k, s)
        PROVE  CrmIInv'
    BY <1>4, EditOK
  <1>5. CASE UNCHANGED crmVars
    <2>1. CrmTypeOK' /\ OneSetOfItems' /\ RowsStay
      BY <1>5 DEF crmVars, crmTables, pulls, pushes, CrmIInv, CrmTypeOK, OneSetOfItems, RowsStay, setting
    <2>2. UNCHANGED <<names, rowLock, pulls, pushes, crmItems>>
      BY <1>5 DEF crmVars, crmTables, setting
    <2> QED
      BY <2>1, <2>2, PullsUntouched, PushesUntouched, NamesUntouched DEF CrmIInv, pulls
  <1> QED
    BY <1>1, <1>2, <1>3, <1>4, <1>5 DEF CrmNext

\* The copies, the locks and what the transactions know of them stay consistent
\* (sync_external_orders and create_order): CrmIInv is inductive.
THEOREM CrmInductive == CrmSpec => []CrmIInv
  BY InitOK, CrmStep, PTL DEF CrmSpec

\* No copy ever has two sets of items, or a set without a row, however pushes
\* and overlapping pulls interleave (_replace_order_items).
THEOREM ItemsNeverDouble == CrmSpec => []OneSetOfItems
  <1>1. CrmIInv => OneSetOfItems
    BY DEF CrmIInv
  <1> QED
    BY <1>1, CrmInductive, PTL

\* At the rows of orders, whose locks are held until the commit, pulls on a database
\* of their own wait downwards, since each takes the orders latest first.
LEMMA PullsWaitDownwards == CrmIInv => WaitsDescend
  <1> SUFFICES ASSUME CrmIInv, ~shared, NEW p \in Pulls, NEW k \in Keys, NEW older \in Keys,
                      WaitsAt(p, k), WaitsAt(rowLock[k], older)
               PROVE  older[1] < k[1]
    BY DEF WaitsDescend
  <1>1. rowLock[k] \in Pulls
    BY OrderFacts DEF WaitsAt, CrmIInv
  <1>2. PullHolds(rowLock[k])
    BY <1>1 DEF CrmIInv
  <1> QED
    BY <1>2 DEF PullHolds, WaitsAt

\* Any number of pulls on a database of the CRM's own that wait for each other in a
\* circle do so with one of them at the INSERT of a customer or of a product: in a
\* set of pulls that are all at rows of orders, the one that waits at the oldest
\* order waits for somebody else, if for anybody at all (sync_external_orders, whose
\* listing is latest first; _resolve_customer and _resolve_product, which take the
\* unique values in whatever order the orders have them).
THEOREM OnlyNamesDeadlock == CrmSpec => []CirclesAreAboutNames
  <1>1. CrmIInv => CirclesAreAboutNames
    <2> SUFFICES ASSUME CrmIInv, ~shared, NEW C \in SUBSET Pulls, C # {}, Circle(C),
                        \A p \in C : Inserts(p) = {}
                 PROVE  FALSE
      BY DEF CirclesAreAboutNames
    <2>1. \A p \in C : WaitsAt(p, current[p]) /\ rowLock[current[p]] \in C
      BY NothingElse DEF Circle, WaitsFor, WaitsAt
    <2>2. \A p \in C : current[p] \in Keys /\ current[p][1] \in Nat
      BY <2>1, PullFacts, KeyFacts DEF WaitsAt, CrmIInv, PullKnows
    <2> DEFINE K == {current[p][1] : p \in C}
    <2>3. PICK oldest \in K : \A n \in K : oldest <= n
      <3>1. K \in SUBSET Nat /\ K # {}
        BY <2>2
      <3> HIDE DEF K
      <3> QED
        BY <3>1, LeastNatural
    <2>4. PICK p \in C : oldest = current[p][1]
      OBVIOUS
    <2> DEFINE q == rowLock[current[p]]
    <2>5. q \in C /\ current[q][1] < current[p][1]
      BY <2>1, <2>2, PullsWaitDownwards DEF WaitsDescend
    <2> QED
      BY <2>2, <2>3, <2>4, <2>5
  <1> QED
    BY <1>1, CrmInductive, PTL
=============================================================================
