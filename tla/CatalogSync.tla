------------------------------ MODULE CatalogSync ------------------------------
(***************************************************************************)
(* The CRM's catalogue and the shop's copy of it.  A handler of the CRM    *)
(* commits its change first and then posts a snapshot of its own to the    *)
(* shop, once, for at most 15 s: the posts of several handlers arrive in   *)
(* any order, late or not at all.  An operator can post the whole          *)
(* catalogue.  The shop's administrators edit the copy as well.            *)
(*                                                                         *)
(* The shop applies a post in one transaction and keeps its rows by SKU,   *)
(* so a post is applied in one step.  Shop and CRM have databases of their *)
(* own here.  SKUs stand for what is left of them in capitals.             *)
(***************************************************************************)
EXTENDS Integers

CONSTANTS
    CatalogIds,     \* the products of the CRM
    Skus,
    Contents,       \* name, price, stock and the rest of a product
    Handlers,       \* the requests under way at a time
    MaxChanges,     \* bound on the changes at the CRM and at the shop
    NoProduct       \* no such product, no row, no post

ShopRows == [content : Contents, active : BOOLEAN]

ASSUME CatalogSyncAssumption ==
    /\ MaxChanges \in Nat
    /\ NoProduct \notin [sku : Skus, content : Contents, active : BOOLEAN] \cup ShopRows

VARIABLES
    catalog,    \* the CRM's products
    post,       \* the post of each handler that is still on its way
    shopRow,    \* the shop's products
    changes     \* how many changes there have been

catalogVars == <<catalog, post, shopRow, changes>>

Posts == [action : {"upsert", "deactivate"}, rows : [Skus -> ShopRows \cup {NoProduct}]]

CatalogTypeOK ==
    /\ catalog \in [CatalogIds -> [sku : Skus, content : Contents, active : BOOLEAN]
                                    \cup {NoProduct}]
    /\ post \in [Handlers -> Posts \cup {NoProduct}]
    /\ shopRow \in [Skus -> ShopRows \cup {NoProduct}]
    /\ changes \in 0..MaxChanges

Live == {i \in CatalogIds : catalog[i] # NoProduct}
Free(sku, but) == \A i \in Live \ {but} : catalog[i].sku # sku

Snapshot(product) == [content |-> product.content, active |-> product.active]

CountChange == changes < MaxChanges /\ changes' = changes + 1

\* A change is committed and its handler posts the product.
PostProduct(h, action, product) ==
    /\ post[h] = NoProduct
    /\ CountChange
    /\ post' = [post EXCEPT ![h] =
                  [action |-> action,
                   rows |-> [s \in Skus |-> IF s = product.sku THEN Snapshot(product)
                                            ELSE NoProduct]]]
    /\ UNCHANGED shopRow

-----------------------------------------------------------------------------
(* The CRM's handlers *)

CreateProduct(h, i, product) ==
    /\ catalog[i] = NoProduct
    /\ Free(product.sku, i)
    /\ catalog' = [catalog EXCEPT ![i] = product]
    /\ PostProduct(h, "upsert", product)

\* The SKU may change too; the post then says nothing of the old one.
UpdateProduct(h, i, product) ==
    /\ catalog[i] # NoProduct
    /\ Free(product.sku, i)
    /\ catalog' = [catalog EXCEPT ![i] = product]
    /\ PostProduct(h, "upsert", product)

\* A product with orders is archived, another one deleted; either way it is
\* posted to be deactivated.
DeleteProduct(h, i) ==
    /\ catalog[i] # NoProduct
    /\ LET archived == [catalog[i] EXCEPT !.active = FALSE]
       IN  /\ catalog' \in {[catalog EXCEPT ![i] = archived], [catalog EXCEPT ![i] = NoProduct]}
           /\ PostProduct(h, "deactivate", archived)

\* Faulty variant: only what is active is posted.
ActiveProducts == {i \in Live : catalog[i].active}

\* What the SELECT of a full sync finds
SyncedProducts == Live

\* POST /api/products/sync/shop
SyncCatalog(h) ==
    /\ post[h] = NoProduct
    /\ \E rows \in [Skus -> ShopRows \cup {NoProduct}] :
          /\ \A s \in Skus : rows[s] = NoProduct <=> \A i \in SyncedProducts : catalog[i].sku # s
          /\ \A i \in SyncedProducts : rows[catalog[i].sku] = Snapshot(catalog[i])
          /\ post' = [post EXCEPT ![h] = [action |-> "upsert", rows |-> rows]]
    /\ UNCHANGED <<catalog, shopRow, changes>>

-----------------------------------------------------------------------------
(* The shop *)

\* apply_catalog_sync: UPDATE or INSERT of every product of the post
Apply(h) ==
    /\ post[h] # NoProduct
    /\ shopRow' = [s \in Skus |->
          IF post[h].rows[s] = NoProduct THEN shopRow[s]
          ELSE [post[h].rows[s] EXCEPT !.active = @ /\ post[h].action # "deactivate"]]
    /\ post' = [post EXCEPT ![h] = NoProduct]
    /\ UNCHANGED <<catalog, changes>>

\* The post is lost or refused, its transaction fails, or the CRM's process
\* dies between commit and post; nobody tries again.
Lose(h) ==
    /\ post[h] # NoProduct
    /\ post' = [post EXCEPT ![h] = NoProduct]
    /\ UNCHANGED <<catalog, shopRow, changes>>

\* An administrator of the shop creates a product, or writes one, its SKU too.
ShopEdit(s, t, row) ==
    /\ CountChange
    /\ s # t => shopRow[s] # NoProduct /\ shopRow[t] = NoProduct
    /\ shopRow' = [shopRow EXCEPT ![s] = NoProduct, ![t] = row]
    /\ UNCHANGED <<catalog, post>>

CatalogInit ==
    /\ catalog = [i \in CatalogIds |-> NoProduct]
    /\ post = [h \in Handlers |-> NoProduct]
    /\ shopRow = [s \in Skus |-> NoProduct]
    /\ changes = 0

CatalogNext ==
    \/ \E h \in Handlers :
          \/ SyncCatalog(h) \/ Apply(h) \/ Lose(h)
          \/ \E i \in CatalogIds :
                \/ DeleteProduct(h, i)
                \/ \E p \in [sku : Skus, content : Contents, active : BOOLEAN] :
                      CreateProduct(h, i, p) \/ UpdateProduct(h, i, p)
    \/ \E s, t \in Skus, row \in ShopRows : ShopEdit(s, t, row)

CatalogSpec == CatalogInit /\ [][CatalogNext]_catalogVars

-----------------------------------------------------------------------------
(* Properties *)

\* With an operator who keeps posting the catalogue until a post gets through,
\* every product it has comes to be shown as it is, archived ones included.
CatalogArrives ==
    \A i \in CatalogIds :
        <>[](catalog[i] # NoProduct => shopRow[catalog[i].sku] = Snapshot(catalog[i]))

CatalogFairSpec ==
    /\ CatalogSpec
    /\ WF_catalogVars(\E h \in Handlers : SyncCatalog(h))
    /\ SF_catalogVars(\E h \in Handlers : Apply(h))
=============================================================================
