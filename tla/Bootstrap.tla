------------------------------- MODULE Bootstrap -------------------------------
(***************************************************************************)
(* The start of the shop's and the CRM's replicas on the database that     *)
(* they share: tables are created, and the first to find no users fills    *)
(* them with its demo data in one transaction; later ones reconcile what   *)
(* they find, the shop's with its accounts, products and services, the     *)
(* CRM's with its account and its demo shops.  A replica of the CRM whose  *)
(* start fails is started again by Kubernetes; one of the shop comes up    *)
(* all the same.  Nobody orders or drops anything else meanwhile, so that  *)
(* _reconcile_invoices finds the invoices of the demo orders, or no order. *)
(*                                                                         *)
(* On Oracle the shop drops tables that have no users, to recreate them    *)
(* with identity columns.  There a DROP commits table by table, and fails  *)
(* at once at a table with uncommitted rows or one that a table of the CRM *)
(* refers to.                                                              *)
(***************************************************************************)
EXTENDS Naturals

CONSTANTS
    ShopReplicas, CrmReplicas,
    MaxRestarts     \* bound on the replicas that are restarted or killed, on
                    \* reseeds and on DDL that fails for another's

BootReplicas == ShopReplicas \cup CrmReplicas

ASSUME BootstrapAssumption ==
    /\ ShopReplicas \cap CrmReplicas = {}
    /\ MaxRestarts \in Nat

VARIABLES
    oracle,     \* the backend is Oracle, not PostgreSQL
    tables,     \* users; shared: the other common ones; shop, crm: one's own
    adminOf,    \* whose account is named admin: none, shop, crm
    crmAdmin,   \* there is an account crm-admin
    demo,       \* whose demo customers and orders there are
    offers,     \* whose products there are; shops: the CRM's demo shops
    unused,     \* the identity columns are as created
    bootPc,     \* down, inspect, drop, create, count, reconcile, insert, fill,
                \* commit, up
    account,    \* the account that a replica is about to insert
    filling,    \* it will fill the tables too, or insert products or shops that
                \* it has found missing
    restarts

content == <<adminOf, crmAdmin, demo, offers>>
bootVars == <<oracle, tables, content, unused, bootPc, account, filling, restarts>>

BootTypeOK ==
    /\ oracle \in BOOLEAN
    /\ tables \subseteq {"users", "shared", "shop", "crm"}
    /\ adminOf \in {"none", "shop", "crm"}
    /\ crmAdmin \in BOOLEAN
    /\ demo \subseteq {"shop", "crm"}
    /\ offers \subseteq {"shop", "crm", "shops"}
    /\ unused \in BOOLEAN
    /\ bootPc \in [BootReplicas -> {"down", "inspect", "drop", "create", "count",
                                 "reconcile", "insert", "fill", "commit", "up"}]
    /\ account \in [BootReplicas -> {"none", "admin", "crm-admin"}]
    /\ filling \in [BootReplicas -> BOOLEAN]
    /\ restarts \in 0..MaxRestarts

Owner(r) == IF r \in ShopReplicas THEN "shop" ELSE "crm"
Needed(r) == {"users", "shared", Owner(r)}
HasUsers == adminOf # "none" \/ crmAdmin

\* Replicas with uncommitted rows
Writing == {r \in BootReplicas : bootPc[r] \in {"fill", "commit"}}

Goto(r, label) == bootPc' = [bootPc EXCEPT ![r] = label]

\* The start fails and its transaction is rolled back.
Failed(r) == Goto(r, IF r \in ShopReplicas THEN "up" ELSE "down")

CountRestart == restarts < MaxRestarts /\ restarts' = restarts + 1

-----------------------------------------------------------------------------
(* init_tables of the shop; create_all and _ensure_* of the CRM *)

Start(r) ==
    /\ bootPc[r] = "down"
    /\ Goto(r, IF r \in ShopReplicas /\ oracle THEN "inspect" ELSE "create")
    /\ UNCHANGED <<oracle, tables, content, unused, account, filling, restarts>>

Inspect(r) ==
    /\ bootPc[r] = "inspect"
    /\ Goto(r, IF "users" \in tables /\ ~HasUsers THEN "drop" ELSE "create")
    /\ UNCHANGED <<oracle, tables, content, unused, account, filling, restarts>>

\* POST /api/admin/reseed drops without counting.
Reseed(r) ==
    /\ r \in ShopReplicas /\ bootPc[r] = "up"
    /\ CountRestart
    /\ Goto(r, "drop")
    /\ UNCHANGED <<oracle, tables, content, unused, account, filling>>

\* drop_all reaches the users, the last of its tables.
DropAll(r) ==
    /\ bootPc[r] = "drop"
    /\ Writing = {} /\ "crm" \notin tables
    /\ tables' = {}
    /\ adminOf' = "none" /\ crmAdmin' = FALSE
    /\ demo' = {} /\ offers' = offers \cap {"shops"}
    /\ Goto(r, "create")
    /\ UNCHANGED <<oracle, unused, account, filling, restarts>>

\* It stops on its way: on PostgreSQL nothing has happened, on Oracle what it
\* had dropped is gone.
DropSome(r) ==
    /\ bootPc[r] = "drop"
    /\ "crm" \in tables \/ (oracle /\ Writing # {})
    /\ IF oracle THEN /\ tables' = tables \ {"shared", "shop"}
                      /\ demo' = {} /\ offers' = offers \cap {"shops"}
                 ELSE UNCHANGED <<tables, demo, offers>>
    /\ Failed(r)
    /\ UNCHANGED <<oracle, adminOf, crmAdmin, unused, account, filling, restarts>>

\* What is missing is created.
Create(r) ==
    /\ bootPc[r] = "create"
    /\ tables' = tables \cup Needed(r)
    /\ unused' = (unused \/ "shared" \notin tables)
    /\ Goto(r, "count")
    /\ UNCHANGED <<oracle, content, account, filling, restarts>>

-----------------------------------------------------------------------------
(* seed_data and bootstrap_database *)

\* Faulty variants: the CRM's first account has a name of its own; it is called
\* admin whoever else is.
AccountOfItsOwn(r) == IF r \in ShopReplicas THEN "admin" ELSE "crm-admin"
AccountAdmin(r) == "admin"

\* Which account a start is going to insert
AccountFor(r) == IF r \in CrmReplicas /\ adminOf = "shop" THEN "crm-admin" ELSE "admin"

\* The tables that a start needs are not there.
Missing(r) ==
    /\ bootPc[r] \in {"count", "reconcile", "insert", "fill"}
    /\ ~(Needed(r) \subseteq tables)
    /\ Failed(r)
    /\ UNCHANGED <<oracle, tables, content, unused, account, filling, restarts>>

\* What a reconciling start inserts if it is missing
Added(r) == IF r \in ShopReplicas THEN "shop" ELSE "shops"

\* There are users, and the CRM's account among them.
Look(r) ==
    /\ bootPc[r] = "count" /\ Needed(r) \subseteq tables
    /\ HasUsers
    /\ r \in ShopReplicas \/ adminOf = "crm" \/ crmAdmin
    /\ filling' = [filling EXCEPT ![r] = Added(r) \notin offers]
    /\ Goto(r, "reconcile")
    /\ UNCHANGED <<oracle, tables, content, unused, account, restarts>>

\* The CRM updates its account and adds its demo shops; the shop makes the
\* account named admin its own, whosever it was, and adds its products and
\* services to whatever is there.  Both wait for rows that are being written, and
\* fail if the rows they have read are gone, or those they miss there by now.
Reconcile(r) ==
    /\ bootPc[r] = "reconcile" /\ Needed(r) \subseteq tables
    /\ Writing = {}
    /\ IF ~HasUsers \/ (filling[r] /\ Added(r) \in offers)
       THEN Failed(r) /\ UNCHANGED <<adminOf, offers, unused>>
       ELSE /\ adminOf' = IF r \in ShopReplicas THEN "shop" ELSE adminOf
            /\ offers' = offers \cup {Added(r)}
            /\ unused' = (unused /\ ~(filling[r] /\ r \in ShopReplicas))
            /\ Goto(r, "up")
    /\ UNCHANGED <<oracle, tables, crmAdmin, demo, account, filling, restarts>>

\* There are no users at all, or not the CRM's.
Plan(r) ==
    /\ bootPc[r] = "count" /\ Needed(r) \subseteq tables
    /\ HasUsers => r \in CrmReplicas /\ adminOf # "crm" /\ ~crmAdmin
    /\ account' = [account EXCEPT ![r] = AccountFor(r)]
    /\ filling' = [filling EXCEPT ![r] = ~HasUsers]
    /\ Goto(r, "insert")
    /\ UNCHANGED <<oracle, tables, content, unused, restarts>>

\* INSERT of the account, as soon as nobody else has inserted it and not yet
\* committed; if it is there by then the start fails.
Insert(r) ==
    /\ bootPc[r] = "insert" /\ Needed(r) \subseteq tables
    /\ \A other \in Writing : account[other] # account[r]
    /\ IF (account[r] = "admin" /\ adminOf # "none") \/ (account[r] = "crm-admin" /\ crmAdmin)
       THEN Failed(r)
       ELSE Goto(r, IF filling[r] THEN "fill" ELSE "commit")
    /\ UNCHANGED <<oracle, tables, content, unused, account, filling, restarts>>

\* The demo data.  The shop's refers to its rows by the numbers that unused
\* identity columns would give them.
Fill(r) ==
    /\ bootPc[r] = "fill" /\ Needed(r) \subseteq tables
    /\ unused' = FALSE
    /\ IF r \in ShopReplicas /\ ~unused THEN Failed(r) ELSE Goto(r, "commit")
    /\ UNCHANGED <<oracle, tables, content, account, filling, restarts>>

CommitSeed(r) ==
    /\ bootPc[r] = "commit"
    /\ IF account[r] = "admin" THEN adminOf' = Owner(r) /\ UNCHANGED crmAdmin
                               ELSE crmAdmin' = TRUE /\ UNCHANGED adminOf
    /\ demo' = IF filling[r] THEN demo \cup {Owner(r)} ELSE demo
    /\ offers' = offers \cup (IF filling[r] THEN {Owner(r)} ELSE {})
                        \cup (IF r \in CrmReplicas THEN {"shops"} ELSE {})
    /\ Goto(r, "up")
    /\ UNCHANGED <<oracle, tables, unused, account, filling, restarts>>

\* A replica is killed or replaced, or its DDL meets another's.
Restarted(r) ==
    /\ bootPc[r] # "down"
    /\ CountRestart
    /\ Goto(r, "down") \/ (bootPc[r] = "create" /\ Failed(r))
    /\ UNCHANGED <<oracle, tables, content, unused, account, filling>>

BootInit ==
    /\ oracle \in BOOLEAN
    /\ tables = {}
    /\ adminOf = "none" /\ crmAdmin = FALSE /\ demo = {} /\ offers = {}
    /\ unused = FALSE
    /\ bootPc = [r \in BootReplicas |-> "down"]
    /\ account = [r \in BootReplicas |-> "none"]
    /\ filling = [r \in BootReplicas |-> FALSE]
    /\ restarts = 0

BootStep(r) ==
    \/ Start(r) \/ Inspect(r) \/ DropAll(r) \/ DropSome(r) \/ Create(r)
    \/ Missing(r) \/ Look(r) \/ Reconcile(r) \/ Plan(r) \/ Insert(r) \/ Fill(r) \/ CommitSeed(r)

BootNext == \E r \in BootReplicas : BootStep(r) \/ Reseed(r) \/ Restarted(r)

BootSpec == BootInit /\ [][BootNext]_bootVars

-----------------------------------------------------------------------------
(* Properties *)

\* However many replicas of both services find the tables empty at the same
\* time, at most one of them fills them: the demo customers, orders, invoices and
\* what else refers to them are those of one service, whosever accounts, products
\* and services later starts add to them.
OneDemoSet == demo # {"shop", "crm"}

\* Starts do not fail for ever on what the others have done: a replica that is
\* not left down is up in the end and stays so.
StartsSettle ==
    \A r \in BootReplicas : []<>(bootPc[r] # "down") => <>[](bootPc[r] = "up")
=============================================================================
