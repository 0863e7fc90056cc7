# Verification of the OCTO order system

TLA+ models of the parts of octo-apm-demo that change shared state concurrently: placing an order in
the shop, deciding its payment, the payment webhooks, the circuit breaker in front of the CRM, the
asynchronous path that carries orders to the CRM, the CRM's copies of them, the catalogue's way in the
other direction, the services' start on their shared database, the CRM's session gate, load control,
the stress runner, the remediator and the chaos hook. TLC checks the models on small instances; TLAPS
proves every safety property they check for instances of any size. Paths below are relative to the root of
the repository; `shop/` is the drone shop and `crm/` the CRM portal.

## Running it

    tlc -workers 2 -config MCCheckout.cfg MCCheckout     # any of the configurations below
    tlapm CheckoutProofs.tla                             # any of the *Proofs modules

`PROJECT.json` lists the runs with the properties each checks, the correspondence of every definition
with lines of code, the faulty variants, the hazards, the findings and the theorems.

---

## 1. The system and its parts

The shop and the CRM are two FastAPI services, each one asyncio event loop per process and several
processes (pods) over one SQL database (Oracle ATP in production, PostgreSQL otherwise). Around them
are small services that share Redis and Kubernetes.

    storefront --> shop: cart, checkout --> shop database <-- shop: webhooks <-- payment provider
                     |      |   |                 ^    ^
                     |      |   |                 |    +---- administrator
                     |      |   +--(HTTP)--> Java app server: verification, authorization
                     |      +--(breaker)--> CRM: POST /api/orders --> CRM orders <-- CRM users
                     |                            ^        ^                 ^
                     +--> Redis stream --> async workers ---+                 +-- periodic pull from the shop
                                |  ^
                                v  | drain tool              CRM catalogue --(posts)--> shop products
                           dead letters

    alarms --> remediator --> Kubernetes (HPA) <-- auto-revert CronJob
    operators --> load control --> load profiles
    CRM administrators --> stress runner --> k6
    CRM administrators --> chaos scenario --> hook in the shop's synchronous engine

| Component | Code | State | Hard |
|---|---|---|---|
| Checkout, cart | `shop/server/store_service.py`, `modules/shop.py`, `modules/orders.py`, `database.py` | stock, coupons, customers, cart rows, orders | transactions interleave statement by statement; unique violations and retries; row locks in the buyer's order; a charge cannot be rolled back; the process dies between commit and push |
| Payment decision | `shop/server/modules/payment_gateway_simulation.py`, `payments/checkout_workflow.py`, `payments/simulated_provider.py`, `payments/gateway_emulator.py`, `java_app_server.py`, `services/apm-java-demo` | the opinions of four sources, the payment_transactions row, the payment_gateway_events | two remote calls that fail in many ways; later opinions overwrite earlier ones |
| CRM circuit breaker | `shop/server/middleware/circuit_breaker.py`, `modules/integrations.py` | state, counters, slots | calls of an earlier episode end in a later one; slots that are never given back |
| Payment webhooks | `shop/server/modules/payments/` | order status, acknowledged events | repeated, reordered, overlapping deliveries; read, decide and write without lock or version |
| Asynchronous path | `services/async-worker`, `shop/server/modules/order_sync_async.py` | stream, consumer group, pending lists, dead letters | a retry is XADD then XACK; claims from slow workers; trimming; crashes |
| CRM orders | `crm/server/modules/orders.py`, `crm/server/order_sync.py` | order rows, item rows, row locks | pushes, pulls and users write the same row; concurrent inserts of orders, customers and products; overlapping pulls replace each other's items; on the shop's schema a pull lists the CRM's own copies |
| Catalogue | `crm/server/modules/products.py`, `shop_catalog_sync.py`, `shop/server/crm_catalog_sync.py` | the CRM's products, the shop's rows by SKU | one best-effort post after each commit, in any order |
| Bootstrap | `shop/server/database.py`, `crm/server/bootstrap.py`, both `main.py` | tables, accounts, demo data | replicas of both services start together; DDL commits by itself on Oracle |
| Session gate | `crm/server/middleware/session_gate.py`, `modules/auth.py` | semaphore, executor queue, cache | a timeout gives up on a thread that runs on; an outage must not log anybody out |
| Load control | `services/load-control` | file ledger, in-memory copy of each run | handler, watcher and cancellation write from copies of different age, on two replicas without a file lock |
| Stress runner | `tools/stress-runner`, `crm/server/modules/stress_test.py` | the active run, its process and two tasks | a POST awaits while it holds the lock; process exit, waiter, hard timeout and clear race |
| Remediator | `services/remediator` | run stores of two replicas, HPA annotations | approvals, rejections and restarts overlap with execution; the CronJob reads, then patches |
| Chaos hook | `shop/server/chaos`, `crm/server/chaos/admin.py` | pool of connections, scenario row | the hook's own read runs through the hooked engine |

What each needs to be correct is what section 3 checks. Not modelled, with the reasons, is section 6.

---

## 2. What is modelled

| Module | Extends | What it is |
|---|---|---|
| `OrderBook` | | what placing an order promises, abstractly |
| `Checkout` | | placements and cart requests, statement by statement |
| `CheckoutProps` | `Checkout` | its properties, the refinement of `OrderBook`, the inductive invariant |
| `PaymentDecision` | | how one payment is decided |
| `CrmBreaker` | | the breaker and the calls it guards |
| `OrderWebhook` | | the status of one order under webhooks and an administrator |
| `OrderStream` | | the asynchronous path |
| `CrmOrders` | | the CRM's rows under pushes, pulls and users |
| `CatalogSync` | | the CRM's catalogue and the shop's copy |
| `Bootstrap` | | replicas of both services starting on one database |
| `SessionGate` | | admission, lookup and cache of sessions in one replica |
| `LoadRuns` | | the ledger of load control |
| `StressRuns` | | the stress runner and what the CRM tells of it |
| `Remediation` | | playbook runs and the autoscaler they raise |
| `ChaosHook` | | the nested statements of the chaos hook over the pool |
| `CheckoutProofs`, `PlacementProofs`, `OrderWebhookProofs`, `OrderStreamProofs`, `CrmOrdersProofs`, `ServicesProofs`, `StreamPartsProofs` | the above, TLAPS | the proofs; `PlacementProofs` builds on `CheckoutProofs`, `ServicesProofs` holds those of the components of `MCServices`, `StreamPartsProofs` those of `MCOrderStream`, and with `OrderWebhookProofs` each those of one composition |
| `InductionLemmas` | TLAPS | induction over natural numbers, finite sets and their sums |
| `MC...` | the above | instances for TLC |

Definitions introduced by "Faulty variant" are mutations of the definition that follows them. No
specification uses them: put in the place of that definition they break the property `PROJECT.json`
names, which shows that the property can be broken in the instance that checks it.

### Checkout

One action is one SQL statement, or one awaited call, of a request; `pc` is where the request's
coroutine stands. The handlers' steps in order are `FetchItems` (cart or payload),
`SelectCustomer`/`UpsertCustomer` (`ensure_customer`), `LookupKey`, `SelectCoupon`/`RedeemCoupon`
(`apply_coupon`), `InsertOrder` and on a unique violation `LookupConflict`, `ReserveLine` for each
line, `ClearCart`, `AuthorizePayment`, `PersistPayment`, `Commit`, `PushToCrm`; `Abort` is an
exception anywhere, `CrashAfterCommit` the process dying before the push. `POST /api/orders` leaves out
the key and the payment. `AddSelect`/`AddWrite` and `RemoveRow` are the cart endpoints.

The database is modelled as READ COMMITTED with row locks, the engines' default, since the code sets
no isolation level. `stock`, `used`, `customers`, `cart`, `order` are the committed tables. What a
transaction has written is its `draft` order and the rows in `locks`; `Commit` copies it into the
tables and `Rollback` drops it. `Acquire` makes a statement wait while another transaction holds a row or
unique value it needs, and `DeadlockVictim` is the database breaking a cycle of waits.
`charged` and `pushed` record what the gateway and the CRM have heard, which no rollback undoes.
`says` is the request's own copy of the payment status, which `PushToCrm` sends without another look at the row: the
default that `InsertOrder` gives it, what the request has read of an order of the same key (`Replay`), or what
`PersistPayment` has written.

Left out: prices (only whether the coupon's discount was granted), shipment rows, tracking numbers,
the texts of answers, and the two demo callers of `place_order` (storyboard and dashboard).

### PaymentDecision

`Begin` builds the context (reasons and risk of a card, wallet or transfer) and the simulated provider's
opinion, `Local`; `Verify` and `Process` are the two requests to the Java server, each answered by the
server's own rules (`Verification`, `Processing`) or not at all (`NoOpinion`: disabled, unreachable, an
error); `Decide` merges the opinions in the code's order (`MergeVerification`, `MergeProcessor`,
`MergeAntifraud`) and writes the row. `Raise` is an exception, which takes the rows with it, `Skip` the
switched-off simulation. Weights, thresholds and amounts are the code's; a hash adds any number of its
range; a card is one of the classes that the code tells apart.

On the way the gateway emulator emits one step after the other (`emitted`): those of the method
(`MethodSteps`), a request and a response for each of the two calls, the routing and, after the merges, the
result. `Decide` stores them with the row. A step is a name and a status here; its span, attributes and
latency are left out. The code says which steps a method has in two places, the emulator itself and the
capabilities it announces (`Capabilities`); `Recorded` compares them. One thing to know when reading the
events: the response of the processor is "completed" by any answer, a decline too, and the routing through
the network is "completed" even when the Java server was never reached (`gateway_emulator.py:383`, `412-434`),
so of the steps only the verification's response and the last one tell what was decided.

### CrmBreaker

Breaker methods run without an await and are atomic. Time is one bit, whether
`recovery_timeout` has passed since the last failure. `AdmitClosed`, `AdmitProbe` are
`allow_request`; `End` is `RecordSuccess`, `RecordFailure`, `RecordBoth` (an answer recorded before
its body fails to parse) or `EndUnrecorded` (the returns at integrations.py:394-409, cancellation).
`probes`, `lost` and `streak` are bookkeeping for the properties.

### OrderWebhook

`Deliver`, `Select` (`UnknownOrder`, `Ignore`, `Choose`), `Write`, `Emit`, `Interrupt` are the stages of a
delivery. Between `Choose` and `Write` other deliveries and `AdminUpdate` may change the row.
`CheckoutCommits` makes the order visible. Signature checks are deliveries that pass.

### OrderStream

An entry is its index in `log`, the history of all XADDs; `first` is where trimming has got to and
`last`, `pel` are the consumer group. `Add` is an XADD with an approximate MAXLEN: it may trim any
part of what exceeds it. A worker (`batch`, `at`, `stage`) does `Poll` or `Recover` when it has
nothing, then `Post`, and `Park` (retry or dead letter) or `ForceDlq`, and `Ack` for each entry, the
XADD and XACK being separate steps. `Crash` is the pod dying, or an XADD or XACK that raises, which
nothing in `Worker.run` catches. `DrainRetry`, `DrainDelete`, `DrainDrop` are octo-dlq-drain. The CRM's
side of `Post` is taken from `create_order`: it stores an order once, answers 200 with an error when it
knows no such customer, or fails after it may have stored the order.
The dead letters' own MAXLEN of 100,000 is taken not to be reached.
`refused`, `blanked`, `dropped`, `trimmed` and `disturbed` record why an order may be gone or
duplicated.

### CrmOrders

A pull (`_orders_sync_loop`, `POST /api/orders/sync`) is `Fetch`, which takes the list of the latest
`Window` orders from the shop, and then for each of them a savepoint with the statements of `_upsert_order`:
`PullSelect`, `InsertCustomer` if the customer is not known, `PullWrite` (INSERT or UPDATE of the order) and `PullItems`
(DELETE of its items, INSERT of a product that is not known, INSERT of the items); `PullCommit` shows all of it.
A push (`create_order`) is `PushCustomer`, which commits by itself, and `PushSelect`, `PushUpdate` or `PushInsert`, and on a
unique violation a rollback and `PushReselect`. Pushes and pulls write only the columns that they changed in their own copy of
the row (`pullSaw`, `pushSaw`), as the ORM does. `Edit` is `update_order_status` by a user, in one step. The shop's
orders (`shopOrder`) are placed and change by themselves.

A pull keeps three kinds of locks to the end of its transaction: that of each order's row (`rowLock`), and those of the e-mails and
SKUs that it has inserted (`inserted`), both unique. An INSERT of the same value waits until the other
transaction is over (`NameFree`). `PullClash` (what is to be inserted has appeared since the SELECT), `PullFails` and
`PullVictim` (the database ends a circle of waits, `Circle`) roll back to the savepoint, with the names inserted since then
(`fresh`), and go on with the next order; `PullLost` is the pod dying. `names` are the committed customers and products
that pulls and pushes have added, `stocked` the products that the CRM has under the number the shop lists. A product that is
not among the latter is looked up in vain by every pull, since the lookup knows SKUs, names and the CRM's numbers only
(`order_sync.py:403-420`).

The repository describes two deployments. `crm/docker-compose.yml:9` gives the CRM a database of its own; `ARCHITECTURE.md:21,155`
and the CRM's bootstrap (`bootstrap.py:79-80`, `249-250`) share the shop's schema. `shared` says which. On the shared schema
the shop's `list_orders` (`orders.py:225-249`) does not tell its orders from the CRM's copies, so that a pull lists the copies
and copies them too. A key `<<o, d>>` is therefore an order (d = 0) or the copy of `<<o, d - 1>>`, up to `Depth`, and `Source` the row
that the shop lists for it. There the customers and products of the orders are known, and copies
are as old as what they copy, so that the list may come in any order (`Turn`, `Latest`).

### CatalogSync

`CreateProduct`, `UpdateProduct` (of the SKU too) and `DeleteProduct` (which archives or deletes) commit and
leave a `post` with a snapshot; `Apply` is the shop's transaction and `Lose` a post that does not arrive.
`SyncCatalog` posts everything. `ShopEdit` is a shop administrator's change.

### Bootstrap

A replica goes through `Inspect` and `DropAll` or `DropSome` (Oracle), `Create`, and then `Reconcile`, or `Plan`,
`Insert`, `Fill` and `CommitSeed`. An `Insert` waits while another replica has inserted the same account and not
committed, and fails if it did commit. `Look` and `Reconcile` are the start that finds users: it inserts what it
misses of its own data, `Added`, into whatever is there, the shop its accounts, products and services
(`database.py:1010-1079`, `1113-1120`), the CRM its demo shops (`bootstrap.py:105`), and fails if another one has done so since it
looked. `demo` is whose customers, orders and invoices fill the tables, `offers` whose products there are and whether there are
the CRM's shops. `Failed` leaves a shop replica up and a CRM replica down, to be started
again. `Reseed` is the shop administrator's, `Restarted` a kill.

### SessionGate

`Admit`/`Saturated` are the semaphore, `jobs` the executor's queue and `lookupOf`/`lookup` its threads
(`Take`, `Select`, `Return`, `Fail`). `TimeOut` is `asyncio.wait_for`: it ends the request and cancels what is
still queued, but a lookup that runs goes on. `CacheAges` and the two ages of a cache entry stand for the time
to live. `Logout` deletes the row at any replica; no cache hears of it.

### LoadRuns

`ledger` is the newest line of each run, `task` the stage of the copy that a replica holds. `Launch`,
`Dispatched`, `DispatchRaised` are the handler, `WatchOver` the watcher, `CancelRead` and `CancelWrite` the DELETE's two
operations on the file (`deleting` is who stands between them), `ShutDown` and `Kill` the ends of a replica. Nothing awaits
between those two, so that the other tasks of the same event loop stand still (`Busy`); nothing locks the file, so that those of
the other replica (`replicas: 2` on one volume, `api.py:12-13`) do not.

### StressRuns

`PostRun` validates the body, `Locking` takes the lock and looks at the active run, which leads to `Refuse` or
to `Spawn`, the awaited `create_subprocess_exec`, and `Start` or `SpawnFails`. `Clear`, `HardTimeout` and
`Completed` (the waiter) are the other holders of the lock; `K6Exits` and `Reap` separate the exit from the
loop's learning of it; `RunnerRestarts` is the container's restart. `TellUser` is what the CRM's `apply_run`
makes of the answer.

### Remediation

`Alarm`, `Propose` (one playbook at a time: the handler awaits while cache-flush runs), `Approve`, `Reject`, `FlushOver`, `Patch`
are the service, whose store lives in one replica's memory; `Restart` empties it. scale-hpa reads the autoscaler and then
patches it. `CronList`, `CronPatch`, `CronFails` are `autorevert.py`. Nothing in the repository writes the
annotations it goes by, so `Annotate` is an operator's, and the constant `Annotates` says whether there is one.

### ChaosHook

`nested` counts the connections a thread holds, one inside the other: with chaos enabled `Connect` leads to
the hook, whose read is the next statement of the same engine. `GiveUp` is the pool's timeout, which the innermost
hook takes for no scenario; `Execute` and `Fault` end one statement after the other on the way out. The scenario
row is changed by `SetScenario`.

### Several components in one run

Components that share no state are checked together: a variable `part`, set initially and never changed,
says which one moves, and the others stay in one initial state. Every behaviour of the union is one of one
component, so an invariant or property holds in the union exactly if it holds in each. Fairness is
conditioned on `part` and says nothing of the components that stand still.

---

## 3. What the runs check

| Run | Instance | Shows |
|---|---|---|
| `checkout` | 2 placements out of 5 kinds of request, 2 adds, 2 products (2 and 1 units), 1 key, 1 coupon, 2 e-mails | 9 properties of placements and the refinement of `OrderBook` |
| `orders` | placement: 2 requests with the same products in opposite order, under one key or none. webhook: 2 events of any kind, 2 overlapping deliveries, an administrator | placements end; webhooks are legal, acknowledged and refund nothing unpaid |
| `stream` | stream: 2 orders, 2 workers, 2 attempts, room for 3, 1 upset. remediation: 2 alarms, 2 replicas. payment: amounts 50.00 and 90,000.00, every card, wallet, mode and outage. stress: 3 runs | nothing lost, one copy; single execution; refusals stand; one k6 |
| `services` | breaker: 3 calls, 2 slots, threshold 2. stream: 1 order, 2 workers, 1 upset. load: 2 runs, 2 replicas. session: 3 clients, 1 thread. catalogue: 2 products, 2 SKUs, 2 posts, 4 changes. bootstrap: 2 + 2 replicas, 1 restart. hook: 2 threads, 3 connections | safety of each, and liveness under its own fairness |
| `crm` | 2 overlapping pulls, 1 push, 2 orders of 2 customers for 1 product, 1 change, edit or failure, on a database of the CRM's own or on the shop's | items, waits, convergence |
| `coupon_cap`, `breaker_stuck`, `webhook_sinks`, `stream_garbled`, `hpa_revert`, `gate_overflow`, `stress_started` | the least instance of each | findings 1 to 7 |

**Orders and payments.**
`OneOrderPerKey`: at most one order per idempotency key.
`AnswersArePlaced`: whoever is answered with an order gets a committed one, its own or its key's.
`ShortOnlyWhenGone`: an order is cut short only if the stock at its commit could not have covered what
is missing.
`CouponUsesAreOrders`: `used_count` is the number of committed discounted orders.
`PaymentColumnsAgree`: status, payment_status and payment_required tell the gateway's story.
`SecondChargeNeedsRollback`: two authorizations under one key only after a rollback of the first
one's transaction.
`CrmHearsTheTruth`: only committed orders are pushed, and what a request says of the payment from its own copy is what was
stored, also where the order is that of another request with its key.
`CartRowsLeaveWithAnOrder`: an aborted placement costs no cart rows.
`ImplementsOrderBook`: every step is a step of the abstract order book or changes nothing there.
`EveryPlacementEnds`: waits and deadlocks come to an end.
`DecisionStands`: no later opinion overturns an earlier refusal, the row's code and source explain its status,
and the stored gateway events are the announced steps and end with the same status.
`LegalOrStale`: a status change follows an edge of the state machine, is an administrator's, or is
the lost update of a handler whose row changed after it read it.
`RefundedWasPaid`: in whatever order and however often events arrive, no unpaid order is refunded.
`EveryEventAcked`: events that came early or are illegal now are acknowledged too.

**Towards the CRM.**
`ClosedCountsStreak`, `SlotsAccounted`, `ProbeDecidesUnlessLost`, `OpenProbesAgain`: the breaker trips on
exactly `failure_threshold` consecutive failures, its slots are those of outstanding and of lost
probes, a probe decides unless a slot was lost, and an open breaker probes again.
`NothingLost`: every published order is in the CRM, refused or dropped, trimmed, answered as an
unreadable payload, or somebody still has to deal with a copy.
`OneCopy`: an order that no crash, claim or drain has touched has one copy at a time and is put on the
stream at most `max_delivery_attempts` times.
`EveryOrderSettles`: although workers die with entries in memory, every published order is settled.
`OneSetOfItems`: whoever inserted a copy and whichever pulls replaced its items, it has one set.
`CirclesAreAboutNames`: on a database of the CRM's own, pulls wait for each other's orders only towards older ones, so that in every
circle of waits there is one who inserts a customer or a product that the CRM did not have.
`CopiesConverge`: on a database of the CRM's own, once the writers are done, every copy in the window shows what the shop
shows, if the order is for a product that the CRM has; deadlocks and their victims do not keep it from it.
`CatalogArrives`: with an operator who keeps syncing, every product comes to be shown as it is.

**The services around them.**
`OneDemoSet`: however starts, kills and reseeds interleave, the customers, orders and invoices of the demo are those of one
service, although products, services, shops and accounts do come from both. `StartsSettle`: starts do not fail for ever on what other
replicas have done.
`OutageLogsNobodyOut`: nobody is refused while the session exists. `LogoutTakesHold`: no cache keeps a
deleted session alive for ever.
`OverIsOver`: succeeded and failed are final but for a DELETE on another replica than the run's that had read the run before.
`RunsComeToRest`: a run ends unless its copy died with the replica.
`RunnerKnowsItsK6`: a k6 that lives is the active run, is not reported as over, and was told to stop or will be.
`ExecutedOnce`: no run is executed twice, or after a rejection, or before the approval it needs.
`OneStepDown`: the CronJob takes back one replica at a time and stops at the baseline.
`EveryStatementEnds`: also when hooks of several threads have taken the whole pool.
`IInv`, `CrmIInv`, `ServicesTypeOK`, `StreamTypeOK`, `OrdersTypeOK` are the types and the inductive invariants
of section 4, checked on the same instances.

**Why the bounds are enough.** Conflicts in the checkout are between two transactions over a row or a
key, so two placements show each pair of statements in each order; the five kinds of request make them
meet on the key, the coupon, the cart, the customer and both products, and one product can be short. A
cycle of waits needs two products. Three breaker calls are one left over from before the trip and two
probes; the threshold of 2 is the least at which a count differs from a single failure. Two events and
two handlers give every overlap of two deliveries. In the stream a retry, a dead letter and a drained
entry each add an entry, so a stream of three is trimmed; two attempts distinguish a retry from a
dead letter; two workers claim from each other. `MaxUpsets` bounds crashes, lost answers, claims from
live workers and drains together: each of them occurs alone there, and `NothingLost` is proved for any
number. `MaxEvents`, `MaxChanges` and `MaxRestarts` do the same for the CRM, the catalogue and the starts; two
pulls over two orders can overlap on both rows, and a push with a missing row meets an insert by a pull. With two customers and
one product a pull holds the product while it waits for the customer that another has inserted, and that one comes to wait for the product.
`MCCrmOrders` takes one difficulty at a time (`case`): "stale" has everything known and every writer, an event and a push among
them, but places the second order as paid; "names" has customers and products that may be missing, pulls and pushes, and no
events; "shared" has the shop's schema, one order and its copies, and no pushes. There a `Depth` of 1, an
order and the copy of its copy, shows a pull that writes what it has itself listed; the theorems are for any `Depth`, number of orders
and mixture of the three. Four
changes rename a product into the SKU another has left. Two replicas of each service meet within and across
services. Three clients over two slots saturate the gate, one thread makes a queue, and three jobs are one
more than the slots. Two alarms with three tiers give two runs of every playbook. Three stress runs are one
that is active, one that is refused and one that follows. Two threads over three connections take the pool
in different shares. The amounts lie on both sides of the largest threshold and the two hash values at the ends of their range.
TLC's counters saturate or are bounded by the constants: `failureCount` and `streak` saturate at
the threshold, beyond which the code compares no further.
`stream` uses symmetry in orders and workers and checks no liveness. Deadlock is not checked
(`CHECK_DEADLOCK FALSE`): every instance has finitely many requests, events, orders or changes and may stop
when all are done.

**Fairness.** Crashes, restarts, failures and users' wishes are never fair.

| Condition | What it assumes | Why the code justifies it |
|---|---|---|
| `PlacementFair` | a statement whose locks are free is run; the database breaks a cycle of waits | event loop; Oracle and PostgreSQL detect deadlocks |
| `WebhookFair` | an unacknowledged event is delivered again, and its deliveries are not always interrupted at the same step (strong) | providers retry until a 2xx |
| `BreakerFair` | calls end, time passes, the storefront goes on calling | each HTTP request has a timeout of 10 s |
| `StreamFair` | workers poll and handle; an entry no worker has is claimed in the end (strong) | `Worker.run` loops; recovery every 20 polls |
| `LoadFair` | handlers and watchers go on, a DELETE that has read writes | event loop; the watcher sleeps for the run's duration |
| `SessionFair` | admission succeeds or gives up, lookups time out after 8 s, cache entries age | `wait_for` and the cache's time to live |
| `CatalogFair` | the operator keeps syncing; posts are not all lost (strong) | assumed of the operator and the network, stated by the property |
| `BootFair` | a replica that starts goes on | process and database |
| `HookFair` | a statement goes on; a wait for a connection ends after 30 s | SQLAlchemy's pool_timeout |
| `MCFairSpec` of the CRM | pulls are fetched and go on; the database ends circles of waits | `_orders_sync_loop` runs for ever; Oracle and PostgreSQL detect deadlocks |
| `RemFairSpec` | the CronJob comes round, the playbooks' calls return | Kubernetes schedule, client timeouts |

---

## 4. What is proved

TLAPS proves the following for any values of the constants that satisfy the assumptions named in the modules
(`CheckoutAssumption`, `CrmBreakerAssumption`, `OrderWebhookAssumption`, `OrderStreamAssumption`,
`CrmOrdersAssumption`, `LoadRunsAssumption`, `SessionGateAssumption`, `RemediationAssumption`,
`BootstrapAssumption`, `StressRunsAssumption`, `CatalogSyncAssumption`, `ChaosHookAssumption`,
`PaymentDecisionAssumption`): constants have their types, sets that are counted are finite,
"nothing" is none of the somethings.

* `CheckoutProofs`: `Inductive` (of `CoreInv`), `TypeCorrect`, `KeyIsPlacedOnce`, `AnswersAreCommitted`, `Refinement`.
  `OneOrderPerKey` is not inductive on its own: that a commit adds no second order rests on the draft
  owning the lock of its key, and on no committed order having that key. `CoreInv` therefore says
  that locks are exclusive (`LocksExclusive`), what each program counter implies for a request's locals
  (`Position`), that a draft owns its key and holds, under locked product rows, no more units than are
  in stock (`DraftOwns`), and that an answer which is no draft is a committed order of the same key
  (`AnswerPlaced`). That `stock` stays a natural number follows from the same conjunct. For the refinement, a
  commit is `Place` or `Replay` of `OrderBook` and every other step leaves `placed` and the answers
  alone.
* `PlacementProofs`: `BooksAreKept` (of `IInv`, which is `CoreInv` and `Bookkeeping`), and from it `CouponsAreCounted`,
  `ColumnsTellOneStory`, `CrmIsToldTheTruth`, `KeyIsChargedOnce`, `CartsEmptyWithOrders`, `ShortOrdersFoundTooLittle`, `SomebodyAlwaysMoves`.
  `Bookkeeping` says of each request what the gateway has heard of it and what became of that
  (`PaymentSoFar`: an authorization without a draft or an order belongs to a request that failed), that the request's own
  copy of the payment status follows its draft, or the committed order that it answers with (`Snapshot`: this is what
  `CrmIsToldTheTruth` rests on, with the fact that a committed order's status is not written again), that a
  draft's discount and its lock on the coupon go together (`CouponHeld`: a commit adds one use exactly when it
  adds one discounted order; the counts are compared with the library's theorems on cardinalities), that locked cart rows are of the
  session (`RowsHeld`), and that for the lines reserved so far a product was taken at most as often as asked
  for, and less only where its stock is too small (`LinesReserved`). The last one is about a sum over order lines
  (`Ordered`): that the sum up to a line grows with the lines is an induction (`SetInduction` of `InductionLemmas`).
  `SomebodyAlwaysMoves` is the safety half of `EveryPlacementEnds`: as long as any placement is in its transaction, one of
  them has the locks it needs, or is on a circle of waits (`Deadlocked`) that the database breaks. Locks are held inside
  transactions only (`HoldersAreInside`), so where all wait they wait for one another, and a least such set is a
  circle (`WaitersCircle`).
* `OrderWebhookProofs`: `RefundsNeedPayment`, `ChangesAreLegalOrStale`. A handler remembers: what it will write is
  an edge from what it saw, and if it saw paid the order was paid (`HandlerKnows`, `PaidKnown`). For the
  composition of `MCOrders`, `OrdersKeepTypes` and `OrdersImplement`, see below.
* `OrderStreamProofs`: `Inductive`, `NoOrderLost`, `FilesAreKept`, `OneCopyAtATime`. To types it adds that a busy worker deals with an entry of its
  batch and that a dead letter put back by the drain is still first in the dead letters. The proof
  follows each copy: an XADD keeps every waiting entry or puts its order among the trimmed (`AddKeeps`);
  an entry moves to "being acknowledged" only when its order has another copy or is settled
  (`DeadLetterSafe`, `AddedIsSafe`, `PostSafe`); every other step keeps copies where they are (`QuietStep`).
  `OneCopy` needs more: that of an order nobody disturbed only the newest entry is live, that is, somebody has it or
  will get it and has more to do than acknowledge it, that its attempts increase along the stream, and that it is in one memory and has no
  dead letter (`SingleFile`). A retry therefore adds an entry with the next attempt and retires the one
  before it; the attempts of an order's entries differ and are at most `MaxAttempts`, which bounds their number.
* `CrmOrdersProofs`: `CrmInductive`, `ItemsNeverDouble`, `OnlyNamesDeadlock`. A pull holds the lock of exactly the rows
  it has written, what it has deleted is all the items there are, and on a database of the CRM's own it works downwards (`PullHolds`);
  what it has listed and seen is there (`PullKnows`), a row that a push has seen does not disappear (`PushKnows`), and a name is
  inserted by one pull at a time (`NamesAreOnce`). One set of items is preserved because nobody else can write the row between the
  DELETE and the commit; this holds on the shared schema too. For `OnlyNamesDeadlock` the lemma `PullsWaitDownwards` says
  that of two pulls that wait at orders the one that is waited for waits at an older one (`WaitsDescend`); in a circle of such waits the one
  at the oldest order would have nobody to wait for, so that somebody on it waits at an INSERT of a name.
* `ServicesProofs`, the components of `MCServices`. The breaker: `SlotsAreAccounted`, `BreakerCountsStreaks`. The two and the
  types are inductive together: the types say that probes are active calls, so that a call that ends without a
  slot changes no count. `SlotsStickOnlyWhenLost` says how much of finding 2 is left: a half-open breaker without a free slot
  waits for a probe, or all its slots were lost. Load runs: `LoadInductive`, `OverStaysOver` (a run that has succeeded or
  failed has no live copy, and no DELETE on the replica that ran it is between its read and its write, `OverHasNoTask`; what is left is a
  DELETE on another one). The session gate: `GateRefusesOnlyTheGone` (a lookup that found nothing means the
  row is gone for good, `MissingMeansGone`). The bootstrap: `SeedsDoNotMix` (tables are filled only together with the account
  named admin, whose uncommitted insertion keeps all others out, `SeedGuarded`; what reconciling starts add to filled tables are products,
  services and shops, never customers or orders). The chaos hook: `PoolIsKept`. What its threads
  hold together is a sum, so that this needs the lemmas on sums below: a read that nests takes one more connection and is
  refused where the sum has reached the pool, an ending one gives back
  one, which its thread does hold (`NestingKnown`).
  And `ServicesKeepTypes`, `ServicesImplement`.
* `StreamPartsProofs`, the components of `MCOrderStream` besides the stream. The remediator: `RunsExecuteOnce` (a run still
  to be proposed is new, and one between read and patch is running, `StillToPropose`, `ReadMeansRunning`); `OneReplicaBack`
  (neither the autoscaler nor what anybody has read of it is ever below the baseline, `HpaFloor`). The stress runner:
  `StressInductive`, `OneK6`. While a POST spawns it holds the lock alone (`SpawnsAlone`), so nothing is active when its k6
  appears. The payment decision: `RefusalsStand`, in two parts. What each merge keeps of its two opinions is a lemma
  (`VerificationMerged`, `ProcessorMerged`, `AntifraudMerged`), and together they say who can have decided (`MergedSays`); the
  scores and their thresholds are not needed. The invariant `PayIInv` follows the
  gateway: what it has announced so far is a prefix of its capabilities (`Announced`), a step tells of a refusal only after a
  verification that declined (`Blameless`), and then one does (`DeclineIsTold`). `PaymentKeepsTypes`: the scores are sums of
  the weights of the reasons a card or wallet gives, which are natural numbers (`ScoreIsANumber`), capped on every path
  that stores one, and no merge makes a risk of more than 99 (`MergedRiskOK`, from `PayRisks`). And `StreamKeepTypes`,
  `StreamImplements`.
* `InductionLemmas`, which the others use. The library's induction theorems take an operator as their parameter, so
  `SetInduction` is about sets of numbers instead (from `LeastNatural`, which the provers know of a nonempty set). From it
  follows what the community modules' fold computes as a sum: the recursive function behind `SumFunctionOnSet` exists
  (`SumsExist`, by the cardinality of its argument) and is the only one (`SumsUnique`); so the sum of a finite set of natural
  numbers is one, no summand exceeds it (`SumBounds`), a changed summand changes it by the difference (`SumExcept`), and
  that of zeros is 0 (`SumOfZeros`). `WaitersCircle` finds a circle in every finite set where each waits for another.

**The compositions.** TLC runs `MCOrders`, `MCServices` and `MCOrderStream`, where `part` says which component moves. Their
type invariants are theorems (`OrdersKeepTypes`, `ServicesKeepTypes`, `StreamKeepTypes`), by the conjunction of the components'
inductive invariants: a step of the whole is a step of each component or leaves its variables alone (`OrdersStep`, `ServicesStep`,
`StreamStep`). The same two facts say that each composed specification implies the specification of every component in it
(`OrdersImplement`, `ServicesImplement`, `StreamImplements`), which carries the theorems about the components over to the very
specifications that TLC runs.

Every safety invariant and every action property of the passing runs is the statement of one of these theorems.

**Only model-checked.** Liveness under fairness, which the prover does not reach: `EveryPlacementEnds`,
`ProbeDecidesUnlessLost`, `OpenProbesAgain`, `EveryEventAcked`, `EveryOrderSettles`, `CopiesConverge`,
`CatalogArrives`, `StartsSettle`, `LogoutTakesHold`, `RunsComeToRest`, `EveryStatementEnds`. Safety is what the
proofs are about; why a fair step must come is not.

---

## 5. Findings

1. **A coupon can be used more often than max_uses** (`store_service.py:117-137`). The count is read and
   tested in one statement and incremented in a later one that does not repeat the test. Run `coupon_cap`.
2. **A half-open breaker can stay half-open for ever** (`integrations.py:394-409`). A probe that finds no
   usable CRM customer, or whose request is cancelled, records neither success nor failure, and its slot is not
   given back. The integration guide says one probe decides. Run `breaker_stuck`.
3. **Terminal order states are not sinks** (`webhooks.py:79-101`). Two overlapping deliveries of different
   events decide from the same status and the second overwrites the first. Run `webhook_sinks`.
4. **A dead letter of a rejected order cannot be put back** (`worker.py:145`). Its payload is the
   `str` of a dict, no JSON; the worker posts `{"_invalid_json": ...}`, the CRM answers 200 with an error,
   and the entry is acknowledged. Run `stream_garbled`.
5. **A raised autoscaler is not lowered again** (`autorevert.py:50`). The CronJob passes by autoscalers without
   the annotations `bumped-at` and `bumped-from`, and nothing in the repository writes them. Run `hpa_revert`.
6. **More lookups than the session gate's capacity can be in flight** (`session_gate.py:112`). A request that times
   out returns its slot while its lookup keeps its thread. Run `gate_overflow`.
7. **The CRM reports stress runs as started that the runner has refused** (`stress_test.py:264`). It sends
   `target_url` and `note` where the runner requires `target_host` and forbids others; the 422 is taken for a
   start. Run `stress_started`.

Observed while modelling, without a run of their own:

* *Payments.* The webhook writes `status` but not `payment_status`; `webhooks.py` promises not to answer 500 on
  internal failures, but a failing database raises through `get_db`. The processor is asked for an
  authorization even after the verification has declined, and nobody voids it. The Java verification's branch for
  scores from 85 is out of reach (the maximum without a blocking reason is 82). A declined row may carry the code SIM_TIMEOUT.
* *Shop.* A retry under a key whose first attempt emptied the cart, without items in its payload, is answered
  "Cart is empty" before the key is looked at (`shop.py:295`). Two adds, or an add and a removal, can lose one
  another (`orders.py:164`). A row that is added to the cart between the checkout's read and its DELETE leaves the cart without
  being ordered.
* *Breaker, stream.* A late success from before the trip closes a half-open breaker although no probe has answered. The
  worker's README says that each message is delivered to exactly one consumer, while XAUTOCLAIM takes entries
  from slow live ones.
* *Catalogue.* A SKU that was deleted or renamed stays active in the shop when its post is lost or overtaken;
  the full sync overwrites the stock the shop has reserved; more than 500 products are refused. `CatalogSync` is about
  catalogues in tables of their own; on the shared schema there is one table, which a post writes with what it holds.
* *Bootstrap.* On Oracle the drop of user-less tables can take away what another replica has just created. On
  PostgreSQL literal ids leave the sequences behind. The shop's reconciliation takes over the CRM's account named admin. Each service's
  reconciliation adds its own products, services or shops to the tables that the other has filled. Where two shop replicas reconcile
  at once, the branch that is to "fetch and update instead" (`database.py:1021`) does not help: after a failed flush the
  session refuses everything until it is rolled back, so that the start fails.
* *Load control.* The watcher overwrites cancelled with succeeded; this is why `OverIsOver` speaks of succeeded and
  failed only. A DELETE on the replica that does not run the run can write cancelled over succeeded or failed, when the run ends
  between the read and the write; "ignored if already terminal" (`services/load-control/README.md:48`) holds on one replica.
* *CRM orders.* Two pulls can wait for each other in a circle, when both insert customers or products: one has inserted the product of
  an order and waits for the customer that the other has inserted, and that one then needs the product. The
  database ends it, and the victim's order waits for the next pull. A product that a pull had to create is inserted again by every later
  pull that lists an order for it, fails on its unique SKU, and takes the order's update with it, so that such an order is never
  brought up to date again (`order_sync.py:403-437`). On the shared schema every pull copies the copies that the one before has
  made, and the table grows without end; this is why `CopiesConverge` speaks of a database of the CRM's own.
* *Remediator.* A run is known to one replica only, so that an approval that reaches the other is answered 404;
  `RedisRunStore` is used by nobody. An alarm delivered twice is two alarms.
* *Stress runner.* After the CRM's timeout of 10 s ("unavailable") a run may still start. A clear reads the
  state and then stops whatever is active by then. "expired" is overwritten by the waiter. The counter of stress runs
  (`oci_monitoring.py:370`) calls a function that is local to another one; the error is swallowed.
* *Chaos.* With CHAOS_ENABLED each statement of the synchronous engine recursively takes the whole pool and waits
  30 s, contrary to `registry.py:15-18`; listeners cannot be registered on the asynchronous engine, so the application's
  statements never see a fault.
* *Workflow gateway.* A sweep records "success" whatever failed in it (`service.go:218-264`).

---

## 6. Not modelled, and what is left

*Not modelled because no step depends on state another one leaves*: dashboards and reports, spans, metrics and
log shipping (a bounded loss of telemetry at worst), the assistant's chat, synthetic traffic and demo generators,
the object pipeline, edge fuzzer, browser runner and Java demo (its payment endpoints are part of
`PaymentDecision`), the workflow gateway's read queries, the auto-remediator function, the cache client, the
adapters to external payment providers, the rate limiter's per-process window.

*Not modelled because it is access control on single rows*: passwords, tokens, SSO. *Not program logic*: Terraform,
shell scripts, manifests.

*Abstracted away inside modelled components*: the two demo callers of `place_order`, products posted to the
CRM while it pulls orders (`stocked` does not change), the columns of a customer that is known,
`update_order_status`'s SELECT and UPDATE as one step, the gateway emulator's spans, attributes and latencies,
customer syncs, columns added to existing tables.

Next, if the development goes on: `OrderFlow`, the composition of `Checkout`'s commits with `OrderStream` and `CrmOrders`;
the workflow gateway's sweeps and the auto-remediator function; the rest of the shop's and the CRM's administration.
