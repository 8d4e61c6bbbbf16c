# Verification of laundry-platform

TLA+ models of the platform's services, the TLC runs that check them on small
instances, and TLAPS proofs of the main invariants for instances of any size.
Every definition is read off the Go handlers and the SQL migrations; where a
document or a comment says something else, that is a finding (below).

Contents: the system; what each module models; abstractions; the runs; the
findings; the proofs; what is not modelled; the plan.

## 1. The system

Five Go services behind a stateless gateway, each with its own PostgreSQL
database, joined by a few synchronous HTTP calls and by events.

| Part | State | Operations | Talks to |
|---|---|---|---|
| Core, orders (`services/core/internal/handler/orders.go`, `orderstate.go`) | `orders`, `order_items`, `order_status_history`, `outbox_events` | create, weigh an item, finalize weighing, change status | events to all; answers `GET /internal/orders/{id}` |
| Core, payment events (`payment_events.go`) | `orders.payment_status`, `processed_events` | project `payment.created/paid/failed/refunded` | consumes Payment's events |
| Core, fulfilment (`pickup_delivery.go`) | `pickup_requests`, `delivery_requests` | request, schedule, cancel, complete | moves the order when completed |
| Core, customers (`customers.go`) | `customers` | create by phone, link to an account | called by Identity |
| Payment (`services/payment`) | `payments`, `payment_transactions`, `refunds`, `outbox_events`, `idempotency_keys` | pay, gateway callback, request / approve / reject a refund | asks Core about the order; events |
| Idempotency (`shared/idempotency`) | `idempotency_keys` | replay a stored answer or run the handler and store it | wraps `POST` endpoints |
| Outbox relay (`shared/outbox`) | `outbox_events.status` | claim, publish, mark, revert | the broker |
| Broker connection (`shared/broker`) | connection, channel, `reconnected` signal | dial, watch, subscribe, forward | RabbitMQ |
| Notification (`services/notification`) | `notifications` | one WhatsApp message for an event | consumes all events; asks Core |
| Reporting (`services/reporting`) | `rpt_*`, `processed_events` | project orders, sales, refunds; report them | consumes all events |
| Core, settings (`catalog.go`, `tax.go`) | `service_prices`, `tax_rates` | set a price or the tax rate, as a new version | read by the bills |
| Identity, customers (`services/identity`) | `customer_accounts`, sessions | register, log in, refresh, log out | calls Core twice in a registration |
| Identity, staff (`users.go`, `staff_auth.go`) | `users`, `user_roles`, `user_outlets` | create, update; read them into a token at a login or refresh | the gateway and every service decide by the token (`shared/httpauth`) |
| Gateway (`gateway`) | a counter in Redis per key (a forwarded or peer address) and window | count a request, let it through or refuse it; check its token | routes to the services |
| Start-up (`*/cmd/server/main.go`, `bootstrap.go`) | the first rows of Core and Identity | migrate, put in what a fresh system needs, connect, serve | the database of the service |
| Web application (`web/lib`) | the session in `localStorage`, a refresh in flight per tab | store, refresh, clear | Identity, through the gateway |
| Migrator (`shared/migrator`) | `schema_migrations` | up, by each instance at its start; down | the database of its service |

What makes it hard:

* PostgreSQL runs at READ COMMITTED and almost no handler locks what it reads.
  A handler reads, validates, and then writes *by id*, from a snapshot that
  another handler may have outdated. The guards that survive are unique
  indexes, CHECKs and the few `UPDATE ... WHERE status = ...`.
* Events are delivered at least once, in any order, to several instances, and
  every consumer checks for a duplicate in a statement of its own, long before
  it marks the event.
* Two services agree on an order, or on a customer, without a transaction
  around both.
* Connections, processes and single statements fail between any two steps.
* A browser's tabs share a stored session and refresh it each on its own.

So the properties that make the parts correct, in the terms of the whole:
no work on an order nobody paid for; no money shown as paid, or given back,
without a charge; a charge and a refund reach Core; what was done once is not
done again by a retry, a redelivery or a restart; reports and messages match
the events; customer and account name each other; a setting always has one
value; a browser does not lose its session, nor keep another's; a token grants
what its user was granted; a key of the rate limit is refused for a window and
not for ever; an instance serves a system that is set up.

## 2. The modules

| Module | Models | State and actions |
|---|---|---|
| `OrderStatus` | the transition table of `orderstate.go` | pure operators |
| `CoreOrders` | `orders.go`, `payment_events.go` | `status`, `payStatus`, `weight`, `fee`, `total` are the columns of an order; `trail` its history rows; `stale`, a history variable, the orders whose status a commit has overwritten without having read it; `coreReqs` the handlers between a read and a commit; `consuming` the event of each consumer. `ReadFor...` and `Commit...` are the two halves of a handler, `Handle...` the cases of `handlePaymentEvent` |
| `CoreService` | `CoreOrders` with `pickup_delivery.go`, against any events of Payment | adds `pickup`, `delivery`; `Locked` is the row lock `updateFulfillment` holds; `missed` the orders whose delivery was completed without them |
| `Payments` | the handlers of Payment | rows in `pStatus`, `pAmount`, `rStatus`, ...; `emitted` counts outbox rows; `payReqs` as above |
| `Idempotency` | `idempotency.go` | `stored` is the table; `guarded` the requests inside the middleware |
| `PaymentService` | `Payments` behind `Idempotency`, against a Core that may answer anything | a keyed request takes a slot of `payReqs` |
| `OrderToCash` | `CoreOrders` with `Payments` | Payment's HTTP lookups read Core's rows; Payment's outbox rows are what Core may receive |
| `Ledger` | nothing of the code: what `OrderToCash` promises about money | `charged`, `returned`, what is `shown` and `worked` on; `Charge`, `GiveBack`, `Follow` |
| `Outbox` | `shared/outbox` | `row` is `outbox_events.status`, `claims` what each relay holds |
| `Broker` | a consumer's side of `shared/broker` | `link`, `dials`, `reader`: watch, the dials and the forwarding goroutine |
| `Notification` | `services/notification`, on `Broker` | `queue`, `acked`: RabbitMQ; `handling`: the delivery in hand; `notified`: the table |
| `EventPipeline` | `Outbox` with `Notification` | from the row to the customer's telephone; `lost` are the events of an unconfirmed publish |
| `Reporting` | `services/reporting/internal/handler/events.go`, `reports.go` | the three `rpt_` tables and `processed_events`; `working`: a loop's transaction; `shown`: the last answers of the two reports |
| `Registration`, `Sessions` | Identity's customer side and Core's customers | `at` is the step of each registration; sessions are numbers, with a family |
| `Browser` | `web/lib/api.ts`, `auth.ts` and Identity's answers | `stored` is the entry of `localStorage`, `tab` what `refreshAccessToken` has in flight |
| `Accounts` | `Registration` with `Browser` | a registration or login ends in the browser or in another client |
| `Catalogue` | `CreatePricing`, `SetTaxRate` | `versions` are the rows of both tables; `setting` is a transaction, with the rows its UPDATE has found |
| `StaffUsers` | `UpdateUser` | `members` are the user's rows; `update` is a transaction, with the rows each DELETE has found |
| `StaffAccess` | `StaffLogin`, `StaffRefresh`, `httpauth`, on `StaffUsers` | `signIn` holds the claims read so far; `HasAnyRole`, `CanAccessOutlet` decide by them |
| `RateLimit` | `ratelimit.PerIP` | `counter`, `ttl`: one key in Redis; `call` the step of each request |
| `Migrator` | `Up`, `Down` | `applied` is `schema_migrations`, `effect` what the SQL has done |
| `Startup` | the mains, `EnsureSeedCatalog`, `EnsureDefaultOwner`, on `Migrator` | `boot` is what each instance is at; `seeds` the rows the bootstraps have inserted |
| `BackOffice` | `Catalogue`, `StaffAccess`, `RateLimit`, `Reporting` and `Startup`, side by side | |
| `...Proofs` | the theorems | section 6 |
| `MC...` | constants and symmetry for TLC | section 4 |

Operators marked `Mutant` in their comment are not part of any specification.
Each is the body a plausible bug would give the definition after it, and shows
that the property it is meant for can fail.

## 3. Abstractions

* **Statements.** One SQL statement is atomic; a transaction that only writes,
  or whose first write locks the row it then reads, is one action at its
  commit. Reads outside a transaction, or without a lock in one, are actions of
  their own. The reads of `FinalizeWeighing` are merged: items only ever become
  weighed, and the fees and the tax rate in the snapshot are those of the same
  moment.
* **Deletion.** Only `UpdateUser` and the migrator's Down delete rows; elsewhere
  ids stand for rows.
* **Data.** A bill is the constant `Bill` of weights, fee and tax rate: prices and
  discount are snapshots taken when the order is created, the fee is the request's
  or the stored one, and the rate is any of `TaxRates`, as `FinalizeWeighing` reads
  the active one each time (orders.go:529), so two bills of the same weights and
  fee can differ. Roles and mandatory reasons are taken as given (they refuse
  requests, and a refused request changes nothing). Texts, names and codes are
  left out.
* **`trail`** is a set, so a repeated history row is one; nothing counts them.
* **`emitted`** stands for two tables: a `payment.paid` row is inserted in the
  transaction that logs a successful CHARGE, and a `payment.refunded` row in
  the one that logs a REFUND. So `Charges(p)` is how often p was charged.
* **Events between the services** are the outbox rows themselves, receivable
  at any time until they are processed: relay and broker can only delay, repeat
  or reorder them in that view. What the pipeline really does to them is
  modelled apart, in `EventPipeline`.
* **Fulfilment** is left out of `OrderToCash` (it would square the state
  space). `CoreService` has it, with events Payment may send at will, so its
  invariants hold for any Payment.
* **`Payments` in `OrderToCash`** has no idempotency keys: a keyed endpoint
  does what the plain one does, or nothing, so this has more behaviours.
* **A publisher's connection** is a publish that fails, or that succeeds and is
  lost; a publish that fails hands nothing on, although a client library may
  report a failure after the message was sent. Client prefetch is not modelled
  apart: a delivery waiting in a buffer is like one still in the queue. A claim
  whose rows are read only in part (outbox.go:117-125) leaves the others
  PUBLISHING with no claim on them.
* **A token** is shown or not: signatures and expiry are left out. A login of a
  deactivated user is refused before anything is read, which is the same as no
  login. A sign-in reads roles and outlets in a statement each; `since` are the
  contents that were committed since it began. `torn` has the sign-ins between
  whose reads an update gave the user an outlet and left him without a role read
  before: of these alone the token can hold what the user never held together.
* **The rate limit** is of one key, which a window, an eviction or a
  restart of Redis takes away (`KeyGoes`); what the windows' lengths are does
  not matter to it. Requests that no answer of Redis decides go through and are
  not counted in `admitted`, so they may be any number. Which requests share a key
  is left out: it is the X-Forwarded-For header as it was sent, or the peer's
  address with its port (ratelimit.go:59), so a client can have many.
* **Start-up** extends the migrator: a run of Up is the start of an instance.
  What comes after the bootstraps (broker, relay, consumers, server) is one step
  that may fail; shutdown is what may happen to any instance at any step.
* **Reporting** has one outlet, as no statement looks at two. One `day` stands
  for the date of a completion and for that of the report that shows it: time
  zones (events.go:184-205) are left out. Its transactions are a first
  statement, which finds the order's row or not, and a commit. A completion that
  finds none has its `SELECT` as a step between.
* **Transactions without locks of their own** (`Catalogue`, `StaffUsers`,
  `Migrator`) take PostgreSQL's: an UPDATE or DELETE finds rows when it begins,
  waits for who holds one of them, and then leaves alone those that no longer
  fit; an INSERT waits for who inserts or deletes the same key. So such a
  statement is two steps. A deadlock is a failure, as PostgreSQL makes it one.
* **A user's rows** are of that user, so `StaffUsers` has one. **A migration** is
  its number; `Seeds` are those that only insert rows.
* **The browser** refreshes when a call comes back with 401, and it may at any
  time: an access token expires, or was replaced since the call was sent. The
  calls themselves are left out. One request of a tab is at Identity at once: a
  tab that gave up waits until its request is over.
* **Sessions** do not expire: an expired session is refused like a revoked one,
  which is the same as never being shown again. Staff and customers have two
  tables and the same code; a family is the chain from one login.

## 4. The runs

All run with two workers in less than five minutes. Deadlock is off
everywhere: the instances are finite, and a system whose every order, payment
and event has been dealt with has nothing left to do.

| Run | Bounds | What it shows |
|---|---|---|
| `PaymentService` | 1 order, 2 payments, 1 refund, 2 requests, 2 keys (one for refunds), totals 0 and 1 | one key of each endpoint, two requests that can race on one row, and a second payment to charge twice with: a refund has a charge and a payment REFUNDED its refund; a double charge leaves a reversal; a key whose requests did not overlap, and whose answers were stored, runs its handler once; a replay is about what was asked |
| `CoreService` | 1 order, 1 item, 2 requests, 1 consumer, paid and refunded events, a discount that outweighs every basket | work starts only after payment.paid; a completed pickup or delivery takes its order with it, but for a delivery completed too early |
| `OrderToCash` | 1 order, 1 item of one weight, tax rates of 0, 10 and 20, whose bills are negative, 1 and 3; 1 payment, 1 refund, 1 request of each service, 2 consumers | the end-to-end safety properties, with a status change in flight while two consumers apply events in any order and fail, and a total that changes with the tax rate; the two services implement the ledger |
| `OrderToCash_liveness` | the same, one consumer, one tax rate | with fair delivery, a charge comes to show and a refund to cancel |
| `EventPipeline` | 2 events (one without a message), 2 relays, batches of up to 2, 2 consumers, 2 dials each | no row published twice; what was published is kept until it is acked, but for a publish that nobody confirms; one message at most per event; nothing acked that was not recorded |
| `Accounts` | 3 registrations sharing a phone and an e-mail; or one that ends, then 2 tabs, 2 logins, 4 sessions | the services agree on who is who; one live session per login; the stored session is live and of the last login |
| `BackOffice` | one part at a time: 3 requests on 2 settings, one of them seeded; 2 updates of a user with 2 roles and 2 outlets, beside one sign-in; 4 requests of a key against a limit of 2; any 5 of 8 events of 2 orders, in any order, with 2 loops (one that neither makes an order's row nor is counted takes three places of the five); 3 runs of 2 migrations, one a seed, and the instances that started them, of Core, Identity or another service | a setting always has a value and, after a request that nobody overtook, one; a user has the roles of one update, and a token roles and outlets of one moment unless an update tore it; a limit is of a window; redelivered events count once, and three reports read one after the other agree; what is recorded as migrated is in effect once; who serves finds the bootstrap done |
| `OrderToCash_frozen`, `OrderToCash_converge`, `PaymentService_refundonce`, `PaymentService_paidonce`, `EventPipeline_resumes` | one property each | the findings of section 5 |

Why such small instances suffice: every guard of the code is about one row and
at most one other (the second PAID payment of an order, the second refund of a
payment, the second account of a phone), and a race is between two. A second
order would add only an independent copy, since no statement reads two orders;
the proofs, which hold for any number, confirm it where there are any.
Three writers of a setting are two that overlap and a third that repairs it.
`Accounts` and `BackOffice` bound their parts to move apart (`OneSide`,
`OneMoves`): they share no state, or only the step that ends a registration.
While a sign-in goes on, one update at most does (`SignInBound`): its two reads
are torn by one commit between them, and a second one changes nothing more.
Four requests are a first one that sets the expiry, one within the limit, one
beyond it, and one more whose answer can be lost.
`CoreService` uses the VIEW `WithoutTrail`: no guard and none of the three
properties checked there reads the history rows or `stale`, so states that
differ in them alone behave alike; only what TypeOK says of these two is seen in
fewer states, and `OrderToCash` checks it in all. Its bills are all negative,
hence rolled back: amounts are read by none of its guards. Symmetry is only over
ids that no property and no constant names (requests, consumers, relays,
payments), and never in a liveness run.

### Properties

Safety: `WorkOnlyIfCharged`, `WorkOnlyAfterPaid` (BR-02, over both services and
as far as Core alone can know); `PaidSticks` (a late payment.created or
payment.failed never takes PAID back); `TrailIsConnected` (no row of the history
leaves a status that the order had not entered, even when written from a stale
read, and the rows of an order none of whose statuses was overwritten unread are
one path to the one it is in);
`RefundedIsReal`; `LateCancelIsRefund` (an order in work is cancelled only by a
refund, with the same exception); `AmountWasBilled`; `ChargeIsProjected`
(when every event is processed, in whatever order, a charged order shows it);
`RefundBacked`; `RefundOnlyIfCharged`; `DoubleChargeNeedsReversal`;
`ExecutesOnceIfSafe`; `ReplayIsFaithful`; `FulfilmentMovesOrder`; `PublishedOnce`;
`PublishedIsKept`; `SentAtMostOnce`; `AckedIsNotified`; `ReportsAreExact`;
`ReportsAgree` (an order reported as completed is in the sales that are read
later, and a refund in the sales is among the refunds); `LinkIsMutual`;
`OneLivePerLogin`; `StoredIsLive`; `StoredIsOfLastLogin`; `NeverUnset`;
`OneActive`; `PeriodsAreApart`; `MembersAreOfOneUpdate`;
`TokensGrantWhatWasHeld` (at one moment since the sign-in began its user had all
roles of a token and access to all its outlets, unless it is `torn`);
`LimitIsOfAWindow` (one window's count of a key, from all gateways, lets no more
through than the limit, and it ends);
`AppliedIsInEffect`; `ServesBootstrapped`; and the step property
`EndedStaysEnded`.
Several name the overlaps or failures that break them, by a variable that only
records history (`late`, `together`, `overtaken`, `mixed`, `overlapped`,
`spoiled`, `unsafe`, `missed`, `lost`, `torn`, `stale`): they say that nothing
else does, and not that these are harmless; section 5 and the notes on the hazards
say what each leads to.

Liveness: `ChargeReachesCore`, `RefundCancelsOrder`. The comment above each
definition says what it is about.

### Refinement

`ImplementsLedger` shows that `OrderToCash` implements `Ledger`, with
`charged` and `returned` read off Payment's outbox rows and `shown` and `worked`
off Core's orders. The ledger says what the two promise with nothing of how: a
step moves the money or what follows it, never both; what is shown or worked on
may lag behind the money and never runs ahead of it; PAID and REFUNDED are not
taken back. It catches what no invariant of one state does, a step that takes
PAID back and one that starts work and charges at once among them.

### Fairness

`OrderToCash!FairSpec` is strong fairness of receiving each event and of a
consumer's commit, and nothing of clients. The code's grounds: a relay's ticker
and a consumer's loop run for ever, a nacked delivery is requeued, and a fault
is transient. It assumes that the broker path works: `EventPipeline_resumes`
shows a way in which it does not, and rows left PUBLISHING (section 5) are
another, so the liveness results are about Core's consumer, given delivery.
`EventPipeline!FairSpec` gives the relay its ticks and settling statements, the
watcher its redials and the forwarding goroutine its steps weak fairness, and
none to a fault. That is why the counterexample counts: the system is not
merely stopping.

## 5. Findings

Each is the counterexample of a run.

1. **The total of a paid order can change** (`OrderToCash_frozen`).
   `FinalizeWeighing` asks neither for the order's status nor for its payment,
   and nothing ever sets `order_items.is_locked`; docs/01-business-rules.md:43
   says the total is immutable after payment.
2. **payment.refunded before payment.paid leaves PAID** (`OrderToCash_converge`).
   The refund's projection is guarded by PAID and the payment's by nothing,
   although payment_events.go:57 says either order converges.
3. **One payment can be refunded twice** (`PaymentService_refundonce`).
   `ApproveRefund` (refunds.go:156) reads the status outside its transaction and
   updates by id, so two approvals that both read REQUESTED both pay back;
   docs/10-state-machines.md:143 ties refunds 1:1 to the payment. (Two requests
   that both find no live refund would do the same, refunds.go:99; the run has
   one refund and does not show it.)
4. **A consumer can stop for good on a live connection** (`EventPipeline_resumes`).
   The reconnect signal is fetched after the failed subscribe; a redial in
   between is never seen. amqp.go:193 promises that forwarding resumes.
5. **Two payments of one order can both be charged** (`PaymentService_paidonce`).
   The partial unique index counts the rows that are PAID now. Of two callbacks
   that both read PENDING, a failed one that commits last overwrites PAID
   (simulate.go:54) and frees the order for a second payment; a refund frees it
   too. The migration (payment 0001_init.up.sql:17) and
   docs/06-database-schema.md:368 say that only one row per order can ever reach
   PAID. `DoubleChargeNeedsReversal` says that nothing else opens this way.

Noticed on the way, without a run of their own:

* A claimed outbox row can stay PUBLISHING for ever, after a relay's death, a
  mark or revert that fails, or a claim whose rows are read only in part: only
  PENDING rows are claimed (outbox.go:101). docs/06-database-schema.md:512 calls
  the state short-lived.
* Two requests that overlap can leave two active prices of a service, or two
  active tax rates, of which a bill takes any. The index that docs/06:343 relies
  on is unique on `effective_to` where that is NULL, and NULLs are distinct. The
  next request that nobody overtakes closes both (`OneActive`).
* Two updates of a user that overlap, and do not both set `is_active`, can leave
  the roles of both (`MembersAreOfOneUpdate`); and `UpdateUser` makes none of
  `CreateUser`'s checks, so a user can be left without a role or an outlet.
* A logout in the web application tells Identity nothing, so the refresh token
  stays good; and a refresh in flight then stores its session again, so the
  user is logged in as before (`StoredIsOfLastLogin`). Calls whose 401s arrive
  after a refresh has ended refresh again, although api.ts:47 speaks of a single
  refresh; with rotation this is harmless.
* A Down that meets an Up can leave a migration recorded and not in effect:
  nothing locks `schema_migrations` (`AppliedIsInEffect` excludes it by name).
* A retry that overtakes the record of the first request, or follows one that
  was not stored, runs the handler again (docs/11-error-handling.md:64 says it
  does not). `ExecutesOnceIfSafe` says exactly when it cannot happen. Refusals
  (4xx) are stored and replayed for ever, and no key ever expires.
* `Register` says that a failed link "can be repaired by a retry"; the retry is
  refused as a duplicate before it reaches the link, and there is no
  reconciliation job. `LinkIsMutual` says which accounts this leaves.
* COMPLETED and CANCELLED are not terminal against a stale commit
  (docs/10-state-machines.md:70), and orderstate_test.go:5 takes the transition
  table for the whole enforcement.
* An order in work can be cancelled without a refund: a change that read WEIGHING
  and was valid then commits CANCELLED after payment.paid has moved the order to
  WASHING. The paid order is then cancelled, which docs/10-state-machines.md:64
  and :72 leave to a refund, and cannot be refunded any more. `LateCancelIsRefund`
  says that only such a commit does it.
* Refresh tokens are not single-use under a race, although refresh_logout.go:18
  and docs/12-security-baseline.md:42 say so: two refreshes that read one session
  before either revokes it, or a revocation that fails and is only logged, leave
  two live sessions (`OneLivePerLogin`). And nothing revokes the family when a
  used token is shown again, as docs/12 has it: it is answered with 401, and no
  column of `sessions` names a family.
* A token read while the user is updated can hold the roles of before with the
  outlets of after, a role at an outlet that its user never had, until it expires;
  docs/12-security-baseline.md:32 speaks of an old assignment only. When it can
  happen is what `TokensGrantWhatWasHeld` says.
* An order cancelled after it was paid can never be refunded, because
  `CreateRefund` refuses a CANCELLED order (compare docs/10:72 and :162); an
  order with a zero total can never be paid, because amounts must be positive.
* ON_HOLD has a way in and no way back (compare docs/10:61).
* `UpdatePickup` and `UpdateDelivery` look at no status of the request itself,
  so a cancelled one can be completed (pickup_delivery.go:139).
* Publisher confirms, exponential backoff and dead-lettering
  (docs/08-event-contract.md section 4) are not in the code.
* A relay runs before other services have declared their queues, so the events
  of a first deployment can be dropped by the exchange (`lost` has them).
* The key of a rate limit whose EXPIRE is lost has no time to live, and whoever
  shares it is refused for ever (`LimitIsOfAWindow` says that nothing else does
  this). The limit is not of a client IP, as ratelimit.go:20 says: RemoteAddr
  has a port, so without a forwarding header each connection is counted by
  itself, and the header is taken as it comes.
* `EnsureSeedCatalog` inserts a service and then its price, so an instance that
  dies between the two leaves a service that no start prices
  (`ServesBootstrapped`).
* `StaffRefresh` ignores a read of roles or outlets that fails, and issues a
  token without them. That is safe, because nothing takes no outlets for all of
  them, although the comment at principal.go:33 does
  (`TokensGrantWhatWasHeld`).
* Only the connection is watched: a channel that the server closes alone is not
  opened again until a restart.
* In Reporting, a completion or refund handled before order.created is marked
  as processed and lost, one handled before order.weighed adds nothing to the
  gross amount, and an event that two instances have in hand at once is counted
  twice (0002_processed_events says reprocessing is a no-op). The properties
  are exact about all but the last-named.

## 6. Proofs

Checked by TLAPS for every value of the constants, from the named assumptions
in the modules (sets are what the comments say, marker values such as
`NoOrder` are none of the ids, bills are integers, zero is a fee, a refund is of
a natural amount, a completion is an event that `projectOrderStatusChanged`
projects, the author of seeded rows is no request, there is a migration). No
proof assumes that a set of ids, events, requests or instances is finite. Every
safety property that a passing run checks is the statement of a theorem.

| Module | Theorems |
|---|---|
| `CoreOrdersProofs`, `PaymentsProofs` | lemmas: what each action does to types and to the facts others rely on |
| `OrderToCashProofs` | `Types`, `WorkIsPaidFor`, `RefundedMeansGivenBack`, `LateCancelsAreRefunds`, `AmountsWereBilled`, `PaidIsNotClobbered`, `ChargesAreProjected`, `TrailStaysConnected`, and `Refinement` (of the ledger) |
| `CoreServiceProofs` | `Types`, `WorkFollowsPayment`, `FulfilmentTakesOrder` |
| `PaymentServiceProofs` | `PaymentTypes`, `RefundsAreBacked`, `RefundsFollowCharges`, `DoubleChargeIsReversed`, `ExecutesOnce`, `ReplaysAreFaithful` |
| `EventPipelineProofs` | `Types`, `PublishesOnce`, `PublishedStays`, `SendsOnce`, `AcksAreNotified` |
| `AccountsProofs` | `LinksAreMutual`, `RotationIsSingleUse`, `EndedIsEnded`, `StoredStaysLive`, `StoredStaysOfLastLogin` |
| `BackOfficeProofs` | `BackOfficeInvariant`, and from it `WindowsAreLimited`, `SettingsStaySet`, `ActiveIsUnique`, `PeriodsStayApart`, `MembersStayOfOneUpdate`, `TokensGrantNoMore`, `ReportsStayExact`, `ReportsStayInAgreement`, `AppliedStaysInEffect`, `ServersAreBootstrapped` |

The argument for `OrderToCash`: none of the properties is inductive, because
what breaks them is in flight before it is in the table. `Inv` adds what the
snapshots may hold. `EventsAreReal`: an event that Core processed or holds was
written by Payment. `ChangesAreSound`: a status change waiting to commit into
WASHING or beyond was validated against an order that had been charged by then,
and one that cancels late follows a refund. `TotalsWereBilled`: the total Core
shows was billed. Charges and refunds only grow (`MoneyStays`), so what was
true of a snapshot is true at its commit, however stale it is. The proof then
has one step per action, through lemmas that say for each Core action what it
can do to a status (`StartEffects`, `CommitEffects`, `EventEffects`).
`ChargeIsProjected` follows from `PaidSticks` and the fact that a charge has an
event (`FirstEvent`).

For `Payments`, `PayInv` adds that requests are about rows that exist, that a
refund is of a charged payment, that one row at most of an order is PAID, and
that a charged payment which is no longer PAID has the mark of what reversed
it. `DoubleChargeNeedsReversal` is a consequence. For the middleware, `KeyInv`
says that guarded requests of a safe key exclude each other, and that the answer
of a safe key is kept from the handler's end to its record.
`CoreServiceProofs` uses the lemmas on `CoreOrders` again, with fulfilment's
requests added to the snapshots.

`Refinement` takes the same lemmas: initial states map to initial states, a step
of Payment charges, gives back or is invisible to the ledger, and a step of Core
follows, with `Inv` for what it may come to show.

`TrailStaysConnected` has two halves, from one more invariant, `TrailInv`. Any
order had entered every status a handler has read, and rows stay. For one that is
not `stale`, `PathInv` orders the statuses by `Rank`, which every transition raises
(`TransitionsRise`, `InternalTransitionsRise`): each row goes up, none beyond the
status the order is in, so none is entered or left twice; and an order CANCELLED
after work was refunded, as staff's changes to CANCELLED come from below WASHING.
`TransitionKeepsPath` is the step. `LateCancelsAreRefunds` takes this and, for the
rows of any order, `LateRowsAreRefunds`, a part of `Inv`.
`FulfilmentTakesOrder` adds that no order returns to CREATED, so a completion
that read another status cannot leave it there, and that whatever puts an order
into READY after its delivery is in `missed`.

For `EventPipeline`, `ClaimsAreSound` says that a row has one claim, is
PUBLISHING as long as it has, and was handed over only by a claim that is past
that step, with its message kept; so nothing can claim it again. On the other
side `SendersAreAlone`: whoever is about to send for an event is alone, and was
the one to insert its row, after which the row refuses every other. A step of
one side leaves what the other's facts speak of (`KeptStays`).

For `Accounts`, `Rotates` says of a login that is not `unsafe` that one refresh
at most is under way in it, and that the session it has read is the only one
that can be live until it is revoked, and none after. The browser needs more:
what a tab has got is `Secret`, shown by no tab, held by no request and not
stored, so it can be stored over anything; what Identity has in hand of the
browser's logins a tab waits for (`ServedIsInHand`); hence a stored session that
is revoked has a tab that will replace it (`ReplacementComes`). `RegInv` adds
that an account's phone is its own. The three parts are inductive by
themselves, but for the browser's, which uses the types of the sessions.

For `Reporting`, a part of `BackOffice`, the totals say nothing of who is about
to add to them. `HeldOnce` says that an event which counts, and which no two
loops had in hand at once, is in the hand of one loop and not processed; so when
it is added it was not there before. `StepsAreSound` says that what a loop has
read of the order's row stays true (rows are not deleted), so a completion
always has a row to mark, and one that met no row in its UPDATE is never left to
the transaction for the other statuses with a row. `DaysAgree` is `ReportsAgree`
for the tables: the orders completed on a day are no more than its sales count,
and the totals of a day do not fall, so what a client was shown stays below
them. The refunds of a day are a sum over a set of events. `Amount` is a fold of
the library, whose order is `CHOOSE`'s, and no induction theorem can be used on
it; the lemmas `SumsAgree` to `AmountAdds` take a smallest set for which the
fact fails instead (the order by inclusion of the parts of a finite set is
well-founded) and show that a sum exists, is unique and takes its members in any
order.

The other parts of `BackOffice` have an invariant each, as no two share a
variable:

* `LimitInv`: what was let through was counted, `admitted <= counter`.
* `CatalogueInv`: two requests of one setting were open at once or one ended
  before the other began (`PairInv`); a request has in hand the rows that were
  active when its UPDATE began, and whatever is active beside them was inserted
  by a request it was open with, which makes it late (`RequestInv`); no row is in
  the hands of two; and every row was made, and closed, by a request that has
  ended (`RowInv`), so periods can be compared by when requests began.
* `MigratorInv`, as long as no Down ran beside another run: those in effect are
  1..n for some n, an Up has all versions before its own, only one commits
  version n + 1, and a Down is alone and undoes version n. `StartupInv` adds,
  where there is no Down, that an instance past its migration has them all and
  that what a bootstrap has found or inserted stays.
* `StaffInv`: what an update has found of a table is what is there, unless an
  update that did not wait for it committed since (`Current`, `overtaken`); one
  at a time has the account's row (`OneHolds`), so two that both set `is_active`
  never overtake each other (`Apart`). `AccessInv`: each claim that a sign-in has
  read was committed since it began, or is empty in a refresh, and, if the sign-in
  is not torn, that one of the moments since `Covers` both: an update between the
  reads that gave no outlet leaves the moment of the first read, and one that took
  no role read before is itself such a moment.

Model-checked only: liveness (`ChargeReachesCore`, `RefundCancelsOrder`), which is
out of this prover's reach, and the counterexamples of section 5.

## 7. Not modelled

* Services and outlets (single inserts and updates of rows that nothing else
  writes) and coverage, a distance over floats; customer addresses.
* The gateway's routes and proxy, which keep no state; signatures of tokens,
  hashes, ids, logging, metrics and health checks; the texts of messages.
* Shutdown, apart from the deaths that any step may meet; list endpoints, which
  only read and whose answers no property relates.
* The pages of the web application: clients whose requests may come in any
  order.
* Time. Windows, expiries and tickers are steps that may come whenever they can.

## 8. Plan

1. Done: orders, payments, idempotency, fulfilment, order to cash and the ledger
   it implements, pipeline, accounts with the browser, reporting with its
   reports, and the back office with sign-ins, rate limit and start-up. Their
   safety properties are checked, and proved for any number of everything.
2. Next: what the pipeline and the projections promise as abstract
   specifications of their own, as `Ledger` is for orders and payments, with
   their refinements proved from the invariants of section 6.
3. Left to model: fulfilment in `OrderToCash`, with a smaller instance of the
   rest; a second channel of one connection.
