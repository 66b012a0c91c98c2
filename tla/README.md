# NovaCommerce in TLA+

Specifications, model-checking runs and proofs for the commerce core of NovaCommerce: stock, the
transactional outbox and its worker, carts, checkout, payments, returns, notifications, accounts and
their sessions up to the browser, and the smaller modules around them. The repository (`src/`) is the
reference; every definition is translated from its TypeScript, and `PROJECT.json` ("map") names the
lines each one stands for.

Contents: [the system](#1-the-system) · [modules](#2-the-modules) · [runs](#3-the-runs) ·
[bounds](#4-bounds) · [fairness](#5-fairness) · [proofs](#6-proofs) ·
[statements the code breaks](#7-statements-the-code-breaks) ·
[not modelled](#8-what-is-not-modelled-and-why) · [plan](#9-plan)

## 1. The system

NovaCommerce is a modular monolith in TypeScript. `apps/gateway` (NestJS) receives HTTP requests and
calls the command handlers of `modules/*`; each module keeps its own tables in one PostgreSQL
database through Prisma. A module tells others what happened by appending rows to
`outbox_messages` in the transaction that stores the change. `workers/outbox-publisher` polls that
table and runs the subscribed handlers of other modules, in the worker's own process, on an
in-memory bus.

Nearly every command has the same shape, and that shape is where the difficulty lies:

1. the handler loads an aggregate: one SELECT for the root row and, because Prisma resolves
   `include` with further statements, one for each child relation; no lock, no version column;
2. the aggregate's method decides on the copy in memory;
3. `save()` writes the WHOLE copy in one transaction, children that are not in the copy deleted,
   and the outbox rows with it.

Two commands that overlap therefore lose updates, and a load that overlaps a save may mix the row
of one moment with the children of another. Nothing in the code prevents either, so the models let
both happen, and the properties say what survives and what does not.

### Components

| component | state | operations | hard behaviours | what makes it correct |
|---|---|---|---|---|
| inventory | items (on hand, reserved), reservations, adjustments | create, adjust, reserve, release, release by order, `order.created` handler | lost updates, torn loads, a failure between the lines of one order | counts in range; reserved within stock; every reservation announced; counters, children and messages agree |
| outbox, event bus | `outbox_messages` (processed_at, retry_count), subscriptions | append, fetch a batch, run handlers in order, mark, record failure | crash between effect and mark, two workers, messages that always fail, rows committed out of order | at-least-once: closed only after all handlers; everything deliverable is delivered |
| outbox-publisher worker | the two loops in `main.ts` | poll, sleep, stop on a signal | errors inside error handling, restart | the loop survives every error |
| checkout | sessions | start, complete | three transactions and a provider call in one handler; concurrent and repeated calls | a completed session has an order; nobody is charged without one |
| order | orders | create from checkout, cancel | cancel while stock is being reserved | with checkout and fulfilment |
| payment | payments, attempts, transactions | initiate, confirm, fail, refund | confirm against fail, torn loads | refund only after success; children follow the status; one outcome |
| return-refund | return requests | create, approve, reject, process | the refund is its own transaction, before the status check | refunded means paid back, and approved |
| notification | notifications, deliveries | request, fetch pending, send with retries, store the outcome | redelivered events; sent before stored as sent; stale copies of sibling deliveries | announced as sent only when taken; bounded attempts; every delivery ends |
| identity | identities with sessions, roles and reset tokens; roles with permissions | login (password, provider), refresh, leave, logout, change and reset of the password, lock, unlock, assign and revoke a role; create, duplicate, rename, permit, delete a role | refresh races, several transactions per command, saves that bring a lock, a revocation or a deleted role back | a rotated session is closed for ever; chains do not fork and a locked account has no live session but for lost updates; roles are as they were answered |
| web session | tokens in the memory of each tab, one refresh cookie | restore, refresh after a 401, sign-in, sign-out, reload | tabs that share the cookie, answers that arrive late or never | the cookie names the last session of its chain; signed out stays out; no page stays undecided |
| cart | carts and their lines; a copy in Redis | get (creates), add, update, remove, clear; lookup by checkout | cache filled late, delete after the commit that fails, crossing saves, two first calls | one line per product; only committed carts are served; the cache is current but for late fills; a customer reads what he wrote |
| saved payment methods | methods with a default mark | add, set default, remove | rows that a call did not change are not written; removal of the default in two transactions | one default but for lost updates and half removals |
| promotion | coupons, redemptions | use | two uses of the last redemption | limits are respected; an answered use is stored but for lost updates |
| user | users, addresses | create, edit profile and preferences, add, edit, remove, set default address | stale copies saved over each other | one default address, always |
| catalog | products, categories | create, edit, price, publish, archive; create and move categories | saves that change nothing, a null that the row ignores, moves that cross | the document follows the product; categories are where they were moved to |
| search | OpenSearch documents | index from events | snapshots applied out of order, twice | the index catches up |
| shipping | shipments | create, dispatch | two creates of one order, two dispatches | one shipment with the number that was answered |
| review | reviews, images in object storage | write, edit, add an image, publish | uploaded before stored; edits while it is published | named images exist; what is published is what was read |
| cms, analytics, seller | none | domain model only, or empty | - | - |
| gateway | none | validation, adapters between modules | - | what the modules may be handed |
| pages that change something | what a page shows, which button waits, which list is asked for | change a line of the cart; edit addresses and payment methods; toggle a permission, create, edit, copy, delete a role | shown before it is stored, put back over later changes, answers out of order or after the page gave up, a second request that is refused | a page that waits for nothing shows what is stored, but for those |
| web, admin, ui (rest) | what pages show | pages, forms, tables | - | - |

### Interactions

- **checkout -> catalog, inventory, order, payment, promotion**: direct calls inside one HTTP
  request, each its own transaction.
- **order -> inventory, notification**: `OrderCreated` through the outbox. The worker subscribes
  inventory's handler first (`register-commerce-handlers.ts`), then notification's. Nobody
  subscribes to `OrderCancelled`: stock of a cancelled order is released by a staff call only.
- **payment -> notification**: `PaymentSucceeded`, `PaymentFailed`.
- **catalog -> search**: product events through the outbox, which the worker subscribes to as well.
- **web -> identity**: the routes under `/api/auth/session` of `apps/web` keep the refresh token in an
  HTTP-only cookie and exchange it at the gateway; sign-in and sign-out go to the gateway directly.
- **pages -> cart, user, payment, identity**: one request per change through
  `packages/frontend`'s client, which gives up after a while; the answer is the cart, or the page
  asks for the list.
- **other modules -> user, catalog**: lookups only.
- **return-refund -> order, payment**: direct calls through adapters in the gateway.

## 2. The modules

    AtLeastOnce                          what the outbox promises (abstract)
        ^ implemented by
    Outbox      Checkout      Inventory        Payment
       |            |             |               |
       +------ Fulfilment --------+            Returns

    AtLeastOnce
        ^ implemented by
    Notification

    Cart                                 on its own: checkout reads it, nobody subscribes

    SessionNames -- Identity      WebSession
                        |             |
                        +-- SignIn ---+

    Handler (HandlerNames)               what the calls of the smaller modules have in common
        ^ extended by
    Customer  Cards  Coupon (CouponLimit)  Catalog  Shipping  Review  Roles  Categories
        |       |       |          |          |        |        |         |
        +-------+-------+------ Storefront ---+--------+--------+---------+
                                    |
    Page                    CartPage  ListPage  RolesPage
        extends Handler, extended by the three

    InventoryProofs, OutboxProofs, FulfilmentProofs, ReturnsProofs,
    NotificationProofs, CartProofs, SignInProofs, StorefrontProofs             theorems
    MCInventory, MCOutbox, MCFulfilment, MCReturns, MCNotification, MCCart,
    MCSignIn, MCStorefront                                                     instances for TLC

**Inventory** models `modules/inventory`. `items` is the database: for each (sku, warehouse) pair the
stored aggregate, with `reservations` and `adjustments` as sets. A request has a `phase`, its
command, the items it has selected and not saved (`target`) and its copies (`work`). `SelectRows`,
`SelectReservations`, `SelectAdjustments` are the SELECTs of `findById`, `findBySkuAndWarehouse` and
`findWithActiveReservationsForOrder`; `SaveAdjusted`, `SaveReserved`, `SaveReleased`, `SaveReleasedForOrder` are
aggregate method and `save()` in one step (the method works on memory only); `SaveCreated` also
stands for the unique index. `Fail` is every error return, exception or stop. A reserve with several
lines is the `order.created` handler: each line is loaded and saved on its own, and a failure leaves
the earlier ones. `Quantity.create` throws below zero, which is why `Remaining` is a set that may be
empty. `opening` and `overwrote` are history variables, read by no guard. The `id` and `by` of a
message identify it for the properties; the real payload of `StockReserved` has the order and the
quantity only.

**Outbox** models the `outbox_messages` table, `OutboxPublisher.publishPending`, the in-memory bus
and the loop in `main.ts`. A message is a number (its `created_at`), `Handlers` says how many
handlers are subscribed to it and `FailsAt` where it always fails: 0 for a payload that does not
parse, k for its k-th handler, one past the last for none. A worker's `batch` is what it has read and
not dealt with, `step` where it is in the current message. `Write` may commit numbers in any order.
`Refuse` and `FailOnce` are the catch block (`recordFailure`), `Crash` is a stop between any two
steps or an error in the catch block itself, which drops the batch.

**AtLeastOnce** is the abstract promise: accepted, then reached by handlers, closed only when all
were reached. Outbox implements it under the mapping in the definition `Promise`.

**Checkout** models the start and complete handlers of `modules/checkout` with the order and payment
handlers they call. The `stage` of a call is the number of its transactions done so far. `Check`
loads the session and does the rest of the validation; `CreateOrder`, `CloseSession`,
`ChargeProvider`, `SavePayment` follow in the code's order. `CloseSession` writes the session loaded
by `Check` whatever has happened since.

**Fulfilment** composes Checkout, Outbox and Inventory (by INSTANCE, sharing variables):
`PlaceOrder` is a Checkout step and an Outbox `Write` together; while the worker is at the first
handler of a message, an Inventory request of that order takes its steps; `ReserveReturns` passes its
result to the bus; `Notify` is the second handler. Each attempt is a new Inventory request, named by
the order and the number of faults so far, hence never used twice. `WorkerStops` ends the request
that was running.

**Payment** and **Returns** model `modules/payment` and `modules/return-refund`. A payment is a
status, the status of its one attempt and its set of transactions, loaded by three SELECTs. Returns
runs Payment's refund handler as a sub-activity of the process call (`StartRefund`, `Refund`,
`RefundReturns`, `MarkRefunded`: the code's order), next to calls of the payment endpoints
(`Direct`). A return request is one row, so its load is one step.

**Notification** models `modules/notification` and the second half of the worker's loop. `status`
is the table of deliveries by notification and channel; a worker has the `queue` it fetched, the
`job` it is at, its copy of that notification (`memory`), the `stage` of the send and its `tries`.
`Fetch` is `findPendingDeliveries`, `Load` is `findById`, `Accepted` and `Refused` are one call of
`sendViaChannel`, `SaveSent` and `SaveFailed` are `markSent`/`markFailed` with the `save()` that
writes every delivery of the notification. `Crash` is a stop or an exception, which ends the batch.
The three event handlers only differ in their template, so requests come from nowhere (`Request`);
Fulfilment has the one for `OrderCreated` in its context. `taken`, `repeats` and `shared` are history.

**Cart** models `modules/cart` for one customer (customers share nothing). `carts` is the database,
`cache` the entry under the customer's key, `copy` what a call holds in memory. `Hit` and `Miss` are
the GET, `FindCart` and `SelectItems` the two SELECTs of `findByCustomerId`, `Fill` the SET after
them, `Create` the save of a new cart, `Save` the aggregate's method with its transaction,
`Invalidate` the DEL after either. The command "read" is the lookup of a starting checkout, which
creates nothing. The entry under the cart's own id is written and deleted too, but `findById` has no
caller in the module's handlers, so it is left out. The transaction writes the copy's lines before it
deletes the others: `Clash` is the unique index that a new line meets then, blind to lines without a
variant. `committed`, `late` and `orderly` are history.

**Identity** models one account of `modules/identity`. `account` is its row with hash, roles and
sessions, `resets` its reset tokens. A command is a list of steps (`Steps`): the SELECTs and
transactions of its handler in the code's order, `todo` what is left of it. `FindRow` and
`FindChildren` are the load, with the decision of the aggregate (`Changed`) at its end; `Save` is
`PrismaIdentityRepository.save`, which upserts every session of the copy; a column that the copy leaves
undefined stays (`Stored`), which is why `closed` (revokedAt was once set) and `next` survive stale
saves while `revoked` does not. `RevokeSessions` and `Invalidate` are the UPDATEs that some handlers do
besides. A session is named by the call that made it.

**WebSession** models the session in the browser: what each tab remembers, the cookie, and one job of
each kind in flight per tab (restore, refresh, sign-in, sign-out; a second restore or
refresh shares the one in flight). `Answered` is the route's answer with its Set-Cookie and what the page makes
of it; `GaveUp`, `LostRoute`, `SignInFailed` and the second halves of `TokenStored` and `CookieCleared`
are the errors and time-outs. `left` and `disturbed` are history.

**SignIn** composes both: a step of the browser that asks the gateway starts a call of Identity, and
an answer arrives when that call is done. Calls from elsewhere (another device, a reset link, an
administrator) share the account. `Scenes` says how many tabs, reloads and calls a behaviour has.

**Handler** is the shape of the smaller modules: begin, load into `copy`, save the copy (`Commit`,
`CommitPast`), fail anywhere. `current` (history) has the calls whose copy nobody has committed past, so
that `faults` can say when a save undid another. `CommitPast` names whose copies a commit makes stale:
where a module has several aggregates, those of the same one. The components:

- **Customer**: `modules/user` for one identity; an address is its default flag. A call that edits
  texts still saves every address.
- **Cards**: saved payment methods; a save writes only the rows its call changed, a removal of the
  default deletes, reloads and marks another.
- **Coupon**: a coupon with its redemptions, replaced as a whole by each use.
- **Catalog**: one product, its messages in the outbox and its document. `Told` says which calls raise
  an event, `Row` what the UPDATE does with a missing category, `Indexed` is `ProductIndexer`, and
  `Deliver` and `Delay` the worker, in order and not.
- **Shipping**: the shipments of one order; **Review**: one review and its uploaded images.
- **Roles**: roles, their permissions, and who has them; **Categories**: the tree, a category being
  its parent.

**Page** is the shape of a page with changes. `db` has what the gateway has stored and what is shown.
A handler of React runs to its first `await` in one step (`Press`) and goes on with the variables of
that moment, which is why `copy` keeps the page as it was before (`before`). The gateway serves a
request in one step (`Serve`); what may happen inside is in the modules above. The client cannot tell
a refusal from a lost answer or from a request that is still on its way: after an error in phase
`sent` the request is `late`, to be served (`ServeLate`) or not (`Never`). `current` says whose press
or answer is still the newest, for `faults`.

- **CartPage** (`cart-page.tsx`): quantity, removal and recommendation are shown at once; the answer is
  the whole cart; an error puts all lines back as the handler saw them. A line without an answer yet
  has a name that is not a UUID, and changes to it stay on the page.
- **ListPage** (`account-context.tsx`, `account-aside-cards.tsx` and their forms): addresses or payment
  methods. Nothing is shown before it is stored; every change ends with a GET of the list. Editing an
  address as default is two requests.
- **RolesPage** (`roles-page-container.tsx`): a toggled cell is shown at once, and its answer is put
  into the list of roles of that moment; everything else loads all roles again, a new load cancelling
  the one before. `role` is the one in the address bar, `seen` the one shown. A cell with several
  permissions has all or none of them.

**Storefront** puts all of these beside each other, one `desk` per behaviour, since they share no table.

Operators named `Bug...` are mistakes the code does not make. No specification uses them; they
document, for each property, a change of the code that it notices ("mutants" in `PROJECT.json`).

### What is abstracted

Prices, totals, addresses, names, texts, currencies and timestamps decide nothing in the modelled
guards and are left out. Validation that rejects a request before it touches state is expressed by
which commands exist (positive quantities, at least one line). A read that finds nothing, a refusal
by an aggregate, a failed transaction and a stopped process have one effect on state, none, and
share one action per module.

Prisma and PostgreSQL are external and modelled from how the code uses them: READ COMMITTED, one
statement per included relation in the order row then children, one atomic transaction per `save()`
(the upsert of the root row makes concurrent saves of one aggregate wait for each other), the unique
indexes named in `schema.prisma`. The payment provider is a call that succeeds or fails; nothing is
assumed about duplicates.

## 3. The runs

| run | what is asked | answer |
|---|---|---|
| `inventory` | three concurrent commands of any kind, two items | `ReservedWithinOnHand`, `ReservationsAnnounced` hold always; `NothingLost` (counters, children and announcements agree) until a save overwrites what its request had not read |
| `inventory_oversell` | can more be promised than there is? | yes: `NoOversell` is violated |
| `outbox` | two workers, faults, poisoned messages | safety, refinement of `AtLeastOnce`, and delivery of every sound message hold |
| `outbox_starvation` | a batch full of messages that always fail | younger messages are never delivered: `EverythingIsDelivered` is violated |
| `fulfilment` | one session, two complete calls, a worker that fails | all component invariants survive composition (`ComponentInvariants`); `CheckoutInOrder`: a completed session has its order and only orders of closed sessions are charged; no notification before every line is granted; nothing twice without a fault |
| `fulfilment_redelivery` | is an order reserved once? | no, not after a fault: `ReservedOnce` is violated |
| `returns` | return calls and payment calls on two payments of one order | `StatusHasReasons`, `ReturnHasReasons`, `AnnouncedRefundHappened` hold always; `HistoryExplainsPayment`, `DecidedOnce` until a save overwrites something unread |
| `notification` | two workers, refusals, crashes, copies written back | no false `NotificationSent`, every delivery ends; without overlapping workers, outcomes are final and repeats are due to faults |
| `cart` | three calls of one customer, failures, expiry | one line per product and only committed carts in the cache, always; a current cache but for late fills and failed deletes; read your own writes for calls that do not overlap |
| `sign_in` | two tabs, or a tab whose account others change, or three calls of other devices | `RotationClosesTheOld` holds always, `SessionsInOrder` and `CookieFollowsSession` but for lost updates and jobs that overlapped; every page decides in the end (`Settles`) |
| `storefront` | two to four calls at each of eleven desks, three of them pages | `OneDefaultAddress` and `RedemptionsWithinLimit` hold always; `AnswersStand` and `CopiesFollow` but for lost updates, half done calls, and late messages and answers |
| `returns_unapproved` | is only an approved return paid back? | no: `RefundNeedsApproval` is violated |

Reading the properties:

- *ReservedWithinOnHand* survives every lost update: `reserve()` decides on one committed row and
  writes back that row's two numbers, so the pair is always one that some reserve accepted. It
  needs that no adjustment took stock away (`adjust()` ignores the reserved part).
- *ReservationsAnnounced* says that the database never holds a reservation nobody was told of, in
  spite of torn loads and deleted children: a child row comes from memory, memory from an earlier
  commit, and its message was in that commit.
- *NothingLost* joins `ReservedMatchesActive`, `AdjustmentsExplainOnHand` and `GrantedAreActive`, guarded
  by `~overwrote`. It says that lost updates are the ONLY way counters,
  children and announcements part: torn reads alone cannot do it. A torn copy that is saved
  either equals what is stored, and does no harm, or counts as an overwrite.
- *DeliversAtLeastOnce* is the refinement; *ProcessedAfterAllHandlers* and *HandlersInOrder* are
  what handlers may rely on: when the second handler runs, the first has completed.
- *ReservedBeforeNotified* crosses all three components: checkout's outbox row, the bus's order of
  handlers, inventory's announcement for every line.
- *StatusHasReasons* (no refund without a success, children that follow their payment) and
  *ReturnHasReasons* (a return was paid for, a refunded one was approved) hold under any interleaving;
  *HistoryExplainsPayment* and *DecidedOnce* until a save overwrites something unread;
  *AnnouncedRefundHappened* ties each `ReturnRefunded` to a refund its own call committed.

- *RepeatsAreFaults* and *OutcomesStay* speak of one worker (`shared` is false): what was announced
  is what is stored, nothing goes back, and a customer hears twice only where a fault lies between
  the channel and the save. With two workers all of that is lost, since nobody looks at a
  delivery's status again: a sent delivery may be sent again, or be stored as failed.
  *SendsAtLeastOnce* and *EveryDeliveryEnds* hold all the same.

- *CacheIsCurrent* says where stale entries come from: a copy read before somebody's save fills the
  cache after that save's delete, or the delete failed. There is no third way. An entry that is stale
  otherwise has a caller who has committed and not yet deleted it.
- *LoadedWasStored* holds even for stale entries: a load takes the lines with one statement, so what
  it returns is a cart as one transaction left it. *OneLinePerProduct* does not follow from the unique
  index, which lets lines without a variant through; it holds because a save stores one whole copy.
- *ReadsOwnWrites* is what is left for a customer whose calls follow each other. Overlapping ones may
  make two carts, or bring a removed line back (*LinesAnnounced* says: an announced one).

- *RotationClosesTheOld* is what remains of "one live token per chain" when saves of stale copies cross:
  `revoked` can be written back to false, `revokedAt` cannot (an undefined column is left alone), so
  whoever looks at it sees that the old session was exchanged. *SessionsInOrder* says that lost
  updates are the only way to a fork of a chain or to a live session of a locked account. The
  refreshes of two tabs with one token are such a lost update.
- *CookieFollowsSession* relates three places: cookie, tabs, database. `disturbed` becomes true when two
  jobs overlap, an answer is lost, or a page leaves in between, and the property fails then: the answer
  to a restore that began before a sign-in settles the tab with its old cookie.
- *AnswersStand* has one rule per desk (its comment lists them), each saying that lost updates are the
  only way an answered call can come to nothing. Two parts hold in any case: an image that a review
  names is stored, and the administrator's role is not lost or renamed. For categories: without a move
  they are a forest, and no category is its own parent; two moves may close a circle.
- *CopiesFollow* is about copies of what is stored. The search index: with messages in order, the
  document is the product, except for a category that was taken away: the message says none, the
  UPDATE leaves the column (`undefined`). The pages: when nothing is under way, a page shows what is
  stored, unless an answer was overtaken by another (`outOfOrder`), an error put the page back over
  a later change (`overwrote`), or a change was stored and the page not told (`halfDone`); and a
  newer answer heals each of them, since showing it empties `faults`.

`CHECK_DEADLOCK FALSE` everywhere: requests run once and payments end, so every behaviour with
finitely many of them stops.

## 4. Bounds

| bound | value | why it is enough |
|---|---|---|
| Requests (Inventory) | 3 | a torn load needs one saver, an overwrite two, an overwrite seen by a third command three |
| Items, Openings, MaxInt4 | 2 items (1 in the oversell run), one opening stock of at most 3 | one item for single commands, two for `order.created` and release by order; the limit of the INTEGER column is reached |
| Commands | the nine in `MCCommands` | each kind; adjustments that fit, that empty the item and that undercut; reserves that exhaust it |
| Messages, BatchSize, MaxFaults (Outbox) | 4, 3, 2 | sound with two handlers, always refused, unparseable, no subscriber; one batch smaller than the table; a fault in each worker |
| Workers | 2 (1 in the starvation run) | any two may hold the same message |
| Calls, Sessions (Fulfilment) | 2 calls, 1 session with 2 lines | two orders compete for stock of one unit per item and for one session |
| MaxFaults (Fulfilment) | 1 | first delivery and one redelivery; the same bound numbers the attempts |
| Disputed | 1 of the orders | one cancelled, one not |
| Calls, Direct (Returns) | 4 and 2 on 2 payments of 1 order | create, approve, reject, process in one behaviour, with a second payment and a direct confirm and refund against them |
| Notifications, Channels, Workers (Notification) | 1, 2, 2 | the siblings of one notification are all that saves can disturb; a second notification adds the order of a batch only |
| Calls, Products (Cart) | 3, 2 (one with a variant) | a late fill needs a reader and a saver, who is stale a third; the unique index sees one product and not the other |
| Commands, MaxQuantity (Cart) | the seven in `MCCommands`, 3 | each kind; adding twice the larger quantity passes the limit of the column |
| Scenes, Calls (SignIn) | two tabs with 2 calls; one tab, 1 reload, 2 calls of which others may be lock, unlock, request, change, leave, a provider, roles, reset; 3 calls without a tab | a cookie race needs two tabs; a stale save needs a loader and a saver, a chain that forks a third |
| Passwords, Roles (SignIn) | 1, 1 | only whether a password is the stored one matters; wrong ones are failures |
| DeskCalls (Storefront) | 4 at coupon, shipping, review; 3 at customer, cards, catalog, cart page; 2 at roles, tree, roles page, list page | a lost update takes two calls, what follows from it a third; the limit of a coupon two more than it allows. Roles and categories have larger inputs, and two moves already close a circle |
| Earlier, Orders, MaxRedemptions (Storefront) | 2, 3, 2 | two things from before, so that one can be the default and the other elected; more orders than redemptions |
| Products, Quantities, Cells (Storefront) | 2, 2, 2 | a cart with a line for either product and another quantity for it; a role with a cell toggled and another left alone |
| Prices, Categories, Names, System, Keys (Storefront) | 2, 1, 2 (one protected), 1, 1 | a change and no change; a category and none; a system role and another |
| BatchSize, MaxAttempts, MaxFaults (Notification) | 2, 3, 2 | a batch with both siblings; the code's three attempts; a fault in each worker or two in one |

`MaxFaults`, and `scene.calls` and `scene.reloads` of SignIn, are the only bounds in guards; the others are sizes of constant sets. Further limits of
the models: one cancel in flight per order; the start and complete calls of a session name the same
warehouse; no two rows have the same `created_at`.

Symmetry: `r2`, `r3` of `MCInventory` (a command names `r1`'s reservation), the calls and direct
calls of `MCReturns`, and in `MCStorefront` the calls `c1`, `c2`, `c3`, which every desk gets together
or not at all, `c5`, `c6`, and what earlier calls created. Only runs without liveness use it.

## 5. Fairness

`Outbox!FairSpec` gives each worker weak fairness of its whole turn, `Work(w)`: fetch, parse, handle,
mark, refuse. `main.ts` catches every error of a turn and sleeps a fixed time before the next;
a process that dies is started again by its supervisor. No fairness is given to `Write` (nobody has
to write) nor to faults and crashes. `MaxFaults` makes faults finitely many, which is part of what
"sooner or later succeeds" means.

`Notification!FairSpec` has the same fairness for the second half of the turn. A channel may refuse
for ever; three refusals end a delivery.

`EverythingIsDelivered` then needs one more thing, which is why the bound matters: fewer messages
that always fail than fit a batch. With as many, run `outbox_starvation`, it is false.

`SignIn!Spec` gives each page weak fairness of two things: asking for its session while it is not
decided (`SessionBootstrap` does so when the page is shown), and the end of one of its jobs: a request
ends by an answer, an error or the time-out of the route (`GaveUp`, `LostRoute`, `SignInFailed`). The
gateway has none; `Settles` holds whether or not it ever answers. The bound on reloads matters for it: a page that is
loaded again for ever need not decide.

No other component has fairness: clients need not call, and staff need not decide.

## 6. Proofs

The modules `...Proofs` are checked by TLAPS for
every value of the constants that satisfies the named assumptions (all of them evaluated by TLC on the instances as well).

| theorem | says |
|---|---|
| `InventoryProofs!TypeCorrect` | `Spec => []TypeOK` |
| `InventoryProofs!ReservedStaysWithinOnHand` | `Spec => []ReservedWithinOnHand` |
| `InventoryProofs!ReservationsStayAnnounced` | `Spec => []ReservationsAnnounced` |
| `InventoryProofs!NothingIsLost` | `Spec => []NothingLost` |
| `OutboxProofs!TypeCorrect` | `Spec => []TypeOK` |
| `OutboxProofs!ProcessedOnlyAfterAllHandlers` | `Spec => []ProcessedAfterAllHandlers` |
| `OutboxProofs!HandlersStayInOrder` | `Spec => []HandlersInOrder` |
| `OutboxProofs!WorkerDeliversAtLeastOnce` | `Spec => DeliversAtLeastOnce` (refinement) |
| `FulfilmentProofs!ComponentsKeepTheirs` | `Spec => []ComponentInvariants` |
| `FulfilmentProofs!CheckoutStaysInOrder` | `Spec => []CheckoutInOrder` |
| `FulfilmentProofs!ReservedThenNotified` | `Spec => []ReservedBeforeNotified` |
| `FulfilmentProofs!OnceIfNothingFails` | `Spec => []OnceWithoutFaults` |
| `ReturnsProofs!TypeCorrect` | `Spec => []TypeOK` |
| `ReturnsProofs!PaymentsHaveReasons` | `Spec => []StatusHasReasons` |
| `ReturnsProofs!HistoryExplains` | `Spec => []HistoryExplainsPayment` |
| `ReturnsProofs!RefundsHappened` | `Spec => []AnnouncedRefundHappened` |
| `ReturnsProofs!ReturnsHaveReasons` | `Spec => []ReturnHasReasons` |
| `ReturnsProofs!ReturnsDecidedOnce` | `Spec => []DecidedOnce` |
| `NotificationProofs!TypeCorrect` | `Spec => []TypeOK` |
| `NotificationProofs!SenderDeliversAtLeastOnce` | `Spec => SendsAtLeastOnce` (refinement) |
| `NotificationProofs!RepeatsStandForFaults` | `Spec => []RepeatsAreFaults` |
| `NotificationProofs!OutcomesAreFinal` | `Spec => OutcomesStay` (steps) |
| `CartProofs!TypeCorrect` | `Spec => []TypeOK` |
| `CartProofs!LinesStayMerged` | `Spec => []OneLinePerProduct` |
| `CartProofs!LinesStayAnnounced` | `Spec => []LinesAnnounced` |
| `CartProofs!LoadedWasCommitted` | `Spec => []LoadedWasStored` |
| `CartProofs!CacheStaysCurrent` | `Spec => []CacheIsCurrent` |
| `CartProofs!OrderlyCallsReadTheirWrites` | `Spec => []ReadsOwnWrites` |
| `SignInProofs!AccountTypes`, `AccountClosesTheOld`, `AccountStaysInOrder` | `Server!Spec =>` types, `[]RotationClosesTheOld`, `[]SessionsInOrder` of Identity alone |
| `SignInProofs!TypeCorrect` | `Spec => []TypeOK` |
| `SignInProofs!RefreshClosesTheOld` | `Spec => []RotationClosesTheOld` |
| `SignInProofs!SessionsStayInOrder` | `Spec => []SessionsInOrder` |
| `SignInProofs!CookieStaysWithSession` | `Spec => []CookieFollowsSession` |
| `StorefrontProofs!TypeCorrect` | `Spec => []TypeOK` |
| `StorefrontProofs!DefaultAddress` | `Spec => []OneDefaultAddress` |
| `StorefrontProofs!Redemptions` | `Spec => []RedemptionsWithinLimit` |
| `StorefrontProofs!AnswersAreTrue` | `Spec => []AnswersStand` |
| `StorefrontProofs!CopiesAreTrue` | `Spec => []CopiesFollow` |

**Inventory.** None of the invariants is inductive alone, because a save takes its values from a
request's memory. Each is proved of the database and of all memories together:

- `TypeInv` = `TypeOK` and `RowsStay` (a selected row is still stored while its children are read);
- `FitInv`: while nothing was taken, reserved <= on hand for every stored item and every copy;
- `AnnouncedInv`: every reservation in the database and in every copy is announced.

A step is one of two kinds: reads and failures, which only copy database values into memory (or
drop them); and saves. Lemma `EverySaveSaves` reduces the four saving actions to one statement: a
save writes the result of one `Reserve`, `Adjust` or `Release` of the copy, together with that
method's messages. Each invariant is then proved once for `Save`, with one lemma about the methods.
Loads need no atomicity argument: both invariants hold for any mixture of row and children, which is
the point.

`NothingLost` is about histories in which no save has overwritten what its request had not read. There
the item a save replaces is the item it loaded (`SaveOfOwn`), so `LossInv` describes the database
only: a stored item is `Whole` (its counts are the sums of its children, the ids announced and not
released are the active ones, no id occurs twice, and the ids of its children are used up, by a request that has saved
that line), all messages are about stored items and used-up ids (`MessagesKnown`), and what a create
is about to save is new (`CreatesNew`). That a request's next id is not used up is what the proof turns on.

The counts are sums, which the model takes with the recursive `MapThenSumSet`. The library's induction
theorems have an operator parameter; `SmallestSet` replaces them: by
`FS_StrictSubsetOrderingWellFounded` and `WFMin`, a non-empty set of subsets of a finite set has a
smallest member, so each fact about sums is proved by looking at the smallest set that would refute it
(`SumExists`, `SumsAgree`, `SumType`, `SumRemove`, `SumUnion`). `QuantityIsSum` and `DeltaIsSum` connect
them with the two sums of the model.

**Outbox.** `Inv` = `TypeOK`, an idle worker is at step 0, `Progress` (the handlers a worker has
passed are completed), `HandlersInOrder`, `ProcessedAfterAllHandlers`. `Progress` is the needed
strengthening: `MarkProcessed` closes a message because the worker's own `step` says so. The
refinement follows with `PromiseInit` and `PromiseStep`: `Write` maps to `Accept`, `Handle` to
`Deliver`, `MarkProcessed` to `Close`, all else to a stutter.

**Fulfilment.** Three components run in one step relation, so the proof does not start again:
`EveryStep` says that every step is a step of Checkout, of Inventory or of Outbox, or leaves that
component alone, and `StockFacts` and `BusFacts` are instances of the two components' proof modules,
whose lemmas then give `StockInv` and `BusInv`. `CommandsFit`, `NoRowFits` and `HandlersFit` show that
the constants the composition hands out satisfy those modules' assumptions; the `Same...` lemmas, that
an operator reached through two instances is one operator. The rest relates the three:

- `CheckoutInv`: what a call has stored and charged is what its stage says (`StageTells`); a step only
  adds (`Grows`).
- `ReservedInv`: an attempt of the reserve handler holds the lines it has yet to reserve; those it no
  longer holds were announced. Each save takes exactly one line away with the message it stores.
- `GrantsInv`: each `StockReserved` is some attempt's line of an order that exists, and attempts are
  counted by the faults so far. Hence at most one per line while nothing failed.
- `DeliveryInv`: the first handler is complete only if an attempt ended well, and the count of
  notifications is bounded by the faults plus what the second handler has sent.

With `HandlersInOrder` (the second handler starts after the first) these give the properties.
Assumptions: `CallsAssumption`, `LimitsAssumption`, `CartAssumption`, `NoRowAssumption`.

**Returns.** A payment's save writes a status from a caller's memory, so `PaymentInv` has three parts: a
stored status has its announced reason (`StoredHasReasons`); so has whatever a caller read, from the
select of the row on (`HasReasons`, since row and attempts come from two selects); and an announced
refund is done (`RefundIsDone`). `ReturnInv` says the same of the returns: a call that holds a decided
request knows of its announcement (`CallsKnow`), and an approved one was told to its payment.
`AllExplained` and `AllDecided` are the two properties that hold while nobody saved over a newer row,
and say "at most one" by equality and not by counting. `PaymentMoves` lists once what a step can do to a payment.

**Notification.** The refinement needs that no copy of a notification is half requested
(`WholeRequests`), that what a worker holds was requested (`HeldIsRequested`), that attempts are left
while it sends (`AttemptsLeft`), and `SentWasTaken`: whatever is announced as sent, and whatever an
accepting worker is about to announce, was taken by its channel. `Request` maps to `Accept`,
`Accepted` to `Deliver`, the last `SaveSent` of a notification to `Close`, all else to a stutter.

`RepeatsAreFaults` is about one worker at a time, so `AloneInv` adds, while no notification was shared:
at most one worker is at work, and its memory is what is stored (`WorksAlone`); what is announced is
what is stored (`ToldAsStored`); and the repeats so far, plus the deliveries a channel took that are still
stored as pending and that no worker is about to save (`Lost`), are at most the faults (`LostAreFaults`).

**Cart.** Two properties already speak of everything anybody holds (`Held`): database, cache,
copies. Lemma `EveryStep` says that a step adds nothing to `Held` but empty carts and carts `Derived`
from a held one by a single command whose messages are stored with it; each property is then a
statement about `Changed` and `News`, the aggregate's methods. `TypeInv` adds `Where`: a call between
loading and storing has a cart whose row exists. `CacheInv` adds that the database's cart counts as
stored (`StoredWasStored`), and, while calls came one after the other, `Orderly`: at most one call
runs, what it read is what is stored, there is at most one cart, and the cache entry is current unless
that call has just saved. `ReadsOwnWrites` follows.

**SignIn.** The browser and the account service in one step relation. The lemmas about the service
are stated of its instance `Server!` directly and need only `IdsAssumption`, so they hold of
Identity alone (`AccountTypes`, `AccountClosesTheOld`, `AccountStaysInOrder`). `ServerMoves`: every
step of SignIn is a step of Identity or leaves it alone, because a browser step that starts a call
hands it a proper command. That needs the types of the browser (a refresh presents the cookie, and the
cookie names a session), so both are proved in one induction, `IInv`. The invariants of the service:

- `AccountInv`. A save takes the sessions from a copy, so it says the same of every copy as of the
  database. `Good` has three parts: types of the sessions and that a revoked one is closed (`Sound`);
  that the session a refresh of `c` presented is revoked in every copy that has `c`'s session, or
  closed in the database already (`Covered`); and that a call whose session is somewhere has at most
  its save to come (`Known`), which excludes that it decides again. `Planned` ties a call's remaining
  steps to its command. The heart is `UpsertedSound`: merging a good copy into a good table gives a
  good table, because `closed` only grows.
- `OrderInv`. While nobody overwrote a newer account, the stored status and sessions are in order with
  each other (`InOrder`), and so is the table the save of a call in `current`, one nobody has committed
  past, would produce (`Merged`, `Fresh`). The children are read right after the row (`AfterRow`).
- `ChainInv`. A session's successor is the session of a refresh that presented it (`Linked`), and a
  call that answered with a session has stored it (`Gives`); `Progress` is the matching fact about steps.

`CookieFollowsSession` then speaks of a browser nobody disturbed. `Held`: the cookie, and whatever a
request presents, is a stored session; every tab's job is at the place its call is. While
undisturbed it is `Calm`: there is one job at a time (`Single`); a call that presents the
cookie's session belongs to a job in flight (`PresentedByJob`); nobody has yet presented the session a job will
bring (`BringsNew`); and once a tab has left, there is no cookie and no job that brings one
(`LeftForGood`). The proof needs the second half of
`ScenesAssumption`: in a scene with tabs every refresh comes from a tab. The code justifies it: the
refresh token is an httpOnly cookie, so that no other caller has one to present.

**Storefront.** Each desk has an invariant of its own; `Serve` and the page steps change one desk at
a time, so a step is proved once per desk and the desks are put together at the end (`IInv`).

- `CustomerInv`, `CouponInv`, `UsesInv`: each method of `User` turns any addresses with one default, or
  none at all, into such addresses; each use of a coupon keeps the limit of whatever redemptions it
  gets. What is saved was made from a copy that was stored once, so no interleaving can break either.
  That the new entry is new needs `CustomerUnsaved` and `CouponUnsaved`: a call that has not saved has
  nothing of its own, stored or in a copy.
- `CardsInv`: there is at most one default card, and none only while a call under way (`Elector`) will
  still mark one. `ShipmentInv`: there is at most one shipment, and a dispatch that was answered is the one
  stored. `RolesInv`, `TreeInv`, `ReviewInv`: what an answered call promised still holds. A copy nobody
  saved over since it was read (`current`) equals what is stored (`CardsUpToDate`); that is where a stale
  copy is excluded.
- `CatalogInv`: what was told last (`Latest`: the last message not yet followed, or the search document
  when there is none) is like the stored product (`Like`, `Followed`).
- `CartViewInv`, `ListViewInv`, `RolesViewInv`: what a page shows is what its desk stores, or a call
  under way will tell it (`Pending`, `WillKnow`, `PendingToggle`, `WillLoad`).

Assumptions: `EarlierAssumption`, `DeskCallsAssumption`, `MaxRedemptionsAssumption`, and that the
placeholders and names are different from the identifiers (`NoneAssumption`, `SameAssumption`,
`ProductsAssumption`) and quantities are naturals (`QuantitiesAssumption`). The `CASE` arms of the model
are disjoint: otherwise `CASE` means an arbitrary choice, and nothing follows from it.

**Only model-checked.** Every invariant, action property and refinement that a passing run checks is stated by a
theorem. What is left to TLC is liveness, which needs `ENABLED`: `EverythingIsDelivered` (Outbox),
`EveryDeliveryEnds` (Notification) and `Settles` (SignIn); and the four statements the code breaks.
## 7. Statements the code breaks

Four runs end in a counterexample to something the repository says of itself ("findings" in
`PROJECT.json`):

1. **Overselling.** Two reserves of two load the item with three on hand; both are granted, both
   announced; the second save deletes the first reservation. The row then says reserved = 2, the
   messages say 4. (`docs/domain-model.md:183`)
2. **Starvation.** `findUnprocessed` returns the oldest rows, failed ones included, for ever;
   `retry_count` is counted and read nowhere. A batch of messages that always fail is all the worker
   sees. (`docs/event-catalog.md:359`)
3. **Reserved twice.** The worker reserves the first line of an order and stops, or the second line
   is refused. The message is delivered again and the first line reserved again under a new id.
   (`docs/event-catalog.md:359`, "consumers must be idempotent")
4. **Refund without approval.** The process handler commits the refund, then `markRefunded` answers
   "Only approved returns can be refunded". (`return-request.ts:121`)

Further statements are written in the modules and are false of the code, but contradict no sentence
of the documentation closely enough, or repeat one of the stories above; no run checks them:
`Inventory!AvailableNotNegative` (a negative adjustment below the reserved count),
`Checkout!OneOrderPerSession` (two complete calls), `Payment!OneOutcome` (confirm against fail),
`Returns!OneActiveReturn` (two create calls). That a customer has one cart is false too (two first
calls), and promised nowhere; `ReadsOwnWrites` states it for calls that do not overlap.

What the newer modules let happen, and no sentence of the repository forbids, has no run either; the
properties above say exactly when it cannot: two default payment methods, or none; two shipments of
one order; a coupon use that was answered and is not stored; a deleted role that a slow save brings
back; a lock undone by a sign-in that loaded before it; categories in a circle
(`changeParent` refuses only the category itself); a category or parent set to null, which stays in
the row; a cookie that the refused refresh of one tab clears after another was given it; a page that
an error puts back over changes that are stored; an address whose edit is stored and reported as
failed, because it was the default already (`account-context.tsx:173`, `user.ts:136`).

## 8. What is not modelled, and why

- `Order.confirm()` and `Order.complete()` have no caller. Returns takes completed orders as given.
- The amount of a refund: the code compares it with nothing, so no guard depends on it.
- Registration, which is how Identity begins; permission checks and request validation, which decide
  who may call and what the commands are; lists and other reads that feed no decision.
- Most of the repository by lines: pages, forms, tables, styles and mock data of `apps/web`,
  `apps/admin` and `packages/ui`, which show what the gateway answers and keep nothing; the same
  holds for DTOs, Swagger decorators, module wiring, telemetry and migrations. They are the larger
  part of the code and have no protocol to model. The parts that have one, the session and the pages
  that show a change before or after it is stored, are modelled; those of the profile and the
  preferences send one request and show its answer, and the checkout page calls what Checkout models.
- Selection of lines in the cart, and permissions of a cell granted in part: only shown.
- Clients of Redis, OpenSearch, S3, mail and payment services: pure I/O.
- `cms`, `analytics`, `seller`: no operation that is reachable.

## 9. Plan

Done, in this order: Inventory; AtLeastOnce and Outbox; Checkout; Fulfilment; Payment; Returns;
proofs of Inventory and Outbox; Notification and Cart with their proofs; Identity, WebSession and
SignIn; Handler with the eight modules of Storefront; proofs of SignIn and Storefront; Page with the
three pages; proofs of Fulfilment and Returns, of the remaining properties of Cart, Notification,
SignIn and Storefront, and of `NothingLost`.

No further module is planned: what is left of the system has no state of its own or no caller. Larger
instances would help where a scene of SignIn or a desk has two calls.

Next proofs: refinements that are implicit in invariants today (a payment's statuses as an abstract
state machine that Returns implements; the cart's cache as a read-through copy), and an account of
what bounds the loss when saves do overwrite each other (`NoOversell` is false; a bound by the number
of overwrites is not).
