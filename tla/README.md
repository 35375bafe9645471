# DADAN Dijital: a TLA+ model of ownership, settlement, certificates, sessions and access

DADAN Dijital sells one-of-a-kind pieces of jewellery to the members of a closed
house, keeps the history of who owned each piece, lets members pass pieces on
under review, and issues certificates of ownership.  What makes its core hard: a
piece must never have two owners; money and pieces move in different systems
(PostgreSQL and the payment gateway Tap) and four independent callers may settle
the same order; refunds and certificates are made later, by sweeps and queues that
crash and overlap; sessions live in Redis, in several keys that change one at a
time.  These modules model that core, `apps/api`.

Contents: [inventory](#inventory) · [modules](#the-modules-and-the-code) ·
[runs](#what-the-runs-check) · [disagreements found](#where-the-code-and-its-comments-disagree) ·
[bounds and fairness](#bounds-and-fairness) · [proofs](#what-is-proved) ·
[not modelled](#what-is-not-modelled) · [plan](#plan) · [running](#running-it)

## Inventory

| Component (under `apps/api/src`) | State it keeps | Operations | What makes it correct | Module |
|---|---|---|---|---|
| Pieces (`pieces`) | `Piece` status and owner, `OwnershipRecord`, serial counters | register, update, assign | owner and status agree; history agrees with the row; history is append-only | Ownership |
| Transfers (`transfers`) | `TransferRequest`, piece status | initiate, confirm ×2, cancel, approve, reject | one active transfer per piece, sender still the owner | Ownership |
| Orders (`orders`) | `Order`, `OrderItem`, idempotency key, payment reference | create, attach reference, confirm, fail, cancel, set status, refund, expire | paid means delivered; one order per checkout | Ownership, Checkout |
| Cart and checkout (`cart`) | `CartItem`, `CheckoutReservation` | reserve, check out, return from 3-D Secure, clean up | holds are exclusive; lost sales are refunded | Checkout |
| Payments (`payments`) | replay claims in Redis; the charge, at the gateway | charge, webhook, reconcile | goods only for captured money; captured money lands | Checkout |
| Refund recovery (`cart/refund-recovery.service.ts`) | `FailedRefund` | retry every few minutes, escalate | a refund owed is made or handed to the office, none is forgotten; that it moves the money once is the gateway's part | RefundRecovery |
| Certificates (`certificates`) | `Certificate`, `CertificateOutbox`, BullMQ jobs | record, dispatch, generate, regenerate | none lost; an undisturbed one issued once | Certificates |
| Authentication (`auth`, `admin/auth`) | refresh-token records, marks, families and subjects in Redis | log in, rotate, log out, revoke | a token is accepted once; revocations find every session | Sessions |
| Staff requests (`operations`), access (`collections`), members' classes (`clients`) | `StaffRequest`, `CollectionClass`, `Client.classId`, house keys | create, approve, reject, close when satisfied, rotate the key | each request closed with its effect; none left open that is satisfied | Access |
| Cron leases (`redis`, `common`) | Redis keys | claim | exclusive until it runs out | in Certificates, RefundRecovery |
| Serial numbers, rate limits | `SerialCounter`, Redis counters | allocate, count | unique; finite | – |
| Verification, ownership views, dashboard, home | none | reads | – | – |
| Notifications, audit, storage, settings, classes, staff, health, i18n | output, files, single rows | single-row edits | – | – |
| Web application, deployment and backup scripts | cookies of a browser | refresh, pages | – | – |

How they interact: `CartService` calls `OrdersService` and `PaymentsService` in
the member's request; `PaymentsService` calls `OrdersService` from the gateway's
webhook and from its own sweep; `CartCleanupService` from another sweep; the
office calls `OrdersService`, `PiecesService` and `TransfersService` directly.
They share the tables and nothing else: every await is a point where another
caller may run.  Pieces, orders and transfers all write `Piece`,
`OwnershipRecord`, `Certificate` and `CertificateOutbox`; the last is drained by a
cron job into a queue, and `FailedRefund`, which checkouts, webhooks and the office
write, by another.  `ClientsService`, `OperationsService` and `CollectionsService`
write the rows that decide what a member may see, and share
`CollectionAccessSyncService`; several of them end by revoking sessions through
`RefreshTokenService`.

Hard behaviours, each listed with its line under "hazards" in `PROJECT.json`:
checks made before an await and used after it (`failOrderPayment`, `cancelOrder`,
`updatePiece`, `approve`); four callers settling one order in any order; charges
whose answer is lost; webhooks that are late, repeated, or never come; holds that
run out during 3-D Secure; a process that dies between the gateway and the
database; leases shorter than the work done under them; jobs enqueued whose row
cannot be marked; refresh tokens rotated while they are being revoked; edits of
a member and of a collection that satisfy a request together.

## The modules and the code

```
Custody              what the house promises of a piece
   ^ implements (OwnershipRefinement)             -- proofs: CustodyProofs
Ownership            tables and transactions      -- proofs: OwnershipProofs
   ^ extends, implements     ^ extends, implements
Checkout                 Certificates             -- proofs: CheckoutProofs,
   handlers of orders,      outbox, dispatcher,      SettlementProofs;
   gateway, webhooks,       queue, workers,          CertificatesProofs
   sweeps, crashes          crashes
RefundRecovery           Checkout's "owed, then made" in detail
                                                  -- proofs: RefundRecoveryProofs
Sale                 what the house promises of the money
   ^ implements              ^ implements
Checkout                 RefundRecovery           -- proofs: as above

Lineage              what a session is
   ^ implements
Sessions                 refresh tokens in Redis  -- proofs: SessionsProofs
Access                   requests, classes, links -- proofs: AccessProofs
```

**Ownership** has one variable per table and one action per transaction.

| Variable | Table |
|---|---|
| `piece` | `Piece.status`, `Piece.currentOwnerId`; `ABSENT` is a piece not yet registered |
| `ledger` | `OwnershipRecord` per piece in order of creation; `open` is `transferredAt IS NULL` |
| `order` | `Order` status, payment status, client and items |
| `transfer` | `TransferRequest` |
| `certificate` | `ownerId` of the piece's active `Certificate` |
| `outbox` | the `CertificateOutbox` rows of the piece (a dispatched row stays, so they are a list that only grows) |

The transactions run SERIALIZABLE (`runSerializable`) or under a lock on the one
row they decide on, which is why an action may read and write in one step.
Three updates run outside such a transaction, after a check made before an
await: `updatePiece`, and the writes of `cancelOrder` and `failOrderPayment`.
Here they carry only what the database itself enforces at that moment.

**Checkout** extends Ownership with the holds, the charges at the gateway, the
refunds and the webhook's replay claims, and a `req` per thread: the handler it
runs, where it stands, and what it remembers from before its awaits.  A step is
one statement, transaction or gateway call.

| Steps (`at`) | Code |
|---|---|
| `StartReserve`, `claim` | `reserveForCheckout`: reads, then INSERT … ON CONFLICT … WHERE |
| `StartCheckout`, `find`, `place` | `checkout` up to `createPendingOrder`: key lookup, then transaction |
| `charge`, `attach`, `resume` | `chargeTap`, `attachPaymentReference`, `resumeExistingCharge` |
| `confirm`, `refund` | `confirmOrderPayment` and `confirmOrCompensate` / `refundFailedCheckout`: the gateway refunds, or the refund is queued, or the insert fails too and only the log tells (`cart.service.ts:564-581`) |
| `fail`, `failWrite`, `release` | `failOrderPayment`: read, update, delete holds |
| `cancelWrite`, `release` | `cancelOrder` |
| `StartReturn` | `confirmCheckout`, the cardholder's return |
| `StartWebhook`, `hook`, `record`, `mark` | `handleChargeEvent`, `processChargeEvent`, `recordUnmatchedCapture`, `markWebhookProcessed` |
| `Reconcile`, `ExpireOrder` | `reconcileStaleOrder`, `expireStalePendingOrders` |
| `RecoverRefund` | `RefundRecoveryService` |
| `Crash` | the process dies, or an error leaves the rest of the handler undone |
| `ChargeSettles` | external: the cardholder authenticates, or the charge ends |

What is abstracted, and why it is sound for the properties:

- *No clock.*  A hold may run out at any moment, so every order of expiry and
  other steps occurs.  An order is stale when what the sweeps' comment assumes
  holds (`payments.service.ts:718-719`): its charge is final and its checkout
  over.  What happens when that assumption fails is not modelled.
- *No amounts.*  The gateway's charge is for the order, and signature and amount
  checks pass.
- *No carts.*  A member may reserve and check out any set of pieces; a cart is
  one such set.
- *A charge per order.*  The idempotency key of the charge is that of the order,
  and Tap makes one charge per key, so a charge is named by its order.
- *Refund rows.*  Refunds are keyed by the charge at the gateway, so several
  `FailedRefund` rows for a charge are one debt: `owed`, then `made`.  A row
  that ran out of attempts is still owed.
- *A pending charge without a redirect URL*, which `chargeTap` reports as failed
  with its reference, is not distinguished from a declined one.
- *The mock provider* is left out.

**Custody** knows only who has held each piece, in order, and which pieces are
held now: grant, return, pass.  `OwnershipRefinement` maps the clients of a
piece's records to its title and the pieces with an owner to the held ones.

**Sale** knows only where the money of an order is (not taken, taken, owed, told,
returned) and which orders are settled: take, settle, owe, tell, return, and the
unwinding that the code does allow.  Checkout maps its charges and refunds to it
(`MoneyOf`) and the payment statuses to the settled orders; RefundRecovery maps the
rows of a charge, what the office was told and what the gateway returned, and settles
nothing: a charge is owed while a row of it is open, and told when its rows are closed
and the office has one of them.  Only from there may a debt stand without an open row,
so a row closed too early shows.  Telling is not the end: the look-up of a recorder
sees open rows only (`resolvedAt: null`), so that a row, and with it the debt, may
come anew after a handoff; Sale allows that.

**Lineage** knows only which tokens a session was ever given and which of them is
good: start, renew, end.  Sessions maps the tokens of a family, and the live ones of
them, to it.  That a session which ended is never revived, by a rotation that a
revocation has overtaken for one, is all in the shape of `Start` and `Renew`.

**Certificates** extends Ownership as well: its transactions leave the outbox rows,
and what follows is a dispatcher, a queue and workers.

| Actions | Code |
|---|---|
| `Transact` | any transaction of Ownership |
| `Claim`, `LeaseExpires` | `dispatchPending` under `withCronLease`, `claimBatch` |
| `Enqueue`, `EnqueueFails`, `Mark`, `MarkFails`, `DispatcherDies` | the loop of `dispatchPending`: add the job, set `dispatchedAt` |
| `Regenerate` | the endpoint of the office |
| `Take`, `Issue`, `Finish`, `Fail`, `WorkerDies` | the processor and `generateCertificate` |
| `AddJob`, `BuryJob`, `Stall` | BullMQ, from the options the code gives it (external) |

**RefundRecovery** has the rows of `FailedRefund`, the passes of the cron and the
gateway's side.  Where Checkout says a queued refund is made later, here a
compensation (`Compensate` … `CompensationDropped`) or a recorder (`Look`, `Record`)
leaves a row, passes claim it (`Claim`), call (`Call`), write the outcome (`Write`,
`WriteFails`), and hand over what is exhausted (`Sweep`, `HandOver`, `Close`).

The gateway is external.  `PaymentsService.refund` sends the key `refund_<charge>`
(`payments.service.ts:426-488`) with every request of a charge, and the code relies on
the gateway to move the money for it once.  That is an **assumption** of this project
and no result of it: `returned` is the set of charges paid back, `PayBack` adds to it,
and nothing is concluded about how often money moves.  A compensation is made once per
charge here; in the code a second return of the same checkout may come to
`cart.service.ts:483` again, and what that adds, a second row of the charge, the
recorders add as well.

**Sessions** has one variable per kind of Redis key and one action per Redis command
(`ROTATE_REFRESH_SCRIPT` is one command), but for a mark and the deletion of its
record, which are one: whatever runs between the two could as well run before.  A `handler` per request remembers what
it read: the token it resolved, the tokens and families it has yet to revoke.
Members and staff have the same protocol in disjoint key spaces, so one set of
subjects stands for either.  A browser, or several tabs of one, may present any
token it was ever sent, at any time.

**Access** has the member's class, the collection's links, the requests, and a
handler per API request with what its transaction has read and not yet committed.
Here the transactions are the database's default, READ COMMITTED, so each statement
is a step; an uncommitted write is kept in the handler and locked (`LocksMember`, `LocksLinks`) and a waiting
statement is simply not enabled.  A deadlock that the database breaks, a unique
violation and a crash are all `Dies`.

Some variables, marked "history" where they are declared, are not in the program:
they record what happened (`certified`, `calls`, `accepted`) or which rows met a
fault (`disturbed`, `unclean`, `stale`, `excused`), so that a property can say what
holds of those that met none.  Nothing but properties and other history reads them.

## What the runs check

| Run | Instance | States | Shows |
|---|---|---|---|
| `ownership` | 3 members, 2 pieces, 1 order, 2 transfers | 336,000 | owner and status agree; row and history agree; a piece in transfer has one active transfer, from its owner; one certificate request per change of owner; paid orders delivered; owners lose pieces only by refund or approval; history append-only; Ownership implements Custody |
| `checkout` | 2 members, 1 piece, 2 orders, 2 threads; passive office, no crashes | 657,000 | the buyer of every paid order owns its pieces; no paid order's money is on its way back; one order per checkout; members do not take each other's holds; the money implements Sale |
| `checkout_office` | 2 members, 1 piece, 1 order, 2 threads, office, crashes | 399,000 | payments, charges and refunds agree (`MoneyMatchesOrders`): settled implies captured, refunded by the office implies owed, refunded at all implies captured; a capture whose webhook was processed was delivered for or is owed; no order stays pending unless its money was taken and its pieces have gone |
| `certificates` | 2 members, 1 piece, 2 dispatchers, 1 worker, 2 attempts | 112,000 | a dispatched row is never lost; an undisturbed one is certified once; every row is settled; all of it implements Ownership |
| `refunds` | 1 charge, 1 row, 2 passes, a compensation and a recorder, 3 attempts | 29,000 | calls stay within the attempts; nothing owed is forgotten; a row that met no fault is handed over when its calls are spent (`HandedOverSpent`) and none of them was accepted (`HandedOverUnpaid`); every row is closed; all of it implements Sale (`RefundsFollowSale`): a debt ends with the money back or the office told |
| `sessions` | 1 subject, 2 families, 4 tokens, 2 requests | 689,000 | a family has one live token, and none again once it has ended: all of it implements Lineage; the indexes lead to every live token and a revocation leaves none, unless it overlapped another request of the subject; reuse spares the live session |
| `access` | 1 member, 2 classes, 1 collection, 2 requests, 2 handlers | 2,444,000 | an edit closes the requests it satisfies; what is completed was granted in the same commit; a decision is overwritten only by one who met the request open; a completed key has its key or lost it to a crash |

`PaidOrdersOwned` and `PaidOrdersNotRefunded` are stated for a passive office,
because an office act legitimately breaks the first (giving a piece back) and can
break the second: an administrator who sets an order's status while a compensation
is under way marks an order whose money is going back, and a piece that an office act
gives back in that time lets another caller settle that order.  `ImplementsSale` rests on the second.
So in these runs and theorems a lost piece never comes free again: what they show of a
refund under way is that racing settlers do not settle its order, whatever news of the
charge they hold, not that the house may take pieces back meanwhile.
Processes that die break none of the three: `UnattendedSpec` adds crashes to
`ServiceSpec`, and the theorems are stated for it.  TLC has confirmed it on the
instance of `checkout` (4.26 million states), too long a run to keep.

Each property has a mutant: a faulty variant of one definition, of the kind a
change to the code might introduce, under which the run fails.

### Where the code and its comments disagree

Five runs check what a comment promises and end in a counterexample.

- `settled_order_unwound`: "Never unwind a settled order automatically"
  (`orders.service.ts:473`).  The update of `failOrderPayment` is by id only;
  a confirmation between its check and its update is overwritten with
  CANCELLED / FAILED while the buyer keeps the piece.
- `paid_twice`: "to prevent double-sale" (`orders.service.ts:160`).  The same
  member reserves again, gets a new idempotency key and so a second order and
  charge for the piece; both confirm, since a piece already owned by the order's
  client counts as delivered.  Between different members it does not happen
  (`PaidOrdersOwned`).
- `capture_not_findable`: "rather than dropping the event"
  (`payments.service.ts:650-653`).  When both answers of the gateway are lost the
  order is cancelled with no reference, and the webhook of the capture finds no
  order.
- `capture_never_settled`: left "for `reconcileStalePendingOrders` to settle"
  (`cart.service.ts:457-459`).  If the piece went to another member after the
  hold ran out, the sweep's confirmation conflicts every time; only the
  cardholder's own return refunds.
- `certificate_of_former_owner`: "one certificate that attests current
  ownership" (`schema.prisma:328-329`).  A generation job that runs late
  activates a certificate for the owner it was queued for.

Further disagreements met while modelling, which no run is kept for:

- *Two dispatchers, one row.*  `certificate-outbox.service.ts:126-127` ("two
  instances cannot dispatch the same row") and `refund-recovery.service.ts:55-57`
  hold for the claiming statement only.  The claim's transaction commits before the
  work begins, so a batch that outlives its lease is claimed again.  `LeaseExpires`
  has this; what makes it harmless is the job id, and the idempotency key of the
  refund.
- *A regeneration that never runs.*  A failed `regenerate-…` job is kept
  (`removeOnFail: 50`) and absorbs the next one of its id, which is answered
  `queued: true` (`admin-certificates.controller.ts:65-72`).
- *"Automation is done with it; the money has not moved"*
  (`refund-recovery.service.ts:160-161`) is false in three ways: a call for the row was
  accepted and its answer or update lost; the compensation that left the row was
  accepted, unheard or with its log failing (`cart.service.ts:532-562`); a rival row of
  the charge was paid.  `HandedOverUnpaid` says that there are no others.  And a recorder
  may open another row of the charge after the handoff.
- *Sessions that no revocation finds.*  The subject's index expires a session length
  after the last login (`refresh-token.service.ts:308-309`) while rotation renews only
  the record and the family (`:45-49`); and a login or rotation that overlaps
  `revokeAllForSubject` is left out of the indexes.  Callers rely on completeness
  (`admin-auth.service.ts:150`, `clients.service.ts:504`).  `SessionsFindable` and
  `UndisturbedRevocationIsComplete` name the condition: no overlap and no early
  expiry.
- *"Without wiping the valid session"* (`refresh-token.service.ts:245`) fails if the
  live sibling is itself rotated between `SMEMBERS` and `EXISTS`.
- *Requests in step with access* (`collection-access-sync.service.ts:15-22`).
  Approving a request closes no other member's request it satisfies; approving an
  upgrade neither synchronises nor revokes sessions, which `updateClient` does
  (`clients.service.ts:503-506`); and an edit of the member racing one of the
  collection leaves the request open.  These are the exceptions (`excused`) of
  `SatisfiedAreClosed`.
- *Approve and reject check the status outside their transaction*: the later
  overwrites the earlier decision, and two approvals issue two keys.
- *The default class* (`schema.prisma:122`, "exactly one class can be the default").
  The index enforces at most one: the check at `classes.service.ts:148` is outside
  its transaction, and an edit that unsets the default may pass it beforehand.
- *The last super administrator* (`staff.service.ts:109-115`) is counted before the
  update: two deactivated at once each see the other.
- *How a settled order is unwound.*  `OnlyLateFailuresUnwind` gives the run
  `settled_order_unwound` its bound: besides `refundOrder`, the late update of
  `failOrderPayment` is the only thing that does it.
- *Two tabs.*  `auth-refresh.spec.ts:87`, "concurrent refresh in two tabs keeps the
  session valid", opens its tabs one after the other.  Two requests of the
  middleware with one refresh cookie at the same time: one is refused and sent to
  the login page, while the session lives.

## Bounds and fairness

Sets are small and interchangeable (symmetry, except in the runs with a liveness
property).  In Ownership and Checkout two members are needed for a race and a third
for a transfer chain; two transfers so that one may follow or rival another; two
orders so that two sales compete for a piece; two threads so that any two handlers
interleave; two pieces where pieces meet in an order (`ownership`) and one in the
larger models.

- `MaxReserves` (2, and 1 in `checkout_office`) bounds the calls of reserve, so that
  an original and a renewed hold both occur where two orders do.  The clock `now`
  counts them and nothing else.
- `NoOrderLeft` refuses an order when the ids run out.
- `checkout` has two orders but neither crashes nor office acts, and
  `checkout_office` has both but one order: together they have more than eight
  million states, and crashes alone with two orders more than four.
  The theorems have neither limit.
- Certificates: one row, so that its job, a regeneration and two dispatchers meet;
  `MaxRows` and the job's `MaxAttempts` (2 for the code's 5) let a retry and the
  giving up both occur; `KeepFailed` (1 for 50) lets a failed job be both kept and
  evicted.  A batch is taken to hold every open row, here and in RefundRecovery.
- RefundRecovery: one row, of which the compensation and the recorder are rivals.
  Two rows of one charge, with two attempts and passes that overlap, have 531,000
  states and too long a liveness check; TLC has found no violation of the safety properties on
  them, but that run is not kept, and for rival rows (the second exception of
  `HandedOverUnpaid`, a debt owed anew) the properties rest on their proofs.  Three attempts
  for the code's five: first, retry, last.
- Sessions: four tokens are a login with three rotations, or two sessions with one
  each; two requests so that any two overlap.  When tokens run out, no more are
  issued.
- Access: one member suffices, as requests of different members meet only at a
  collection's links, which the handlers' edits change anyway; two classes to move
  between, two requests, two handlers.

The runs of Checkout, Sessions and Access switch the deadlock check off, since by
the bounds they come to rest; the others keep it.

Fairness.

- *Checkout* (`Fairness`): a handler that has begun goes on (weak fairness of
  `Proceed`; Node runs what is ready); the gateway ends every charge (it is sent with
  a 30-minute expiry); the sweeps run for each order again and again (strong
  fairness: cron starts them every five minutes, but an order is stale only in
  between other requests' work on it).  The sweep takes the 50 oldest pending orders, so
  this is exact while no more than that are stale: conflicting orders that stay
  (`capture_never_settled`) could in time starve younger ones, which the model, with one
  order, does not show.  A look-up at the gateway is answered in the end.  Nothing is
  assumed of members, of webhooks,
  which Tap gives up on, nor of the office.  `FairHouseSpec` adds that crashes and
  office acts cease in the end: orders must end *after* them, whatever they did.
- *Certificates* (`CertificatesFairness`): cron ticks, leases run out, drains and
  workers go on, Redis takes a job that is offered for ever, the queue is first in
  first out, BullMQ notices a stalled job.  Crashes and failures never need to
  cease: the attempts bound them.
- *Refunds* (`RefundFairness`): cron ticks, leases run out, passes go on; of passes
  that come to their sweep some do it and of escalations some succeed.  Crashes never
  need to cease here either.
- *Sessions* and *Access* promise nothing that must eventually happen, and assume
  no fairness.

## What is proved

TLAPS checks these for all values of the constants: members, pieces, orders,
threads, dispatchers, workers, rows, passes, tokens, handlers, and attempts.  The
assumptions, each named where its constant is declared, are that null values are
not values, that the bounds are natural numbers (attempts positive), that there are
pieces (`PiecesAssumption`, for the type of a transfer that does not exist yet) and
that passes are finitely many.  **Every safety property of every passing run is
proved.**

- **OwnershipProofs**: `Invariance` and its parts, and the action properties
  `AppendOnlyHistory` and `OwnersProtected`.  The invariant `IInv` is the conjunction
  of all with `OrdersWellFormed`.  None is inductive alone: appending an open record
  is right only if an available piece has no owner (so no open record); an approved
  transfer closes the right record only if its sender is still the owner; that holds
  only because a piece in transfer is not `OWNED`, so that no refund takes it; and
  cancelling restores `OWNED` rightly only if the piece still has its owner.
- **CustodyProofs**: `OwnershipImplementsCustody`: `Convey` is a grant of the pieces
  that were available, a refund a return, an approval a pass, all else a stutter.
  Custody's promise carries over to the modules that extend Ownership:
  `CheckoutImplementsCustody` and `CertificatesImplementCustody` follow by composing
  the refinements, the former with Ownership's two action properties.
- **CheckoutProofs**: `CheckoutImplementsOwnership`: whatever the interleaving and
  the crashes, each step is one transaction of Ownership or leaves its tables alone
  (`WellFormed`: a handler always knows its order or member).  `GoodsArePaidFor` and
  `RefundsAreOwed` from `MoneyInv`: a request is about to confirm only an order whose
  charge was captured, captures and references are never undone, and a paid order
  carries its reference.  `CheckoutsAreIdempotent`: only `CreateOrder` gives an order
  a key, and it takes one that is free.
- **SettlementProofs**: `HoldsAreRespected`, by which thread a step moves
  (`ThreadMoves`) and on whose order it works (`WorkIsOnOrders`).
  `CapturedMoneyLands` from `CapturesLand`: a webhook that is past its look-up knows
  what became of the order, and a claim is done only when the capture is accounted
  for, which no later step undoes: ledgers only grow and refunds are not withdrawn.
  `MoneyMatches` adds `RefundsInv` to `MoneyInv`: a request about to refund or
  to record an unmatched capture knows, from before its awaits, that the charge was
  captured, and captures are not undone.  `OnlyLateFailuresUnwind` by the same two.
  `BuyersOwn` and `PaidIsNotRefunded`, for the passive office, crashes included, from
  `ShopInOrder` (no piece is taken back, and an order's two statuses agree) and
  `RefundsAreForLost`: a refund is begun only for an order that can never be paid any more, as it was closed
  unpaid or one of its pieces was sold to someone else.
  `SettlementImplementsSale`: a step changes the payment, the charge or the refund of
  one order at most (`OneAtATime`), so it is one step of Sale (`SaleMaps`); that a
  settlement meets neither a debt nor a refund, and a refund no settled order, is
  `PaidIsNotRefunded` and `MoneyMatches`, now and in the next state.
- **CertificatesProofs**: `CertificatesImplementOwnership`: a job names a client the
  outbox promised (`JobsPromised`), so `Issue` is a certificate step of Ownership.
  `PromisesAreKept` from `PromisesInv`: between the enqueue and the mark the job is
  there, done, or given up.  `UndisturbedCertifiedOnce` from `OnceInv`: without a
  fault a row is in at most one place: claimed, queued, in work, or certified.
- **RefundRecoveryProofs**: `RefundInvariance` (`RefundInv`).  `Credit` counts: the
  calls made for a row and the passes that still have it in hand never exceed its
  attempts, which bounds calls under any overlap; `ReasonsHold` ties an outcome about
  to be written to what the gateway did.  `HandoffIsTrue` from `HandoffInv`, for a row
  that met no fault passes do not overlap and an accepted call shows in the pass or in
  the closed row, and `MovedInv`, money moves by a compensation or a row's call only.
  `HandoffIsLast` from `SpentInv`: of such a row the attempts run ahead of the calls by
  one exactly while a pass has it in its batch, and a sweep reads it when none has.
  `RefundsImplementSale`: a step moves the money of one charge at most (`Moves`), and a
  row is closed for a reason only (`ClosingMoves`, from `ReasonsHold`), which is what
  keeps a debt from falling back to money merely taken.
- **SessionsProofs**: `SessionsIInv`: tokens of a login are known to nobody else
  (`LoginsApart`); what a reuse has yet to look at includes every live sibling it
  knew of (`SiblingsLeft`); how far a login or a revocation has got, if nothing
  disturbed it (`Progress`).  `SessionsImplementLineage`: a token joins a family by a
  login or by a rotation only (`TokensMove`); a rotation joins one whose token it
  finds live in that very command (`RotationIsRenewal`); and a live token that goes
  was all its family had (`LossIsEnd`, from `OneLiveToken`).
  `EndedSessionsStayEnded` follows from the abstract steps alone.
- **AccessProofs**: `AccessIInv`: for each handler and step, what it read is still
  true unless someone wrote beside it (`stale`), and what it is about to write
  satisfies the request.

Only model-checked: liveness (`PendingOrdersEnd`, `RowsSettle`, `RowsClose`), whose
fairness speaks of ENABLED, which is beyond this prover.  There is no
induction over data: the models have no recursive definitions.

## What is not modelled

- *Amounts and rounding*, signature checks, rate limits, hashing and signing.
- *Serial numbers*: one upsert under a row lock within a transaction.
- *Time*: holds, leases and tokens expire at any moment, which includes every
  order the timers allow; the 30- and 35-minute arithmetic is not checked.
- *Denylisted access tokens*: guards read the account on each request.
- *Classes, staff, settings, the content of collections and pieces*: edits of single
  rows.  The two races in them are described above.
- *Verification, views, dashboard, home*: reads.  Notifications and audit are
  fire-and-forget.
- *The web application*: pages and forms.  Its session refresh (one per tab, a lock
  across tabs, the middleware's own) is covered by Sessions only in so far as it
  presents tokens: whether a user is sent to the login page is not.
- *Deployment, backup, monitoring.*
- `OrdersService.createPaidOrder` has no caller in the service.
- Within Checkout: carts, the mock provider, and the list given above.

## Plan

*Done:* Ownership, Custody and the refinement; Checkout and its liveness;
Certificates; RefundRecovery; Sessions; Access; the abstract Sale and Lineage; all
their safety proofs and refinements.  Left, in
order of importance:

1. **WebSession**: the browser's cookies, the single-flight refresh, the lock across
   tabs and the middleware, over Sessions; property: a session that lives is not
   sent to the login page.
2. **HoldTiming**: the 30- and 35-minute arithmetic with a clock, to check what
   Checkout assumes of a stale order.
3. Checkout with two pieces in an order.
4. **Roster**: the default class and the last super administrator.

## Running it

    tlc -config MCOwnership.cfg MCOwnership.tla
    tlc -config MCCheckoutOffice.cfg MCCheckout.tla
    tlapm SettlementProofs.tla

The longest runs are `checkout_office` (liveness) and `access`, about two minutes
each with two workers.

`PROJECT.json` lists every run with its module and configuration, every theorem,
and for each definition the lines of the source it models.
