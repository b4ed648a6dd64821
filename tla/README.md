# Formal model of the creator platform

The platform sells credits, takes them for tips, unlocks, products, interactions and private
sessions, and pays creators. Everything runs in Next.js route handlers and a worker process over one
PostgreSQL database (through Prisma) and, where configured, Redis. This directory holds TLA+ modules
translated from the TypeScript source, the TLC configurations that check them, and proofs checked by
TLAPS. Line numbers of every translated operation are in `PROJECT.json` under `map`; the places that
are hard to test are there under `hazards`, each with the properties that watch it. Paths below are
relative to `src/src/modules/` unless they start with `src/`.

## 1. The system and its parts

| Component | State it keeps | Operations | What makes it correct |
|---|---|---|---|
| Wallet ledger, credit lots (`economic/wallet-ledger.service.ts`, `credit-lot.service.ts`) | `Wallet`, `CreditLot`, `WalletTransaction`, `CreatorEarning`, `PaymentTransaction`, `ContentPurchase`, `Product.inventoryCount` | deposit, promotional and bonus grant, tip, paid question, PPV and product purchase, refund, chargeback, expiry sweep | every balance is explained by the log; credits are neither made nor lost; lots, typed balances and balances agree; a key is charged once; a sale is refunded once |
| Private sessions (`private-sessions/`) | holds, bookings, reminders, in the memory of one process | reserve, refresh, release, pay by card or wallet, list slots, remind, authorise entry | no two holds overlap; no booking over another's hold; one hold, one booking; a charged fan is booked |
| Background jobs (`workers/core/`) | ready and delayed sets, job bodies, idempotency keys, dead letters, in Redis or memory | enqueue, dequeue, promote, run with timeout, retry, stop | every job ends completed or dead; no job runs twice at once; shutdown waits for what runs |
| Interaction queue (`queue/`, `realtime/interaction-queue.service.ts`) | per-creator FIFO, item states, refund marks | enqueue, accept, start, complete, reject, cancel, refund | positions have no gaps; one refund per item and only from a legal state |
| Orders and entitlements (`orders/`, `entitlements/`) | orders, key index, entitlements | create, refund, grant, revoke | a paid order delivers, a refunded one does not; a key is charged once |
| Subscriptions (`subscription/`) | subscriptions, payments, grace periods | subscribe, renew, batch renewal, pause, cancel | one charge per period; access follows status |
| Joint products and splits (`economic/joint-settlement.service.ts`, `split-ledger.service.ts`) | shares, settlements | purchase, settle, tip split | shares add up to the net |
| Card checkout (`economic/payment.adapter.ts`) | pending purchases | create, webhook, poll | one deposit per payment, and the purchase record follows it |
| Wallet guard, fraud holds (`fraud-prevention/`) | wallet versions, locked credits, `WalletHold` rows | guarded deduction; place, release, seize a hold | a deduction takes only what is not held; what is locked is what the undecided holds amount to |
| Distributed lock (`scaling/distributed-lock.service.ts`) | leases, timers | acquire, renew, release | one holder |
| Circuit breaker (`src/src/core/service-boundary/`) | state, counters, opening time | execute | opens, half-opens and closes on the calls of the current period only |
| State machines (`src/src/core/state-machine`, `state-machines/`) | current state, history | transition | only listed transitions; terminal states stay |
| Livestream, co-stream, goals, seats (`livestream/`, `goals/`, `seats/`) | rooms, invitations, contributions, seats | join, invite, contribute, claim | one occupant per seat; a goal completes once |
| Everything else | reporting, notifications, games, administration, accounts, media, UI | | see section 7 |

How they interact. Route handlers call the services; orders, interactions, games, seats and private
sessions call `WalletLedgerService` for money. Each ledger call is one `prisma.$transaction` at READ
COMMITTED, so services meet each other in the rows of the database. What a service does around its
ledger call is not in that transaction: holds, queues and the order index are maps in process memory,
read before the `await` of the ledger and written after it. Jobs call services from the worker
process. Events go through an in-process bus, and through Redis to other processes.

What is hard: statements of two transactions interleaved at READ COMMITTED; values read before a lock
or an `await` and used after it; a sweep outside any transaction, cut short; retries with the same or
a new key; deadlocks between a sale and a refund; holds that expire during a payment; jobs that time
out and go on running; renewal batches that overlap or die half way; orders whose memory a restart
wipes while the ledger remembers.

## 2. Modules

### WalletLedger

One transaction at a time, in the finest data the services keep.

| Variable | Code |
|---|---|
| `wallets` | `Wallet` rows: `balance`, the three typed balances, `status`, `lifetimeDeposited/Earned/Spent` |
| `lots` | `CreditLot` rows in order of `createdAt` |
| `ledger` | `WalletTransaction` rows, each with its `CreatorEarning` state and its `LotDeduction` rows (`taken`) |
| `payments`, `purchased`, `stock` | `PaymentTransaction`, `ContentPurchase`, `Product.inventoryCount` |
| `sweeps`, `crashes`, `now` | where each `expireStaleCredits` call stands; interrupted sweeps; the clock |

Actions: `Deposit`, `GrantPromotional`, `GrantBonus`, `LiveTip`, `PaidQuestion`, `PPVPurchase`,
`ProductPurchase`, `Refund`, `Chargeback` are each the whole transaction of the method of that name,
with the calls into `CreditLotService` (`NewLot`, `Drawdown`, `Restored`). `SweepFind`, `SweepLot`,
`SweepWallet`, `SweepEntry` are the query and the three writes per lot of `expireStaleLots`, which
`expireStaleCredits` runs with no transaction; `SweepCrash` stops it anywhere.

A key that is already in the log makes a call return the old row, which changes nothing and is left
out of the action. Left out as data no property can tell apart: `lifetimeWithdrawn`, `version`,
`totalEarnedCredits` of the profile, `purchaseCount`, `metadata`. Taken as given: wallets exist (they
are made on first use), `CreatorPermissionsGuard` passes, two lots never share a `createdAt`, the
sweep's made-up keys do not collide. Products with unlimited stock are the same sale without the
check. The absolute writes of `admin.service.ts` (898-935) and the payout rejection that credits a
wallet with no lot (1110-1130) go around the ledger and break its invariants by design; they are not
modelled.

### ReadCommitted, LedgerConcurrency, SerialSales

`ReadCommitted` is the database as the code uses it (external): committed rows `store`, each
transaction's uncommitted writes `draft`, row locks `holder`. A SELECT sees committed rows and one's
own writes; an UPDATE or INSERT waits for the row's lock; locks go at the end.

`LedgerConcurrency` takes sales (`processLiveTip`, `processPPVPurchase`, `processProductPurchase`) and
`processRefund` apart into their SQL statements, one action each, in the order of the code: `Check`,
`CheckStock`, `ReadFan`, `Debit`, `Credit`, `TakeStock`, `InsertEntry`, `ReadLots`, `DrawLots`,
`UpdateTyped`, `InsertPurchase`, and `ReadOriginal`, `ReadDeductions`, `RestoreLots`, `RepayFan`,
`DebitCreator`, `ReverseOriginal`, `InsertReceipt`, then `Finish`. Increments add to what the row
holds when it is locked; `DrawLots` and `RestoreLots` write a value computed from an earlier read, as
the code does. `Timeout` is Prisma's transaction timeout, `Victim` PostgreSQL's deadlock detector.
Retries are requests with the same key. The fan's credits are one lot, since the order of drawing is
WalletLedger's subject; the row lock on the creator's profile is left out, as it is always taken next
to the creator's wallet.

`SerialSales` is the promise: a sale is refused, or takes its price at once off a balance that covers
it, once per key and once per content and fan. `LedgerConcurrency!SerialSpec` states that the
statements implement it, with the committed balances as `credits` and the ended requests as `outcome`.

### PrivateSessions

`holds` is every hold ever made, `active` those still ACTIVE in the map of `ReservationLockService`,
`bookings` the records of `PrivateBookingService`, `inFlight` the wallet payments that are inside
their `await`, `tips` the ledger rows those payments made. A handler without an `await` is one action
(`Reserve`, `ReleaseHold`, `PayByCard`, `LookAtSlots`, `SendReminders`, `RemindNow`); the wallet
payment is `PayFromWallet`, then `LedgerPays` or `LedgerRefuses`, then `ConfirmAfterPayment`. Expired
holds are cleared where `cleanExpiredHolds` is called. Time advances in ticks of half a second, so that
`getHold`'s rounding to whole seconds (a hold with less than a second left is refused, though it still
conflicts) shows. The demo booking the store is seeded with is left out of the initial state.

### JobQueue

`redis` holds the shared ready and delayed sets, dead letters and idempotency keys; `mem` the same in
the memory of each process, which the code falls back to while Redis is away (`online`). `Enqueue` is a
call of a process; `ListDue`, `PromoteAdd`, `PromoteRem`, `Pop` are the polling loop of a worker, one
Redis call each, since another worker may come between any two; `RecordSuccess` and `RecordFailure` end
an execution, the second also when the timer wins over the handler. `Stop`, `Exit`, `Crash`,
`LoseRedis` and `Reconnect` are the world. A copy of a job is its JSON as far as copies differ (`tries`,
and `stamp` for `startedAt`): removing a member of a sorted set removes exactly that JSON. Delays are
any finite time. The recurring schedule, statistics and the dispatcher's options are left out.

### LiveInteractions

`queues` are the queues of `InteractionQueueModel` for two creators, of whom one mirrors the other (the
seeded aliases); `balance` and `rows` the fan's wallet and ledger, `stock` and `isActive` the offer,
`answered` the keys the purchase service remembers. A purchase is taken apart at its awaits:
`CheckKey`, `CheckLedger`, `CheckOffer`, `CheckFunds`, `TakeStock`, `Charge`, `LineUp`. A read of the
ledger that fails counts as finding nothing; for a wallet that cannot be read the balance the process
remembers is taken, any of `Remembered`. A call that
rejects, cancels or refunds is `AskRefund`, `Repay`, `Mark`: the money goes before the queue is asked
whether the transition is legal. `Move` is accept, start or complete.

### Subscriptions

`sub` is the row of one fan's subscription to one creator, `payments` its paid `SubscriptionPayment`
rows. A call of the fan is `Read`, `Change` and, when it charges, `Pay`: no handler uses a transaction,
and columns that an UPDATE does not name keep what is in the row by then. A batch is `List`, `ReadSub`
(renew reads the row again), `Find`, `Create` (the two statements of `recordPayment`), `Update` or
`Fail` (`handleRenewalFailure`, which writes what was computed from the row as read), then `Expire`;
`Abort` stops it anywhere. A row that was listed with `cancelAtEnd` (`cancelAtPeriodEnd`) takes
`CancelDue` instead of the renewal. Cancelling clears `autoRenew`, which the listing asks for, so that
happens only when a renewal that was under way fails after the cancel: `Fail` turns `autoRenew` on
again, whatever the row says by then. Time is in days; a call or batch ends on the day it began (`Tick`), and on
the last day the scheduler goes on calling. `currentPeriodEnd` and `renewalDate` are always written
together and are one field. Left out: tiers and prices, the earning row written on a best-effort basis,
keys chosen by clients, and the webhook handler, which nothing calls.

### Orders

`orders`, `index` and `grants` are the maps of `OrderService` and `EntitlementService`, and go with the
process (`Restart`); `ledger` is the part of the wallet ledger that orders see, keyed as the ledger keys
it. A call is `Begin` (the key is looked up), `Store`, `Pay` or `Refuse`, `Settle`: between `Begin` and
`Store`, and between `Store` and `Settle`, it waits for the database. `Pay` may commit and lose its
answer. `AskRefund` of an order without a transaction is one step, otherwise `Repay` and `FinishRefund`
follow. One piece of content and one other product are enough, because a grant is kept under what it is
for: a second order for the same thing takes the first one's place. Only orders paid from the wallet
are modelled; others are stored and granted without the ledger.

### WalletHolds

One wallet row. `Read`, `Swap`, then `Commit` or `Rollback` are a call of `executeAtomicDeduction`,
which holds the row from its update to its end (`writer`); `ReadSale` and `Debit` are a sale of the
ledger; `CreateHold`, `LockCredits`, `FailToLock` place a fraud hold, in two statements; `ReadHold` and
`Decide` release or seize it. `sure` and `twice` are history: since whose read no hold was placed, and
whether two analysts decided one hold. The guard's Redis lock is left out, because a deduction that
cannot have it goes ahead; whatever it excludes, the model allows.

A definition that starts with "wrong on purpose" is a plausible slip of the code next to the right
definition; each property is shown to fail when it takes its place.

## 3. Runs

| Run | Module, configuration | What it checks |
|---|---|---|
| `ledger_refunds` | `MCWalletLedger_refunds.cfg` | all operations but the sweep, in every order: `LogExplainsBalances`, `CreditsConserved`, `BooksAgree`, `RefundedOnce`, `SpendsExpiringFirst` |
| `ledger_sweep` | `MCWalletLedger_sweep.cfg` | a sweep write by write, cut short anywhere and run again, among all but refunds: `BooksAgree`, `ReconcilesBalances`, `LogExplainsBalances`, `ExpiredOnce`, `WalletsCoverLots` |
| `concurrent_sales` | `MCLedgerConcurrency_sales.cfg` | a tip sent twice, a PPV unlock and its retry: `LotsBackBalances`, `NeverOverdrawn`, `ChargedOnce`, `EveryRequestEnds`, `SerialSpec` |
| `concurrent_mixed` | `MCLedgerConcurrency_mixed.cfg` | a refund, a tip of the same fan and an order with the same seller: `BalancesAreDoneWork`, `EveryRequestEnds` through deadlocks |
| `session_cards` | `MCPrivateSessions_cards.cfg` | `HoldsDisjoint`, `BookedOnce`, `NoBookingOverHold` while all pay by card |
| `session_wallets` | `MCPrivateSessions_wallets.cfg` | `ChargedIsBooked` with two wallet payments in flight |
| `double_booking` | `MCPrivateSessions_double.cfg` | violated: `NoDoubleBooking` |
| `jobs` | `MCJobQueue.cfg` | two workers, two jobs under one key, an outage of Redis, a death or a shutdown: `AnsweredIsKept`, `FirstAttemptOnce`, `EveryJobEnds` |
| `interactions` | `MCLiveInteractions.cfg` | two purchases under one key, two refunds, the creator's moves: `QueuesInOrder`, `PaidIsQueued`, `MarksAreBacked`, `NobodyFallsBack` |
| `subscriptions` | `Subscriptions.cfg` | two overlapping batches a day, two calls of the fan, a failure or a death: `PeriodIsPaid`, `RenewedOnce`, `PaidIsGiven`, `PastDueEnds` |
| `orders` | `Orders.cfg` | two orders, two refunds, a restart, a ledger that refuses or loses its answer: `KeyChargedOnce`, `AccessIsPaid`, `RefundedIsUndone` |
| `wallet_holds` | `MCWalletHolds.cfg` | two deductions, a sale, two holds, two analysts: `TakesWhatIsFree`, `HoldsAreLocked` |

Each passing run checks a `TypeOK` where its module has one that the run can break. Deadlock checking
is off: every bound makes a model stop, and the sales really end.

Bounds, and why they are enough:

- `WalletLedger`: a fan, and a creator who in `ledger_refunds` also buys, so that earnings and bought
  credits meet in one wallet; five ledger rows (four with a sweep): the shortest interesting histories
  are grant, deposit, sale, refund, sale again, or deposit, sale, chargeback, refund. Package, price
  and grant are chosen so that a purchase needs two lots, fees round down (6 and 5 credits at 20%) and
  a refund lands in a lot that has expired meanwhile (`MaxTime = 1` with lifetimes 1 and 2). Keys are
  symmetric.
- `LedgerConcurrency`: four requests are two overlapping pairs, each pair two attempts at one thing;
  the fan can afford one of the tips and one unlock but not two tips. Mixed kinds need three requests:
  one that locks fan then creator, one the other way, one that only shares the creator.
- `PrivateSessions`: three windows of one creator, of which the second overlaps both others (a refresh
  is decided by the first conflict found); three holds, two bookings, and a hold of three ticks, so
  that a hold can be made, lapse and be made by another. With wallets one window and two payments are
  enough: what is at stake is one hold used by two payments.
- `JobQueue`: a web process and two workers, one of which may end; an undelayed job and a delayed, more
  urgent one under the same key, one of them retried once. A promotion that is done twice needs two
  workers and one delayed job; a job stranded in memory needs one outage.
- `LiveInteractions`: one offer of stock one, two purchases of one key, and two calls that give
  back any item of a queue that starts with seeded items: a double refund, an overtaking and a sold-out
  race each need two. The remembered balances are one that covers the price and one that does not.
- `Subscriptions`: period one day, days 0 to 2, so that a period and its renewal end inside the bound;
  two batches, as the disagreement of a listed and a read row needs a second writer, who may also be
  the fan; two calls, so that what one call did is overwritten by the next, or by a batch that listed
  the row between them; one trouble. A cancelled row that is due, and one that is past due without a
  grace period, are both reached.
- `Orders`: every property is about an order and another that shares its key, its transaction or its
  grant; the second order is also the retry after the restart.
- `WalletHolds`: no two of the amounts together fit the balance, except the smallest.

## 4. Fairness

- `LedgerConcurrency`: `FairSpec` is weak fairness of `Step(p)` for every request: the server keeps
  running a request's statements, the database grants a free lock and breaks a cycle of waiting
  transactions. `Timeout` has no fairness: it may happen or not. A transaction that waits on a lock is
  not enabled, and becomes so for good only when the lock's holder ends; so weak fairness of each
  holder's steps is what `EveryRequestEnds` rests on, and without the deadlock detector it fails.
- `JobQueue`: a process that runs goes on with each step, its poller fires again and again
  (`setInterval`), a delay ends, and ioredis reconnects. A worker that polls again and again finds all
  that waits to be due, hence strong fairness where `Fairness` has it; stopping, dying and losing Redis
  have none, and are bounded so that one worker remains, without which nothing can be promised.
- `Subscriptions`: the scheduler calls the endpoint again and again, what was begun goes on unless it
  dies, and days pass. Troubles are bounded: a database that fails for ever renews nothing.

`LiveInteractions`, `Orders`, `PrivateSessions`, `WalletLedger` and `WalletHolds` have safety only. A
call of theirs ends when its awaits do; that says nothing the code could get wrong.

## 5. Proofs

Every module but `SerialSales` and `ReadCommitted` has its proofs in `<module>Proofs`. A theorem holds for
all values of the constants the named assumptions of its module allow. Each proof is the same argument:
an invariant that says more than the property, kept by every action, one lemma per action.

### The ledger (`WalletLedgerProofs`)

Every invariant the two `WalletLedger` runs check is a theorem, from `UsersAssumption`,
`AmountsAssumption`, `CatalogueAssumption`, `BoundsAssumption` and `FinitenessAssumption` (finitely many
users and sweeps). Some need a hypothesis on the constants; each excludes something the code does wrong
and section 6 describes, and the runs are configured within it.

| Theorem | Property | Hypothesis, and why |
|---|---|---|
| `LedgerTyped` | `TypeOK` | |
| `RefundsAreOnce` | `RefundedOnce` | |
| `SpendingIsOrdered` | `SpendsExpiringFirst` | |
| `LogIsComplete` | `LogExplainsBalances` | |
| `WalletsReconcile` | `ReconcilesBalances` | no refunds: `reconcileWallet` leaves REVERSED rows out and counts their refunds |
| `CreditsStay` | `CreditsConserved` | only sales are refunded: a refunded REFUND pays the fee out of nothing |
| `ExpiriesAreOnce` | `ExpiredOnce` | no refunds, one sweep: a refund revives a lot, which then expires again; two sweeps that found one lot log it twice |
| `LotsAreCovered` | `WalletsCoverLots` | one sweep: two take one lot off the wallet twice |
| `BooksStayInAgreement` | `BooksAgree` | all of these, and no sweep where there are refunds: a refund between a sweep's query and its write is lost from the lot |

A second sweep is only excluded at the same time: the one sweep may be cut short and begun again as often
as `MaxCrashes` says. The properties themselves except wallets a chargeback hit, since its decrements are
clamped (`ClampedOff`), and books after a cut-short sweep, as the code makes neither good again.

- Sums. Nearly all of this is about sums over lots, rows or the lots a row took. `Total` is a fold of the
  community modules, whose value is a CHOOSE; the first part of the module shows that it satisfies its
  recursion, and from that what it gives when an element is added, changed or left out
  (`TotalWith`, `TotalMoves`, `TotalWithout`) or when a set is split. The library's induction theorems
  cannot be used (they take an operator), so each lemma looks at the sizes of the sets that violate it
  and takes the least such number, which exists because `<` on the naturals is well-founded (`Least`).
- Operations. `DrawdownIsExact` and its neighbours: what `drawdownCredits` takes from the front of its
  order adds up to the price, is at most what each lot holds, and leaves a lot with credits only if it
  takes nothing from a later one. `SpendingIsOrdered` is the last of these. `Restored` gives back what
  the row took. `TypeOK` is inductive only with what binds a row to its lots and a refund to its row
  (`Typed`).
- `RefundsAreOnce`: `WalletLedger` never has two REFUND rows for one row, whatever is sold, charged
  back, swept or cut short in between. `RefundedOnce` alone is not inductive: a new row could be the
  target of an older refund. `LogInv` adds that a REFUND row points back at an earlier row, and
  `Settled` says what is counted without `Cardinality`: a REVERSED row has one refund, any other none.
  `Refund` then finds its row without refunds, as it must not be REVERSED (`Refundable`), and marks it
  in the step that adds the refund; all other operations add a COMPLETED row of another type
  (`OtherRow`). It rests on one call at a time; section 6 has what overlapping calls do.
- `LogIsComplete`: the balances less the replayed log is what sweeps have taken and not logged, which each
  action moves on both sides (`Explained`); a crash is the one step that does not, and it is counted
  (`CrashesCount`). `WalletsReconcile` adds that without refunds no row is REVERSED, so that
  `reconcileWallet` reads the whole log; `CreditsStay` sums over users what each sale moves.
- `LotsAreCovered`: its measure is the gap, a typed balance less what the fan's lots of that type hold and
  what a sweep has taken from a lot but not from the wallet. Sales, refunds and deposits leave it alone,
  a sweep that is cut short between the two writes makes it larger, nothing makes it negative. Two
  invariants make that provable: `Linked` (lots, rows and the sweep's hands belong to one fan and type) and
  `Covered` (the gap is not negative).
- `BooksStayInAgreement` puts all of it together. Its invariant has three differences that stay 0: the gap
  (`Closed`); the excess of a balance over its credits and cleared earnings (`Balanced`); the spread of a lot,
  its original amount less what is left, what standing sales and expiries took and what a sweep has in
  hand (`AllSpread`). `ExpiriesNamed` adds that an expiry row took from one lot.

### Overlapping transactions (`LedgerConcurrencyProofs`)

For any load, refunds among it, from `RequestsAssumption`, `NobodyAssumption`, `OpeningAssumption` and
`FinitenessAssumption` (finitely many requests, for the sums):

- `RequestsTyped`, `NoUpdateIsLost`: `TypeOK` and `BalancesAreDoneWork`. The balances are not inductive,
  because a transaction's increments are hidden until it commits. `Written` says what they are at any
  time: a wallet that a request has moved (`Moves`, by its statement) is the committed balance with the
  request's own `Move`, and one it has not moved it has not written. That survives the commits of others
  since the row is locked from the increment on, and whoever commits does not hold it (`Exclusive`). The
  commit then publishes one `Move` and makes `Done` one request larger (`FinishCounts`); a failure, a
  replay, a deadlock or a timeout does neither. The invariant is `WorkInv`, and the wallets are all it needs:
  it holds while refunds read lots they have not locked, or pay the same refund twice.
- `ChargesAreOnce`: `ChargedOnce`. Whoever is past the INSERT of a log row or a purchase has that row locked
  and nobody has committed it (`Once`): the INSERT waits for the row and then finds it absent, whatever an
  earlier check of the key had said. Two sales of one key, or of one content and fan, that both commit
  would each have found the other's row (`NoTwins`). A refund changes the row of a sale that is there and
  never makes it absent, so it opens no key again.

With sales only (`SalesOnly`); the refinement rests on the invariants above too:

- `SalesKeepLots`, `SalesNeverOverdraw`: if all requests are sales, of any number, fans,
  prices and keys, `LotsBackBalances` and `NeverOverdrawn` hold always. Neither
  is inductive: a transaction's writes are hidden until it commits. The invariant `Inv` says of
  each request what it has written so far (`Progress`): after the debit it holds the fan's wallet row
  with `balance - Amount`, where the balance is still the committed one, and from `ReadLots` on the lot
  it read is the committed one. That stays true because the debit comes before the lots are read and
  every sale of the fan needs that row: two sales of one fan are never both past their debit (`Locks`).
  Commit then moves balance, typed balance and lot together (`Backed`). The check that stops an
  overdraft is the one on the lots, after the lock; the check on the balance before it is not enough,
  and the proof does not use it. A refund breaks the argument, as it reads the lots before it locks the wallet.
- `SalesAreSerial`: `SerialSpec`, the refinement. The commit is the sale (`FinishSells`): the wallet row it
  holds has kept the balance it was debited from, which was at least the price, and no sale of the same key
  has been sold before it. An end without commit is a refusal, every other statement a stutter, as nobody
  sees uncommitted rows.

### The other components

- `OneChargePerKey`, `AccessWasPaid`, `RefundsUndo` (`OrdersProofs`, from `NoneAssumption`): the invariants of
  `Orders` for any number of orders, refunds and restarts. None is inductive. `KeysAreUnique` has the
  ledger's unique key and that a client's key is kept as it is; `TxInLedger` that an order gets its
  transaction in the step that ends its call; `ReversedEarly` that a transaction reversed before that was
  reversed through another order that shares it; `RefundsKnowTheirTx` what a refund in flight may rely on.
- `QueuesStayInOrder`, `ChargedIsQueued`, `MarksHaveRefunds`, `NoStepFallsBack` (`LiveInteractionsProofs`, from
  `OffersAssumption` and `SeedsAssumption`): a position is at any time the number of those who wait up to
  there (`Numbered`), because every write of a queue ends in `recalculatePositions`. An item that left never
  comes back, so that number only falls, and that is `NobodyFallsBack`, an action property. An item with a
  refund is in a status without transitions (`RefundedHaveLeft`), so its refund is not replaced.
- `FirstAttemptIsOnce`, `NoJobIsLost` (`JobQueueProofs`, from `ProcsAssumption` and `JobsAssumption`): an attempt's
  `startedAt` tells its copy from every other (`StampsAreUnique`), so what a failure puts back is nothing a
  worker is promoting: no job falls between the removal from one set and the other (`StoredIsSafe`). Copies of
  an undelayed, untried job lie in ready sets, one at a time (`FreshIsReady`): promotion, where copies
  double, never touches them.
- `PeriodsArePaid`, `RenewalIsOnce` (`SubscriptionsProofs`, from `DaysAssumption`): as long as no renewal was
  stale, key and start of a renewal are the same date (`KeysAreStarts`), so the unique key of a payment makes
  its period unique; a batch that moves the period has its payment (`PaidFirst`).
- `SessionsTyped`, `HeldWindowsDisjoint`, `ChargedGetBooked`: `TypeOK`, `HoldsDisjoint` and
  `ChargedIsBooked` hold in every specification, card or wallet. `AcquireFacts`: a reservation adds at
  most one hold, at the end, overlapping no live one, and a refresh keeps the window. Every other step
  only lets holds go (`OnlyLetsGo`), and windows of a kept hold never change.
- `CardBookedOnce`, `CardNeverOverHold`: where all pay by card, `BookedOnce` and `NoBookingOverHold`.
  `CardInv` adds that nothing is in flight and that a booked hold is no longer active (`BookedIsGone`),
  which is why it cannot be paid again; a booking is made while its hold is live, so `HoldsDisjoint`
  keeps it off others.
- `GuardTakesWhatIsFree`: `TakesWhatIsFree`, an action property, for any number of deductions, sales,
  holds and analysts and any amounts (`AmountAssumption`). The inductive `Judged`: of a deduction that
  has read, and since whose read no hold was placed, either the row's version has moved on, or what was
  available when it read still is. Debits count the version up; a seizure takes as much from the balance
  as from what is locked; a release only frees credits (`DecidedRow`). A placement moves neither the
  version nor the balance, which is why the property has to except it.
- `LocksMatchHolds`: `HoldsAreLocked`, for finitely many holds (`FinitenessAssumption`). A hold is created in
  one statement and its credits are locked in another, and an analyst may decide it in between. So what is
  locked is the sum of the undecided placed holds less that of the decided ones that were not placed
  (`LocksAddUp`), unless two analysts decided one hold; of what an analyst has read it needs that it is
  still so (`DecidedOnce`).

`WalletHoldsProofs` and `LedgerConcurrencyProofs` repeat the lemmas about sums of `WalletLedgerProofs` that they use,
over their own `Total`.

### What is only model-checked

- Liveness, which is out of the proof system's reach: `EveryRequestEnds`, `EveryJobEnds`, `PaidIsGiven`,
  `PastDueEnds`.
- `NoDoubleBooking` is violated by the code.

## 6. Findings

`PROJECT.json` has the one that a run shows, double booking: a window that was booked is offered again.
Others, seen while translating; the models contain the behaviour, no run is spent on them. The first
three can be seen by giving `MCLedgerConcurrency` another load:

- With a refund among the requests (`Load <- Mixed`), `LotsBackBalances` fails: `restoreLotDeductions`
  reads lots before the refund locks the wallet, and one of two lot updates is lost
  (`credit-lot.service.ts:352`).
- With `Load <- TwoRefunds`, `RefundedOnce` fails: the status is checked on an unlocked row and reversed
  later without a condition (`wallet-ledger.service.ts:1360`).
- With `Load <- TwoOrders`, `StockNeverNegative` fails: the last item is sold twice (`:1183`).
- With wallet payments in `PrivateSessions`, `NoBookingOverHold` fails: the hold is read before the
  payment is awaited and used after it, when another fan may have the window (`booking.service.ts:221`).
- An interaction is lined up although its charge failed: an error of the database is only logged
  (`interaction-purchase.service.ts:388`), below the heading "EXECUTION: ATOMIC LEDGER RECORDING & QUEUE
  PLACEMENT" (`:309`). A repeated reject, cancel or refund pays again before it is refused
  (`interaction-queue.service.ts:371`), so `MarksAreBacked` speaks of the refund an item names.
- A delayed or retried job is promoted by two workers at once and runs twice (`job-queue.ts:308`), so
  `FirstAttemptOnce` speaks of undelayed jobs; a job in the hands of a worker that dies is lost (`:96`).
- A renewal is keyed by the date its batch listed, while its period is that of the row read again
  (`subscription.service.ts:638`). When another batch or the fan moved the period in between, the
  payment of the old key is found and the next period given for nothing, and that period can later be
  charged under its own key. `stale` marks these runs, and `PeriodIsPaid` and `RenewedOnce` except them.
- Of two batches that record one payment, the loser takes the unique key's conflict for a failed charge
  and makes a subscription that was just renewed PAST_DUE or EXPIRED (`:252`).
- `renew` does not refuse a paused subscription (`:195-201`): one paused after it was listed is charged,
  and becomes ACTIVE with `isPaused` set. A renewal in flight overwrites an upgrade's dates (`:233`).
  `pauseResumeAt` is read by nothing. A renewal that throws ends the batch and skips the expiry.
- A subscription cancelled at the period's end stays ACTIVE for ever, as it is listed no more (`:614`),
  unless a renewal under way fails after the cancel and turns `autoRenew` on again (`:314`): the next
  batch then cancels it (`:625`), from the row as listed, also when the fan has subscribed and paid anew
  since. A cancel that read the row PAST_DUE writes that status back over a renewal, which had set
  `gracePeriodEndsAt` to NULL (`:372`): the row is never listed (`:614`) nor expired (`:665`) and stays
  PAST_DUE until the fan subscribes, upgrades or cancels at once. `Stranded` names that state, and
  `PastDueEnds` excepts it.
- An order that failed answers every later call with its key, with `success: true`
  (`order.service.ts:57`); of two overlapping calls the key remembers the later one, which may be the one
  that failed. A refund during the payment is overwritten by COMPLETED and, with its FULLY_REFUNDED mark,
  can never be asked for again (`:428`, `:498`). A refund leaves the `ContentPurchase` row behind, so the
  same content ordered again costs nothing and its access check still passes; a partial refund reverses
  the whole transaction (`:534`). An order whose charge committed but whose answer was lost is FAILED and
  is refunded without money (`:340`).
- `lockedBalance` is looked at by `WalletConcurrencyGuard` alone, which nothing calls: the ledger's sales
  spend held credits, and a later seizure makes the balance negative
  (`wallet-ledger.service.ts:96`, `fraud-enforcement.service.ts:282`). Two analysts who decide one hold
  at once unlock its credits twice (`:215`); `twice` marks it.
- A sweep that stops between its writes leaves a balance the log does not explain
  (`wallet-ledger.service.ts:1623`); two overlapping sweeps charge a wallet twice for one lot
  (`credit-lot.service.ts:285`); a refund between a sweep's query and its write disappears from the lot
  and stays in the wallet (`credit-lot.service.ts:271`). `ledger_sweep` therefore has one sweep and no
  refunds.
- A chargeback of spent credits makes a balance negative (`wallet-ledger.service.ts:1553`), and
  a later refund revives the revoked lot (`credit-lot.service.ts:358`). The lot properties are stated
  for wallets with no dispute.
- `reconcileWallet` counts COMPLETED rows only and disagrees with a correct balance after any refund
  (`wallet-ledger.service.ts:2063`); `ReconcilesBalances` is checked without refunds.
- A REFUND row can itself be refunded, which pays the platform's fee out of nothing
  (`wallet-ledger.service.ts:1360`); `RefundTypes` in `ledger_refunds` is the sale types.
- `balanceBefore/After` of overlapping sales come from reads before the lock (`:608`).
- A private session is confirmed although the ledger refused the payment (`booking.service.ts:257`);
  a second overlapping pick answers with the first hold (`reservation-lock.service.ts:49`); two wallet
  payments of one hold book it twice (`booking.service.ts:221`), so `BookedOnce` is checked with cards;
  nothing ever marks a booking COMPLETED, so the room never closes (`booking.service.ts:469`).

## 7. Not modelled

Each part is in `PROJECT.json` with the reason. In short: job handlers, administration, notifications,
fraud scores, accounts, media and storage, matchmaking, CRM and analytics, mobile receipts, privacy
and security helpers, API routes, UI and generated code keep no state whose interleavings matter, or
only pass calls on. A restart of the process loses all holds and bookings, as they are in memory only;
any property across it fails at once, so it is stated here and not modelled.

## 8. Plan

Still to model, where the budget of runs allows: `DistributedLock` (leases, renewal timers, Redis
failure), `CircuitBreaker`, `StateMachines` (one machine, the tables as data), `SplitLedger` (shares
against a reference definition), `PaymentCheckout`, `CollectiveGoals`, `Seats`, `CoStream`. `Orders` keeps
an abstract ledger of its own; the promise it takes from the ledger is `ChargedOnce` of
`LedgerConcurrency`.

Proofs next: every safety property a passing run checks is a theorem. What remains is to weaken
hypotheses: `BooksAgree` with a sweep beside refunds that do not
meet it, and the wallet theorems of `PrivateSessions` beyond cards.
