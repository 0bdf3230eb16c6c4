# SMART-ERP-POS in TLA+

A verification development for SMART-ERP-POS, a point-of-sale and ERP system
(React 19 client, Express 5 server on Node.js, PostgreSQL 15 with a database per
tenant, Bull and Redis for jobs). It holds TLA+ modules of the parts of the code
where processes, transactions, retries and crashes cross, TLC configurations that
check them on small instances, and theorems about them that TLAPS checks for every
value of the constants. `PROJECT.json` is the index: components and their sources,
runs, the lines each definition stands for, hazards, findings and theorems.

Contents: [System](#1-the-system) · [Modules](#2-the-modules) ·
[Runs](#3-the-runs) · [Findings](#4-findings) · [Proofs](#5-proofs) ·
[Not modelled](#6-what-is-not-modelled) · [Plan](#7-plan) · [Running](#8-running-it)

Paths below are relative to `src/`; `server/` stands for `SamplePOS.Server/src/`
and `client/` for `samplepos.client/src/`.

## 1. The system

A browser (or an Android or desktop shell around it) runs the till. It calls the
REST API; when it cannot, it records what happened in an event journal in
localStorage and sends it later, from the page or from its service worker. The
server is one or several Node.js processes. A request passes middleware
(idempotency keys among them), a service runs the business operation inside a
PostgreSQL transaction (`server/db/unitOfWork.ts`), and every operation with money
in it ends in the general ledger (`AccountingCore`). Totals for reports are
projected from the ledger after the commit, by jobs in memory and an outbox table.

Parts with state of their own and concurrency worth modelling:

| Part | State | Operations | Interacts through | Hard behaviour | Correct means |
|---|---|---|---|---|---|
| Idempotency keys | table `idempotency_keys` | read, claim, wait, complete, release | every mutating request that carries a key | takeover after 30 s, crash between commit and store, failing queries, expiry | one effect per key, one answer for all |
| General ledger | `ledger_transactions`, `ledger_entries`, `accounts.CurrentBalance`, period status | post, reverse, lock a period, repair balances | called by all business services, in their transaction or its own | READ COMMITTED reads before writes, several calls in one transaction, lock orders | unique keys, no duplicate documents, cache equal to journals, no late entries |
| Period balances | `gl_period_balances`, outbox `gl_projection_events`, jobs in memory | post and reverse with their rebuilds, poll, rebuild, close and reopen | written after and inside ledger transactions, by several workers | overlapping rebuilds, lost jobs, skipped periods, savepoints, retries | balance equal to the net-active journals once settled |
| Offline sales | journal and status map in localStorage, request queue, service-worker messages, table `sales`, table floor | save, cancel, retry, sync from three senders, replay | HTTP, `postMessage`, shared localStorage | senders overlap, answers lost or late, reloads, auth stops | sold once, SYNCED means sold, nothing forgotten |
| Offline customers | localStorage list, temporary ids, request queue, table `customers` | write down, sync from two callers, resolve, flush | the sync engine and the checkout page over one list, HTTP | the loop breaks halfway, two loops at once, ids known for one run | no customer lost, sale keeps its customer |
| Checks of the restaurant | `pos_orders`, `restaurant_tables` | replay of order, kitchen and sale events; opening, paying, cancelling and looking at checks online | the same journal and senders, the table's row, an advisory lock taken by some of them | events that name no server check, lost answers and retries, a release decided on what it read before | an event changes its own check, the table shows what is there |
| Register sessions | `cash_register_sessions` | open, join, close | unique index | raced open in an aborted transaction | one open session, the loser joins |
| Print jobs | `print_jobs` | list, report, reclaim | several print agents over HTTP | unclaimed listing, slow printers | one paper per job, or a known retry |
| Notifications | `notification_events`, inbox, push log | enqueue, claim, deliver | timer and push service | crash while PROCESSING | every event delivered |
| Journal approval | `je_approval_requests`, status of a journal | park, approve, reject | ledger and rebuild | two statements without a transaction | balances follow the status |
| Stock | lots (`inventory_batches`), quantity on hand, marks on sales | FEFO deduction, void, refund, receipt, quarantine, disposal | row locks in one transaction each | statements that read before they wait, lock orders, the same lot in several documents | nothing sold or restored twice, quantity on hand agrees, documents end |
| Coupling guard | account 1300, value of the lots, journals of documents | capture, move, post, check, refuse | totals over the whole shop, read without locks | commits between the captures, a receipt finalized twice | a document posts its own value, keeps the gap, is refused for a reason only |
| Allocation of payments | open invoices, deposits, receipts | allocate, void, apply, refund | ledger | concurrent allocations | no invoice paid twice |

The other components (documents, tax arithmetic, master data, reports, access
control, administration, packaging) are listed with the reason they are left out in
`PROJECT.json`; section 6 sums them up. The 40 hazards listed there, each at its
line, are what the properties aim at. They are of the parts that have a module.

## 2. The modules

Each component has a module with its state, actions and properties, an `MC` module
that gives it instances, configurations, and a `Proofs` module. No module uses a
recursive operator. Mutated forms of a definition stand beside the definition under
names of their own and are used by no specification: each shows that some property
would notice a plausible slip there.

| Module | Stands for | Builds on |
|---|---|---|
| `MutationOnce` | what an idempotency key promises | |
| `IdempotencyClaim` | `server/middleware/idempotency.ts`, `idempotencyClaim.ts`, migration 071 | implements `MutationOnce` |
| `PeriodBalance` | `server/services/periodBalanceWorker.ts`, `glPeriodRebuildService.ts`, the outbox migration, and what `accountingCore.ts` schedules | |
| `JournalLedger` | `server/services/accountingCore.ts`, `modules/supplier-payments/apBalanceGovernance.ts`, the repair in `glRepairService.ts` | |
| `OfflineSync` | `client/lib/offlineEventJournal.ts`, `services/offlineSyncEngine.ts`, `hooks/useOfflineMode.ts`, `samplepos.client/public/sw.js`, `client/lib/offlineRequestQueue.ts`, and the sale path of `server/modules/pos/posEventReplayer.ts` | has the idempotency middleware's stored answers as `stored` |
| `CheckReplay` | the other events of one table in `posEventReplayer.ts`, `server/modules/restaurant`, `modules/orders` and the engine that posts them | |
| `FefoStock` | the stock side of `server/modules/sales/salesService.ts`, `modules/inventory-lot`, `modules/loss-quarantine`, `modules/goods-receipts`, `utils/inventorySync.ts` | |
| `InventoryCoupling` | `server/services/inventorySubledgerCoupling.ts`, `inventoryCouplingMath.ts` and the services it guards | has the lots of `FefoStock` as a value |
| `OfflineCustomers` | `client/components/customers/QuickAddCustomerModal.tsx`, `syncOfflineCustomers` and its two callers, `client/lib/offlineRequestQueue.ts`, and what `server/modules/customers` does with its requests | what a post of a sale goes through is in `OfflineSync`; here it is one step |

### IdempotencyClaim

Keys do not interact, so there is one key. `row` is its row of the table, `Requests`
are the HTTP requests that carry it; a client's retry is another request. `pc` is
where a request is: one action per SQL statement, because the middleware awaits
between them. `ReadCompleted`, `SweepStale` and `Insert` are the read and the two
statements of `claim`; `WaitHit` and `WaitTimeout` the eight-second poll of a request
that lost the claim; `RunCommits` and `RunFails` the route; `Complete` and `Release`
the hooked `res.json`; the `Bare` actions a request whose lookup failed and which
proceeds without deduplication. Time is abstract: `AgeClaim` (30 s) and `ExpireRow`
(24 h) may happen at any moment, a waiter may reach its deadline at any moment.
`Faults` switches on slow executions, crashes, failing queries and expiry. The
history variable `excused` records the requests a fault has struck, so that "runs
once" can be stated exactly instead of being false or absent: the mutation commits
at most once plus once for each struck request.

`MutationOnce` is that promise in three variables: the requests whose execution took
effect, those a fault has struck, and what each request was told. The mapping takes
`committed` and `excused` for the first two. A request takes effect only while there are no
more effects than struck requests, is told its own result or the one result that everybody
else's replays tell, and is refused only if it made no effect.

### PeriodBalance

A tuple is an (account, year, month); its number is its place in the worker's lock
order. Amounts are abstracted to the journals they come from: a balance is the set
of journals it sums, so that a missing journal, a phantom and a stale sum can all be
told apart. A session does one thing: a poll of the outbox (one transaction, a
savepoint per tuple), a direct rebuild (each statement its own transaction), or a
posting or reversal inside its caller's transaction with the rebuilds there. The
check of the period, the SUM and the write are separate actions (`BeginTuple`,
`SkipClosed`, `ReadSum`, `WriteHeld`, `WriteDirect`); written rows stay locked until
the commit. PostgreSQL breaks a circle of waits by failing a statement: that undoes a
posting or a rebuild (`DeadlockAbort`), but of a poll the tuple only, whose events are
FAILED while the poll goes on with the rows it holds (`DeadlockFails`, and `TupleFails`
for any other failure behind the savepoint). `CommitPost` writes
journal and outbox events together and schedules the jobs in memory; `CommitReversal`
schedules jobs only. `Claim` is the SKIP LOCKED batch, `CommitPoll` records DONE and
FAILED with the rows. Faults are lost connections, failing rebuilds and crashes of
the process, which empty what waits in memory. `excused` records tuples left wrong
by one of the known causes, and forgets a tuple when it is right again.

### JournalLedger

A session runs a database transaction of one or several calls of
`createJournalEntry` or `reverseTransaction`. Each statement that decides something
or takes a lock is an action, in the code's order: look the key up, look the business
reference up (through the pool, not the transaction), read the original, check the
period, take the advisory lock on transaction numbers, read the last number, insert
under the unique key, one `WriteLine` per account, and `Finish`, which marks the
original of a reversal, renames its key and sets the account cache to the sum of the
POSTED journals. Reads see what was committed and the transaction's own writes;
writes wait for row locks, the key's index entry and the advisory lock; `Abort` may
strike anywhere and rolls everything back. `HealRead` and `HealWrite` are the repair
of the cache, which may wait between its read and its write, and `LockPeriod` is the
core's own lock of a period. `seen` keeps what was committed before a journal's deciding
read and `own` what its transaction had inserted by then. The lookup of the reference is one SELECT
in the transaction with LIMIT 1 and no ORDER BY, and then a read through the pool. Of several
active journals it may pick the transaction's own, which the pool does not find, and the call
posts (`CheckReference`). Duplicates are therefore stated as "the call did not have the other before
it, or its transaction had posted to the reference itself".

### OfflineSync

One till with one tab. `status` is the map of event statuses in localStorage,
`shown` what the panel last rendered, `queue` the request queue, `mail` the messages
of the service worker to the page. Three loops post events: the engine (the same loop
stands in the hook and in the service, under one lock), the service worker, which
copies the journal when it wakes, and the flush of the request queue, into which the
API client's interceptor puts a sync request that failed offline. A post is a member
of `call`; its server side goes from "sent" through the lookup (`Arrive`), the sale
(`Sell`, one database transaction with its UNIQUE key) and the release of the table
(`Release`) to the answer. Requests and answers can be lost, the connection can drop,
the server can stop between any two of these steps, the page can be reloaded, the
sale or the release can fail, and a request can be refused. `Mark` is
`decideSyncPost`: which answer gives which status. A post of the engine that gets no answer
(`EngineNoAnswer`) is queued when the browser says it is offline, and the loop is broken off.
Online it comes back as a `HandledApiError` without a status (`api.ts:326`), which
`readThrownSync` does not take for a network failure: the event is put to REVIEW, or FAILED
when a proxy answers 502, 503 or 504, and the loop goes on with the next. Only a token refresh that
gets no answer breaks it off online, as its raw error reaches the engine
(`useTokenRefresh.ts:363`).

### CheckReplay

One table and its checks. A check is *linked* when its row in `pos_orders` names the table;
the table's row points to one check (`pointer`, `current_order_id`). A journal is written
while the device is offline, and a run of the engine posts its unsynced events in order,
each when the one before was answered. `Lose` is a lost request or answer and `Crash` a stop
of the server; `Unheard` is what the run makes of either. Offline it stops and a later run
posts the event again, perhaps beside the first attempt. Online the event is left in REVIEW
or FAILED and the run goes on with those behind it, which then come to the server before it:
if they are of the same check, that check is disturbed (`Overtaken`). `call` holds the
requests at work on the server: the replayer's (`FindOrder`, `CreateOrder`, `Link`, `Occupy`
for ORDER_CREATED; `Resolve` and `Apply`, `Cancel` with `Count`, `Sell` with `Again` for the
others) and the staff's (`Seat` and `SeatLink` are the two transactions of
`addItemsToTable`, `Close` a payment or cancellation, `Look`, `Heal`, `Verify` are
`getTableCheck`). `Resolved` is the replayer's search for the check of an event, which names
it by an id the server does not know: the pending check the table points to, or else the
newest pending one linked. `ReadSibling` and `WriteTable` are the two statements of
`releaseTableByOrderId`, which neither lock the table. `FailureOf` says what each handler
answers when a statement throws. Three histories: which checks an event has changed, which
checks met a cause that can mislead their events, and whether a known cause has left the
table wrong; the last is forgotten as soon as the table is right.

### FefoStock

Lots are numbered in FEFO order; each document is one transaction at READ COMMITTED, and
an action is one statement. `held` are the rows a transaction has locked, with what it
wrote there; others see `lot` until the commit publishes them. `Load` selects, `LockLot`
locks row by row and looks at each again, `Deduct` is `consumeLot`, which selects a second time.
`FlipStatuses`, `SumLots` and `WriteOnHand` are the three statements of
`syncProductQuantity`; the sum is taken before the wait for the product's row.
`ReadForVoid` and `ReadForRefund` read the sale without a lock; `CountRefund` looks at the
refunded quantity again under the lock of the line. `Waits` says who waits for whom, and
`Break` rolls back one transaction of a circle, as PostgreSQL does. `behind` and `stale`
remember which quantities on hand were written from an old sum.

### InventoryCoupling

A guarded document captures account 1300 and the value of all lots (two statements,
`CaptureLedger` and `CaptureStock`), moves its lots and captures again (`Measure`), posts
the difference (`Post`), captures a third time (`CheckLedger`) and commits or refuses.
A return is not guarded. `crossed` remembers that a commit of others changed a total since
the first capture, and `mixed` the documents committed so. `LockReceipt` stands for
`finalizeGR`, which tests the status it read before it waited for the row.

### OfflineCustomers

One till with one tab. `list` are the customers written down offline, `run` the two callers
of `syncOfflineCustomers`: the loop of sales ("engine", under its lock) and the checkout
page, which takes no lock. A run reads the list once (`copy`, `todo`) and visits its
customers; `kept` is what it will write back, `ids` the map from temporary ids to real ones.
One answer of the server is one action. `Create` registers the customer. `Keep` is every
failure online, whether the server refuses the customer or nobody answers: all of them reach
the loop as a `HandledApiError`, which has no `response`, so that its branch for customers
the server has already (`offlineSyncEngine.ts:136`) is never taken and a refused customer
stays on the list. `Break` is a failure offline, and online a token refresh that gets no
answer. The last customer writes the list back and returns the map in the same step
(`WriteBack`, `Returns`), as the code does between two awaits. The loop of sales then takes
the events it finds unsynced: `Resolve` and `Search` replace the temporary id, by the map or
by a search for the name of a customer still listed; `Marks` is a post that gives the event
its status, `Stops` one that ends the loop. The page keeps the map to its own sale.
`WorkerPost` is the service worker, which posts a temporary id as it is and gets REVIEW;
`FlushCustomer` and `FlushSale` are the request queue; `Reload` ends both runs.

What the server does with a customer depends on its email and name only, which is what
`Clash` and `Alike` say: with whom its creation collides and whom a search for its name may
find first. Two histories name what the code gives up: `lost`, customers that left the
list without a request for them, and `unlinked`, customers whose temporary id nothing at the
till resolved. The order of list, journal and queue is left out
(each loop may take any member next).

## 3. The runs

Distinct states are those of the whole reachable graph within the bounds.

| Run | Question | Instance | States |
|---|---|---|---|
| `claim_faults` | Is the middleware the abstract promise, with one repetition for each fault? Can replays differ, can a stored answer be lost, can somebody wait for ever? | 3 requests, all faults | 24 633 |
| `balance_faults` | Which drift can a balance have, and is DONE ever a lie? | 2 journals, 2 sessions, 1 row, all ways, 1 fault | 796 938 |
| `balance_lock_order` | Can polls wait for one another in a circle, beside inline postings that lock in another order? | 2 journals over 2 rows, 2 sessions | 1 185 825 |
| `balance_delivery` | Does every event become DONE or run out of retries? | 2 journals, 2 sessions, sweep, 3 faults, 2 retries | 155 614 |
| `ledger_overlaps` | What do crossing transactions do to keys, documents, numbers, cache, period and locks? | 2 sessions, 2 calls each, 3 journals, 2 keys, 2 reversal keys, 2 accounts | 2 547 553 |
| `ledger_net_active` | Is the account cache the net-active balance? **Violated.** | the same, no repair | |
| `sync_faults` | Is a sale sold once and settled, whatever is lost or repeated? | 1 sale, 3 posts, 1 worker run, 2 faults of 7 kinds | 1 049 309 |
| `replay_overlaps` | Does a synced event change its own check only, and does the table show what is there, beside staff and faults? | 2 offline checks and 1 of the house, 2 journals, 2 requests at once, 1 fault | 4 805 139 |
| `stock_overlaps` | Is stock sold or restored twice, is the quantity on hand right, who waits in a circle, does every document end? | any 3 of 9 documents on 5 lots of 2 products | 236 493 |
| `stock_quarantine` | Does a quarantined lot stay off sale? **Violated.** | 1 disposal of a part of a lot | |
| `customers_offline` | Can a customer written down offline be forgotten, or its sale lose it, other than in the ways named? | 2 customers, 1 of the house, a sale each, 2 drops, 1 fault | 962 743 |
| `coupling_overlaps` | What do commits between the captures do to amounts, gap and refusals? | 3 transactions, 6 documents of 4 kinds | 172 801 |

### Properties

`IdempotencyClaim`: `RepeatsAreExcused` (see above), `ReplaysAgree` (every replayed
answer is that of one committed execution), `StoredForGood` (late `complete` and
`release` of a request that lost its claim leave a stored answer alone),
`EveryRequestAnswered`, and the refinement `KeepsPromise`, which holds whatever
faults strike and says besides that a request that committed is never refused.

`PeriodBalance`: `NoPhantoms` (a balance sums only journals that were committed and touch
its row),
`DoneMeansCounted` (an event turns DONE only with its journal in the row, or the
journal reversed, or the period closed), `DriftIsExcused` (a settled balance is right
except for three causes: a rebuild overtaken between SUM and commit, a closed period,
the lost job of a reversal), `WorkersNeverDeadlock`, `EventsSettle`.

`JournalLedger`: `OneLivePerKey`, `CacheIsPostedSum`, `DuplicatesExplained`,
`DoubleReversalsOverlapped`, `RepeatedNumbersAreReversals`, `PostingsNeverDeadlock`,
`LateJournalsOverlapped`. Four of them say exactly how far a guard that reads without
a lock reaches. The guards against double reversals, repeated numbers and late entries
hold between transactions that do not overlap. The one against duplicate documents does not hold
within a transaction either, once it has posted to the reference.

`OfflineSync`: `SoldOnce`, `SyncedMeansSettled` (a status SYNCED, from whichever
sender and however late, means one row in `sales` and a released table),
`CancelHolds` (cancelling an event no sender holds is final), `EventuallyHandled` (a sale in
the journal is settled or put before the user; a lost answer online leaves it to the user).

`CheckReplay`: `ReachesOwnCheck` (an event the device takes for synced has changed the
check it was written for and no other, unless its check was disturbed in one of the ways
the property lists, among them a post that got no answer online and was followed by later events of
its check), `FloorSettles` (with no request at work the table points to a pending check of
its own, or is free when it has none, except after a closed check linked late, a release
decided on what has changed since, or one that failed or was lost).

`FefoStock`: `StockMatchesDocuments` (whatever runs at once and is rolled back, the lots
hold what was received less what the documents took), `OnHandExcused`,
`RefundedVoidWasOverlapped`, `FullyReturnedIsMarked`, `DeadlocksExplained` (every circle of
waits has a document with several lines, one that puts lots back on sale, or a sale in
its second selection), `DocumentsEnd`.

`OfflineCustomers`: `CustomersKept` (a customer written down is on the list, in the
request queue, or on the server, but for a break, a write over the list and an expired request:
two loops over one list, reloads, refusals and lost answers lose nobody), `SalesKeepCustomers` (a
sale that reached the server has its customer or one the search by name may find for it; it has
none only when nothing resolved its temporary id).

`InventoryCoupling`: `GuardedKeepsGap`, `AmountIsOwn`, `RefusalsExplained`, `ReceiptOnce`:
what the guard guarantees when no commit falls between its captures, and so exactly what
it does not when one does.

### Bounds, and why they suffice

Three requests are the least with an owner, a thief and a bystander who replays; the fourth
would repeat one of them. Two sessions and two journals let rebuilds of one row overlap in
every order; every drift needs two parties at most, and a row more is needed only for lock
circles, which has its run. `MaxFaults` is 1 where a fault is a cause of drift (two faults
leave the union of what one leaves) and 3 with two retries where retries must run out. Three
journals are a posting, its reversal and a repost, or a posting and two reversals; two calls
in a transaction are the shortest in which one call meets what another did. One sale with
three posts puts it into all three senders at once; two faults are enough for a drop that
queues the request together with any one other fault, such as a lost answer, a crash or a
reload. In `CheckReplay` two journals, that of a party that pays before the next is seated
and that of one whose dishes are sent before lines and then all are voided, hold every kind
of event; two requests on the server are an attempt and its repetition, or an event and a
cashier; a third check, of the house, is the other party. Within these bounds each excuse of
the two properties is needed (without it the property fails) but for the one of an event
that strikes another check. Three documents at once are enough for two that overlap and one
that meets the result, and the shelf has a lot of every status and two products ordered
against the carts. Three transactions are two receipts of one delivery note beside a
document that crosses them; the worths are chosen so that changes can cancel out. One
customer of `OfflineCustomers` has a name that a customer of the house contains, so that a
search may find another than the one meant, the other an email the server has; a break with
two customers on the list has one reached and one not, and the second drop lets a customer
be written down while a run is open. With two faults the properties hold as well (2.2
million states). Symmetry is used only for safety runs and only over sessions, journals and
request slots, which no definition names. In `JournalLedger` the runs keep deadlock checking
(a stuck transaction would be a fault of the model); where it is off the system may really
stop: when every sale is settled, or every event.

### Fairness

`claim_faults` assumes weak fairness of each request's own steps: Node's event loop
runs whatever can go on, a waiter's poll has a deadline. Nothing forces a fault, nor
thirty seconds to pass. `balance_delivery` assumes that statements return
(the pool sets `statement_timeout` to 30 s, and a lost connection is a fault), that `setImmediate`
callbacks run and that the repeating job comes round; it does so for a database the
sweep polls (`Swept`), since `server.ts` starts the sweep on the global pool only.
`stock_overlaps` assumes that each
transaction takes its next statement when it can: `statement_timeout` bounds a statement,
and PostgreSQL's deadlock detection, an action of its own, breaks a circle.
`sync_faults` assumes what `OfflineAutoSync.tsx` provides and what no
till can do without: the connection returns, the cashier logs in again, the 30-second
timer starts the engine, each loop takes its next step, and the server serves what
reaches it. The user is never assumed to press a button, and no fault is assumed to
stop by itself: their number is bounded.

## 4. Findings

Two runs end in a counterexample, each against a sentence of the repository.

1. `ledger_net_active`. *"Do NOT use Status='POSTED' alone: it drops the original but
   keeps the reverse journal"* (`postedLedgerBalance.ts:11`). The account cache is set
   by exactly that sum after every journal (`apBalanceGovernance.ts:47`), so a
   reversal leaves it off by the reversed amount until the repair runs, and the next
   journal of the account brings the error back.
2. `stock_quarantine`. *"Quarantined / expired / recalled lots are non-sellable without
   override"* (`docs/architecture/LOSS_QUARANTINE_INVARIANTS.md:19`). `syncProductQuantity`
   gives every lot with stock the status ACTIVE (`inventorySync.ts:43`), so disposing of a
   part of a quarantined lot puts the rest of it on sale, with every other quarantined lot
   of the product.

Seen while modelling, and part of what the properties excuse by name:

- A claim older than 30 seconds is taken over while its owner executes, and both commit
  (`RepeatsAreExcused`). An expired record is skipped by the read but not by the insert,
  so its key is answered 409 until somebody deletes the row.
- SUM and upsert of a rebuild are two READ COMMITTED statements: one that summed first
  and writes last puts an older total back (`DriftIsExcused`). The repeating sweep polls
  the global database only (`server/server.ts:639`).
- The engine reads the unsynced events once: a sale cancelled after that is still posted
  (`CancelHolds` is about events nobody holds). A queued sync request is answered 409 at
  every flush once the engine has posted its event, and the flush stops there.
  `flushOfflineQueue` has no lock. The service worker's posts carry no idempotency key.
- A retried sale or cancellation acts on whatever check is pending at the table by then,
  perhaps the next party's. A retried creation puts a closed check back on the table. A
  sale is made without a check when a duplicate creation is acknowledged before the first
  attempt has linked it. `getTableCheck` leaves a stale pointer when the table has no
  pending check. ORDER_UPDATED replays voids only: lines added offline after
  ORDER_CREATED do not reach the server's check.
- *"Retryable failures stay on the queue: no HTTP response, 408, 429, and 5xx"*
  (`syncAuthGate.ts:8`): online the first do not. The response interceptor turns a failure
  without a response into a `HandledApiError` without a status, and `decideSyncPost` puts
  the event to REVIEW, where it waits for the user. `EventuallyHandled` counts REVIEW as
  handled for that reason.
- The loop goes on after such an event. When a creation of a check is lost, its kitchen
  order, its changes and its sale come to the server before it, find no check or another
  party's, and are marked SYNCED. `ReachesOwnCheck` excuses the check as overtaken.
- One transaction can post a business reference twice: the lookup finds the transaction's own
  row and reads it through the pool, which does not see it (`accountingCore.ts:1307`). A transaction
  that has posted to a reference may also pass a committed active journal of it, since the
  lookup takes any one row (`DuplicatesExplained`).
- *"Queue for server sync when online"* (`QuickAddCustomerModal.tsx:182`): when the
  browser goes offline, `syncOfflineCustomers` leaves its loop (`offlineSyncEngine.ts:134`) and
  writes back only the customers refused so far (`:162`), so that those behind the current
  one are gone. `CustomersKept` excuses them by `lost`, and fails without it.
- *"Preserve offline_cust_ ID so sync engine can resolve it later"* (`POSPage.tsx:3567`): a
  customer whose email is taken is refused at every run and stays on the list for ever; the
  branch that would look for its real id tests fields a `HandledApiError` does not have. The search
  for its name finds nobody, and its sale is posted without a customer
  (`offlineSyncEngine.ts:216`) and marked SYNCED. `SalesKeepCustomers` excuses it by
  `unlinked`, and fails without it.
- Guarded documents can absorb or mask one another's changes, and a receipt without value
  that is finalized twice adds its lots twice. Voiding a PARTIALLY_RETURNED sale fails at
  its UPDATE, whatever the force flag says.

The hazards in `PROJECT.json` name the lines.

## 5. Proofs

All theorems are of the specification without fairness, for any values of the
constants that meet the module's assumptions: finite requests and accounts, numbered
tuples and sales, any bounds. Each invariant was first checked by TLC as the run's
property.

**`IdempotencyClaimProofs`.** `TypeCorrect`. `EveryRepeatIsExcused`: counting commits alone
is not inductive, because a request that holds a claim may yet commit. The invariant counts
stakes: `Stake` is the set of requests that have committed, are executing, or failed and
have not released the claim yet; `Backed` says that the row stands for one stake, as a
stored answer or as the claim of an owner no fault has struck; and `Cardinality(Stake) <=
Cardinality(excused) + (1 if Backed)`. Each step keeps, gives up or excuses a stake; the
lemmas `BoundKept`, `BoundStakeGivenUp`, `BoundExcused` and `BoundIdle` are those cases.
`ResponsesAreStoredForGood` is an action property that needs the types only;
`ReplaysAlwaysAgree` adds that the stored body is a committed execution and that whoever was
replayed was told that body. `MiddlewareKeepsPromise` has no hypothesis about faults: every
step maps to a step of `MutationOnce` or to a stutter. `AnswerInv` says what each phase has
told its request. An execution that is about to commit has a stake without an effect, so the
bound on stakes leaves room for it (`Ready`, `CommitTakesEffect`); a replay tells what the
row holds, which by the invariant of `ReplaysAlwaysAgree` is what everybody else was told
(`AnswerTells`); a request that is refused has not committed (`AnswerRefuses`); and a fault
only adds to the struck (`FaultStrikes`).

**`PeriodBalanceProofs`.** `TypeCorrect` with `ConnInv`: what a session is doing determines
which of its fields are in use. `BalancesAreReal`: a committed balance sums only journals
that were posted and touch its row; inductive together with `HeldInv`, that the sum of a
session and its uncommitted writes hold nothing but such journals of their rows and the
session's own, and `LedgerInv`, that one session at a time posts a journal and that it is a
new one. `DoneEventsAreCounted`: an action property; its invariant `CountInv` follows each
claimed event through the poll: still to do, skipped, failed, or summed with its journal.
`PollsNeverDeadlock`: each poll takes its tuples in ascending order, so that the rows it
holds lie below the one it waits for; in a circle of polls the one that waits for the
greatest row would wait for a poll that waits for a greater one. `DriftAlwaysExcused`: an
amount that is wrong is wrong for one of three reasons or is owed. The invariant says who
owes it: an outbox event that is not DONE, the job of a reversal, or the rebuild that job
started. Nothing else counts as a debtor, because any other session may end and leave
nothing behind. What a session has summed is, unless the tuple was overtaken, what the
ledger shows it, or somebody else owes the tuple. A step that pays a debt writes the right
amount, and a step that loses one (a failed rebuild, a lost job, a skipped period) puts the
tuple in `excused`.

**`JournalLedgerProofs`.** The invariants are built in layers. `ShapeInv` (a call in
progress has a row number of its own, what a transaction inserted is pending and its own)
carries `TypeCorrect`. `RowInv`: a mark, a reversal and a renamed key go together. `KeyInv`:
two rows share a key only while the transaction that reversed the first and inserted the
second is open; `OneLiveJournalPerKey` follows. `ReversedInv` and `SeenInv` say what the
deciding reads saw, `ReferenceInv` that a posting was the first of its reference among what
it saw: `SecondReversalOverlaps` and `SecondPostingExplained`. `LockInv` says who holds the
advisory lock, account rows and keys at which stage: `PostingsAvoidDeadlock`, because
whoever is waited for holds the advisory lock and only one session does; and
`LateJournalsWerePastTheCheck`. `NumberInv` gives `PostingNumbersUnique`. `CacheInv` gives
`CacheFollowsPostedJournals`: within a call a transaction holds the accounts of the lines it
wrote; between its calls, one that has a journal holds every account and has set each to the
sum it sees, and nobody else can commit a journal before it ends.

**`OfflineSyncProofs`.** `TypeCorrect` needs more than types: how far a call can be
with which answer, that a post has one owner (`AtInv`: the engine, the worker or the
head of the queue) and that only saved sales travel (`SavedInv`). `SoldOnceHolds` and
`SyncedHolds` share `SettledInv`: every answer, stored answer, worker's result and
message that calls an event synced stands for a sale that exists and a table that is
free. `CancelIsFinal` is an action property: `Free` describes the events no sender
holds, and no step takes up a free event that is not PENDING or FAILED.

**`InventoryCouplingProofs`.** All five properties of the module are theorems. They share one
inductive invariant: `CaptureOf` says that what an uncrossed document has measured is
still so, hence its amount is the worth of its lots; `JournalOf` and `BookInv` that a
receipt has its journal when its first commit was uncrossed, hence the second
finalization moves the gap by its whole worth and is refused; `PairInv` that only receipts
are worked on twice, one at a time past the lock. `GuardKeepsGap` is an action property from
that invariant.

**`CheckReplayProofs`.** `TypeCorrect`, and `FloorAlwaysSettles` for any journals, checks,
requests at once and faults. `FloorSettles` speaks of a quiet table only; the invariant
`FloorInv` says what holds meanwhile: a table that is wrong was left so by a known cause or
has a `Debtor`, a request whose next step, or the one after, writes the table. It rests on
`CallInv` (what each request knows), on `SeatInv` (the advisory lock admits one seat at a
time, so that the check a seat is about to link is linked by nobody else) and on `TableInv`
(a check exists before it is linked and has an age, so that a release finds the oldest). A
closing step leaves a debtor behind; `UnlinkedMove` is the case where the check is not at
the table; `WriteTable` pays the debt, with a least element of the ages (`OldestExists`)
when others are there.

`EventsReachTheirCheck` is the other safety property of the module, from `ReachInv`. An
event names its check by an id the server does not know, and the server takes the pending
check at the table instead; so the invariant says why, for a check that nothing disturbed,
the two are the same. Its events go one after another in journal order (`EventInv` with
`InTurn`: what has come to the server has all earlier events of its check synced before it,
and `RequestInv`: no two requests of one check are at work). An event left without an answer
is the last of its check (`GivenUp`), since the loss of any earlier one disturbs the check.
Its creation is where it begins to exist (`CreateInv`) and only an event of its own closes
it (`ClosedInv`), so in between it is pending; and then it is alone at the table
(`HereInv`), so the look-up finds it and nothing else. `EventKept` and `RequestKept` carry
this over a step of another request, `Owed` is what the step owes for its own event. The
theorem assumes `WrittenByTill`: a check is opened once, under a new id
(`restaurantOfflineOps.ts:51`, `:532`), and gets no event before that or after it is paid or
cancelled. The code keeps to it, because every screen of the till looks the check up among
the open ones of its journal before each write and gives up without it
(`RestaurantPosPage.tsx:2038`, `:2750`, `:4439`, `:5052`, `offlineEventSelectors.ts:291`),
in one tab and without an await in between. Without it the theorem is false: a second sale
of a paid check would be taken for synced without completing any check of its own.

**`FefoStockProofs`.** All six invariants of the module are theorems, for any lots, sales,
carts, requests and number of transactions. They assume what the code checks on the way in:
finite numbered lots, sales with lines of positive quantities
(`server/modules/sales/salesRoutes.ts:41`, `:49`, `:114`, `:125`), positive quantities of
refunds, receipts and disposals, and sales at the start that no document has touched.

- `Inv1` is types (`TypeInv`, with the fields of every transaction) and documents
  (`DocInv`): which phases a document goes through (`PhaseInv`); what a sale has sold so far
  (`SellInv`); that a void holds the lots of the lines it restored and that its sale stays
  COMPLETED from its mark on (`VoidInv`); that a counted refund fits in what is left
  (`RefundInv`); and `ApartInv`, that two transactions hold different rows, which is what
  makes all the rest stay true under the steps of others (`SameDoc`, `OtherKeeps`).
  `TypeCorrect`, `RefundedVoids` and `FullReturns` follow. The first needs `Taken` never to
  exceed a lot.
- `OnHandAlwaysExcused` adds `SyncInv`: a row that a transaction changed belongs to a product
  it has synced or is syncing, and the sum it read or wrote is that of the lots as it sees
  them, unless `behind` says that others have changed the product since.
- `DeadlocksAlwaysExplained` adds `LockInv`: before its first product a transaction holds no
  lots, or lots before those it still has to lock. In a circle in which nobody is excused,
  everybody holds a lot and waits for a later one, and the greatest lot waited for
  has nobody to wait behind.
- `StockAlwaysMatches` adds `MovedInv`: what an open transaction has changed of a product
  (`Changed`, a sum over its lots) is what its document says so far (`Moved`, a sum over its
  lines). The heart of it is `TakenSum`, that `selectLots` takes exactly the quantity wanted
  when the lots hold it. A commit publishes `Changed` on the side of the lots
  (`CommitStock`) and `Moved` on the side of the documents (`SaleDocument`, `VoidDocument`,
  `RefundDocument`, `LotDocument`); a rollback publishes neither. At the start both sides
  are sums over the same table of sale lines and lots, by lines and by lots (`SumSwap`).
- The lemmas these sums need stand first in the module, about `SumFunctionOnSet` as the
  community modules define it. Its fold is a recursive function chosen by CHOOSE, so first a
  sum is shown to exist and to be unique (`SumExists`, `SumUnique`). Induction is over the
  subsets of a finite set, in a form that has a set and no operator as a parameter
  (`SubsetInduction`): `Good` is the set of subsets for which the claim holds.

**`OfflineCustomersProofs`.** `CustomersAlwaysKept` and `SalesAlwaysKeepCustomers`, for any
customers, sales, clashes, drops and faults. Neither is inductive: a run writes the list
back from a copy it read long before, beside another run that does the same. So `RunInv`
says for each run what it owes its copy: a customer it is done with is kept, or needs the
list no more (`Safe`: in the request queue, lost, or known to the server, each of which
grows or passes to another of them). Then a write of the list forgets nobody but what was
added to it since the run began, which is `lost`. For the sales, `LinkInv` says that a
customer not `unlinked` is still resolvable, by the list or by the map of the loop of sales;
a run has in its map, or keeps on its list, whoever it is done with, unless `unlinked`.
`SalesInv` says that the customer of each event of the batch was written down, so that when
the event's turn comes the map has it, the list has it and its name is searched, or it is
`unlinked`; a search that finds nobody makes it so. `Fits` is what the server may sell, and
holds of the event in hand, of the queued posts and of table `sales`. The lemma
`SettleKeeps` carries the invariant over the end of one customer's visit, whatever the
answer was, so that each answer has only its own effect to show.

Checked by TLC only: the liveness properties (`EveryRequestAnswered`, `EventsSettle`,
`EventuallyHandled`, `DocumentsEnd`), since fairness needs ENABLED, which is beyond the prover;
and what the findings refute. All other properties of the passing runs, 36 of 40, are theorems.
The type invariants of `JournalLedger`, `CheckReplay` and `OfflineSync` are proved and are in no
run. No theorem rests on an unproved statement.

## 6. What is not modelled

Inside the modelled components:

- *Idempotency keys.* `runIdempotent`, a second entry point used by tests, follows the
  same protocol.
- *Period balances.* Events in the legacy PROCESSING state, the
  `LEGACY_GL_PERIOD_WRITES` switch, the manual full rebuild and the rebuild after a
  journal approval. Real amounts: a set of journals determines the sum.
- *Ledger.* Validation of lines and posting governance, which refuse a request before
  any statement; amounts other than one unit. No UNIQUE constraint on transaction
  numbers stands in the schema beside this code, so the model has none; with one, a
  repeated number would be an aborted reversal. The repair is modelled one account at
  a time, and periods are locked by the core's own `lockPeriod` only.
- *Offline sales.* Several tabs and tills, the compaction of the journal, the local
  mirror of stock and catalogue, other requests in the request queue with its limit of
  50 and its 24 hours, and all other events. Two sales never share a
  table: `CheckReplay` has the tables, with the engine as the only sender.

- *Checks of a table.* Lines, kitchen tickets and their contents, ownership, transfers,
  merges and splits between tables, events that name a check of the server, updates that
  void every line, the time-out of the table's advisory lock, and the request queue that a post
  enters when it fails offline: the engine is the only sender here.
- *Stock.* Stores and their balances, transfers, counts, cost layers, recipes and units of
  measure. The second selection of `consumeLot` locks its rows in one action; a statement
  that waits is retried as a whole except where the code's result depends on what it read
  before the wait. A lot is quarantined as a whole and not released; a refund has one
  line.
- *Offline customers.* Several tabs, order events with a temporary customer, credit limits
  and withholding tax of a customer, the mirror of customers in IndexedDB, and the sale the
  page makes online with the id it got. The server's steps between the look-up of an email
  and the insert are one.
- *Coupling guard.* The tolerance of two cents, and the lots behind a value. The second
  finalization of a receipt is here and not in `FefoStock`.

Components left out: document workflows (purchasing, invoices, quotations, delivery),
treasury, assets and tax, which are one transaction each and reach shared state through
the modelled posting, or are decimal arithmetic with unit tests; master data; reports
and integrity checks, which only read; access control, tenants, settings and audit,
which are outside the functional core; imports, backups, job and cache libraries,
connection pools, screens and packaging, which are input and output, third-party or
generated. `PROJECT.json` lists each with its sources.

## 7. Plan

What would come next, the most consequential first:

1. Transfers, merges and splits as further events of `CheckReplay`, with a second table,
   and the service worker as a second sender.
2. `Allocation`: supplier payments, customer receipts and deposits over open documents.
3. `TableLocks` and `RegisterSession`: small modules of locks and unique indexes with
   aborted transactions.
4. `PrintJobs` and `NotificationOutbox`: claims, reclaims and crashes of the two
   outboxes, beside the bank retry worker. A claimed notification event is PROCESSING and
   only PENDING or FAILED ones can be claimed (`notificationRepository.ts:157`).
5. Journal approval as further actions of `PeriodBalance`, whose three runs can become two.

Every safety property of the modules above is a theorem already.

## 8. Running it

    tlc -workers 2 -config ClaimFaults.cfg MCIdempotencyClaim
    tlc -workers 2 -config BalanceFaults.cfg MCPeriodBalance
    tlc -workers 2 -config LedgerOverlaps.cfg MCJournalLedger
    tlc -workers 2 -config SyncFaults.cfg MCOfflineSync
    tlc -workers 2 -config ReplayOverlaps.cfg MCCheckReplay
    tlc -workers 2 -config StockOverlaps.cfg MCFefoStock
    tlc -workers 2 -config CouplingOverlaps.cfg MCInventoryCoupling
    tlc -workers 2 -config CustomersOffline.cfg MCOfflineCustomers
    tlapm IdempotencyClaimProofs.tla      # and the other seven Proofs modules

Every configuration finishes within minutes on two cores. The proofs were checked with
tlapm 1.4.5 (Z3, Zenon, LS4).
