# Verification project for TJSys

TLA+ modules, TLC runs and TLAPS proofs about the core of TJSys: a multi-tenant
ERP backend (Django, PostgreSQL, Celery), its point of sale (PDV; Electron) and
its web front end (React, TanStack Query). This file says what the system
consists of, what is modelled and how, what the runs and the proofs show, and
what is left.

Contents: 1 the system · 2 the modules · 3 the runs · 4 the proofs ·
5 divergences between code and documents · 6 what is not modelled · 7 the plan ·
8 how to run.

## 1. The system

### Components

| Component | State it keeps | Operations | Hard behaviour | What makes it correct |
|---|---|---|---|---|
| Counter sales and compensation (`backend/sales/services.py`) | sales, items, payments, returns, refunds, cancellations, each with an idempotency key | counter sale, return, refund, cancellation | commands of one sale race; retries with used keys; the session closes meanwhile | nobody gets back more than was paid or returns more than was sold; a cancelled sale is compensated exactly; keys act once |
| Cash session (same file) | one row per operator and branch: status, expected and closing amount; movements | open, close, the sale's and refund's updates | the row is read without a lock and saved later; closing sums in several statements | a closed session stays closed, cash leaves only an open one, a closing invents no shortage |
| Stock operations (`backend/inventory/services/operations.py`) | operations by key, movements, balance rows, reservations, policies | receipt, issue, adjustment, transfer, reversal, reserve, release | duplicate keys, first movement of a product, failures after the insert, competing reversals | balances are the sum of movements; operations happen once and whole; reservations are covered |
| Outbox (`backend/outbox/`) | messages, deliveries, retry counts | store, process, record a failure, retry | overlapping and lost tasks, a failure recorded after a publication | an effect comes with the delivery, and once; every message ends |
| Kit decomposition (`backend/inventory/kit_decomposition.py`) | operations, movements and balances of components | handler of `sales.sale.confirmed` | runs inside the outbox's transaction, checks shortages without a lock | the components of a kit leave stock once |
| PDV synchronisation (`pdv/src/main`: `syncEngine`, `operationJournal`, `ipc/sale`) | append-only journal with projections, connectivity, engine | sale, queue, batch, per-event sync | requests and answers are lost or late, restarts, ten attempts | a journaled sale is made once and never called synced without a sale |
| PDV journal migration (`journalMigration.ts`) | lock file, snapshot of the legacy journal, phase, copied rows | every start migrates, several processes may start | kills between two phases, a lock left behind, two migrations at once | an activated journal has every row that was there to copy; what was settled stays so; killed processes do not shut later ones out |
| PDV contingency policy (`contingencyPolicy.ts`) | trusted anchor, price cache stamps | record an anchor, judge an offline sale | late answers, clocks set back, sleep, restarts, revocations | a revocation bites within the window; old prices are refused; change is cash |
| PDV device session (`AuthContext.tsx`, `ipc/auth.ts`, `api.ts`) | credentials of the page and of the main process | login, check, logout, refresh, revocation | credentials pass by messages nobody waits for; a refresh fails late | no command runs as a device that was not logged in on its page |
| PDV catalogue cache (`catalogCache.ts`) | a database per tenant, an epoch | lookup, refresh page by page | lookups and logins between two pages | no refresh stores rows across a lookup for another tenant |
| PDV sale and cash pages (`Sale.tsx`, `CashSession.tsx`) | cart, payments, the session shown | edit, submit, open, close | old prices, lost and late answers, edits while processing | the page tells what happened, and a sale is made once |
| Web cache and forms (`frontend/src`, the `*Api.ts` modules, `TenantProvider`) | query cache per tenant and filter, forms and their keys | fetch, change, switch tenant, log out | answers overtake each other, the tenant switches under them, answers are lost | a fresh list shows what its user was told; a change sent again is made again only under a new key |
| Web list pages | filters, page, answer | filter, turn pages | rows go away under page three | the whole list can be seen; no error of the page's own making |
| PDV ingestion (`backend/pdv/services/sync_batches.py`) | batches, events, conflicts | ingest a batch | replays and sequence gaps | an event is stored once (no effect is applied yet) |
| Purchasing (`backend/purchasing/services.py`) | orders, receipts, returns, cancellations | approve, receive, cancel, return, recurring orders | stock and payables change with the receipt; only some commands lock | no more is received than ordered, none given back twice |
| Financial (`backend/financial/services.py`) | payables, receivables, settlements, cash flow | create, settle, sale effects | settlements read the balance without a lock | obligations are settled once |
| Payments (`backend/payments/services.py`) | intents, transactions, webhook events, reconciliation batches | intent, capture, webhook, reconciliation | repeated captures and webhooks | one capture per intent |
| Fiscal (`backend/fiscal/`) | fiscal documents | emit, poll, webhook | three writers of one document, timeouts | a document is emitted once and a conclusion is final |
| Product stock control (`backend/inventory/services/product_stock.py`) | policies and control commands | initial stock, deactivate, reactivate | races with movements | no active stock without control |
| Tenancy, accounts, catalog, people, CRM, e-commerce, platform administration, audit, monitoring (backends) | rows of their own | mostly one-row edits | row-level security is the database's | — |
| Shells, login and landing pages, deployment | none of the business | windows, routes, containers | — | — |

### How they interact

Every tenant request runs inside one database transaction that the tenant
middleware opens (`config/tenant_middleware.py:65`); the services open
savepoints inside it. REST framework turns a service's exception into an answer
without rolling the outer transaction back unless the exception left an
`atomic` block. This decides what a failing stock operation leaves behind, and
the models of stock follow it.

A counter sale calls the stock services once per line, inserts the movement of
the cash session, an audit record and an outbox message in one transaction.
Returns and cancellations call them again with keys derived from their own. A
Celery task processes the outbox message; its handler decomposes kits through
the stock services, in the task's transaction. Nothing in the code sends
`process_outbox` for a stored message: sending it is an external action of the
model.

The PDV's pages run in a renderer, its services in the main process; they talk
by messages. The till posts sales to the backend with an idempotency key and,
without a connection, journals them for the synchronisation engine if the
contingency policy allows it. Before the journal is opened, each start of the
application migrates it. Every answer of the backend may leave a trusted
anchor, by which the policy measures how long ago the server was heard.

The web front end asks through the functions of its `*Api.ts` modules; answers
go into the query cache, under keys that begin with the tenant, and a form that
succeeds tells ("invalidates") the lists it changed by the first word of their
keys. All pages share one cache.

Concurrency in the backend is that of PostgreSQL at READ COMMITTED: each
statement sees what was committed, `SELECT ... FOR UPDATE` waits and re-reads, a
unique constraint makes the second insert wait and then fail, and an insert with
a foreign key takes a KEY SHARE lock on the referenced row.

## 2. The modules

| Module | Models | Main state → code | Actions → code |
|---|---|---|---|
| `SaleCompensation` | sales and everything done to them afterwards | `status`, `origin`, `cart` → `Sale`, items and payments; `returned`, `refunded`, `restocked`, `stockOps` → returns, refunds, stock receipts; `returnOf`, `refundOf`, `cancelOf` → idempotency keys | `BeginSale`/`CommitSale`/`AbortSale` → `create_counter_sale`; `CreateSaleReturn`, `CreateSaleRefund`, `CancelSale` → the functions of those names; `ReverseIssue` → `reverse_operation` called by inventory; `OpenSession`, `CloseSession` |
| `CompensationContract` | what compensation promises, abstractly | worth, goods, paid back, taken back | `Confirm`, `PayBack`, `TakeBack`, `Cancel` |
| `CashDrawer` | one cash session, statement by statement | `drawer` → the row; `seen` → the copy that a sale, refund or cancellation holds; `payout` → what holds the row's lock; `ledger` → sums of movements and confirmed sales; `closer`, `figure` → a closing in progress | `ReadDrawer`, `InsertSale`, `CommitSale` → the three places where a sale touches the row; `LockForRefund`, `RefundCash`, `LockForCancellation`, `CancelSale`, `CancelWithoutCash`, `ReleaseDrawer` → lock and write of a payout, in two steps; `FetchDrawer`, `SumSales`, `SumCashOuts`, `CloseDrawer` → the queries of `close_cash_session` |
| `StockLedger` | the stock services under READ COMMITTED | `balance` → the balance rows of a cell (a sequence: there may be two); `status`, `command`, `moved`, `applied` → operations and their movements; `torn` → keys stored without a movement, and of their reversals; `phase`, `inserted`, `plan` → transactions in progress | `Lookup`, `Insert`, `Move`, `Refuse`, `Commit`, `Abort` → the statements of an operation; `Begin` → the test that opens a reversal; `Reserve`, `Release`, `SetPolicy` |
| `StockBook` | what the stock services promise | operations and stock on hand | `Post`, `Undo` |
| `Outbox` | the life of messages and tasks, for any handler | `status`, `retryCount`, `delivered` → messages and deliveries; `phase`, `attempt` → tasks | `Begin`, `Skip`, `LookupFails`, `Publish`, `HandlerFails`, `RecordFailure` → `process_outbox`; `Enqueue`, `Lose` → broker and worker |
| `KitDecomposition` | extends `Outbox` with the consumer of confirmed sales | `stock`, `moved` → committed balances and movements; `left`, `line`, `drawn`, `taken` → what the handler has done in its transaction | `Consume`, `Ignore`, `CheckLine`, `IssueLine` → the handler; `Complete`, `Rollback`, `Die` compose it with the outbox |
| `PdvSync` | the sale handler and the synchronisation of the PDV | `asked` → the handler; `entry` → projection of the journal; `engine`, `todo`, `current`, `attempt` → the run; `late` → requests still on the way; `sales` → rows of the backend by key | `Ask`, `Hear`, `GiveUp`, `Queue` → `sale:create`; `FindNothing` … `RunOut` → `sync`, `syncBatch`, `processEntry`; `Restart`, `Disconnect`, `Reconnect`, `ServeLate` |
| `JournalMigration` | the journal's move to its third schema, by several processes | `files` → legacy journal and lock file; `snapshot` → the frozen copy; `phase` → `journal_migrations`; `proj` → each row's projection; `pc`, `seen` → the processes | `Work` → one recorded phase, or one step of it, at a time; `CopyFails` → the copy that a clash of two rows makes throw; `Start`, `Quit`, `Crash`; `Synchronise` → a working application settles a row; `RemoveLegacy` → the legacy file goes away, at any moment |
| `Contingency` | the judgement of an offline sale | `now`, `mono`, `slept`, `offset`, `boot` → true time and the machine's clocks; `answers` → on the way; `anchor`, price stamps; `revoked` → the backend; `sale` → what was queued | answers, logins, revocations, ticks, sleep, clock settings, restarts; the offline sale → `evaluateOfflineSale`, `calculateSaleTotal`, `validatePayments` |
| `DeviceSession` | who the point of sale is, in both processes, and the catalogue | `local`, `asked` → the page's storage; `messages` → IPC; `store`, `command`, `failing` → the main process, with the command it is at and the logins of its page since; `db`, `run` → the catalogue and its refresh | `AskLogin`, `Accept`, `Reject`, `Unanswered`, `Logout`, `Call`, `Handle`, `Resume` → `AuthContext` and `ipc` (a command reads the store when it begins and again at its answer); `Unauthorized`, `RefreshFails` → `api.ts`; `Lookup`, `BeginRefresh`, `ReadPage`, `ReadPrices`, `WriteSnapshot`, `Discard` → `catalogCache` |
| `Till` | the sale page and the session it shows, against the backend | `cart`, `payments`, `waiting` → the page; `requests`, `answer` → on the way; `prices`, `sales`, `opened`, `isOpen` → the backend; `shown`, `reads` → `CashSessionContext` | `Select`, `Quantity`, discounts and payments, `Submit`, `HandleSale` (made or refused, for any reason), answers and their loss; reading, opening and closing the session |
| `WebApi` | the API functions of the web pages: what each reads or changes and how it fails | pure | — |
| `WebPages` | every page's queries (root of the key, request, what the key holds) and forms (request, lists told, whether it locks, keeps its key, stays open) | pure | — |
| `WebClient` | the cache and the requests under any pair of a form and a query it writes | `cache`, `fetch`, `overtaken` → the query cache; `tenant`, `switches` → `TenantProvider`; `shown`, `choice` → the page; `open`, `opening`, `intent`, `requests` → the form and what it has sent | fetching, answering, cancelling and invalidating; opening and closing pages and forms; sending, handling, losing and telling a request; `SelectTenant`, logout |
| `WebLists` | what each list page lets its user do | `list` → the page; `rows` → the server; `choice`, `page`, `held`, `failed` → the page's state | `Load`, `Refetch`, `Fail`, `TurnOn`, `TurnBack`, `Choose`, `Reopen` |
| `MC…` | instances for TLC | | |
| `Sums` | lemmas on sums over finite sets, for the proofs | | |
| `…Proofs` | the theorems: `PdvProofs` about `PdvSync`, `JournalMigration` and `Contingency`, `PagesProofs` about `DeviceSession`, `Till` and `WebLists`, the others about the module they are named after | | |

Definitions that a comment marks with `Mutant:`, each just before the
definition it resembles, are plausible bugs of that definition. They are in no
specification; replacing a definition by its faulty twin must make TLC find the
property that guards it violated, which shows that each property depends on the
code. `PROJECT.json` lists the pairs under `mutants`.

Choices that hold for all modules:

* **Amounts** are integers (cents, base units). Rounding happens before anything
  is stored and is left out.
* **Grain.** A command that locks the row its decision depends on, before it
  reads it, is one action, taken at its commit: other transactions cannot see or
  disturb what is in between. Where the code reads without a lock (counter sale
  and closing on the cash session, key lookups and reversals in stock, shortages
  of kits) the reads and the writes are different actions. In the PDV and the
  web client every `await` and every callback ends an action.
* **Crashes.** A transaction that does not commit leaves nothing, so a crash of
  the backend is the abort action that every unfinished request has. The PDV's
  journal, lock file, snapshot and stored credentials are on disk and the rest
  of its state is not; `Restart` and `Crash` keep the one and reset the other. A
  Celery task is acknowledged when it is taken, so that a dead worker loses it
  (`Lose`).
* **Tables.** The web pages differ in a few answers only: which key a query
  has, what it sends, which lists a form tells. `WebApi`, `WebPages` and the
  upper half of `WebLists` write these answers down, one short definition for
  each function or page; the machinery below them, which all pages share, is the
  state machine, and its first state chooses any entry (or pair of entries).

## 3. The runs

| Run | Instance | Shows |
|---|---|---|
| `sale_compensation` | two sales of two kinds of cart over two sessions; two refund keys, and two keys that a client may use for a return, for a cancellation or for both | a cancelled sale is compensated exactly (`CancelledIsCompensated`), one command has each effect (`EffectsHaveOneKey`), what is in stock again of a tracked line is what was returned or cancelled, less only where two commands shared a key (`StockFollowsCompensation`), the abstract contract is implemented (`HonoursContract`) |
| `cash_drawer` | a sale paid with cash and by card and one by card only, two closings, three requests at a time; a payout locks in one step and writes in another | a closed session stays closed (`NeverReopens`), cash leaves only an open one, although a closing may run between the check and the payout (`CashOutNeedsOpenDrawer`), a closing that overlaps anything expects no more than there is (`NoShortageInvented`) |
| `stock_ledger` | one cell with a lot and one without, policies that may be withdrawn; a receipt, an issue and its retry, none of them atomic (as the API sends them); a transfer and two competing reversals in savepoints | balances are the sum of the movements, with two rows too (`Reconciled`), reservations are covered (`StockCovers`), a reversal cancels what it reverses, but for torn operations (`ReversalCancels`), the cell with a lot has one row (`OneRow`), and all operations but the torn ones implement the book (`HonoursBook`) |
| `kit_outbox` | three messages (two kits, one kit, no handler), four tasks, two of them of the message with two kits, one losable | at most one issue per message and line (`IssuedOnce`), of exactly one kit and exactly with the delivery (`EffectIsDelivered`), stock adds up (`StockReconciled`); tasks bring their messages to an end (`TasksSettle`) |
| `pdv_sync` | two purchases, one restart, two attempts, batches of one | a journaled event has at most one sale (`OneSalePerEvent`), one if it is synced (`SyncedIsSold`); outcomes are final (`SettledForGood`); runs end (`RunsEnd`) |
| `pdv_two_sales` | same | violation: one purchase becomes two sales (section 5) |
| `journal_migration` | two processes, three rows of different standing of which two clash, every subset of them, two kills, the legacy file removable at any moment | an activated journal has every row, unless the file went before they were copied (`NothingLost`), nothing settled or without an identity is pending (`SetAside`), what was synchronised stays so (`SyncedStays`), a start succeeds in the end, unless rows clash or the snapshot is torn (`Recovers`) |
| `contingency` | two devices and the operator, two answers on the way, window 1, price age 1, delay 1, two boots, a clock that is right or ahead, horizon 3 | a revocation stops offline sales within the window and the lag (`RevocationBites`), old or ended prices are refused, up to the error of the clock that stamped them (`PriceHolds`), change comes out of cash (`ChangeIsCash`) |
| `device_session` | two devices of two tenants, two pages of catalogue, two messages, one restart | a command finds the credentials of its page, or of a login that followed on it, from its request to its answer (`OwnCredentials`); a refresh that writes had no lookup for another tenant, and rows of another only after a login (`OwnRows`); the main process follows the page (`MainFollows`) |
| `till` | one product, quantities and prices up to two, two requests, one session, answers late or lost, refusals for any reason | what the page shows as confirmed was sold, and what it shows as refused was not (`AsTold`); what is on the page is sold once unless an answer was given up (`OneSaleEach`) |
| `web_client` | every kind of pair of a form and a query it writes, two tenants, two settings of the filters, two requests, two moves | a fresh list has what a form was told (`Refreshed`); a change is made once under a kept key and, behind a locked button, at most once more than there were answers lost (`OneEffect`) |
| `web_lists` | every list page, one filter, up to three pages of two rows, one change, one fault | on the lists paged by number whose buttons turn pages, a user who looks for a row comes to the end (`EndIsReached`; the catalogue's lists, paged by a cursor, stay on page one and are outside it); no list breaks on its own (`ErrorHasCause`) |

More configurations are kept for use by hand. Each states what a document, a
test or plain sense asks and the code does not do, and TLC finds it violated; the
divergences are those of section 5.

| Configuration | Violated by what the code does |
|---|---|
| `MCSale_service.cfg` | `ServicesKeepNoStock`: a returned service line creates stock |
| `MCSale_shared_key.cfg` | `StockTakesAllBack`: a return and a cancellation under one key give back less than they owe |
| `MCCashDrawer_lost_update.cfg` | `RunningExpected`: two sales at once, and one amount is lost |
| `MCCashDrawer_cancelled.cfg` | `ClosesOnContents`: a closing that nothing overlaps expects too little after a cancelled cash sale |
| `MCCashDrawer_two_closings.cfg` | `ClosedOnce`: two closings, two differences |
| `MCStock_torn.cfg` | `EveryReversalCancels` (stored without its movement, reversed, written by the retry), `AppliedOnceEach` (two retries both write), `OneRowEach` (two first movements without a lot) |
| `MCKit_second_kit.cfg` | `AllKitsIssued`: the second kit of a sale is never decomposed |
| `MCPdv_stranded.cfg` | `NoneStranded`: an entry stays `syncing` |
| `MCMigration_lost.cfg` | `SnapshotServes` (an empty schema is activated beside a whole snapshot) and `AlwaysRecovers` (a start that fails every time) |
| `MCDeviceSession_switch.cfg` | `PageCredentials` (a command is answered under the credentials of a later login) and `TenantRows` (a tenant's catalogue gets rows of another) |
| `MCWebClient_plans.cfg` | `OneKeyPerSubmission` (a form sends its change again under a new key), `OwnTenant` (an answer is put into the list of another tenant) |

TLC stops at the first violation; to see the other one of a file, take the first
out. Type invariants are proved for all instances (section 4), and were checked by
TLC before; `device_session` checks its own in its run.

### Bounds and why they are enough

* *Sales.* `MixedCart` has two refundable methods and a line of two units next
  to a line of an untracked product, `CardCart` a method that cannot be
  refunded: partial returns, partial refunds by several methods, uncancellable
  sales and services all occur. Two sessions are needed for a sale whose session
  closed while another is open. There are two keys for refunds and two that serve
  returns and cancellations alike: a retry, two competing returns, two competing
  cancellations and a return and a cancellation under one key all happen.
  Commands of different sales meet only in keys and sessions, so two sales
  suffice. The keys are symmetric; no liveness is checked.
* *Drawer.* One sale has cash to pay back at its cancellation and one has none; either
  may be refunded in cash. Two closings may overlap, and a sale, a payout and a closing need three
  requests at once (`AtOnce`); the proofs have no such limit.
* *Stock.* Two cells for a transfer; the receipt and the transfer race for the
  first row of the cell without a lot, the transfer and the issue for that of the
  cell with one; the issue has a retry, and two reversals under different keys.
  `MCStock_torn.cfg` has a second retry in place of the second reversal: two
  retries that run together are what writes a torn operation twice. `Holds = {1}`
  against a balance of at most two makes reservations compete. Both cells may go
  negative (`Lenient`) until the policy is withdrawn.
* *Outbox.* Two tasks of one message overlap, a third message has no handler.
  `MaxRetries` and `DeadAfter` are 2 and 2 where the code has 3 and 3: what
  matters is their relation and that one task alone reaches the limit, and the
  proofs have no bound. `MaxStock` bounds the receipts.
* *PDV.* `MaxAttempts` is 2 of 10 and `MaxBatch` 1 of 50, so that the last
  attempt and a batch smaller than the snapshot happen; the proofs have no such
  bound. `MaxRestarts = 1`. `BatchAnswered` is TRUE in the passing run, so that
  both answers of the batch are possible, and FALSE in the others: with the
  default base URL, which ends in `/api/v1`, the client's path
  `/api/v1/pdv/sync-batches/` does not exist.
* *Migration.* Two processes are what it takes to migrate at once, and a third
  start after one of them quits is the same process again. Three rows: a pending
  sale and a settled one that claim one place (`place` stands for the sequence
  and the key of a device, which the target wants unique), and one without
  identity; the journal is any subset of them, so that clashes do and do not
  happen. Two kills put one in the phase that repairs the other.
* *Contingency.* One unit of time stands for the window, the age of a price and
  the longest request alike, so that horizon 3 reaches the other side of each
  limit. Two answers overtake each other. The state constraint `Bounded` stops
  behind a queued sale, which nothing later changes, and at a second revocation,
  which forbids no less; it lets a second answer or a second device come into play
  only where the process has not restarted, the machine has not slept and the
  clock is right, since a run with both would not end in time. The proofs have no
  such bound, and no constraint.
* *Device session.* Two devices of two tenants; two pages give a point between
  two pages, where a login or a lookup of the other tenant comes; two messages give
  a credential with a command behind it. A check of the stored key and a login may
  be under way together; two logins may not, since the login page's button is
  disabled while it waits. One command waits at a time. Tokens expire at any
  request.
* *Till.* A price that rises and one that falls, two requests for a repetition,
  one session that closes while the page shows it.
* *Web.* `kind` ranges over the pairs of the tables, reduced to what the machinery
  can tell apart. Two requests make a repetition, two moves a switch of tenants
  and back, two settings an answer for the wrong one. The tenants and the
  settings are symmetric; no liveness is checked there.
* *Lists.* Sizes 0, 1, 3 and 5 against a page of 2 are no page, one, two and three;
  one change takes rows from under the page; one fault is one failed request.

Deadlock checking is off where keys, tasks, requests or time are finite and a
system that has used them all may stop; `journal_migration` and `device_session`
are checked for deadlock too.

### Fairness

Safety runs assume none. Five runs check liveness:

* `kit_outbox` uses weak fairness of *some* task step being taken. It is the
  least a live worker does: it runs the tasks it has, in any order. Lost tasks
  take no step, and losing one is never fair. Weak fairness of the disjunction,
  not of each task, suffices because tasks and retries are finite.
* `pdv_sync` uses weak fairness of the engine's step: a request is answered or
  times out (axios has a timeout), a backoff timer fires, an `await` returns.
  Nothing is assumed of users, network or backend. `RunsEnd` therefore also
  covers a connection that never comes back.
* `journal_migration` assumes that a started application goes on (the migration
  is synchronous code), that a failed start quits, and that somebody starts the
  application again. Kills are bounded and never fair. `Recovers` excepts a journal with
  clashing rows and a snapshot that is torn behind its recorded phase, which no
  later start repairs (section 5).
* `device_session` assumes that the main process takes the next message.
  Nothing is assumed of the user, the backend or the network.
* `web_lists` assumes that a request ends, with an answer or an error, and that
  the user of `EndIsReached`, who looks for a row, goes on turning pages and
  clears the filters: the property is about what the page makes possible.

## 4. The proofs

All theorems are for every value of the constants that satisfies the named
assumptions (finite sets where the code has finite sets, types of the
parameters); TLC evaluates the assumptions in every run.

| Module | Theorem | Statement |
|---|---|---|
| `Sums` | (lemmas) | the sum over a finite set, what a change of one entry does to it, monotony |
| `SaleCompensationProofs` | `TypeCorrect` | type invariant |
| | `CompensationCorrect` | refunds within the total, returns within what was sold, cancelled sales exactly compensated |
| | `OneKeyPerEffect` | a sale is cancelled by one command, and returned quantities have a return command |
| | `FactsAreCompensated` | what was sold, returned and refunded is never rewritten |
| | `StockCorrect` | stock of tracked lines follows compensation, whatever keys clients use |
| | `ImplementsContract` | refinement of `CompensationContract` |
| `CashDrawerProofs` | `TypeCorrect`, `ClosedForGood`, `CashNeedsOpenDrawer`, `ShortagesAreReal` | for any number of overlapping requests: types, a closed session stays closed, cash leaves only an open one, no closing expects more than there is |
| `StockLedgerProofs` | `TypeCorrect`, `OneReversal`, `StockIsCovered`, `BooksBalance` | for atomic and other requests, with lots or without: types, one reversal of an operation, reservations covered, balances are the sum of the movements |
| | `WholeOperations` | every operation but the torn ones is applied once and whole, and its reversal cancels it, whatever mix of atomic and other requests |
| | `RowsCorrect` | one row per cell with a lot, whatever cells without one do beside it |
| | `ImplementsBook` | refinement of `StockBook` by all operations but the torn ones |
| `KitDecompositionProofs` | `TypeCorrect`, `OutboxCorrect`, `DeadForGood` | types, dead letters at the limit and for good, published means delivered |
| | `EffectOnce`, `EffectWithDelivery` | a line's components leave stock once; exactly one kit's leave it, with the delivery, however many the sale has |
| | `BalancesReconciled` | stock is what was there and was received, less what was issued |
| `PdvProofs` | `JournalTypeCorrect`, `SettledStays`, `EventsSound`, `SyncedSound` | the journal and the backend's sales: outcomes are final, one sale per event at most, and exactly one for a synced one |
| | `MigrationTypeCorrect`, `NothingTakenBack`, `SetAsideStays` | for any number of processes, rows and kills |
| | `CompleteWhenActive` | an activated journal is complete, unless the legacy file went before its rows were copied |
| | `PolicyTypeCorrect`, `RevocationSound`, `ChangeCorrect` | for any devices, answers under way, window, delay, clock settings and restarts |
| | `PriceSound` | the price is young, up to what the clock that stamped it was ahead, and valid |
| `PagesProofs` | `TypeCorrect`, `CredentialsApart`, `RowsApart` | for any devices, messages, pages of catalogue, restarts and switches of tenant, and for commands that read the store twice |
| | `TillTypeCorrect`, `ToldAsSold`, `OneSalePerRound` | for any products, prices, payments, refusals and requests |
| | `ErrorsAreCaused` | a list page shows an error only after a failed request or when rows went away |
| `WebClientProofs` | `TypeCorrect`, `FreshListsShowChanges`, `IntentsMadeOnce` | for all pages and any number of tenants, settings, requests and moves |

Each safety property of a passing run is the statement of one of these theorems,
or a part of one.

The assumptions are those of the code: the products of a till, the sales and
requests on a drawer, the keys of the stock services, the messages and lines of the outbox
are finitely many, because sums range over them; a list has a largest size.
No theorem has conditions beyond them.

### The inductive invariants

* `CompensationInv`: a sale is untouched before it is confirmed; a confirmed one
  is within its limits; a cancelled one is fully compensated. The limits alone
  are not inductive, because a cancellation refunds what is left of *each
  method*, and needs that none is already below zero.
* `StockInv` adds that every stored stock receipt belongs to a key that some command
  ran with. So a command with a key of its own finds none of its receipts stored
  and moves all it owes; one that shares its key may find some and moves less,
  never more.
* `LockInv` (drawer): while a sale, refund or cancellation holds the row's lock the
  session is open; this is what keeps a closing, whose update waits for the lock,
  from coming between check and payout. `LedgerInv` adds that the totals of the
  ledger are the sums of what each sale contributes, and that the figure of a
  closing that has summed the sales is no more than was paid in by then
  (`FiguresCovered`): the cash outs it sums afterwards only make it smaller.
* `KeyInv`: an inserted operation is alone under its key and its key is not yet
  stored; a stored reversal has an original with status reversed. Together with
  the two unique constraints this gives `ReversedOnce` although the tests that
  precede the insert are stale.
* `WholeInv` says where torn operations stay: a request that writes the movements
  of an operation it found stored writes for a torn one, and so does the reversal
  of a torn one; every other stored operation is applied once, and its plan's delta
  is that of its command.
* `RowInv`: in a cell with a lot, plans that hold locks agree with the row they will
  write and are apart from each other. `CoverInv` is its counterpart without lots,
  where two plans may insert the same row.
* `BooksInv`: what a transaction is about to write into a balance row is that
  row's current quantity and its own movement (`NextIsCurrent`). It holds because
  a plan holds the locks of the rows that it read.
* `LockInv`: one task handles a message, and the message is open while it does;
  a task outside its transaction has drawn nothing.
* `EffectInv` (kits): what a task has drawn is of its message and fresh, and a visited
  line is issued or covered by the message's key. This is why a message that
  reopens after its publication (a failure recorded late) issues nothing again:
  the handler runs a second time, and finds the key.
  `OneLineInv`: a task draws one line, and a message has the issues of one line.
* `StockInv` (kits): what a task has taken from the balances is the sum of the
  lines it has drawn (`TakenIsDrawn`), and it has checked what it draws
  (`ChecksFirst`); so a commit moves as much in the balances as in the movements.
* `JournalInv`: the entry the engine waits for is `syncing` and not in the
  snapshot any more, and the snapshot holds no settled entry. `SalesInv`: one
  sale per key, and a synced entry has its sale.
* `CompleteInv` (migration): a recorded phase past the copy means that every row of
  the legacy is copied or that the file went early; a process between its copy and
  the activation has copied every row. The phase a process has read may be older
  than the recorded one, and the recorded one may go back; that a copy never takes
  a row back is why this does no harm.
* `PolicyInv` (contingency): an anchor's standing was true when the server sent it, its
  monotonic reading was taken at most one request after that, and the anchor's
  boot tells whether the two may be compared; all this of each answer under way, in
  whatever order they come. From these, the elapsed time that
  the policy computes is at most `Lag` short of the true one.
* `RunFollows` (device session): a refresh of the catalogue whose database is still
  the open one has had no lookup for another tenant, and the tenants it has read,
  as the one in the store, are its own or logged in since.
  `MessagesFollow`: when the main process comes to a command in its queue, the last
  login passed on before it is that of the command's page; or none was, and the
  store has that device already, or nobody, or a login was lost with the process.
  The same holds of the next command that the page may send.
* `RoundsInv` (till): keys are used once (`Known`, `Keyed`); a request or a sale of
  the round on the page is the one that the page waits for, unless an answer of
  that round was given up (`RequestRounds`, `SaleRounds`). `Told`: every round that
  the page counts as confirmed has a sale, and so has the one whose answer is there.
* `Caused` (lists): without faults and without lost rows no key has failed, no count
  held is above what the server has, and the page asked for has a row.
* `SentUndone`, `Waiting`, `KeptOnce` (web): a request that is sent has no effect
  yet, a locked form awaits one request, and requests under one kept key have one
  effect among them. `ToldMade`: whoever was told has an effect, perhaps that of an
  earlier request under the same key. `FetchedIsStale`: nothing is fetched under
  a key whose data counts as fresh. `AnswersKnow`: an answer under way that no
  telling overtook has the rows that the forms know of.

Each proof shows that the initial state satisfies the invariant, that every
action preserves it (one step per action), and that it implies the property;
the temporal step is left to LS4.

The library's induction theorems take an operator as a parameter, which the
installed provers cannot instantiate. `Sums` therefore argues by a least
counterexample: among the subsets of a finite set for which a fact about sums
fails there is one of least cardinality; it is not empty, and without one
of its elements the fact holds.

`WebClientProofs` speaks of all sets of queries and all forms of `WebPages`.
What the machinery needs of them are two facts about finite tables, and both are
proved. Forms that keep a key make their change in one request (`KeptAtOnce`):
entry by entry. Every form reaches each query it writes, or `Unreached` names the
pair (`EachAccounted`): this compares every form with every query. The proof first
says which rows the queries under each root read (`QueriesRead`), and then goes
through the forms once: a form tells every root whose queries read what it
writes, or it is listed for the root, or it puts its answer there itself. The fact
is not assumed anywhere, so that a form that forgets a list is found as a
violation of `Refreshed`. `Unreached` is a list of defects, not of excuses: each
pair in it is a refresh that the code lacks, and section 5 gives those that a
document asks for.

### Only model-checked

Liveness: `TasksSettle`, `RunsEnd`, `Recovers`, `MainFollows` and `EndIsReached`. The
provers cannot treat fairness, which is defined with ENABLED, nor the induction
over a decreasing measure that these properties rest on. The refinements of the
abstract specifications are proved for their safety, which is all that they
state.

## 5. Divergences between code and documents

With a run (see `findings` in `PROJECT.json`): `pdv_two_sales`. The handler's
request and the journaled sale have different keys, so that one purchase may be
sold twice; "Retry não duplica venda" says `docs/07_Testing/TEST_CATALOG.md:7`. The finding
is one of the handlers: today `Sale.tsx:269-274` sends no `cash_session_id`, so that
`evaluateOfflineSale` (`contingencyPolicy.ts:194`) refuses every queue, and no
sale reaches the journal from that page.

With a configuration to run by hand:

* `MCSale_service.cfg`: a returned service line creates stock (`services.py:632-633`
  has no `tracks_inventory` test, unlike the cancellation); "Serviços não poderão
  controlar estoque." says
  `docs/superpowers/specs/2026-08-01-product-inventory-control-and-editor-persistence-design.md:28`.
* `MCSale_shared_key.cfg`: a return and a cancellation that carry the same client
  key share the keys of their stock receipts, and the second may move nothing; the
  code keeps the keys unique within each command only.
* `MCCashDrawer_cancelled.cfg`: after a cancelled cash sale the closing leaves the
  sale out and subtracts its refund, so it expects less than the session holds
  (`test_sales_cancellations_services.py:641` has the opening amount).
* `MCCashDrawer_two_closings.cfg`: two overlapping requests close one session, with
  two adjustments.
* `MCCashDrawer_lost_update.cfg`: concurrent sales of one session lose an expected
  amount; `backend/tests/test_sales_compensation_concurrency.py:374` asserts the
  sum.
* `MCStock_torn.cfg`: a stock operation sent to the API is stored without a
  movement when the balance does not suffice (`operations.py:357`); a later retry
  writes it, two concurrent retries both write it, and if it was reversed meanwhile,
  the retry still moves stock. Two balance rows for one cell, because the unique constraint contains
  a nullable lot; from then on every movement of the product fails. "constraint
  única representa uma linha de saldo por dimensão"
  (`docs/superpowers/specs/2026-07-14-sprint-3-inventory-design.md:71`).
* `MCKit_second_kit.cfg`: the idempotency key names the message and not the line;
  "vender um kit gera exatamente um StockMovement de saída por componente"
  (`docs/superpowers/specs/2026-07-24-sprint-23-kit-composition-design.md:152`).
* `MCPdv_stranded.cfg`: entries left as `syncing` by a restart, by a connection
  lost between the batch and the fallback, or by ten unsuccessful attempts;
  "Journal recupera operação pendente"
  (`docs/04_Requirements/SRS-001_System_Requirements_v0.1.0.md:36`).
* `MCMigration_lost.cfg`: only a start that reads the phase `backup_created` goes
  back to the snapshot when the legacy file is gone; one that reads none, or
  `schema_created`, activates an empty schema (`journalMigration.ts:59-65`), where
  `journalMigration.test.ts:89` has "replay resumes from the stored snapshot".
  Two rows with one sequence or key (`journalV3.ts:75-76`), or a snapshot that a
  killed process left half written behind the phase another one recorded, make
  every later start throw (`journalMigration.ts:102-107`, 176), where
  `journalMigration.test.ts:63` has "when retried, then activates".
* `MCDeviceSession_switch.cfg`: a command rereads the device and the tenant at its
  answer (`sale.ts:36-38`, `offlineSaleService.ts:57-59`), so that a login in between
  mixes the two; pages of a refresh are asked for with the credentials of the
  moment, so that a catalogue may store another tenant's rows
  (`catalogCache.ts:224-231`), where `catalogCache.test.ts:157` wants tenants
  isolated.
* `MCWebClient_plans.cfg`: `SuppliersPage.tsx:35`, `PurchaseOrderEditor.tsx:140` and
  `SettlementDialog.tsx:41`, among others, make a new key for each attempt, so that a
  retry by hand after a lost answer is a second change; "generate UUID v4 once per
  user submission and preserve it across manual retry" says the sprint 18 plan
  (line 22). The quick-create dialogs (`CategoryQuickCreateModal.tsx:20-29`) put
  their answer into the list of the tenant selected by then.

Seen while modelling, without a run of their own:

Sales, stock, outbox

* A sale commits into a session that was closed after it was read, and then
  changes the expected amount from which the difference was recorded.
* A refund may use a method the sale was not paid with; the sale can then never
  be cancelled.
* A line whose issue inventory has reversed can be returned again.
* Two messages that pass the unlocked shortage check drive a component negative.
* A failure recorded late can make a delivered message a dead letter.
* Returns and cancellations never give components of a kit back.

Point of sale

* The batch endpoint answers `results`, the client reads `events`: an answered
  batch marks nothing and its entries stay `syncing`.
* A 409 for a closed cash session or missing stock is journaled as a conflict
  resolved in favour of the local sale, which the backend does not have. A retry
  under another operator gets a 409 although the sale exists.
* The process that the migration's lock shuts out removes the lock of the one that
  holds it (`journalMigration.ts:82`), so that a third start migrates beside it.
  `NothingLost` and `SyncedStays` survive this; two overlapping migrations may
  both fail, and may leave a torn snapshot.
* No answer of the backend has `device_active`, without which no anchor is
  recorded, and `Sale.tsx:269` sends neither session nor operator: no sale can be
  queued from the page. The model follows the client for a backend that does send
  it.
* Validities of cached prices are compared as text, the backend's with an offset and
  the client's in UTC, so that a price may be used hours before it begins; the gap
  matrix (`docs/superpowers/analysis/2026-08-10-r6-offline-hardening-gap-matrix.md:60`)
  asks for the trusted anchor's time.
* Cached prices have no `updated_at` of the backend (its serializer has none), so
  their age is measured by the wall clock of the client; a clock that is ahead
  makes old prices young. `performance.now` may stop while the machine sleeps:
  `Lag` includes that time.
* A 401 on an old request removes the credentials of a newer login. The backend's
  refresh asks for an authenticated request, so that a bare refresh always fails.
  A `checkAuth` that is answered after a logout restores the login.
* A sync message lost with the main process leaves page and process apart until
  the next login (`missed`).
* Items and payments edited while a sale is processed are dropped when it
  succeeds. A lower quantity does not check the discount again. An overpaid cart
  can be confirmed on the page, and the backend refuses it unless a price rose.
  A late answer about the session overwrites the one shown; opening and closing
  have no pending lock.

Web front end

* "Every list is server-paginated, filters are URL state" and "Pagination
  contract: count, next, previous, results" (sprint 17 plan, lines 7 and 20; also
  sprint 18 plan, line 20). The catalogue's lists are paged by a cursor and have
  no count: their pages show the newest 25 rows and no buttons. On
  the lists named `"back"` in `WebLists` (sales, cash sessions, balances,
  movements, lots) every button leads to page 1, because setting a parameter
  resets the page.
* A page past the end answers 404, and the page shows an error without controls.
  Searching to nothing hides the search box of the lists `"withRows"`; the filter
  of `DevicesPage` and the account box of `FinancialStatement` go the same way. The
  shortcuts of `DREPage` lose one of the two dates (126, 137).
* "Refresh sale, stock, fiscal and financial queries after success" (sprint 19 plan,
  line 57) is not done: the sale's dialogs tell `inventory` and `financial`, which no
  query is called, and never `sale-dialog`; so the stock, the cash sessions and the
  statement stay as they were until they age (`CompensationsRefresh`, which
  `MCWebClient` assumes to be false, so that TLC tells when it is mended). The other
  pairs in `Unreached` are the like without a document that asks for them:
  `FiscalDocumentDetail` and its list, settlements and the statement, the batch
  actions and their detail, the product and service editors and their own query,
  the forms for receipts and returns and the stock, orders and payables they change.
  Nor do the pages of branches and companies refresh the organization in the header.
* The quick-create dialogs and `ProductIdentityStep` do not lock while they wait (the
  Enter key sends again), nor do the buttons that switch a brand, category or tag on
  and off (`BrandsPage.tsx:214`, 216).
* A form that is open while the tenant changes tells the lists of the new tenant.
  `useFavorites` without a tenant falls back to what the browser stored.
* `ProductPricesStep` keeps one command per mount: a second amount is a
  conflict.
  `ServiceEditor` creates in two steps; `PurchaseOrderEditor` leaves its button
  enabled for half a second after success; `ProductMediaPanel` sends several files
  at once.
* The pages that `App.tsx` does not route call paths the backend does not have
  (`/purchasing/receipts/`, `/purchasing/returns/`,
  `/purchasing/recurring-templates/`, `/billings/`, `/fiscal-compensations/`) or
  has read-only (`POST /inventory/movements/`); the form of supplier returns always
  sends quantity 0. `WebApi` gives them the writes of the services that are meant
  (`receive_purchase_order`, `cancel_receipt`, `create_supplier_return`). Converting a
  quote or an order calls `create_counter_sale` without a stock location and payments
  (`backend/sales/services.py:1168`) and always fails; `WebPages` has the writes of a
  conversion that does not.

## 6. What is not modelled, and why

Section 1 names every part; `PROJECT.json` gives the reason for each.

* The backends of payments, purchasing, fiscal, financial and product stock
  control, and the batch ingestion: they have concurrency of their own and would
  come next (section 7). Hazards of theirs are listed without a property, as are
  those of the modelled parts that the code does not meet (section 5: lost updates,
  closings, torn operations).
  Their web pages are in `WebPages` and `WebLists`.
* Tenancy, accounts, catalog, people, CRM, e-commerce, platform administration,
  audit and monitoring: one-row edits, or they rely on the database's row-level
  security.
* Shells, login and landing pages, printing and deployment: no state of the
  business.

Left out of the modelled parts: quotes and orders in the backend (their
conversion calls `create_counter_sale` without required arguments and always
fails), cash movement types that no code creates, lots' expiry dates and unit
precision (they refuse before anything is stored; a reversal by a factor divides
and normalizes, which the model, in base units, does not show), the confirmation
of draft stock operations (it writes no movement), the order of row locks of a
sale with several lines, journal entries without identity (set aside, never
sent), audit records and logging; on the pages, what they draw besides filters,
lists and buttons, the checks of a form's fields, and the paths and bodies of
requests.

## 7. The plan

1. Done: sales and compensation, cash session, stock operations, outbox and kits;
   the point of sale's synchronisation, migration, contingency, session,
   catalogue and till; the web front end's cache, forms and lists; with the
   proofs of section 4.
2. `Settlements`: financial obligations and their settlements, with the effects
   of sales and of confirmed reconciliations; abstract specification: an
   obligation is settled in parts that sum to at most its amount.
3. `Purchasing`: receive, cancel, return; composed with stock and payables;
   `ReceivedWithinOrdered`, stock and payables agree with receipts.
4. `FiscalDocument`: emission, polling and webhook as three writers of a row;
   a conclusion is final; one emission per document.
5. `ProductStockControl` on `StockLedger`: deactivation against movements.
6. Lock order of a sale of several lines (deadlock), composing sales and stock.

Theorems next: an abstract specification of the outbox (a message is open, then
delivered or dead, and its effect comes with the delivery) and one of the
synchronised journal, each with its refinement. Runs are kept to one per
question.

## 8. How to run

    tlc -workers 2 -config MCStockLedger.cfg MCStockLedger.tla
    tlapm StockLedgerProofs.tla

Each `.cfg` names its module by its prefix (`MCSale*` → `MCSaleCompensation`,
`MCCash*` → `MCCashDrawer`, `MCStock*` → `MCStockLedger`, `MCKit*` →
`MCKitDecomposition`, `MCPdv*` → `MCPdvSync`, `MCJournal*` →
`MCJournalMigration`, `MCContingency*`, `MCDeviceSession*`, `MCTill*`,
`MCWebClient*`, `MCWebLists*` → the modules of those names). The longest runs are
`web_client`, `contingency` and `device_session`, about two minutes each; `WebClientProofs`
takes longest to prove. `PROJECT.json` lists the runs, the definitions with the
source lines they model, the hazards with the properties that guard them, and
the theorems.
