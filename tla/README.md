# ReorderOS: a TLA+ verification project

ReorderOS keeps a restaurant's stock from its point-of-sale sales (Clover) and its
supplier receipts. This directory holds TLA+ models of its backend, the TLC
configurations that check them on small instances, and theorems about them that
TLAPS checks for every value of the constants. Paths below are relative to
`backend/app/modules/` unless they start with `backend/`.

## 1. The system

| component | state it keeps | operations | talks to |
|---|---|---|---|
| Clover webhook `pos/webhook.py` | rows of `pos_event_inbox` | insert the order events of one request | inbox worker, through the table |
| Reconciliation `pos/reconciliation.py` | `last_reconciliation_cursor`, inbox rows | page through the changed orders, upsert each locked one, move the cursor | Clover, inbox |
| Inbox worker `pos/worker.py` | inbox row states, `orders`, `sale_line_items` | claim, fetch, ingest (T1), refund (T1.5), deplete (T2), mark | Clover, depletion handler |
| Depletion `inventory/depletion/` | `inventory_movements`, line status | `process_line`, `reverse_line` | frozen recipe and modifier versions |
| Recipes, modifiers `recipes/` | versions, drafts, `menu_items.recipe_version_id`, items and units the resolver makes | draft, confirm, un-confirm, skip, suggest | read by ingest |
| Inventory `inventory/services.py`, `router.py` | items, movements, counts | `on_hand`, count, opening balance, commit of receipts | ledger |
| Idempotency `inventory/idempotency.py` | `idempotency_keys` | reserve, replay, store | every mutating endpoint |
| Receipts `receipts/services.py`, `repo.py` | receipts, lines, adjustments | upload, edit, reset, commit, adjust, dismiss | extraction worker, ledger |
| Extraction worker `receipts/extraction_worker.py` | `receipt_extraction_jobs`, quota | claim with lease, call the LLM, checkpoint, apply | LLM, storage |
| Connections `pos/router.py`, `token_refresh.py`, `state_manager.py` | `tenant_pos_connections`, `oauth_states` | connect, callback, refresh, disconnect | Clover OAuth, reconciliation's cursor |
| Catalog sync `pos/catalog_sync.py` | `menu_items`, `modifiers` | pull a merchant's catalogue, activate and deactivate | Clover, recipes |
| Auth, tenants, invitations | users, memberships, invitations | sign in, register, invite, accept, revoke | WorkOS |
| Core, frontend, scripts | - | adapters, client, tools | - |

Processes are API servers, one inbox worker, one reconciliation worker and one
extraction worker; they share nothing but PostgreSQL, at READ COMMITTED. The
deployment asks for `instance_count: 1` of each worker (`.do/app.yaml`), but a
release replaces a process while the old one may still be running, and the code
claims rows with `FOR UPDATE SKIP LOCKED` and an expiry so that several may run. So
"one worker" and "two workers" are both questions worth asking, and the answers differ.

What is hard here: documents and events that arrive late, twice or out of order;
claims that expire under a live holder; a crash between any two of an event's many
transactions; reads whose row is not locked; operators who change recipes while
sales of them are in flight; lists that move while they are read; tokens that are spent
by being used. `PROJECT.json` lists the hazards with their lines.

What makes the parts correct:

- *queue*: a change Clover reported is never acknowledged unseen; a row in a
  worker's hands is neither freed nor settled by others; every row is settled.
- *pipeline*: a line is depleted wholly, once, against the versions frozen at its
  first ingestion; a refunded line nets to zero; outcomes and history are not
  rewritten; an acknowledged event has taken effect.
- *receipts*: what a reset discarded stays gone; a receipt shown as waiting has a job
  behind it; a commit moves every line it shows; a job that is over stays over, and
  every job comes to an end.
- *stock*: a count anchors what follows it; a request that can be recognised takes
  effect once; a late sale is not silent; the list shows what is on the shelf, once
  everything is booked and nothing straddles the last report.
- *recipes*: a version is whole, is made once and never changes; what is confirmed is
  published; a saved recipe is not lost; every request is answered.
- *reconciliation*: the cursor passes no order that was not stored; one that webhooks
  never told of is brought in.
- *connections*: an active connection's token is one Clover accepts; a revoked one
  stays revoked; one about to expire is refreshed or ends in error.
- *catalogue*: a sync takes nothing off the menu that was in Clover's catalogue all
  along since the pull began and that no edit moved across the pull's offset.
- *tenancy*: who becomes a member was invited, by an invitation nobody has used.

## 2. Modules

| module | models |
|---|---|
| `Inbox` | `pos_event_inbox`: webhook, reconciliation upsert, worker claim, fetch, mark, crash, claim expiry. What the worker does with a document is one phase, "work" |
| `SaleRules` | pure: payment-state priority and merge, line eligibility |
| `SalePipeline` | extends `Inbox` and `SaleRules`; refines "work" into the worker's transactions, with recipe confirmation beside them |
| `SaleLedger` | abstract: the fate of a sold line, with no workers or events |
| `Receipts` | one receipt: its lines and jobs, extraction workers, and the requests that edit, reset, dismiss, delete and commit it |
| `ReceiptLife` | abstract: what a receipt shows, its readings and what it brings into stock, with no workers, leases or locks |
| `Stock` | one inventory item: ledger, counts, opening balance, idempotency keys, and the bookings that race them |
| `Recipes` | recipes and modifiers: drafts, versions, pointers, and the API requests that race over them |
| `Connections` | all Clover connections: OAuth states, callbacks, disconnect, the refresh job, and the tokens Clover accepts |
| `Reconciliation` | one connection's cursor, its runs, and Clover's list of orders |
| `Catalog` | one connection's catalogue syncs, the menu, and Clover's item list |
| `Tenancy` | users, restaurants, memberships, invitations |
| `MCInbox`, `MCSalePipeline`, `MCReceipts`, `MCStock`, `MCRecipes`, `MCBackOffice` | constants of the instances TLC checks |
| `BackOffice` | composes the last four: a behaviour of the whole is one of a single part |
| `InboxProofs` | theorems about the queue, for any number of workers and then for a single one |
| `SalePipelineProofs`, `SaleLedgerProofs` | theorems about the pipeline; the latter with a single worker, up to the refinement of `SaleLedger` |
| `ReceiptsProofs`, `StockProofs` | theorems about the receipt and the stock |
| `SumTheorems` | lemmas on sums over finite sets, which `StockProofs` rests on |
| `RecipesProofs` | theorems about recipes and modifiers |
| `BackOfficeProofs` | theorems about connections, reconciliation, catalogue and tenancy, each alone and composed |

Operators named `X_Something` are wrong versions of `X`, kept to show that the
property named with them in `PROJECT.json` would notice; no action uses them.

### Queue and pipeline

State and code. `inbox` is the table, one row per dedup key `<<order, type, ts>>`;
`stale` stands for `claim_expires_at < now()`. `pc`, `hold`, `cur`, `doc` are a
worker's local variables: `hold` is the list `claim_batch` returned, and is never
re-read, as in the code. `order`, `line`, `ledger` are `orders`, `sale_line_items`
(with the frozen versions and modifiers) and `inventory_movements`; a line's rows
are kept per source version, forward (`out`) and reversal (`back`), because the
idempotency keys are per line and source. `job[w]` is the worker's place inside
`process_event`.

Atomicity. One action is one database transaction or one call to Clover. The
exception is `process_line`: it selects the line without a lock, decides, and then
writes, so `ReadLine` and `WriteLine` are separate steps of one transaction, between
which other workers' commits fall. Every other transaction takes the row lock of
what it changes before it reads anything that matters.

Abstractions, all of data: a document is its revision number, and its content is
locked or not, a payment state and the set of refunded lines; the webhook's `ts` and
the document's `modifiedTime` are both that number. Locked documents list all the
order's lines, stay locked, and keep their refunds; the payment state may go either
way. Which versions convert is the constant `Convertible`. All catalogue reads of
one ingest see one instant. Left out: amounts, quantities and the two movement
types (recipe-deducted and count-anchored items differ only in the type's name
here), legacy idempotency keys, which nothing writes any more, the late-signal alert,
tenants (every row and lock is per tenant), and the resetting of a voided line after
it was depleted, which the repository puts out of scope (ADR 0001, D8): `VoidedLines`
are voided when first seen. `invalid_recipe` cannot happen: an empty draft is refused
and the yield is NOT NULL. If `mark_failed` itself fails the process ends, which is
`Crash`. Pending rows are always due, since reconciliation's requeue sets
`next_attempt_at` to now.

### Receipts

`receipt`, `line`, `job`, `quota` are the tables' rows of one receipt, `photo` its
object in Spaces, `moved` the lines with a `receive` movement, `day` the UTC date the
quota is keyed to. `task[w]` is what an extraction worker has in hand, with the
lease it holds; `request[c]` what a request has read so far. `discarded` is a history
variable: the jobs some reset left behind.

The worker keeps one transaction open from its first read of the receipt to the
result, so nothing it writes is visible before. It is cut into one step per wait
(download, quota, answer, checkpoint, re-check, apply), and the rows it has
written are locked for the others meanwhile. A request that locks the receipt row first is
one action; one that reads first and writes later (extract, dismiss, delete) or waits
with a lock in hand (reset) is two. When a reset and a worker wait for each
other, PostgreSQL undoes one of them (`CallerLoses`, or a fault of the worker).
`faults` counts crashes, leases that expire under a live worker, and deadlocks lost.
A job writes at most the line of its own number. `Durable` names the endpoints
whose transaction is committed: all in the runs, so that the logic behind them can be
checked. As deployed only commit and adjust are (see the end of section 3).

Left out: prices (so no cost snapshot and no reference from one to a line), notes, manual
receipts (no job), the older receipt endpoints of `inventory/router.py`; receipts
in state 'created' count as 'matched', and 'pending_review' is never set. The branch that
reuses a checkpointed answer is never taken: the checkpoint commits only with the outcome.
A deadlock of a worker that has written only its job row ends like a crash. A
`PATCH` of a line that both links an item and changes a field assigns one column
twice, which PostgreSQL refuses (`receipts/services.py:300`, `:322`), so it does nothing.

### Stock

What happens on the shelf (`happened`) and when its transaction begins (`begun`)
and commits (it enters `ledger`) are separate steps. `made` is the row's
`created_at`, the start of its transaction; `at` its `recorded_at`, the vendor's
time for a sale and the default for the rest. A client looks at the shelf (`LookAt`) and
sends what it saw, with its time if the request is `Dated` and with an
Idempotency-Key if it is `Keyed`. `Send` is `check_and_lock`, `CountLock` and
`CountWrite` are `record_count_event` before and after the item row is
locked FOR UPDATE, `StoreResponse` is the second commit, `Lose` a crash. The
movement's foreign key needs the item row, so `Insert` waits for a count (`ItemHeld`).
An opening balance is checked by a trigger before its insert waits, hence `OpenCheck`
and `OpenWrite`. `Listed` is the SQL of `GET /inventory/items`, `Watermark` and
`Historical` the two paths of `on_hand`. The clock ticks at every reading, because readings
have microseconds and never agree. `look` is a history variable: the last count or
opening posted, and the movements that preceded it.

Left out: yield factors (no code writes that table), other items, fingerprints (a key is
sent with one body), the resolution of alerts. Quantities are small integers; the
tolerance of 0.0001 is zero.

### Recipes

`status`, `pointer`, `draft` and `versions` are the rows of recipes and modifiers
(`Things`), `rows` the inventory items and units of measure that exist, by normalized name.
`req[c]` is a request and its transaction: what it read first (`seen`, `version`), the
ingredients it has still to resolve (`todo`), and the rows it has inserted and not
committed (`made`). Only a confirm holds a row lock over several steps; a save or a
skip reads the status without a lock and writes later, and so does the un-confirm of a recipe
with the version pointer (`Reopened`). Two confirms may want the same new items in
opposite orders, and wait for each other: `BreakDeadlock`.

The request that wrote a draft is its `rev`, which is how the properties know one
saved list from another with the same lines. Left out: quantities, yields, the
suggestion service, modifiers that are not additive (they have no ingredients), and
requests their first read refuses. Rolled-back rows vanish with `made`.

### Connections, reconciliation, catalogue, tenancy

None of the four writes what another reads in these models (a reconnect keeps the
cursor, and what catalogue syncs insert for recipes is `SyncModifier` there), so
`BackOffice` puts them side by side: a behaviour is one of a single `part`.

*Connections.* `conn` is the table, `oauth` the state tokens, `callback[c]` a
callback between its three transactions, `refresher[p]` the refresh job's one
transaction: the rows it has locked, those still to call Clover for, and what it has
written. Clover's side is `valid`, the refresh tokens it accepts for each
merchant: a refresh spends one and gives the next. `lost` marks the rows whose next
token a crash or a lost answer took with it. Left out: access tokens, encryption, and the
token a reconnect of the same merchant replaces, which Clover still accepts.

*Reconciliation.* `listed` is Clover's list, each order under the time of its last
change; a change may show in it later than its time (`coming`), by no more than
`Overlap`. A page is what lies at its offset when it is asked for. A run is `run[p]`;
`StoreOrder` is one order of the page with its own commit, `Finish` writes the cursor.
`slipped` marks the orders that a shift of the list moved behind a run's offset before it
had read them. Times are distinct (Clover's are milliseconds), and the thirty days a first
run looks back hold every order.

*Catalogue.* `catalog` is Clover's, `sync[s]` a pull with what it has got, `menu` the
rows. `steady[s]` is what a pull had to find: in the catalogue since the pull began,
and not moved across its offset by an edit. Names, prices and the
modifiers' rows are left out; the modifier groups are one step that can fail.

*Tenancy.* `address` is what WorkOS says, `users` what the table says. `accepting[p]` is the
invitation an accept holds FOR UPDATE, `revoking` those a revoke has read and will delete.
Left out: names, roles other than owner, tokens' text, rate limits.

## 3. Runs

| run | instance | shows |
|---|---|---|
| `InboxTwoWorkers` | 2 workers, 2 revisions, 1 reconciliation run, 1 crash; fair | `QueueTypeOK`, `ProcessedSawRevision` in spite of taken-over claims; `RowsSettle` |
| `InboxFailedRetry` | 1 worker; fair | **violated** `FailedIsRetried`: a failed row stays failed |
| `SaleOneWorker` | 1 worker, 1 line with a modifier that does not convert, open/paid/refunded documents, 1 run, recipe versions confirmed around them | the pipeline's safety properties, `ProcessedMeansApplied` among them, and the queue's for a single worker |
| `SaleImplements` | 1 worker, 2 lines (one voided), 1 crash; fair | refines `SaleLedger` and `Inbox` through a crash between any two commits; `LinesSettle` |
| `RefundRace` | 2 workers | **violated** `RefundNetsToZero` |
| `ReceiptReview` | 2 workers, 2 requests (symmetric, none dismisses), 2 jobs, 1 fault | refines `ReceiptLife`; `DiscardedStaysGone`, `WaitingHasJob`, `CommittedMoves` |
| `ReceiptSettles` | 1 worker, 1 request, 1 midnight, 1 fault; fair | `JobsSettle` |
| `StockCounts` | both modes; a sale, its refund, a delivery, waste; a keyed count, a dated count, an opening; 2 callers | `AppliedOnce`, `CountAnchors`, `LateSalesFlagged`, `ShelfMatches` |
| `StockPredicted` | Mode B, two counts | **violated** `PredictedIsOnHand` |
| `StockLate` | Mode B, a sale, a delivery, one dated count | **violated** `LateSaleDeducted` |
| `RecipeEdits` | 1 dish, 1 modifier, 2 requests, lists that share new items, an item named twice, a unit of another type; fair | `VersionsWhole`, `ConfirmedIsPublished`, `RecipeEditsKept`, `ReopenedFromLive`, `RequestsEnd` |
| `BackOffice` | 2 tenants, 2 merchants, 1 job; 3 orders, 1 runner; 4 items, 2 syncs; 2 people, 3 addresses, 2 restaurants, 1 invitation; fair | `TokenFits`, `RevokedFinal`, `ExpiringSettles`; `NothingMissed`, `Backfilled`; `MenuKept`; `MembersInvited` |

Each module's type invariant is in one of its runs. `RecipeEdits` checks deadlock,
the others do not: when the bounds are used up the system stops.

Bounds, and why they are enough.

- *Queue and pipeline.* One order: rows of different orders meet only in the batch
  (`BatchSize` 2 lets two rows of one order share one) and in nothing they write. The
  interesting cases need one older and one newer document (`MaxRev` 2), one line
  that can be refunded and one that cannot, one version to freeze and another to
  confirm after it (`MaxVersion`), one reconciliation run (`MaxRuns`) and one crash
  (`MaxCrashes`): a second crash meets the same states as the first.
- *Receipts.* Two jobs let a discarded one meet its successor; two attempts
  (`MaxAttempts`, 3 in the code) have a first, a last and a retry; a daily cap of 1 is
  reached by the second job; one fault is a stalled, crashed or deadlocked worker
  whose job another takes over; one line typed by hand (`MaxTyped`); one midnight
  (`MaxDay`), which refills the quota. `ReceiptReview` leaves the dismissal out, whose
  one write of the state races the other requests as a deletion does: it would
  triple the states. `ReceiptSettles` takes it, and the theorems cover it.
- *Stock.* `MaxTime` 7 readings of the clock hold two counts and a sale around
  them, or a count with a sale and its refund; 8 are needed for a count, a sale
  and a second count with a new look at the shelf (`StockPredicted`), and 6 for a sale that
  is booked after a count (`StockLate`). `LateAfter` is 1 tick.
- *Recipes.* Two requests make every race of the code, since each has one
  reader or writer on either side of a lock; four lines hold two spellings of one item,
  two new items to insert in either order, and a conflict; three drafts (`MaxDrafts`)
  are a save, a confirm and an un-confirm with another save in between.
- *Connections.* Two rows (`MaxRows`) are a tenant's old and new one or those of two
  tenants in one refresh; three tokens (`MaxTokens`) a first, its rotation and a
  reconnect; `MaxFails` 2 (3 in the code) a failure that counts and one that ends; one
  crash or lost answer (`MaxLost`).
- *Reconciliation.* Three orders on pages of one, two pages a run (`MaxPages`): a run
  that stops at its limit with an order unread, and a list that shifts under it; an
  overlap of 1 in a clock of 3; `MaxChanges` 3; one failed run (`MaxBroken`).
- *Catalogue.* Four items on pages of one, three pages (`MaxItemPages`): a list that
  fits, one that does not, one edit (`MaxEdits`) behind, at or ahead of the offset, and
  two syncs that overlap.
- *Tenancy.* One invitation between two people, a third address to move to, two renames
  (`MaxRenames`): an address that changes hands.

The theorems lift most of the safety properties to every bound.

Fairness. `QueueFairness` and `Fairness` say that a worker's loop keeps taking
steps (`while not stop_event` in `backend/app/workers/inbox_worker.py`; a restarted
process is the same loop) and that time passes, so claims expire. Clover, webhooks,
reconciliation, operators and crashes owe nothing. A step that can fail may fail:
no liveness property relies on a fetch or a commit succeeding, and so
`LinesSettle` excepts orders one of whose events ended 'failed'.

For receipts, a job that can be claimed without a new fault is (weak fairness: the
worker polls), and workers and requests that have begun go on. That is strong
fairness, since they can be kept waiting for a row again and again but PostgreSQL
queues those who wait; it also breaks deadlocks (`CallerLoses`), and midnight comes.
`JobsSettle` relies on no answer of the LLM and on no operator. `Stock` has no
liveness property.

A recipe request keeps running and the queue for a row lock is served: strong fairness
of each request's `Step`, as for receipts. The refresh job and the reconciliation run start
every fifteen minutes (`backend/app/workers/reconciliation_worker.py`) and go on while the
process lives: weak fairness of `JobStep` and `RunStep`. Neither owes a success:
`ExpiringSettles` allows a refresh that fails every time, and `Backfilled` has
only a bounded number of failed runs.

What the violations say.

1. `claim_batch` takes 'pending' rows and expired 'processing' ones; nothing takes
   or resets 'failed'. `mark_failed`'s backoff and `MAX_RETRIES` therefore never
   come into play, and a transient error costs the event, unless a later event of the
   same order brings a newer document. Comments, migration and notes say it retries.
2. While two workers run, one's refund transaction can commit between the other's
   read and write of a line: the refund finds no rows to reverse, and the line is
   then depleted. Comments promise "never marked-but-unreversed".
   In the same window both may record an outcome, and the later one stands.
3. A sale of a Mode B item made before a count and booked after it: the item list sums
   by `recorded_at`, the vendor's time, and so never deducts it, while
   `inventory_accounting_semantics.md` (sections 3, 4 and 8) puts the boundary at
   `created_at` and the sale into the quantity after the count. Which of the two is
   right depends on the count: one that saw the shelf after the sale already lacks
   it. `ShelfMatches` leaves such a sale out, on either boundary.
4. A count of a Mode B item asks `on_hand` for what was created after the count's
   own cutoff. That is nothing, so the stored prediction and the drift alert compare
   the count with the previous count.

More is in the models, or found while writing them, without a run of its own:

- *Receipts.* Only commit and adjust are committed by `receipts/router.py`; the session
  dependency does not commit, so an upload stores its photo and loses its row (a
  `Durable` with only the two shows it). An answer with a quantity the table refuses
  raises out of the worker before an attempt is counted: the job is claimed and paid for
  at every lease expiry (`Payloads` with "rejected" shows it, against `JobsSettle`). A
  second extraction without a reset shows every line twice. Extract, dismiss and delete
  read the receipt and write later without a condition, and the worker's check before it
  inserts takes no lock; were these transactions committed, a commit in between would be
  overwritten or get lines added, which `receipts/repo.py:199` rules out. `ReceiptLife`
  therefore does not promise that a committed receipt stays as it is.
- *Stock.* The item list and `on_hand` leave waste and corrections, and the list
  refunds, out of a Mode B item (`Summable` in `ShelfMatches` names them).
- *Recipes.* A save or a skip that read 'draft' before a confirm committed writes its
  status over 'confirmed': the recipe is a draft, or skipped, with a live pointer
  (`recipes/repo.py:260` says the pointer is set only while confirmed), and
  `ConfirmedIsPublished` is the half that holds. `unconfirm_recipe` may copy the
  version before the one that was live, hence `ReopenedFromLive` speaks of modifiers.
  A modifier's save over an existing draft does not wait for a confirm, which then
  deletes it, hence `RecipeEditsKept` speaks of recipes.
- *Connections.* A crash in the job, or a lost answer, loses a rotated token for
  good: `prev_refresh_token_enc` is written and never read, and `TokenFits` excepts
  those rows. A connection in error still claims its merchant, so its own tenant can
  neither reconnect nor disconnect it (`MerchantTaken`, `Disconnect`). A reconnect to
  another merchant keeps the old one's cursor.
- *Reconciliation.* A shift of the list between two pages moves an order behind the
  offset unread; later runs find it only within the overlap (`slipped`). A run stops at
  `MAX_PAGES`, and that many open or older orders ahead starve what follows (`Crowded`).
  A first run that sees no locked order writes a cursor of 0, and the next one reads the
  whole history. With two runners the slower one can move the cursor back, which the
  header of `pos/reconciliation.py` rules out; that repeats work and loses nothing.
- *Tenancy.* A revoke that read the invitation before its accept committed deletes it
  and answers 204, though the person is a member. An e-mail that another row holds is
  answered "slug already taken" or "already a member".

## 4. Proofs

`InboxProofs` proves `QueueTypeOK` and then `ProcessedSawRevision` for any number of
workers. The latter is not inductive: it needs to know that no row is announced
beyond its order's revision (`Announced`), that a page lists current documents
(`Listed`), that what a row stores (`Stored`), what a worker claimed (`HoldSeen`) and
what it is about to save or acknowledge (`CurSeen`) are no older than the row's key;
together `SeenInv`. The point is that a document stored is always at least as new as the
key, even when a stale worker writes it.

Its second half assumes `SingleWorker`. `SoloQueueInv` adds that hands are empty
when idle and hold distinct rows (`HandsOK`) and that held rows are 'processing'.
From it follow `HeldIsProcessing`, `OnlyReconReopens` and, with `MaxRetries > 1`,
`NeverRetried`: a failed row is final, the theorem beside the run `InboxFailedRetry`.
`FreshHands` says that the document at hand is no older than the one its row holds
(`HandsNew`): a claim that expires is taken up again by nobody else, and what
reconciliation puts into a row in hand is a document the vendor listed before.

`SalePipelineProofs` first proves that every step of the pipeline is a step of the
queue (`RefinesQueue`), so the queue's theorems carry over. `PipeInv` adds to the types
that documents mention only their order's lines, that lines have orders, and that a
job's lines are recorded. Under it, and for any number of workers, `WholeLine` is
inductive (the frozen versions never change, and `Post` writes the whole plan or
nothing) and every step satisfies `HistoryKept`. `MergeIgnoresArrival` adds that the merge
of payment states is commutative, associative and absorbs a repetition, so the state an
order ends in depends only on which documents arrived.

`SaleLedgerProofs` assumes `SingleWorker`. The missing fact is `ViewsFresh`: what the
worker read in `ReadLine` still holds at `WriteLine`. With it `StatusMatchesLedger`
and `RefundNetsToZero` are inductive, `TerminalFrozen` follows, and every step maps
to a step of `SaleLedger` or a stutter. `RefundRace` is what happens without it.
`AckInv` gives `ProcessedMeansApplied`. It follows a document through its job: the
order it is for stays locked (`StaysLocked`), the lines before the worker's place are
out of 'pending' and the refunds it lists are marked unless the job has a fault
(`InProgress`), and what a row stores is never newer than the document its worker
applied (`FreshHands`). The property says "its document, or a newer one", because
reconciliation may put the older document it listed over the one the worker is
applying.

`ReceiptsProofs` holds for any number of workers, requests, jobs and faults.
`WorkInv` adds to the types that a worker's job exists and may be attempted again
(`TasksOnJobs`, `OpenMayRetry`) and that a job whose lease its worker still holds is in
progress (`HeldInHand`); from it follow `TypeOK`, and with it the bound on attempts, and
`OverStaysOver`. `LocksInv` says what the receipt's row lock keeps true while a
request or a worker waits, and gives `WaitingHasJob` and `CommittedMoves`. `DiscardInv`
follows discarded jobs through every worker that still has them in hand and gives
`DiscardedStaysGone`. `LifeInv` adds that a job goes with its receipt and a line comes
with its job's end; under these every step is one of `ReceiptLife` or a stutter
(`ReceiptImplementsLife`). A reading is a job: owed while it is open, void once
superseded. `ReceiptLife` promises no more than the code keeps: only its `Edit` and `StartOver`
need a draft. `Ask`, `Close` and `Delete` do not look at the stage, since the endpoints
read it before they write, and a reading still owed (`Found`) shows its line at any stage.

`StockProofs` holds for any number of callers and requests. `LockInv`: a
request's key is unseen exactly while its effect is uncommitted, one caller holds it,
and one count holds the item. `OnceInv` adds that an event carries its request's
report, so that a dated resend finds it, and gives `AppliedOnce`. `LateInv`: the
cutoff of a count in progress lies after every movement in the ledger, since none
enters while it holds the item; so no sale can miss the event, which is
`LateSalesFlagged`.

Quantities are sums over the ledger, folds whose order a CHOOSE decides.
`SumTheorems` shows that they do not depend on that order: each induction is a
minimal counterexample among the subsets of a finite set, found by the library's
theorem on well-founded relations, since the library's induction rules cannot be
instantiated here. From it come the sum with one element more (`SumAdd`), over two
disjoint sets (`SumDisjoint`), and of a one-to-one image (`SumCorresponds`).
`QuantityInv` then says that every quantity is a number (`Numbers`), that a ledger row
stands for one happening, count or opening with its effect (`LedgerInv`), that a count
in progress holds a prediction that is still the balance (`CallInv`), that what a client
reported is what had happened when it looked (`Reports`), and what the balance has been
since the last count (`LookInv`). It gives the sums in `TypeOK`, `CountAnchors` (of Mode A,
after a count) and `ShelfMatches`.

`RecipesProofs` holds for any number of dishes, modifiers, ingredients and requests.
`BasicInv` adds to the types that a request at work names a thing, a pointer to one of
its versions and a list number given out before (`Named`), and that a draft is one of a
list (`DraftRow`); from it follow `RecipesTypeOK` and `ReopenedFromLive`. `EditInv` is
`ConfirmedIsPublished` with `ConfirmsAlone`: one confirm works on a thing, and a dish's
draft is still the one it read. With it every step satisfies `RecipeEditsKept`.
`WholeInv` says that the rows of a list being confirmed exist, are the confirm's own
uncommitted ones, or are still to be resolved (`Completes`), and that a list's
number is with one writer, in one draft, with one confirm or in one version at a time
(`FreshWrite`, `FreshDraft`, `FreshConfirm`, `PastVersions`). It gives `VersionsWhole`.

`BackOfficeProofs` holds for any number of rows, tokens, requests, orders, items and
people, and has one invariant per part.

- `ConnInv` adds to the types of connections that a row the job has locked is active
  and due, and unchanged until the job writes it (`JobRows`), that a row has a merchant
  and an active one can fail once more (`RowsNamed`), and that a callback names a state
  token, a merchant and a tenant (`CallsNamed`); `RevokedFinal` follows. `TokenInv` says
  a merchant is claimed by one row (`ClaimedOnce`), a token a callback is about to write is
  accepted and in no row, nor in the job's hands (`CallTokens`), no token is newer than
  the last issued (`TokensIssued`), and an active row's newest token, in the table or with
  the job, is accepted unless it was lost (`RowTokens`). From these follows `TokenFits`;
  that a state token is spent once is proved beside it (`StateSpentOnce`).
- `RecInv`: what the runs and the cursor know lies in the past, and a change that does
  not show yet is no older than the overlap (`Clocked`); a locked order from before a
  run's start, behind its offset, or before the window of a time it may leave as the cursor
  is told of, or in the page the run has in hand (`RunRead`); the offset is that of a
  page (`RunPaged`); and the cursor itself has passed nothing (`Covered`). It gives
  `NothingMissed`, for any number of runners.
- `CatalogInv`: a pull has every steady item before its offset, and all of them when it
  has ended (`PullSteady`); its offset is that of a page (`PullPaged`). The point is
  that a short page is the end of the list (`ShortPage`: ranks number the list without
  gaps). It gives `MenuKept`.
- `TenancyInv`: the invitation an accept has locked is open and locked once
  (`HeldInvites`), and invitations name a restaurant and an address (`InvitesNamed`).
  It gives `MembersInvited`.

`PartsRefine` shows that the composition refines each part, so the types of all four
(`BackOfficeTypeOK`) and their promises (`BackOfficeKeepsPromises`) hold of what
`BackOffice` checks.

The theorems rest on the named assumptions about the constants (`InboxAssumption`,
`PipelineAssumption`, `ReceiptAssumption`, `StockAssumption`,
`RecipesAssumption`, `ConnectionsAssumption`, `ReconciliationAssumption`, `CatalogAssumption`,
`TenancyAssumption`, and where said
`SingleWorker`), which TLC evaluates in the runs. Every invariant and every action property
that a passing run checks is a theorem. Only model-checked are the liveness properties
`RowsSettle`, `LinesSettle`, `JobsSettle`, `RequestsEnd`, `ExpiringSettles` and
`Backfilled`: liveness under fairness is out of the prover's reach.

## 5. Not modelled, and the plan

Not modelled at all: HTTP and OAuth plumbing, encryption, row-level security, storage
and LLM clients, recipe suggestions, diagnostics, file validation, the observability
endpoint, the frontend, scripts. They keep no state the properties speak of, or are
external. Unit conversion is the constant `Convertible` and amounts are not carried, so
what a conversion computes and what an order totals is not checked.
`PROJECT.json` gives the reason for each component.

Done: the queue, the pipeline, receipts, stock, recipes, connections, reconciliation, the
catalogue and tenancy. What is left, in this order:

1. The queue's invariants for several workers, weakened to what remains true.
2. Pure operators: payment-state derivation, unit conversion lookup, each against a
   reference definition; order amounts in the pipeline, for the totals an older
   document writes.
3. A document that kills its worker, in a batch beside others, in `Inbox`.
