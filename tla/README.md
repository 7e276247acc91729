# TLA+ specifications of the cordillera backend

The repository is a platform for a hardware wholesaler: it reads the web portal of the
wholesaler's buying group (SIGProv), keeps what it brought in three layers
(`raw` → `staging` → `core`), sets aside what it cannot read or decide for a person to
decide, and tells the owner what matters by WhatsApp. The backend (`src/backend/app`) is a
modular monolith in Python: FastAPI for requests (several processes), Celery on RabbitMQ for
background work, PostgreSQL in READ COMMITTED for everything that is remembered. Modules
never call each other: they publish events on a **synchronous** bus whose handlers run inside
the publisher's transaction.

## Inventory

| Component | State it keeps | Operations | What makes it correct | Modules |
|---|---|---|---|---|
| `operations`, `portal/tasks`, `worker` (scheduled extractions) | `operations.job_run`, advisory locks, broker messages, tasks and their coroutines | heartbeats, "traer ahora", attempts, retries, reports, sweep of abandoned runs | one open run per source; whatever is opened is closed; warnings are sent once per interruption | `JobRuns`, `OneAtATime` |
| `operations` (parameters, log) | `parameter`, `audit_entry` | `set_parameters`, `record_manual_change` | a batch is validated whole before it is written, and the copies other modules keep follow it | `AlertWindow` |
| `portal` (raw) | `raw.portal_document` by content hash, `normalized_at` | `_extract` per section, visits for a file | evidence is committed before it is read; the same bytes are read once | `PriceLists`, `Staging`, `InvoiceFiles` |
| `ingestion` (staging) | staging rows, the projection of the rules | `normalize_*`, `learn_rule`, `forget_rule` | a row is handed on or asked about, and nothing is lost between the two | `Staging`, `PriceLists`, `Inbox`, `InvoiceFiles` |
| `ingestion/parsers`, `documents` | none (pure) | one function per screen, one reader per kind of file | a screen is read as it is written, whatever the order of its rows and headings | `Screens`, `Staging`, `InvoiceFiles` |
| `catalog` | products, prices, curves, corrections, rubros, equivalences, spend and revenue | lists, corrections, loaded prices, equivalences, products that come and go | a corrected value stands until the portal contradicts it and then says so; what a person decided is not overwritten | `Prices`, `PriceLists`, `Equivalences`, `Sales`, `Rubros` |
| `purchases` | suppliers, spellings, invoices, documents, payments, receipts, calendar, orders | registration, identification, disputes, imputation, splits, rescheduling | nothing is paid twice or lost; no debt without a supplier; what a person set stays | `HeldInvoices`, `Payments`, `Calendar`, `Orders`, `SupplierCards`, `InvoiceFiles` |
| `sales` | `core.sale` | registration, repetitions, decisions, corrections | a repeated sale is not counted twice | `Sales` |
| `messaging` | supplier messages | registration | each message is shown or asked about | `Inbox` |
| `notifications` | recipients, routes, the window | alerts, their delay, retries and failures | an alert reaches who holds its role, once, when it may leave, or its failure shows | `Inbox`, `Recipients`, `AlertWindow` |
| `triage` | cases, rules | open, resolve, reconcile, close elsewhere, reopen, revoke, redecide | one open case per matter; what a decision left in other modules follows the rule | `Equivalences`, `PriceLists`, `Sales`, `Staging` |
| `identity` | users, passwords, sessions, links | login, invitations, resets, withdrawal | a session does not outlive its password; there is always an owner | `Access`, `Recipients` |
| `shared/events`, `shared/live` | subscriptions, LISTEN connections | publish, notify | handlers run in the publisher's transaction | — |
| frontend, migrations, routes | none of the business | — | — | — |

How they interact: a heartbeat of `operations` opens a run and sends a message to Celery; a
task of `portal` reads the portal, stores the raw document, and publishes an event; the
handlers of `ingestion`, then of `catalog`, `purchases`, `sales`, `messaging`, then of
`triage` and `notifications` run nested in that same transaction; the task reports the end of
the run in another one. Decisions a person takes in `triage` travel back as events to
`ingestion`, `catalog`, `purchases` and `sales`. What leaves the transaction is what is put in
the broker inside it: alerts and visits for files are queued before the commit.

What is hard: heartbeats and requests that overlap; tasks killed, redelivered and retried;
coroutines that outlive their task; reports that arrive after the sweep; two processes
reading the same bytes; decisions taken while their matter is being closed elsewhere; copies
and projections in other modules that must follow what they copy; people and the portal
writing the same row; work queued by a transaction that has not committed, or never will.
`PROJECT.json` lists each at its line.

## Modules

| Module | What it is |
|---|---|
| `JobRuns` | the life of an extraction: heartbeats, requests, locks, runs, broker, coroutines, limits, reports |
| `OneAtATime` | what `operations` promises about the sources: an abstract specification |
| `Equivalences` | what a written form of a category means: `triage` and `catalog` over one matter (008) |
| `HeldInvoices` | which invoices the ledger has and whose they are; spellings; disputes with the portal |
| `Payments` | what an invoice has been paid, and what the ledger says is owed |
| `Calendar` | due dates, the entries people reschedule, receipts and incidents |
| `Orders` | purchase orders and which ones repeat an earlier one |
| `SupplierCards` | the register of suppliers and its corrections |
| `InvoiceFiles` | the document of an invoice, from the queue of visits to the review |
| `PriceLists` | a price list from the portal to the catalog, with the rules people left |
| `Prices` | the price of a product: lists, corrections, loaded prices, the curve |
| `Rubros` | the list of rubros and what was bought and sold in each |
| `Sales` | the sales of a code, the revenue of the catalog and the queue of triage |
| `Screens` | what a price list and a register become |
| `Staging` | the typing of the rows of the other screens, and who asks about them |
| `Inbox` | messages and the delivery of their alerts |
| `Recipients` | the users, the copy `notifications` keeps of them and whom an alert reaches |
| `AlertWindow` | when an alert may leave |
| `Access` | invitations, passwords, logins and sessions |
| `MCJobRuns`, `MCEquivalences`, `MCPurchases`, `MCPlatform` | instances for TLC |
| `FoldTheorems`, `…Proofs` (seven) | the theorems and their lemmas: see Proofs |

`MCPurchases` and `MCPlatform` put several modules side by side. Those modules share no
variable: what one takes from another is an action of its own there (in `Payments` an invoice
is registered and held, in `Calendar` a term appears). A behaviour moves one of them, chosen
at the beginning, so the states are the sum of those of the parts and every property is
checked in the part it is about.

### `JobRuns`

State and code: `status`, `task`, `age`, `last` are the rows of `operations.job_run`
(`age` is `now - started_at`); `reaped` marks the rows closed with the reason `ABANDONED`;
`lock` is `pg_try_advisory_xact_lock`; `actor` is the point of the code at which each
heartbeat or request is; `queue` holds the messages of RabbitMQ, delivered in any order;
`wk` is what each coroutine of the workers' loops is doing; `alerts` are the events
`PriceUpdateStalled` and `PriceUpdateRecovered` in the order they are published.

Each transaction is split where another session can step in: a statement reads what was
committed, writes become visible at the commit, and an UPDATE waits for the other writer of
its row. So `ReapRead`, `ReapFlush` and `ReapCommit` are one call of
`close_abandoned_price_update`, and `TryLock`, `CheckRunning`, `OpenRun` and `Dispatch` one
call of `request_price_update` or `request_sync`.

A task and its coroutine are two things: `_LoopRunner.run` blocks the task's thread on
`future.result()`. The soft time limit raises there, the task ends and frees its slot, and the
coroutine goes on in the loop's thread (`stray`). The hard limit kills the process. `Task.retry`
reads the request of the thread it is called on, and the coroutine is on another: whether the
retry message leaves is the library's answer and both are modelled.

Abstractions. One unit of time is 15 minutes, the margin of `ABANDONED_AFTER`: the hard limit
is 2 units and the sweep 3. The soft limit (25 minutes) rounds up to 2. The heartbeats run in
processes of their own, where in production they share the workers' slots: the model has every
schedule the code has, and more. `JobRunRepository.latest` returns the last 20 runs, and the
model's history is shorter than that. The `SELECT` of a report and its `UPDATE` are one step
when it fails (`ReportFailureFlush`) and two when it succeeds.

### `Equivalences`

State and code: `cases` and `rules` are the rows of `operations.exception_case` and
`operations.resolution_rule` of the kind `unknown_category`, `alias` is
`core.category_alias` by `text_normalized`, `product` the columns of `core.product` about its
rubro (`category_raw`, `category_id`, `classified_by_user_id`, `classified_by_rule_id`).
`list` holds what the list being applied read, `doing` what the request of each person found.
`decided` is not in the code: it is the rubro each product was last given by hand.

Two modules that may not read each other's tables keep one fact in two forms. A case is
identified by the text as it arrived and an alias by what `collapse_written_form` makes of
it, so two forms may share a key: `KeyOf` is any function.

A transaction is two steps, what it reads first and everything else up to its commit: that is
where somebody else's commit fits. A list reads every product and every alias
(`ListRead`) and classifies with that (`ListCommit`); its case is opened by an `INSERT ... ON
CONFLICT`, which sees what is committed then. A request checks that its case is pending
(`TakeCase`) or its rule in force (`TakeRule`), and what its handlers read afterwards
(`alias_by_rule`, `products_classified_by`, `unclassified`) is read in the step that writes.
`Written` is SQLAlchemy's: an attribute set to the value it was loaded with is not in the
`UPDATE`. Lists come one at a time, as `JobRuns` shows for the source `price_list`.
A revocation whose cases meet the partial unique index is refused whole: `OnePendingEach` is
the guard of `Revoke`, and `Rollback` is that and every other error.

The first rules and aliases are those migration 0010 seeds (`Seeded`), rules like any other
but for one thing: no case ever closed them, so revoking one reopens nothing.

Left out: products that are not active, the 5000 products `MAX_RECLASSIFIED` stops at, renaming
and deleting rubros (in `Rubros`), the subcategory and its proposal, the windows inside a handler (between
its own `SELECT` and its `UPDATE`) and inside `set_product_category`, and what the occurrences
of a case count.

### The ledger of purchases

Each operation of `HeldInvoices` and `Orders` is one transaction and one step, and so is each of
`Calendar` and `SupplierCards` but those below: unique indexes (the number of a supplier's
invoice, the entry of an invoice, its receipt in force, the number of an order, the correction in
force of a field) undo the second of two that insert. Nothing orders two UPDATEs of a row that is
there, so what reads such a row and writes it after somebody else may have committed is split.

`HeldInvoices`. `ledger` is `core.invoice` (`text`, `number`, `supplier`, `total`, `review`,
`reason`, `manual`, `rejected`, and `person` for those somebody let through), `spelling` is
`core.supplier_alias` by `normalize_entity_name`, `disputes` the pending cases of a manual
invoice, `portal` what the portal publishes now. `Likeness` is the comparison of a name with
the register: a supplier, several of them, or none. Its actions are `register_invoices`,
`register_invoice_by_hand`, `resolve_invoice`, `save_alias`, `drop_alias`,
`settle_manual_dispute`, each with the cases it opens and closes in `triage`.

`Payments`. `payments` is the table; `worker` is the transaction that reads vouchers and
`clerk` the request each person has open, since the invoices and the state of a payment are
read at the start and no row is locked (`impute_payments`, `impute_held_payments_for`,
`split_payment`, `register_payment`). `Contained` is the LIKE by which a held voucher finds its
invoice: a pair of numbers, one of which is in the other as a text. The totals
(`_in_payment_state` and `outstanding` in SQL, `_payment_state` and `supplier_totals` in
Python) are operators over the same rows.

`Calendar`. `bill` is the invoice's dates and its supplier, `entry` its `due_date` row or a
note's, `moves` counts `due_date_change`. `Synced` is `_sync_due_date`, which every action that
touches a date calls. `today` passes. What works out the dates of invoices already registered (a
term that appears or is corrected, a supplier identified, a date corrected) is two steps: `Begins`
reads the rows and keeps in `redating` the columns its UPDATE will have, those that differ from
what was read, and `WriteDates` writes them. Anything else may commit in between; a `move_due_date`
that does marks the entry `crossed`, which is not in the code. Two such transactions over one
invoice at once, and a move that reads before one and writes after it, are not modelled.

`Orders`. `since` is the day an order came to its status; a repeat is looked for among the
orders of the same product, whose supplier may be known later than the order.

`SupplierCards`. `card` is the register's row and `corrected` the correction in force of each
field. A reading of the register is two steps: `ReadCorrections` is the SELECT of the corrections
with the comparison, the flags and the notices (`_corrections_holding`), and `PutSupplierCard` the
UPDATE of the card (`put_supplier`); `applying` is what is about to be written. `told`,
`contradicted` and `overtaken` are not in the code: what the owner was told, what the register said
since, and the corrections committed between the two steps. Two people who correct one field of one
supplier at once are not modelled.

`InvoiceFiles`. A visit is queued inside the transaction that registers an invoice, so it can
run before the commit (`In`), or after a rollback. `Download` keeps the bytes in one
transaction and `Interpret` reads and publishes them in another; `Die` comes between.
`ReadInvoiceDocument` tries the readers of a file in the order of `documents.py`; the comparison is with
the last staging row of the number and not with the invoice.

### From the portal to the catalog

`PriceLists`. `document` is `raw.portal_document`, `extraction` what each task holds between its
two transactions; `rules` is the projection `ingestion` keeps and `closedBy` what `triage`
remembers of the cases they closed; `answered` is not in the code: the questions a person
answered since the last list, whose row the next list brings again. `Publish` is a whole
transaction: the rows, the rules over them, the prices, the cases and the mark of the document.

`Prices`. A list is `StartList`, which takes the moment its points will carry and reads the
corrections in force, and `ApplyList`, which writes against them; what a person does is one short
request, stamped when it is made. So a point of a list may be older than one a person left while
the list was being applied. `BreaksIndex` is the partial unique index of the corrections, which
refuses a list that would revive one. `overtaken`, `unrecorded`, `outrun` and `lastRead` are not in
the code: they say when the provisos of the properties apply.

`Screens`. A state is a screen as far as it was written and the parsers are functions of it,
compared with what the screen says as a person would read it.

`Staging`. A row is the set of its cells that cannot be read. Reasons (parsers), the condition
under which a row is handed (ingestion) and the key of its case (triage) are three tables in
three places; `Needed`, in the property, is what the listeners of each screen need. `IsNamed` is
the parser of the register, which drops a row without a name; the property says of each row of the
page whether it is typed at all, and of what happens to those that are.

`Rubros`. `printed` is the screen of orders as the portal shows it, `screens` the ones already
read (`raw.portal_document` by its hash), `typed` counts the rows of staging, by which
`core.order_spend` is kept. A row has no rubro of its own: `RubroOf` is the outer join by which
the screen of rubros finds it through its product. What the other modules of the catalog say of
equivalences is here reduced to one form, answered and revoked in single steps.

`Sales`. Sale n comes from staging row n; `pending` and `closed` are the cases of triage,
`revenue` what catalog adds up. `RequestPendingWork` takes the answer of `pending_work` and
`Reconcile` compares it with the cases in a later query.

### People and alerts

`Inbox`. A reading is two steps because what it queues leaves before it commits; `undone` and
`early` record, outside the code, the alerts of readings that rolled back and those given up on
before the message existed. A retry is asked for from the loop's thread, as in `JobRuns`: it leaves
(`RetryDelivery`) or it does not and the alert stays `UNSENT` (`RetryUnsent`). `acks_late` may
deliver a message of the broker again (`Redeliver`): the row has a `copy`. `Recipients` has the copy
of the users `notifications` keeps, their telephones included, and the four events that feed it;
`moved`, not in the code, says that a telephone changed after it was last announced. `AlertWindow`
counts the instants of a week.

`Access`. `epoch` is not in the code: how many times a password was set or taken away; `since` is
the epoch of the password a login compared, and `caught` counts the passwords set between the
comparison and the session it opened. A login is two steps, with anything between them; every other
operation is one. A login half way through a withdrawal opens a session that answers nothing (its
access is not active), and the restoration closes it; one half way through a change of password
opens, after it, a session for the password that was replaced, and nothing closes it.

## Runs

| Run | Question | Answer |
|---|---|---|
| `price` | the price list with its heartbeat and a person: does every message have its run, and does the owner hear of each interruption once (`EachInterruptionIsToldOnce`)? | yes, while every run closes itself |
| `overlap` | two heartbeats on one section, with crashes, retries, redeliveries and limits: one open run, one attempt per run? does the margin protect a live task? | yes |
| `live` | one heartbeat over two sections, with a crash or a loss anywhere: does the table implement `OneAtATime`, is everything closed, does the heartbeat go on opening runs? | yes |
| `readers` | do two sessions ever read one section (`OneReader`)? | yes, they do: see the first finding |
| `warnings` | is the owner warned once per interruption (`WarnsOncePerInterruption`)? | no: see the second finding |
| `forms` | two people and two lists over three forms, one of them seeded: is every form of a product known or asked about, do the cases and aliases of a rule follow it? | yes; and the products of a seeded form go back when it is revoked (`RevokedSeedsGoBack`) |
| `spellings` | does a product ever keep the rubro of a revoked rule (`ProductFollowsRule`)? | yes, it does: see the third finding |
| `hand` | does a decision by hand stand (`HandDecisionStands`)? | no: see the fourth finding |
| `ledger` | the six parts of `MCPurchases`: is a voucher's money ever lost, do the sums in SQL and in Python agree, is an invoice without a supplier or in dispute always held and asked about, does what a person set on the calendar and on a card stay, is a repeat of an order earlier than it, do the rubros add up to all that was bought and sold (`CutsAddUp`)? | yes |
| `stored` | is a row of the portal one invoice (`StoredOnce`)? | no: see the fifth finding |
| `spend` | is each order worth its amount once, however often its screen is read (`SpendIsReadOnce`)? | no: see the sixth finding |
| `platform` | the ten parts of `MCPlatform`, each with the properties of its module | yes, with the provisos each property states |

Bounds. `MaxRuns` 2 or 3 is what an interruption needs (two failures and what comes after);
`MaxRetries` 1 has a first attempt, a retry and an exhausted one (the code has 2);
`MaxFaults` 1 places one crash or loss at every point; `MaxAge` 3 is the sweep's threshold,
beyond which no age is told apart. `live` has a hard
limit of 1 and a sweep of 2, one less each, so that a task still ends before its run is swept,
and three runs between two sections: each has its first one interrupted and a next. `HistoryFull` is the end of the bounded history and not an
action of the code. Deadlock is checked in the runs of `JobRuns` and `Equivalences`; the parts of
the other two stop when their tables are full.

In `forms`, two forms that collapse to one and a third that does not are every relation forms
can have, and the third is seeded; two lists put one before and one after a decision; two learned
rules and two people have two answers to one case, or an answer while another rule is revoked.
One rubro is enough there, since none of its properties tells rubros apart; `hand`, which does,
has two. `spellings` and `hand` need one person and two products. `Room` and `IsNextRule` are
the ends of the bounded tables.

In `ledger`, two invoices of two suppliers whose numbers are one in the other, a voucher that
names one and a voucher that names both, two clerks and the worker; three payments are a split
and one more. One bill and one note over three days are before, on and after a due date, with two
moves, one of them inside a transaction, and one receipt. Two
spellings, one alike and one ambiguous, and two totals to dispute. Two orders over two days with
a window of 0: inside and outside of it. Three values of a field: the portal's, the corrected
one and another. Two rubros, so that a product may leave one for the other before it is deleted;
one product, a line of an order on two screens and a sale.

In `platform`, three lists and three requests put two corrections around a list; three sales over
two readings are a repetition of a repetition; three contents seed, lose and bring a product
late, and two extractions may hold one; four lines or blocks are two headings with a table each;
two rows read twice with one broken cell; two invoices of one number and five kinds of document;
four messages, with and without an id and a date, over three readings, the first of which alerts
nobody, to one telephone, with one retry and one redelivery; two users, two telephones and one kind
of alert; two sessions and three passwords. Symmetry is used in `ledger` only, over clerks, order
numbers and values, which no property orders.

Fairness. `FairSpec` of `JobRuns`: Beat wakes the heartbeats every 15 minutes for ever, so each
step of a heartbeat is taken; requests and statements sent to the database end; Celery enforces
the time limits; time passes. Nothing is asked of the portal, of the worker that reads it or of
the broker: a run is closed because the sweep closes it. `SalesFairness`: the task of the
pending work is scheduled for ever and both of its steps end; nothing is asked of readings or
people.

## Proofs

All of them hold for any values of the constants that satisfy the named assumptions of the
modules, and in particular for any number of sources, invoices, users, lists or sessions. The
bounds of the tables are guards like any other there. The assumptions say what the code's types
say: sets that are told apart from the absence of a value (`NoOne`, `NoFile`, `Nil`), finite sets
of telephones or of sums on a document, a name that means one supplier at most (`Whose`), the
five screens `Staging` reads. Every one is evaluated by TLC in the run of its module.

Every safety invariant and action property of the passing runs is a theorem. The eight modules:

| Module | Is about | Inductive invariants |
|---|---|---|
| `FoldTheorems` | what folds and sums over sequences and finite sets compute | |
| `JobRunsProofs` | `JobRuns`, `OneAtATime` | `IInv`, `HandedOnce`, `ClocksAgree`, `ToldInv` |
| `EquivalencesProofs` | `Equivalences` | `IInv`, `SeedsAreKnown` |
| `CatalogProofs` | `PriceLists`, `Prices` | `ListsInv`, `PricesInv` |
| `PurchasesProofs` | `HeldInvoices`, `SupplierCards`, `Calendar`, `Orders` | `HeldInv`, `CardsInv`, `CalendarInv`, `OrdersInv` |
| `MoneyProofs` | `Payments`, `Rubros` | `PaymentsInv`, `RubrosInv` |
| `PeopleProofs` | `Access`, `Recipients`, `Inbox`, `AlertWindow` | `AccessInv`, `RecipientsInv`, `InboxInv`, `WindowInv` |
| `IngestionProofs` | `Sales`, `InvoiceFiles`, `Screens`, `Staging` | `SalesInv`, `FilesInv`, `StagingInv` |

`FoldTheorems`. The parsers, the sums and a reading of sales are folds over data of any length.
The library's induction theorems cannot be used here (they take an operator as a parameter), so
the induction is done by hand: the least place at which a fold is not what it should be does not
exist. `FoldInOrder` turns a fold over a sequence into a run of its step (`IsRun`), from which each
proof shows what holds after n elements; the lemmas about sums (`SumUnion`, `SumWithout`,
`SumByClass`, `SumRenamed`) are what the money needs. `SelectSeq` and the sequences made by sorting a set
are opaque to the provers, so `Named` (`Staging`) and `ApplyAlias` (`Orders`) are folds.

`JobRunsProofs`:

- `TypesHold`: `TypeOK`.
- `OneRunOfEachSource`: `OneOpenRun`. It is not inductive: the check and the insertion are two
  steps. The strengthening is `Serialized`: from the check to the commit the source's lock is
  held by who checked (`LockHeld`), and what the check saw still holds (`CheckStillHolds`),
  because every other way to insert needs the same lock.
- `NoWorkWithoutItsRun`: `NoOrphanWork`, from `InTable`: rows are filled in order, and every
  process and message is about a row that is there.
- `OneAttemptOfEachRun`: `SingleAttempt`, from `HandedOnce`: a run is in the hands of one session
  about to send its message, or of one message, or of one worker, and every step passes it on or
  lets go of it. A run that opens is in nobody's, by `InTable`.
- `InterruptionsAreTold`: `EachInterruptionIsToldOnce`, from `ToldInv`. What is announced depends on
  how many of the last runs failed, so the open run must be the newest of its source
  (`OpenIsNewest`); a worker decides to warn before it commits, so what it decided must still be
  right then (`Decided`), which it is because whoever has a run in hand has an open one
  (`Handed`) while the sweep closed none.
- `TheMarginProtects`: `MarginHolds`, from `ClocksAgree`: a run has aged no more than its attempt
  has lasted since it found it, the attempt no more than the hard limit, and what was swept, or is
  being swept, is as old as `ABANDONED_AFTER`.
- `RunsKeepThePromise`: the safety part of the refinement of `OneAtATime`, step by step from
  the inductive invariant `IInv` = `TypeOK`, `InTable`, `Serialized`.

`EquivalencesProofs`:

- `TypesHold`: `TypeOK`, which no run checks apart: the theorem is of every instance.
- `CasesFollowTheirRule`, `AliasesFollowTheirRule`: `CaseFollowsRule`, `AliasFollowsRule`.
- `NoFormIsLost`: `NothingLost`, of the forms that are not seeded. It is not inductive: a list may
  commit a form it believes known. The strengthening is `ListIsAnswered` (what the list read as
  known is still known or asked about), and for it to survive a revocation `AliasHasItsCase`: the
  alias of such a form has a case its rule closed, which is the one `reopen_by_rule` brings back.
  `HandsStay` carries the decisions by hand the list saw to its commit. `IInv` is all of them.
- `SeedsGoBackWhenRevoked`: the action property `RevokedSeedsGoBack`, of the seeded forms, from
  `SeedsAreKnown`: while its rule is in force such a form has its alias and no case, and the list
  being applied knows it, so nobody can be asked about it and answer it over. It takes the
  place of an invariant that said more and held in `forms`: that a product with a seeded form is
  always known or asked about. The proof did not close, and with four lists TLC shows why, in 17
  states: an attribute set to the value it was loaded with is not written, so lists that overlap a
  revocation and an answer leave a product with the seeded form and the rule of another one.
  Revoking the seeded rule then finds no product of it, and asks nobody.

`CatalogProofs`, `PriceLists` (`ListsInv`):

- `ListsAreTyped`.
- `DocumentsAppliedOnce`: `AppliedExactlyOnce`, from `HeldIsUnread`: what an extraction holds is
  stored and unread, and nobody else holds it.
- `RowsAreAnswered`: `NoRowGoesUnanswered`. Revoking a rule takes back what it priced, so the
  case it closed has to be there to reopen: `RuleKnowsItsCase`, with `RulesAreNumbered` so that
  one decision is not mistaken for another.

`CatalogProofs`, `Prices` (`PricesInv`): `CorrectedPricesStand` and `CurvesEndAtThePrice`. Undoing
a correction shows again what it hid, so the invariant carries that the curve still ends there
(`PortalEndsTheCurve`), and that a new point is after every other one (`PointsArePast`), but for
the one of a list, which is of the moment the list started (`ListIsLater`).

`PurchasesProofs`:

- `NoDebtWithoutSupplier`: `UnattributedIsHeld`, and `DisputesAreAsked`: `DisputeIsAsked`. Each row is
  kept with its dispute (`Kept`): revoking a spelling holds every row it had let through, and a
  reading that opens a dispute holds the row in the same step. The index on (supplier, number) is
  not needed for either.
- `RejectedStaysRejected`: the action property `RejectedIsNotAskedAgain`; every step proves, with
  the invariant, that what it asks anew is not what was rejected (`StepKeeps`).
- `CorrectionsStand` and `DifferencesAreTold`. The second needs `ConflictCame`: the difference a
  correction is in conflict with is one the register said and the owner was told, which is why
  repeating it is silent. The first needs `WritesNoCorrection`: what the register is about to write
  is a field nobody corrected, or one it overtook.
- `RescheduledEntriesStay` and `LateInvoicesStayLate`: two action properties, action by action,
  from the typing of the dates, from every entry of an invoice having its invoice, and from what
  the transaction in hand is about to write (`WritesWhatItRead`): entries that were not rescheduled
  when it read them and that nobody moved since, and due dates that are issue plus term.
- `RepeatsAreEarlier`: `RepeatIsEarlier`. An order is compared when its supplier is known, which may
  be much later than the order, and saving a spelling attaches several at once, the latest
  first: the property is kept by each of them (`AttachKeeps`) over any table in which it holds,
  and so by the fold over those held under the name (`AliasKeeps`). What keeps it is that nobody
  takes the supplier of an order away.

`MoneyProofs`:

- `VouchersAreKept`: `NoVoucherLost`, from `PaymentsInv`. The worker and the clerks write what they
  read earlier, so the invariant is also about their copies: the row of the worker is whole, and
  the parts of a clerk who splits add up to the voucher (`SplitsWhole`), whatever happened to its
  row since.
- `FilterAgrees`: `FilterShowsWhatTheRowSays`. The filter in SQL and the state in Python are two
  definitions over one table of rows; it needs the signs of totals and payments.
- `DebtsAddUp`: `DebtAddsUp`: sums over a partition, by suppliers and by how late each invoice is.
- `NoRowIsLost`: `CutsAddUp`, from `RubrosInv`: no product is of a rubro that was deleted, or the
  outer join would drop what it bought and sold.

`PeopleProofs`:

- `CopyFollowsIdentity` (`CopyAgrees`: the copy is of everybody who was announced and says what
  identity says), and from it `AlertsFollowTheRole`, of the users and of the telephones: the one a
  user had when last announced, and that one is theirs unless it changed since.
- `AccessesAreTyped` and `SessionsFollowThePassword`. Restoring an access or redeeming its link
  makes sessions answer again, so the invariant is about the ones not revoked, whether they answer
  or not (`OpenSinceThen`), and says that an access is activated while it has a password
  (`ActivatedWithPassword`). Each session counts from the password its login compared and those set
  before it opened.
- `TypedMessagesAreHeard` and `AlertsAreCounted`: `TypedIsShownOrAsked` and `UrgentIsToldOnceOrShown`.
  The second counts deliveries, which a reading queues before it commits: the invariant says
  how many there are of each message, redeliveries apart (`WellCounted`), that a reading brings only
  what was never typed (`ReadingIsNew`), and that what was given up on is written on the message or was early
  (`GivenUpIsWritten`).
- `AlertsLeaveOnTime`: `LeavesWhenTheWindowOpens`, arithmetic with days and times. That the copy of
  the hours is what the owner set is `WindowInv`.

`IngestionProofs`:

- `OneReadingCounts` and `RevenueIsOfWhatCounts`: `CountedOnce` and `RevenueFollowsReadings`. A reading is
  a fold over its rows and the revenue moves once, at its end: the invariant of the fold
  (`Accounted`) says what the revenue will be once what was added so far is in and what was dropped
  is out.
- `DocumentsAreHeard`: `DocumentIsHeard`, from `FilesInv`: an invoice alone under its number and not in
  review agrees with its document, and a content already interpreted was heard by some invoice
  or is one of the exceptions.
- `ScreensAreReadAsWritten`: `ReadAsWritten`, by what each parser knows after n lines (`ReadSoFar`) and
  after n blocks (`LedgerSoFar`).
- `BrokenRowsAreAskedOnce`: `BrokenRowsAreAsked`, from `StagingInv`. The three tables (the reasons, the
  conditions, the keys) agree row by row (`RowsThatLack`), which does not depend on the state; the
  rest is that a case counts the rows that wait and keeps the last: for each pending case, and not
  for each row as in the property, because an answer removes a case and a reading adds rows to it
  (`ReadingKeepsCases`, over any table). That a row of the page is typed or has no name is about
  the rows the parser makes (`LinesAreTyped`).

A proof found a slip of the models: `SUBSET Rows \ {{}}` is the subsets of `Rows \ {{}}`, the empty
set among them. `InvoiceFiles` and `Payments` chose a set that could be empty where the code has
a row at least; they now say `(SUBSET Rows) \ {{}}`.

Model-checked only: the liveness properties (`OpenRunsAreClosed`, `NeverWedged`,
`QueueCatchesUp`), since fairness and ENABLED are beyond the prover; and what the violation runs
are about, which is false (`StoredOnce`, `WarnsOncePerInterruption`, `OneReader`, `ProductFollowsRule`,
`HandDecisionStands`, `SpendIsReadOnce`).

## Findings

1. `readers`. With a single slot, two coroutines read the same section: the soft limit ends the
   task, the coroutine goes on, the sweep closes its run and the next one starts.
2. `warnings`. The sweep closes the second failing run and warns; the run's own worker reports
   its failure later, the row is written FAILED again, the count is 2 again and the owner is
   warned a second time.
3. `spellings`. Two spellings of one form are two cases and one alias. Answering the second
   gives the alias to its rule; revoking the first rule finds no alias, returns, and its
   products keep the rubro of a rule without effect.
4. `hand`. A list decides with the products it read at its start: a product classified by hand
   before its commit is given the rubro of an equivalence, and still says a person decided it.
5. `stored`. An invoice held for its supplier is looked up among those without one: once a
   person says whose it is without remembering the spelling, the next reading of the same row
   does not find it and registers it again.
6. `spend`. A screen of orders that changed is typed whole into new rows of staging
   (`ingestion/service.py:621`), and the spend of the catalog is one row for each row of staging:
   the `ON CONFLICT` of `catalog/repository.py:394` never meets the earlier reading, and every
   order on the screen is added again to what its rubro spent. "Reading the same order twice has to
   leave the same total" (`catalog/repository.py:383`).

Seen on the way, and behind the provisos of the properties rather than runs of their own:

- `Equivalences`: two people who answer one case at once leave two rules in force, one of which no
  alias projects; a product whose form is seeded may carry the rule of another form, and then revoking
  the seeded one asks nobody about it (see `SeedsGoBackWhenRevoked`); a product that changes to
  an unknown form keeps the rubro it had, where RF-22
  says no rubro is assigned.
- `Prices`: a list that read the corrections before a person corrects writes its price over the
  corrected one, or revives a correction that was reverted (`overtaken`); correcting a price a
  person had loaded leaves neither a point nor a correction (`unrecorded`); a list stamps its points
  with the moment it started (`catalog/service.py:243`), so the curve ends at the price a person
  set meanwhile while the price shown is the list's (`outrun`).
- `PriceLists`: the hash of a content is permanent, so a portal that publishes A, B, A is left at
  B; two extractions that hold a document at once apply it twice (`overlapped`); a rule about an
  unreadable row also prices a repeated code.
- `Sales`: a decision, a correction or an undoing never reaches the revenue of the catalog
  (`touched`); a task of the pending work that started before a reading closes the case the
  reading opened, until the next one.
- `Inbox`: a message with an id of its own and no date is typed and then neither registered nor
  asked about; an alert leaves although its reading rolls back; one whose retry never leaves
  (`notifications/tasks.py:97` asks for it outside the task's thread) is neither told nor shown,
  where RF-38 of 007 wants the failure in sight; one that the broker redelivers is told twice.
- `Staging`: the case of an unreadable payment or sale is keyed by its staging row, so each
  reading asks again, where RF-07 of 011 wants one question; a row of the register without a name
  is dropped by the parser (`parsers.py:790`) and asks nothing, where the comment over the
  pipelines (`ingestion/service.py:361`) says that nothing is discarded.
- `SupplierCards`: a correction committed while the register is being read is written over by the
  register's value and stays in force over it (`overtaken`).
- `Calendar`: an entry a person moves while the term of its supplier, its supplier or its date is
  being worked out goes back to the computed day (`crossed`): the person's date is lost.
- `Access`: a login that compared the password before it was replaced opens its session after, and
  that session answers (`identity/service.py:289`), where the docstring of `change_password`
  (`:379`) says a session somebody else opened does not survive.
- `InvoiceFiles`: of two invoices with one number only the first gets its document; an invoice
  identified by the tax id of its document is not compared with it; a visit that runs before the
  commit finds no invoice and the document is not read again.
- `HeldInvoices`, `Payments`: a held voucher is imputed to an invoice whose number contains the one
  it names, whoever its supplier is; two splits of one voucher at once impute it twice.
- `Recipients`: a change of telephone publishes nothing (`identity/service.py:208`), so alerts go on
  to the old number, against RF-44 of 007; and the first owner is never announced.
- `Rubros`: deleting a rubro checks the active products, so one that only discontinued products
  carry is refused by the foreign key with an integrity error, which the docstring of
  `delete_category` says is not to be left to it.
- `AlertWindow`: hours set the wrong way round are accepted and never open.

## Not modelled

The browser client, the routes, the schemas of requests, the migrations and the frontend keep no
state of the business or only translate it. The event bus is the composition of handlers inside
each action. The live channel is a best-effort refresh of open screens. The text of amounts, dates
and names is abstracted to what its reader makes of it. The log of changes and of accesses is
written and never read back by the code. The lists, dashboards and digests are queries, but for
those whose answer a property compares (the debt, the state of a payment, the pending work).
Left out of modelled components: the
description and currency of a product, the resolution and notes of a message, redeciding a rule
that is not an equivalence, the history of one product's price and the delivery of links.
