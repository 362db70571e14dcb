# RistoAI: a specification of its server

RistoAI is the server of a restaurant finance application: FastAPI handlers over
MongoDB (through Motor), one tenant per restaurant.  Users record documents,
daily closings, expenses, cash movements and stock; the server derives finance
transactions, linked rows and precomputed day, week and month snapshots from
them.  A subscription, paid through Stripe or RevenueCat, gates the access.

The server has no transactions, no locks and no version checks.  A request is a
coroutine; at each `await` other requests run, in the same process or in another
worker, and if it fails half way what it has written stays.  So the questions
worth asking are: does every handler keep all derived rows in step with their
source; what can requests do to each other; what remains of a failed one; what
does the history of a subscription say after late, repeated or reordered
webhooks; and what may a worker that starts up do to data another one serves.

## Inventory

| Component | State | Operations | What is hard | What makes it correct |
|---|---|---|---|---|
| Finance ledger (`services/restaurant.py`, `repositories/restaurant_ops.py`) | documents, manual entries, expenses, cash deposits, inventory items; derived: finance transactions, linked expenses and deposits, document items, snapshots | create, confirm, edit, delete of each source; delete-by-date; `_sync_restaurant_record` | a dozen handlers must each rewrite five kinds of derived rows | derived rows are those of the sources' content; snapshots are what recomputing them gives |
| Concurrent requests on the ledger | the same, and the local state of requests | the handlers' awaits | interleaving, failure half way, unique snapshot index, page caps | wrong data only where requests met or failed; repaired by the next one |
| Subscriptions (`services/subscription.py`, `webhooks.py`, `user_management.py`) | subscription fields of the user, rows of `user_subscriptions`; outside: Stripe | select, cancel, Stripe and RevenueCat webhooks, edits by an administrator | order, repetition and retry of events; overlapping requests; failures between two writes | one current row; closed rows stay; user and history converge to Stripe |
| Migrations (`db/migrations.py`) | markers, and the collections they rewrite | two migrations at the start of each worker | several workers, crashes, requests served meanwhile | a marker means the work is done; nothing a user did is taken back |
| Inventory stock | items with quantity, status and history; a linked expense each | create, edit, add and remove stock, delete | read, check and write of one quantity by two requests; an expense written after the item | never below zero, no lost removal, one fitting expense |
| Bank accounts, inventory metadata | named rows | find or create, rename, delete | uniqueness under races | one row per name, none missing |
| Figures (`restaurant_cash.py`, `restaurant.py`) | none | home, cash, daily data, expenses, analytics, VAT: each sums rows or snapshots with its own code | one sale is stored in several rows; periods, zero and missing fields | a sale counts once, periods add up, screens agree |
| Accounts (`auth.py`, `onboarding.py`, `user_management.py`, `bootstrap.py`) | users, codes, profiles | register, verify, forget, reset, change, onboard, suspend, restrict, activate, edit; the default administrator of each start | codes replaced while being used; whole fields written from an earlier read; a profile and a flag in two documents | one use of one code; nothing undone that was not read |
| Subscription guard | none | a decision per request | reads a stored status | nobody is locked out for good |
| Plans, coupons, checkout (`subscription.py`, `dashboard.py`) | plans with one best-plan flag, coupons, the Stripe customer | create, edit, quote, check out; revenue of a subscriber | flag cleared plan by plan, names that change, dates kept as text | one best plan; quotes in range; one customer |
| Admin settings, support tickets | one settings document with two legal documents; tickets | read (creates or upgrades), save; open, reply, resolve, list with counters | a reader that writes; counters read apart | nothing saved is lost; counters add up |
| Chat, insights (`restaurant.py`, `socketio_app.py`) | messages, memory, insights, the apps that show them | create, edit, reply, list, broadcast | replies generated while others write | the newest reply answers the text; the context is recent |
| Language model calls (`openai_ops.py`) | a table of running generations | run, await, cancel, expire | one task awaited by many | everyone who waits ends |
| Notifications and push | devices and settings in the user's record, alerts with a dedupe key | register device, save settings, post alerts | the user's record as it was when the request arrived; find, then create | a push goes to whom it is wanted, once |
| Images, email, HTTP schemas, demo pages, profile | none, or one document | I/O, validation, one write | - | - |

The components meet in the database.  The handlers of documents, records,
expenses and items call each other's sync routines directly; the guard and
authentication read the user that subscriptions and the administrator write;
the migrations write the ledger's collections behind its back.  Inventory, chat
and analytics share the names, the user's phones and the table of generations.

## The modules

| Module | Models |
|---|---|
| `LedgerRows` | pure part of the ledger: shapes of rows, and which transactions, linked expenses and linked deposits the content of a source asks for |
| `FinanceLedger`, `FinanceLedgerProps` | one tenant's ledger, an action is one whole request; its properties |
| `FinanceLedgerProofs` | proofs: the derived rows, with lemmas on the row builders; the snapshots |
| `DepositRequests`, `DepositHistory`, `DepositProofs` | deposit requests await by await, any number at once; what concurrency may do |
| `SerialDeposits` | the refinement of `FinanceLedger` (proved in `DepositProofs`) |
| `Subscriptions`, `SubscriptionProps` | user, history and Stripe, await by await; what it is to follow Stripe |
| `SubscriptionHistory`, `SubscriptionProofs` | which requests and events may leave them apart, and that no others do; its proofs |
| `Migrations`, `MigrationHistory`, `MigrationProofs` | start-up of several workers, await by await |
| `Accounts`, `AccountHistory`, `AccountProofs` | users, codes, profiles, the guard and the default administrator, await by await |
| `Figures`, `Screens`, `ScreensAgree`, `FiguresProofs` | the sums of rows that make a snapshot; every screen's own sums; what they owe each other; its proofs |
| `TenantRequests` | the slots of requests in flight, shared by the modules below |
| `TenantNames`, `Inventory`, `Notices`, `Generations`, `Assistant` | names; stock; phones, alerts and pushes; the table of generations; chat and insights |
| `Plans`, `Coupons`, `BackOffice` | plans and revenue; coupons, quotes and checkout; settings and tickets |
| `Desk`, `DeskHistory`, `OfficeProps` | their composition; history and properties of the restaurant's side; of the administrators' |
| `DeskProofs`, `RestaurantProofs` | proofs of texts, checkout, chat and the administrators' side; of stock, names, pushes and types |
| `MC...` | the instances TLC checks |

Operators whose comment begins with *Mutant* are not part of the model: each is
an operator of the model as a plausible mistake in the code would make it, and
the property named beside it in `PROJECT.json` must fail with it.

### LedgerRows and FinanceLedger

`src[i]` is the source record with id `i` of whatever kind; `txs[i]`,
`linkedExpense[i]`, `linkedDeposits[i]`, `lineItems[i]` are the rows of
`restaurant_finance_transactions`, `restaurant_expenses`,
`restaurant_cash_deposits` and the inventory that carry `i` as their
`source_id`; `snap[p]` is the snapshot of a day, week or month, as the rows and
transactions it was computed from.  A handler is one action: it checks what the
code checks, writes the source, calls the operators named after the code's sync
routines (`SyncProcessedDocument`, `RecordLinkedDeposits`, ...) and recomputes
with `SyncRecords` the periods of the dates the code passes to
`_sync_restaurant_record`, no others.  `today` is there because a missing
date is parsed as the current day.  Amounts are a small set in which zero matters
(`if amount <= 0`); a snapshot keeps what is summed, not the sum.  The stock
usage of daily records is left out: the handlers always pass an empty list.

### DepositRequests, DepositHistory, SerialDeposits

A request slot holds the handler's local variables and the await it stands at:
`Write`, `Clear` and `Fill` (delete and insert of the transactions),
`ReadDeposits`, `ReadTransactions`, and for each of day, week and month `Find`
and `Save`.  `Fail` ends a request anywhere.  Reads are pages of `DepositLimit`
and `TransactionLimit` rows (500 and 2000 in the code).  The unique index makes an insert
fail where another request inserted, and an update or delete fails where another
deleted.  Deposits are the smallest source; the others do the same steps with
more of them.

`DepositHistory` adds what no code stores: the periods (`suspect`) and deposits
(`shaky`) where two requests met or one failed, and who has worked undisturbed
since.  `SerialDeposits` maps the store at the end of each request to the
ledger: `ImplementsLedger` says that await-by-await requests served one at a
time are the atomic actions of `FinanceLedger`.

### Subscriptions

`user` has the subscription fields, `history` the rows of `user_subscriptions`,
`req[r]` a handler's place and locals.  Stripe (`stripe`, `log`) is outside the
repository: it moves a paid subscription through its statuses and records
events; `Receive` takes an event, in order or not, again or not, and it stays
unanswered when its handling fails.  `Subscribe` assumes Stripe has one live
subscription at a time for the user.  RevenueCat and the administrator are
single writes of the user's status.

Nothing in the code orders requests or events, so `SubscriptionHistory`
remembers whose knowledge is old when it writes, and the properties excuse that
and nothing else:

- `outdated`: requests since whose look at the history (closing the current rows, finding
  one) it has changed; `spoilt`: one of them has created or kept a row and no request has
  closed the current rows since, so that there may be two;
- `mixed`: synchronisations since whose write of the user another request wrote;
- `drifted`: somebody wrote whom Stripe did not tell to, or an event was applied
  after one that Stripe sent later, or again, or mixed with another write.  It ends with the next
  synchronisation that is none of these: that one must repair whatever was there
  before, half-done requests included;
- `own`: the event of the cancellation a request has itself made at Stripe.

### Migrations

Each worker has a program counter over `_run_migration_once`: look for the
marker, run the migration document by document, set the marker, then serve.  The
first one copies documents and snapshots from the collections of an older
version; the second writes back each daily record it has read, normalised, and
deletes and inserts its rows, then recomputes days.  Contents are versions: 0 is what
the older version left, a request makes a new one, so that "an older version is
written over a newer one" can be said.  `Crash` stops a worker at any await.
Requests are single steps here.  `raced` records the migrations two workers ran
at the same time.

### Accounts and AccountHistory

`users` holds what a user document says about access: address, password, role,
the flags, the status of account and subscription.  `codes` are the rows of
`auth_codes`; two codes may have the same value by chance.  A request reads the
user it works for, may await, and writes the fields the code writes from what
it read; `Next` has one action per await.  `Guard` is the middleware's decision
from the user as it was, and handlers it stands before have it as a guard.
`EnsureSuperAdmin` is what each start of a worker does.

An administrator's edit (`UpdateUser`) carries any of the fields of
`UserManagementUpdateRequest` that a user document here has (`UpdateFields`:
address, role, `is_active`, `email_verified`, `account_status`, and the plan and status of
the subscription) and writes the given ones as they are (`Amended`); `Updates` is
the set of edits that occur.  Left out of it are names, phone, location and the
dates of the subscription, which neither the guard nor the login reads, with the check of
those dates against each other.

`AccountHistory` remembers which codes two requests issued or held at once and
which status billing or an edit gave last (`said`), and the properties name the
requests that may undo a verification, a suspension or a status: edits that say so, and
those that read them before.

### Figures, Screens, ScreensAgree

The one variable is what the owner entered.  The derived rows are those of
`LedgerRows`, and the snapshots those of a ledger at rest: that requests bring
it there is the subject of `FinanceLedger` and `DepositRequests`.  `Figures` has
the operators of `restaurant_cash.py`, which turn rows into snapshots; `Screens`
those of the services, each with the detours of its code (which rows it reads,
how it tells a revenue entry from a deposit, what it cuts off at zero, where a
period begins).  Amounts are whole numbers, VAT amounts hundredths.

### Desk

`Inventory`, `Notices`, `Assistant`, `Plans`, `Coupons` and `BackOffice` have each
their own state and one action per await; `TenantRequests` has the local
variables of the handlers, so that `Desk` interleaves handlers of all of them.
`Stop` ends a request at an await, as an exception or a stopped process does;
what it has written stays.  Stock, names, devices, settings, plans and legal
documents are read, and written back awaits later.  `Generations` is the table of
`_run_cached_generation`: a leader's task that others await, an asyncio task that
a cancelled waiter takes down with itself, the entry taken off in a `finally`.
The language model is external: it may answer with any text, or fail, which the
code turns into a fallback text.  Stripe appears in the checkout as what hands
out customers and sessions.  `topic` chooses which kinds of requests arrive in a
behaviour; stock and alerts, which push, also come together with phones, and
items bring their names along.

`DeskHistory` keeps what the state would be had the requests run one by one
(`due`: stock, history and cost of an item; `asked`; `ordered`), and what two requests worked on at once (`mixed`)
or one left half done (`stopped`).  The properties say what holds of everything
else, so they are about which races the code has and which it has not.

## Runs

| Run | Asks | Bounds |
|---|---|---|
| `ledger` | after any request sequence, do all derived rows follow the sources; what leaves a snapshot stale | one id that is a source of every kind in turn, two days and their month, forms with zero and non-zero amounts, one stockable line |
| `ledger_pairs` | does a request on one source disturb another of the same day | two ids of three kinds: a day shared, a delete-by-date that hits both |
| `deposit_requests` | where may data be wrong when requests overlap and fail | two at once, three in all, two deposits, two days of a week, failures anywhere |
| `deposits_serial` | are awaited requests, alone, the atomic ones | four requests, zero amounts, two days in one week and two months |
| `subscription_stripe` | do user and history follow Stripe and reach it | two subscriptions one after the other, nine events in order and cancellations in all, a failed delivery |
| `subscription_history` | is the history well formed and do both follow Stripe, but for what is named | all kinds of requests, two at once; five events, repetitions and requests in all, in any order: a failed payment and a request, an ended subscription and the next, or a subscription and three requests; a failure |
| `migrations` | do markers mean what they say, is nothing taken back, does start-up end | two workers, one record and one document, a day and its week, two edits, two crashes |
| `accounts` | what can overlapping requests undo of an account | two users, addresses, passwords and values of codes; two requests at once, four in all; all kinds of requests; edits of one field, of two and of all |
| `figures` | do the screens agree, does a sale count once | any two rows of eighteen forms on days 8, 9 and 30, entered, edited, removed; weeks of 7 days, months of 28 |
| `desk` | what can overlapping or failing requests spoil of the rest, and does each end | two requests at once, two to four in all by topic, a failure at any await; one item with stock up to 4 |
| `chat_context` | do the messages the model gets as recent include the newest | **violated**: the oldest are read |
| `coupons_expire` | is an expired coupon refused | **violated**: its expiry is stored as text and compared as a date |

Ten runs pass; `chat_context` and `coupons_expire` are disagreements of the code with its own
text and tests, which `PROJECT.json` quotes.  Every action of every module fires
in a passing run.  Deadlock is not checked: each model ends when its bounds are
used up.  A property is a conjunction of named parts, each with a comment that
says what it is about.

The bounds are small because what goes wrong needs few things.  A move needs
two dates and a period with both.  A race needs two requests, and a third to
show that it is repaired; a reordering two events of one subscription, a
migration race two workers and a request between them.  An event that comes too late
needs one beside it or answered before it: `subscription_history` shares five
arrivals between events and requests, which lets the events of a failed payment
or of a subscription that another has replaced come late.  Two rows suffice for
the screens, whose sums are over one row at a time or a row and the ones linked
to it; days 8 and 9 share a week and a month, which day 30 does not.  In
`desk` the limits of the chat are 2, 3 and 4 messages instead of 8, 12 and 40, so that a
chat passes each of them; the slots of requests are alike, so an
arriving request takes the first free one; there are at most two plans, as the unique
index leaves room for one beside the default; coupons expire in the past, in the
future or never, and no clock runs.  An old chat is empty, answered by a reply without
translation, or has a message nobody answered.

Seen while modelling, and without a run of their own, as the properties are
stated around them or about what holds besides:

- a processed document confirmed again under another date leaves the old day
  counting it (`restaurant.py:1988`; `OnlyMovesLeaveStaleSnapshots` names it), and delete-by-date leaves the
  transactions of a food cost entry (3161; `TransactionsAgree` names it);
- a day may have several records, as `create_daily_data` always inserts; pages of
  500 rows make snapshots of long histories incomplete; of two requests of one
  day, the earlier reader may write its snapshot last (4946);
- Stripe events that arrive in another order leave the older status
  (`subscription.py:289`); a local plan chosen after a Stripe one is cancelled at
  Stripe (210); two plan selections at once leave two current rows;
- home counts a revenue entry as sale and as deposit (6411), the bars of a month
  leave out its last two days (5994), the cash overview counts linked rows of
  records too (2507);
- a second plan beside the default always fails on the unique index, after the
  best-plan flag was cleared; each start of a worker gives the default plan its
  name and flag back, so that with `SUBSCRIPTION_PLAN_IS_BEST` set (`settings.py:78`;
  the default, and `desk`, have it off) a start between the clear of the flags and
  the write of another best plan leaves two; for a plan that is not found the dashboard counts 30 and
  the overview 0.

### Fairness

Safety runs assume none.  `subscription_stripe` (`FairHSpec`): an accepted
request runs on (the event loop schedules every ready coroutine) and Stripe
sends an event until it is answered, which its webhooks do; failures are bounded.
`migrations` (`FairHSpec`): a worker that is down is started again and runs its
start-up on, as a process manager and the event loop do; no fairness for
requests or crashes, and crashes are bounded by `MaxCrashes`.  `desk` (`HSpec`):
some handler whose await is over is resumed, or some model call answers, as long
as there is one: asyncio resumes ready handlers, and database, Expo, Stripe and
model clients have timeouts.  One such condition for all requests is enough
because each has finitely many steps; nothing is assumed of arrivals, failures,
cancellations and expiries.

## Proofs

The provers work for every value of the constants: any number of sources, dates,
amounts, workers, subscriptions, users, requests at once and failures.  Each invariant
below was first given to TLC, on the instance of the component's run.

*Ledger.*  `LedgerInv` says that types hold and, source by source (`RowsAgree`),
that all derived rows are those of the content.  The single properties
are not inductive: a handler that rewrites only what changed (delete a subtype,
keep a purchase row) relies on the others.  Its first lemmas show what each
routine returns for any old rows; `StoreKeeps` that rewriting one source leaves the
others' rows; then one lemma per kind of handler.  The snapshot theorems
rest on it: `SnapshotKept` says that a period whose
rows did not change has the same snapshot, `StoreKeepsFresh` that a
handler which recomputes the old and the new date leaves no other period stale, and
each handler is shown to do so, except the two that
`OnlyMovesLeaveStaleSnapshots` names.

*Deposits of concurrent requests.*  `OnceInv` explains why a deposit nobody
interfered with has one transaction: a request that has the deposit to itself
finds it at each await as it left it (`Prepared`), and only a deposit that is
being written, or is `shaky`, may have other rows than its content asks for.
`StaleInv` does so for snapshots: what a request has read of a period nobody else
touched since is still what is stored (`Current`), so what it saves is fresh.
`StaleWhereDisturbed` assumes `PagesSuffice`: the pages of 500 and 2000 rows
hold all there are.  Without it the property is false, as the hazards say; the
theorem assumes it of every state of the behaviour (`HSpec /\ []PagesSuffice`).

*Deposits as the ledger has them.*  `AsIfAtomic`, in `DepositProofs` too, is the refinement: under
`SerialDeposits`'s mapping every behaviour of `SSpec` is one of `FinanceLedger`.
`SerialInv` compares the store of the request at work with `committed`, the
store it found: which rows it has written by each await (`RowsAtWork`), and that
every period it is through with has the snapshot of its final rows, while what
is left (`Left`) are periods of the dates it changes (`SnapshotsAtWork`).  Then the last
save is a create, update or delete of the ledger (`Creates`, `Updates`, `Deletes`),
and every other step a stutter.  It assumes what the mapping is for:
requests come one at a time and do not fail (`SerialAssumption`), and one page
holds all rows (`PagesAssumption`).  `LedgerAssumption` keeps `NULL` apart from rows and
dates.

*Subscriptions.*  All theorems hold for any number of requests at once, any
order and repetition of events and any failures.  `HistoryInv` says that a request which is
not `outdated` finds the history as it left it: no current row between closing and
creating (`Cleared`), the row it found still current until it writes it (`Held`).
So whoever leaves a second current row, or writes a closed one, is outdated.

`FollowInv` is about who knows what Stripe says.  `LogEnd`: the last event, or the one before
a failed payment, carries the status of the latest subscription; such an event
`Tells`.  `Knows`: what a request is about to write on behalf of the telling event
(`News`, its own or that of its own cancellation) is that status, because events that
carry no status make it ask Stripe, and every new event is a new last one
(`Newer`), so that older news tell nothing any more.  `Wrote`: unless `mixed`,
the user is still as the request wrote it.  So a synchronisation with telling
news that runs undisturbed to its end leaves user and history as Stripe says, and
after it every write is either by telling news again or makes `drifted` true;
and when all events are answered, a telling one is.  The delicate case is a failed payment: its
event sets `past_due` itself and leaves the subscription's own event, before it, the one that
tells.

*Migrations.*  The invariant `MInv` has the shapes of the store, what each
worker holds at each await (`Job`: what it has read is no newer than the last
edit, and it is past no migration that is not marked), that edits come after both markers, and that a worker that runs
a migration whose marker is set, or beside another one, has raced (`RacesOK`).
`EditsKept` follows: a step that writes an older version is a step of a
migration that raced.  `OneWorkerNeverRaces` says that the exception
never applies to a single worker.  For `MarkedStaysNormalized`, `NInv` adds what
is done so far at each await (`Progress`): the records behind the worker are
normal, and the one in hand as far as it has come, and so are the days.  The proof
found that a day that never had a record is not
recomputed: `DayFresh` claims nothing of it.

*Accounts.*  `AccountInv` has three parts.  `Shapes`: each request finds at each
await the user, the code or the profile it works with.  `CodesHeld`: an
open code is unused, and a code a request holds is unused too unless another
holds it (`HeldAlone`); where a request is about to create a code none is open
unless two are creating one (`IssuedAlone`).  `StatusHeld`: the status an
activation or registration has read is the one that was given last, or the request is
remembered as overtaken, or the user's status as not the given one (`unsaid`).
`NobodyLockedOut` and `AccountsStandAlways` follow from these and one lemma per
handler.  `UpdatesAssumption` says what the schema of an edit enforces: only fields it has, with
values of their types.  `CodesSound` says nothing of passwords set without a code, by
`change_password` or a registration.

*Desk.*  `DeskInv` is about requests of all components at once, so
`DeskSteps` first sorts the steps by what they can disturb: insights, coupons,
checkouts, generations, stops, and all others, which leave those alone; the last
are the steps of the chat and the silent ones, which leave the chat alone too
(`ChatLeft`).  Its parts:

- `LocalsReady`: a handler has, where it stands, the local variables it goes on
  with;
- `GenerationInv`: a table entry has a leader that waits for it, and who waits
  waits for an entry that runs.  It carries the whole of the generation's
  promise, as no request may leave by another door than the `finally`;
- `InsightInv`, `CustomerInv`: who makes the first insight or checkout, alone, knows what
  there is (none, then one); once two overlap, or a checkout stops half way,
  nothing is claimed;
- `CouponsInv`, `PricesInv`, `ExpiryInv`: coupons and plans have what a quote is
  computed from, codes differ, and between the mark and the look-up a
  request that runs alone finds the dated coupons as marked;
- `ListedInv`: the chat as a request has listed it, and the memory as it has read it,
  are those there are, for a request that no other has met;
- `MessagesInv`: the present text of a message has a reply, or a request that knows its
  version still owes it one (`Owes`), also with several at work on it: who edits a message
  goes on to answer that edit.  Of a message that one request at a time has worked on, it is the
  newest reply.  Two requests on one message are always found out (`mixed`), one that gives up too
  (`stopped`), which is why the exceptions of `NewestReplyFits` suffice.

*Office.*  `OfficeInv`, in `DeskProofs` too, is about the requests that alone change plans,
settings, legal documents and tickets.  `OfficeOrNot` sorts the steps by
whether a request of the office takes them: who is not at work there changes nothing
of it (`Aside`).  Its parts:

- `AloneInv`: while no two plan requests have met, at most one is at work, and
  so for settings and legal documents;
- `BestInv`: what the one request that changes plans knows at each await between the clear
  of the other flags and its own write: at most one plan is best when it begins,
  the flags that stand are among those it has still to clear, and at its write only
  its own plan and the default plan may have one;
- `NamesInv`: a name the request found free is free still, unless a worker
  started meanwhile and gave it back to the default plan;
- `CreatedInv`, `LegalInv`: who creates the settings alone still finds none, and who writes a
  legal document alone finds the documents as it has read them;
- `TicketsShaped`, `PageInv`: a ticket's count is that of its replies, and a page of
  tickets that no other request has met counts the tickets there are.

*Stock and names* (`RestaurantProofs`).  `StockInv` has the types of items, expenses, accounts
and names with the locals of who works on them, and

- `AccountsInv`: open bank accounts have different names, as the find before each
  write and the unique index see to;
- `NameInv`: a name an item has is listed, or still ahead of the worker that
  brought it, unless that one stopped;
- `ItemInv`: of an item no two worked on at once (`Agrees`), stock and history suit what is
  due; it has at most one worker, which knows the item as it is where it needs
  it, and whose steps to come leave the one expense that is due; and when nobody
  works on it the expense is there.

A step is one of the inventory and names or leaves both alone (`Apart`), with
whatever locals its request goes on (`KeepsOff`): a push about an item is still that item's.

*Pushes.*  `NoticeInv` says, await by await, that the copy of the user a worker
carries is the user's record unless somebody wrote that record since; that who changes
phones or settings alone writes what was asked; that no two phones share an id or a token;
and that an alert is pushed only by the request that inserted it.
That a list of phones without some still has different phones, and none of those
(`WithoutSo`), is about a filter over a sequence; it is proved by the least prefix
for which it would fail.

*Types of the desk.*  `TypeOK` follows from these, and from `KeyInv` (one plan beside the
default goes without a key), `ChatInv` (what apps show and the memory covers are
messages there are, also in a worker's hands) and `TicketInv` (a ticket is of a
request that arrived; those about to insert one are counted).

*Figures.*  A sum over a finite set is a fold, and what it computes would be an
induction; `SetByElement` does it without an induction theorem: the least
cardinality of a subset for which the claim fails leads to a contradiction.  From it follow how sums
(`Total`) split, shift and agree.  Each figure of each screen is then shown to be a `Part`:
the sum over the rows dated in some days of a number of each row.  So it adds up
over days, and two figures agree if their numbers do row by row, which is case analysis over the
shapes of rows.  The only invariant is that stored rows have those shapes
(`Shaped`); it holds as an edit of an edited row is an edit of the form it came from.

Assumptions on constants are those the code justifies: the fields its schemas
require (`CouponsAssumption`, `PricesAssumption`: a value or a price is not negative;
stored codes differ, as their index is unique), what a row of an older chat is
(`MessagesAssumption`), the keys the handlers
ask texts for (`KeysAssumption`, `LanguagesAssumption`), the values the forms of plans, items and
settings carry (`FormsAssumption`, `ItemsAssumption`, `SettingsAssumption`) and that none carries the default
plan's key (`PlanKeysAssumption`), that an edit of a user has only the schema's fields with values of
their types (`UpdatesAssumption`), that categories and suppliers are among the named
collections (`NamesAssumption`), that the text of an alert names at least one, which is not
a push about an item (`TitlesAssumption`), that phones registered before differ in id and token
(`PhonesAssumption`), finitely many requests, and for `figures` finitely many rows
(`IdsAssumption`) of the shapes the requests accept, without negative amounts (its `FormsAssumption`),
and that `NULL` and `Nothing` are none of the values they stand beside
(`NothingAssumption`, `NullIsNoExpense` and the rest).

| Theorem | Property |
|---|---|
| `FinanceLedgerProofs`: `TypeCorrect`, `TransactionsCorrect`, `LinkedRowsCorrect` (from `LinkedExpensesCorrect`, `LinkedDepositsCorrect`, `LineItemsCorrect`) | the invariants of `ledger` |
| `FinanceLedgerProofs`: `OnlyMovesLeaveStale`, `RewrittenAreFresh` | its two action properties |
| `DepositProofs`: `TransactionsOnce`, `StaleWhereDisturbed` | the invariants of `deposit_requests` |
| `DepositProofs`: `AsIfAtomic` | `ImplementsLedger` |
| `SubscriptionProofs`: `TypeCorrect`, `OneCurrent`, `ClosedStay`, `SettledFollows` | the properties of `subscription_history` |
| `MigrationProofs`: `TypeCorrect`, `EditsKept`, `MarkedStaysNormalized`, `OneWorkerNeverRaces` | `TypeOK`, `EditsSurvive`, `MarkedMeansNormalized`, and when their exception is void |
| `AccountProofs`: `TypesHold`, `StatusStands`, `NobodyLockedOut`, `CodesSound`, `AccountsStandAlways` | all properties of `accounts` |
| `DeskProofs`: `TextsShared`, `CheckoutIsSound`, `ChatGoesOn`, `RepliesFit` | `GenerationsShared`, `CheckoutSound`, `ChatMovesOn`, `NewestReplyFits` |
| `DeskProofs`: `PlansStand`, `OfficeStands` | `PlansAsAsked`, `OfficeAsAsked` |
| `RestaurantProofs`: `ItemsFollow`, `NamesAreThere`, `PushesFollow`, `DeskTyped` | `ItemsAsIfAtomic`, `NamesServe`, `PushesAsAsked`, `TypeOK` of `desk` |
| `FiguresProofs`: `RowsKeepTheirShape`, `SalesOnce`, `PeriodsHold`, `ScreensAreOne` | all properties of `figures` |

Every invariant and every action property of the passing runs is a theorem, but for
`SettledFollowsStripe`: it is what `FollowsUnlessDrifted` comes to where nothing
overlaps or is reordered, and stays with TLC, as the setting in which to check
`ConvergesToStripe`.  Only model-checked are the liveness properties besides (`ConvergesToStripe`,
`StartUpCompletes`, `EveryRequestEnds`): they need fairness and so ENABLED, which
the prover does not reason about.  The two runs that expect a violation state
what the code does not do.  No module declares a RECURSIVE operator.

## Not modelled

Left out for good, as there is no state to speak of or only I/O: image storage
and upload, email, endpoints and schemas (they bound the inputs of the handlers), demo pages,
the profile (one write of one document), the notification feed and its read
marks, attachments, prompts and the parsing of answers, tokens and hashing, how
indexes are created, lists with their filters and the charts of the
administrators' dashboard.  The stock usage of daily records is dead code: the
handlers always pass an empty list.  `PROJECT.json` gives each component its
status and reason, and each hazard the properties that cover it or why none does.
