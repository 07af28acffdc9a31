# Formal models of the expense engine

TLA+ modules of the engine's write path, the TLC configurations that check them
on small instances, and proofs, checked by TLAPS, of the properties that matter
most. `PROJECT.json` lists the runs, the properties, the source lines each
definition stands for, and the hazards the properties are aimed at.

    tlasany M.tla                       parse a module
    tlc -workers 4 -config X.cfg M      run a configuration
    tlapm M.tla                         check the proofs of a module

## 1. The system

The engine is a FastAPI process in front of PostgreSQL. It keeps each user's
ledger: accounts, categories, hashtags, transactions, an inbox of drafts, and
reconciliations (batches of transactions compared with a bank statement). Every
write route calls one helper through `run_idempotent`, which opens the one
database transaction of the request. Requests of several clients and retries of
one client run concurrently on an `asyncpg` pool; PostgreSQL runs at READ
COMMITTED, so between two statements of one handler any other handler may
commit. Balances, totals and converted amounts are computed when read.

### Components, their state and what makes them correct

| Component | Source | State | Operations | Correct when |
|---|---|---|---|---|
| transaction boundary | `helpers/idempotency.py`, `db.py` | `idempotency_keys`, advisory locks, pool | claim, work, store, commit, retry | a key's write happens once, with the claim, and later attempts are answered from it |
| transactions | `helpers/transactions.py` | `expense_transactions` | create (single, batch), update, delete, restore | nothing frozen changes; log images are one change; versions count changes |
| reconciliations | `helpers/reconciliations.py` | `expense_reconciliations`, `reconciliation_id` of transactions | create, update, complete, revert, delete, restore | a completed batch is what its completion counted |
| query builder | `helpers/query_builder.py` | none of its own | fetch, update, soft-delete, restore, with audit | predicates hold when the UPDATE runs |
| hashtag links | `helpers/hashtag_links.py` | junction rows with a `deleted_at` marker | sync, cascade delete, cascade restore | no live junction to a dead hashtag; a restore revives exactly what its delete dropped |
| hashtags | `helpers/hashtags.py` | `expense_hashtags` | create, update, delete, restore | one active hashtag per name |
| inbox | `helpers/inbox.py` | `expense_transaction_inbox` | create, update, dismiss, promote | a draft becomes at most one transaction; dismissed and promoted exclude each other |
| accounts, categories | `helpers/accounts.py`, `categories.py`, `reference_data.py`, `validation.py` | reference rows | create, update, archive, delete, restore, opening balance, system categories | names are unique among active rows; one system category per key, which only opening balances use; nothing active refers to a deleted row; one opening balance per account |
| rate lookup and rate jobs | `helpers/exchange_rate.py`, `jobs/*` | `exchange_rates`, per-process cache | lookup, daily fetch, backfill | a cached answer is as old as its lifetime at most; the first rate of a day stands; an exit code of 0 means no day was lost silently; the plausibility guard cannot refuse a feed for ever |
| conversion, balances, report | `helpers/home_currency.py`, `account_balance.py`, `monthly_report.py` | none (computed from the ledger) | reads of several statements | the parts add up to the totals; a row falls in one month and is priced by its day; a balance is converted at an answer within its lifetime; rounding differs by halves only |
| sign-in, tokens | `helpers/auth.py`, `pat.py`, `deps.py` | users, settings, tokens | bootstrap, settings, profile, create, revoke | two first sign-ins do not collide; the log tells what the rows hold |
| activity log | `helpers/activity_log.py` | `activity_log` | one INSERT per write | one entry per committed change, with its two images |

They interact through the database only: handlers call each other's helpers on
the connection of the request (an inbox promotion inserts through
`insert_transaction_row` and `sync_hashtags`), and concurrent requests meet in
row locks, unique indexes and advisory locks. The rate cache is the one piece of
shared memory.

### What is hard here

* **Check, then act.** Most checks are plain SELECTs; what they saw may be gone
  when the handler writes. Some handlers lock the row first (`for_update`), some
  do not, and the UPDATE's own predicate often does not repeat the check.
* **Retries.** An answer lost after COMMIT, a retry overlapping a slow twin, a
  key reused for another request.
* **Statements over many rows** find their rows in one snapshot and lock them
  one at a time; rows may leave or join meanwhile.
* **Waiting.** Row locks taken in different orders, advisory locks that collide,
  a pool that can be exhausted by waiters.
* **Partial failure** of a cascade, and state that outlives its cause: a deleted
  transaction keeps its batch, a junction its marker, a cached rate its row.

## 2. Modules

| Module | What it is | Code |
|---|---|---|
| `ExactlyOnce` | abstract: what an `X-Idempotency-Key` promises a client | contract of `run_idempotent` |
| `Idempotency` | the protocol, one action per statement of `run_idempotent` | `helpers/idempotency.py`, `db.py` |
| `IdempotencyProofs` | the invariants of `Idempotency` and the refinement, proved | |
| `Table` | operators for a table at READ COMMITTED: visible rows, row locks, COMMIT, ROLLBACK | PostgreSQL, external |
| `Reconciliations` | transactions and reconciliations, one action per statement of their handlers | `helpers/transactions.py`, `reconciliations.py`, `query_builder.py` |
| `TableProofs`, `ReconciliationsProofs` | lemmas about the table, and the invariants of `Reconciliations`, proved | |
| `TaggedRows` | abstract: what requests on transactions, drafts and hashtags promise of the rows and the hashtags on them | contract of the handlers below |
| `HashtagLinks` | transactions, drafts, hashtags and the junctions between them, one action per statement | `helpers/hashtag_links.py`, `hashtags.py`, `inbox.py`, `transactions.py` |
| `HashtagLinksProofs` | the invariants of `HashtagLinks` and the refinement of `TaggedRows`, proved | |
| `ReferenceData` | accounts, categories, hashtag names, and the ledger rows and drafts that refer to them; the unique indexes | `helpers/accounts.py`, `categories.py`, `reference_data.py`, `validation.py`, with the references of `transactions.py` and `inbox.py` |
| `ReferenceDataProofs` | its invariants, proved | |
| `RateTable` | the table of rates and its two readings, carry-forward and baseline | `sql/003`, `015`, the two queries |
| `RateJobs` | the daily job and the backfill, one action per statement | `jobs/*` |
| `RateCache` | the lookup of one worker process, composed with the jobs | `helpers/exchange_rate.py` |
| `RateCacheProofs` | the properties of the jobs and of the cache, proved | |
| `HomeReport` | conversion, rounding, months, the dashboard with the cached rate it converts at, and the range report, one action per statement | `helpers/home_currency.py`, `account_balance.py`, `exchange_rate.py`, `monthly_report.py`, `routers/dashboard.py`, `reports.py` |
| `HomeReportProofs` | sums, month bounds and rounding, and the properties of the reads, proved | |
| `SignIn` | profile, settings, tokens and the activity log of one user | `helpers/auth.py`, `pat.py`, `deps.py`, `activity_log.py` |
| `SignInProofs` | its invariants, proved | |
| `MC*` | instances for TLC | |

### Idempotency

An *attempt* is one HTTP request; a client's retry is another attempt with the
same key. `pc[a]` walks through `pool` (waiting for a connection), `lock`
(`pg_advisory_xact_lock`), `select` (the key's row), `work`, `store`, `commit`,
`respond`. `keys` holds the committed rows of `idempotency_keys`, `pending[a]`
the row `a` has inserted but not committed, `written` the attempts whose work is
committed. A response body is identified by the attempt that produced it, so
"the right answer" is a statement about whose write it names. `store_snapshot =
False` (the one-time secret of a new token) stores `null`; rows with
`request_hash = ''` predate fingerprints and match any request (`Legacy`).
`Fail` is every way an attempt can end early: before COMMIT the transaction
rolls back and its lock goes, after it only the answer is lost. `LockOf` maps
keys to advisory locks and may collide, as a 64-bit hash may.

A refused replay (`409`) ends through `Commit` here, while the code raises and
rolls back; with nothing written the two are the same.

`ExactlyOnce` has no locks, rows or connections: `Write` claims the key and
writes in one step. `winner[k]` is refined by the `by` field of `k`'s row.

### Reconciliations

A *session* serves one request at a time: `request[s]` is what it was asked,
`pc[s]` the statement it runs next, `seen[s]` the row its handler read first
(`before_row`), `todo[s]` the rows a multi-row statement has still to visit.
`txn` and `recon` are tables in the sense of `Table`: committed rows, row locks,
and the uncommitted version of each locked row. Every action is one statement
of a handler with the decision that follows it, and an action of several
disjuncts is the statement's outcomes; a refusal (404, 409, 422) or `Fail` rolls
back.

* `update_transaction`, `delete_transaction`: `LockTxn` (SELECT ... FOR UPDATE),
  `CheckFreeze` (status of the row's own batch, not locked), `CheckLink` (the
  batch to assign to, not locked), `WriteTxn`.
* `restore_transaction`: `LockDeletedTxn`, `CheckPrior` (keeps the link only if
  the batch is an active draft of the same account), `RestoreTxn`.
* `complete`, `revert`: `ReadRecon`, `SelectMembers`/`TakeMember`/`MembersTaken`
  (the SELECT ... FOR UPDATE over the batch), `SetStatus`, `SelectBumped`/
  `BumpMember`, `CommitFlip`. The flip fetches the row again for the after image
  (`Refetched`); when a deletion committed before the row was flipped there is
  none, and it fails (`FlipFindsNothing`).
* `delete_reconciliation`: the same reading, `TakeMember` unassigns each row,
  `DeleteRecon`. `update_`, `create_` and `restore_reconciliation` likewise.

A statement over many rows selects them in its snapshot and visits them in any
order, re-checking a row that changed while it waited, as PostgreSQL does. The
last write of a handler and its COMMIT are one action: an uncommitted write is
invisible to others and its lock is already held, so nothing can tell them
apart.

Data is abstracted to what the properties tell apart. `amount` stands for
`amount_cents`, title and date; the `balance` of a reconciliation for its two
balances and two dates. `version` counts the updates of a row since the initial
state. `counted[r]` is a history variable: the locked fields of the rows that
the completion of `r` held when it committed. Initial states are the consistent
ledgers that requests served one at a time leave: any rows, links and statuses
that agree. Account, category and hashtag checks, derived home amounts and
`create_batch` are left to other modules; none of them reads or writes the state
above.

### HashtagLinks

Sessions and requests as in `Reconciliations`. `parent` is the table of
transactions and drafts (the pair of id and `transaction_source`, so a draft and
a transaction never are one parent), `tag` that of hashtags, `link` the junction
table, one row for each parent and hashtag, whose value is its `deleted_at`.
`deleted_at` is load-bearing: `now()` is one value per database transaction, so
a junction dropped with its parent has the parent's marker. A marker is the
number of the request that wrote it (`at`); 0 and 1 are requests before the
initial state. `attach[s]` is the set the handler attaches, from the request or,
for a promotion, read from the draft under its lock.

* `create_*`: `Create`, `CheckTags`, `AddLink`.
* `update_*`: `LockParent`, `CheckTags`, then `sync_hashtags`: `SelectLinks`/
  `VisitLink`/`LinksVisited` drop what leaves the set, `AddLink`/`LinksAdded`
  upsert the rest.
* `delete_transaction`, `restore_transaction`: `LockParent`, then the cascade
  through the same three actions; `Matches` is the WHERE clause of each.
* `delete_inbox_item`: `ReadDraft` (no lock), `Dismiss`, the cascade.
* `promote_inbox_item`: `LockParent`, `InsertLedger`, `CheckTags`, `AddLink`,
  `CloseDraft`, the cascade.
* `delete_hashtag`: `ReadTag` (no lock), its own UPDATE over the junctions of
  the hashtag, `BumpParent` for transactions and then for drafts, `DeleteTag`.
  `create_hashtag`, `restore_hashtag`: `InsertTag`, `RestoreTag`.

Here the last write and COMMIT are separate actions. Locking a row and the
UPDATE of the same row are one: the uncommitted row is invisible and its lock is
held from the first of the two. The price is that an UPDATE written before the
hashtags are validated is written before the lock's other checks too, which
nobody can see either. `update_*` with an empty body is a read and not a
request here. What promotion and restore require of accounts, categories and
fields, and the names of hashtags, is abstracted: those checks end in a refusal,
which `Fail` allows at any statement. `dropped` is a history variable: the
hashtags the last deletion of a transaction dropped.

`TaggedRows` is what a client may rely on: a row is absent, active, deleted or
promoted and shows a set of hashtags, and each request changes that in one step,
a promotion for the draft and the ledger row together. It has no locks, junction
rows, markers or sessions. `RowStates`, `RowOrigins` and `RowTags` compute its
state from the committed tables; `dropped` is its `shelf`. It promises nothing of
the hashtags themselves: an edit may attach one that was deleted while it ran.
A late dismissal of a draft that has ended already is no step of it, because all
it changes is `deleted_at` (and the log, section 5).

### ReferenceData

Sessions and requests as before; `named` is the table of accounts, categories
and hashtags, `entry` that of transactions and drafts, of which only the
references and `deleted_at` are kept. `Plan(op)` is the list of statements of a
handler and `pc[s]` what is left of it, so the order of checks and writes of
every handler can be read in one place: `create_category` is `name_check`,
`write_named`, `commit`; `delete_category` is `fetch`, `txn_check`,
`draft_check`, `write_named`, `commit`. A statement's action is shared by the
handlers that run it; what differs is in operators over the request (`Found`,
`MayClaim`, `NamedAfter`, `Applies`, `CategoryUsable`, `TakesSystem`). A check
that fails is the request's end (`Abandon`).

A write obeys the partial unique indexes: it waits for uncommitted rows it may
clash with (`InDoubt`) and fails on committed ones (`Violates`).
`ensure_system_category` is `FindSystem`, `InsertSystem` (`ON CONFLICT DO
NOTHING`) and `RereadSystem`. An account's `name` stands for its lower-cased name
together with its currency, as the index has them. `alone[s]` records that no
other request has run beside that of `s`, `seeds` the rows that
`create_opening_balance` filed. A category that is a user's own but bears the
reserved name may be there from the start: it is older than the reservation.

### RateTable, RateJobs, RateCache

The jobs hold no transaction, so each statement is a committed step. `todo[j]`
are the days a run has still to store, `held[j]` the rate between the judgement
(`Judge`, which reads the baseline) and its `Insert`; any pending day may be the
next whose download completes, and the provider may answer anything. `problems`
and `gaps` are the counters of the run with the days behind them. A job that
starts before Postgres is up tries again (`Connect`, `tries`), `Tries` times at
most, and then exits with 1; a fault that is not worth a retry ends it at once
(`Die`). Retries of one download are part of its outcome.

`RateCache` adds the requests of one worker: `Ask` looks in the dictionary and
takes the time, `Read` is the query, `Store` what the coroutine does when it goes
on. Between them other requests and the jobs move. `landed` records when each
row was inserted, so that "this was true then" can be said (`TrueAt`).

### HomeReport

Time is a line of instants, a local day `DayLength` of them beginning `Offset`
before the UTC day; a month is `MonthLength` days. A rate is an integer over
`Unit`. `HomeCents` is the SQL expression (round half away from zero), `ToHomeCents`
the Python one (`ROUND_HALF_UP`). A read is its statements in order
(`ReadBalances`, `ConvertBalances`, `ReadCategories`, `ReadBreakdown`,
`ReadTotals`, month by month in a range report). `Write` is any commit of
another request in between and `LandRate` that of a job. `torn` records the
months whose two queries a commit came between.

Rows and balances find their rates in different places. SQL prices rows from
the table; Python converts a balance at what `get_rate` says, which is the
entry of `_RATE_CACHE` for today if it is `Fresh` (`ConvertBalances`, no
statement) and otherwise the table after an await (`RateArrives`, which stores an
`Entry` whose expiry counts from the question). `LookUpElsewhere` is another
request of the same worker storing what it was told at some tick since it asked,
which is what `RateCache` shows of an entry; `Tick` lets entries expire. `was`
records what the table answered in each tick, `asked` and `told` the lookup of
this read. One account panel of the dashboard is modelled, with the lookup for
dollars; the other panels repeat it, each with a lookup of its own.

### SignIn

`rows` is a table (in the sense of `Table`) of the user, the settings and the
tokens; `pending[s]` the log entries of an open transaction, `log` how often each
change of each row has been logged. `bootstrap` updates `last_login_at`, which
locks the user's row, before it looks for the settings. A token's row references
its user, so a request that authenticates has a users row, and the branch of
`bootstrap` that inserts one (`auth.py:45`) cannot be reached.

## 3. Runs

| Run | Question | Bounds |
|---|---|---|
| `idempotency` | safety, refinement, and every arrived attempt is answered | 3 attempts, 1 key, 2 fingerprints (1 secret), pool of 2 |
| `recon_races` | freeze, audit pairs, versions | 2 sessions, 2 transactions, 1 reconciliation, 2 amounts, 3 requests of those that can wait |
| `recon_serial` | the rules when requests do not overlap | 1 session, 2 transactions, 2 reconciliations, 3 requests |
| `recon_live` | every request ends; no batch is completed empty | 2 sessions, 2 transactions, 1 reconciliation, 2 requests of those that can wait, no row missing at the start (`MCSpec`) |
| `tags_races` | closed rows, one promotion, versions, what an edit leaves, the refinement of `TaggedRows` (what a restore revives and a promotion moves) | 2 sessions, 2 transactions, 1 draft, 1 hashtag, 2 requests of any kind |
| `tags_serial` | active hashtags, dismissal, without overlap | 1 session, 1 transaction, 1 draft, 2 hashtags, 3 requests |
| `reference` | unique names, the system category and who may use it, references | 2 sessions, 1 account, 2 categories, 1 transaction, 1 draft, 2 requests |
| `rates` | the jobs beside each other, and a job beside two lookups | 3 days, 3 rates, 1 run of each job, 2 tries to connect, 2 requests, 4 ticks, lifetimes of 2 and 1 |
| `report` | totals against their parts, month bounds, the day that prices a row, the age of the rate of a balance, rounding | 2 accounts, 2 categories, ledgers of up to 2 rows, 2 days, 1 commit during the read, 2 ticks, lifetimes of 2 and 1 |
| `sign_in` | first sign-ins, the log against the rows | 2 sessions, 2 tokens, 2 values, 4 requests |
| `recon_join`, `opening` | statements of the documentation that the code does not keep (section 5) | the smallest that shows it |

Why the bounds are enough: three attempts are a write, its overlapping retry and
a third that replays or collides, with one connection too few. In the ledger,
races are between two handlers, and every initial state is any consistent
ledger, so what a long history would have set up is where the run starts; the
third request of `recon_races` lets a finished handler be followed by another
while the second still runs. In `tags_races` two transactions let one draft be
promoted onto two ids, and the initial junctions are live, dropped by an earlier
edit (0) or dropped by the deletion itself (1), so what a restore must tell apart
is there from the start. `tags_serial` leaves out `restore_transaction`, which
breaks its first property without any overlap (section 5). `recon_races` and `recon_live`
leave out the requests that wait for nobody (inserts), whose row no other request
can name before it is committed, and the edit of a batch, which touches no
transaction and waits as a revert does; two accounts in `recon_serial` were tried too and hold,
in four minutes, so the run keeps one. Two keys
whose advisory locks collide contend like one key does; the proofs of section 4
cover any `LockOf`.

In `reference` one category exists at most at the start and one id is `Spare`,
so that seeding, its race and its loser occur; the draft is `Spare` as well, and
is written by a request. A batch of one runs the statements of
`create_transaction`, which is therefore left out of the workload (`NoSingle`);
`opening` runs batches of two. In `rates`, 30 and 33 are within the limit of each
other either way, the first exactly on it, and 40 is close to neither; the
tables it starts from (`Seeds`) hold at most one row; `Scenes` says which
processes run together, both jobs or a job and the lookups, because all of them
at once only multiply the states. A lifetime of two ticks for a rate and of one
for its absence, with four ticks, lets an entry expire, be refreshed, and be
overwritten by a slower twin. In `report` the amounts and rates fall on the half
that rounding is about, and the instants on both sides of a local midnight that
is not a UTC midnight; `Seeds` are tables without a rate, with one for the first
day only and with one for each. Its `Scenes` are a read of any ledger with
a write beside it, and a dashboard of a few rows while time passes, rates land
and other requests fill the cache, before the read and during it (`MCInit`);
the lack of a rate expires after one tick and a rate after two, so
both stale and refreshed answers are served. Four requests in `sign_in` are a first sign-in,
its twin and two changes of what they made.

`MaxRequests`, `MaxRuns`, `MaxTime` and `MaxWrites` bound the requests, runs,
ticks and commits of a behaviour;
when all are served the system stops, which is why deadlock checking is off (in
`Idempotency` it stops when all attempts are done). A deadlock of the
database is not a deadlock of the model: it is a wait that `TimeOut` ends, and
the liveness properties are about that. Transactions, reconciliations, amounts,
sessions and attempts are interchangeable, and the safety runs use that
symmetry; the runs with a liveness property use none.

Each property of a passing run has a mutant: an operator that changes one
mapped definition as a plausible bug would (an advisory lock that is not waited
for, a SELECT without FOR UPDATE, a lifetime counted from the answer instead of
the question, an `ON CONFLICT DO UPDATE`, rounding half to even, a missing status
check...), under which the run must fail. Three properties with several parts
have a second one: `BalanceIsWithinRounding` (a missing rate kept as long as a
rate, and rounding half to even), `EachRowIsInOneMonth` (an inclusive end of the
month, and a rate joined by the UTC day) and `JobsEnd` (a range that never ends,
and a wait for Postgres without a bound).

### Fairness

`Idempotency` assumes weak fairness of each attempt's next step: the event loop
and the database serve what can run. An attempt that never arrives is not
forced to, and `Fail` has no fairness. `Reconciliations` assumes weak fairness
of each session's next statement and of `TimeOut`: `db.py` gives every statement
a `command_timeout`, and PostgreSQL aborts a member of a deadlock, so a wait is
ended even if the holder never moves. Nothing stronger is needed: two sessions
that wait for each other are both in `TimeOut`. `RateCache` assumes weak fairness
of the statements of a job that is running, whose waits all have a timeout, and
none of the timer that starts it, of the lookups, of `Die` or of time. The other
modules state none: their handlers wait in the same ways as those of
`Reconciliations`, and their properties are safety.

## 4. Proofs

For every value of the constants, under the assumptions the modules name (the
sentinel values differ from the real ones, the pool is not empty, the workload
consists of operations, days and rates are numbers):

* `IdempotencyProofs`: `TypeCorrect`, `NoDoubleWrite`, `Atomicity`,
  `TrueAnswers` and `Refinement` (`Spec => ExactlyOnce!Spec`). The checked
  invariants are not inductive; the strengthening says that an attempt between
  `select` and `commit` with a key holds its advisory lock and that a lock has
  one holder, that `pending` rows belong to attempts past `store` and carry
  their own request, and that whoever is past the SELECT found no row and still
  finds none. With those, a commit of a claimed write finds its key free, which
  is both the invariant and the abstract `Write` step.
* `ReconciliationsProofs`: `TypeCorrect`, `CompletionFreezes`
  (`CountedStayFrozen`), `AuditPairs` and `VersionsCount`. The heart of the
  strengthening is what a session that has passed `CheckFreeze` knows: it holds
  the lock of its transaction, the row it saw is still the committed row, and
  *no completion counts that row* if the request would touch a locked field.
  That stays true although the status is read without a lock, because a
  completion counts only rows it holds the lock of. The uncommitted version of a
  row differs from the committed one by at most one bump of its writer, which
  gives the action property. One lemma per action shows that it preserves the
  invariant; `TableProofs` holds the facts about locks and commits they share.
  `NoEmptyCompletion` (`CompletesSomething`) adds that a completion on its way
  holds the lock of a member. `SerialBatches`, `SerialLinks`, `SerialDeletions`
  and `SerialRanges` are the properties of `recon_serial` under the hypothesis
  `OneSession`, which says that requests do not overlap, and for any number of
  rows and requests; their invariant (`SInv`) says that what a handler has read
  and checked still holds.
* `HashtagLinksProofs`: `TypeCorrect`, `NoTagsOnDeletedRows`, `PromotedOnce`,
  `VersionsMoveWithTags`, `PromotionsMoveTags`, `RestoresItsOwn`,
  `EditsAreWhole` and `Refinement` (`Spec => TaggedRows!Spec`), for any number of
  sessions. The invariant (`IInv`) says for each session what its uncommitted
  rows and junctions are (`Uncommitted`, `Touched`), that a junction changes only
  together with its parent, whose lock the session has or, for
  `delete_hashtag`, will have before it commits, and that a cascade has reached,
  or has still to reach, each junction it must close (`CascadeIsComplete`).
  `PromotionsMoveTags` and `RestoresItsOwn` are
  consequences of what `TaggedRows` says of a promotion and a restore, stated for
  themselves. `DroppedIsKnown` and `StampsAreNew` are why a marker identifies its deletion:
  no two requests share a `now()`. `KInv` adds what a sync has done
  (`SyncIsComplete`) and that a promoted row is a closed draft. With it each
  COMMIT is one step of `TaggedRows`, shown operation by operation; no other step
  is visible. `SerialTags` and `SerialDismissals` are the properties of
  `tags_serial` under `OneSession`, the first as long as no transaction is
  restored.
* `ReferenceDataProofs`: `NamesStayUnique`. That the committed rows do not clash
  is not inductive, because open transactions will commit what they have
  written. The strengthening (`Apart`) distinguishes two rows that one
  transaction has locked, whose new versions must not clash, from any other two,
  none of whose four combinations of versions may: then whichever transactions
  commit, in whatever order, the result is unique. Nothing is assumed of the
  handlers but that their writes pass the index, so the checks of `name_taken`
  are shown to be a courtesy and the indexes to carry the property.
  `TypesAreKept`, `OnlySeeds`, `SeedersAgree`, `SystemCategoryIsKept` and
  `ReservedNameIsKept` do rest on the handlers. Their invariant (`IInv`) says
  where in its plan a session is (`AtItsPlan`), that the row it writes is a later
  version of the row it read (`HasRead`, by `Follows`: a system category stays
  one, and a name other than the reserved one never becomes it), and what its
  checks have established of the category it files under.
  `LoneRequestsKeepReferences` follows from `LInv`: while a request is alone,
  nobody else holds a lock, so what its checks saw is what it commits against.
* `RateCacheProofs`: `TypeCorrect`, `FirstRateForever`, `ZeroIsHonest`,
  `RefusalsAreBounded` and `AnswersStayFresh`. For the jobs, `JobPart` says that
  every day that has left `todo` is dealt with: it is the rate in hand, has a
  row, is a gap or is a problem; and that a refused day has a row in its window,
  which stays because rows do. For the cache (`CacheInv`), each entry was true at
  some moment since the `s` its expiry counts from, and each lookup that was told
  an answer holds one that was true since it began. `StaysTrue` is the step that
  makes this inductive: a row that lands now leaves what was true of an earlier
  tick, and of this one before it landed, as it was.
* `SignInProofs`: `TypeCorrect`, `SignInsTakeTurns` and `LogIsTrue`. The first
  needs that a bootstrap between its UPDATE and its COMMIT holds the user's row;
  the second that pending entries describe the uncommitted versions of rows
  their session has locked.

* `HomeReportProofs`: `NetsAddUp`, `EveryRowInOneMonth` and
  `BalancesWithinRounding`, for any ledger, rates, offsets and lengths of days and
  months. The figures are sums over sets, so the module first proves what sums do
  (an element more, equal terms, unions, groups, terms that are each off a
  little), then that the months of a range are disjoint and complete and that
  both roundings are to the nearest, and then that a read, statement by
  statement, has what it would find now until something commits (`HInv`). For
  the rate of a balance `CacheHonest` says that the entry was the table's answer
  in some tick since the one its expiry counts from, that `told` is within its
  lifetime of `asked`, and that the balances are converted at `told`.
  `PricedByItsDay` shows that the rate SQL joins by the local day is that of the
  last stored day begun at the row's instant.

The theorems cover every property of the passing runs but two: only
model-checked are `EveryRequestEnds` and `JobsEnd`, since liveness under fairness
is out of the prover's reach, and with them the violations of section 5. The
theorems that assume `OneSession` are false without it, as section 5 shows.

Notes for whoever extends the proofs: row changes are composed from one-level
`EXCEPT`s (`Bumped`, `SoftDeleted`, ...) because the SMT back end cannot see
through nested ones; the row operators are opened only in lemmas about rows. A
value that is to keep its meaning under a prime is picked (`PICK key : key = ...`),
since a state expression would be primed with the rest. An induction is
stated over a set of sets, the subsets of a finite set for which the claim holds,
one of which is smallest, because the induction theorems of the library take an
operator. `:>` and `@@` are opaque to the prover, hence the function
constructors in `HomeReport`.

## 5. What the checks found

The protocol of `run_idempotent` holds up, and so does the freeze of counted
transactions, which rests on row locks alone. Unique names, the single system
category and the first-rate-wins rule rest on constraints of the database and
hold under every overlap. Two runs show where the documentation says more
than the code does:

1. **`recon_join`.** `engine-spec.md:578` says the guard "blocks assigning
   *into* a completed reconciliation". An assignment that read the draft status
   (`transactions.py:371`) commits after `complete`, which locks only rows
   already assigned. The completed batch has a member nobody counted.
2. **`opening`.** `engine-spec.md:257` and the docstring of
   `create_opening_balance` promise at most one active opening balance per
   account. File one, delete it, file another, restore the first: `restore`
   (`transactions.py:616`) checks the account and the category only. One session
   is enough. Moving an opening balance to another account does not look either.

Other differences met while modelling, which need no search and have no run:

* `engine-spec.md:576`: "A batch and its transactions therefore always share one
  account." The account is compared only when the body has a `reconciliation_id`
  (`transactions.py:370`); an edit of `account_id` alone moves an assigned row to
  another account. One request is enough.
* `engine-spec.md:653`: "The restored reconciliation comes back empty", which
  reads as an empty draft. A completion that commits while a deletion waits for
  the members (`reconciliations.py:396`) is undone by the deletion in all but its
  status, and the restore brings back an active, completed batch without
  members. So "a completed batch is not empty" is no invariant of the code, and
  the property checked and proved is one of the step: a completion that commits
  has members (`CompletesSomething`).
* `engine-spec.md:397` says `DELETE /hashtags/{id}` "has already dropped every
  junction pointing at that hashtag". Delete a transaction, delete its hashtag,
  restore the transaction: the cascade re-activates the junction by its marker
  (`hashtag_links.py:186`) without looking at the hashtag.
* `engine-spec.md:422`: a dismissed draft "remains `status = 1`". A dismissal
  that waits for a promotion overwrites the promoted draft's `deleted_at` and
  logs a dismissal (`inbox.py:313`).
* `engine-spec.md:157` describes a bootstrap that creates the user; a token's
  row references an existing user, so that branch cannot be reached.
* `engine-spec.md:212`: the second of two revocations gets a 404. Of two that
  overlap both answer 200 and log (`pat.py:74`: the UPDATE names the id only).
  A replay of the request that revoked the token it is sent with is refused by
  `deps.py:54` before the idempotency key is looked at.
* The docstring at `reconciliations.py:277` promises an "Idempotent no-op", but
  two concurrent flips both write and log (`:285`); `query_builder.py:225`
  relies on "the mutate's deleted_at predicate", which `soft_delete` (`:123`)
  does not have, and the UPDATE of an archive (`accounts.py:439`) has none either.
* A balance and the rows under it may be priced at different rates, or the
  balance be null while the rows are not, as long as a cached answer lives
  (`exchange_rate.py:13` says so). `BalanceIsWithinRounding` therefore bounds the
  age of the answer, and compares the two roundings when SQL prices the rows at
  that same rate.
* A completion or revert that loses to a deletion committed between its read and
  its UPDATE finds no row for the after image
  (`reconciliations.py:340`) and fails instead of answering 404; it rolls
  back.
* The dashboard reads the clock twice (`dashboard.py:123`), so the balances and
  the month may be of two days; `next_sort_order` (`reference_data.py:86`) gives
  two concurrent creations one position.

`recon_serial` and `tags_serial` state rules that hold when requests do not
overlap. Given two sessions (`Session <- MCSession`) TLC breaks these, each with
two requests:

* `NobodyJoinsCompleted`, as above.
* `CompletedIsNeverDeleted` and `CompletedRangeIsFixed`: `delete_` and
  `update_reconciliation` read the status without a lock (`reconciliations.py:396`,
  `:235`) and their UPDATE does not repeat the check, while `engine-spec.md:650`
  and `:635` allow neither on a completed batch.
* `LiveTagsAreActive`: the hashtags of an edit are validated by a plain SELECT
  and nothing locks them (`hashtag_links.py:246`; `engine-spec.md:395`).
* `DismissedIsPending`, as above.

`LoneRequestKeepsReferences` is stated of requests that run alone for the same
reason: the checks of `delete_account` and `delete_category` and those of whoever
refers to the row are plain SELECTs, and two that overlap leave a live row under
a deleted one.

## 6. Plan

Every component with rules of its own has a module and every such module its
proofs. What would add most next:

1. An abstract specification of a batch (draft, completed, deleted, with its
   members), shown to be implemented by `Reconciliations` when requests do not
   overlap; with overlap, one that says what an assignment may add.
2. An abstract specification of the carry-forward rate as of a day, shown to be
   implemented by `RateCache` up to the lifetime of an entry.

## 7. Not modelled

Routers and schemas (one call each, parsing and layout; the reads of the
dashboard and of the reports are in `HomeReport`), errors, pagination and
formatting, application start, migrations (run once, offline), deployment
scripts, tests, and reads of one statement. Within modelled components: time-zone,
currency and field-format validation, sort order, debts of persons, the hashing
of tokens, the retries of one download, zones whose offset changes within the
year. PostgreSQL itself is modelled from how
the code uses it: `Table` is marked external.
