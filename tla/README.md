# Verification of the cleaning ticket system

This directory models the cleaning ticket system in TLA+: the parts of its
backend where money and status are decided, and the parts of its browser client
that keep state of their own. TLC checks the models on small instances; TLAPS
proves the main safety properties for every number of rows, requests, tabs and
periods. Paths below are under `src/backend/` (`.py`) and `src/frontend/src/`
(`.ts`, `.tsx`).

The system sells and runs cleaning work. A customer asks for an Extra Work, the
provider quotes it with a proposal, the customer's yes spawns an operational
ticket, the ticket is worked and closed, and the Extra Work is then billed: a
generation claims it on a draft invoice, which is issued, sent with a gapless
number and, if it was wrong, reversed. Two things are worth most and are
hardest to test here: the money (what is billed, once, under which number, and
whether it is billed at all) and the three status machines that write to each
other (Extra Work, proposal, ticket). Beside them stand contracts, which bill
by themselves every period, the hours the workers write, and the browser
session everybody works through. All of these are modelled.

## Inventory

| Component | State | Operations | Right when |
|---|---|---|---|
| Invoice lifecycle, numbering (`invoicing/state_machine.py`, `numbering.py`) | `Invoice.status`, number and year, `InvoiceNumberSequence` | issue, send, un-issue, reverse | numbers of a year are 1..n without gap or duplicate, on committed documents only; one reversal; SENT is final |
| Generation and claims (`invoicing/services.py`, `selectors.py`, `preview.py`) | the invoice lines that bill an Extra Work, `is_invoiced` | plan, claim, delete a draft | no customer billed twice; the flag means settled; no work hidden from the pool |
| Draft editing (`invoicing/line_services.py`, `views.py`) | lines, fee, stored totals | add, change, remove a line, meta | totals are the sum of lines and fee; a sent invoice is frozen |
| Cost shares (`invoicing/cost_shares.py`, `buildings/views_cost_shares.py`) | `BuildingCostShare` | replace the set, split an amount | parts add up to the whole; each holder pays once |
| Schedule, nightly run (`invoicing/tasks.py`, `schedule.py`) | beat's message, the queue, the run under way | one generation per due customer | what a month left over is billed; the run bills what the panel shows |
| Extra Work (`extra_work/state_machine.py`) | `ExtraWorkRequest.status`, intent, status history | human transitions, derived ones, reconcile | the table is respected; COMPLETED is derived from the tickets |
| Proposals (`extra_work/proposal_state_machine.py`, `views_proposals.py`) | `Proposal.status` | create, send, decide, withdraw, publish, auto-start | decided once; an approval gets its ticket |
| Ticket spawning (`extra_work/proposal_tickets.py`, `instant_tickets.py`) | the tickets of an Extra Work | approval, instant order, retry | one request, one ticket; no work without a yes |
| Tickets (`tickets/state_machine.py`, `auto_close.py`) | `Ticket.status` | transitions, auto-close, park, sync of the parent | a closed ticket completes its Extra Work |
| Contracts (`contracts/`) | contract, revisions, `ContractInvoice` claims | lifecycle, header edits, price revision, periodic invoice | no day on two invoices; no due period left |
| Planned work (`planned_work/`) | recurring jobs, occurrences | nightly generation | a date is generated once |
| Timesheets (`timesheets/`) | `TimeEntry` rows, `WeekLock` | fill from the agreement, save a grid, close, reopen | a fill doubles nothing; a closed week stays |
| Hours sheet (`pages/MyHoursPage.tsx`, `components/timesheets/HoursWeekGrid.tsx`) | the week in view, what was read, what was typed | page, load, type, save, leave | the sheet is the titled week's; nothing typed is lost unasked |
| Browser session (`api/client.ts`, `auth/AuthContext.tsx`) | the token pair in local storage, the page's user, the refresh under way | login, logout, start-up load, calls, refresh | one refresh at a time; every call ends; a sign-out stays |
| SLA (`sla/`) | deadlines, pauses | start, pause, resume, warn | paused time does not count |
| Notifications, documents, audit, reports, permissions, accounts, other pages | | | outside the models, see the end |

How they interact:

- An approved proposal or Extra Work **calls** the spawn in its own transaction;
  a ticket's transition **calls back** into the parent Extra Work
  (`tickets/state_machine.py:744`), swallowing a stale status.
- Invoicing **reads** whether an Extra Work is billable
  (`extra_work/billing.py`), which follows from its tickets.
- The Generate button and the nightly run call the **same** service and share
  no lock. At its end the nightly run calls the contracts' generator, which an
  operator can run too; they meet in a unique key.
- The hours sheet asks the server to fill a week whenever it shows one, so any
  number of **fills** race with the saves of the same person and with the
  manager who closes the week.
- The tabs of a browser **share** the token pair in local storage and nothing
  else; in one tab all calls share one refresh.
- All state is in PostgreSQL at READ COMMITTED. A request reads a row through
  the view, checks on that reading, opens a transaction, and either locks the
  row and looks again, or trusts what it read.

The hard behaviour is therefore not in any single handler. It is in what other
requests commit between one request's reading and its write; in transactions
that cover several rows of which one is locked; in legal sequences across
three tables that nobody wrote a test for; in a month's work that depends on one
message arriving on one day; and, in the browser, in answers that come after
the page they were for. `PROJECT.json` lists each hazard at
its line with the properties aimed at it.

## Modules

| Module | What it is |
|---|---|
| `NumberLedger` | abstract: what gapless numbering promises, an append-only book of documents per year |
| `Invoicing` | detailed: invoices, claims, editing and numbering of one provider company; its `Ledger` instance is the refinement mapping |
| `MCInvoicing` | instances for TLC |
| `InvoicingProofs` | theorems about `Invoicing` under any number of requests, the refinement among them |
| `InvoicingSerialProofs` | theorems about `Invoicing` when requests do not overlap |
| `ExtraWork` | one Extra Work, its proposals and its tickets, the locks and transactions of the requests on them |
| `MCExtraWork` | instances for TLC |
| `ExtraWorkProofs` | theorems about `ExtraWork` |
| `NightlyRun`, `MCNightlyRun`, `NightlyRunProofs` | the daily run over the customers, day after day; instances; theorems |
| `ContractBilling`, `MCContractBilling`, `ContractBillingProofs` | contracts, their periods and claims, the generator; instances; theorems |
| `Timesheets`, `MCTimesheets`, `TimesheetsProofs` | the rows and locks of a person's weeks on the server; instances; theorems |
| `HoursSheet`, `MCHoursSheet`, `HoursSheetProofs` | the page over those weeks, with a server that may answer anything; instances; theorems |
| `Session`, `MCSession`, `SessionProofs` | the browser session over several tabs; instances; theorems |

`NightlyRun` takes the generation of one customer's invoices as one step, which
`Invoicing` has in parts, and `HoursSheet` takes every answer of the server as
possible, of which `Timesheets` gives the true ones.

### Invoicing

Each variable is a column: `status`, `deleted` (`deleted_at`), `customer`,
`reverses`, `number` and `year`, `fee`, `total` of `Invoice`; `lines` are the
invoice lines that point at an Extra Work, `hand` the net amount of all other
lines and price edits; `seq` is `InvoiceNumberSequence`; `isInvoiced` and
`earned` belong to the Extra Work, `holders` to the building's cost shares.
`req[r]` is what request r has read and not yet acted on. Money is counted in
units, one for each Extra Work line.

| Code | Actions |
|---|---|
| `get_object()` of a view | `Fetch` remembers status, fee and line |
| services that `select_for_update` (`state_machine.py`) | `Issue`, `Send`, `Unissue`, `Reverse`, guarded by the **current** row |
| services that trust the view's instance | `DeleteDraft`, `AddLine`, `LowerLine`, `RemoveLine`, `UpdateMeta`, `UpdateSummary`, guarded by `SeenDraft`, the **remembered** status |
| a line edit's aggregate and its commit | `AddLine` etc. compute the totals, `CommitLine` writes them |
| `generate_draft_invoices` | `Plan` outside the transaction, `ComputeFlags` in it, `CreateDrafts` at commit |
| any refusal, rollback or death of a worker | `Abandon` |
| tickets closing, reopening, Extra Work cancelled | `Earn`, either way |
| `BuildingCostSharesView.put`, the calendar | `SetShares`, `NewYear` |

A locked service is one action: the row lock makes its reading and its writes
indivisible towards every other request that locks, and READ COMMITTED makes
the writes visible at once. The counter row is locked from its increment to
the commit, so the allocation belongs to the same action. The steps that are
split are those where the code reads without a lock.

An edited line is saved whole, so one that another request removed since the
view read it is inserted again (`LineBack`). `UpdateMeta` writes the fee;
`UpdateSummary`, an edit of the texts alone, does not, and stores a total with
the fee its request had read. A plan (`Grouped`) makes one draft of the rows
addressed to the customer and one for each building of the others, and each row has an
address of its own.

### ExtraWork

`ew`, `intent`, `prop` and `ticket` are the status columns; `approved` says
that the status history of the Extra Work has an entry into CUSTOMER_APPROVED.
A request passes through three phases:

| Phase | Code | Action |
|---|---|---|
| read | the unlocked instance and every check on it | `ReadExtraWork`, `ReadReconcile`, `ReadProposal`, `ReadPublish`, `ReadCreate`, `ReadTicket`, `ReadRetry` |
| locked | `select_for_update` on the proposal or ticket, comparison with the status read, a fresh unlocked reading of the parent | `LockRow` |
| written | the parent's update, and the `exists()` that decides on a ticket | `WriteParent` |
| | the commit, which shows everything at once | `Commit` |

`RowFree` and `ParentFree` are the row locks: who wants a row another open
transaction has locked or updated waits. `WriteParent` distinguishes what the
code distinguishes. A transition of the Extra Work locks and compares it. A
ticket's sync and the start of a review go through that same transition
function and leave a changed parent alone. A proposal's move calls `save()` on
what it read. `Submit` is the creation of the request, which at agreed
prices spawns the ticket in its own transaction (`instant_tickets.py:197`).

### NightlyRun

`day` and `length` are the calendar, `schedule` the two columns of a customer,
`owed` the months a customer has unbilled work from, seen from this month:
earlier, this, later. `Tick` is beat's message, `Start` the task's reading of
the day and the candidates, `Bill` and `Fail` one turn of its loop
(`invoicing/tasks.py:310`), `Die` the time limit or a worker that goes down, after
which `CELERY_TASK_ACKS_LATE` may deliver the message again. `NextDay` moves
work into the past at the end of a month and lets a run cross midnight with
the day it started with. `Generate` is the button with `through`, as the
invoices page calls it.

### ContractBilling

`header` holds the terms of a contract, `life` its lifecycle, `agreed` the date of its first
revision, `claims` the `ContractInvoice` rows. `DueRows` is `_due_rows` with
all it calls: periods aligned to the calendar and clipped to the contract, the
invoice date in advance or arrears, the window of a year, the years walked.
`StartRun` reads the contracts, `BillRow` is one period's transaction and its
unique key, `Abort` any error that is not a duplicate. A period without a
revision in force (`InForce`) is skipped and the run goes on; so are those of a
contract deleted under a run, whose revisions went with it. A header can be edited
at any time and any draft deleted. An edit reads the contract (`ReadForPatch`)
and later saves every column of it (`Patch`), the lifecycle among them, which
`patch` holds. A revision without lines bills nothing and counts as no agreement.

### Timesheets and HoursSheet

`rows[w][l]` are the `TimeEntry` rows of a cell with their keys, `closed` the
`WeekLock` rows. A fill looks at the week's lock (`FillLooks`), locks the
agreement and reads the rows (`FillLocks`) and writes (`FillCommits`); a save
judges (`SaveJudged`) and applies (`SaveApplied`) in two steps, for nothing
is locked between them. The first step looks up the row of each cell, and the
second changes the row that was found, though a newer one may be there by then,
and inserts it again if it has been deleted. A cell may have several rows; the
code takes the newest, the model any of them. `late` remembers that the week was
closed in between.

`load` are the runs of the page's load effect, each with its `cancelled`,
`save` those of `handleSave`; `mine` says that the grid it was started from
is still on the screen, for the grid is mounted anew for every week. `loading`
and `busy` are derived, as in the code. `excuse` names the two ways in which
the code loses track, see the observations.

### Session

`store` is local storage, `issued`, `live` and `fresh` are the server's view of
the tokens; `me`, `loading`, `expired` and `header` are each tab's page;
`refresh[t]` is its `refreshPromise`, `call` its outstanding calls. A token pair
is a number. What runs in one turn of the event loop is one action: `Refreshed`
stores the pair and sends the queued calls again, `SessionEnds` is the
interceptor's last branch with the listener in `AuthContext`. `Load` is a page
load at any time; it forgets what the old document waited for, and the server
may have rotated its token all the same (`Revoked`).

## Runs

| Run | Instance | Shows |
|---|---|---|
| `InvoicingConcurrent` | 2 requests, 3 invoices, 1 Extra Work, 2 years, shares that change | `TypeOK`, `GaplessNumbers`, `NumberedWhenCommitted`, `OneReversal`, `NoHiddenWork`, `LegalLifecycle`, `LedgerSpec` under every interleaving |
| `InvoicingSerial` | 1 request, 3 invoices, 1 Extra Work, 2 customers, a building shared or not, hand edits and a fee | `TotalsMatchLines`, `ReversalCancels`, `SentImmutable`, `NoDoubleBilling`, `FlagMeansSettled`, `NumberedNeverDeleted` when requests do not overlap |
| `ExtraWorkConcurrent` | 2 requests, 2 proposals with work to spawn, 2 tickets | `ApprovedHasTicket`, `NoWorkWithoutYes`, `ProposalDecidedOnce` under every interleaving |
| `ExtraWorkSerial` | 1 request, 2 proposals, one with work to spawn, 2 tickets, SUPER_ADMIN jumps | `TypeOK`, `OneTicket`, `LegalExtraWork`, `DerivedCompletion` when requests do not overlap |
| `NightlyRun` | 2 customers of whom the first always fails, 3 schedules, months of 2 or 3 days, 1 worker | `TypeOK`, `PanelAgrees`, `CaughtUp` |
| `ContractBilling` | 1 contract, 8 terms, 2 runs, 2 years of 2 months of 2 days, reruns for the last day | `TypeOK`, `BilledOnce`, `NothingDueLeft` |
| `Timesheets` | 1 week, the agreement's line and one more, 2 fills, 2 saves | `TypeOK`, `FilledOnce`, `ClosedWeekFrozen` |
| `HoursSheet` | 2 weeks, 1 cell, 2 loads and 2 saves under way | `TypeOK`, `LossIsAsked`, `WeekShown`, `WeekLoads`, `SaveSettles` |
| `Session` | 2 tabs, one with 2 calls under way, 2 token pairs | `TypeOK`, `OnePresentation`, `CleanLogoutSticks`, `LoadDecides`, `CallsSettle`, `DeadTabNotices` |
| three runs that find a violation | 2 requests, or 1 tab with 2 calls for `SessionLogoutUndone` | see Findings |

A property is in a concurrent run when the code's locks protect it, and in a
serial run when they do not: the serial run shows that the **sequences** of
operations are right, the violation run that the interleaving is not. No run
restricts the interleaving to make a property hold; a serial run has one
request.

Bounds. Two requests are the fewest that race, and each hazard listed is a
race of two. Three invoices hold an original, its reversal and the draft that
bills the released work again, or the parts of two share-holders and a part
billed again after its draft was deleted. One Extra Work suffices for the races
and for the sequences: the parts of its two share-holders are two lines on two
drafts. Two Extra Works with hand edits and shares are beyond a few minutes.
Two proposals cover a quote and the one that replaces it, two tickets the
duplicate. `MaxHand` bounds the net amount of hand edits at one unit either
way, and `Fees` is {0} or {0, 1}: the properties only compare sums. `Years`
has one year where the year is idle and two where a year changes.

Two schedules, a month of two or three days and a message at most waiting give a
billing day that is the last day, one that is not, and a night between two. A customer
that fails and one behind it is the least that can block. Two years of two
months with terms of one or two months have every kind of boundary the window
and the walk over the years have: a period at a year's end, arrears billed in
the next month or year, a clipped first and last period, a gap of several
periods caught up at once. Two fills, two saves and a closing are the least
that race in a week; four keys for the rows of a line are enough, for six give the
same number of states, as keys are used again. One edit of a contract is under
way at a time. Two weeks let a page leave and come back while two loads
and two saves of it are under way. Two calls of one tab are the
least that share a refresh; the other tab signs the browser out, and is loaded again,
at any moment of theirs. To the first, a second tab that rotates the token
under a refresh is the server's `Revoked`; two tabs that store tokens of their own
are in the theorem about `OnePresentation`. Two token pairs are one
login and one rotation.

Primary keys run out in `Invoicing`, an Extra Work ends in CANCELLED or
CUSTOMER_REJECTED, a contract's days and a browser's tokens are bounded, so
those runs do not check for deadlock; no part of the system waits for another
outside a row lock, and a lock's holder can always commit or abandon.
`Timesheets` and `HoursSheet` run with deadlock checked. Symmetry is used on
requests, runs and interchangeable rows only, and no liveness is checked with it.

**Fairness.** The rows of the database promise safety only, and no fairness is
assumed there. Liveness is claimed in three places.

- `Session`: both HTTP clients have a timeout (30 s, and 8 s for a refresh), an access
  token expires after 60 minutes, and a page with a user polls every 15
  seconds: weak fairness. That the server answers a call now and then is strong
  fairness, for a call can always time out first. `CallsSettle` supposes a page
  that is not reloaded for ever, `DeadTabNotices` nothing more.
- `HoursSheet`: the client's timeout only, weak fairness. `WeekLoads` supposes
  that nobody turns the page any more. `SaveSettles` supposes nothing.
- `NightlyRun`: days pass, and a run goes on or is ended by its time limit: weak
  fairness. Beat and a worker are up on some billing days of a customer, though
  on none in particular; a run does not die every month at the same earlier
  customer; a customer that is not broken is billed at some of its turns: strong
  fairness, each where a single failure must be allowed and an eternal one
  would refute everything. `CaughtUp` supposes a schedule that is settled. It
  is about work left from **earlier** months; work of this month becomes that
  at the month's end. Two workers have 400,000 states, too many for the
  liveness check; the theorems cover them for safety.

Every property has a mutant: an operator of the model put in place of the
translated one, like the un-issue that forgets the number or the retry that
skips its status check, for which TLC finds the property violated. The mutants stand
next to what they replace and no specification uses them.

## Findings

| Run | Disagreement |
|---|---|
| `InvoicingDoubleBilling` | the plan is read before the transaction opens and the claim never looks again (`invoicing/services.py:366`, `:380`), while `invoicing/views.py:245` says double billing stays impossible: two generations bill one Extra Work twice |
| `ExtraWorkResurrected` | a proposal's move writes the parent's status over a cancellation that committed after it had read the parent (`extra_work/proposal_state_machine.py:284`) |
| `SessionLogoutUndone` | signing out does not cancel a refresh under way, whose answer stores the new tokens (`api/client.ts:120`): the browser is signed in again, while the comment in `logout()` says that local logout must succeed |

`NoDoubleBilling`, `NumberedNeverDeleted`, `SentImmutable` and `LegalExtraWork`
therefore hold for requests that do not overlap, as the serial runs and the
theorems on them say.
`CleanLogoutSticks` is what remains of `LogoutSticks`.

What the serial runs do not show. With one request nothing overlaps, so a
passing serial property says that the checks and the sequences of operations
are right, and nothing about the races on them: a deletion or an edit against an issue and a send
(`NumberedNeverDeleted`, `SentImmutable`, `ReversalCancels`), two edits of one
draft (`TotalsMatchLines`), two holders billed at the same moment
(`FlagMeansSettled`), two routes that spawn a ticket (`OneTicket`), a stale
write over the parent (`LegalExtraWork`; `ExtraWorkResurrected` shows it).
Each of these races breaks its property in the code, and `hazards` says so at each.

### Observations

Seen while modelling; no run is kept for them.

*Invoices and Extra Work*

- `delete_draft_invoice` (`invoicing/services.py:421`) and the line and meta edits
  (`invoicing/line_services.py:69`) test DRAFT on the instance the view read. An
  issue and a send in between make them delete or change a numbered, sent
  invoice, which `invoicing/state_machine.py:10` calls immutable.
  `InvoicingConcurrent` with `NumberedNeverDeleted` or `SentImmutable` shows it.
- Two overlapping edits of a draft leave a stored total that is not the sum of
  its lines, and so does an edit of the texts alone that read the fee before
  another request changed it (`invoicing/line_services.py:188`). An edit of a
  line that was removed meanwhile inserts it again (`invoicing/line_services.py:146`).
- Two holders of a shared building billed at the same moment each see the other
  as unbilled, and the fast flag stays unset (`invoicing/services.py:264`). Nobody is
  billed twice by it, since the claims decide.
- The `@transaction.atomic` meant for the tickets' `apply_transition` stands on the helper
  before it (`tickets/state_machine.py:387`). A caller without a transaction of
  its own (`tickets/views.py:1355`) fails at `select_for_update`; the tests do
  not notice where they run in one.
- An administrator reopens a closed ticket and its Extra Work stays COMPLETED
  (`tickets/state_machine.py:816`), a state `extra_work/state_machine.py:196`
  calls impossible.

*Nightly run*

- Beat's interval of 24 hours (`config/settings.py:502`) restarts whenever its container
  is created anew, for its schedule lies in `/tmp` (`docker-compose.prod.yml:97`):
  a deploy moves the run, and can leave a day out.
- A message that waits past midnight runs with the next day's date; the
  customers of the day it was sent on wait a month.
- The soft time limit raises inside one customer's turn and is counted as that
  customer's failure; the hard limit ends the run for all that follow.

*Contracts*

- Editing `start_date` or `billing_period` of a contract in use moves the
  periods away from their claims, and days are billed twice
  (`contracts/views_contracts.py:373`). `BilledOnce` excuses it by `moved`.
- `_due_rows` walks the years up to the one the contract ends in
  (`contracts/invoice_generation.py:162`), so a last period that is invoiced in the
  year after is never billed, while its docstring says "Every period whose
  invoice date has ARRIVED". `NothingDueLeft` leaves that period out.
- The generator bills the full amount of each line; the forecast prorates.
- An error other than a duplicate ends the whole run, the contracts after it included.
  A contract deleted under a run does not: its periods are skipped for lack of a revision
  (`contracts/invoice_generation.py:236`), unless it goes between that look and the insert.
- A PATCH saves every column of the contract it read (`contracts/views_contracts.py:373`). A
  cancellation that committed meanwhile, which `contracts/state_machine.py:111`
  calls final, is undone by it, and a contract deleted meanwhile is inserted again without its
  revisions. `BilledOnce` and `NothingDueLeft` are checked with such edits.
- A run works with the header and lifecycle it read when it started, and the lock of a
  revision is checked before the first invoice is there.
- If a last period was claimed clipped and the end is then moved out, the days
  gained in that period are never billed.

*Timesheets and the hours sheet*

- Clearing the last row of a week makes the week empty, and the next showing
  fills it again, while `timesheets/fill.py:34` means not to re-add "a row
  somebody deliberately deleted".
- A save that looked up a row which is deleted before it writes inserts that
  row again (`timesheets/views_week_grid.py:305`).
- Two saves of one new cell leave two rows. The sheet then shows the oldest and saves to
  the newest (`views_week_grid.py:302`): a correction does not appear.
- A fill or a save that found the week open may write after it was closed; no
  lock is taken on the week. `ClosedWeekFrozen` excuses exactly these.
- The answer to a save from the week before marks the new week's sheet clean
  (`HoursWeekGrid.tsx:1124`), after which leaving loses hours without a question.
  `LossIsAsked` excuses it, and the same after agreeing to leave for the very week shown.
- The reading after such a save puts the old week's rows under the new title (`MyHoursPage.tsx:296`,
  which has no `cancelled`), and a failed load leaves the old rows under it with an error.

*Session*

- Two tabs that refresh with the same token: the second is refused, for the
  server rotates, and wipes the fresh pair of the first (`api/client.ts:124`),
  although the session was neither dead nor un-refreshable.
- A refresh that is answered after a new login stores its pair over the login's.
- A start-up load that meets a network error signs the user out.
- An answer to `/auth/me/` after a sign-out shows the user again until the next
  401; `DeadTabNotices` is that this ends.

## Proofs

Every safety property that a passing run checks is a theorem. The theorems hold
for any sets of rows, and for any set of requests but for the nine on serial
properties, which assume `OneAtATime`. They rest on the named
assumptions of the modules: `RowsAssumption` (the relations between the sets
of keys), `NoneAssumption`, `NumbersAssumption` (years are positive
numbers), `SessionAssumption` (each call has its tab), `HoursSheetAssumption`,
`TimesheetsAssumption`, `NightlyRunAssumption` and `ContractBillingAssumption`
(the kinds of their constants; a schedule's day exists in every month, a
contract ends no earlier than it starts). TLC evaluates them in every run.

`Spec => []GaplessNumbers` cannot be proved from itself: that a send takes a
fresh number needs that every number given out is at most its year's counter,
and that a reversal takes an unused row needs that unused rows carry nothing.
`NumberingInv` adds what is missing: unused rows are blank (`UnusedBlank`),
numbers lie in 1..counter (`NumbersInRange`), are distinct (`NumbersUnique`)
and fill that range (`NumbersFilled`), a number is exactly on what was sent or is
a reversal (`NumberedWhenCommitted`), a reversal points at a sent invoice
that is none itself (`ReversalsSound`), and no pending request acts on a row
that does not exist (`RequestsSound`). `NextNumbering`
shows it action by action; `AllocationKeepsBook` is the lemma about
`AllocateFor` that its sends and reversals share. From it follow `TypeCorrect`,
`GaplessNumbering`, `NumbersOnlyOnCommitted`, `SingleReversal` and
`LifecycleHolds`. `WorkNeverHidden` adds the claims: what is flagged has a live
line, which a deletion or reversal may take away only together with the flag.
`ImplementsLedger` shows that reading the book off the numbered invoices maps
an allocation to an append at the end, a new year to a new year, and
every other step to a stutter.

`ApprovalInv` does the same for `ExtraWork`. `NoWorkWithoutYes` and
`ApprovedHasTicket` are broken or kept at the commit of a transaction whose
checks lie several steps back, so the invariant carries those checks forward:
a pending request asks for what was legal when its row was read
(`RequestsSound`); a locked row stays as it was read and has one holder
(`HeldRows`, `OneHolder`), which is what the comparison under the lock is for;
an approval that will not insert a ticket has seen one (`PromisedTicket`);
an approved Extra Work has the entry in its history (`ApprovalRecorded`).
`ReadingStarts` shows that all readings set up such a request, `RecordStep`
that a step that only changes one request's record keeps the rest, and
`CommitRows` what a commit does to each row. The theorems are `TypeCorrect`,
`ApprovalGetsTicket`, `YesBeforeWork` and `DecidedOnce`.

`Session`: `OnePresentation` is not about the refresh under way alone. That a document does not
show a token again needs that the token it would show is new to it, and that
depends on what every tab has stored; the invariant of `SessionProofs` follows each
token from the server to storage. `CleanLogoutSticks` needs that no tab is
refreshing while the sign-out counts as clean, `LoadDecides` that the start-up
call of a loading page is on its way. The theorems of `Session` and `HoursSheet` are stated for
`Spec`, and proved of `Safety`, its part without fairness (the lemma `SpecIsSafe`).

`Timesheets`: `FilledOnce` is kept by the fill that holds the agreement, so its
invariant is the last part of `TypeOK`: one holder, and what it saw as empty
holds no filled row until it commits. A save that inserts a row again does not
disturb this, for it is no filled one. `ClosedWeekFrozen` needs that whatever
is past its look at an open week is marked `late` when the week is closed; it
says that nothing but these changes a closed week.

`HoursSheet`: `WeekShown` needs that of the loads under way all but one are
cancelled and that one is for the week in view (`LoadsInView`), that a save
of this grid is for this week (`SavesInView`), and that what is loaded is what is
shown (`ShownIsLoaded`); `NothingSilentlyLost` follows the edits along. Both
properties carry the excuses that their formulas name, and so do their theorems.

`NightlyRun`: a run that knows it has not crossed midnight bills in the month the panel is in.

`ContractBilling`: the unique key forbids one first day twice, not one day
twice. `BilledOnce` follows because every claim, and every row of a run however
old its reading of the terms, lies on one grid: it starts with its period or
with the contract, and ends no later than the period (`OnGrid`). Edits of the
end, the billing day or the type leave the grid alone, and so does any edit
of a contract that is not in use, which is `PatchStep`;
`PeriodsApart` is the arithmetic.

`NothingDueLeft` is about the order of things rather than the grid. `NothingLost` says
of a run under way that each period it owes (`Owed`) is among its rows or claimed
(`Kept`); the claim of a row, or the refusal of its savepoint because the key is
there already, moves it from the one to the other. That it holds at the start is
`DueRowsComplete`: the generator looks at the years around the contract's dates
and at one period more at either end, which suffices because a period's invoice
falls in the period itself or in the next one.

**Requests that do not overlap.** TLC finds each serial property violated with two
requests, so their theorems assume `OneAtATime`: no two requests in `Requests`
differ. They show that the sequences of operations keep the properties, for any
numbers of rows, years and amounts; the code does not ensure that requests keep
apart. What one request gains is that its readings stay true until it acts on
them, and that is what the invariants say.

- `SerialInv` of `InvoicingSerialProofs`: the status, the fee and the line a
  request has read are still those of the row, and the total it has computed is that
  of the lines it will leave, and no line is to be inserted again
  (`ReadingsCurrent`). With it an edit or a deletion that was checked against a draft meets a draft (`DeletedDrafts`), so that a reversal
  negates a total that will not move. The theorems are
  `TotalsRight`, `ReversalsCancel`, `NumberedKept` and `SentNeverChanges`.
- `BillingInv` adds the claims: what a generation has planned is still unbilled
  for its customer, its groups share no Extra Work, and its flags are those of the
  shares as they are (`PlansCurrent`); work on a shared building is claimed for
  holders only (`ClaimsByHolders`), without which a flag could be earned by a
  customer who holds nothing. `BilledAtMostOnce` and `FlagsRight` also
  assume `~ShareEdits`, as the serial run does: a replaced set of shares changes
  what settled means under claims that stand, and both fail then with one request.
- `SerialInv` of `ExtraWorkProofs`: the parent is as the request read it, the move it
  writes is legal from there, it completes only what is done, and it spawns
  only where no ticket is. Two-step transactions are legal by the table
  alone (`MoveTable`, `DoubleMoves`). The theorems are `SpawnedOnce`,
  `StatusFollowsTable` and `CompletionDerived`, with or without SUPER_ADMIN jumps.

TLC checked each of these invariants before it was proved.

Only model-checked: the liveness properties (`CallsSettle`, `DeadTabNotices`,
`WeekLoads`, `SaveSettles`, `CaughtUp`). Liveness, ENABLED, and what recursive
definitions compute are out of the prover's reach.

## Abstractions

- **Permissions, required fields, evidence and prices** can refuse a request;
  they never let one through that the model blocks. A refusal is `Abandon`.
- One provider company in `Invoicing` (the counter is per company), one Extra
  Work in `ExtraWork` (no handler touches two).
- `Invoicing` groups by customer and building; the finer keys refine a
  building's group. Labels and their resync at issue, the frozen PDF, billing
  addresses, and the contract claim a deletion releases are left out.
- Hand-added lines are one net amount, so which of them is edited or inserted
  again is not told apart.
- The flags of a generation are computed at one point of its transaction, a
  meta update and its totals are one step, and a foreign key's share lock,
  which only delays a request, is not modelled.
- `Spawning` fixes which proposals have a line approved for spawn. Publish and
  auto-start read the parent once for their two moves; two moves in one
  transaction (auto-close, park, catch-up to COMPLETED) are composed into one.
- Tickets of an Extra Work are not deleted. Several tickets for one Extra Work
  arise only in the race on the one-ticket rule.
- Crashes lose what was not committed and nothing else: `Abandon` again, and
  `Abort`, `Die`, `FillDies`, `SaveDies` elsewhere.
- In `NightlyRun` a month has a few days and a customer's work is one bit per
  month; in `ContractBilling` months and years have a fixed length, and which
  invoices are still drafts is left out: each may be deleted. One PATCH of a
  contract is under way at a time, and a contract's agreement begins on one first day.
- In `Timesheets` a fill writes one row of one hour, a save's cells are looked
  up together and written together, and a cell stands for day, hour type,
  building and source. A row inserted again counts as one nobody filled.
- In `Session` the client's 401 for a login or refresh call itself, which the
  interceptor leaves alone, is the failure of that call. The server judges an access
  token when its answer leaves.

## Not modelled

Notifications are best effort by design and feed nothing back. Documents and
PDFs are I/O. Permissions, companies and accounts are configuration to the
modelled transitions. The audit log and the reports only read. Planned work,
the SLA clock, ticket planning and the splitting of amounts carry logic worth
modelling and are on the plan.

Most of the client's code is pages: forms, tables and dialogs that read from the
server, render, post and read again. The server checks everything they post,
and what they keep is gone when they are closed. A model of such a page would
restate its layout. Modelled of the client is what keeps state that outlives a
call or that several answers write to: the session, and the hours sheet, the
page with most of it.

## Plan

1. `CostShares`: the split of an amount over the holders (`cost_shares.py:83`)
   against a reference definition, over all small weights and amounts; the
   lemmas about floor and remainder that need no induction proved.
2. `PlannedWork`: generation of occurrences under reruns and edits.
3. `Billing`, which composes `ExtraWork` with the claim: `Earn` of `Invoicing`
   becomes the ticket's transition, and what is billed was done.
4. The SLA clock's pause and resume, and the label resync at issue.
5. Proofs: the serial properties under weaker conditions than one request
   (which pairs of operations may overlap and keep which property).
