# wwe-OS: TLA+ models, checks and proofs

wwe-OS is a multi-tenant business platform: a Django backend (`src/platform`),
business modules on top of it (`src/modules`), a few satellite services
(`src/services`) and web and mobile clients. Its concurrency is the concurrency
of a web application: several request processes, cron jobs and a tick loop
share one database, and almost every ORM statement is its own transaction.
Nothing else orders them. The interesting behaviour is therefore in what a
process *read before* and *writes after* somebody else's statement, and in what
a kill between two statements leaves behind.

This directory models that behaviour for the pipeline engine everything durable
runs on, the automation scheduler that drives it, the bill register of the
finance module, where a gap or a repeat has legal weight, the bulk import that
feeds it, the intake of purchase bills through a bot that retries, and one month
of HR figures with its lock. The modules are read side by side with the source;
`PROJECT.json` gives for every definition the lines it stands for, for every run
its configuration, and for every property a mutated definition that breaks it.

## 1. The system

| Part | State | Operations | Talks to |
| --- | --- | --- | --- |
| `platform/workflow` engine | `pipeline_run` and `pipeline_step_run` rows; the copies workers hold | `start`, `advance_one`, compensation, `_finish_run`, `reclaim_stale_steps`, `tick_all`, `run_to_completion`, pause / resume / cancel / retry | publishes `WORKFLOW_*` events |
| `platform/automation` | `automation_rule`, `automation_run` rows | `run_due`, `run_rule`, run-now, the completion subscriber, create / PATCH / delete of rules | engine (calls), event bus (callback) |
| `platform/shared` | subscriber table; soft-delete flags | `publish`, `subscribe`, `delete` | everything |
| `modules/finance` register | `invoice`, `invoice_number_sequence` | `generate`, `import_historical`, `update`, `cancel`, `delete`, payment marks; `reserve`, `reconcile` | periods, storage, search, audit |
| `modules/finance` import | import batches and items | `create_batch`, `run_extraction` (a pipeline step), `save_draft`, `commit_item`, `discard_item` | engine, register |
| `platform/periods` | `business_period` | `lock`, `unlock`, `set_status`, `assert_open` | finance, hr |
| `modules/hr` | attendance, payroll, claims, register versions, leave | `save_grid`, `check_in`, `offboard`, payroll `run`, register `generate`, `submit` / `decide`, `withdraw` | periods, storage, audit, face service |
| `modules/purchase` | `purchase_bill` | `ingest`, `update_bill`, `mark_paid`, `unmark_paid`, `delete_bill` | rules, storage, events, search |
| `services/telegram-bot` | the message in hand | `handle_document`: post, OCR, post again, retry | purchase API |
| `platform/rules` | none | `evaluate_purchase_bill` | purchase |
| `modules/contracts`, `assets`, `inventory`, `documents` | one row per business object | status machines, a stock ledger, daily scans | storage, search, events |
| `platform/auth`, `alerts`, `auditor`, `notifications`, `audit`, ... | sessions, counters, alert rules, append-only records | single-row operations and sweeps | event bus |
| `services/*`, `apps/*`, `packages/*` | none of record | clients and stateless inference; several are empty scaffolds | REST API |

The hard behaviours are the same everywhere: (a) a guard evaluated on a copy
read earlier (`if request.status != PENDING`), (b) a save computed from such a
copy, sometimes of *all* fields, (c) a kill between two statements that belong
together, (d) two cron sweeps or ticks overlapping, (e) an event delivered
synchronously, in the process that happened to win a race, and lost with it.
`PROJECT.json` lists the places that matter with their lines under `hazards`.

What makes each component correct:

- **engine** — outputs are never lost, a step has one executor, a run ends once
  and is announced once, what a failed or cancelled run did is undone exactly
  once and in reverse, control requests hold, every run ends;
- **automation** — one run per tick of the schedule, ONCE means once, every
  outcome is recorded, a due rule is served, one bad rule does not starve others;
- **register** — numbers are unique and the sequence has no hole of its own, a
  cancelled or deleted bill stays so, a bill keeps its lines and documents;
- **import** — a committed item is one invoice, what an operator decided is not
  overwritten by the reader, the batch status follows from its items, no scan is
  forgotten;
- **purchase bills** — the rules, or an operator, decide who looks at a bill; what
  the sender is told is true; a retry loses nothing;
- **HR month** — the figures are those of one run, a submitted register is what
  is on file, a locked month stands still, only approved claims are paid;
- **leave** — a request is decided once and no balance is overdrawn.

## 2. Modules

| Module | Role |
| --- | --- |
| `PipelineEngine` | the engine, one action per ORM statement |
| `Saga` | the abstract promise of a run: forward one step at a time, or unwind |
| `MCPipelineEngine` | instance for TLC (adds the symmetry set and the program points of a kill) |
| `PipelineEngine_proofs` | theorems about `PipelineEngine`: types, outputs, executors, compensations |
| `PipelineSaga_proofs` | that the engine implements `Saga`, and that an end is announced once |
| `PipelineCounts_proofs` | how often a step runs and is undone |
| `AutomationRule` | rules, sweeps, callers, ticks, subscriber, users |
| `MCAutomationRule` | instance for TLC |
| `AutomationRule_proofs` | theorems about `AutomationRule` |
| `InvoiceRegister` | overlapping requests on the invoices of one financial year, their number sequence, documents and period locks |
| `MCInvoiceRegister` | instance for TLC (adds the symmetry set) |
| `InvoiceRegister_proofs` | theorems about `InvoiceRegister` |
| `InvoiceImport` | one batch of scans: upload, OCR runs, review, commits, batch status |
| `MCInvoiceImport`, `InvoiceImport_proofs` | instance for TLC; theorems |
| `BillIntake` | the bot, the ingest workers, the rules and the purchase screens |
| `MCBillIntake`, `BillIntake_proofs` | instance for TLC (adds symmetry); theorems |
| `HrMonth` | attendance, payroll, claims, registers and the lock of one month |
| `MCHrMonth`, `HrMonth_proofs` | instance for TLC (adds symmetry); theorems |

The components meet in three places, and each module takes the other side as what
it is there: `AutomationRule` uses of the engine that an active run ends by one
conditional UPDATE; `InvoiceImport` runs its OCR as a one-step pipeline whose
lease is respected, and sees the register as a map from number to invoice with
the unique key of `InvoiceRegister`; the period lock is the same check-then-write
in `InvoiceRegister` and `HrMonth`.

### PipelineEngine

The state is one `PipelineRun` row (`run`: status, termination reason,
`current_step_index`, the set of steps whose output is in `context`, whether
`started_at` is set), its `PipelineStepRun` rows (`steps`: status, `attempt`,
whether the backoff is over, whether the lock is past its timeout), and, for each
worker, its program counter, the copy of the run it read at the start of
`advance_one`, the step it looks at and the attempt it refreshed. Ghost counters
record how often each step's `run` returned (`ran`), how often its `compensate`
was called (`undone`) and how often each event was published (`published`).

| Code | Actions |
| --- | --- |
| `PipelineService.start` | `CreateRun`, `CreateStep`, `CallerCrash` |
| `tick_all` / `run_to_completion` picking the run | `Select` |
| `advance_one` | `Look`, `ClaimWins`, `ClaimLoses`, `Refresh`, `MarkRunning`, `BodySucceeds`, `BodyFails`, `SaveStep`, `SaveRun` |
| `_handle_step_failure` | `RetryStep`, `FailStep`, `FailRun` |
| `_advance_compensation` | `Unwind`, `ClaimUndoWins`, `ClaimUndoLoses`, `Undo`, `SaveUndo`, `SkipPending` |
| `_finish_run` | `FinishWins`, `FinishLoses`, `Publish` |
| `reclaim_stale_steps` | `LockExpires` (time), `Reclaim` |
| control plane | `RequestPause`, `RequestCancel`, `FetchForResume`, `RequestResume`, `FetchForRetry`, `RearmSteps`, `Requeue` |
| a killed process | `WorkerCrash`, at the program points in `CrashPoints` |

A conditional `UPDATE ... WHERE status = x` is one action with its condition as a
guard; a `save(update_fields=...)` writes exactly those fields, computed from the
copy. The assumptions that decide which guarantees hold are constants, so that a
run states under which of them it checks:

- `SlowSteps` — may a *live* worker hold a step past `timeout_seconds`? If so its
  step is reclaimed and runs a second time.
- `EagerTicks` — may a tick see the run before `start` has created its step rows?
- `CrashPoints` — between which statements may a process be killed?
- `Retired` — steps whose key only some of the deployed releases know.
- `Tickers` — the workers that are `pipeline_tick`; the others drain a run with
  `run_to_completion` and reclaim nothing. A ticker reclaims everything stale
  before it selects runs, as `tick_all` does.

Abstracted: what steps compute (an output is the fact that it is present), error
texts, timestamps (a backoff is due or not, a lock expired or not), tenants, and
other runs (steps of different runs share nothing; the batch limit of `tick_all`
is the exception, see section 6).

### Saga

`Saga` knows only a phase and the set `done` of steps whose success stands.
`PipelineEngine` instantiates it with a success standing until its compensation
is *claimed* (`ClaimsImplementSaga`): however many workers race, undos are claimed
from the last success to the first. The stronger reading, in which a success stands
until its undo is *recorded*, is not one the code keeps: two ticks may be
compensating two steps at the same time, and a worker killed during an undo leaves
its step COMPENSATING in a run that ends.

### AutomationRule

Rows are `rules` (cadence ONCE or recurring, `next_run_at`, `is_active`, deleted)
and `runs`, keyed by what identifies a pipeline run: the rule and `next_run_at`
for a scheduled one (the idempotency key), a number of its own for a manual one.
Of the engine it uses only that an active run ends by one conditional UPDATE,
whose winner calls the subscriber. `procs` holds what each process has in
memory: the rules a sweep has listed, the run it drains, `finished_at` and the
`is_active` the subscriber has read.

| Code | Actions |
| --- | --- |
| `run_due`, `run_rule` | `List`, `StartDue` |
| `run-now` | `RunNow` |
| `_finish_run` and `publish` | `Finish`, back through `Published` |
| `_on_pipeline_finished`, `_record_run`, `_advance_schedule` | `Subscribe`, `Record`, `AdvanceSchedule` |
| `run_to_completion`, `AutomationRun.objects.get` | `SeesEnd`, `TimeOut`, `Read` |
| PATCH, DELETE, operator retry | `FetchForEdit`, `SaveEdit`, `Delete`, `Retry` |
| a killed process | `Crash` |

`Read` leaves the sweep when there is not exactly one `AutomationRun`, and
`TimeOut` when the 30 seconds are over: both are exceptions nobody catches.
The clock advances with every end of a run, so no two `finished_at` are equal.

### InvoiceRegister

Here statements are grouped in transactions, so the state is what has been
*committed* (`counter`, `register`, `files`, `locked`), what no rollback brings
back (`bytes`, the keys the storage provider has bytes under), and, in
`requests`, what each request has read or written so far. A transaction's writes
appear at its commit. Before that the others meet its locks, spelled out in
`WaitsFor`: the counter row (from `reserve` or `reconcile` to the end), the unique
key of an inserted number, the invoice row (from `update`'s first save, or
`delete`'s last), the row of a stored file. This is PostgreSQL (`docker-compose.yml`)
under its default, read committed; SQLite, used by tests, serialises writers.

| Code | Actions |
| --- | --- |
| `generate` | `StartGenerate` (period check), `Reserve`, `Create`, `Store`, `CommitNew` |
| `import_historical` | `StartImport` (clash check), `Create`, `Store`, `Reconcile`, `CommitNew` |
| `get_object` of the view | `Fetch` |
| `update` | `Guard`, `SaveHeader`, `Store`, `Unlink`, `Retire`, `CommitUpdate` |
| `delete` | `Guard`, `Unlink`, `Retire`, `Flag`, `CommitDelete` |
| `cancel`, `mark_sent`, `mark_paid`, `unmark_paid` | `Guard`, `Mark` |
| `PeriodService.lock`, `unlock` | `LockPeriod`, `UnlockPeriod` |
| rollback | `Fail` at the points in `FailPoints`; a unique key refused in `Create` or `Store`; `DeadlockVictim` |

`figures` and `lines` carry the ticket of the request that wrote them, which tells
which totals belong to which lines; `raised` is a ghost, the request that raised
the bill. A month stands for everything else in a document's path, so moving a
bill to another month is also what a change of the customer's name would be. The
workbook and the PDF of a bill take the same path and are one document; the
removal of the first when the second fails is not modelled.

### InvoiceImport

`items` are the `InvoiceImportItem` rows (status, the number of the draft, the
invoice), `runs` their pipeline runs with the attempts, `batch` its status,
`register` who holds each number. `desks` is what every actor (the upload, OCR
workers, operators) is at: the copy of the row the request read, the copies
`commit_batch` read at once, the batch as read for the refresh. `stale` and `torn`
are history: scans written from an old copy or left half committed, and refreshes
that saved from an old view or were cut short; the properties say where they matter.

| Code | Actions |
| --- | --- |
| `create_batch` | `Store`, `SkipFile`, `AbortUpload` |
| `run_extraction` | `Claim`, `Mark`, `Extract`, `Raise`, `GiveUp`; `Reclaim` by the engine |
| `save_draft` | `Open`, `SaveDraft`, `Refuse` |
| `discard_item` | `Open`, `Discard`, `Refuse` |
| `commit_item`, `commit_batch` | `OpenOne`, `OpenAll`, `Import`, `Link`, `Skip`, `EndCommit` |
| `_refresh_batch_status` | `Look`, `Weigh`, `WriteBatch` |
| a killed process | `Kill` at the points in `KillPoints` |

`Extract` saves the whole row, as `item.save()` does; the others save the fields
of their `update_fields`. An edit may blank the number. A draft is reduced to its
number, a reading to a number and the status `_review_status` gives it.

### BillIntake

`bills` are the `PurchaseBill` rows by `external_ref`; `bot` is where
`handle_document` is with the message in hand, `workers` what each ingest request
has in memory (the copy of the row read before the document is fetched), `screens`
the operators' requests, `told` what the sender heard last. `reviewed` and `read`
are history: who set the status, and which readings were committed.

| Code | Actions |
| --- | --- |
| `handle_document`, `_post_to_platform` | `Receive`, `Post`, `Unreachable`, `Timeout`, `Ocr`, `OcrFails`, and `Take` with `Retry`, `GiveUp`, `Tell` for the answer |
| `IngestBillView.post`, `ingest` | `Lookup`, `Refuse`, `Write`, `Clash`, `Commit`, `Reply` |
| `parse_raw_or_extract`, `evaluate_purchase_bill`, the duplicate query | `Parse`, `Stated`, `Evaluate`, `IsDuplicate`, in `Digest` |
| a 500 or a killed worker | `Fail` at the points in `FailPoints` |
| `update_bill`, `mark_paid`, `unmark_paid`, `delete_bill` | `Open`, `Correct`, `MarkPaid`, `UnmarkPaid`, `DeleteBill`, `Refused` |

After a `Timeout` the worker is no longer awaited and goes on: its commit still
happens, its answer reaches nobody. A confidence is a percentage; `Unstated` is a
reading without one, and 0 counts as 85 because `0 or "0.85"` does.

### HrMonth

One month: `att` (the one day per employee the model looks at), `payroll`, `claims`,
`registers` and `locked`. A row of the payroll remembers the run it is of and what
it was computed from. `desks` holds the transactions under way; their writes show at
the commit, and what one has written and not committed the others wait for
(`DayHeld`, `Deleted`, `KeyFree`, the version key in `Log`, `PeriodFree`).

| Code | Actions |
| --- | --- |
| `save_grid` | `Open`, `AssertOpen`, `EditDay`, `CommitGrid` |
| `PayrollService.run`, `generate_payroll` | `Open`, `AssertOpen`, `DeleteMonth`, `Deleted`, `AddRow`, `CommitPayroll` |
| `RegisterService.generate` | `Open`, `ListPayroll`, `Archive`, `Log`, `Seal` |
| `PeriodService.lock`, `unlock` | `Lock`, `Unlock` |
| `check_in` | `Recognise`, `Punch` |
| `offboard` | `Offboard` |
| `ExpenseService.submit`, `decide` | `Submit`, `OpenClaim`, `Decide` |
| a rollback, a check-in without punch | `RollBack` |

`late` marks a request that had passed its check when the month was locked,
unlocked or recalculated under it; `overruled` and `reopened` are history.

## 3. Runs

Every property of a passing run has a mutant: a definition changed the way a
plausible bug would change the code, under which TLC finds the property violated.

| Run | Instance | Checks |
| --- | --- | --- |
| `engine_late_workers` | 2 tickers, 2 steps, 2 attempts, cancel; slow steps, eager ticks | `TypeOK`, `OutputsKept`, `InputsReady`, `NeverUndoneTwice` |
| `engine_control` | 2 tickers, 2 steps, 1 attempt, cancel and 1 retry, step 0 retired, crashes at `saveStep` and in `start`, eager ticks | `OneExecutor`, `RetryBudget`, `UndoneOnce` |
| `engine_saga` | 1 ticker and 1 drain loop, 2 steps, 2 attempts, step 1 retired, pause / resume, crashes anywhere in a step or an undo and before publishing | `AnnouncedOnce`, `ClaimsImplementSaga`, `Terminates` |
| `automation_schedule` | 1 rule (ONCE or recurring), 2 sweeps, 1 caller, 1 tick loop, 1 editor, 1 event | `TypeOK`, `OneActiveTick`, `OnceRunsOnce`, `EveryOutcomeRecorded`, `DueRuleServed` |
| `register_numbers` | 3 requests, 2 months, number 2 may be imported, 4 starts, failures at `create`, `store`, `reconcile` | `TypeOK`, `CounterIsHighest`, `NoGap`, `NumberKept`, `LinesMatchHeader`, `DocumentsKept`, `DecisionsKept` |
| `invoice_import` | 2 scans in 3 files, 1 worker, 1 operator with 2 requests, 2 attempts, 1 kill (OCR, or between the saves of a commit), 2 numbers | `TypeOK`, `CommittedIsRegistered`, `RegisterMatchesItems`, `BatchMatchesItems`, `NoScanForgotten`, `LeftOnlyByOldCopies` |
| `bill_intake` | 2 documents, 2 messages, 2 workers, 2 posts each, 1 operator request besides those that undo a payment, 1 closed month, company set up late, failures before the answer | `TypeOK`, `StatusJustified`, `AnswersAreTrue`, `LostOnlyToOldCopies` |
| `hr_month` | 2 employees, 2 operators with 4 requests, 1 check-in | `TypeOK`, `FiguresOfOneRun`, `SubmittedIsOnFile`, `PaidClaimsApproved`, `FrozenOnceLocked`, `PunchKeepsTheOther` |
| `engine_crash_between_saves` | 2 tickers, crash at `saveRun` | violates `Terminates` |
| `engine_lost_cancel` | 1 ticker, 2 steps, cancel | violates `CancelUnwinds` |
| `register_second_correction` | 1 operator, 1 month, 3 requests in a row | violates `KeyIsFree` |
| `hr_submitted_frozen` | 1 operator, 1 check-in | violates `SubmittedFiguresFrozen` |

What the passing runs show. In `engine_late_workers` a worker may be reclaimed,
forgotten and return at any later time with the oldest copy of the run: the
lowering of the index and the replacement of the context that its save causes
never lose an output that a later step relies on, because both come from the same
copy. `engine_control` shows that the conditional claim is enough for mutual
exclusion across cancel, retry and crashes, as long as locks are respected, and
that a retry neither repeats compensated work nor exceeds one extra attempt.
`engine_saga` shows the life cycle of the README of `platform/workflow` for
histories without cancel, also when workers are killed while they execute or undo
a step or before they publish: with a cancel, it may be overwritten by a worker's
save (`engine_lost_cancel`) or leave a late success behind (the hazard at
`engine.py:181`). `automation_schedule` shows that the idempotency key makes overlapping
sweeps harmless and that the schedule moves on after every outcome. `register_numbers`
shows that lock, unique key and rollback together give the sequence its two
promises, also when an import takes the very number a generated bill has been
handed and the two wait for each other, and that overlapping corrections cannot
mix the lines of one with the totals of the other or leave a bill without its
documents, and that what was decided about a bill is lost to nothing but an older
copy. `invoice_import` shows that register and items part only where somebody
saved an old copy or was killed between the two saves of a commit, and that the
batch status catches up whenever everybody is done. `bill_intake` shows that a
worker left behind by a timeout, and the post repeated meanwhile, neither make two
rows nor take away a reading, a payment or a deletion except through a copy read
before. `hr_month` shows that overlapping payroll runs never leave a month with
rows of both, that versions have no gap, and exactly which writers still move a
locked month.

Bounds. Two steps are the shortest pipeline with a predecessor and a successor,
but only one success is ever unwound in it without a cancel; `engine_saga` with
`NumSteps = 3` (1.3 million states, no error) takes over five minutes and is not
part of the runs, since `ClaimsRefineSaga` proves the order for every number. A kill
in `engine_saga` happens at the points behind a claim or a won finish
(`ClaimedPoints`): one before them loses nothing, and one between two saves is
`engine_crash_between_saves`. Two workers are enough for every pairwise race; the proofs below do not
depend on the number. Two attempts give one retry with backoff. `MaxRetries` is
1 because a second retry starts from the states the first one does, except for
`attempt`, which the proof covers. In `AutomationRule`, `Horizon = 2` gives a
recurring rule a second tick of its schedule, `Period = 1` makes sweeps overlap it,
and `MaxEvents = 1` allows one disturbing event (a run-now, an edit or deletion, an operator
retry or a kill); runs with two such events were explored without a violation
as far as they went but do not finish in reasonable time.
In `InvoiceRegister` four starts let three requests overlap on a bill that a
fourth has raised; the single importable number 2 is above, equal to or below the
next number of the sequence, and leaves a gap only when imported first;
`MaxSuffix = 2` gives a document one alternative key (the code: 100), so that
running out of suffixes happens too. Two months give an open and a locked one.
In `InvoiceImport` two scans are two items of one batch, one of them attached
twice; both may be read as number 1, so two commits want one number, and a
reading without number needs an operator. Two requests are an edit or discard
beside a commit, one of which acts on an old copy.
In `BillIntake` two messages are one document sent twice or two documents (which
OCR may read as the same invoice, a duplicate); two posts are one retry; two
workers are a late one and its successor. In `HrMonth` four requests are two
payroll runs around a register and a lock or unlock; two employees are enough
for a month of two runs; one swipe time suffices to tell a swipe from none.
Symmetry over the workers (requests) is used only in runs without liveness or refinement.
Deadlock checking is off where the system really may stop: a finished run, a
schedule past its horizon, and, in the three newest runs, requests and messages
used up. For the register it is on: `Rest` is the
only state allowed to stop, so every cycle of waiting requests is one of two that
the database breaks (`DeadlockVictim`).

Fairness. `FairSpec` of `PipelineEngine` assumes weak fairness of the starting
process, of each worker's next statement (`pipeline_tick --loop` never returns,
and cron restarts it otherwise), of backoffs and of lock timeouts. Operators and
crashes are under no obligation; `Terminates` speaks of runs that are not paused
for ever. A crashed worker is idle again, which is the restarted process.
`FairSpec` of `AutomationRule` assumes weak fairness of each sweep as a whole
(cron starts the next one) and of each drain; users owe nothing.

Conditions built into properties, each for a reason found by TLC:

- `OneActiveTick` counts retries and run-nows: a retried old run or a manual run
  finishing late legitimately overlaps the next tick.
- `EveryOutcomeRecorded` and `DueRuleServed` exclude histories with a kill, and
  `DueRuleServed` those in which an edit overwrote a newer row: in both the rule
  can stay due for ever, because its idempotency key names a finished run.
- `DocumentsKept` leaves out failures after `Unlink`: bytes are removed before the
  commit, so a rollback after that loses them (a hazard as well).
- `LeftOnlyByOldCopies`, `LostOnlyToOldCopies` and `DecisionsKept` name the one way
  in which something is lost, an old copy written back, and deny every other one:
  a stale correction does bring a cancelled bill back, and a stale guard does delete
  a sent one; both are listed as hazards.
- `NoScanForgotten` allows an unread item whose run failed with its last attempt, and
  one whose upload was killed before the run was started: nothing reads those again.
- `RegisterMatchesItems` leaves out `stale` scans, `PaidClaimsApproved` claims
  decided twice (`overruled`).
- `BatchMatchesItems` leaves out histories in which an item was saved from an old
  copy or while somebody was about to save the batch, the batch changed while the
  upload still held its first copy, or a refresh was cut short by a kill. The proof
  shows that these are all the ways in which the batch can be wrong: refreshes that
  merely overlap are harmless.
- `SubmittedIsOnFile` leaves out registers whose payroll was replaced while the
  workbook was built, `FrozenOnceLocked` requests that had passed `assert_open`
  before the lock, check-ins and offboardings: each of them does move the figures.

## 4. Disagreements between code and documentation

1. **A kill between two saves strands the run** (`engine_crash_between_saves`,
   `engine.py:134-142`). The step is SUCCESS, the index still points at it, no
   claim matches and reclaim looks at RUNNING steps only; the module says a
   crashed process loses no state.
2. **A cancel is overwritten** (`engine_lost_cancel`, `engine.py:106-109`). A tick
   that read the queued run before the cancel claims the step and saves RUNNING over
   COMPENSATING; the run goes on forward. The module calls a cancel a status flip
   the next tick honors, its README says that a cancelled run unwinds and lands on
   `cancelled`.
3. **A second correction of a bill fails** (`register_second_correction`,
   `storage/services.py:46-53`). The search for a free key does not see
   soft-deleted files, the unique constraint does, so the key of the first
   documents is chosen again and refused by the database; the docstring says a key
   must stay unique against that constraint.
4. **The figures behind a submitted register change** (`hr_submitted_frozen`,
   `employee.py:161-174`, `checkin.py:290-302`). Only the grid and the payroll run
   ask for the lock; offboarding, the backfill of a joiner and check-ins write
   attendance without it. The register service says it locks the period so that
   the figures cannot silently change afterwards.

## 5. Proofs

All theorems hold for every value of the constants that satisfies the named
`ASSUME`s of the modules (any number of steps, workers, operators, rules, sweeps,
requests); tlapm checks them to the last leaf. A theorem that needs more says so in
its own `ASSUME`, and what it needs is what the run of its property fixes too:

- `~SlowSteps`: no live worker outlasts its lock. Without that, a reclaimed step has two
  executors, which is the hazard at `engine.py:244`.
- `Undisturbed`: operators pause and resume, `~SlowSteps`, and no tick sees a run
  before `start` has made its rows. A cancel during a step ends a run twice and
  leaves a success standing, a retry runs it again, and an early tick ends it with
  no step: none of these is a saga (hazards at `engine.py:181` and `services.py:69`).
- `MaxAttempts > 0`: the registry's default is 1 and no step of the code asks for less;
  with 0 the first failure would come after one attempt.
- finite `Workers` or `Operators`, where callers are counted: there are finitely many
  processes.
- `FailPoints` without the points after the first removal of a document, as in
  section 3, and `Unread \notin Readings`: what OCR returns is never the placeholder
  of an unread bill, an unnamed vendor being "Unknown Vendor" (`telegram-bot/main.py:447`).

| Theorem | States | Argument |
| --- | --- | --- |
| `PipelineEngine_proofs!TypeCorrect` | `Spec => []TypeOK` | `TypeInv`: `TypeOK` and `MemoryOK`, that a worker past the lookup holds the index of a step and one about to save an outcome holds an outcome of the right kind. Without it, `SetStep(workers[w].step, ...)` could not be shown well typed. |
| `OutputsAreKept` | `Spec => []OutputsKept` | `KeptInv`: the run row *and every copy of it* are complete up to their own index, and a worker executing a step carries a copy complete up to that step. Whatever is written back is then complete too; no lock or crash assumption is needed. |
| `InputsAreReady` | `Spec => []InputsReady` | from the same invariant. |
| `OneExecutorPerStep` | `~SlowSteps => (Spec => []OneExecutor)` | `ExclInv`: the executor of a step owns its row (RUNNING, not expired), and the compensator likewise; `OwnersKeepRows` says that no other action changes an owned row, because each needs a status or an expiry the owner excludes. |
| `CompensatedOnce` | `~SlowSteps => (Spec => []UndoneOnce)` | `UndoneInv` on top of `ExclInv`: a step whose compensation was called is in one of three statuses nothing leads out of. |
| `PipelineSaga_proofs!OneAnnouncement` | `Undisturbed => (Spec => []AnnouncedOnce)` | `SagaInv`: the rows are in order around the index (`RowsInOrder`), so is the run (`RunInOrder`) and what each worker has in hand (`WorkersInOrder`); whoever is about to publish has ended the run, alone (`Announcing`). |
| `ClaimsRefineSaga` | `Undisturbed => (Spec => ClaimsImplementSaga)` | by the same invariant each statement moves the abstract run by one step (the save of a success, the failure, a claimed undo, the end) or not at all; every other action leaves what the mapping reads. |
| `PipelineCounts_proofs!CompensationsPaidFor` | `IsFiniteSet(Workers) => (Spec => []NeverUndoneTwice)` | `Balance`: the undos made, the callers at one, the workers still to save a success and a success on file together never exceed the runs; each action moves one unit or removes it. Cancels, slow steps and crashes are all allowed. |
| `AttemptsAreBudgeted` | `~SlowSteps, MaxAttempts > 0, IsFiniteSet(Operators) => (Spec => []RetryBudget)` | `BudgetInv`: the runs and the attempts of every row stay within `MaxAttempts` plus the retries already re-armed, which the operators still re-arming are subtracted from; whoever holds an attempt has not used it (`Within`). |
| `AutomationRule_proofs!TypeCorrect` | `Spec => []TypeOK` | part of `OnceInv`. |
| `OnceRunsOnceAlways` | `Spec => []OnceRunsOnce` | `OnceInv`: wherever the `next_run_at` of a ONCE rule is held (the row, a sweep's list, an edit in progress, the key of a run) it is the first one or null, so all its scheduled runs have one key. |
| `OneTickActive` | `Spec => []OneActiveTick` | `TicksInv`: the active runs of a rule, the ends still being handled and the dates held for which no run exists yet are finite and together at most 1 + retries + run-nows; `get_or_create` turns a date into a run, an end into a date. |
| `InvoiceRegister_proofs!TypeCorrect` | `Spec => []TypeOK` | part of `RegisterInv`; that a key exists whenever a suffix is free needs the least element of a set of numbers (`HasLeast`, from well-foundedness). |
| `CounterHighest` | `Spec => []CounterIsHighest` | `RegisterInv`: one request holds the counter (`CounterInv`) and knows what it will leave there; one request has inserted a given number (`UniqueInv`), which is on no committed row. |
| `NoGaps` | `Spec => []NoGap` | the commit of a generated bill adds counter + 1, and the counter is on the register. |
| `ReservedFree` | `Spec => []ReservedStaysFree` | the holder's number is counter + 1, above every number on the register. |
| `NumbersKept` | `Spec => NumberKept` | a commit that raises a bill adds a new number; every other write keeps `raised`, because a copy, however old, is of the same bill (`CopyOf`). |
| `LinesAgree` | `Spec => []LinesMatchHeader` | `LinesInv`: a row has one writer (`OneWriter`) and the lines that writer removed are those still on file (`LinesSeen`), so the commit replaces all of them. |
| `DocumentsStay` | `FailPoints` before the discard `=> (Spec => []DocumentsKept)` | `FilesInv`: a file is keyed by its bill's number, and a document being attached has bytes and a key no other row has; a deadlock victim leaves the other discarder to finish (`VictimLeavesOne`). |
| `DecisionsStand` | `Spec => DecisionsKept` | `AllGuarded`, what the guard of each request saw of the copy it writes from, however old; `DecisionsWritten`, that only a correction writes fields it does not set. |
| `InvoiceImport_proofs!Typed` | `Spec => []TypeOK` | `TInv`: with it `RunsBudgeted`, that a due run has an attempt left and a scan without item no run under way. |
| `ScansRemembered` | `Spec => []NoScanForgotten` | `HInv`: what each actor has in hand (`InHand`: a worker reads under a lease of its scan, and has not refreshed before it has saved) and that a lease has one reader (`OneReads`); so a run ends normally only after its item left QUEUED and PROCESSING. `RunsSpent`: a run fails with its last attempt, and an item without a run is what a killed upload left (`KilledStays`); only the upload adds items, because every copy is of one that is there (`CopiesReal`). |
| `CommittedRegistered` | `Spec => []CommittedIsRegistered` | a commit about to save holds the number it registered (`InHand`), and no number on the register changes hands. |
| `RegisterAndItemsAgree` | `Spec => []RegisterMatchesItems` | the copy an operator links, or a fresh copy a worker holds, is the item itself while the scan is not `stale`. |
| `TerminalLeft` | `Spec => LeftOnlyByOldCopies` | every save that changes a status asks its copy first. |
| `BatchAndItemsAgree` | `Spec => []BatchMatchesItems` | `BatchInv`: the batch is never ahead of its items (`Rank`) and equals what they imply (`Due`), or somebody is on the way to a refresh; what a refresh holds is not ahead of the batch either. |
| `BillIntake_proofs!Typed` | `Spec => []TypeOK` | part of `IInv`. |
| `Reviewed` | `Spec => []StatusJustified` | `IInv`: the rows *and every copy in memory* are justified, so writing one back keeps it so. |
| `Truthful` | `Spec => []AnswersAreTrue` | `Talk`: the bot waits for at most one worker, whose request is the bot's own, and rows never vanish. |
| `SavedIsSaved` | `CompanySetUp => (Spec => []AlreadySavedIsSaved)` | from `Talk`: with a company, a 409 comes from the unique key, hence from a row. |
| `OnlyOldCopiesLose` | `Unread \notin Readings => (Spec => LostOnlyToOldCopies)` | `CopiesInv`: a commit owes all it does not itself say to the copy it started from, and one without copy inserts. |
| `HrMonth_proofs!TypeCorrect` | `Spec => []TypeOK` | `TInv`: a payroll request knows its run (`RunKnown`). |
| `OneRunThroughout` | `Spec => []FiguresOfOneRun` | `HInv`: a run that inserts holds what it has deleted and has inserted only rows of its own; the rows of the month it sees are those of one run, so its commit replaces all or meets the unique key. |
| `SubmittedStands` | `Spec => []SubmittedIsOnFile` | a register not overtaken holds the payroll that is on file until its seal. |
| `LockedStandsStill` | `Spec => FrozenOnceLocked` | `LockSeen`: while the month is locked, whoever is past the check is marked late. |
| `OnlyApprovedPaid` | `Spec => []PaidClaimsApproved` | `PInv`: rows under way, not only those on file, reimburse approved claims; a claim decided on a current copy was pending. |
| `SwipesKept` | `Spec => PunchKeepsTheOther` | by cases on the direction of the punch. |

`OutputsKept` and the others are not inductive alone: they say nothing of the
copies in memory, which the next statement writes back.

Only model-checked: liveness (`Terminates`, `EveryOutcomeRecorded`,
`DueRuleServed`), which the prover does not support under fairness. Every invariant,
action property and refinement of a passing run is also a theorem;
`ReservedStaysFree` and `AlreadySavedIsSaved` are only proved.

## 6. Not modelled

Document layout, decimal arithmetic, spreadsheets, OCR, face inference and user
interfaces are data and I/O without a protocol. The calendar arithmetic of
`_advance` is a fixed period. Editing `next_run_at`, `cadence` or `destination`
of a rule is left out, since an operator may then ask for any schedule.
Of the register, `set_due_date`, the audit and search records, the manifest of
a period and `set_status` are left out.
Of the import, more than one batch at a time and workers that outlive their lease
(`PipelineEngine` has those); of the intake, the upload and e-mail channels, the
storage of the document itself, tags, the vendor directory, search and a restart
of the bot; of the HR month, more than one day and one claim per employee, changes
of the roll, wages and hours, the cooldown and its `PunchLog`, and the direction
a time of day means (both are possible).
Leave decisions and the batch limit of `tick_all` over several runs have protocols
of their own and no module: each is a single check on a copy, or a single ORDER BY,
and they are listed as hazards instead.
Most of the implementation is outside any protocol: serializers, views that read,
settings, migrations, the spreadsheet generator (nearly a thousand lines), wage
and tax formulas, face recognition, OCR prompts. A module could only restate those
line by line, so the share of the lines the map covers stays small.
Subscriber exceptions, swallowed by `publish`, act like a kill after `Finish`.
Empty directories (`services/worker`, `modules/dms`, ...) have no code.

## 7. Plan

In order of what could go wrong most expensively:

1. `PipelineTick` — several runs, the batch limit of `tick_all`, `queued_at` order:
   how many runs that never finish keep younger ones from being ticked.
2. `LeaveBalance` — decide and withdraw over requests and balances.
3. `HrMonth` with `PunchLog`: two check-ins of one employee and the cooldown, with
   the re-read of a punch and its save as two steps (today one, since the property about
   it leaves out days changed since the look).
4. An abstract append-only register that `InvoiceRegister` implements, and which
   `InvoiceImport` then instantiates instead of its own map.
5. Proofs: what remains of `Saga` once an operator may cancel (the run may end early,
   and a step saved after that stands), and the type correctness of the modules above.
