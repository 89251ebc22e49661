# Lynki: a TLA+ verification development

Lynki (Dorevia) makes the documents of small businesses provable: an Odoo ERP pushes what it posts (invoices, payments,
point-of-sale tickets, bank movements) to a gateway, **DVIG**, which forwards it to a **Vault**, which hashes, signs and
chains it in a ledger. Every month the Vault certifies what it holds in a *constat*, and **Odoo CORE** invoices the tenant
from it. The Vault also tells other services what happened (webhooks), rebuilds an ERP from the economic events it kept
(replay), and **DIVA** has a language model comment its figures. This directory models the paths that documents,
constats, events and analyses take, checks them with TLC and proves the properties that matter most with TLAPS.

Read the modules in this order: `OutboxPromise`, `DvigOutbox`; `OdooVault`; `VaultIngest`; `ConstatPromise`, `Constat`;
`ConstatCalendar`; `ConstatPricing`; `ReplayPromise`, `ReplayRunner`; `WebhookQueue`; `DivaAnalysis`. `<module>Proofs` holds the
theorems about a module, `BillingProofs` those about the calendar and the pricing, and `MC<module>` only what TLC needs (symmetry sets, inputs written out). `PROJECT.json` maps each definition to the lines
it models.

## 1. Inventory

### How the parts interact

```
Odoo tenant --POST /ingest--> DVIG --POST (worker)--> Vault --POST constat--> Odoo CORE --> invoice
     ^                         outbox_events           documents, ledger       dorevia_constat
     +--------- GET /proof/account_move/:id -----------+

subscribers <--POST webhook-- Vault --POST event (replay)--> Odoo      dashboards --POST explain--> DIVA --> model
             Redis list                replay_jobs                                 diva_analysis
```

All edges are HTTP: a call may fail before or after it took effect at the other end, and callers retry. Each store
(Odoo's, DVIG's, the Vault's and DIVA's PostgreSQL, the webhooks' Redis) commits by itself; nothing spans two. A Vault serves one tenant.

### Components modelled

| Component (source) | State | Operations | What is hard | What makes it correct |
|---|---|---|---|---|
| DVIG outbox and worker (`sources/dvig`: `routes/ingest.py`, `routes/internal.py`, `workers/outbox_worker.py`, `api_fastapi/scheduler.py`) | rows of `outbox_events`: status, payload, receipt, next retry | ingest, retry by hand, select a batch, forward, record the outcome | ingest looks up and inserts in two calls; a batch is stale when used; the answer of the Vault or the write of an outcome is lost; the process stops during a forward | nothing acknowledged is lost; what the Vault holds is what was accepted; `forwarded` and receipts are true |
| Odoo vault connector, invoices (`dorevia_vault_connector/models/account_move.py`) | `dorevia_vault_status`, attempts, proof; queue jobs | `action_post`, four crons, two jobs, a button | long transactions at REPEATABLE READ around HTTP calls that act at once; a document kept without evidence; drafts; abandon thresholds | the status says what DVIG and the Vault hold; a posted invoice is vaulted unless they leave it unproven |
| Vault ingestion of payments and tickets (`services/payments_service.go`, `services/pos_tickets_service.go`) | `documents` | lookup by key, lookup by hash, insert | lookups and insert are separate calls, and only one pair of columns is UNIQUE | a retried submission finds its document; a key names one |
| Monthly constat (`services/constat.go`, `handlers/constats.go`, CORE's `constat_controller.py`) | `constats`, ledger, `dorevia_constat`, what each process holds in memory | generate, transmit, retransmit, receive, invoice | two generations race; a status read before minutes of retries is overwritten after them; lost answers, 409, 500 after a commit | CORE bills the constat the Vault keeps; statuses are true |
| Its calendar (`jobs/constat_monthly.go`) | ticker, first run, `created_at` of documents | start, stop, tick, aggregate, the endpoint | a ticker whose phase is the hour of the start; ends of months | each document in one month's constat; each month has one |
| Billing core, pricing (`dorevia_constat.py`, `dorevia_pricing_rule.py`) | pricing rules, the loop over them, invoice lines | save a rule, price, invoice | overlapping, missing or unordered tiers; two roundings | each document charged once, at the price of its tier; the invoice is the amount computed (it is close to it) |
| Replay of economic events (`internal/replay/runner.go`, `adapter.go`, `handlers/replay_jobs.go`, `replay_ingest.go`; Odoo's `replay_controller.py`, partly) | `economic_events`, `replay_jobs` with status and progress, their logs, `dorevia.replay.mapping` | ingest, create a job, poll, list a batch, post with retries, checkpoint, end | two runners read the same queued jobs; Odoo goes on with a request that timed out; writes whose errors are ignored; a stop between two batches | an event is applied once; the progress and `completed` pass over nothing that is neither in Odoo nor was seen to fail |
| Webhooks (`internal/webhooks`) | a Redis list; what each worker holds | emit, `BRPOP`, post, wait, push again, stop, restart | an event is off the list while it is sent and while its worker sleeps | in one place until its end, at most MaxRetries posts, and an end for each |
| DIVA, analyses of a context (`diva/internal/guard`, `store`, `handlers/explain*.go`) | a guard per process, a row per context, the workers | explain, ask, claim, mark, poll, purge, restart | the guard's entry has no owner and may be purged under its call; the worker is a goroutine that a restart takes away | one call of the model at a time for a context, but for that purge; who was told to poll is told an end; no context is shut for good |

### Components not modelled yet, or at all

| Component | State and operations | Hard behaviours and intended properties |
|---|---|---|
| Z reports (`services/zreports`) | a hash chain per month | concurrent closings read one last hash. One successor per report |
| Invoices of the Vault, bank reconciliation, key rotation | documents, event chains, key sets | as ingestion and the Z reports; an overlap of keys |
| Odoo payments and tickets, posted lock; DVIG tokens and synchronous API | ERP rows, tokens | crons over a second table with a batch limit; guards on posted rows; expiry |
| Backfill of the economic events (`internal/replay/backfill.go`) | a lock of the tenant | a loop under a lock that the absent storage package implements |
| DLP; DIVA's insights, facts and `/diva/generate` | none across requests, or caches of answers | none planned: computations over what they are sent |
| Linky (Next.js), aggregations, reports, Sylius, SuiteCRM, gateway, shell tooling, OCA addons | none of their own, or third-party | not planned: presentation, read-only SQL, configuration, vendored code |

The packages `internal/storage`, `internal/ledger` and `internal/audit` of the Vault and `storage/` of DVIG are imported
by the code and absent from the repository. What they do is modelled from how they are called and marked external.
`cmd/vault/main.go` does not start the constat scheduler or mount its endpoints; the Vault's integration tests do. The
three constat modules describe that code as it runs there. Nor does it construct the webhook manager, which the handlers
use when they are given one (`handlers/verify.go:133`, `handlers/invoices.go:491`).

## 2. Plan

1. **Done**: the outbox and its abstract promise; the Odoo side over that promise; ingestion in the Vault; the constat,
   its calendar and its pricing; the replay with Odoo's adapter; the webhooks; DIVA's analyses. All of them with proofs of
   every safety property that a run checks, and with an abstract promise for the outbox, the constat and the replay.
2. **Next**: `ZReportChain`; Odoo payments and a batch limit beside `OdooVault`; the invoices path in `VaultIngest`;
   the posted lock; DVIG tokens; the replay's FIFO allocation of payments.
3. **Abstract specifications worth stating**: an idempotent store that `VaultIngest` implements and `DvigOutbox` relies on,
   in the place of its external Vault; a linear chain for the Z reports; "eventually one constat per month" over
   `ConstatCalendar` and `Constat` composed.
4. **Proofs to come**: those of the planned modules and promises; that several transmissions of one constat leave `transmitted`
   behind only for a stale one (`ForwardedUnlessStale` says so for the outbox).
5. **Runs**: each module has one passing run, a second one where liveness needs its own bounds, and the violation
   runs are few, so that the whole is checked in minutes. Where a theorem says for all constants what a run said for
   some, the run leaves it to the theorem unless it guards the model against a slip cheaply.

Modules meant for proofs take their bounds as CONSTANTS with a named ASSUME, have one action per operation and no
RECURSIVE operator.

## 3. The modules

**`OutboxPromise`** is what DVIG owes the ERP: an acknowledged event has one content for ever, what reaches the Vault is
that content, once, and receipts are true. `DvigOutbox` implements it; `OdooVault` is built on its actions.

**`DvigOutbox`**. `IngestLookup`/`IngestInsert` are the two database calls of `ingest`. A worker's `Select`, `Begin`,
`Post*` and `Record*` are the steps of `process_outbox_events` and `process_event` between which others may act; the row's
status is written over whatever it has become. `Crash` also stands for the cancellation of the scheduler's task at
shutdown: `CancelledError` is no `Exception`, so no handler writes the outcome. `Faults` chooses between lost calls,
refusals, crashes, failed writes, and `"after"`: what follows the write of `forwarded` inside the same `try` raises
(`outbox_worker.py:653-675`), and the worker writes `failed_soft` over it. The attempt counter only feeds the delay of a retry and is abstracted to
`BackoffElapses`. `VaultStore` is the Vault's lookup by key and insert
(`payments_service.go`), over its absent storage package.

**`OdooVault`**. Each cron run, job and click is a transaction: it reads a snapshot (`Begin`), its HTTP calls act at once
(`SendOk`, `FetchFound`, ...), its writes appear at `Commit` or are lost together when another has committed to one of the
same invoices since. The proof endpoint answers 404, `pending` for a document kept without evidence
(`internal/handlers/proof.go:108-112`), or `verified`; only the last one makes an invoice `vaulted`. `sealed` are the documents with
evidence, and the fault `"unsealed"` is a Vault that does not require it (`JWS_REQUIRED=false`,
`tenants/sarl-la-platine/platform/docker-compose.yml:32`). `PostMove` may fail half-way (`"init"`), with a key or without;
`ResetDraft` takes an invoice back to draft where `dorevia_posted_lock` allows it, and its key stays. Only the cron that sends
asks that an invoice be posted: jobs and the button send drafts too, as in the code. `WithinPromise` says that nothing
but the promise is asked for or relied on. Odoo's transactions are external code; the crons never run beside themselves, which Odoo's cron
runner ensures. The age threshold of `_check_abandon_thresholds` is compared with `last_try_at` just after it is set, so it never
applies, and the model has no clock for it.

**`VaultIngest`**. A request is a lookup by key (payments), a lookup by hash, and an insert that the UNIQUE index on
(tenant, idempotency_key) may refuse. `repeats` is a history variable: whether a
request's content was already held when it came. Document, evidence and ledger entry are one transaction of the repository.

**`ConstatPromise`** is what the Vault and CORE owe whoever is billed: a pair has one constat for ever, which is no other
pair's; CORE bills that one, once; `told` is only said of what CORE has, but may be taken back. `Constat` implements it.

**`Constat`**. A runner is the monthly job or a request; `Generate`, `Build` (the ledger entry's commit), `Insert` (the
row, or the one that won), `Start`, `Post*` and `Record*` follow `GenerateConstat` and `TransmitConstat`. CORE's
answers are those of `receive_constat`: its request's transaction commits even when a step after the creation raised, so
a 500 may hide a row. A constat's contents are its id: generated ids are assumed unused.

**`ConstatCalendar`**. One hour is one step of time; what happens in an hour happens inside it. A document is created in a
month, and possibly in its last, fractional second, which is where `created_at <= end` ends. The
history variables `failed` and `early` remember the periods a run failed for and those the endpoint generated before they were over.

**`ConstatPricing`**. The loop of `_apply_tier_pricing_detailed` is one step per rule, over amounts in hundredths of a
cent. `charged` is a history variable: which rule charged which document of the volume. `InvoiceIsAmount` is what the comments of the
invoice promise, and is false; `InvoiceWithinRounding` is what holds.

**`ReplayPromise`** leaves out numbers, batches, runners and retries: a document is posted once, for an event of the Vault
that a job was asked to apply; what a job shows as passed, and what it was due when it is completed, is in Odoo or has
failed. A failure is reported in the job's log, or the write of its entry is lost. A completed job may be reopened, and its progress may go back, because a second runner may be behind. `ReplayRunner`
implements it.

**`ReplayRunner`**. Runners poll a *copy* of the queued jobs, and `StartJob` writes `running` over whatever status the job
has by then, from the progress of the copy. `Write` is a write of `replay_jobs` whose error the code ignores, hence the choice
in it. `Fail` writes an entry of the job's log, whose error is ignored too (`runner.go:446`): `log` is what the report shows, and the
history variable `failed` what runners saw fail. `List`, `NextEvent`, `Post`, `Retry`, `Checkpoint` and `EndJob` follow `runJob`, `applyEvent` and `doWithRetry`. A request
in Odoo is a lookup in the mapping and a transaction that creates, posts and maps; `UNIQUE (event_id)` undoes the second of two.
Requests that nobody waits for any more are alike, so that the model keeps one of them per event and phase. `until` is a
history variable: the events there were when the job was asked for.

**`WebhookQueue`**. `Dequeue` takes an event off the list into a worker's hand; `PostFails` leaves it there asleep until `Requeue`.
`posts` and `fate` are history variables: how often an event was posted, and how it ended (`delivered`, `given_up`, `dropped`
by `RequestFails`: its request could not be built (`worker.go:109-121`), without a post, a retry or a count; or `lost`: by a stop, or by a push or pop that failed, whose errors are logged). Signatures and headers are left out.

**`DivaAnalysis`**. One context; contexts share nothing. Time passes in ticks, because guard, row and model each have a
timeout: the age of a guard's entry, `left` until the row expires, the age of a call. A tick waits for everything but the model.
`Release` and `Purge` look at no owner, as in the code; the
history variable `opened` remembers the processes whose purge took the entry of a call that was going on. `Room` bounds the requests
that go on to a call by the number of calls the model has. Between the guard and the claim, and between a stale poll and its
`MarkStaleFailed`, others act.

## 4. The runs

One passing run per module, a second one where liveness needs its own bounds, and one run for each of the two disagreements
with a comment that matter most.

| Run | What it asks | Bounds |
|---|---|---|
| `outbox_safety` | `forwarded` is true and only taken back by a stale worker; `DvigOutbox` implements `OutboxPromise` (contents never change, acknowledged is recorded, receipts are true) | 2 keys, one a bank movement with confirmations (a projection, whose answer names no document), 3 contents of which one is malformed, 2 requests, 2 workers, batches of 1, every fault |
| `outbox_live` | acknowledged documents end receipted; no row is forgotten in `forwarding` | 2 workers, 1 client, lost calls and failures after the write, batch limit = number of keys |
| `odoo_vault` | `pending_proof` and `vaulted` are true of DVIG and the Vault; `vaulted` is final; the crons alone vault every posted invoice that is not left unproven | 1 invoice, set to draft and posted again at will, 2 transactions, abandon at 2 attempts, lost calls, refusals, crashes, documents without evidence, postings that fail |
| `vault_safety` | answers name kept documents; a repeat finds the first | 2 requests, 2 keys, 2 contents, 3 documents |
| `constat_safety` | CORE bills the Vault's constat; `transmitted` is true; `Constat` implements `ConstatPromise`; transmissions end | 1 pair, 3 ids, 2 runners, 3 tries, every fault |
| `calendar_safety` | counted once; what the job counts is complete; midnight processes miss no month | 3 months, 2 documents, failing runs, restarts, endpoint |
| `calendar_missed` | *violation*: a month without a run | no failing runs, no endpoint |
| `pricing_safety` | charged in tier, the sum is that of the tiers, consecutive tiers charge all, a fixed amount due once | up to 3 of the rules of `MCForms`, volumes 1, 3, 6 |
| `pricing_exact` | *violation*: an invoice that is not the amount computed | the same |
| `replay_runner` | applied once; `completed` passes over nothing that is neither in Odoo nor was seen to fail; invoices of what was read go first; a job ends or is cut off | 1 invoice, 1 payment, 1 job, 2 runners, batches of 2, 1 retry, 1 late request, every fault, 1 mishap |
| `webhook_queue` | in one place, posted at most MaxRetries times; every event ends | 4 events, one to a dead receiver and one that cannot be posted, 2 workers, 3 posts, 2 mishaps |
| `diva_analysis` | a second call in a process and context only after a purge took the entry of the first; polls end; nobody is shut out | 2 processes, 2 clients, 2 calls, the default times in minutes (entry 1, call 3, job 3, row 5), 1 mishap |

**Why the bounds are enough.** Each hazard needs two actors on one row, plus a bystander row where a query selects among
rows: hence two workers, two requests, two runners, two keys. Constats of different pairs share nothing but the ids, which
are fresh, so one pair with three ids (two that race, one built after a stop) shows the races; the theorems cover any number of
pairs. A month has 2 or 3 days of 3 hours: of the 24 hours only the first, the last and "another one" are told apart by the
code, and the short second month is the one `AddDate` overflows. Three rules are the least with a gap and an overlap at
once. The liveness runs take one key or two, and a `BatchLimit` that covers them: with a smaller limit the `ORDER BY` of
the external query decides who is served. In the replay two runners on one job, each with a request in Odoo and one more whose client gave up (`MaxLate`), show
the races on one event; an invoice and a payment show the order; a batch of two is full, so that a further, empty
one is read. One mishap (a lost write, a failed read or a stop) is what TLC can bear there; that a job *taken up again* from its progress
passes over nothing takes two, and is covered by the proof, which has no bound. Four webhook events (a dead receiver's, a
malformed one and two others) and two workers are
the least with a worker that is free, one that sleeps and an event behind them. Of invoices one is enough for `odoo_vault`: they meet
only in the batch of a cron, and a batch undone because of another invoice is, for this one, a crash, which the run has; the theorems
cover any number. DIVA's times are the code's defaults, in ticks of a minute: an entry
of the guard is purged after one (`server.go:39`), a call of the model takes up to three (`client.go:92`), a job is stale after three
and its row expires after five.

**Bounds that are not in the code**: `MaxDocs`, `MaxMonth`, `MaxRules`, `MaxLate`, `Mishaps`, and DIVA's `Room`; `MaxAttempts` and `RetryMax` are smaller
than the configured ones. `CHECK_DEADLOCK FALSE` stands in the `odoo_vault`, `replay_runner` and `webhook_queue` configurations
only: when all is vaulted, applied or sent, nothing is left to do.

**Fairness.** `DvigOutbox`: the scheduler's loop has no end and every call a timeout, so a worker's steps are weakly fair;
backoffs elapse; posts of one row succeed eventually if made for ever (strong fairness: the network is not down for
ever). No fairness on ingest or on retries by hand. `OdooVault`: crons run again and again, every transaction ends since its calls
have timeouts, DVIG stores what it has not given up (`EventuallyReceipted`), and the calls of the two crons are answered now and
then if made for ever (strong fairness); jobs, the reconciler and users owe nothing, so the run holds by the crons alone. One
assumption is on the environment: from some time on neither crashes nor conflicting writers undo what a cron has obtained
(`CronUndone`), for which the code has no remedy but to start again. `Constat`: a running
process goes on, since its calls and waits are bounded; no fairness on starting one, on the network or on crashes.
`TransmissionEnds` says that it ends, not how: a constat left `pending` by a stop, or `failed`, is sent again only by hand,
because the job handles the last month only. `ReplayRunner`: a runner's ticker fires, its calls have timeouts and its waits
end; Odoo finishes what it has received. No fairness on creating jobs or events. `WebhookQueue`: posts have a timeout and waits end,
and a stopped process is started again. `DivaAnalysis`: calls end by their timeout, handlers, polls and the purge's ticker go
on; nobody has to ask. `Tick` is strongly fair, as requests, however many, do not stop time.

### What the violations say

- The job runs only for processes started between 00:00 and 01:00, or in the last hour of a month (`calendar_missed`), though the comment
  over it says that the job runs on the first of each month.
- The variable line of an invoice is `volume` units at a mean price rounded to the cent (`pricing_exact`): two documents at one cent and
  one at five are seven cents, invoiced as three units at two. The comments at `dorevia_constat.py:352-353` and `383` promise exactly
  the amount computed. The property is of invoices of which every document is charged and whose amount is in whole cents, so that
  nothing but this rounding can part the two.

### Seen while modelling, without a run

The models behave as the code does in each of these, and the properties are stated so as not to promise more:

- `DvigOutbox`: a stop during a forward leaves the row `forwarding`, which no query selects, though `scheduler.py:20`
  promises that nothing stays blocked; hence `outbox_live` has lost calls and failures after the write, but no crash. The second POST of a bank movement with impacted documents uses an
  `AsyncClient` that its `async with` has closed (`outbox_worker.py:538`), so such a movement is retried for ever. With two
  workers `forwarded` may go back to `failed_soft` (a stale batch is posted again), and with a single one too, when what follows
  the write raises (`outbox_worker.py:653-675`, `780`): `ForwardedUnlessStale` says who may
  do that, `EventuallyReceipted` is on the receipt, which stays.
- `OdooVault`: an event DVIG gives up leaves its invoice `pending_proof` for ever: a 404 counts no attempt, and nothing sends the
  event again (`account_move.py:432`). So does one whose document the Vault
  keeps without evidence: the answer is `pending` for ever, and `account_move.py:437-438` returns without a write, an attempt or an
  error. `PostedIsVaulted` is of neither (`LeftUnproven`).
- `OdooVault`: the first posting may fail before the invoice has a key (`account_move.py:164-173`); nothing gives it one until it is set to draft
  and posted again, DVIG refuses it each time, and it goes from `failed_hard` back to `todo` for ever. An invoice edited in draft
  keeps its key, so that what the Vault holds is the first content. Jobs and the button send an invoice that is a draft again, the button even
  one without a key.
- `VaultIngest`: overlapping submissions of a payment without key are stored twice, and so are those of a ticket; `RepeatIsFound`
  is of submissions that do not overlap.
- `Constat`: the 409 that answers the retry of a lost 201 is recorded as `failed` (`constat.go:690`).
- `Constat`: of two transmissions of one constat the later to finish writes its outcome, so `transmitted` may turn into
  `failed` (`constat.go:576`, `763-789`). A crash or a lost race may leave a ledger entry whose constat was never kept; nothing reads it.
- `ConstatCalendar`: the endpoint generates, and so freezes, the constat of an open month (`early` remembers it); a document
  of the last fraction of a second of a month is in no constat (`"fraction"`).
- `ConstatPricing`: the difference between the invoice and the amount computed is of half a cent per document and a little more at
  most (`InvoiceWithinRounding`, proved); rules listed out of order charge nothing (`ConsecutiveIsCharged` needs the order); an
  open tier cannot be saved (`refused`).
- `ReplayRunner`: a job cut off stays `running`, and only `queued` ones are selected, though `030_create_replay_jobs.sql:51` speaks of
  taking it up after a crash: hence `JobEnds` is of jobs that some runner has. A stale runner sets a job `running` that has ended. A
  payment whose invoice falls in the next batch is posted first: the order is that of a batch. When `action_post` fails, the answer is
  500 but the draft may stay (`replay_controller.py:271`), so that a retry makes another; `posted` counts posted documents. An entry
  of the log may be lost (`runner.go:446`), so that a completed job passed over an event that neither Odoo nor its report knows; the count of failures
  is kept in memory, and starts at zero when the job is taken up again. The properties are of what was seen to fail (`failed`).
- Backfill: `UnlockTenant` is deferred before `LockTenant` is called (`backfill.go:38`), so that a second backfill lifts the
  barrier of the first, which the comment at line 28 promises.
- `WebhookQueue`: a stop loses what the workers hold (`lost`), up to five minutes of waiting each. An event whose request cannot be
  built is dropped before it is posted, and counted nowhere (`dropped`).
- `DivaAnalysis`: the comments at `explain_async.go:118` and `explain.go:92` promise one call of the model at a time for a context. At the defaults
  this is false: a call may take 180 s (`mistral/client.go:92`), the purge takes entries older than 60 s (`server.go:39`), no
  compose file sets either, the unit's README speaks of 90 s, and `guard.go:18` of twice the timeout. `diva_analysis` runs at these defaults, and
  `OneCallPerContext` says that a second call takes such a purge; its `Release` then frees the entry of the other one.
  A claim that fails or is refused leaves the guard's entry to the purge (`explain_async.go:138`). A
  second stale poll may fail a claim made since, because `MarkStaleFailed` looks at no age.

## 5. What is proved

For every value of the constants, under the named assumptions of the modules:

- **`DvigOutboxProofs`** (`OutboxAssumption`). `IInv` adds to the stated invariants that a row has a content exactly when it exists,
  that a request under way carries a key and a content, and that batches and workers hold existing rows, with the Vault
  holding the document when an outcome is "ok". From it: `TypeOK`, `StoredAsAccepted`, `ForwardedImpliesVaulted`, `AckedIsRecorded`,
  `WrittenOnce`, `ForwardedUnlessStale`, and the refinement `Implements` (each step maps to one step of the promise or to a stutter).
  `NoOrphanForwarding` is proved for faults without crashes and failed writes. `ForwardedUnlessStale` has one case per action. For a single worker `SingleWorkerKeeps` says that
  only its own failure after the write takes `forwarded` back, and that the receipt stays; it follows from `HoldsUnforwarded`, that nothing the worker has still to
  forward is forwarded yet.
- **`ConstatProofs`** (`ConstatAssumption`). The stated invariants are not inductive: CORE stores what a process *posts*.
  `Holds` closes the gap: whoever transmits holds the id the Vault keeps for the pair, because it took the row, stored its own or took the one
  that won; `Heard` does so for lost answers, `Signed` for the ledger, `Trying` for the bound on tries. From it: `TypeOK`,
  `ReceivedIsGenerated`, `TransmittedIsReceived`, `ConstatIsInLedger`, `ConstatIsFrozen`. The refinement `Implements` also
  needs `Own`: an id on its way into the table is in no row and in nobody else's hands. For a single process
  `transmitted` is final (`TransmittedIsFinal`), from `Current`: the status it read is that of the row, and what it posts
  is not yet transmitted.
- **`BillingProofs`**, the calendar (`CalendarAssumption`). `CalendarInv`: what a constat counts is of its month (`Counted`);
  unless it was asked for too early its month is over and lacks nothing whole (`Complete`); no document is of a month to come
  (`Dated`); and for a process whose ticker fires in the first hour, either the tick of the first of the month is still to
  be handled or the month before has its constat or failed (`AtMidnight`). From it: `CalendarTypeOK`, `CountedOnce`,
  `CompleteUnlessEarly`, `MidnightRuns`, for any lengths of the months.
- **`BillingProofs`**, the pricing (`PricingAssumption`). `IInv` says that what is charged is below `processed`, and that
  consecutive rules already applied are covered. From it: `TypeOK`, `ChargedInTier`, `FixedOnce`, `ConsecutiveIsCharged`,
  `ChargedOnce`. The sum over the documents is a recursive function of their number, whose equation is proved by the library's
  well-foundedness of `Nat`; that it takes no account of what lies above, and that a tier adds its price times its length,
  follows by taking the least number for which it would fail. From that: `VariableIsCharged`, and `InvoiceWithinRounding`
  with the arithmetic of the two roundings, for any volume.
- **`VaultIngestProofs`** (`IngestAssumption`). Documents never move, so what an answer or a lookup said stays true; `UnderWay`
  adds that a request whose content was held still finds it. From it: `TypeOK`, `AnswerIsHeld`, `OneDocPerKey`, `RepeatIsFound`,
  `AppendOnly`.
- **`OdooVaultProofs`** (`OdooAssumption`), from DVIG's promise only. `Views`: what a transaction believes of an invoice was true when it
  read it, and DVIG, the Vault and the keys take nothing back; `Isolated`: an invoice nobody changed since a transaction read it is vaulted, or has a key, only if the
  transaction knows it; `Rooted`: evidence comes with a document, a document from an event, and an event from an invoice with a key, so that posting a protected
  invoice again finds its key. From them: `TypeOK`, `PendingIsIngested`, `VaultedIsProven` (the document *and* its evidence), `VaultedIsFinal`, and that the connector's
  steps are steps of DVIG's promise (`WithinPromise`). That only posted invoices are sent is no theorem: it is false of the jobs and the button.
- **`ReplayRunnerProofs`** (`ReplayAssumption`). The tables only grow (`Grows`), and an event that comes later has a number above all that
  were copied; so what a poll copied (`Copied`), what a runner has passed (`Left`, `Reached`, `Paid`) and what the job shows (`Progress`)
  stay true while others work, and a request somebody waits for is his (`Awaited`). From it: `TypeOK`, `AppliedOnce`,
  `CompletedIsHandled`, `InvoicesFirst`, and that the progress is never ahead of what was applied or seen to fail, for any number of mishaps and lost entries of the log. With `AskedFor` (whatever is
  on its way to Odoo, though nobody waits for it, was asked for by a job) follows the refinement `Implements`. It is left to the proof.
- **`WebhookQueueProofs`** (`WebhookAssumption`). An event that is due is in one place (`OnePlace`) and carries the number of its posts
  (`ListedCount`, `HeldCount`, `EndCount`). From it: `TypeOK`, `Accounted`, and `EndIsFinal`: an event that has ended
  is in no place from which it could be posted or end again.
- **`DivaAnalysisProofs`** (`DivaAssumption`). In a process whose purge has not taken the entry of a call that goes on, each call has the
  guard's entry and is alone there (`OwnsGuard`), and so has a claim about to be made (`ClaimsGuard`). From it: `TypeOK` and `OneCallPerContext`, for any times. While
  `Timeout <= MaxAge`, a call is as old as its entry (`ShortCalls`), and the purge takes older ones only: there `opened` stays empty
  (`ShortCallsKeepTheGuard`), which is the setting the comments of the code need.

Only model-checked: liveness (`EventuallyReceipted`, `PostedIsVaulted`, `TransmissionEnds`, `JobEnds`, `EventEnds`, `PendingEnds`,
`NeverShut`), which is out of the prover's reach with its fairness and ENABLED. Every invariant, and every action property and
refinement that a passing run checks, is also a theorem (`NoOrphanForwarding` under the condition named above). That `FairSpec` implies `Spec` is by definition, so the theorems
hold of the specifications the liveness runs use.

## 6. Left out of the modelled parts

Cryptography, canonical forms and hashes (an id or a content stands for them), logging, metrics and headers, authentication
of the endpoints (a 401 is a refusal), the compliance counters of a constat, taxes and products of an invoice, several kinds
of documents in one contract (each is priced by itself), the debug button of the connector, the wall clock of
retries, the mapping of raw payloads and the FIFO allocation in Odoo's replay, the signature of its cursor and the counters of its report,
and DIVA's in-memory store and caches.
