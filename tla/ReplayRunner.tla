------------------------------ MODULE ReplayRunner ------------------------------
(***************************************************************************)
(* The replay of a tenant's economic events into its Odoo.                 *)
(*                                                                         *)
(* The Vault keeps the events in a sequence.  A job asks for a range of    *)
(* them to be counted (dry_run) or applied.  Runners, one per process,     *)
(* poll the queued jobs, read the events of a job batch after batch and    *)
(* post each to Odoo, with retries, invoices before payments.  Odoo looks  *)
(* the event up in dorevia.replay.mapping, creates the document and the    *)
(* mapping's row in one transaction, and answers; it goes on with a        *)
(* request whose client has given up.                                      *)
(*                                                                         *)
(* No error of the Vault's own writes is looked at.  A job's events that   *)
(* could not be applied are named in its log, unless that write is lost.   *)
(***************************************************************************)
EXTENDS Naturals, FiniteSets

CONSTANTS
    Events,     \* economic events of one tenant
    Invoices,   \* those that are invoices or refunds
    Payments,   \* those that are payments; the others are passed over
    Jobs,       \* jobs that may be asked for
    Ranges,     \* the sets of events their dates may select
    Runners,    \* processes
    JobLimit,   \* jobs read by a poll
    BatchSize,  \* events read at once
    RetryMax,   \* attempts after the first
    Faults,     \* what may go wrong
    MaxLate,    \* bound on the requests Odoo has whose clients gave up
    Mishaps,    \* bound on stops, lost writes and failed reads together
    None

ASSUME ReplayAssumption ==
    /\ IsFiniteSet(Events) /\ Invoices \subseteq Events /\ Payments \subseteq Events
    /\ Invoices \cap Payments = {}
    /\ Ranges \subseteq SUBSET Events
    /\ None \notin Jobs \cup Events \cup Runners
    /\ JobLimit \in Nat \ {0} /\ BatchSize \in Nat \ {0}
    /\ RetryMax \in Nat /\ MaxLate \in Nat /\ Mishaps \in Nat
    /\ Faults \subseteq {"network", "timeout", "refused", "read", "write", "crash"}

VARIABLES
    sequence,  \* place of an event in economic_events, 0 while it has none
    counter,   \* tenant_sequences.last_sequence
    job,       \* replay_jobs
    failed,    \* events that a job has seen fail, in the processes' own log
    log,       \* those of them in replay_job_logs
    runner,    \* what each process is doing
    requests,  \* posts that Odoo has received and not finished; those nobody waits
               \* for are one, alike as they are
    mapping,   \* events in dorevia.replay.mapping
    posted,    \* documents posted in Odoo for an event
    mishaps    \* stops, lost writes and failed reads so far

vars == <<sequence, counter, job, failed, log, runner, requests, mapping, posted, mishaps>>
logs == <<failed, log>>
odoo == <<requests, mapping, posted>>

Statuses == {"none", "queued", "running", "completed", "failed"}
Modes    == {"dry_run", "apply", "apply_without_url"}
Queued   == [id : Jobs, last : Nat]  \* what a poll reads of a job
Request  == [by : Runners \cup {None}, event : Events, phase : {"lookup", "create"}]
Memory   == [pc : {"idle", "list", "next", "post", "wait", "completed", "failed"},
             todo : SUBSET Queued, job : Jobs \cup {None}, after : Nat,
             page : SUBSET Events, last : Nat, more : BOOLEAN,
             event : Events \cup {None}, try : 0..RetryMax]
Idle     == [pc |-> "idle", todo |-> {}, job |-> None, after |-> 0, page |-> {},
             last |-> 0, more |-> FALSE, event |-> None, try |-> 0]

TypeOK ==
    /\ sequence \in [Events -> Nat] /\ counter \in Nat
    /\ job \in [Jobs -> [status : Statuses, mode : Modes, range : Ranges \cup {{}},
                         last : Nat, until : Nat]]
    /\ failed \in [Jobs -> SUBSET Events] /\ log \in [Jobs -> SUBSET Events]
    /\ runner \in [Runners -> Memory]
    /\ requests \subseteq Request
    /\ mapping \subseteq Events
    /\ posted \in [Events -> Nat]
    /\ mishaps \in 0..Mishaps

Init ==
    /\ sequence = [e \in Events |-> 0] /\ counter = 0
    /\ job = [j \in Jobs |-> [status |-> "none", mode |-> "dry_run", range |-> {},
                              last |-> 0, until |-> 0]]
    /\ failed = [j \in Jobs |-> {}] /\ log = [j \in Jobs |-> {}]
    /\ runner = [r \in Runners |-> Idle]
    /\ requests = {} /\ mapping = {} /\ posted = [e \in Events |-> 0]
    /\ mishaps = 0

-----------------------------------------------------------------------------
Mishap(fault) == /\ fault \in Faults /\ mishaps < Mishaps
                 /\ mishaps' = mishaps + 1

\* A write of replay_jobs, whose error is ignored.
Write(new) == \/ job' = new /\ UNCHANGED mishaps
              \/ Mishap("write") /\ UNCHANGED job

\* POST /replay/ingest: the event takes the tenant's next number.
Ingest(e) ==
    /\ sequence[e] = 0
    /\ counter' = counter + 1
    /\ sequence' = [sequence EXCEPT ![e] = counter']
    /\ UNCHANGED <<job, logs, runner, odoo, mishaps>>

\* POST /replay/jobs.  "until" only serves the properties: the events there were.
CreateJob(j, mode, range) ==
    /\ job[j].status = "none"
    /\ job' = [job EXCEPT ![j] = [status |-> "queued", mode |-> mode, range |-> range,
                                  last |-> 0, until |-> counter]]
    /\ UNCHANGED <<sequence, counter, logs, runner, odoo, mishaps>>

-----------------------------------------------------------------------------
\* One runner.

\* processQueuedJobs: a copy of some queued jobs, taken one after the other.
Poll(r) ==
    /\ runner[r] = Idle
    /\ \E S \in SUBSET {j \in Jobs : job[j].status = "queued"} :
        /\ S # {} /\ Cardinality(S) <= JobLimit
        /\ runner' = [runner EXCEPT ![r].todo = {[id |-> j, last |-> job[j].last] : j \in S}]
    /\ UNCHANGED <<sequence, counter, job, logs, odoo, mishaps>>

\* runJob: 'running' is written over whatever status the job has by then; the
\* progress is that of the copy.  Without the address of an Odoo it fails.
StartJob(r, q) ==
    /\ runner[r].pc = "idle" /\ q \in runner[r].todo
    /\ Write([job EXCEPT ![q.id].status = "running"])
    /\ runner' = [runner EXCEPT ![r].todo = @ \ {q}, ![r].job = q.id, ![r].after = q.last,
           ![r].pc = IF job[q.id].mode = "apply_without_url" THEN "failed" ELSE "list"]
    /\ UNCHANGED <<sequence, counter, logs, odoo>>

\* The events of the job's range, by their numbers.
After(j, n) == {e \in job[j].range : sequence[e] > n}
Batches(S)  == {b \in SUBSET S : /\ \A e \in b, d \in S \ b : sequence[e] < sequence[d]
                                 /\ Cardinality(b) <= BatchSize
                                 /\ Cardinality(b) < BatchSize => b = S}

\* A batch: the first events after the last one read, fewer than BatchSize
\* only at the end.
List(r) ==
    LET j == runner[r].job
        S == After(j, runner[r].after) IN
    /\ runner[r].pc = "list"
    /\ \E b \in Batches(S) :
        IF b = {} THEN runner' = [runner EXCEPT ![r].pc = "completed"]
        ELSE \E e \in b :
            /\ \A d \in b : sequence[d] <= sequence[e]
            /\ runner' = [runner EXCEPT ![r].pc = "next", ![r].page = b,
                              ![r].last = sequence[e], ![r].more = Cardinality(b) = BatchSize]
    /\ UNCHANGED <<sequence, counter, job, logs, odoo, mishaps>>

ListFails(r) ==
    /\ runner[r].pc = "list" /\ Mishap("read")
    /\ runner' = [runner EXCEPT ![r].pc = "failed"]
    /\ UNCHANGED <<sequence, counter, job, logs, odoo>>

\* What is left of the batch to apply, and what of it comes first.
ToApply(r) == IF job[runner[r].job].mode = "apply" THEN runner[r].page \cap (Invoices \cup Payments)
              ELSE {}
FirstBySequence(r, e) ==  \* mutant: the batch in the order of the sequence
    \A d \in ToApply(r) : sequence[e] <= sequence[d]
\* orderEventsForReplay: invoices, then payments, each in the order of the sequence.
First(r, e) ==
    \A d \in ToApply(r) : \/ e \in Invoices /\ d \in Payments
                          \/ (e \in Invoices <=> d \in Invoices) /\ sequence[e] <= sequence[d]

FailSilently(r, e) ==  \* mutant: a failure is counted among the skipped
    UNCHANGED <<logs, mishaps>>
\* logApplyError: the error of writing the entry is ignored too.
Fail(r, e) ==
    /\ failed' = [failed EXCEPT ![runner[r].job] = @ \cup {e}]
    /\ \/ log' = [log EXCEPT ![runner[r].job] = @ \cup {e}] /\ UNCHANGED mishaps
       \/ Mishap("write") /\ UNCHANGED log

\* The next event: its partner is created or updated first (idempotent).
NextEvent(r) ==
    /\ runner[r].pc = "next"
    /\ \E e \in ToApply(r) :
        /\ First(r, e)
        /\ runner' = [runner EXCEPT ![r].pc = "post", ![r].event = e, ![r].try = 0]
    /\ UNCHANGED <<sequence, counter, job, logs, odoo, mishaps>>

\* The partner's upsert fails, its attempts included.
PartnerFails(r) ==
    /\ runner[r].pc = "next" /\ Faults \cap {"network", "refused"} # {}
    /\ \E e \in ToApply(r) :
        /\ First(r, e)
        /\ Fail(r, e)
        /\ runner' = [runner EXCEPT ![r].page = @ \ {e}]
    /\ UNCHANGED <<sequence, counter, job, odoo>>

Post(r) ==
    /\ runner[r].pc = "post"
    /\ requests' = requests \cup {[by |-> r, event |-> runner[r].event, phase |-> "lookup"]}
    /\ runner' = [runner EXCEPT ![r].pc = "wait"]
    /\ UNCHANGED <<sequence, counter, job, logs, mapping, posted, mishaps>>

\* The event is done with, applied or not.
Done(r) == runner' = [runner EXCEPT ![r].pc = "next", ![r].page = @ \ {runner[r].event},
                                    ![r].event = None, ![r].try = 0]

RetryOneMore(r) ==  \* mutant: attempt <= RetryMax + 1
    IF runner[r].try <= RetryMax
    THEN /\ runner' = [runner EXCEPT ![r].pc = "post", ![r].try = @ + 1]
         /\ UNCHANGED <<logs, mishaps>>
    ELSE Fail(r, runner[r].event) /\ Done(r)
\* doWithRetry, after a network error or a 5xx: one more attempt, or the event
\* has failed.
Retry(r) ==
    IF runner[r].try < RetryMax
    THEN /\ runner' = [runner EXCEPT ![r].pc = "post", ![r].try = @ + 1]
         /\ UNCHANGED <<logs, mishaps>>
    ELSE Fail(r, runner[r].event) /\ Done(r)

NotDelivered(r) ==
    /\ runner[r].pc = "post" /\ "network" \in Faults
    /\ Retry(r)
    /\ UNCHANGED <<sequence, counter, job, odoo>>

\* Nobody waits for what r has posted, and Odoo goes on with it.
Forsake(r) == requests' = {IF q.by = r THEN [q EXCEPT !.by = None] ELSE q : q \in requests}

\* The client's timeout.  Bound: MaxLate requests that nobody waits for.
GiveUp(r) ==
    /\ runner[r].pc = "wait" /\ "timeout" \in Faults
    /\ Cardinality({q \in requests : q.by = None}) < MaxLate
    /\ Retry(r) /\ Forsake(r)
    /\ UNCHANGED <<sequence, counter, job, mapping, posted>>

CheckpointStays(r) ==  \* mutant: afterSeq is not advanced
    /\ runner[r].pc = "next" /\ ToApply(r) = {}
    /\ Write([job EXCEPT ![runner[r].job].last = runner[r].last])
    /\ runner' = [runner EXCEPT ![r].pc = IF runner[r].more THEN "list" ELSE "completed",
                                ![r].page = {}, ![r].last = 0, ![r].more = FALSE]
    /\ UNCHANGED <<sequence, counter, logs, odoo>>
\* The batch is over: the progress is written, and the next batch read.
Checkpoint(r) ==
    /\ runner[r].pc = "next" /\ ToApply(r) = {}
    /\ Write([job EXCEPT ![runner[r].job].last = runner[r].last])
    /\ runner' = [runner EXCEPT ![r].pc = IF runner[r].more THEN "list" ELSE "completed",
                                ![r].page = {}, ![r].after = runner[r].last,
                                ![r].last = 0, ![r].more = FALSE]
    /\ UNCHANGED <<sequence, counter, logs, odoo>>

\* 'completed', failures of events included, or 'failed'; then the next job of
\* the copy.
EndJob(r) ==
    /\ runner[r].pc \in {"completed", "failed"}
    /\ Write([job EXCEPT ![runner[r].job].status = runner[r].pc])
    /\ runner' = [runner EXCEPT ![r] = [Idle EXCEPT !.todo = runner[r].todo]]
    /\ UNCHANGED <<sequence, counter, logs, odoo>>

\* The process stops.
Stop(r) ==
    /\ runner[r] # Idle /\ Mishap("crash")
    /\ runner' = [runner EXCEPT ![r] = Idle]
    /\ Forsake(r)
    /\ UNCHANGED <<sequence, counter, job, logs, mapping, posted>>

-----------------------------------------------------------------------------
\* Odoo, invoice_create_synth and payment_create.

\* An answer reaches the runner that waits for it, if there is one: the event is
\* done with, has failed, or is tried again; a lost answer is an error.
Answer(q, outcome) ==
    /\ requests' = requests \ {q}
    /\ \/ q.by = None /\ UNCHANGED <<runner, logs, mishaps>>
       \/ q.by # None /\ outcome = "ok" /\ Done(q.by) /\ UNCHANGED <<logs, mishaps>>
       \/ q.by # None /\ outcome = "refused" /\ Done(q.by) /\ Fail(q.by, q.event)
       \/ q.by # None /\ (outcome = "error" \/ "network" \in Faults) /\ Retry(q.by)
    /\ UNCHANGED <<sequence, counter, job>>

\* 'skipped' when the mapping has the event, as this transaction sees it.
LookUp(q) ==
    /\ q.phase = "lookup"
    /\ IF q.event \in mapping THEN Answer(q, "ok")
       ELSE /\ requests' = (requests \ {q}) \cup {[q EXCEPT !.phase = "create"]}
            /\ UNCHANGED <<sequence, counter, job, logs, runner, mishaps>>
    /\ UNCHANGED <<mapping, posted>>

CreateUnchecked(q) ==  \* mutant: no UNIQUE (event_id)
    /\ q.phase = "create"
    /\ mapping' = mapping \cup {q.event}
    /\ posted' = [posted EXCEPT ![q.event] = @ + 1]
    /\ Answer(q, "ok")
\* The document is posted and its mapping stored in one transaction, which
\* UNIQUE (event_id) undoes when another has applied the event since: a 400 or a
\* 5xx.
Create(q) ==
    /\ q.phase = "create"
    /\ IF q.event \in mapping
       THEN /\ UNCHANGED <<mapping, posted>>
            /\ Answer(q, "refused") \/ Answer(q, "error")
       ELSE /\ mapping' = mapping \cup {q.event}
            /\ posted' = [posted EXCEPT ![q.event] = @ + 1]
            /\ Answer(q, "ok")

\* 400, the partner is not found; or 500, the document cannot be created.
Reject(q) ==
    /\ q.phase = "create" /\ "refused" \in Faults
    /\ Answer(q, "refused") \/ Answer(q, "error")
    /\ UNCHANGED <<mapping, posted>>

-----------------------------------------------------------------------------
RunnerStep(r) ==
    \/ Poll(r) \/ \E q \in runner[r].todo : StartJob(r, q)
    \/ List(r) \/ ListFails(r) \/ NextEvent(r) \/ PartnerFails(r) \/ Post(r)
    \/ NotDelivered(r) \/ GiveUp(r) \/ Checkpoint(r) \/ EndJob(r)

OdooStep == \E q \in requests : LookUp(q) \/ Create(q) \/ Reject(q)

Next == \/ \E e \in Events : Ingest(e)
        \/ \E j \in Jobs, mode \in Modes, range \in Ranges : CreateJob(j, mode, range)
        \/ \E r \in Runners : RunnerStep(r) \/ Stop(r)
        \/ OdooStep

Spec == Init /\ [][Next]_vars

\* A runner goes on: its ticker fires, its calls have timeouts and its waits
\* end.  Odoo finishes what it has received.
FairSpec == /\ Spec
            /\ \A r \in Runners : WF_vars(RunnerStep(r))
            /\ WF_vars(OdooStep)

-----------------------------------------------------------------------------
\* Whatever is posted twice, by retries, overlapping runners or repeated jobs,
\* and however late Odoo handles it, an event has one document in Odoo if the
\* mapping names it and none otherwise (replay_controller.py:215, 280).
AppliedOnce == \A e \in Events : posted[e] = IF e \in mapping THEN 1 ELSE 0

\* Every event of the job's range that has a number up to n is in Odoo, or has
\* failed; the log names it then, unless the write of that entry was lost.
Handled(j, n) ==
    job[j].mode = "apply" =>
        \A e \in job[j].range \cap (Invoices \cup Payments) :
            sequence[e] \in 1..n => e \in mapping \cup failed[j]

\* A job said to be 'completed' has passed over none of the events there were
\* when it was asked for, though it was cut off and taken up again from its
\* progress, or run twice: each is in Odoo, or was seen to fail
\* (runner.go:158-283, 437-450).
CompletedIsHandled == \A j \in Jobs : job[j].status = "completed" => Handled(j, job[j].until)

\* What the progress of a job passes over is in Odoo or has failed
\* (runner.go:247-256).
ProgressIsHandled == \A j \in Jobs : Handled(j, job[j].last)

\* When a payment is posted, every invoice of the job's range up to the end of
\* the batch is in Odoo or has failed: it can be allocated (runner.go:482-503).
InvoicesFirst ==
    \A r \in Runners : runner[r].event \in Payments =>
        \A i \in Invoices \cap job[runner[r].job].range :
            sequence[i] \in 1..runner[r].last => i \in mapping \cup failed[runner[r].job]

\* The events a job is asked to apply, and those of them with a number up to n.
Wanted(j)  == IF job[j].mode = "apply" THEN job[j].range \cap (Invoices \cup Payments) ELSE {}
UpTo(j, n) == {e \in Wanted(j) : sequence[e] \in 1..n}

Promise == INSTANCE ReplayPromise WITH
    known     <- {e \in Events : sequence[e] # 0},
    documents <- posted,
    asked     <- {j \in Jobs : job[j].status # "none"},
    wanted    <- [j \in Jobs |-> Wanted(j)],
    due       <- [j \in Jobs |-> UpTo(j, job[j].until)],
    failed    <- failed,
    reported  <- log,
    passed    <- [j \in Jobs |-> UpTo(j, job[j].last)],
    completed <- {j \in Jobs : job[j].status = "completed"}

\* Runners and Odoo keep the promise of ReplayPromise: whatever is lost, late or
\* done twice, a document is posted once, for an event that some job was asked to
\* apply, and nothing a job shows is ahead of what it has applied or seen fail
\* (runner.go:118-283, replay_controller.py:202-290).
Implements == Promise!Spec

\* The job is in nobody's hands, and nobody will take it up again.
Abandoned(j) == /\ job[j].status = "running"
                /\ \A r \in Runners : runner[r].job # j

\* A job that waits is run to its end, or was cut off (runner.go:118-155).
JobEnds == \A j \in Jobs :
    job[j].status = "queued" ~> job[j].status \in {"completed", "failed"} \/ Abandoned(j)
==============================================================================
