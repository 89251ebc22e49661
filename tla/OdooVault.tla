------------------------------- MODULE OdooVault -------------------------------
(***************************************************************************)
(* The invoice side of the Odoo connector, over what DVIG promises (module *)
(* OutboxPromise, which DvigOutbox implements): a posted invoice goes      *)
(* todo -> pending_proof -> vaulted through two crons, two kinds of queue  *)
(* jobs and a button.                                                      *)
(*                                                                         *)
(* Every cron run, job and button click is one database transaction of     *)
(* Odoo, which runs at REPEATABLE READ: it reads the snapshot taken when   *)
(* it starts, its HTTP calls act at once, and its writes appear together   *)
(* at the commit, or not at all when another transaction has committed a   *)
(* write to one of the same invoices since the snapshot.                   *)
(*                                                                         *)
(* The key of an outbox row is the invoice: the key is computed when it is *)
(* first posted and kept, whatever is edited in draft afterwards.  Times   *)
(* (next_retry_at, the delays of jobs) are left to chance.                 *)
(***************************************************************************)
EXTENDS Naturals, FiniteSets

CONSTANTS
    Moves,        \* invoices
    Payload,      \* the content of an invoice.posted event
    Txns,         \* concurrent transactions of Odoo
    MaxAttempts,  \* dorevia.vault.max_attempts_proof
    Faults,       \* what the environment may do wrong
    NoPayload

ASSUME OdooAssumption ==
    /\ MaxAttempts \in Nat \ {0}
    /\ Faults \subseteq {"network", "crash", "refused", "unsealed", "init"}
    /\ NoPayload # Payload

VARIABLES
    move,       \* the vault fields of each invoice, as committed
    posted,     \* invoices whose state is 'posted'
    jobs,       \* queue jobs waiting to run, as <<kind, invoice>>
    tx,         \* the open transactions
    submitted,  \* DVIG's outbox: the event recorded for each invoice
    acked,      \* invoices DVIG has answered "accepted" for
    stored,     \* what the Vault holds for each invoice
    sealed,     \* invoices it holds with their evidence
    given_up    \* events DVIG no longer works on

odoo == <<move, jobs, tx, posted>>
dvig == <<submitted, acked, stored, sealed, given_up>>
vars == <<odoo, dvig>>

Dvig == INSTANCE OutboxPromise WITH Keys <- Moves, Payloads <- {Payload}, receipted <- {}

\* dorevia_vault_status, "none" before the invoice is posted, and whether
\* dorevia_vault_idempotency_key is set.
VaultStatuses == {"none", "todo", "pending_proof", "vaulted", "failed_soft", "failed_hard"}
Fields == [status : VaultStatuses, attempts : 0..MaxAttempts, keyed : BOOLEAN]
NewMove == [status |-> "none", attempts |-> 0, keyed |-> FALSE]

Kinds == {"idle", "send", "fetch", "job_send", "job_fetch", "secure"}
Jobs == {"job_send", "job_fetch"} \X Moves
NoTx == [kind |-> "idle",
         rest |-> {},                         \* invoices still to handle
         view |-> [m \in Moves |-> NewMove],  \* their snapshot and the writes over it
         wrote |-> {},                        \* invoices written
         changed |-> {},                      \* invoices others committed since
         spawn |-> {}]                        \* jobs to enqueue at the commit

TypeOK ==
    /\ move \in [Moves -> Fields]
    /\ posted \subseteq Moves
    /\ jobs \subseteq Jobs
    /\ tx \in [Txns -> [kind : Kinds, rest : SUBSET Moves, view : [Moves -> Fields],
                        wrote : SUBSET Moves, changed : SUBSET Moves, spawn : SUBSET Jobs]]
    /\ submitted \in [Moves -> {Payload, NoPayload}] /\ stored \in [Moves -> {Payload, NoPayload}]
    /\ acked \subseteq Moves /\ sealed \subseteq Moves /\ given_up \subseteq Moves

Init == /\ Dvig!Init /\ sealed = {} /\ given_up = {}
        /\ move = [m \in Moves |-> NewMove]
        /\ posted = {}
        /\ jobs = {}
        /\ tx = [t \in Txns |-> NoTx]

-----------------------------------------------------------------------------
\* Transactions.

\* The other open transactions on these invoices will find them changed.
Touch(others, ms) ==
    [u \in Txns |-> IF u \in others
                    THEN [tx[u] EXCEPT !.changed = @ \cup (ms \cap (tx[u].rest \cup tx[u].wrote))]
                    ELSE tx[u]]

Begin(t, kind, ms) ==
    /\ tx[t].kind = "idle" /\ ms # {}
    /\ tx' = [tx EXCEPT ![t] = [NoTx EXCEPT !.kind = kind, !.rest = ms,
                                !.view = [m \in Moves |-> IF m \in ms THEN move[m] ELSE NewMove]]]
    /\ UNCHANGED <<move, posted, dvig>>

\* The transaction is undone; what its HTTP calls did stays.
Abort(t) == tx' = [tx EXCEPT ![t] = NoTx] /\ UNCHANGED <<move, jobs, posted>>

\* The transaction writes an invoice and goes on, done with it or not.
Write(t, m, fields, done) ==
    /\ tx' = [tx EXCEPT ![t].view[m] = fields,
                        ![t].wrote = @ \cup {m},
                        ![t].rest = IF done THEN @ \ {m} ELSE @]
    /\ UNCHANGED <<move, jobs, posted>>

\* It is done with an invoice, of which it keeps what it wrote and no more.
Leave(t, m, spawned) ==
    /\ tx' = [tx EXCEPT ![t].rest = @ \ {m}, ![t].spawn = spawned,
                        ![t].view[m] = IF m \in tx[t].wrote THEN @ ELSE NewMove]
    /\ UNCHANGED <<move, jobs, posted>>

\* A conflict undoes the whole transaction, batch included; the job runner
\* queues a job again, a cron waits for its next run, and a click is lost.
Commit(t) ==
    LET ms == tx[t].wrote IN
    /\ tx[t].kind # "idle" /\ tx[t].rest = {}
    /\ IF ms \cap tx[t].changed = {}
       THEN /\ move' = [m \in Moves |-> IF m \in ms THEN tx[t].view[m] ELSE move[m]]
            /\ jobs' = jobs \cup tx[t].spawn
            /\ tx' = [Touch(Txns \ {t}, ms) EXCEPT ![t] = NoTx]
       ELSE /\ tx' = [tx EXCEPT ![t] = NoTx]
            /\ jobs' = jobs \cup (({tx[t].kind} \X ms) \cap Jobs)
            /\ UNCHANGED move
    /\ UNCHANGED <<posted, dvig>>

\* The process stops, or a job runs out of time.
OdooCrash(t) ==
    /\ "crash" \in Faults
    /\ tx[t].kind # "idle"
    /\ Abort(t)
    /\ UNCHANGED dvig

-----------------------------------------------------------------------------
Initialise(m) ==
    /\ move' = [move EXCEPT ![m] = [status |-> "todo", attempts |-> 0, keyed |-> TRUE]]
    /\ jobs' = jobs \cup {<<"job_send", m>>}

PostMoveAgain(m) ==  \* mutant: the check for an idempotency key is dropped
    /\ m \notin posted
    /\ Initialise(m)
    /\ posted' = posted \cup {m} /\ tx' = Touch(Txns, {m})
    /\ UNCHANGED dvig
\* action_post: an invoice without a key gets one, is to be vaulted and has a
\* job queued; an error on the way leaves it in failure, with the key or
\* without, and no job; one that has a key (it was set to draft and is posted
\* again) is left alone.
PostMove(m) ==
    /\ m \notin posted
    /\ \/ move[m].keyed /\ UNCHANGED <<move, jobs>>
       \/ ~move[m].keyed /\ Initialise(m)
       \/ /\ "init" \in Faults /\ ~move[m].keyed
          /\ move' \in {[move EXCEPT ![m].status = "failed_soft"],
                       [move EXCEPT ![m] = [status |-> "failed_soft", attempts |-> 0, keyed |-> TRUE]]}
          /\ UNCHANGED jobs
    /\ posted' = posted \cup {m} /\ tx' = Touch(Txns, {m})
    /\ UNCHANGED dvig

\* button_draft, where dorevia_posted_lock is absent, disabled or told to allow
\* it: the fields of the vault stay as they are.
ResetDraft(m) ==
    /\ m \in posted
    /\ posted' = posted \ {m}
    /\ tx' = Touch(Txns, {m})
    /\ UNCHANGED <<move, jobs, dvig>>

InStatus(statuses) == {m \in Moves : move[m].status \in statuses}

\* cron_vault_reconciler: a proof job for each invoice whose retry is due.
Reconcile ==
    \E late \in SUBSET (posted \cap InStatus({"pending_proof", "failed_soft"})) :
        /\ ~(({"job_fetch"} \X late) \subseteq jobs)
        /\ jobs' = jobs \cup ({"job_fetch"} \X late)
        /\ UNCHANGED <<move, tx, posted, dvig>>

\* Mutant: the attempts are counted from zero again, the status is forgotten.
ResetCountersOnly ==
    /\ \E m \in posted : move[m].status = "failed_hard" /\ move[m].attempts # 0
    /\ move' = [m \in Moves |-> IF m \in posted /\ move[m].status = "failed_hard"
                                THEN [move[m] EXCEPT !.attempts = 0] ELSE move[m]]
    /\ UNCHANGED <<jobs, tx, posted, dvig>>

\* cron_vault_reconciler_failed_hard: abandoned invoices start again.
ResetFailedHard ==
    LET ms == posted \cap InStatus({"failed_hard"}) IN
    /\ ms # {}
    /\ move' = [m \in Moves |-> IF m \in ms
                                THEN [move[m] EXCEPT !.status = "todo", !.attempts = 0]
                                ELSE move[m]]
    /\ tx' = Touch(Txns, ms)
    /\ UNCHANGED <<jobs, posted, dvig>>

Unsent == {"todo", "failed_soft"}

\* The crons select invoices, and Odoo runs each of them once at a time; the
\* jobs and the button are about one invoice.  Only the cron that sends asks
\* that they be posted.
BeginCron(t, kind, ms) ==
    /\ \A u \in Txns : tx[u].kind # kind
    /\ Begin(t, kind, ms)
    /\ UNCHANGED jobs

BeginSend(t) == \E retried \in SUBSET InStatus({"failed_soft"}) :
    BeginCron(t, "send", posted \cap (InStatus({"todo"}) \cup retried))

BeginFetch(t) == BeginCron(t, "fetch", InStatus({"pending_proof"}))

BeginJob(t) == \E j \in jobs : Begin(t, j[1], {j[2]}) /\ jobs' = jobs \ {j}

BeginSecure(t) == \E m \in InStatus({"todo", "pending_proof", "failed_soft"}) :
    Begin(t, "secure", {m}) /\ UNCHANGED jobs

-----------------------------------------------------------------------------
\* The calls a transaction makes.

\* One more attempt, counted up to the threshold.
Tried(f) == [f EXCEPT !.attempts = IF @ < MaxAttempts THEN @ + 1 ELSE @]

\* Mutant: a status the selection does not know.
AbandonUnnamed(f) == IF f.attempts >= MaxAttempts THEN [f EXCEPT !.status = "abandoned"] ELSE f

\* _check_abandon_thresholds, after an error has set last_try_at to now: the
\* age limit never applies, the number of attempts does.
Abandon(f) ==
    IF f.status \in {"pending_proof", "failed_soft"} /\ f.attempts >= MaxAttempts
    THEN [f EXCEPT !.status = "failed_hard"] ELSE f

\* DVIG's answer to POST /ingest.
Ingest(m) == (Dvig!Submit(m, Payload) \/ Dvig!Acknowledge(m)) /\ UNCHANGED <<sealed, given_up>>

SendReady(t, m) ==
    /\ tx[t].kind \in {"send", "job_send", "secure"} /\ m \in tx[t].rest \ tx[t].wrote
    /\ tx[t].view[m].status \in Unsent

\* DVIG accepts; the cron is done with the invoice, the job and the button
\* have DVIG's worker run and then ask for the proof.
SendOk(t, m) ==
    /\ SendReady(t, m) /\ tx[t].view[m].keyed
    /\ Ingest(m)
    /\ Write(t, m, [Tried(tx[t].view[m]) EXCEPT !.status = "pending_proof"], tx[t].kind = "send")

SendFailsUnseen(t, m) ==  \* mutant: the answer of DVIG is not looked at
    /\ "network" \in Faults
    /\ SendReady(t, m)
    /\ UNCHANGED dvig
    /\ Write(t, m, [Tried(tx[t].view[m]) EXCEPT !.status = "pending_proof"], TRUE)
\* The call fails, before or after DVIG recorded the event, or DVIG answers 422
\* to an event whose key is not a string: the cron notes the failure and goes
\* on with its batch, a job or a click is undone.
SendFails(t, m) ==
    /\ SendReady(t, m)
    /\ \/ "network" \in Faults /\ tx[t].view[m].keyed /\ (Ingest(m) \/ UNCHANGED dvig)
       \/ ~tx[t].view[m].keyed /\ UNCHANGED dvig
    /\ IF tx[t].kind = "send"
       THEN Write(t, m, Abandon([Tried(tx[t].view[m]) EXCEPT !.status = "failed_soft"]), TRUE)
       ELSE Abort(t)

\* _job_send_to_dvig finds that the invoice is no longer to be sent.
JobSkips(t, m) ==
    /\ tx[t].kind = "job_send" /\ m \in tx[t].rest \ tx[t].wrote
    /\ tx[t].view[m].status \notin Unsent
    /\ Abort(t)
    /\ UNCHANGED dvig

FetchReady(t, m) ==
    /\ m \in tx[t].rest
    /\ \/ tx[t].kind \in {"fetch", "job_fetch"}
       \/ tx[t].kind = "job_send" /\ m \in tx[t].wrote
       \/ tx[t].kind = "secure" /\ tx[t].view[m].status = "pending_proof"

FetchUnseen(t, m) ==  \* mutant: the status in the Vault's answer is not looked at
    /\ FetchReady(t, m) /\ stored[m] # NoPayload
    /\ Write(t, m, [tx[t].view[m] EXCEPT !.status = "vaulted"], TRUE)
    /\ UNCHANGED dvig
\* The Vault holds the document with its evidence: it answers 'verified'.
FetchFound(t, m) ==
    /\ FetchReady(t, m) /\ m \in sealed
    /\ Write(t, m, [tx[t].view[m] EXCEPT !.status = "vaulted"], TRUE)
    /\ UNCHANGED dvig

\* The Vault answers 404, or 'pending' for a document without evidence: the
\* cron leaves the invoice as it is, without counting an attempt; a job queues
\* another one, unless it was the last of its few retries; the button counts
\* an attempt.
FetchMissing(t, m) ==
    /\ FetchReady(t, m) /\ m \notin sealed
    /\ IF tx[t].kind = "secure"
       THEN Write(t, m, Tried(tx[t].view[m]), TRUE)
       ELSE /\ \E again \in IF tx[t].view[m].status # "pending_proof" THEN {{}}
                            ELSE CASE tx[t].kind = "job_send"  -> {{<<"job_fetch", m>>}}
                                   [] tx[t].kind = "job_fetch" -> {{<<"job_fetch", m>>}, {}}
                                   [] OTHER -> {{}} :
                 Leave(t, m, again)
    /\ UNCHANGED dvig

\* The call fails.
FetchFails(t, m) ==
    /\ "network" \in Faults
    /\ FetchReady(t, m)
    /\ IF tx[t].kind = "fetch"
       THEN Write(t, m, Abandon(Tried(tx[t].view[m])), TRUE)
       ELSE Abort(t)
    /\ UNCHANGED dvig

-----------------------------------------------------------------------------
\* DVIG works on its own: it stores an event, or gives it up (failed_hard, or
\* left in 'forwarding' by a crash; DvigOutbox).  The connector never calls
\* the retry endpoint for an invoice, so what is given up stays so.  Where
\* evidence is not required (JWS_REQUIRED=false) the Vault may keep a document
\* without it, and never adds it later.
DvigStores(m) ==
    /\ m \notin given_up /\ Dvig!Store(m)
    /\ \/ sealed' = sealed \cup {m}
       \/ "unsealed" \in Faults /\ UNCHANGED sealed
    /\ UNCHANGED <<given_up, odoo>>
DvigGivesUp(m) ==
    /\ "refused" \in Faults
    /\ submitted[m] # NoPayload /\ stored[m] = NoPayload /\ m \notin given_up
    /\ given_up' = given_up \cup {m}
    /\ UNCHANGED <<submitted, acked, stored, sealed, odoo>>

Work(t) == \/ Commit(t)
           \/ \E m \in Moves : SendOk(t, m) \/ SendFails(t, m) \/ JobSkips(t, m)
                               \/ FetchFound(t, m) \/ FetchMissing(t, m) \/ FetchFails(t, m)

Next == \/ \E m \in Moves : PostMove(m) \/ ResetDraft(m) \/ DvigStores(m) \/ DvigGivesUp(m)
        \/ Reconcile \/ ResetFailedHard
        \/ \E t \in Txns : BeginSend(t) \/ BeginFetch(t) \/ BeginJob(t) \/ BeginSecure(t)
                           \/ Work(t) \/ OdooCrash(t)

Spec == Init /\ [][Next]_vars

\* What a cron obtained is lost, by a crash or a conflict.
CronUndone(t) == /\ tx[t].kind \in {"send", "fetch"} /\ tx[t].wrote # {}
                 /\ tx'[t] = NoTx /\ UNCHANGED move

\* Odoo's crons run for ever, every transaction ends (each call has a timeout),
\* DVIG stores what it has not given up (DvigOutbox, EventuallyReceipted), and the
\* network does not fail for ever the calls of the two crons; one day neither
\* crashes nor other writers undo their work any more.  The queue's jobs, the
\* reconciler and the button are not relied on.
Fairness ==
    /\ <>[][\A t \in Txns : ~CronUndone(t)]_vars
    /\ WF_vars(ResetFailedHard)
    /\ \A m \in Moves : WF_vars(DvigStores(m))
    /\ \A t \in Txns : WF_vars(Work(t))
    /\ SF_vars(\E t \in Txns : BeginSend(t)) /\ SF_vars(\E t \in Txns : BeginFetch(t))
    /\ \A m \in Moves :
        /\ SF_vars(\E t \in Txns : tx[t].kind = "send" /\ SendOk(t, m))
        /\ SF_vars(\E t \in Txns : tx[t].kind = "fetch" /\ FetchFound(t, m))

FairSpec == Spec /\ Fairness

-----------------------------------------------------------------------------
\* An invoice shown as waiting for its proof has an event in DVIG's outbox,
\* through lost answers, undone transactions and restarts: the status is
\* committed only after DVIG's acknowledgement (account_move.py:289-311).
PendingIsIngested == \A m \in Moves : move[m].status = "pending_proof" => m \in acked

\* An invoice shown as protected has its document in the Vault, with the
\* evidence that makes it a proof: neither a 404, nor the 'pending' answer for a
\* document without evidence, nor a lost answer passes for one
\* (account_move.py:431-462).
VaultedIsProven ==
    \A m \in Moves : move[m].status = "vaulted" => stored[m] # NoPayload /\ m \in sealed

\* A protected invoice stays protected: no cron, job or click that read it
\* before overwrites it after, nor is it started again when it is set to draft
\* and posted again (account_move.py:147-176, 268-338, 377-405, 494-513).
VaultedIsFinal ==
    [][\A m \in Moves : move[m].status = "vaulted" => move'[m].status = "vaulted"]_vars

\* The connector asks of DVIG only what OutboxPromise allows and relies on nothing
\* else, so DvigOutbox, which implements it, may stand behind it.
WithinPromise == Dvig!Spec

\* Every posted invoice ends protected, the rule of data/ir_cron.xml:53, but for
\* what the code lets stay: one set back to draft, one DVIG has given up, and one
\* the Vault keeps without evidence, which waits for its proof for ever
\* (account_move.py:268-338, 377-438).
LeftUnproven(m) == \/ m \notin posted
                   \/ m \in given_up
                   \/ stored[m] # NoPayload /\ m \notin sealed
PostedIsVaulted ==
    \A m \in Moves : move[m].status = "todo" /\ move[m].keyed
                        ~> move[m].status = "vaulted" \/ LeftUnproven(m)
==============================================================================
