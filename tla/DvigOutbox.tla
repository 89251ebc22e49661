------------------------------ MODULE DvigOutbox ------------------------------
(***************************************************************************)
(* The outbox of the DVIG gateway: POST /ingest writes a row of            *)
(* outbox_events, one or several workers (the scheduler's loop, the        *)
(* trigger endpoint, the command line) forward rows to the Vault, and the  *)
(* retry endpoint sends failed rows back to the start.                     *)
(*                                                                         *)
(* A row is a (tenant, idempotency_key) pair, the UNIQUE constraint of     *)
(* migration 006.  Workers do not lock or claim rows: two of them may hold *)
(* the same row.  The Vault is seen through its idempotency promise: the   *)
(* first content stored under a key stays (module VaultIngest shows how  *)
(* the Vault keeps it).  attempt_count only sets the length of a backoff,  *)
(* so the model keeps the end of the backoff (due) and not the count.      *)
(***************************************************************************)
EXTENDS Naturals, FiniteSets

CONSTANTS
    Keys,          \* (tenant, idempotency_key) pairs of outbox_events
    Payloads,      \* contents of an event
    Malformed,     \* contents whose Vault format cannot be built
    Projections,   \* keys of bank.move.* events: the Vault answers without an id
    Confirmations, \* those of them with impacted_documents: a second POST follows
    Clients,       \* concurrent POST /ingest requests
    Workers,       \* concurrent calls of process_outbox_events
    BatchLimit,    \* its limit argument
    Faults,        \* what the environment may do wrong
    NoPayload, NoKey

ASSUME OutboxAssumption ==
    /\ NoPayload \notin Payloads /\ NoKey \notin Keys
    /\ Malformed \subseteq Payloads
    /\ Projections \subseteq Keys /\ Confirmations \subseteq Projections
    /\ BatchLimit \in Nat \ {0}
    /\ Faults \subseteq {"network", "reject", "crash", "write", "after"}

VARIABLES
    status,   \* outbox_events.status, "none" when there is no row
    payload,  \* outbox_events.payload
    receipt,  \* whether outbox_events.vault_receipt_id is set
    due,      \* whether next_retry_at has passed
    vault,    \* what the Vault has stored under each key
    acked,    \* keys some sender was answered "accepted" for
    request,  \* the ingest of each client that found no row and has yet to insert
    batch,    \* rows each worker has selected and not yet processed
    current,  \* the row each worker is processing
    phase     \* where that processing stands

rows    == <<status, payload, receipt, due>>
workers == <<batch, current, phase>>
vars    == <<rows, vault, acked, request, workers>>

\* The values of the status column ('dead_letter', which the migration also
\* names, is set nowhere).
Statuses == {"none", "accepted", "forwarding", "forwarded", "failed_soft", "failed_hard"}
\* "posting": waiting for the Vault; "ok", "soft", "hard": an outcome to record.
Phases == {"idle", "posting", "ok", "soft", "hard"}
NoRequest == [key |-> NoKey, payload |-> NoPayload]

TypeOK ==
    /\ status \in [Keys -> Statuses]
    /\ payload \in [Keys -> Payloads \cup {NoPayload}]
    /\ receipt \in [Keys -> BOOLEAN]
    /\ due \in [Keys -> BOOLEAN]
    /\ vault \in [Keys -> Payloads \cup {NoPayload}]
    /\ acked \subseteq Keys
    /\ request \in [Clients -> [key : Keys \cup {NoKey}, payload : Payloads \cup {NoPayload}]]
    /\ batch \in [Workers -> SUBSET Keys]
    /\ current \in [Workers -> Keys \cup {NoKey}]
    /\ phase \in [Workers -> Phases]

Init ==
    /\ status = [k \in Keys |-> "none"]
    /\ payload = [k \in Keys |-> NoPayload]
    /\ receipt = [k \in Keys |-> FALSE]
    /\ due = [k \in Keys |-> FALSE]
    /\ vault = [k \in Keys |-> NoPayload]
    /\ acked = {}
    /\ request = [c \in Clients |-> NoRequest]
    /\ batch = [w \in Workers |-> {}]
    /\ current = [w \in Workers |-> NoKey]
    /\ phase = [w \in Workers |-> "idle"]

-----------------------------------------------------------------------------
\* POST /ingest.

\* The existence check: a row already there is acknowledged whatever its
\* status and its content; otherwise the insert is still to come.
IngestLookup(c, k, p) ==
    /\ request[c] = NoRequest
    /\ IF status[k] # "none"
       THEN acked' = acked \cup {k} /\ UNCHANGED request
       ELSE request' = [request EXCEPT ![c] = [key |-> k, payload |-> p]] /\ UNCHANGED acked
    /\ UNCHANGED <<rows, vault, workers>>

\* The insert: it commits the row and acknowledges it, or hits the UNIQUE
\* constraint because another request came first, and answers 500.
IngestInsert(c) ==
    LET k == request[c].key IN
    /\ request[c] # NoRequest
    /\ request' = [request EXCEPT ![c] = NoRequest]
    /\ IF status[k] = "none"
       THEN /\ status' = [status EXCEPT ![k] = "accepted"]
            /\ payload' = [payload EXCEPT ![k] = request[c].payload]
            /\ acked' = acked \cup {k}
       ELSE UNCHANGED <<status, payload, acked>>
    /\ UNCHANGED <<receipt, due, vault, workers>>

-----------------------------------------------------------------------------
RetryToPending(k) ==  \* mutant: a status the table does not know
    /\ status[k] \in {"failed_soft", "failed_hard"}
    /\ status' = [status EXCEPT ![k] = "pending"]
    /\ UNCHANGED <<payload, receipt, due, vault, acked, request, workers>>
RetryAny(k) ==        \* mutant: the status is not looked at
    /\ status[k] # "none"
    /\ status' = [status EXCEPT ![k] = "accepted"]
    /\ UNCHANGED <<payload, receipt, due, vault, acked, request, workers>>
\* POST /internal/outbox/retry: a failed row starts again.
Retry(k) ==
    /\ status[k] \in {"failed_soft", "failed_hard"}
    /\ status' = [status EXCEPT ![k] = "accepted"]
    /\ UNCHANGED <<payload, receipt, due, vault, acked, request, workers>>

\* next_retry_at passes.
BackoffElapses(k) ==
    /\ status[k] = "failed_soft" /\ ~due[k]
    /\ due' = [due EXCEPT ![k] = TRUE]
    /\ UNCHANGED <<status, payload, receipt, vault, acked, request, workers>>

-----------------------------------------------------------------------------
\* process_outbox_events.

\* What the worker's query returns, before its LIMIT.
Pending == {k \in Keys : status[k] = "accepted" \/ (status[k] = "failed_soft" /\ due[k])}

\* A worker reads a batch: all the pending rows, or as many as the limit lets.
Select(w, B) ==
    /\ phase[w] = "idle" /\ batch[w] = {}
    /\ B \subseteq Pending /\ B # {}
    /\ IF Cardinality(Pending) <= BatchLimit THEN B = Pending ELSE Cardinality(B) = BatchLimit
    /\ batch' = [batch EXCEPT ![w] = B]
    /\ UNCHANGED <<rows, vault, acked, request, current, phase>>

\* The loop takes the next row of its batch and marks it 'forwarding'; the
\* row's present status, which another worker may have changed since the
\* batch was read, is not looked at.
Begin(w, k) ==
    /\ phase[w] = "idle" /\ k \in batch[w]
    /\ batch' = [batch EXCEPT ![w] = @ \ {k}]
    /\ current' = [current EXCEPT ![w] = k]
    /\ phase' = [phase EXCEPT ![w] = "posting"]
    /\ status' = [status EXCEPT ![k] = "forwarding"]
    /\ UNCHANGED <<payload, receipt, due, vault, acked, request>>

\* The same when the database refuses that write, or the attempt counter's
\* write that follows it: the event is treated as a soft failure.
BeginUnwritten(w, k) ==
    /\ "write" \in Faults
    /\ phase[w] = "idle" /\ k \in batch[w]
    /\ batch' = [batch EXCEPT ![w] = @ \ {k}]
    /\ current' = [current EXCEPT ![w] = k]
    /\ phase' = [phase EXCEPT ![w] = "soft"]
    /\ \E s \in {status[k], "forwarding"} : status' = [status EXCEPT ![k] = s]
    /\ UNCHANGED <<payload, receipt, due, vault, acked, request>>

\* What a 2xx answer to the first POST leads to: a bank movement with
\* impacted documents needs a second POST, sent through a client that the
\* "async with" has already closed, which raises.
AfterFirstPost(k) == IF k \in Confirmations THEN "soft" ELSE "ok"

\* The Vault's idempotent store: the first content under a key stays.
VaultStore(k) == [vault EXCEPT ![k] = IF @ = NoPayload THEN payload[k] ELSE @]

\* The Vault stores the document and its answer is read.
PostDelivered(w) ==
    LET k == current[w] IN
    /\ phase[w] = "posting" /\ payload[k] \notin Malformed
    /\ vault' = VaultStore(k)
    /\ phase' = [phase EXCEPT ![w] = AfterFirstPost(k)]
    /\ UNCHANGED <<rows, acked, request, batch, current>>

\* The Vault stores the document and the answer is lost: timeout, broken
\* connection, or a 5xx raised after its commit.
PostAnswerLost(w) ==
    LET k == current[w] IN
    /\ "network" \in Faults
    /\ phase[w] = "posting" /\ payload[k] \notin Malformed
    /\ vault' = VaultStore(k)
    /\ phase' = [phase EXCEPT ![w] = "soft"]
    /\ UNCHANGED <<rows, acked, request, batch, current>>

\* Nothing reaches the Vault (or it fails before its commit), or the request
\* cannot even be built: every unknown error is soft.
PostUndelivered(w) ==
    /\ phase[w] = "posting"
    /\ "network" \in Faults \/ payload[current[w]] \in Malformed
    /\ phase' = [phase EXCEPT ![w] = "soft"]
    /\ UNCHANGED <<rows, vault, acked, request, batch, current>>

PostRefusedUnraised(w) ==  \* mutant: the answer's status code is not raised
    /\ "reject" \in Faults
    /\ phase[w] = "posting" /\ payload[current[w]] \notin Malformed
    /\ phase' = [phase EXCEPT ![w] = "ok"]
    /\ UNCHANGED <<rows, vault, acked, request, batch, current>>
\* The Vault answers 400, 401, 403, 404 or 422.
PostRefused(w) ==
    /\ "reject" \in Faults
    /\ phase[w] = "posting" /\ payload[current[w]] \notin Malformed
    /\ phase' = [phase EXCEPT ![w] = "hard"]
    /\ UNCHANGED <<rows, vault, acked, request, batch, current>>

-----------------------------------------------------------------------------
\* The outcome is written to the row, over whatever status it has by then.

Free(w) == /\ phase' = [phase EXCEPT ![w] = "idle"]
           /\ current' = [current EXCEPT ![w] = NoKey]

\* Whether the Vault's answer names the document it stored.
HasId(k) == k \notin Projections

\* What follows the write (the row read again, the patch of odoo_id, metrics)
\* may still raise, and a success then becomes a soft failure.
RecordForwarded(w) ==
    LET k == current[w] IN
    /\ phase[w] = "ok"
    /\ status' = [status EXCEPT ![k] = "forwarded"]
    /\ receipt' = [receipt EXCEPT ![k] = @ \/ HasId(k)]
    /\ \/ Free(w)
       \/ "after" \in Faults /\ phase' = [phase EXCEPT ![w] = "soft"] /\ UNCHANGED current
    /\ UNCHANGED <<payload, due, vault, acked, request, batch>>

RecordSoftSkipped(w) ==   \* mutant: the error is logged, the row not written
    /\ phase[w] = "soft"
    /\ Free(w)
    /\ UNCHANGED <<rows, vault, acked, request, batch>>
RecordSoftAsHard(w) ==    \* mutant: the attempts are used up
    /\ phase[w] = "soft"
    /\ status' = [status EXCEPT ![current[w]] = "failed_hard"]
    /\ Free(w)
    /\ UNCHANGED <<payload, receipt, due, vault, acked, request, batch>>

RecordSoft(w) ==
    LET k == current[w] IN
    /\ phase[w] = "soft"
    /\ status' = [status EXCEPT ![k] = "failed_soft"]
    /\ due' = [due EXCEPT ![k] = FALSE]
    /\ Free(w)
    /\ UNCHANGED <<payload, receipt, vault, acked, request, batch>>

RecordHard(w) ==
    /\ phase[w] = "hard"
    /\ status' = [status EXCEPT ![current[w]] = "failed_hard"]
    /\ Free(w)
    /\ UNCHANGED <<payload, receipt, due, vault, acked, request, batch>>

\* The write fails.  A success then falls into the error branch as a soft
\* failure; a failure escapes process_event and the loop goes on, leaving the
\* row as it is.
RecordUnwritten(w) ==
    /\ "write" \in Faults
    /\ \/ /\ phase[w] = "ok"
          /\ phase' = [phase EXCEPT ![w] = "soft"]
          /\ UNCHANGED current
       \/ phase[w] \in {"soft", "hard"} /\ Free(w)
    /\ UNCHANGED <<rows, vault, acked, request, batch>>

\* The process stops (a crash, or the cancelled task of a shutdown): the batch
\* and the outcome in memory are lost, the rows stay as they are.
Crash(w) ==
    /\ "crash" \in Faults
    /\ phase[w] # "idle" \/ batch[w] # {}
    /\ batch' = [batch EXCEPT ![w] = {}]
    /\ Free(w)
    /\ UNCHANGED <<rows, vault, acked, request>>

-----------------------------------------------------------------------------
Ingest == \E c \in Clients : IngestInsert(c) \/ \E k \in Keys, p \in Payloads : IngestLookup(c, k, p)

Post(w)   == PostDelivered(w) \/ PostAnswerLost(w) \/ PostUndelivered(w) \/ PostRefused(w)
Record(w) == RecordForwarded(w) \/ RecordSoft(w) \/ RecordHard(w) \/ RecordUnwritten(w)
Take(w)   == \E k \in Keys : Begin(w, k) \/ BeginUnwritten(w, k)

Next == \/ Ingest
        \/ \E k \in Keys : Retry(k) \/ BackoffElapses(k)
        \/ \E w \in Workers : \/ \E B \in SUBSET Keys : Select(w, B)
                              \/ Take(w) \/ Post(w) \/ Record(w) \/ Crash(w)

Spec == Init /\ [][Next]_vars

\* The scheduler's loop never stops and every HTTP call ends (it has a
\* timeout), so each worker keeps moving, an insert under way ends and backoffs
\* elapse; the Vault does not fail for ever on a row that is posted again and
\* again.  Nothing forces a new ingest or a retry by hand.
Fairness ==
    /\ \A c \in Clients : WF_vars(IngestInsert(c))
    /\ \A k \in Keys : WF_vars(BackoffElapses(k))
    /\ \A w \in Workers :
        /\ WF_vars(\E B \in SUBSET Keys : Select(w, B))
        /\ WF_vars(Take(w)) /\ WF_vars(Post(w)) /\ WF_vars(Record(w))
        /\ \A k \in Keys : SF_vars(current[w] = k /\ PostDelivered(w))

FairSpec == Spec /\ Fairness

-----------------------------------------------------------------------------
\* What reaches the Vault under a key is the content first accepted under it,
\* even when later senders submit another content under the same key, two
\* requests race to the insert, or two workers forward the row
\* (routes/ingest.py:111-148, outbox_worker.py:637-651).
StoredAsAccepted ==
    \A k \in Keys : vault[k] # NoPayload => status[k] # "none" /\ vault[k] = payload[k]

\* A row that says 'forwarded', and a receipt, always stand for a document the
\* Vault holds, whatever was lost, repeated or overwritten on the way
\* (outbox_worker.py:646-651).
ForwardedImpliesVaulted ==
    \A k \in Keys : status[k] = "forwarded" \/ receipt[k] => vault[k] # NoPayload

\* An event answered "accepted" is in the outbox (routes/ingest.py:111-148).
AckedIsRecorded == \A k \in acked : status[k] # "none" /\ payload[k] # NoPayload

\* Unless a worker dies or a write fails, a row marked 'forwarding' is in the
\* hands of a worker that will record its outcome (outbox_worker.py:637-720):
\* the query selects such a row no more.
NoOrphanForwarding ==
    \A k \in Keys : status[k] = "forwarding" => \E w \in Workers : current[w] = k

\* A forwarded row is only taken back by a worker that holds it from before, or
\* that has just written it: no selection, retry or repeated ingest does
\* (outbox_worker.py:645-720, 734-750, internal.py:323-345).
ForwardedUnlessStale ==
    [][\A k \in Keys : status[k] = "forwarded" /\ status'[k] # "forwarded" =>
           \E w \in Workers : k \in batch[w] \/ k = current[w]]_vars

\* With one worker a forwarded row is taken back by nothing but that worker's own
\* failure after the write, to be tried again, and its receipt stays: no
\* selection, no retry and no stale batch touches it (outbox_worker.py:645-701,
\* 734-750, internal.py:323-345).
ForwardedUnlessRaised ==
    [][\A k \in Keys : status[k] = "forwarded" =>
           /\ receipt'[k] = receipt[k]
           /\ \/ status'[k] = "forwarded"
              \/ /\ "after" \in Faults /\ status'[k] = "failed_soft"
                 /\ \E w \in Workers : current[w] = k /\ phase[w] = "soft"]_vars

\* The Vault's content, a row's payload and its receipt are written once
\* (routes/ingest.py:111-125, outbox_worker.py:646-651).
WrittenOnce ==
    [][\A k \in Keys : /\ vault[k] # NoPayload => vault'[k] = vault[k]
                       /\ payload[k] # NoPayload => payload'[k] = payload[k]
                       /\ receipt[k] => receipt'[k]]_vars

\* With several workers one's late failure may overwrite the other's success,
\* round after round; the receipt, which a failure leaves alone, still comes
\* for every acknowledged document (outbox_worker.py:646-720).
EventuallyReceipted ==
    \A k \in Keys \ Projections : k \in acked ~> [](receipt[k] /\ vault[k] # NoPayload)

\* DVIG keeps its promise to the ERP.
Promise == INSTANCE OutboxPromise
             WITH submitted <- payload, stored <- vault,
                  receipted <- {k \in Keys : receipt[k]}
Implements == Promise!Spec
==============================================================================
