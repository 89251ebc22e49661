--------------------------- MODULE DvigOutboxProofs ---------------------------
(***************************************************************************)
(* Theorems about DvigOutbox, for any keys, contents, clients, workers and *)
(* faults.                                                                 *)
(***************************************************************************)
EXTENDS DvigOutbox, TLAPS

\* A row has a content exactly when it exists.
RowsAreFilled == \A k \in Keys : status[k] # "none" <=> payload[k] # NoPayload

\* A request between its lookup and its insert carries a key and a content.
RequestsCarry ==
    \A c \in Clients : request[c] # NoRequest =>
        request[c].key \in Keys /\ request[c].payload \in Payloads

\* A worker is busy with one existing row, has only existing rows ahead of
\* it, and an outcome "ok" in its memory means that the Vault has the document.
WorkersHoldRows ==
    \A w \in Workers :
        /\ phase[w] # "idle" => current[w] \in Keys
        /\ phase[w] = "idle" => current[w] = NoKey
        /\ current[w] # NoKey => status[current[w]] # "none"
        /\ \A k \in batch[w] : status[k] # "none"
        /\ phase[w] = "ok" => vault[current[w]] # NoPayload

IInv == /\ TypeOK
        /\ RowsAreFilled
        /\ RequestsCarry
        /\ WorkersHoldRows
        /\ StoredAsAccepted
        /\ ForwardedImpliesVaulted
        /\ AckedIsRecorded

-----------------------------------------------------------------------------
LEMMA InitIInv == Init => IInv
<1> SUFFICES ASSUME Init PROVE IInv
    OBVIOUS
<1> USE OutboxAssumption DEF Init
<1>1. TypeOK
    BY DEF TypeOK, Statuses, Phases, NoRequest
<1>2. RowsAreFilled /\ StoredAsAccepted /\ ForwardedImpliesVaulted /\ AckedIsRecorded
    BY DEF RowsAreFilled, StoredAsAccepted, ForwardedImpliesVaulted, AckedIsRecorded
<1>3. RequestsCarry /\ WorkersHoldRows
    BY DEF RequestsCarry, WorkersHoldRows
<1> QED BY <1>1, <1>2, <1>3 DEF IInv

LEMMA LookupIInv ==
    ASSUME IInv, NEW c \in Clients, NEW k \in Keys, NEW p \in Payloads, IngestLookup(c, k, p)
    PROVE  IInv'
<1> USE OutboxAssumption DEF IInv, IngestLookup, rows, workers
<1>1. TypeOK' BY DEF TypeOK, NoRequest
<1>2. RequestsCarry' BY DEF TypeOK, RequestsCarry
<1>3. AckedIsRecorded' BY DEF TypeOK, AckedIsRecorded, RowsAreFilled
<1>4. RowsAreFilled' /\ StoredAsAccepted' /\ ForwardedImpliesVaulted' /\ WorkersHoldRows'
    BY DEF RowsAreFilled, StoredAsAccepted, ForwardedImpliesVaulted, WorkersHoldRows
<1> QED BY <1>1, <1>2, <1>3, <1>4

LEMMA InsertIInv ==
    ASSUME IInv, NEW c \in Clients, IngestInsert(c)
    PROVE  IInv'
<1> USE OutboxAssumption DEF IInv, IngestInsert, workers
<1>0. request[c].key \in Keys /\ request[c].payload \in Payloads
    BY DEF RequestsCarry
<1>1. TypeOK'
  <2>1. request' \in [Clients -> [key : Keys \cup {NoKey}, payload : Payloads \cup {NoPayload}]]
      BY DEF TypeOK, NoRequest
  <2>2. /\ status' \in [Keys -> Statuses]
        /\ payload' \in [Keys -> Payloads \cup {NoPayload}]
        /\ acked' \subseteq Keys
      BY <1>0 DEF TypeOK, Statuses
  <2> QED BY <2>1, <2>2 DEF TypeOK
<1>2. RequestsCarry' BY <1>0 DEF TypeOK, RequestsCarry
<1>3. AckedIsRecorded' BY <1>0 DEF TypeOK, AckedIsRecorded
<1>4. RowsAreFilled' BY <1>0 DEF TypeOK, RowsAreFilled
<1>5. StoredAsAccepted' BY <1>0 DEF TypeOK, StoredAsAccepted
<1>6. ForwardedImpliesVaulted' BY <1>0 DEF TypeOK, ForwardedImpliesVaulted
<1>7. WorkersHoldRows' BY <1>0 DEF TypeOK, WorkersHoldRows
<1> QED BY <1>1, <1>2, <1>3, <1>4, <1>5, <1>6, <1>7

LEMMA RetryIInv ==
    ASSUME IInv, NEW k \in Keys, Retry(k) \/ BackoffElapses(k)
    PROVE  IInv'
<1> USE OutboxAssumption DEF IInv, Retry, BackoffElapses, workers
<1>1. TypeOK'
  <2>1. CASE Retry(k) BY <2>1 DEF TypeOK, Statuses
  <2>2. CASE BackoffElapses(k) BY <2>2 DEF TypeOK
  <2> QED BY <2>1, <2>2
<1>2. RequestsCarry' BY DEF RequestsCarry
<1>3. AckedIsRecorded' /\ RowsAreFilled' BY DEF TypeOK, AckedIsRecorded, RowsAreFilled
<1>4. StoredAsAccepted' /\ ForwardedImpliesVaulted'
    BY DEF TypeOK, StoredAsAccepted, ForwardedImpliesVaulted
<1>5. WorkersHoldRows' BY DEF TypeOK, WorkersHoldRows
<1> QED BY <1>1, <1>2, <1>3, <1>4, <1>5

LEMMA SelectIInv ==
    ASSUME IInv, NEW w \in Workers, NEW B \in SUBSET Keys, Select(w, B)
    PROVE  IInv'
<1> USE OutboxAssumption DEF IInv, Select, rows
<1>1. TypeOK' BY DEF TypeOK
<1>2. WorkersHoldRows' BY DEF TypeOK, WorkersHoldRows, Pending
<1>3. RequestsCarry' /\ AckedIsRecorded' /\ RowsAreFilled' BY DEF RequestsCarry, AckedIsRecorded, RowsAreFilled
<1>4. StoredAsAccepted' /\ ForwardedImpliesVaulted' BY DEF StoredAsAccepted, ForwardedImpliesVaulted
<1> QED BY <1>1, <1>2, <1>3, <1>4

LEMMA TakeIInv ==
    ASSUME IInv, NEW w \in Workers, Take(w)
    PROVE  IInv'
<1> USE OutboxAssumption DEF IInv
<1>0. PICK k \in Keys : Begin(w, k) \/ BeginUnwritten(w, k) BY DEF Take
<1>1. PICK s \in {status[k], "forwarding"} : status' = [status EXCEPT ![k] = s]
    BY <1>0 DEF Begin, BeginUnwritten
<1>2. PICK q \in {"posting", "soft"} : phase' = [phase EXCEPT ![w] = q]
    BY <1>0 DEF Begin, BeginUnwritten
<1>3. /\ phase[w] = "idle" /\ k \in batch[w]
      /\ batch' = [batch EXCEPT ![w] = @ \ {k}]
      /\ current' = [current EXCEPT ![w] = k]
      /\ UNCHANGED <<payload, receipt, due, vault, acked, request>>
    BY <1>0 DEF Begin, BeginUnwritten
<1>4. status[k] # "none" /\ s # "none" BY <1>1, <1>3 DEF WorkersHoldRows
<1>5. TypeOK' BY <1>1, <1>2, <1>3 DEF TypeOK, Statuses, Phases
<1>6. RequestsCarry' BY <1>3 DEF RequestsCarry
<1>7. AckedIsRecorded' /\ RowsAreFilled'
    BY <1>1, <1>3, <1>4 DEF TypeOK, AckedIsRecorded, RowsAreFilled
<1>8. StoredAsAccepted' /\ ForwardedImpliesVaulted'
    BY <1>1, <1>3, <1>4 DEF TypeOK, StoredAsAccepted, ForwardedImpliesVaulted
<1>9. WorkersHoldRows' BY <1>1, <1>2, <1>3, <1>4 DEF TypeOK, WorkersHoldRows
<1> QED BY <1>5, <1>6, <1>7, <1>8, <1>9

LEMMA PostIInv ==
    ASSUME IInv, NEW w \in Workers, Post(w)
    PROVE  IInv'
<1> USE OutboxAssumption DEF IInv
<1>0. /\ phase[w] = "posting"
      /\ UNCHANGED <<status, payload, receipt, due, acked, request, batch, current>>
    BY DEF Post, PostDelivered, PostAnswerLost, PostUndelivered, PostRefused, rows
<1>1. current[w] \in Keys /\ payload[current[w]] # NoPayload
    BY <1>0, OutboxAssumption DEF WorkersHoldRows, RowsAreFilled
<1>2. PICK q \in {"ok", "soft", "hard"} : phase' = [phase EXCEPT ![w] = q]
    BY DEF Post, PostDelivered, PostAnswerLost, PostUndelivered, PostRefused, AfterFirstPost
<1>3. vault' = VaultStore(current[w]) \/ (vault' = vault /\ q # "ok")
    BY <1>2 DEF Post, PostDelivered, PostAnswerLost, PostUndelivered, PostRefused, TypeOK
<1>4. /\ \A k \in Keys : vault[k] # NoPayload => vault'[k] = vault[k]
      /\ \A k \in Keys : vault'[k] # vault[k] => k = current[w] /\ vault'[k] = payload[k]
      /\ q = "ok" => vault'[current[w]] # NoPayload
    BY <1>1, <1>3 DEF VaultStore, TypeOK
<1>5. TypeOK' BY <1>0, <1>1, <1>2, <1>3 DEF TypeOK, Phases, VaultStore
<1>6. RequestsCarry' /\ AckedIsRecorded' /\ RowsAreFilled'
    BY <1>0 DEF RequestsCarry, AckedIsRecorded, RowsAreFilled
<1>7. StoredAsAccepted' BY <1>0, <1>1, <1>4 DEF StoredAsAccepted, RowsAreFilled
<1>8. ForwardedImpliesVaulted' BY <1>0, <1>4 DEF ForwardedImpliesVaulted
<1>9. WorkersHoldRows'
    BY <1>0, <1>1, <1>2, <1>4 DEF TypeOK, WorkersHoldRows, Phases
<1> QED BY <1>5, <1>6, <1>7, <1>8, <1>9

LEMMA RecordIInv ==
    ASSUME IInv, NEW w \in Workers, Record(w)
    PROVE  IInv'
<1> USE OutboxAssumption DEF IInv
<1>0. /\ phase[w] # "idle" /\ current[w] \in Keys /\ status[current[w]] # "none"
      /\ phase[w] = "ok" => vault[current[w]] # NoPayload
    BY DEF Record, RecordForwarded, RecordSoft, RecordHard, RecordUnwritten, WorkersHoldRows
<1>1. CASE RecordForwarded(w)
  <2> USE <1>0, <1>1 DEF RecordForwarded, Free
  <2>1. TypeOK' BY DEF TypeOK, Statuses, Phases, HasId
  <2>2. RequestsCarry' /\ AckedIsRecorded' /\ RowsAreFilled'
      BY DEF TypeOK, RequestsCarry, AckedIsRecorded, RowsAreFilled
  <2>3. StoredAsAccepted' /\ ForwardedImpliesVaulted'
      BY DEF TypeOK, StoredAsAccepted, ForwardedImpliesVaulted
  <2>4. WorkersHoldRows' BY DEF TypeOK, WorkersHoldRows
  <2> QED BY <2>1, <2>2, <2>3, <2>4
<1>2. CASE RecordSoft(w) \/ RecordHard(w)
  <2> USE <1>0, <1>2 DEF RecordSoft, RecordHard, Free
  <2>1. TypeOK'
    <3>1. CASE RecordSoft(w) BY <3>1 DEF TypeOK, Statuses, Phases
    <3>2. CASE RecordHard(w) BY <3>2 DEF TypeOK, Statuses, Phases
    <3> QED BY <3>1, <3>2
  <2>2. RequestsCarry' /\ AckedIsRecorded' /\ RowsAreFilled'
      BY DEF TypeOK, RequestsCarry, AckedIsRecorded, RowsAreFilled
  <2>3. StoredAsAccepted' /\ ForwardedImpliesVaulted'
      BY DEF TypeOK, StoredAsAccepted, ForwardedImpliesVaulted
  <2>4. WorkersHoldRows' BY DEF TypeOK, WorkersHoldRows
  <2> QED BY <2>1, <2>2, <2>3, <2>4
<1>3. CASE RecordUnwritten(w)
  <2> USE <1>0, <1>3 DEF RecordUnwritten, Free, rows
  <2>1. TypeOK' BY DEF TypeOK, Phases
  <2>2. RequestsCarry' /\ AckedIsRecorded' /\ RowsAreFilled'
      BY DEF RequestsCarry, AckedIsRecorded, RowsAreFilled
  <2>3. StoredAsAccepted' /\ ForwardedImpliesVaulted'
      BY DEF StoredAsAccepted, ForwardedImpliesVaulted
  <2>4. WorkersHoldRows' BY DEF TypeOK, WorkersHoldRows
  <2> QED BY <2>1, <2>2, <2>3, <2>4
<1> QED BY <1>1, <1>2, <1>3 DEF Record

LEMMA CrashIInv ==
    ASSUME IInv, NEW w \in Workers, Crash(w)
    PROVE  IInv'
<1> USE OutboxAssumption DEF IInv, Crash, Free, rows
<1>1. TypeOK' BY DEF TypeOK, Phases
<1>2. RequestsCarry' /\ AckedIsRecorded' /\ RowsAreFilled'
    BY DEF RequestsCarry, AckedIsRecorded, RowsAreFilled
<1>3. StoredAsAccepted' /\ ForwardedImpliesVaulted'
    BY DEF StoredAsAccepted, ForwardedImpliesVaulted
<1>4. WorkersHoldRows' BY DEF TypeOK, WorkersHoldRows
<1> QED BY <1>1, <1>2, <1>3, <1>4

LEMMA StepIInv == IInv /\ [Next]_vars => IInv'
<1> SUFFICES ASSUME IInv, [Next]_vars PROVE IInv'
    OBVIOUS
<1>1. CASE Ingest BY <1>1, LookupIInv, InsertIInv DEF Ingest
<1>2. CASE \E k \in Keys : Retry(k) \/ BackoffElapses(k) BY <1>2, RetryIInv
<1>3. CASE \E w \in Workers, B \in SUBSET Keys : Select(w, B) BY <1>3, SelectIInv
<1>4. CASE \E w \in Workers : Take(w) BY <1>4, TakeIInv
<1>5. CASE \E w \in Workers : Post(w) BY <1>5, PostIInv
<1>6. CASE \E w \in Workers : Record(w) BY <1>6, RecordIInv
<1>7. CASE \E w \in Workers : Crash(w) BY <1>7, CrashIInv
<1>8. CASE UNCHANGED vars
    BY <1>8 DEF vars, rows, workers, IInv, TypeOK, RowsAreFilled, RequestsCarry, WorkersHoldRows,
                StoredAsAccepted, ForwardedImpliesVaulted, AckedIsRecorded
<1> QED BY <1>1, <1>2, <1>3, <1>4, <1>5, <1>6, <1>7, <1>8 DEF Next

\* The inductive invariant.
THEOREM Invariance == Spec => []IInv
<1> QED BY InitIInv, StepIInv, PTL DEF Spec

\* Type correctness of every reachable state.
THEOREM TypeCorrect == Spec => []TypeOK
<1>1. IInv => TypeOK BY DEF IInv
<1> QED BY <1>1, Invariance, PTL

\* Whatever the races at ingest and between workers, the Vault holds under a
\* key the content first accepted under it (routes/ingest.py, outbox_worker.py).
THEOREM StoredContentIsAccepted == Spec => []StoredAsAccepted
<1>1. IInv => StoredAsAccepted BY DEF IInv
<1> QED BY <1>1, Invariance, PTL

\* 'forwarded' and a receipt always stand for a stored document, under any
\* loss, crash and failed write (outbox_worker.py, process_event).
THEOREM ForwardedIsVaulted == Spec => []ForwardedImpliesVaulted
<1>1. IInv => ForwardedImpliesVaulted BY DEF IInv
<1> QED BY <1>1, Invariance, PTL

\* An acknowledged event is in the outbox (routes/ingest.py).
THEOREM AcknowledgedIsRecorded == Spec => []AckedIsRecorded
<1>1. IInv => AckedIsRecorded BY DEF IInv
<1> QED BY <1>1, Invariance, PTL
-----------------------------------------------------------------------------
LEMMA StepWrittenOnce ==
    ASSUME IInv, [Next]_vars, NEW k \in Keys
    PROVE  /\ vault[k] # NoPayload => vault'[k] = vault[k]
           /\ payload[k] # NoPayload => payload'[k] = payload[k]
           /\ receipt[k] => receipt'[k]
<1> USE OutboxAssumption DEF IInv, TypeOK
<1>1. CASE Ingest
  <2>1. CASE \E c \in Clients : IngestInsert(c)
        BY <2>1 DEF IngestInsert, workers, RequestsCarry, RowsAreFilled
  <2>2. CASE \E c \in Clients, h \in Keys, p \in Payloads : IngestLookup(c, h, p)
        BY <2>2 DEF IngestLookup, rows
  <2> QED BY <1>1, <2>1, <2>2 DEF Ingest
<1>2. CASE \E h \in Keys : Retry(h) \/ BackoffElapses(h)
    BY <1>2 DEF Retry, BackoffElapses
<1>3. CASE \E w \in Workers, B \in SUBSET Keys : Select(w, B)
    BY <1>3 DEF Select, rows
<1>4. CASE \E w \in Workers : Take(w)
    BY <1>4 DEF Take, Begin, BeginUnwritten
<1>5. CASE \E w \in Workers : Post(w)
    BY <1>5 DEF Post, PostDelivered, PostAnswerLost, PostUndelivered, PostRefused, VaultStore, rows
<1>6. CASE \E w \in Workers : Record(w)
    BY <1>6 DEF Record, RecordForwarded, RecordSoft, RecordHard, RecordUnwritten, rows
<1>7. CASE \E w \in Workers : Crash(w) BY <1>7 DEF Crash, rows
<1>8. CASE UNCHANGED vars BY <1>8 DEF vars, rows
<1> QED BY <1>1, <1>2, <1>3, <1>4, <1>5, <1>6, <1>7, <1>8 DEF Next

\* The Vault's content, a row's payload and its receipt are written once, by
\* whatever workers, retries and repeated submissions (routes/ingest.py,
\* outbox_worker.py).
THEOREM NothingRewritten == Spec => WrittenOnce
<1>1. IInv /\ [Next]_vars =>
        \A k \in Keys : /\ vault[k] # NoPayload => vault'[k] = vault[k]
                        /\ payload[k] # NoPayload => payload'[k] = payload[k]
                        /\ receipt[k] => receipt'[k]
    BY StepWrittenOnce
<1> QED BY <1>1, Invariance, PTL DEF Spec, WrittenOnce

-----------------------------------------------------------------------------
LEMMA StepNoOrphan ==
    ASSUME Faults \cap {"crash", "write"} = {}, IInv, NoOrphanForwarding, [Next]_vars
    PROVE  NoOrphanForwarding'
<1> USE OutboxAssumption DEF IInv, TypeOK, NoOrphanForwarding
<1>1. CASE Ingest
    BY <1>1 DEF Ingest, IngestInsert, IngestLookup, rows, workers, RequestsCarry
<1>2. CASE \E h \in Keys : Retry(h) \/ BackoffElapses(h)
    BY <1>2 DEF Retry, BackoffElapses, workers
<1>3. CASE \E w \in Workers, B \in SUBSET Keys : Select(w, B)
    BY <1>3 DEF Select, rows
<1>4. ASSUME NEW w \in Workers, NEW h \in Keys, Begin(w, h) PROVE NoOrphanForwarding'
  <2>1. current[w] = NoKey BY <1>4 DEF Begin, WorkersHoldRows
  <2> QED BY <1>4, <2>1 DEF Begin
<1>5. CASE \E w \in Workers : Post(w)
    BY <1>5 DEF Post, PostDelivered, PostAnswerLost, PostUndelivered, PostRefused, rows
<1>6. ASSUME NEW w \in Workers, Record(w) PROVE NoOrphanForwarding'
  <2>1. current[w] \in Keys
      BY <1>6 DEF Record, RecordForwarded, RecordSoft, RecordHard, RecordUnwritten, WorkersHoldRows
  <2>2. /\ status'[current[w]] # "forwarding"
        /\ \A k \in Keys \ {current[w]} : status'[k] = status[k]
        /\ \A v \in Workers \ {w} : current'[v] = current[v]
      BY <1>6, <2>1 DEF Record, RecordForwarded, RecordSoft, RecordHard, RecordUnwritten, Free
  <2> QED BY <2>1, <2>2
<1>7. ASSUME NEW w \in Workers PROVE ~Crash(w) BY DEF Crash
<1>8. CASE UNCHANGED vars BY <1>8 DEF vars, rows, workers
<1> QED BY <1>1, <1>2, <1>3, <1>4, <1>5, <1>6, <1>7, <1>8 DEF Next, Take, BeginUnwritten

\* Only a crash or a failed write can leave a row 'forwarding' with no worker
\* to record its outcome (outbox_worker.py, process_event).
THEOREM OrphansNeedAFailure ==
    ASSUME Faults \cap {"crash", "write"} = {}
    PROVE  Spec => []NoOrphanForwarding
<1>1. Init => NoOrphanForwarding BY DEF Init, NoOrphanForwarding
<1>2. IInv /\ NoOrphanForwarding /\ [Next]_vars => NoOrphanForwarding' BY StepNoOrphan
<1> QED BY <1>1, <1>2, Invariance, PTL DEF Spec

-----------------------------------------------------------------------------
LEMMA StepUnlessStale ==
    ASSUME IInv, [Next]_vars, NEW k \in Keys, status[k] = "forwarded", status'[k] # "forwarded"
    PROVE  \E w \in Workers : k \in batch[w] \/ k = current[w]
<1> USE OutboxAssumption DEF IInv, TypeOK
<1>1. CASE Ingest
    BY <1>1 DEF Ingest, IngestInsert, IngestLookup, rows, RequestsCarry
<1>2. CASE \E h \in Keys : Retry(h) \/ BackoffElapses(h)
    BY <1>2 DEF Retry, BackoffElapses
<1>3. CASE \E w \in Workers, B \in SUBSET Keys : Select(w, B)
    BY <1>3 DEF Select, rows
<1>4. CASE \E w \in Workers : Take(w) BY <1>4 DEF Take, Begin, BeginUnwritten
<1>5. CASE \E w \in Workers : Post(w)
    BY <1>5 DEF Post, PostDelivered, PostAnswerLost, PostUndelivered, PostRefused, rows
<1>6. CASE \E w \in Workers : Record(w)
    BY <1>6 DEF Record, RecordForwarded, RecordSoft, RecordHard, RecordUnwritten, rows
<1>7. CASE \E w \in Workers : Crash(w) BY <1>7 DEF Crash, rows
<1>8. CASE UNCHANGED vars BY <1>8 DEF vars, rows
<1> QED BY <1>1, <1>2, <1>3, <1>4, <1>5, <1>6, <1>7, <1>8 DEF Next

\* However many workers there are, only one that held a forwarded row from
\* before, or has just written it, takes it back (outbox_worker.py:645-720,
\* 734-750, internal.py:323-345).
THEOREM OnlyStaleTakesBack == Spec => ForwardedUnlessStale
<1>1. IInv /\ [Next]_vars =>
        \A k \in Keys : status[k] = "forwarded" /\ status'[k] # "forwarded" =>
            \E w \in Workers : k \in batch[w] \/ k = current[w]
    BY StepUnlessStale
<1> QED BY <1>1, Invariance, PTL DEF Spec, ForwardedUnlessStale

-----------------------------------------------------------------------------
\* What a worker holds is not forwarded yet, as the single worker selected it and
\* nobody else could forward it, unless it has just forwarded it and then failed.
HoldsUnforwarded ==
    \A w \in Workers :
        /\ current[w] # NoKey /\ ("after" \in Faults => phase[w] # "soft") =>
               status[current[w]] # "forwarded"
        /\ \A k \in batch[w] : status[k] # "forwarded" /\ k # current[w]

LEMMA StepHolds ==
    ASSUME \A v, w \in Workers : v = w, IInv, HoldsUnforwarded, [Next]_vars
    PROVE  HoldsUnforwarded'
<1> USE OutboxAssumption DEF IInv, TypeOK, HoldsUnforwarded
<1>1. CASE Ingest
    BY <1>1 DEF Ingest, IngestInsert, IngestLookup, rows, workers, RequestsCarry
<1>2. CASE \E h \in Keys : Retry(h) \/ BackoffElapses(h)
    BY <1>2 DEF Retry, BackoffElapses, workers
<1>3. CASE \E w \in Workers, B \in SUBSET Keys : Select(w, B)
    BY <1>3 DEF Select, rows, Pending, WorkersHoldRows
<1>4. ASSUME NEW w \in Workers, Take(w) PROVE HoldsUnforwarded'
    BY <1>4 DEF Take, Begin, BeginUnwritten
<1>5. CASE \E w \in Workers : Post(w)
    BY <1>5 DEF Post, PostDelivered, PostAnswerLost, PostUndelivered, PostRefused, rows
<1>6. ASSUME NEW w \in Workers, Record(w) PROVE HoldsUnforwarded'
  <2>1. current[w] \in Keys
      BY <1>6 DEF Record, RecordForwarded, RecordSoft, RecordHard, RecordUnwritten, WorkersHoldRows
  <2>2. batch' = batch /\ \A k \in Keys \ {current[w]} : status'[k] = status[k]
      BY <1>6, <2>1 DEF Record, RecordForwarded, RecordSoft, RecordHard, RecordUnwritten, rows
  <2>3. CASE "after" \in Faults /\ phase'[w] = "soft"
    <3>1. current'[w] = current[w]
        BY <1>6, <2>1, <2>3
           DEF Record, RecordForwarded, RecordSoft, RecordHard, RecordUnwritten, Free, rows
    <3>2. \A v \in Workers : v = w OBVIOUS
    <3> QED BY <2>1, <2>2, <2>3, <3>1, <3>2
  <2>4. CASE ~("after" \in Faults /\ phase'[w] = "soft")
    <3>1. current'[w] = NoKey \/ (current' = current /\ status' = status /\ phase[w] = "ok")
        BY <1>6, <2>1, <2>4
           DEF Record, RecordForwarded, RecordSoft, RecordHard, RecordUnwritten, Free, rows
    <3> QED BY <2>1, <2>2, <2>4, <3>1
  <2> QED BY <2>3, <2>4
<1>7. CASE \E w \in Workers : Crash(w) BY <1>7 DEF Crash, Free, rows
<1>8. CASE UNCHANGED vars BY <1>8 DEF vars, rows, workers
<1> QED BY <1>1, <1>2, <1>3, <1>4, <1>5, <1>6, <1>7, <1>8 DEF Next

\* What becomes of a forwarded row in a step.
Kept(k) == /\ receipt'[k] = receipt[k]
           /\ \/ status'[k] = "forwarded"
              \/ /\ "after" \in Faults /\ status'[k] = "failed_soft"
                 /\ \E w \in Workers : current[w] = k /\ phase[w] = "soft"

LEMMA StepKept ==
    ASSUME \A v, w \in Workers : v = w, IInv, HoldsUnforwarded, [Next]_vars,
           NEW k \in Keys, status[k] = "forwarded"
    PROVE  Kept(k)
<1> USE OutboxAssumption DEF IInv, TypeOK, HoldsUnforwarded, Kept
<1>1. CASE Ingest
    BY <1>1 DEF Ingest, IngestInsert, IngestLookup, rows, workers, RequestsCarry
<1>2. CASE \E h \in Keys : Retry(h) \/ BackoffElapses(h)
    BY <1>2 DEF Retry, BackoffElapses, workers
<1>3. CASE \E w \in Workers, B \in SUBSET Keys : Select(w, B)
    BY <1>3 DEF Select, rows
<1>4. CASE \E w \in Workers : Take(w) BY <1>4 DEF Take, Begin, BeginUnwritten
<1>5. CASE \E w \in Workers : Post(w)
    BY <1>5 DEF Post, PostDelivered, PostAnswerLost, PostUndelivered, PostRefused, rows
<1>6. ASSUME NEW w \in Workers, Record(w) PROVE Kept(k)
  <2>1. current[w] \in Keys
      BY <1>6 DEF Record, RecordForwarded, RecordSoft, RecordHard, RecordUnwritten, WorkersHoldRows
  <2>2. CASE k # current[w]
      BY <1>6, <2>1, <2>2
         DEF Record, RecordForwarded, RecordSoft, RecordHard, RecordUnwritten, rows
  <2>3. CASE k = current[w]
    <3>1. "after" \in Faults /\ phase[w] = "soft" BY <2>1, <2>3
    <3> QED BY <1>6, <2>3, <3>1
            DEF Record, RecordForwarded, RecordSoft, RecordHard, RecordUnwritten, rows
  <2> QED BY <2>2, <2>3
<1>7. CASE \E w \in Workers : Crash(w) BY <1>7 DEF Crash, rows
<1>8. CASE UNCHANGED vars BY <1>8 DEF vars, rows
<1> QED BY <1>1, <1>2, <1>3, <1>4, <1>5, <1>6, <1>7, <1>8 DEF Next

\* With a single worker, 'forwarded' is only taken back by that worker's own
\* failure after it wrote it, and the receipt never: where nothing fails after
\* the write it is final.  With two workers a stale batch takes it back
\* (outbox_worker.py:645-701, 734-750, internal.py:323-345).
THEOREM SingleWorkerKeeps ==
    ASSUME \A v, w \in Workers : v = w
    PROVE  Spec => ForwardedUnlessRaised
<1>1. Init => HoldsUnforwarded BY OutboxAssumption DEF Init, HoldsUnforwarded
<1>2. IInv /\ HoldsUnforwarded /\ [Next]_vars => HoldsUnforwarded' BY StepHolds
<1>3. IInv /\ HoldsUnforwarded /\ [Next]_vars =>
        \A k \in Keys : status[k] = "forwarded" => Kept(k)
    BY StepKept
<1>4. IInv /\ HoldsUnforwarded /\ [Next]_vars =>
        \A k \in Keys : status[k] = "forwarded" =>
            /\ receipt'[k] = receipt[k]
            /\ \/ status'[k] = "forwarded"
               \/ /\ "after" \in Faults /\ status'[k] = "failed_soft"
                  /\ \E w \in Workers : current[w] = k /\ phase[w] = "soft"
    BY <1>3 DEF Kept
<1> QED BY <1>1, <1>2, <1>4, Invariance, PTL DEF Spec, ForwardedUnlessRaised

-----------------------------------------------------------------------------
\* Each step of the outbox is a step of OutboxPromise, or leaves what it
\* speaks of alone.
LEMMA StepPromise ==
    ASSUME IInv, [Next]_vars
    PROVE  [Promise!Next]_(Promise!vars)
<1> USE OutboxAssumption DEF IInv, TypeOK, Promise!vars, Promise!Next
<1>1. ASSUME NEW c \in Clients, IngestInsert(c) PROVE [Promise!Next]_(Promise!vars)
  <2>1. request[c].key \in Keys /\ request[c].payload \in Payloads
      BY <1>1 DEF IngestInsert, RequestsCarry
  <2>2. CASE status[request[c].key] = "none"
    <3>1. Promise!Submit(request[c].key, request[c].payload)
        BY <1>1, <2>1, <2>2 DEF IngestInsert, Promise!Submit, RowsAreFilled
    <3> QED BY <2>1, <3>1
  <2>3. CASE status[request[c].key] # "none"
      BY <1>1, <2>3 DEF IngestInsert
  <2> QED BY <2>2, <2>3
<1>2. ASSUME NEW c \in Clients, NEW k \in Keys, NEW p \in Payloads, IngestLookup(c, k, p)
      PROVE  [Promise!Next]_(Promise!vars)
    BY <1>2 DEF IngestLookup, Promise!Acknowledge, RowsAreFilled, rows
<1>3. CASE \E k \in Keys : Retry(k) \/ BackoffElapses(k)
    BY <1>3 DEF Retry, BackoffElapses
<1>4. CASE \E w \in Workers, B \in SUBSET Keys : Select(w, B)
    BY <1>4 DEF Select, rows
<1>5. CASE \E w \in Workers : Take(w) BY <1>5 DEF Take, Begin, BeginUnwritten
<1>6. ASSUME NEW w \in Workers, Post(w) PROVE [Promise!Next]_(Promise!vars)
  <2>1. /\ current[w] \in Keys /\ payload[current[w]] # NoPayload
        /\ UNCHANGED <<payload, acked, receipt>>
      BY <1>6 DEF Post, PostDelivered, PostAnswerLost, PostUndelivered, PostRefused, rows,
                  WorkersHoldRows, RowsAreFilled
  <2>2. CASE vault' = VaultStore(current[w]) /\ vault[current[w]] = NoPayload
    <3>1. Promise!Store(current[w]) BY <2>1, <2>2 DEF Promise!Store, VaultStore
    <3> QED BY <2>1, <3>1
  <2>3. CASE vault' = VaultStore(current[w]) /\ vault[current[w]] # NoPayload
      BY <2>1, <2>3 DEF VaultStore
  <2>4. CASE vault' = vault BY <2>1, <2>4
  <2> QED BY <1>6, <2>2, <2>3, <2>4 DEF Post, PostDelivered, PostAnswerLost, PostUndelivered, PostRefused
<1>7. ASSUME NEW w \in Workers, RecordForwarded(w) PROVE [Promise!Next]_(Promise!vars)
  <2>1. current[w] \in Keys /\ vault[current[w]] # NoPayload
      BY <1>7 DEF RecordForwarded, WorkersHoldRows
  <2>2. CASE receipt'[current[w]]
    <3>1. {k \in Keys : receipt'[k]} = {k \in Keys : receipt[k]} \cup {current[w]}
        BY <1>7, <2>1, <2>2 DEF RecordForwarded
    <3>2. payload' = payload /\ vault' = vault /\ acked' = acked BY <1>7 DEF RecordForwarded
    <3> QED BY <2>1, <3>1, <3>2 DEF Promise!Receipt
  <2>3. CASE ~receipt'[current[w]]
    <3>1. {k \in Keys : receipt'[k]} = {k \in Keys : receipt[k]}
        BY <1>7, <2>1, <2>3 DEF RecordForwarded
    <3> QED BY <1>7, <3>1 DEF RecordForwarded
  <2> QED BY <2>2, <2>3
<1>8. CASE \E w \in Workers : RecordSoft(w) \/ RecordHard(w) \/ RecordUnwritten(w) \/ Crash(w)
    BY <1>8 DEF RecordSoft, RecordHard, RecordUnwritten, Crash, rows
<1>9. CASE UNCHANGED vars BY <1>9 DEF vars, rows
<1> QED BY <1>1, <1>2, <1>3, <1>4, <1>5, <1>6, <1>7, <1>8, <1>9 DEF Next, Ingest, Record

\* The outbox implements the promise made to the ERP.
THEOREM OutboxImplementsPromise == Spec => Implements
<1>1. Init => Promise!Init BY OutboxAssumption DEF Init, Promise!Init
<1>2. IInv /\ [Next]_vars => [Promise!Next]_(Promise!vars) BY StepPromise
<1> QED BY <1>1, <1>2, Invariance, PTL DEF Spec, Implements, Promise!Spec
==============================================================================
