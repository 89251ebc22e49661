---------------------------- MODULE OdooVaultProofs ----------------------------
(***************************************************************************)
(* Proofs about OdooVault, for any invoices, transactions, attempts and    *)
(* faults.  A transaction believes of an invoice what was true when it     *)
(* read it and DVIG never takes back, and the isolation of the database    *)
(* lets it write only over what nobody has changed since (Isolated).       *)
(***************************************************************************)
EXTENDS OdooVault, TLAPS

TxRecord == [kind : Kinds, rest : SUBSET Moves, view : [Moves -> Fields],
             wrote : SUBSET Moves, changed : SUBSET Moves, spawn : SUBSET Jobs]

UsersTyped == posted \subseteq Moves

DvigTyped ==
    /\ submitted \in [Moves -> {Payload, NoPayload}] /\ stored \in [Moves -> {Payload, NoPayload}]
    /\ acked \subseteq Moves /\ sealed \subseteq Moves /\ given_up \subseteq Moves

\* What the fields of an invoice say is true of DVIG and the Vault, and a key is
\* never lost.
Honest(f, m) == /\ f.status = "pending_proof" => m \in acked
                /\ f.status = "vaulted" => stored[m] # NoPayload /\ m \in sealed
                /\ f.keyed => move[m].keyed

Views == \A t \in Txns, m \in Moves : Honest(tx[t].view[m], m)

\* An invoice that is in a transaction's hands and that nobody has changed since it
\* was read is vaulted, or has a key, only if the transaction knows it.
Isolated ==
    \A t \in Txns : \A m \in (tx[t].rest \cup tx[t].wrote) \ tx[t].changed :
        /\ move[m].status = "vaulted" => tx[t].view[m].status = "vaulted"
        /\ move[m].keyed => tx[t].view[m].keyed

\* Evidence is kept with a document, a document comes from an event, and an event
\* is sent for an invoice that has a key.
Rooted ==
    \A m \in Moves : /\ m \in sealed => stored[m] # NoPayload
                     /\ stored[m] # NoPayload => submitted[m] # NoPayload
                     /\ submitted[m] # NoPayload => move[m].keyed

IInv == TypeOK /\ PendingIsIngested /\ VaultedIsProven /\ Views /\ Isolated /\ Rooted

\* DVIG and the Vault take nothing back, and are sent only what has a key.
DvigGrows ==
    /\ DvigTyped' /\ acked \subseteq acked' /\ sealed \subseteq sealed'
    /\ \A m \in Moves : /\ stored[m] # NoPayload => stored'[m] # NoPayload
                        /\ m \in sealed' => stored'[m] # NoPayload
                        /\ stored'[m] # NoPayload => submitted'[m] # NoPayload
                        /\ submitted'[m] # NoPayload => move[m].keyed

KeysGrow == \A m \in Moves : move[m].keyed => move'[m].keyed

LEMMA Typed ==
  TypeOK <=> /\ move \in [Moves -> Fields] /\ jobs \subseteq Jobs /\ tx \in [Txns -> TxRecord]
             /\ UsersTyped /\ DvigTyped
  BY DEF TypeOK, TxRecord, UsersTyped, DvigTyped

LEMMA DvigRests == ASSUME IInv, UNCHANGED dvig PROVE DvigGrows
  BY DEF IInv, Rooted, TypeOK, dvig, DvigGrows, DvigTyped

LEMMA DvigIngests ==
  ASSUME IInv, NEW m \in Moves, Ingest(m), move[m].keyed
  PROVE  DvigGrows /\ m \in acked'
  <1>1. CASE Dvig!Submit(m, Payload)
    BY <1>1 DEF Ingest, Dvig!Submit, IInv, Rooted, TypeOK, DvigGrows, DvigTyped
  <1>2. CASE Dvig!Acknowledge(m)
    BY <1>2 DEF Ingest, Dvig!Acknowledge, IInv, Rooted, TypeOK, DvigGrows, DvigTyped
  <1> QED BY <1>1, <1>2 DEF Ingest

LEMMA HonestStays ==
  ASSUME DvigGrows, KeysGrow, NEW m \in Moves, NEW f, Honest(f, m)
  PROVE  /\ f.status = "pending_proof" => m \in acked'
         /\ f.status = "vaulted" => stored'[m] # NoPayload /\ m \in sealed'
         /\ f.keyed => move'[m].keyed
  BY DEF Honest, DvigGrows, KeysGrow

LEMMA KeysRest == ASSUME UNCHANGED move PROVE KeysGrow
  BY DEF KeysGrow

\* Attempts and thresholds never make a protected invoice, nor undo one.
LEMMA Counted ==
  ASSUME NEW f \in Fields
  PROVE  /\ Tried(f) \in Fields /\ Tried(f).status = f.status /\ Tried(f).keyed = f.keyed
         /\ Abandon(f) \in Fields /\ Abandon(f).keyed = f.keyed
         /\ \/ Abandon(f).status = f.status
            \/ Abandon(f).status = "failed_hard" /\ f.status # "vaulted"
  <1>1. f.attempts \in 0..MaxAttempts /\ (f.attempts < MaxAttempts => f.attempts + 1 \in 0..MaxAttempts)
    BY OdooAssumption DEF Fields
  <1>2. Tried(f) \in Fields /\ Tried(f).status = f.status /\ Tried(f).keyed = f.keyed
    BY <1>1 DEF Tried, Fields
  <1>3. Abandon(f) \in Fields /\ Abandon(f).keyed = f.keyed
    BY DEF Abandon, Fields, VaultStatuses
  <1>4. \/ Abandon(f).status = f.status
        \/ Abandon(f).status = "failed_hard" /\ f.status # "vaulted"
    BY DEF Abandon, Fields
  <1> QED BY <1>2, <1>3, <1>4

LEMMA NewMoveIsHonest ==
  NewMove \in Fields /\ NewMove.status = "none" /\ ~NewMove.keyed
  BY OdooAssumption DEF NewMove, Fields, VaultStatuses

LEMMA NoTxIsEmpty ==
  /\ NoTx \in TxRecord /\ NoTx.rest = {} /\ NoTx.wrote = {}
  /\ \A m \in Moves : NoTx.view[m] = NewMove
  BY NewMoveIsHonest DEF NoTx, TxRecord, Kinds

-----------------------------------------------------------------------------
\* One transaction moves on, and nothing is committed.
LEMMA TxMoves ==
  ASSUME IInv, NEW t \in Txns, NEW r \in TxRecord, tx' = [tx EXCEPT ![t] = r],
         UNCHANGED <<move, posted>>, jobs' \subseteq Jobs, DvigGrows,
         \A m \in Moves : /\ r.view[m].status = "pending_proof" => m \in acked'
                          /\ r.view[m].status = "vaulted" => stored'[m] # NoPayload /\ m \in sealed'
                          /\ r.view[m].keyed => move[m].keyed,
         \A m \in (r.rest \cup r.wrote) \ r.changed :
             /\ move[m].status = "vaulted" => r.view[m].status = "vaulted"
             /\ move[m].keyed => r.view[m].keyed
  PROVE  IInv'
  <1>1. tx \in [Txns -> TxRecord] /\ move \in [Moves -> Fields] /\ UsersTyped
    BY Typed DEF IInv
  <1>2. /\ \A u \in Txns : tx'[u] = IF u = t THEN r ELSE tx[u]
        /\ tx' \in [Txns -> TxRecord]
    BY <1>1
  <1>3. TypeOK'
    BY <1>1, <1>2, Typed DEF DvigGrows, TypeOK, TxRecord, UsersTyped, DvigTyped
  <1>4. PendingIsIngested' /\ VaultedIsProven' /\ Rooted'
    BY DEF IInv, PendingIsIngested, VaultedIsProven, DvigGrows, Rooted
  <1>5. Views'
    <2> SUFFICES ASSUME NEW u \in Txns, NEW m \in Moves PROVE Honest(tx[u].view[m], m)'
      BY DEF Views
    <2>1. CASE u = t
      BY <1>2, <2>1 DEF Honest
    <2>2. CASE u # t
      <3>1. Honest(tx[u].view[m], m) /\ tx'[u] = tx[u]
        BY <1>2, <2>2 DEF IInv, Views
      <3> QED BY <3>1, KeysRest, HonestStays DEF Honest
    <2> QED BY <2>1, <2>2
  <1>6. Isolated'
    BY <1>2 DEF IInv, Isolated
  <1> QED BY <1>3, <1>4, <1>5, <1>6 DEF IInv

\* A transaction is undone.
LEMMA AbortKeeps ==
  ASSUME IInv, NEW t \in Txns, Abort(t), DvigGrows PROVE IInv'
  BY NoTxIsEmpty, NewMoveIsHonest, TxMoves DEF Abort, IInv, TypeOK

\* A transaction writes an invoice.
LEMMA WriteKeeps ==
  ASSUME IInv, NEW t \in Txns, NEW m \in tx[t].rest, NEW f \in Fields, NEW done \in BOOLEAN,
         Write(t, m, f, done), DvigGrows,
         f.status = "pending_proof" => m \in acked',
         f.status = "vaulted" => stored'[m] # NoPayload /\ m \in sealed',
         f.keyed = tx[t].view[m].keyed,
         m \notin tx[t].changed /\ move[m].status = "vaulted" => f.status = "vaulted"
  PROVE  IInv'
  <1> DEFINE r == [tx[t] EXCEPT !.view[m] = f, !.wrote = @ \cup {m},
                                !.rest = IF done THEN @ \ {m} ELSE @]
  <1>1. tx[t] \in TxRecord /\ m \in Moves
    BY Typed DEF IInv, TxRecord
  <1>2. /\ r \in TxRecord /\ r.wrote = tx[t].wrote \cup {m} /\ r.changed = tx[t].changed
        /\ r.rest \subseteq tx[t].rest /\ r.view = [tx[t].view EXCEPT ![m] = f]
    BY <1>1 DEF TxRecord
  <1>3. tx' = [tx EXCEPT ![t] = r] /\ UNCHANGED <<move, jobs, posted>>
    BY DEF Write
  <1>4. \A n \in Moves : r.view[n] = IF n = m THEN f ELSE tx[t].view[n]
    BY <1>1, <1>2 DEF TxRecord
  <1>5. \A n \in Moves : /\ r.view[n].status = "pending_proof" => n \in acked'
                         /\ r.view[n].status = "vaulted" => stored'[n] # NoPayload /\ n \in sealed'
                         /\ r.view[n].keyed => move[n].keyed
    <2> TAKE n \in Moves
    <2>1. CASE n = m
      BY <1>1, <1>4, <2>1 DEF IInv, Views, Honest
    <2>2. CASE n # m
      BY <1>3, <1>4, <2>2, KeysRest, HonestStays DEF IInv, Views
    <2> QED BY <2>1, <2>2
  <1>6. \A n \in (r.rest \cup r.wrote) \ r.changed :
            /\ move[n].status = "vaulted" => r.view[n].status = "vaulted"
            /\ move[n].keyed => r.view[n].keyed
    BY <1>1, <1>2, <1>4 DEF IInv, Isolated, TxRecord
  <1> QED BY <1>2, <1>3, <1>5, <1>6, TxMoves DEF IInv, TypeOK

-----------------------------------------------------------------------------
\* Transactions begin, with the invoices as they are.

LEMMA BeginKeeps ==
  ASSUME IInv, NEW t \in Txns, NEW kind \in Kinds, NEW ms \in SUBSET Moves, Begin(t, kind, ms),
         jobs' \subseteq Jobs
  PROVE  IInv'
  <1> DEFINE view == [m \in Moves |-> IF m \in ms THEN move[m] ELSE NewMove]
             r == [NoTx EXCEPT !.kind = kind, !.rest = ms, !.view = view]
  <1>1. tx' = [tx EXCEPT ![t] = r] /\ UNCHANGED <<move, posted, dvig>>
    BY DEF Begin
  <1>2. view \in [Moves -> Fields]
    BY NewMoveIsHonest DEF IInv, TypeOK
  <1>3. r \in TxRecord /\ r.rest = ms /\ r.wrote = {} /\ r.view = view
    BY <1>2, NoTxIsEmpty DEF NoTx, TxRecord
  <1>4. DvigGrows
    BY <1>1, DvigRests DEF IInv
  <1>5. \A m \in Moves : /\ r.view[m].status = "pending_proof" => m \in acked'
                         /\ r.view[m].status = "vaulted" => stored'[m] # NoPayload /\ m \in sealed'
                         /\ r.view[m].keyed => move[m].keyed
    BY <1>3, <1>4, NewMoveIsHonest DEF IInv, PendingIsIngested, VaultedIsProven, DvigGrows
  <1>6. \A m \in (r.rest \cup r.wrote) \ r.changed :
            /\ move[m].status = "vaulted" => r.view[m].status = "vaulted"
            /\ move[m].keyed => r.view[m].keyed
    BY <1>3
  <1> QED BY <1>1, <1>3, <1>4, <1>5, <1>6, TxMoves

LEMMA BeginsKeep ==
  ASSUME IInv, NEW t \in Txns,
         BeginSend(t) \/ BeginFetch(t) \/ BeginJob(t) \/ BeginSecure(t)
  PROVE  IInv'
  <1>1. jobs \subseteq Jobs /\ {"send", "fetch", "secure"} \subseteq Kinds
        /\ \A statuses : InStatus(statuses) \subseteq Moves
    BY DEF IInv, TypeOK, Kinds, InStatus
  <1>2. CASE BeginSend(t)
    <2>1. PICK retried \in SUBSET InStatus({"failed_soft"}) :
              BeginCron(t, "send", posted \cap (InStatus({"todo"}) \cup retried))
      BY <1>2 DEF BeginSend
    <2>2. posted \cap (InStatus({"todo"}) \cup retried) \in SUBSET Moves
      BY <1>1
    <2> QED BY <1>1, <2>1, <2>2, BeginKeeps DEF BeginCron
  <1>3. CASE BeginFetch(t)
    BY <1>1, <1>3, BeginKeeps DEF BeginFetch, BeginCron
  <1>4. CASE BeginJob(t)
    <2>1. PICK j \in jobs : Begin(t, j[1], {j[2]}) /\ jobs' = jobs \ {j}
      BY <1>4 DEF BeginJob
    <2>2. j[1] \in Kinds /\ {j[2]} \in SUBSET Moves
      BY <1>1 DEF Jobs, Kinds
    <2> QED BY <1>1, <2>1, <2>2, BeginKeeps
  <1>5. CASE BeginSecure(t)
    <2>1. PICK m \in InStatus({"todo", "pending_proof", "failed_soft"}) :
              Begin(t, "secure", {m}) /\ UNCHANGED jobs
      BY <1>5 DEF BeginSecure
    <2>2. {m} \in SUBSET Moves
      BY <1>1
    <2> QED BY <1>1, <2>1, <2>2, BeginKeeps
  <1> QED BY <1>2, <1>3, <1>4, <1>5

-----------------------------------------------------------------------------
\* The calls of a transaction.

\* What a transaction has read of an invoice it is to send.
LEMMA Reads ==
  ASSUME IInv, NEW t \in Txns, NEW m \in tx[t].rest
  PROVE  /\ m \in Moves /\ tx[t].view[m] \in Fields /\ Honest(tx[t].view[m], m)
         /\ tx[t].view[m].keyed => move[m].keyed
         /\ m \notin tx[t].changed /\ move[m].status = "vaulted" => tx[t].view[m].status = "vaulted"
  <1>1. tx[t] \in TxRecord
    BY Typed DEF IInv
  <1> QED BY <1>1 DEF IInv, Views, Isolated, TxRecord, Honest

LEMMA SendOkKeeps ==
  ASSUME IInv, NEW t \in Txns, NEW m \in Moves, SendOk(t, m) PROVE IInv'
  <1> DEFINE g == Tried(tx[t].view[m])
             f == [g EXCEPT !.status = "pending_proof"]
  <1>1. m \in tx[t].rest /\ tx[t].view[m].status # "vaulted" /\ tx[t].view[m].keyed
        /\ Write(t, m, f, tx[t].kind = "send")
    BY DEF SendOk, SendReady, Unsent
  <1>2. DvigGrows /\ m \in acked'
    BY <1>1, Reads, DvigIngests DEF SendOk
  <1>3. g \in Fields /\ g.keyed = tx[t].view[m].keyed
    BY <1>1, Reads, Counted
  <1>4. f \in Fields /\ f.status = "pending_proof" /\ f.keyed = tx[t].view[m].keyed
    BY <1>3 DEF Fields, VaultStatuses
  <1> QED BY <1>1, <1>2, <1>4, Reads, WriteKeeps

LEMMA SendFailsKeeps ==
  ASSUME IInv, NEW t \in Txns, NEW m \in Moves, SendFails(t, m) PROVE IInv'
  <1>1. DvigGrows
    <2>1. m \in tx[t].rest /\ (UNCHANGED dvig \/ (Ingest(m) /\ tx[t].view[m].keyed))
      BY DEF SendFails, SendReady
    <2> QED BY <2>1, Reads, DvigIngests, DvigRests
  <1>2. CASE tx[t].kind = "send"
    <2> DEFINE g == Tried(tx[t].view[m])
               h == [g EXCEPT !.status = "failed_soft"]
               f == Abandon(h)
    <2>1. m \in tx[t].rest /\ tx[t].view[m].status # "vaulted" /\ Write(t, m, f, TRUE)
      BY <1>2 DEF SendFails, SendReady, Unsent
    <2>2. g \in Fields /\ g.keyed = tx[t].view[m].keyed
      BY <2>1, Reads, Counted
    <2>3. h \in Fields /\ h.status = "failed_soft" /\ h.keyed = g.keyed
      BY <2>2 DEF Fields, VaultStatuses
    <2>4. f \in Fields /\ f.status \in {"failed_soft", "failed_hard"} /\ f.keyed = h.keyed
      BY <2>3, Counted
    <2> QED BY <1>1, <2>1, <2>2, <2>3, <2>4, Reads, WriteKeeps
  <1>3. CASE Abort(t)
    BY <1>1, <1>3, AbortKeeps
  <1> QED BY <1>2, <1>3 DEF SendFails

LEMMA FetchFoundKeeps ==
  ASSUME IInv, NEW t \in Txns, NEW m \in Moves, FetchFound(t, m) PROVE IInv'
  <1> DEFINE f == [tx[t].view[m] EXCEPT !.status = "vaulted"]
  <1>1. m \in tx[t].rest /\ m \in sealed /\ Write(t, m, f, TRUE) /\ UNCHANGED dvig
    BY DEF FetchFound, FetchReady
  <1>2. DvigGrows /\ stored'[m] # NoPayload /\ m \in sealed'
    BY <1>1, DvigRests DEF IInv, Rooted, dvig
  <1>3. f \in Fields /\ f.status = "vaulted" /\ f.keyed = tx[t].view[m].keyed
    BY <1>1, Reads DEF Fields, VaultStatuses
  <1> QED BY <1>1, <1>2, <1>3, WriteKeeps

LEMMA FetchMissingKeeps ==
  ASSUME IInv, NEW t \in Txns, NEW m \in Moves, FetchMissing(t, m) PROVE IInv'
  <1>1. m \in tx[t].rest /\ UNCHANGED dvig /\ DvigGrows /\ tx[t] \in TxRecord
    BY DvigRests, Typed DEF IInv, FetchMissing, FetchReady
  <1>2. CASE Write(t, m, Tried(tx[t].view[m]), TRUE)
    <2>1. Tried(tx[t].view[m]) \in Fields /\ Tried(tx[t].view[m]).status = tx[t].view[m].status
          /\ Tried(tx[t].view[m]).keyed = tx[t].view[m].keyed
      BY <1>1, Reads, Counted
    <2>2. KeysGrow
      BY <1>2, KeysRest DEF Write
    <2> QED BY <1>1, <1>2, <2>1, <2>2, Reads, HonestStays, WriteKeeps
  <1>3. ASSUME NEW again \in SUBSET Jobs, Leave(t, m, again) PROVE IInv'
    <2> DEFINE left == IF m \in tx[t].wrote THEN tx[t].view[m] ELSE NewMove
               r == [tx[t] EXCEPT !.rest = @ \ {m}, !.spawn = again, !.view[m] = left]
    <2>1. /\ r \in TxRecord /\ r.rest = tx[t].rest \ {m} /\ r.wrote = tx[t].wrote
          /\ r.changed = tx[t].changed
          /\ \A n \in Moves : r.view[n] = IF n = m THEN left ELSE tx[t].view[n]
      BY <1>1, NewMoveIsHonest DEF TxRecord
    <2>2. tx' = [tx EXCEPT ![t] = r]
      BY <1>3 DEF Leave
    <2> HIDE DEF r
    <2>3. \A n \in Moves : /\ r.view[n].status = "pending_proof" => n \in acked'
                           /\ r.view[n].status = "vaulted" => stored'[n] # NoPayload /\ n \in sealed'
                           /\ r.view[n].keyed => move[n].keyed
      <3> SUFFICES ASSUME NEW n \in Moves
                   PROVE  /\ r.view[n].status = "pending_proof" => n \in acked'
                          /\ r.view[n].status = "vaulted" => stored'[n] # NoPayload /\ n \in sealed'
                          /\ r.view[n].keyed => move[n].keyed
        OBVIOUS
      <3>1. r.view[n] = tx[t].view[n] \/ r.view[n] = NewMove
        BY <2>1
      <3>2. Honest(tx[t].view[n], n) /\ KeysGrow /\ UNCHANGED move
        BY <1>3, KeysRest DEF IInv, Views, Leave
      <3>3. CASE r.view[n] = tx[t].view[n]
        BY <1>1, <3>2, <3>3, HonestStays
      <3>4. CASE r.view[n] = NewMove
        BY <3>4, NewMoveIsHonest
      <3> QED BY <3>1, <3>3, <3>4
    <2>4. \A n \in (r.rest \cup r.wrote) \ r.changed :
              /\ move[n].status = "vaulted" => r.view[n].status = "vaulted"
              /\ move[n].keyed => r.view[n].keyed
      <3> SUFFICES ASSUME NEW n \in (r.rest \cup r.wrote) \ r.changed
                   PROVE  /\ move[n].status = "vaulted" => r.view[n].status = "vaulted"
                          /\ move[n].keyed => r.view[n].keyed
        OBVIOUS
      <3>1. n \in Moves /\ n \in (tx[t].rest \cup tx[t].wrote) \ tx[t].changed /\ r.view[n] = tx[t].view[n]
        BY <1>1, <2>1 DEF TxRecord
      <3> QED BY <3>1 DEF IInv, Isolated
    <2>5. jobs' \subseteq Jobs /\ UNCHANGED <<move, posted>>
      BY <1>3 DEF IInv, TypeOK, Leave
    <2> QED BY <1>1, <2>1, <2>2, <2>3, <2>4, <2>5, TxMoves
  <1>4. {<<"job_fetch", m>>} \in SUBSET Jobs /\ {} \in SUBSET Jobs
    BY DEF Jobs
  <1> QED BY <1>2, <1>3, <1>4 DEF FetchMissing

LEMMA FetchFailsKeeps ==
  ASSUME IInv, NEW t \in Txns, NEW m \in Moves, FetchFails(t, m) PROVE IInv'
  <1>1. m \in tx[t].rest /\ DvigGrows
    BY DvigRests DEF IInv, FetchFails, FetchReady
  <1>2. CASE tx[t].kind = "fetch"
    <2> DEFINE g == Tried(tx[t].view[m])
               f == Abandon(g)
    <2>1. Write(t, m, f, TRUE)
      BY <1>2 DEF FetchFails
    <2>2. g \in Fields /\ g.status = tx[t].view[m].status /\ g.keyed = tx[t].view[m].keyed
      BY <1>1, Reads, Counted
    <2>3. /\ f \in Fields /\ f.keyed = g.keyed
          /\ f.status = g.status \/ (f.status = "failed_hard" /\ g.status # "vaulted")
      BY <2>2, Counted
    <2>4. KeysGrow
      BY <2>1, KeysRest DEF Write
    <2> QED BY <1>1, <2>1, <2>2, <2>3, <2>4, Reads, HonestStays, WriteKeeps
  <1>3. CASE Abort(t)
    BY <1>1, <1>3, AbortKeeps
  <1> QED BY <1>2, <1>3 DEF FetchFails

-----------------------------------------------------------------------------
\* Invoices are written.

LEMMA Touched ==
  ASSUME IInv, NEW others \in SUBSET Txns, NEW ms \in SUBSET Moves
  PROVE  /\ Touch(others, ms) \in [Txns -> TxRecord]
         /\ \A u \in Txns : /\ Touch(others, ms)[u].view = tx[u].view
                            /\ Touch(others, ms)[u].rest = tx[u].rest
                            /\ Touch(others, ms)[u].wrote = tx[u].wrote
                            /\ tx[u].changed \subseteq Touch(others, ms)[u].changed
         /\ \A u \in others : ms \cap (tx[u].rest \cup tx[u].wrote) \subseteq Touch(others, ms)[u].changed
  <1>1. tx \in [Txns -> TxRecord]
    BY Typed DEF IInv
  <1>2. ASSUME NEW u \in Txns
        PROVE  LET c == [tx[u] EXCEPT !.changed = @ \cup (ms \cap (tx[u].rest \cup tx[u].wrote))] IN
               /\ c \in TxRecord /\ c.view = tx[u].view /\ c.rest = tx[u].rest /\ c.wrote = tx[u].wrote
               /\ c.changed = tx[u].changed \cup (ms \cap (tx[u].rest \cup tx[u].wrote))
    BY <1>1 DEF TxRecord
  <1> QED BY <1>1, <1>2 DEF Touch

\* What a transaction believed of an invoice holds wherever nobody wrote it.
LEMMA CommitKeeps == ASSUME IInv, NEW t \in Txns, Commit(t) PROVE IInv'
  <1> DEFINE ms == tx[t].wrote
  <1>1. /\ tx \in [Txns -> TxRecord] /\ move \in [Moves -> Fields] /\ jobs \subseteq Jobs
        /\ ms \subseteq Moves /\ UNCHANGED <<posted, dvig>> /\ DvigGrows /\ tx[t].spawn \subseteq Jobs
        /\ UsersTyped
    BY DvigRests, Typed DEF IInv, Commit, TxRecord
  <1>2. CASE /\ ms \cap tx[t].changed = {}
             /\ move' = [m \in Moves |-> IF m \in ms THEN tx[t].view[m] ELSE move[m]]
             /\ jobs' = jobs \cup tx[t].spawn
             /\ tx' = [Touch(Txns \ {t}, ms) EXCEPT ![t] = NoTx]
    <2>1. /\ tx' \in [Txns -> TxRecord] /\ tx'[t] = NoTx
          /\ \A u \in Txns \ {t} : /\ tx'[u].view = tx[u].view /\ tx'[u].rest = tx[u].rest
                                   /\ tx'[u].wrote = tx[u].wrote /\ tx[u].changed \subseteq tx'[u].changed
                                   /\ ms \cap (tx[u].rest \cup tx[u].wrote) \subseteq tx'[u].changed
      <3>1. ms \in SUBSET Moves /\ Txns \ {t} \in SUBSET Txns
        BY <1>1
      <3> DEFINE T == Touch(Txns \ {t}, ms)
      <3>2. /\ T \in [Txns -> TxRecord]
            /\ \A u \in Txns : /\ T[u].view = tx[u].view /\ T[u].rest = tx[u].rest
                               /\ T[u].wrote = tx[u].wrote /\ tx[u].changed \subseteq T[u].changed
            /\ \A u \in Txns \ {t} : ms \cap (tx[u].rest \cup tx[u].wrote) \subseteq T[u].changed
        BY <3>1, Touched
      <3>3. tx' = [T EXCEPT ![t] = NoTx]
        BY <1>2
      <3> HIDE DEF T
      <3> QED BY <3>2, <3>3, NoTxIsEmpty
    <2>2. move' \in [Moves -> Fields]
      BY <1>1, <1>2 DEF TxRecord
    <2>0. KeysGrow
      BY <1>1, <1>2 DEF KeysGrow, IInv, Isolated
    <2>3. TypeOK'
      BY <1>1, <1>2, <2>1, <2>2, Typed DEF DvigGrows, TypeOK, TxRecord, UsersTyped, DvigTyped
    <2>4. PendingIsIngested' /\ VaultedIsProven' /\ Rooted'
      BY <1>1, <1>2, <2>0
      DEF IInv, PendingIsIngested, VaultedIsProven, Views, Honest, DvigGrows, Rooted, KeysGrow
    <2>5. Views'
      <3> SUFFICES ASSUME NEW u \in Txns, NEW m \in Moves PROVE Honest(tx[u].view[m], m)'
        BY DEF Views
      <3>1. CASE u = t
        BY <2>1, <3>1, NoTxIsEmpty, NewMoveIsHonest DEF Honest
      <3>2. CASE u # t
        BY <1>1, <2>0, <2>1, <3>2, HonestStays DEF IInv, Views, Honest
      <3> QED BY <3>1, <3>2
    <2>6. Isolated'
      <3> SUFFICES ASSUME NEW u \in Txns, NEW m \in (tx'[u].rest \cup tx'[u].wrote) \ tx'[u].changed
                   PROVE  /\ move'[m].status = "vaulted" => tx'[u].view[m].status = "vaulted"
                          /\ move'[m].keyed => tx'[u].view[m].keyed
        BY DEF Isolated
      <3>1. u # t
        BY <2>1, NoTxIsEmpty
      <3>2. m \in Moves
        BY <2>1 DEF TxRecord
      <3>3. m \notin ms /\ move'[m] = move[m] /\ m \in (tx[u].rest \cup tx[u].wrote) \ tx[u].changed
        BY <1>2, <2>1, <3>1, <3>2
      <3> QED BY <2>1, <3>1, <3>3 DEF IInv, Isolated
    <2> QED BY <2>3, <2>4, <2>5, <2>6 DEF IInv
  <1>3. CASE tx' = [tx EXCEPT ![t] = NoTx] /\ UNCHANGED move /\ jobs' = jobs \cup (({tx[t].kind} \X ms) \cap Jobs)
    <2>1. jobs' \subseteq Jobs
      BY <1>1, <1>3
    <2> QED BY <1>1, <1>3, <2>1, NoTxIsEmpty, NewMoveIsHonest, TxMoves
  <1> QED BY <1>2, <1>3 DEF Commit

\* Invoices are written at once, by a cron or a user: the transactions that hold
\* them find them changed.
LEMMA MovesWritten ==
  ASSUME IInv, NEW ms \in SUBSET Moves, tx' = Touch(Txns, ms), move' \in [Moves -> Fields],
         \A m \in Moves \ ms : move'[m] = move[m],
         \A m \in ms : /\ move'[m].status \in {move[m].status, "todo", "failed_soft"}
                       /\ move[m].keyed => move'[m].keyed,
         jobs' \subseteq Jobs, UsersTyped', UNCHANGED dvig
  PROVE  IInv'
  <1>1. /\ tx' \in [Txns -> TxRecord]
        /\ \A u \in Txns : /\ tx'[u].view = tx[u].view /\ tx'[u].rest = tx[u].rest
                           /\ tx'[u].wrote = tx[u].wrote /\ tx[u].changed \subseteq tx'[u].changed
                           /\ ms \cap (tx[u].rest \cup tx[u].wrote) \subseteq tx'[u].changed
    <2>1. Txns \in SUBSET Txns
      OBVIOUS
    <2> QED BY <2>1, Touched
  <1>2. DvigGrows /\ KeysGrow
    BY DvigRests DEF KeysGrow
  <1>3. TypeOK'
    BY <1>1, <1>2, Typed DEF DvigGrows, TypeOK, TxRecord, DvigTyped, UsersTyped
  <1>4. PendingIsIngested' /\ VaultedIsProven' /\ Rooted'
    BY <1>2 DEF IInv, PendingIsIngested, VaultedIsProven, DvigGrows, KeysGrow, Rooted
  <1>5. Views'
    BY <1>1, <1>2, HonestStays DEF IInv, Views, Honest
  <1>6. Isolated'
    <2> SUFFICES ASSUME NEW u \in Txns, NEW m \in (tx'[u].rest \cup tx'[u].wrote) \ tx'[u].changed
                 PROVE  /\ move'[m].status = "vaulted" => tx'[u].view[m].status = "vaulted"
                        /\ move'[m].keyed => tx'[u].view[m].keyed
      BY DEF Isolated
    <2>1. m \in Moves \ ms /\ m \in (tx[u].rest \cup tx[u].wrote) \ tx[u].changed
      BY <1>1 DEF TxRecord
    <2> QED BY <1>1, <2>1 DEF IInv, Isolated
  <1> QED BY <1>3, <1>4, <1>5, <1>6 DEF IInv

LEMMA ResetFailedHardKeeps == ASSUME IInv, ResetFailedHard PROVE IInv'
  <1> DEFINE ms == posted \cap InStatus({"failed_hard"})
             started(m) == [move[m] EXCEPT !.status = "todo", !.attempts = 0]
  <1>1. /\ move \in [Moves -> Fields] /\ UNCHANGED <<jobs, posted, dvig>>
        /\ tx' = Touch(Txns, ms) /\ ms \in SUBSET Moves /\ jobs \subseteq Jobs /\ UsersTyped
        /\ move' = [m \in Moves |-> IF m \in ms THEN started(m) ELSE move[m]]
    BY Typed DEF IInv, TypeOK, ResetFailedHard, InStatus
  <1>2. \A m \in Moves : /\ started(m) \in Fields /\ started(m).status = "todo"
                         /\ started(m).keyed = move[m].keyed
    <2>1. 0 \in 0..MaxAttempts
      BY OdooAssumption
    <2>2. \A f \in Fields : LET g == [f EXCEPT !.status = "todo", !.attempts = 0] IN
                            g \in Fields /\ g.status = "todo" /\ g.keyed = f.keyed
      BY <2>1 DEF Fields, VaultStatuses
    <2> QED BY <1>1, <2>2
  <1>3. move' \in [Moves -> Fields]
    BY <1>1, <1>2
  <1>4. /\ \A m \in Moves \ ms : move'[m] = move[m]
        /\ \A m \in ms : /\ move'[m].status \in {move[m].status, "todo", "failed_soft"}
                         /\ move[m].keyed => move'[m].keyed
    BY <1>1, <1>2
  <1>5. UsersTyped'
    BY <1>1 DEF UsersTyped
  <1> QED BY <1>1, <1>3, <1>4, <1>5, MovesWritten

LEMMA PostMoveKeeps == ASSUME IInv, NEW m \in Moves, PostMove(m) PROVE IInv'
  <1> DEFINE first == [status |-> "todo", attempts |-> 0, keyed |-> TRUE]
             failed == [status |-> "failed_soft", attempts |-> 0, keyed |-> TRUE]
             unkeyed == [move[m] EXCEPT !.status = "failed_soft"]
  <1>1. /\ move \in [Moves -> Fields] /\ UsersTyped /\ jobs \subseteq Jobs /\ UNCHANGED dvig
        /\ tx' = Touch(Txns, {m}) /\ {m} \in SUBSET Moves
    BY Typed DEF IInv, PostMove
  <1>2. /\ first \in Fields /\ first.status = "todo" /\ first.keyed
        /\ failed \in Fields /\ failed.status = "failed_soft" /\ failed.keyed
        /\ unkeyed \in Fields /\ unkeyed.status = "failed_soft" /\ unkeyed.keyed = move[m].keyed
    <2>1. move[m] \in Fields /\ 0 \in 0..MaxAttempts
      BY <1>1, OdooAssumption
    <2> QED BY <2>1 DEF Fields, VaultStatuses
  <1>3. /\ jobs' \subseteq Jobs
        /\ \/ UNCHANGED move
           \/ \E f \in {first, failed, unkeyed} : move' = [move EXCEPT ![m] = f]
    BY <1>1 DEF PostMove, Initialise, Jobs
  <1>4. /\ move' \in [Moves -> Fields]
        /\ \A n \in Moves \ {m} : move'[n] = move[n]
        /\ move'[m].status \in {move[m].status, "todo", "failed_soft"}
        /\ move[m].keyed => move'[m].keyed
    <2> HIDE DEF first, failed, unkeyed
    <2>1. ASSUME NEW f \in {first, failed, unkeyed}
          PROVE  f \in Fields /\ f.status \in {"todo", "failed_soft"} /\ (move[m].keyed => f.keyed)
      BY <1>2, <2>1
    <2>2. ASSUME NEW f \in {first, failed, unkeyed}, move' = [move EXCEPT ![m] = f]
          PROVE  /\ move' \in [Moves -> Fields] /\ move'[m] = f
                 /\ \A n \in Moves \ {m} : move'[n] = move[n]
      BY <1>1, <2>1, <2>2
    <2> QED BY <1>1, <1>3, <2>1, <2>2
  <1>5. UsersTyped'
    BY <1>1 DEF UsersTyped, PostMove
  <1> QED BY <1>1, <1>3, <1>4, <1>5, MovesWritten

LEMMA ResetDraftKeeps == ASSUME IInv, NEW m \in Moves, ResetDraft(m) PROVE IInv'
  <1>1. /\ move' \in [Moves -> Fields] /\ UNCHANGED <<move, jobs, dvig>> /\ jobs' \subseteq Jobs
        /\ tx' = Touch(Txns, {m}) /\ {m} \in SUBSET Moves
    BY Typed DEF IInv, ResetDraft
  <1>2. UsersTyped'
    BY Typed DEF IInv, UsersTyped, ResetDraft
  <1> QED BY <1>1, <1>2, MovesWritten

\* Nothing changes in Odoo but the jobs that wait.
LEMMA OdooRests ==
  ASSUME IInv, UNCHANGED <<move, tx, posted>>, jobs' \subseteq Jobs, DvigGrows PROVE IInv'
  <1>1. TypeOK'
    BY Typed DEF IInv, TypeOK, DvigGrows, DvigTyped
  <1>2. PendingIsIngested' /\ VaultedIsProven' /\ Isolated' /\ Rooted'
    BY DEF IInv, PendingIsIngested, VaultedIsProven, Isolated, DvigGrows, Rooted
  <1>3. Views'
    BY KeysRest, HonestStays DEF IInv, Views, Honest
  <1> QED BY <1>1, <1>2, <1>3 DEF IInv

LEMMA ReconcileKeeps == ASSUME IInv, Reconcile PROVE IInv'
  <1>1. PICK late \in SUBSET Moves : jobs' = jobs \cup ({"job_fetch"} \X late)
    BY DEF Reconcile, InStatus
  <1>2. jobs' \subseteq Jobs
    BY <1>1 DEF IInv, TypeOK, Jobs
  <1> QED BY <1>2, DvigRests, OdooRests DEF IInv, Reconcile

LEMMA DvigKeeps ==
  ASSUME IInv, NEW m \in Moves, DvigStores(m) \/ DvigGivesUp(m) PROVE IInv'
  <1>1. UNCHANGED <<move, tx, jobs, posted>> /\ jobs' \subseteq Jobs
    BY DEF IInv, TypeOK, DvigStores, DvigGivesUp, odoo
  <1>2. CASE DvigStores(m)
    <2>1. DvigGrows
      BY <1>2 DEF IInv, Rooted, TypeOK, DvigStores, Dvig!Store, DvigGrows, DvigTyped
    <2> QED BY <1>1, <2>1, OdooRests
  <1>3. CASE DvigGivesUp(m)
    <2>1. DvigGrows
      BY <1>3 DEF IInv, Rooted, TypeOK, DvigGivesUp, DvigGrows, DvigTyped
    <2> QED BY <1>1, <2>1, OdooRests
  <1> QED BY <1>2, <1>3

-----------------------------------------------------------------------------
LEMMA InitKeeps == Init => IInv
  <1> SUFFICES ASSUME Init PROVE IInv
    OBVIOUS
  <1>1. DvigTyped /\ UsersTyped /\ move \in [Moves -> Fields] /\ tx \in [Txns -> TxRecord] /\ jobs \subseteq Jobs
    BY NewMoveIsHonest, NoTxIsEmpty, OdooAssumption DEF Init, Dvig!Init, DvigTyped, UsersTyped
  <1>2. TypeOK
    BY <1>1, Typed
  <1> QED
    BY <1>2, NewMoveIsHonest, NoTxIsEmpty
    DEF Init, Dvig!Init, IInv, PendingIsIngested, VaultedIsProven, Views, Honest, Isolated, Rooted

LEMMA StepKeeps == IInv /\ [Next]_vars => IInv'
  <1> SUFFICES ASSUME IInv, [Next]_vars PROVE IInv'
    OBVIOUS
  <1>1. CASE UNCHANGED vars
    BY <1>1, DvigRests, OdooRests DEF vars, odoo, IInv, TypeOK
  <1>2. ASSUME NEW t \in Txns, Work(t) PROVE IInv'
    <2>1. ASSUME NEW m \in Moves, JobSkips(t, m) PROVE IInv'
      BY <2>1, AbortKeeps, DvigRests DEF JobSkips, IInv
    <2> QED
      BY <1>2, <2>1, CommitKeeps, SendOkKeeps, SendFailsKeeps, FetchFoundKeeps, FetchMissingKeeps,
         FetchFailsKeeps DEF Work
  <1>3. ASSUME NEW t \in Txns, OdooCrash(t) PROVE IInv'
    BY <1>3, AbortKeeps, DvigRests DEF OdooCrash, IInv
  <1> QED
    BY <1>1, <1>2, <1>3, PostMoveKeeps, ResetDraftKeeps, DvigKeeps, ReconcileKeeps, ResetFailedHardKeeps, BeginsKeep
    DEF Next

LEMMA Inductive == Spec => []IInv
  BY InitKeeps, StepKeeps, PTL DEF Spec

\* Invoices, jobs, transactions and what DVIG and the Vault hold keep their types
\* (account_move.py).
THEOREM TypeCorrect == Spec => []TypeOK
  <1>1. IInv => TypeOK
    BY DEF IInv
  <1> QED BY <1>1, Inductive, PTL

\* However many transactions run, conflict, or are undone after their calls, an
\* invoice is committed as waiting for its proof only when DVIG has acknowledged its
\* event (account_move.py:289-311).
THEOREM PendingWasIngested == Spec => []PendingIsIngested
  <1>1. IInv => PendingIsIngested
    BY DEF IInv
  <1> QED BY <1>1, Inductive, PTL

\* An invoice shown as protected has its document in the Vault with its evidence:
\* neither a 404, nor the 'pending' answer for a document kept without evidence, nor a
\* lost answer is taken for a proof (account_move.py:431-462).
THEOREM VaultedWasProven == Spec => []VaultedIsProven
  <1>1. IInv => VaultedIsProven
    BY DEF IInv
  <1> QED BY <1>1, Inductive, PTL

\* No transaction, whatever it read before, takes the protection of an invoice away:
\* the isolation of the database refuses its commit, and posting again an invoice that
\* was set to draft finds its key, which DVIG was sent (account_move.py:147-513).
THEOREM ProtectionStays == Spec => VaultedIsFinal
  <1>1. IInv /\ [Next]_vars =>
            [\A m \in Moves : move[m].status = "vaulted" => move'[m].status = "vaulted"]_vars
    <2> SUFFICES ASSUME IInv, Next, NEW m \in Moves, move[m].status = "vaulted"
                 PROVE  move'[m].status = "vaulted"
      BY DEF vars
    <2>1. CASE UNCHANGED move
      BY <2>1
    <2>2. ASSUME NEW t \in Txns, Commit(t), ~UNCHANGED move PROVE move'[m].status = "vaulted"
      <3>1. /\ move' = [n \in Moves |-> IF n \in tx[t].wrote THEN tx[t].view[n] ELSE move[n]]
            /\ tx[t].wrote \cap tx[t].changed = {}
        BY <2>2 DEF Commit
      <3>2. m \in tx[t].wrote => tx[t].view[m].status = "vaulted"
        BY <3>1 DEF IInv, Isolated
      <3> QED BY <3>1, <3>2
    <2>3. CASE ResetFailedHard
      BY <2>3 DEF ResetFailedHard, InStatus
    <2>4. ASSUME NEW n \in Moves, PostMove(n) PROVE move'[m].status = "vaulted"
      <3>1. move[m].keyed
        BY DEF IInv, VaultedIsProven, Rooted
      <3> QED BY <2>4, <3>1 DEF PostMove, Initialise, IInv, TypeOK
    <2>10. ASSUME NEW n \in Moves, ResetDraft(n) PROVE UNCHANGED move
      BY <2>10 DEF ResetDraft
    <2>5. ASSUME NEW t \in Txns, BeginSend(t) \/ BeginFetch(t) \/ BeginJob(t) \/ BeginSecure(t)
          PROVE  UNCHANGED move
      BY <2>5 DEF BeginSend, BeginFetch, BeginCron, BeginJob, BeginSecure, Begin
    <2>6. ASSUME NEW t \in Txns, NEW n \in Moves,
                 SendOk(t, n) \/ SendFails(t, n) \/ JobSkips(t, n)
                 \/ FetchFound(t, n) \/ FetchMissing(t, n) \/ FetchFails(t, n)
          PROVE  UNCHANGED move
      BY <2>6 DEF SendOk, SendFails, Write, Leave, Abort, JobSkips, FetchFound, FetchMissing, FetchFails
    <2>7. ASSUME NEW t \in Txns, OdooCrash(t) PROVE UNCHANGED move
      BY <2>7 DEF OdooCrash, Abort
    <2>8. ASSUME NEW n \in Moves, DvigStores(n) \/ DvigGivesUp(n) PROVE UNCHANGED move
      BY <2>8 DEF DvigStores, DvigGivesUp, odoo
    <2>9. CASE Reconcile
      BY <2>1, <2>9 DEF Reconcile
    <2> QED BY <2>1, <2>2, <2>3, <2>4, <2>5, <2>6, <2>7, <2>8, <2>9, <2>10 DEF Next, Work
  <1> QED BY <1>1, Inductive, PTL DEF Spec, VaultedIsFinal

-----------------------------------------------------------------------------
\* Every step of the connector and of what stands behind it is a step of DVIG's promise
\* or none: what is proved here holds over any outbox that keeps that promise, as
\* DvigOutbox does (account_move.py:268-462).
THEOREM ConnectorUsesPromise == Spec => WithinPromise
  <1>1. Init => Dvig!Init
    BY DEF Init
  <1>2. [Next]_vars => [Dvig!Next]_Dvig!vars
    <2> SUFFICES ASSUME Next PROVE Dvig!Next \/ UNCHANGED <<submitted, acked, stored>>
      BY DEF Dvig!vars, vars, dvig
    <2>1. ASSUME NEW m \in Moves, Ingest(m) PROVE Dvig!Next
      BY <2>1 DEF Ingest, Dvig!Next
    <2>2. ASSUME NEW m \in Moves, DvigStores(m) PROVE Dvig!Next
      BY <2>2 DEF DvigStores, Dvig!Next
    <2>3. ASSUME NEW m \in Moves, DvigGivesUp(m) PROVE UNCHANGED <<submitted, acked, stored>>
      BY <2>3 DEF DvigGivesUp
    <2>4. ASSUME NEW t \in Txns, Work(t) PROVE UNCHANGED dvig \/ \E m \in Moves : Ingest(m)
      BY <2>4 DEF Work, Commit, SendOk, SendFails, JobSkips, FetchFound, FetchMissing, FetchFails
    <2>5. ASSUME NEW t \in Txns,
                 BeginSend(t) \/ BeginFetch(t) \/ BeginJob(t) \/ BeginSecure(t) \/ OdooCrash(t)
          PROVE  UNCHANGED dvig
      BY <2>5 DEF BeginSend, BeginFetch, BeginCron, BeginJob, BeginSecure, Begin, OdooCrash
    <2>6. CASE Reconcile \/ ResetFailedHard \/ \E m \in Moves : PostMove(m) \/ ResetDraft(m)
      BY <2>6 DEF Reconcile, ResetFailedHard, PostMove, ResetDraft, dvig
    <2> QED BY <2>1, <2>2, <2>3, <2>4, <2>5, <2>6 DEF Next, dvig
  <1> QED BY <1>1, <1>2, PTL DEF Spec, WithinPromise, Dvig!Spec
==============================================================================
