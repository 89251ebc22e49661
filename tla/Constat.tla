-------------------------------- MODULE Constat --------------------------------
(***************************************************************************)
(* The monthly constat of a tenant: the Vault generates it, once per       *)
(* (tenant, period), signs it into the ledger, and transmits it to Odoo    *)
(* CORE, which records it, attaches a contract and may invoice it.         *)
(*                                                                         *)
(* Generation and transmission run in several processes at once: the       *)
(* monthly job (which generates and transmits), POST /constats/generate    *)
(* and POST /constats/.../retransmit.  Each holds the constat it read or   *)
(* built in memory while it posts, up to MaxTries times, and then writes   *)
(* the outcome over the row.  Ids are random: a new one is assumed unused. *)
(***************************************************************************)
EXTENDS Naturals, FiniteSets

CONSTANTS
    Pairs,     \* (tenant, period)
    Ids,       \* constat_id values
    Runners,   \* concurrent jobs and requests
    MaxTries,  \* maxRetries of TransmitConstat
    Faults,    \* what may go wrong
    None

Statuses   == {"pending", "transmitted", "failed"}
CoreStates == {"draft", "validated", "validated_with_warning", "invoiced"}
Row      == [id : Ids, status : Statuses]
Received == [id : Ids, state : CoreStates]

ASSUME ConstatAssumption ==
    /\ None \notin Pairs \cup Ids \cup Row \cup Received
    /\ MaxTries \in Nat \ {0}
    /\ Faults \subseteq {"network", "core", "refused", "crash"}

VARIABLES
    constat,  \* the Vault's table constats
    ledger,   \* ids signed into the ledger
    core,     \* Odoo CORE's table dorevia_constat
    runner    \* what each process is doing and holds in memory

vars == <<constat, ledger, core, runner>>

Steps    == {"idle", "build", "insert", "start", "post", "ok", "failed"}
Idle     == [step |-> "idle", pair |-> None, id |-> None, status |-> "pending", tries |-> 0, send |-> FALSE]

TypeOK ==
    /\ constat \in [Pairs -> Row \cup {None}]
    /\ ledger \subseteq Ids
    /\ core \in [Pairs -> Received \cup {None}]
    /\ runner \in [Runners -> [step : Steps, pair : Pairs \cup {None}, id : Ids \cup {None},
                               status : Statuses, tries : 0..MaxTries, send : BOOLEAN]]

Init == /\ constat = [p \in Pairs |-> None]
        /\ ledger = {}
        /\ core = [p \in Pairs |-> None]
        /\ runner = [r \in Runners |-> Idle]

-----------------------------------------------------------------------------
\* The process holds a constat in memory, and goes on to transmit it or stops.
Hold(r, p, row, send) ==
    runner' = [runner EXCEPT ![r] =
        IF send THEN [Idle EXCEPT !.step = "start", !.pair = p, !.id = row.id, !.status = row.status]
                ELSE Idle]

GoTo(r, step) == runner' = [runner EXCEPT ![r].step = step]

\* GenerateConstat, for the job (which then transmits) or the endpoint: an
\* existing constat is taken as it is.
Generate(r, p, send) ==
    /\ runner[r] = Idle
    /\ IF constat[p] # None
       THEN Hold(r, p, constat[p], send)
       ELSE runner' = [runner EXCEPT ![r] = [Idle EXCEPT !.step = "build", !.pair = p, !.send = send]]
    /\ UNCHANGED <<constat, ledger, core>>

Used == ledger \cup {runner[r].id : r \in Runners}

\* The new constat is signed and its ledger entry committed, before its row.
Build(r) ==
    /\ runner[r].step = "build"
    /\ \E id \in Ids \ Used :
        /\ ledger' = ledger \cup {id}
        /\ runner' = [runner EXCEPT ![r].step = "insert", ![r].id = id]
    /\ UNCHANGED <<constat, core>>

InsertUpsert(r) ==  \* mutant: ON CONFLICT (tenant, period) DO UPDATE
    LET p == runner[r].pair
        row == [id |-> runner[r].id, status |-> "pending"] IN
    /\ runner[r].step = "insert"
    /\ constat' = [constat EXCEPT ![p] = row]
    /\ Hold(r, p, row, runner[r].send)
    /\ UNCHANGED <<ledger, core>>
InsertOwn(r) ==     \* mutant: the loser of the race keeps what it built
    LET p == runner[r].pair
        row == [id |-> runner[r].id, status |-> "pending"] IN
    /\ runner[r].step = "insert"
    /\ constat' = [constat EXCEPT ![p] = IF @ = None THEN row ELSE @]
    /\ Hold(r, p, row, runner[r].send)
    /\ UNCHANGED <<ledger, core>>
\* insertConstat: the row is stored, or UNIQUE (tenant, period) refuses it and
\* the other process's constat is taken instead.
Insert(r) ==
    LET p == runner[r].pair
        row == [id |-> runner[r].id, status |-> "pending"] IN
    /\ runner[r].step = "insert"
    /\ constat' = [constat EXCEPT ![p] = IF @ = None THEN row ELSE @]
    /\ Hold(r, p, constat'[p], runner[r].send)
    /\ UNCHANGED <<ledger, core>>

\* POST /constats/:tenant/:period/retransmit.
Retransmit(r, p) ==
    /\ runner[r] = Idle /\ constat[p] # None
    /\ Hold(r, p, constat[p], TRUE)
    /\ UNCHANGED <<constat, ledger, core>>

-----------------------------------------------------------------------------
\* TransmitConstat.

\* Nothing is sent when the constat in memory says 'transmitted'.
Start(r) ==
    /\ runner[r].step = "start"
    /\ IF runner[r].status = "transmitted"
       THEN runner' = [runner EXCEPT ![r] = Idle]
       ELSE GoTo(r, "post")
    /\ UNCHANGED <<constat, ledger, core>>

RetryForever(r) ==  \* mutant: attempts are counted anew after the last one
    runner' = [runner EXCEPT ![r].tries = IF @ + 1 < MaxTries THEN @ + 1 ELSE 0]
RetryOneMore(r) ==  \* mutant: attempt <= maxRetries
    runner' = [runner EXCEPT ![r].tries = @ + 1,
                             ![r].step = IF runner[r].tries < MaxTries THEN "post" ELSE "failed"]
\* A temporary error: another try, or the last one has failed.
Retry(r) ==
    runner' = [runner EXCEPT ![r].tries = @ + 1,
                             ![r].step = IF runner[r].tries + 1 < MaxTries THEN "post" ELSE "failed"]

\* receive_constat, for a constat_id CORE does not know: it creates the row
\* and attaches a contract, checks the signature, invoices if it can; the
\* request's transaction commits even when a step after the creation raises.
Create(r, state) ==
    LET p == runner[r].pair IN
    /\ core[p] = None
    /\ core' = [core EXCEPT ![p] = [id |-> runner[r].id, state |-> state]]

Posting(r) == runner[r].step = "post"
Reaches(r) == Posting(r) /\ UNCHANGED <<constat, ledger>>

\* 201.
PostReceived(r) ==
    /\ Reaches(r)
    /\ \E state \in {"validated", "validated_with_warning", "invoiced"} : Create(r, state)
    /\ GoTo(r, "ok")

\* The answer is lost on the way, or 500 hides a row that was committed.
PostReceivedUnseen(r) ==
    /\ Reaches(r)
    /\ \/ "network" \in Faults /\ \E state \in CoreStates \ {"draft"} : Create(r, state)
       \/ "core" \in Faults /\ Create(r, "draft")
    /\ Retry(r)

\* 409: CORE holds this id already; every other 4xx than 429 is permanent.
PostDuplicate(r) ==
    /\ Reaches(r) /\ core[runner[r].pair] # None
    /\ core[runner[r].pair].id = runner[r].id
    /\ GoTo(r, "failed")
    /\ UNCHANGED core

\* CORE has another id for the pair: its UNIQUE (tenant_id, period) answers 500.
Conflicts(r) == core[runner[r].pair] # None /\ core[runner[r].pair].id # runner[r].id

\* A conflict; or no connection, 429, or a 500 before anything was kept.
PostUndelivered(r) ==
    /\ "network" \notin Faults => Conflicts(r)
    /\ Reaches(r)
    /\ Retry(r)
    /\ UNCHANGED core

PostRefusedAsOk(r) ==  \* mutant: only 5xx and 429 are taken for errors
    /\ "refused" \in Faults
    /\ Reaches(r)
    /\ GoTo(r, "ok")
    /\ UNCHANGED core
\* 400, 401, 403, or 422 (an unknown tenant): permanent.
PostRefused(r) ==
    /\ "refused" \in Faults
    /\ Reaches(r)
    /\ GoTo(r, "failed")
    /\ UNCHANGED core

\* updateTransmissionStatus, over whatever status the row has by then.
Settle(r, status) ==
    /\ constat' = [constat EXCEPT ![runner[r].pair].status = status]
    /\ runner' = [runner EXCEPT ![r] = Idle]
    /\ UNCHANGED <<ledger, core>>

RecordTransmitted(r) == runner[r].step = "ok" /\ Settle(r, "transmitted")
RecordFailed(r)      == runner[r].step = "failed" /\ Settle(r, "failed")

\* The process stops, its database call fails, or the job's 30 minutes end.
Stop(r) ==
    /\ "crash" \in Faults
    /\ runner[r] # Idle
    /\ runner' = [runner EXCEPT ![r] = Idle]
    /\ UNCHANGED <<constat, ledger, core>>

\* action_generate_invoice, from CORE's form.
Invoice(p) ==
    /\ core[p] # None
    /\ core[p].state \in {"validated", "validated_with_warning"}
    /\ core' = [core EXCEPT ![p].state = "invoiced"]
    /\ UNCHANGED <<constat, ledger, runner>>

Post(r) == \/ PostReceived(r) \/ PostReceivedUnseen(r) \/ PostDuplicate(r)
           \/ PostUndelivered(r) \/ PostRefused(r)

Work(r) == \/ Build(r) \/ Insert(r) \/ Start(r) \/ Post(r)
           \/ RecordTransmitted(r) \/ RecordFailed(r)

Next == \/ \E r \in Runners, p \in Pairs : Retransmit(r, p) \/ \E send \in BOOLEAN : Generate(r, p, send)
        \/ \E r \in Runners : Work(r) \/ Stop(r)
        \/ \E p \in Pairs : Invoice(p)

Spec == Init /\ [][Next]_vars

\* A process that runs goes on: its calls have timeouts and its waits end.
FairSpec == Spec /\ \A r \in Runners : WF_vars(Work(r))

-----------------------------------------------------------------------------
\* CORE bills the constat the Vault keeps for the pair, even when two
\* generations race and only one row survives (constat.go:315-329, 587-606).
ReceivedIsGenerated ==
    \A p \in Pairs : core[p] # None => constat[p] # None /\ core[p].id = constat[p].id

\* 'transmitted' is only said of a constat CORE holds, whatever answers were
\* lost (constat.go:637-660).
TransmittedIsReceived ==
    \A p \in Pairs : constat[p] # None /\ constat[p].status = "transmitted" => core[p] # None

\* A constat that can be transmitted has its ledger entry (constat.go:290-312).
ConstatIsInLedger == \A p \in Pairs : constat[p] # None => constat[p].id \in ledger

\* Once generated, the constat of a pair never changes (constat.go:190-201).
ConstatIsFrozen ==
    [][\A p \in Pairs : constat[p] # None => constat'[p] # None /\ constat'[p].id = constat[p].id]_vars

\* With a single process 'transmitted' is final (constat.go:576, 763-789); with
\* two it is not.
TransmittedIsFinal ==
    [][\A p \in Pairs : constat[p] # None /\ constat[p].status = "transmitted" =>
                            constat'[p] # None /\ constat'[p].status = "transmitted"]_vars

\* The ids a table holds.
IdsIn(table) == [p \in Pairs |-> IF table[p] = None THEN None ELSE table[p].id]

Promise == INSTANCE ConstatPromise WITH
    kept     <- IdsIn(constat),
    billed   <- IdsIn(core),
    invoiced <- {p \in Pairs : core[p] # None /\ core[p].state = "invoiced"},
    told     <- {p \in Pairs : constat[p] # None /\ constat[p].status = "transmitted"}

\* The Vault and CORE keep their promise: one constat per pair, another one
\* for each pair, billed as it is kept, invoiced once, and said to be
\* transmitted when it is (constat.go:190-204, 315-329, 587-660).
Implements == Promise!Spec

\* A transmission that has begun ends, whatever CORE answers and however often
\* the answer is lost: the process is free again (constat.go:601-697).
TransmissionEnds == \A r \in Runners : Posting(r) ~> runner[r] = Idle
==============================================================================
