------------------------------ MODULE ConstatProofs ------------------------------
(***************************************************************************)
(* Proofs about Constat, for any periods, ids, processes, tries and        *)
(* faults.  What makes the safety properties inductive is that a process   *)
(* that transmits holds the id the Vault keeps for the pair (Holds): it    *)
(* took an existing row, stored its own, or took the one that won.         *)
(***************************************************************************)
EXTENDS Constat, TLAPS

Sending == {"start", "post", "ok", "failed"}

Working == \A r \in Runners : runner[r].step # "idle" => runner[r].pair \in Pairs

Holds ==
    \A r \in Runners : runner[r].step \in Sending =>
        constat[runner[r].pair] # None /\ runner[r].id = constat[runner[r].pair].id

Signed == \A r \in Runners : runner[r].step = "insert" => runner[r].id \in ledger

Heard == \A r \in Runners : runner[r].step = "ok" => core[runner[r].pair] # None

Trying == \A r \in Runners : runner[r].step \in {"start", "post"} => runner[r].tries < MaxTries

IInv == /\ TypeOK /\ Working /\ Holds /\ Signed /\ Heard /\ Trying
        /\ ReceivedIsGenerated /\ TransmittedIsReceived /\ ConstatIsInLedger

-----------------------------------------------------------------------------
LEMMA Types ==
  ASSUME IInv
  PROVE  /\ \A p \in Pairs : constat[p] \in Row \/ constat[p] = None
         /\ \A p \in Pairs : core[p] \in Received \/ core[p] = None
         /\ None \notin Row /\ None \notin Received
  BY ConstatAssumption DEF IInv, TypeOK, Row, Received

LEMMA InitIInv == Init => IInv
  <1> SUFFICES ASSUME Init PROVE IInv
    OBVIOUS
  <1>1. \A r \in Runners : runner[r] = Idle /\ runner[r].step = "idle"
    BY DEF Init, Idle
  <1>2. Idle \in [step : Steps, pair : Pairs \cup {None}, id : Ids \cup {None},
                  status : Statuses, tries : 0..MaxTries, send : BOOLEAN]
    BY ConstatAssumption DEF Idle, Steps, Statuses
  <1>3. TypeOK
    BY <1>2 DEF Init, TypeOK
  <1> QED
    BY <1>1, <1>3 DEF Init, IInv, Working, Holds, Signed, Heard, Trying, Sending,
                      ReceivedIsGenerated, TransmittedIsReceived, ConstatIsInLedger

-----------------------------------------------------------------------------
Memory == [step : Steps, pair : Pairs \cup {None}, id : Ids \cup {None},
           status : Statuses, tries : 0..MaxTries, send : BOOLEAN]

\* What a process may go on with, once it is at a step of the work.
Sound(m, tab, led, rec) ==
    /\ m.step # "idle" => m.pair \in Pairs
    /\ m.step \in Sending => tab[m.pair] # None /\ m.id = tab[m.pair].id
    /\ m.step = "insert" => m.id \in led
    /\ m.step = "ok" => rec[m.pair] # None
    /\ m.step \in {"start", "post"} => m.tries < MaxTries

Kept == \A p \in Pairs : constat[p] # None => constat'[p] # None /\ constat'[p].id = constat[p].id

\* One process goes on soundly, and the tables lose nothing.
LEMMA StepKeeps ==
  ASSUME IInv, NEW r \in Runners, NEW m \in Memory,
         runner' = [runner EXCEPT ![r] = m], Sound(m, constat', ledger', core'),
         constat' \in [Pairs -> Row \cup {None}], ledger' \subseteq Ids,
         core' \in [Pairs -> Received \cup {None}],
         Kept, ledger \subseteq ledger', \A p \in Pairs : core[p] # None => core'[p] # None,
         ReceivedIsGenerated', TransmittedIsReceived', ConstatIsInLedger'
  PROVE  IInv'
  <1>1. \A s \in Runners : runner'[s] = IF s = r THEN m ELSE runner[s]
    BY DEF IInv, TypeOK
  <1>2. TypeOK'
    BY DEF IInv, TypeOK, Memory
  <1>3. Working'
    BY <1>1 DEF IInv, Sound, Working
  <1>4. Holds'
    <2> SUFFICES ASSUME NEW s \in Runners, runner'[s].step \in Sending
                 PROVE  constat'[runner'[s].pair] # None /\ runner'[s].id = constat'[runner'[s].pair].id
      BY DEF Holds
    <2>1. CASE s = r
      BY <1>1, <2>1 DEF Sound
    <2>2. CASE s # r
      <3>1. runner'[s] = runner[s] /\ runner[s].pair \in Pairs
        BY <1>1, <2>2 DEF IInv, Working, Sending
      <3> QED BY <3>1 DEF IInv, Holds, Kept
    <2> QED BY <2>1, <2>2
  <1>5. Signed' /\ Trying'
    BY <1>1 DEF IInv, Sound, Signed, Trying
  <1>6. Heard'
    <2> SUFFICES ASSUME NEW s \in Runners, runner'[s].step = "ok"
                 PROVE  core'[runner'[s].pair] # None
      BY DEF Heard
    <2>1. CASE s = r
      BY <1>1, <2>1 DEF Sound
    <2>2. CASE s # r
      <3>1. runner'[s] = runner[s] /\ runner[s].pair \in Pairs
        BY <1>1, <2>2 DEF IInv, Working
      <3> QED BY <3>1 DEF IInv, Heard
    <2> QED BY <2>1, <2>2
  <1> QED
    BY <1>2, <1>3, <1>4, <1>5, <1>6 DEF IInv

\* The same, when only the process's memory changes.
LEMMA RunnerMoves ==
  ASSUME IInv, NEW r \in Runners, NEW m \in Memory,
         runner' = [runner EXCEPT ![r] = m], Sound(m, constat, ledger, core),
         UNCHANGED <<constat, ledger, core>>
  PROVE  IInv'
  <1>1. constat' \in [Pairs -> Row \cup {None}] /\ ledger' \subseteq Ids
        /\ core' \in [Pairs -> Received \cup {None}]
    BY DEF IInv, TypeOK
  <1>2. ReceivedIsGenerated' /\ TransmittedIsReceived' /\ ConstatIsInLedger'
    BY DEF IInv, ReceivedIsGenerated, TransmittedIsReceived, ConstatIsInLedger
  <1>3. Kept
    BY DEF Kept
  <1> QED BY <1>1, <1>2, <1>3, StepKeeps

LEMMA IdleSound == Idle \in Memory /\ \A tab, led, rec : Sound(Idle, tab, led, rec)
  BY ConstatAssumption DEF Idle, Memory, Steps, Statuses, Sound, Sending

\* Holding the row of a pair, to send it or not.
LEMMA HoldIsSound ==
  ASSUME IInv, NEW r \in Runners, NEW p \in Pairs, NEW row \in Row, NEW send \in BOOLEAN,
         Hold(r, p, row, send)
  PROVE  \E m \in Memory :
            /\ runner' = [runner EXCEPT ![r] = m]
            /\ \A tab, led, rec : tab[p] # None /\ tab[p].id = row.id => Sound(m, tab, led, rec)
  <1> DEFINE m == IF send THEN [Idle EXCEPT !.step = "start", !.pair = p, !.id = row.id,
                                            !.status = row.status]
                          ELSE Idle
  <1>1. runner' = [runner EXCEPT ![r] = m]
    BY DEF Hold
  <1>2. CASE send
    <2>1. m = [step |-> "start", pair |-> p, id |-> row.id, status |-> row.status, tries |-> 0, send |-> FALSE]
      BY <1>2 DEF Idle
    <2>2. row.id \in Ids /\ row.status \in Statuses
      BY DEF Row
    <2> HIDE DEF m
    <2>3. m \in Memory
      BY <2>1, <2>2, ConstatAssumption DEF Memory, Steps
    <2>4. m.step = "start" /\ m.pair = p /\ m.id = row.id /\ m.tries = 0
      BY <2>1
    <2>5. \A tab, led, rec : tab[p] # None /\ tab[p].id = row.id => Sound(m, tab, led, rec)
      BY <2>4, ConstatAssumption DEF Sound
    <2> QED BY <1>1, <2>3, <2>5
  <1>3. CASE ~send
    <2>1. m = Idle
      BY <1>3
    <2> QED BY <1>1, <2>1, IdleSound
  <1> QED BY <1>2, <1>3

LEMMA GenerateKeeps ==
  ASSUME IInv, NEW r \in Runners, NEW p \in Pairs, NEW send \in BOOLEAN, Generate(r, p, send)
  PROVE  IInv'
  <1>1. UNCHANGED <<constat, ledger, core>>
    BY DEF Generate
  <1>2. CASE constat[p] # None
    <2>0. constat[p] \in Row
      BY <1>2 DEF IInv, TypeOK
    <2>1. Hold(r, p, constat[p], send)
      BY <1>2 DEF Generate
    <2>2. CASE send = TRUE
      <3>1. Hold(r, p, constat[p], TRUE)
        BY <2>1, <2>2
      <3>2. PICK m \in Memory :
              /\ runner' = [runner EXCEPT ![r] = m]
              /\ \A tab, led, rec : tab[p] # None /\ tab[p].id = constat[p].id => Sound(m, tab, led, rec)
        BY <2>0, <3>1, HoldIsSound
      <3> QED BY <1>1, <1>2, <3>2, RunnerMoves
    <2>3. CASE send = FALSE
      <3>1. runner' = [runner EXCEPT ![r] = Idle]
        BY <2>1, <2>3 DEF Hold
      <3> QED BY <1>1, <3>1, IdleSound, RunnerMoves
    <2> QED BY <2>2, <2>3
  <1>3. CASE constat[p] = None
    <2> DEFINE m == [Idle EXCEPT !.step = "build", !.pair = p, !.send = send]
    <2>1. runner' = [runner EXCEPT ![r] = m]
      BY <1>3 DEF Generate
    <2>2. m.step = "build" /\ m.pair = p
      BY DEF Idle
    <2>3. m \in Memory
      BY IdleSound DEF Memory, Steps
    <2> HIDE DEF m
    <2>4. Sound(m, constat, ledger, core)
      BY <2>2 DEF Sound, Sending
    <2> QED BY <1>1, <2>1, <2>3, <2>4, RunnerMoves
  <1> QED BY <1>2, <1>3

LEMMA RetransmitKeeps ==
  ASSUME IInv, NEW r \in Runners, NEW p \in Pairs, Retransmit(r, p) PROVE IInv'
  <1>1. UNCHANGED <<constat, ledger, core>> /\ constat[p] \in Row /\ constat[p] # None
        /\ Hold(r, p, constat[p], TRUE)
    BY DEF Retransmit, IInv, TypeOK
  <1>2. PICK m \in Memory :
          /\ runner' = [runner EXCEPT ![r] = m]
          /\ \A tab, led, rec : tab[p] # None /\ tab[p].id = constat[p].id => Sound(m, tab, led, rec)
    BY <1>1, HoldIsSound
  <1> QED BY <1>1, <1>2, RunnerMoves

-----------------------------------------------------------------------------
LEMMA Memories == ASSUME IInv, NEW r \in Runners PROVE runner[r] \in Memory
  BY DEF IInv, TypeOK, Memory

\* A process that transmits goes on with the pair and the id it holds, while
\* CORE may receive a constat.
LEMMA SendingKeeps ==
  ASSUME IInv, NEW r \in Runners, NEW m \in Memory, runner[r].step \in Sending,
         runner' = [runner EXCEPT ![r] = m],
         m.step \in Sending, m.pair = runner[r].pair, m.id = runner[r].id,
         m.step \in {"start", "post"} => m.tries < MaxTries,
         m.step = "ok" => core'[runner[r].pair] # None,
         UNCHANGED <<constat, ledger>>, core' \in [Pairs -> Received \cup {None}],
         \A p \in Pairs : core[p] # None => core'[p] # None, ReceivedIsGenerated'
  PROVE  IInv'
  <1>1. /\ runner[r].pair \in Pairs /\ constat[runner[r].pair] # None
        /\ runner[r].id = constat[runner[r].pair].id
    BY DEF IInv, Working, Holds, Sending
  <1>2. Sound(m, constat', ledger', core')
    BY <1>1 DEF Sound, Sending
  <1>3. constat' \in [Pairs -> Row \cup {None}] /\ ledger' \subseteq Ids /\ Kept
        /\ ledger \subseteq ledger' /\ TransmittedIsReceived' /\ ConstatIsInLedger'
    BY DEF IInv, TypeOK, Kept, TransmittedIsReceived, ConstatIsInLedger
  <1> QED BY <1>2, <1>3, StepKeeps

LEMMA GoToMemory ==
  ASSUME IInv, NEW r \in Runners, NEW step \in Steps, GoTo(r, step)
  PROVE  \E m \in Memory : /\ runner' = [runner EXCEPT ![r] = m]
                           /\ m.step = step /\ m.pair = runner[r].pair /\ m.id = runner[r].id
                           /\ m.tries = runner[r].tries
  <1> DEFINE m == [runner[r] EXCEPT !.step = step]
  <1>1. runner[r] \in Memory
    BY Memories
  <1>2. m \in Memory /\ m.step = step /\ m.pair = runner[r].pair /\ m.id = runner[r].id
        /\ m.tries = runner[r].tries
    BY <1>1 DEF Memory
  <1>3. runner' = [runner EXCEPT ![r] = m]
    BY <1>1 DEF GoTo, IInv, TypeOK
  <1> QED BY <1>2, <1>3

\* A temporary error leaves a try, or the transmission has failed.
LEMMA RetryMemory ==
  ASSUME IInv, NEW r \in Runners, Posting(r), Retry(r)
  PROVE  \E m \in Memory : /\ runner' = [runner EXCEPT ![r] = m]
                           /\ m.step \in {"post", "failed"} /\ (m.step = "post" => m.tries < MaxTries)
                           /\ m.pair = runner[r].pair /\ m.id = runner[r].id
  <1> DEFINE next == IF runner[r].tries + 1 < MaxTries THEN "post" ELSE "failed"
             m == [runner[r] EXCEPT !.tries = @ + 1, !.step = next]
  <1>1. runner[r] \in Memory /\ MaxTries \in Nat /\ runner[r].tries < MaxTries
    BY Memories, ConstatAssumption DEF Posting, IInv, Trying
  <1>2. m \in Memory /\ m.step = next /\ m.tries = runner[r].tries + 1
        /\ m.pair = runner[r].pair /\ m.id = runner[r].id
    <2>1. runner[r].tries + 1 \in 0..MaxTries /\ next \in Steps
      BY <1>1 DEF Memory, Steps
    <2> HIDE DEF next
    <2> QED BY <1>1, <2>1 DEF Memory
  <1>3. runner' = [runner EXCEPT ![r] = m]
    BY <1>1 DEF Retry, IInv, TypeOK, Memory
  <1> HIDE DEF m
  <1>4. m.step \in {"post", "failed"} /\ (m.step = "post" => m.tries < MaxTries)
    BY <1>2
  <1> QED BY <1>2, <1>3, <1>4

\* What CORE receives is the constat the Vault keeps.
LEMMA CreateKeeps ==
  ASSUME IInv, NEW r \in Runners, Posting(r), NEW state \in CoreStates, Create(r, state),
         UNCHANGED <<constat, ledger>>
  PROVE  /\ core' \in [Pairs -> Received \cup {None}] /\ ReceivedIsGenerated'
         /\ \A p \in Pairs : core[p] # None => core'[p] # None
         /\ core'[runner[r].pair] # None
  <1> DEFINE new == [id |-> runner[r].id, state |-> state]
  <1>1. /\ runner[r].pair \in Pairs /\ constat[runner[r].pair] # None
        /\ runner[r].id = constat[runner[r].pair].id
    BY DEF IInv, Working, Holds, Sending, Posting
  <1>2. runner[r].id \in Ids
    BY <1>1, Types DEF Row
  <1>3. new \in Received /\ new # None /\ new.id = runner[r].id
    BY <1>2, ConstatAssumption DEF Received
  <1> HIDE DEF new
  <1>4. core' = [core EXCEPT ![runner[r].pair] = new]
    BY DEF Create, new
  <1>5. \A p \in Pairs : core'[p] = IF p = runner[r].pair THEN new ELSE core[p]
    BY <1>4 DEF IInv, TypeOK
  <1> QED
    BY <1>1, <1>3, <1>4, <1>5 DEF IInv, TypeOK, ReceivedIsGenerated

LEMMA PostKeeps == ASSUME IInv, NEW r \in Runners, Post(r) PROVE IInv'
  <1>0. Posting(r) /\ Reaches(r) /\ runner[r].step \in Sending /\ runner[r].tries < MaxTries
        /\ UNCHANGED <<constat, ledger>>
    BY DEF Post, PostReceived, PostReceivedUnseen, PostDuplicate, PostUndelivered,
           PostRefused, Reaches, Posting, Sending, IInv, Trying
  <1>1. ASSUME UNCHANGED core
        PROVE  /\ core' \in [Pairs -> Received \cup {None}] /\ ReceivedIsGenerated'
               /\ \A p \in Pairs : core[p] # None => core'[p] # None
    BY <1>0, <1>1 DEF IInv, TypeOK, ReceivedIsGenerated
  <1>2. CASE PostReceived(r)
    <2>1. PICK state \in CoreStates : Create(r, state)
      BY <1>2 DEF PostReceived, CoreStates
    <2>2. PICK m \in Memory : /\ runner' = [runner EXCEPT ![r] = m]
                             /\ m.step = "ok" /\ m.pair = runner[r].pair /\ m.id = runner[r].id
      BY <1>2, GoToMemory DEF PostReceived, Steps
    <2> QED BY <1>0, <2>1, <2>2, CreateKeeps, SendingKeeps DEF Sending
  <1>3. ASSUME Retry(r), core' \in [Pairs -> Received \cup {None}], ReceivedIsGenerated',
               \A p \in Pairs : core[p] # None => core'[p] # None
        PROVE  IInv'
    <2>1. PICK m \in Memory : /\ runner' = [runner EXCEPT ![r] = m]
                             /\ m.step \in {"post", "failed"} /\ (m.step = "post" => m.tries < MaxTries)
                             /\ m.pair = runner[r].pair /\ m.id = runner[r].id
      BY <1>0, <1>3, RetryMemory
    <2> QED BY <1>0, <1>3, <2>1, SendingKeeps DEF Sending
  <1>4. CASE PostReceivedUnseen(r)
    <2>1. PICK state \in CoreStates : Create(r, state)
      BY <1>4 DEF PostReceivedUnseen, CoreStates
    <2> QED BY <1>0, <1>3, <1>4, <2>1, CreateKeeps DEF PostReceivedUnseen
  <1>5. CASE PostUndelivered(r)
    BY <1>1, <1>3, <1>5 DEF PostUndelivered
  <1>6. CASE PostDuplicate(r) \/ PostRefused(r)
    <2>1. UNCHANGED core /\ GoTo(r, "failed")
      BY <1>6 DEF PostDuplicate, PostRefused
    <2>2. PICK m \in Memory : /\ runner' = [runner EXCEPT ![r] = m]
                             /\ m.step = "failed" /\ m.pair = runner[r].pair /\ m.id = runner[r].id
      BY <2>1, GoToMemory DEF Steps
    <2> QED BY <1>0, <1>1, <2>1, <2>2, SendingKeeps DEF Sending
  <1> QED BY <1>2, <1>4, <1>5, <1>6 DEF Post

LEMMA BuildKeeps == ASSUME IInv, NEW r \in Runners, Build(r) PROVE IInv'
  <1>1. PICK id \in Ids \ Used : ledger' = ledger \cup {id}
                               /\ runner' = [runner EXCEPT ![r].step = "insert", ![r].id = id]
    BY DEF Build
  <1> DEFINE m == [runner[r] EXCEPT !.step = "insert", !.id = id]
  <1>2. runner[r] \in Memory /\ runner[r].pair \in Pairs
    BY Memories DEF Build, IInv, Working
  <1>3. m \in Memory /\ m.step = "insert" /\ m.id = id /\ m.pair = runner[r].pair
    BY <1>2 DEF Memory, Steps
  <1>4. runner' = [runner EXCEPT ![r] = m]
    BY <1>1, <1>2 DEF IInv, TypeOK, Memory
  <1> HIDE DEF m
  <1>5. UNCHANGED <<constat, core>> /\ ledger' \subseteq Ids /\ ledger \subseteq ledger'
    BY <1>1 DEF Build, IInv, TypeOK
  <1>6. Sound(m, constat', ledger', core')
    BY <1>1, <1>2, <1>3 DEF Sound, Sending
  <1>7. constat' \in [Pairs -> Row \cup {None}] /\ core' \in [Pairs -> Received \cup {None}] /\ Kept
    BY <1>5 DEF IInv, TypeOK, Kept
  <1>8. ReceivedIsGenerated' /\ TransmittedIsReceived' /\ ConstatIsInLedger'
    BY <1>5 DEF IInv, ReceivedIsGenerated, TransmittedIsReceived, ConstatIsInLedger
  <1> QED BY <1>3, <1>4, <1>5, <1>6, <1>7, <1>8, StepKeeps

\* A change of the table that keeps the ids of its rows, adds rows whose entry
\* is in the ledger, and says 'transmitted' only of what CORE has received.
LEMMA TableKeeps ==
  ASSUME IInv, NEW p \in Pairs, NEW row \in Row, constat' = [constat EXCEPT ![p] = row],
         UNCHANGED <<ledger, core>>, constat[p] # None => row.id = constat[p].id,
         row.id \in ledger, row.status = "transmitted" => core[p] # None
  PROVE  /\ constat' \in [Pairs -> Row \cup {None}] /\ core' \in [Pairs -> Received \cup {None}]
         /\ ledger' \subseteq Ids /\ Kept
         /\ ReceivedIsGenerated' /\ TransmittedIsReceived' /\ ConstatIsInLedger'
         /\ constat'[p] = row /\ row # None
  <1>1. /\ \A q \in Pairs : constat'[q] = IF q = p THEN row ELSE constat[q]
        /\ row # None
    BY ConstatAssumption DEF IInv, TypeOK
  <1>2. constat' \in [Pairs -> Row \cup {None}] /\ core' \in [Pairs -> Received \cup {None}]
        /\ ledger' \subseteq Ids
    BY DEF IInv, TypeOK
  <1>3. Kept
    BY <1>1 DEF Kept
  <1>4. ReceivedIsGenerated'
    BY <1>1 DEF IInv, ReceivedIsGenerated
  <1>5. TransmittedIsReceived' /\ ConstatIsInLedger'
    BY <1>1 DEF IInv, TransmittedIsReceived, ConstatIsInLedger
  <1> QED BY <1>1, <1>2, <1>3, <1>4, <1>5

LEMMA InsertKeeps == ASSUME IInv, NEW r \in Runners, Insert(r) PROVE IInv'
  <1> DEFINE p == runner[r].pair
             built == [id |-> runner[r].id, status |-> "pending"]
             row == IF constat[p] = None THEN built ELSE constat[p]
  <1>1. p \in Pairs /\ runner[r].id \in ledger /\ UNCHANGED <<ledger, core>>
        /\ constat' = [constat EXCEPT ![p] = row]
    BY DEF Insert, IInv, Working, Signed, TypeOK
  <1>2. built \in Row /\ built.id = runner[r].id /\ built.status = "pending"
    BY <1>1 DEF IInv, TypeOK, Row, Statuses
  <1>3. /\ row \in Row /\ row.id \in ledger
        /\ constat[p] # None => row.id = constat[p].id
        /\ row.status = "transmitted" => core[p] # None
    <2>1. CASE constat[p] = None
      BY <1>1, <1>2, <2>1
    <2>2. CASE constat[p] # None
      BY <1>1, <2>2, Types DEF IInv, ConstatIsInLedger, TransmittedIsReceived
    <2> QED BY <2>1, <2>2
  <1> HIDE DEF row
  <1>4. /\ constat' \in [Pairs -> Row \cup {None}] /\ core' \in [Pairs -> Received \cup {None}]
        /\ ledger' \subseteq Ids /\ Kept
        /\ ReceivedIsGenerated' /\ TransmittedIsReceived' /\ ConstatIsInLedger'
        /\ constat'[p] = row /\ row # None
    BY <1>1, <1>3, TableKeeps
  <1>5. Hold(r, p, row, runner[r].send) /\ runner[r].send \in BOOLEAN
    BY <1>4, Memories DEF Insert, Memory
  <1>6. PICK m \in Memory :
          /\ runner' = [runner EXCEPT ![r] = m]
          /\ \A tab, led, rec : tab[p] # None /\ tab[p].id = row.id => Sound(m, tab, led, rec)
    <2>1. CASE runner[r].send = TRUE
      <3>1. Hold(r, p, row, TRUE)
        BY <1>5, <2>1
      <3> QED BY <1>1, <1>3, <3>1, HoldIsSound
    <2>2. CASE runner[r].send = FALSE
      <3>1. runner' = [runner EXCEPT ![r] = Idle]
        BY <1>5, <2>2 DEF Hold
      <3> QED BY <3>1, IdleSound
    <2> QED BY <1>5, <2>1, <2>2
  <1> QED BY <1>1, <1>4, <1>6, StepKeeps

LEMMA StartKeeps == ASSUME IInv, NEW r \in Runners, Start(r) PROVE IInv'
  <1>1. runner[r].step \in Sending /\ runner[r].tries < MaxTries /\ UNCHANGED <<constat, ledger, core>>
    BY DEF Start, Sending, IInv, Trying
  <1>2. CASE runner[r].status = "transmitted"
    BY <1>1, <1>2, IdleSound, RunnerMoves DEF Start
  <1>3. CASE runner[r].status # "transmitted"
    <2>1. PICK m \in Memory : /\ runner' = [runner EXCEPT ![r] = m]
                             /\ m.step = "post" /\ m.pair = runner[r].pair /\ m.id = runner[r].id
                             /\ m.tries = runner[r].tries
      BY <1>3, GoToMemory DEF Start, Steps
    <2>2. core' \in [Pairs -> Received \cup {None}] /\ ReceivedIsGenerated'
          /\ \A p \in Pairs : core[p] # None => core'[p] # None
      BY <1>1 DEF IInv, TypeOK, ReceivedIsGenerated
    <2> QED BY <1>1, <2>1, <2>2, SendingKeeps DEF Sending
  <1> QED BY <1>2, <1>3

\* The outcome is written over the row the process holds.
LEMMA SettleKeeps ==
  ASSUME IInv, NEW r \in Runners, runner[r].step \in Sending, NEW status \in Statuses,
         status = "transmitted" => core[runner[r].pair] # None, Settle(r, status)
  PROVE  IInv'
  <1> DEFINE p == runner[r].pair
             row == [constat[p] EXCEPT !.status = status]
  <1>1. p \in Pairs /\ constat[p] # None /\ constat[p] \in Row
    BY Types DEF IInv, Working, Holds, Sending
  <1>2. row \in Row /\ row.id = constat[p].id /\ row.status = status
    BY <1>1 DEF Row
  <1>3. constat' = [constat EXCEPT ![p] = row]
    BY <1>1 DEF Settle, IInv, TypeOK
  <1>4. row.id \in ledger /\ UNCHANGED <<ledger, core>> /\ runner' = [runner EXCEPT ![r] = Idle]
    BY <1>1, <1>2 DEF IInv, ConstatIsInLedger, Settle
  <1> HIDE DEF row
  <1>5. /\ constat' \in [Pairs -> Row \cup {None}] /\ core' \in [Pairs -> Received \cup {None}]
        /\ ledger' \subseteq Ids /\ Kept
        /\ ReceivedIsGenerated' /\ TransmittedIsReceived' /\ ConstatIsInLedger'
    BY <1>1, <1>2, <1>3, <1>4, TableKeeps
  <1> QED BY <1>4, <1>5, IdleSound, StepKeeps

LEMMA StopKeeps == ASSUME IInv, NEW r \in Runners, Stop(r) PROVE IInv'
  BY IdleSound, RunnerMoves DEF Stop

LEMMA InvoiceKeeps == ASSUME IInv, NEW p \in Pairs, Invoice(p) PROVE IInv'
  <1> DEFINE new == [core[p] EXCEPT !.state = "invoiced"]
  <1>1. new \in Received /\ new # None /\ new.id = core[p].id
    BY Types DEF Invoice, Received, CoreStates
  <1>2. core' = [core EXCEPT ![p] = new] /\ core[p] # None /\ UNCHANGED <<constat, ledger, runner>>
    BY DEF Invoice, IInv, TypeOK
  <1> HIDE DEF new
  <1>3. \A q \in Pairs : core'[q] = IF q = p THEN new ELSE core[q]
    BY <1>2 DEF IInv, TypeOK
  <1>4. TypeOK'
    BY <1>1, <1>2 DEF IInv, TypeOK
  <1>5. Working' /\ Holds' /\ Signed' /\ Trying'
    BY <1>2 DEF IInv, Working, Holds, Signed, Trying
  <1>6. Heard'
    BY <1>1, <1>2, <1>3 DEF IInv, Heard, Working
  <1>7. ReceivedIsGenerated' /\ TransmittedIsReceived' /\ ConstatIsInLedger'
    BY <1>1, <1>2, <1>3 DEF IInv, ReceivedIsGenerated, TransmittedIsReceived, ConstatIsInLedger
  <1> QED BY <1>4, <1>5, <1>6, <1>7 DEF IInv

-----------------------------------------------------------------------------
\* Every step keeps the invariant.
LEMMA Inductive == IInv /\ [Next]_vars => IInv'
  <1> SUFFICES ASSUME IInv, [Next]_vars PROVE IInv'
    OBVIOUS
  <1>1. ASSUME NEW r \in Runners, NEW p \in Pairs, Retransmit(r, p) PROVE IInv'
    BY <1>1, RetransmitKeeps
  <1>2. ASSUME NEW r \in Runners, NEW p \in Pairs, NEW send \in BOOLEAN, Generate(r, p, send)
        PROVE  IInv'
    BY <1>2, GenerateKeeps
  <1>3. ASSUME NEW r \in Runners, Work(r) PROVE IInv'
    <2>1. CASE Build(r)   BY <2>1, BuildKeeps
    <2>2. CASE Insert(r)  BY <2>2, InsertKeeps
    <2>3. CASE Start(r)   BY <2>3, StartKeeps
    <2>4. CASE Post(r)    BY <2>4, PostKeeps
    <2>5. CASE RecordTransmitted(r)
      BY <2>5, SettleKeeps DEF RecordTransmitted, Sending, Statuses, IInv, Heard
    <2>6. CASE RecordFailed(r)
      BY <2>6, SettleKeeps DEF RecordFailed, Sending, Statuses
    <2> QED BY <1>3, <2>1, <2>2, <2>3, <2>4, <2>5, <2>6 DEF Work
  <1>4. ASSUME NEW r \in Runners, Stop(r) PROVE IInv'
    BY <1>4, StopKeeps
  <1>5. ASSUME NEW p \in Pairs, Invoice(p) PROVE IInv'
    BY <1>5, InvoiceKeeps
  <1>6. CASE UNCHANGED vars
    BY <1>6 DEF vars, IInv, TypeOK, Working, Holds, Signed, Heard, Trying,
                ReceivedIsGenerated, TransmittedIsReceived, ConstatIsInLedger
  <1>7. CASE Next
    BY <1>1, <1>2, <1>3, <1>4, <1>5, <1>7 DEF Next
  <1> QED BY <1>6, <1>7

LEMMA Invariant == Spec => []IInv
  BY InitIInv, Inductive, PTL DEF Spec

\* Types, at any time.
THEOREM TypeCorrect == Spec => []TypeOK
  <1>1. IInv => TypeOK
    BY DEF IInv
  <1> QED BY <1>1, Invariant, PTL

\* What CORE holds, and bills, for a pair is the constat the Vault keeps,
\* however many generations and transmissions race.
THEOREM CoreBillsTheConstat == Spec => []ReceivedIsGenerated
  <1>1. IInv => ReceivedIsGenerated
    BY DEF IInv
  <1> QED BY <1>1, Invariant, PTL

\* 'transmitted' in the Vault stands for a row in CORE, under every fault.
THEOREM TransmittedWasReceived == Spec => []TransmittedIsReceived
  <1>1. IInv => TransmittedIsReceived
    BY DEF IInv
  <1> QED BY <1>1, Invariant, PTL

\* A constat never exists without its ledger entry.
THEOREM ConstatIsSigned == Spec => []ConstatIsInLedger
  <1>1. IInv => ConstatIsInLedger
    BY DEF IInv
  <1> QED BY <1>1, Invariant, PTL

\* No step replaces or removes the constat of a pair.
LEMMA StepFreezes == IInv /\ [Next]_vars => Kept
  <1> SUFFICES ASSUME IInv, [Next]_vars PROVE Kept
    OBVIOUS
  <1>1. ASSUME UNCHANGED constat PROVE Kept
    BY <1>1 DEF Kept
  <1>2. ASSUME NEW r \in Runners, Insert(r) PROVE Kept
    BY <1>2, ConstatAssumption DEF Insert, Kept, IInv, TypeOK
  <1>3. ASSUME NEW r \in Runners, NEW status \in Statuses, Settle(r, status),
               runner[r].step \in Sending
        PROVE  Kept
    <2> SUFFICES ASSUME NEW p \in Pairs, constat[p] # None
                 PROVE  constat'[p] # None /\ constat'[p].id = constat[p].id
      BY DEF Kept
    <2>1. constat[p] \in Row
      BY Types
    <2>2. constat' = [constat EXCEPT ![runner[r].pair].status = status]
      BY <1>3 DEF Settle
    <2>3. constat'[p] = constat[p] \/ constat'[p] = [constat[p] EXCEPT !.status = status]
      BY <2>2 DEF IInv, TypeOK
    <2>4. [constat[p] EXCEPT !.status = status] \in Row
          /\ [constat[p] EXCEPT !.status = status].id = constat[p].id
      BY <2>1 DEF Row
    <2> QED BY <2>3, <2>4, Types
  <1>4. ASSUME NEW r \in Runners, Work(r) PROVE Kept
    <2>1. CASE Build(r) \/ Start(r) \/ Post(r)
      BY <1>1, <2>1 DEF Build, Start, Post, PostReceived, PostReceivedUnseen, PostDuplicate,
                        PostUndelivered, PostRefused, Reaches
    <2>2. CASE Insert(r)
      BY <1>2, <2>2
    <2>3. CASE RecordTransmitted(r)
      BY <1>3, <2>3 DEF RecordTransmitted, Sending, Statuses
    <2>4. CASE RecordFailed(r)
      BY <1>3, <2>4 DEF RecordFailed, Sending, Statuses
    <2> QED BY <1>4, <2>1, <2>2, <2>3, <2>4 DEF Work
  <1>5. CASE UNCHANGED vars
    BY <1>1, <1>5 DEF vars
  <1>6. CASE Next
    BY <1>1, <1>4, <1>6 DEF Next, Retransmit, Generate, Stop, Invoice
  <1> QED BY <1>5, <1>6

\* Once generated, the constat of a pair never changes.
THEOREM ConstatNeverChanges == Spec => ConstatIsFrozen
  <1>1. IInv /\ [Next]_vars => [Kept]_vars
    BY StepFreezes
  <1> QED BY <1>1, Invariant, PTL DEF Spec, ConstatIsFrozen, Kept

-----------------------------------------------------------------------------
\* The promise.  Own: the id of a constat that is built and not yet stored is
\* nobody else's, and no stored constat's.

Own == \A r \in Runners : runner[r].step = "insert" =>
          /\ \A p \in Pairs : constat[p] # None => constat[p].id # runner[r].id
          /\ \A s \in Runners : s # r /\ runner[s].step = "insert" => runner[s].id # runner[r].id

Invoiced == {p \in Pairs : core[p] # None /\ core[p].state = "invoiced"}
Told     == {p \in Pairs : constat[p] # None /\ constat[p].status = "transmitted"}

\* No process but one moves, which builds nothing; and no row gets a new id.
LEMMA OwnStays ==
  ASSUME IInv, Own, NEW r \in Runners, \A s \in Runners : s # r => runner'[s] = runner[s],
         runner'[r].step = "insert" => runner'[r] = runner[r],
         \A p \in Pairs : constat'[p] # None =>
            constat[p] # None /\ constat'[p].id = constat[p].id
  PROVE  Own'
  <1>1. \A s \in Runners : runner'[s].step = "insert" => runner'[s] = runner[s]
    OBVIOUS
  <1> QED BY <1>1 DEF Own

LEMMA OwnInductive == IInv /\ Own /\ [Next]_vars => Own'
  <1> SUFFICES ASSUME IInv, Own, [Next]_vars PROVE Own'
    OBVIOUS
  <1>1. ASSUME NEW r \in Runners, NEW m, runner' = [runner EXCEPT ![r] = m], m.step # "insert",
               \A p \in Pairs : constat'[p] # None =>
                  constat[p] # None /\ constat'[p].id = constat[p].id
        PROVE  Own'
    <2>1. runner'[r] = m /\ \A s \in Runners : s # r => runner'[s] = runner[s]
      BY <1>1 DEF IInv, TypeOK
    <2> QED BY <1>1, <2>1, OwnStays
  <1>2. Idle.step # "insert"
    BY DEF Idle
  <1>3. ASSUME NEW r \in Runners, NEW p \in Pairs, NEW row, NEW send, Hold(r, p, row, send),
               UNCHANGED constat
        PROVE  Own'
    <2> DEFINE m == IF send THEN [Idle EXCEPT !.step = "start", !.pair = p, !.id = row.id,
                                              !.status = row.status]
                            ELSE Idle
    <2>1. runner' = [runner EXCEPT ![r] = m] /\ m.step # "insert"
      BY <1>3 DEF Hold, Idle
    <2> HIDE DEF m
    <2> QED BY <1>1, <1>3, <2>1
  <1>4. ASSUME NEW r \in Runners, NEW step \in Steps \ {"insert"}, GoTo(r, step), UNCHANGED constat
        PROVE  Own'
    <2>1. PICK m \in Memory : runner' = [runner EXCEPT ![r] = m] /\ m.step = step
      BY <1>4, GoToMemory
    <2> QED BY <1>1, <1>4, <2>1
  <1>5. ASSUME NEW r \in Runners, NEW p \in Pairs, NEW send \in BOOLEAN, Generate(r, p, send)
        PROVE  Own'
    <2>1. CASE constat[p] # None
      BY <1>3, <1>5, <2>1 DEF Generate
    <2>2. CASE constat[p] = None
      <3> DEFINE m == [Idle EXCEPT !.step = "build", !.pair = p, !.send = send]
      <3>1. runner' = [runner EXCEPT ![r] = m] /\ m.step # "insert" /\ UNCHANGED constat
        BY <1>5, <2>2 DEF Generate, Idle
      <3> HIDE DEF m
      <3> QED BY <1>1, <3>1
    <2> QED BY <2>1, <2>2
  <1>6. ASSUME NEW r \in Runners, NEW p \in Pairs, Retransmit(r, p) PROVE Own'
    BY <1>3, <1>6 DEF Retransmit
  <1>7. ASSUME NEW r \in Runners, Build(r) PROVE Own'
    <2>1. PICK id \in Ids \ Used : runner' = [runner EXCEPT ![r].step = "insert", ![r].id = id]
      BY <1>7 DEF Build
    <2>2. runner'[r].id = id /\ \A s \in Runners : s # r => runner'[s] = runner[s]
      BY <2>1 DEF IInv, TypeOK
    <2>3. constat' = constat /\ id \notin ledger
      BY <1>7 DEF Build, Used
    <2>4. \A p \in Pairs : constat[p] # None => constat[p].id # id
      BY <2>3 DEF IInv, ConstatIsInLedger
    <2>5. \A s \in Runners : runner[s].step = "insert" => runner[s].id # id
      BY <2>3 DEF IInv, Signed
    <2> QED BY <2>2, <2>3, <2>4, <2>5 DEF Own
  <1>8. ASSUME NEW r \in Runners, Insert(r) PROVE Own'
    <2> DEFINE p == runner[r].pair
               row == [id |-> runner[r].id, status |-> "pending"]
               m == IF runner[r].send
                    THEN [Idle EXCEPT !.step = "start", !.pair = p, !.id = constat'[p].id,
                                      !.status = constat'[p].status]
                    ELSE Idle
    <2>1. /\ runner[r].step = "insert" /\ p \in Pairs
          /\ constat' = [constat EXCEPT ![p] = IF @ = None THEN row ELSE @]
          /\ runner' = [runner EXCEPT ![r] = m]
      BY <1>8 DEF Insert, Hold, IInv, Working
    <2>2. \A q \in Pairs : constat'[q] = constat[q] \/ constat'[q] = row
      BY <2>1 DEF IInv, TypeOK
    <2>3. row.id = runner[r].id
      OBVIOUS
    <2>4. m.step # "insert"
      BY DEF Idle
    <2> HIDE DEF row, m
    <2>5. runner'[r] = m /\ \A s \in Runners : s # r => runner'[s] = runner[s]
      BY <2>1 DEF IInv, TypeOK
    <2> SUFFICES ASSUME NEW s \in Runners, runner'[s].step = "insert"
                 PROVE  /\ \A q \in Pairs : constat'[q] # None => constat'[q].id # runner'[s].id
                        /\ \A t \in Runners : t # s /\ runner'[t].step = "insert" =>
                              runner'[t].id # runner'[s].id
      BY DEF Own
    <2>6. s # r /\ runner'[s] = runner[s] /\ runner[s].id # runner[r].id
      BY <2>1, <2>4, <2>5 DEF Own
    <2>7. \A q \in Pairs : constat'[q] # None => constat'[q].id # runner'[s].id
      BY <2>2, <2>3, <2>6 DEF Own
    <2>8. \A t \in Runners : t # s /\ runner'[t].step = "insert" => runner'[t].id # runner'[s].id
      BY <2>4, <2>5, <2>6 DEF Own
    <2> QED BY <2>7, <2>8
  <1>9. ASSUME NEW r \in Runners, Start(r) PROVE Own'
    BY <1>1, <1>2, <1>4, <1>9 DEF Start, Steps
  <1>10. ASSUME NEW r \in Runners, Post(r) PROVE Own'
    <2>1. Posting(r) /\ UNCHANGED constat
      BY <1>10 DEF Post, PostReceived, PostReceivedUnseen, PostDuplicate, PostUndelivered,
                   PostRefused, Reaches
    <2>2. CASE Retry(r)
      <3>1. PICK m \in Memory : runner' = [runner EXCEPT ![r] = m] /\ m.step \in {"post", "failed"}
        BY <2>1, <2>2, RetryMemory
      <3> QED BY <1>1, <2>1, <3>1
    <2>3. CASE GoTo(r, "ok") \/ GoTo(r, "failed")
      BY <1>4, <2>1, <2>3 DEF Steps
    <2> QED BY <1>10, <2>2, <2>3 DEF Post, PostReceived, PostReceivedUnseen, PostDuplicate,
                                     PostUndelivered, PostRefused
  <1>11. ASSUME NEW r \in Runners, NEW status \in Statuses, Settle(r, status), runner[r].step \in Sending
         PROVE  Own'
    <2>1. /\ constat' = [constat EXCEPT ![runner[r].pair].status = status]
          /\ runner' = [runner EXCEPT ![r] = Idle] /\ runner[r].pair \in Pairs
          /\ constat[runner[r].pair] # None /\ constat[runner[r].pair] \in Row
      BY <1>11, Types DEF Settle, IInv, Working, Holds, Sending
    <2>2. \A p \in Pairs : constat'[p] # None => constat[p] # None /\ constat'[p].id = constat[p].id
      BY <2>1 DEF IInv, TypeOK, Row
    <2> QED BY <1>1, <1>2, <2>1, <2>2
  <1>12. ASSUME NEW r \in Runners, Work(r) PROVE Own'
    <2>1. CASE RecordTransmitted(r)
      BY <1>11, <2>1 DEF RecordTransmitted, Sending, Statuses
    <2>2. CASE RecordFailed(r)
      BY <1>11, <2>2 DEF RecordFailed, Sending, Statuses
    <2> QED BY <1>7, <1>8, <1>9, <1>10, <1>12, <2>1, <2>2 DEF Work
  <1>13. ASSUME NEW r \in Runners, Stop(r) PROVE Own'
    BY <1>1, <1>2, <1>13 DEF Stop
  <1>14. CASE UNCHANGED <<constat, runner>>
    BY <1>14 DEF Own
  <1> QED BY <1>5, <1>6, <1>12, <1>13, <1>14 DEF Next, vars, Invoice

LEMMA Tables == IInv => /\ constat \in [Pairs -> Row \cup {None}] /\ core \in [Pairs -> Received \cup {None}]
                        /\ None \notin Row /\ None \notin Received
  BY Types DEF IInv, TypeOK

\* The ids in a table of which one row changes.
LEMMA ConstatIds ==
  ASSUME IInv, NEW p \in Pairs, NEW row \in Row, constat' = [constat EXCEPT ![p] = row]
  PROVE  IdsIn(constat') = [IdsIn(constat) EXCEPT ![p] = row.id]
  BY Tables DEF IdsIn

LEMMA CoreIds ==
  ASSUME IInv, NEW p \in Pairs, NEW row \in Received, core' = [core EXCEPT ![p] = row]
  PROVE  IdsIn(core') = [IdsIn(core) EXCEPT ![p] = row.id]
  BY Tables DEF IdsIn

\* What the promise speaks of is left alone.
LEMMA Stutters == ASSUME UNCHANGED <<constat, core>> PROVE UNCHANGED Promise!vars
  BY DEF Promise!vars

\* A new row certifies the pair; one that is there is left alone.
LEMMA InsertPromise ==
  ASSUME IInv, Own, NEW r \in Runners, Insert(r) PROVE [Promise!Next]_(Promise!vars)
  <1>0. PICK p \in Pairs : p = runner[r].pair
    BY DEF Insert, IInv, Working
  <1> DEFINE row == [id |-> runner[r].id, status |-> "pending"]
  <1>1. /\ p \in Pairs /\ runner[r].step = "insert" /\ core' = core
        /\ constat' = [constat EXCEPT ![p] = IF @ = None THEN row ELSE @]
    BY <1>0 DEF Insert
  <1>2. row.id \in Ids /\ row.status = "pending" /\ row \in Row /\ None \notin Ids
    BY <1>1, ConstatAssumption DEF IInv, Signed, TypeOK, Row, Statuses
  <1>3. row.id = runner[r].id
    OBVIOUS
  <1> HIDE DEF row
  <1>4. CASE constat[p] # None
    <2>1. constat' = constat
      BY <1>1, <1>4, Tables
    <2> QED BY <1>1, <2>1, Stutters
  <1>5. CASE constat[p] = None
    <2>1. constat' = [constat EXCEPT ![p] = row] /\ row # None
      BY <1>1, <1>2, <1>5, Tables
    <2>2. IdsIn(constat') = [IdsIn(constat) EXCEPT ![p] = row.id]
      BY <1>1, <1>2, <2>1, ConstatIds
    <2>3. IdsIn(constat)[p] = None /\ \A q \in Pairs : IdsIn(constat)[q] # row.id
      BY <1>1, <1>2, <1>3, <1>5 DEF IdsIn, Own
    <2>4. Told' = Told
      BY <1>1, <1>2, <1>5, <2>1, Tables DEF Told
    <2>5. PICK id \in Ids : id = row.id
      BY <1>2
    <2>6. Promise!Certify(p, id)
      BY <1>1, <2>2, <2>3, <2>4, <2>5 DEF Promise!Certify, Told
    <2> QED BY <2>6 DEF Promise!Next
  <1> QED BY <1>4, <1>5

\* What CORE creates bills the constat the Vault keeps.
LEMMA CreatePromise ==
  ASSUME IInv, NEW r \in Runners, Posting(r), NEW state \in CoreStates, Create(r, state),
         UNCHANGED constat
  PROVE  Promise!Next
  <1>0. PICK p \in Pairs : p = runner[r].pair
    BY DEF IInv, Working, Posting
  <1> DEFINE new == [id |-> runner[r].id, state |-> state]
  <1>1. p \in Pairs /\ constat[p] # None /\ runner[r].id = constat[p].id
    BY <1>0 DEF IInv, Holds, Sending, Posting
  <1>2. new \in Received /\ new.id = constat[p].id /\ new.state = state
    BY <1>1, Types DEF Row, Received
  <1>3. core[p] = None /\ core' = [core EXCEPT ![p] = new]
    BY <1>0 DEF Create
  <1> HIDE DEF new
  <1>4. IdsIn(core') = [IdsIn(core) EXCEPT ![p] = constat[p].id]
    BY <1>1, <1>2, <1>3, CoreIds
  <1>5. IdsIn(constat)[p] = constat[p].id /\ constat[p].id # None /\ IdsIn(core)[p] = None
    BY <1>1, <1>3, Types, ConstatAssumption DEF IdsIn, Row
  <1>6. Invoiced' = Invoiced \/ Invoiced' = Invoiced \cup {p}
    <2>1. \A q \in Pairs : core'[q] = IF q = p THEN new ELSE core[q]
      BY <1>3, Tables
    <2>2. CASE state = "invoiced"
      BY <1>1, <1>2, <2>1, <2>2, Tables DEF Invoiced
    <2>3. CASE state # "invoiced"
      BY <1>1, <1>2, <1>3, <2>1, <2>3, Tables DEF Invoiced
    <2> QED BY <2>2, <2>3
  <1>7. Promise!Bill(p)
    BY <1>4, <1>5, <1>6 DEF Promise!Bill, Invoiced
  <1> QED BY <1>1, <1>7 DEF Promise!Next

\* An outcome says, or unsays, that the constat is transmitted.
LEMMA SettlePromise ==
  ASSUME IInv, NEW r \in Runners, runner[r].step \in Sending, NEW status \in Statuses,
         status = "transmitted" => core[runner[r].pair] # None, Settle(r, status)
  PROVE  Promise!Next
  <1>0. PICK p \in Pairs : p = runner[r].pair
    BY DEF IInv, Working, Sending
  <1> DEFINE row == [constat[p] EXCEPT !.status = status]
  <1>1. p \in Pairs /\ constat[p] # None /\ constat[p] \in Row /\ core' = core
    BY <1>0, Types DEF IInv, Holds, Settle
  <1>2. row \in Row /\ row.id = constat[p].id /\ row.status = status
    BY <1>1 DEF Row
  <1>3. constat' = [constat EXCEPT ![p] = row]
    BY <1>0, <1>1, Tables DEF Settle
  <1> HIDE DEF row
  <1>4. IdsIn(constat') = IdsIn(constat)
    <2>1. IdsIn(constat') = [IdsIn(constat) EXCEPT ![p] = row.id]
      BY <1>1, <1>2, <1>3, ConstatIds
    <2>2. IdsIn(constat)[p] = row.id
      BY <1>1, <1>2 DEF IdsIn
    <2>3. IdsIn(constat) = [q \in Pairs |-> IdsIn(constat)[q]]
      BY DEF IdsIn
    <2> QED BY <2>1, <2>2, <2>3
  <1>5. \A q \in Pairs : constat'[q] = IF q = p THEN row ELSE constat[q]
    BY <1>3, Tables
  <1>6. CASE status = "transmitted"
    <2>1. Told' = Told \cup {p}
      BY <1>1, <1>2, <1>5, <1>6, Tables DEF Told
    <2>2. IdsIn(core)[p] # None
      BY <1>0, <1>1, <1>6, Types, ConstatAssumption DEF IdsIn, Received
    <2>3. Promise!Tell(p)
      BY <1>1, <1>4, <2>1, <2>2 DEF Promise!Tell, Told
    <2> QED BY <1>1, <2>3 DEF Promise!Next
  <1>7. CASE status # "transmitted"
    <2>1. Told' = Told \ {p}
      BY <1>1, <1>2, <1>5, <1>7 DEF Told
    <2>2. Promise!Untell(p)
      BY <1>1, <1>4, <2>1 DEF Promise!Untell, Told
    <2> QED BY <1>1, <2>2 DEF Promise!Next
  <1> QED BY <1>6, <1>7

LEMMA InvoicePromise == ASSUME IInv, NEW p \in Pairs, Invoice(p) PROVE Promise!Next
  <1> DEFINE new == [core[p] EXCEPT !.state = "invoiced"]
  <1>1. core[p] \in Received /\ core[p] # None /\ core[p].state # "invoiced" /\ constat' = constat
    BY Types DEF Invoice
  <1>2. new \in Received /\ new.id = core[p].id /\ new.state = "invoiced"
    BY <1>1 DEF Received, CoreStates
  <1>3. core' = [core EXCEPT ![p] = new]
    BY Tables DEF Invoice
  <1> HIDE DEF new
  <1>4. IdsIn(core') = IdsIn(core)
    <2>1. IdsIn(core') = [IdsIn(core) EXCEPT ![p] = new.id]
      BY <1>2, <1>3, CoreIds
    <2>2. IdsIn(core)[p] = new.id
      BY <1>1, <1>2 DEF IdsIn
    <2>3. IdsIn(core) = [q \in Pairs |-> IdsIn(core)[q]]
      BY DEF IdsIn
    <2> QED BY <2>1, <2>2, <2>3
  <1>5. \A q \in Pairs : core'[q] = IF q = p THEN new ELSE core[q]
    BY <1>3, Tables
  <1>6. Invoiced' = Invoiced \cup {p} /\ p \notin Invoiced
    BY <1>1, <1>2, <1>5, Tables DEF Invoiced
  <1>7. IdsIn(core)[p] # None
    BY <1>1, ConstatAssumption DEF IdsIn, Received
  <1>8. Promise!Invoice(p)
    BY <1>1, <1>4, <1>6, <1>7 DEF Promise!Invoice, Invoiced
  <1> QED BY <1>8 DEF Promise!Next

\* Each step of the Vault and CORE is a step of the promise, or leaves what it
\* speaks of alone.
LEMMA StepPromise == IInv /\ Own /\ [Next]_vars => [Promise!Next]_(Promise!vars)
  <1> SUFFICES ASSUME IInv, Own, [Next]_vars PROVE [Promise!Next]_(Promise!vars)
    OBVIOUS
  <1>1. CASE UNCHANGED <<constat, core>>
    BY <1>1, Stutters
  <1>2. ASSUME NEW r \in Runners, Work(r) PROVE [Promise!Next]_(Promise!vars)
    <2>1. CASE Insert(r)
      BY <2>1, InsertPromise
    <2>2. CASE Post(r)
      <3>1. Posting(r) /\ constat' = constat
        BY <2>2 DEF Post, PostReceived, PostReceivedUnseen, PostDuplicate, PostUndelivered,
                    PostRefused, Reaches
      <3>2. ASSUME NEW state \in CoreStates, Create(r, state) PROVE Promise!Next
        BY <3>1, <3>2, CreatePromise
      <3>3. (\E state \in CoreStates : Create(r, state)) \/ core' = core
        BY <2>2 DEF Post, PostReceived, PostReceivedUnseen, PostDuplicate, PostUndelivered,
                    PostRefused, CoreStates
      <3> QED BY <1>1, <3>1, <3>2, <3>3
    <2>3. CASE RecordTransmitted(r)
      BY <2>3, SettlePromise DEF RecordTransmitted, Sending, Statuses, IInv, Heard
    <2>4. CASE RecordFailed(r)
      BY <2>4, SettlePromise DEF RecordFailed, Sending, Statuses
    <2>5. CASE Build(r) \/ Start(r)
      BY <1>1, <2>5 DEF Build, Start
    <2> QED BY <1>2, <2>1, <2>2, <2>3, <2>4, <2>5 DEF Work
  <1>3. ASSUME NEW p \in Pairs, Invoice(p) PROVE [Promise!Next]_(Promise!vars)
    BY <1>3, InvoicePromise
  <1> QED BY <1>1, <1>2, <1>3 DEF Next, vars, Generate, Retransmit, Stop

\* For any processes and faults, the Vault and CORE keep what ConstatPromise
\* says: one constat per pair, billed as it is kept, invoiced once
\* (constat.go:190-204, 315-329, 587-660).
THEOREM ConstatImplementsPromise == Spec => Implements
  <1>1. Init => Own
    BY DEF Init, Own, Idle
  <1>2. Init => Promise!Init
    BY DEF Init, Promise!Init, IdsIn
  <1> QED
    BY <1>1, <1>2, Invariant, Inductive, OwnInductive, StepPromise, PTL
    DEF Spec, Implements, Promise!Spec

-----------------------------------------------------------------------------
\* A single process.  Current: the status it holds is that of the row, and it
\* only sends what is not transmitted yet.

Current ==
    \A r \in Runners :
        /\ runner[r].step = "start" => runner[r].status = constat[runner[r].pair].status
        /\ runner[r].step \in {"post", "ok", "failed"} =>
              constat[runner[r].pair].status # "transmitted"

\* Holding a row that is the one in the table.
LEMMA HoldIsCurrent ==
  ASSUME IInv, \A v, w \in Runners : v = w, NEW r \in Runners, NEW p \in Pairs,
         NEW row, row = constat'[p], NEW send \in BOOLEAN, Hold(r, p, row, send)
  PROVE  Current'
  <1> DEFINE m == IF send THEN [Idle EXCEPT !.step = "start", !.pair = p, !.id = row.id,
                                            !.status = row.status]
                          ELSE Idle
  <1>1. runner' = [runner EXCEPT ![r] = m]
    BY DEF Hold
  <1>2. m.step = "start" => m.pair = p /\ m.status = row.status
    BY DEF Idle
  <1>3. m.step \in {"idle", "start"}
    BY DEF Idle
  <1> HIDE DEF m
  <1>4. runner'[r] = m
    BY <1>1 DEF IInv, TypeOK
  <1> QED BY <1>2, <1>3, <1>4 DEF Current

\* The process is at a step where it holds nothing to send.
LEMMA NothingHeld ==
  ASSUME \A v, w \in Runners : v = w, NEW r \in Runners,
         runner'[r].step \notin {"start", "post", "ok", "failed"}
  PROVE  Current'
  BY DEF Current

LEMMA CurrentInductive ==
  ASSUME IInv, Current, [Next]_vars, \A v, w \in Runners : v = w
  PROVE  Current'
  <1>1. ASSUME NEW r \in Runners, runner' = [runner EXCEPT ![r] = Idle] PROVE Current'
    BY <1>1, NothingHeld DEF Idle, IInv, TypeOK
  <1>2. ASSUME NEW r \in Runners, NEW p \in Pairs, NEW send \in BOOLEAN, Generate(r, p, send)
        PROVE  Current'
    <2>1. CASE constat[p] # None
      <3>1. Hold(r, p, constat[p], send) /\ constat'[p] = constat[p]
        BY <1>2, <2>1 DEF Generate
      <3> QED BY <3>1, HoldIsCurrent
    <2>2. CASE constat[p] = None
      <3>1. runner' = [runner EXCEPT ![r] = [Idle EXCEPT !.step = "build", !.pair = p, !.send = send]]
        BY <1>2, <2>2 DEF Generate
      <3>2. runner'[r].step = "build"
        BY <3>1 DEF IInv, TypeOK, Idle
      <3> QED BY <3>2, NothingHeld
    <2> QED BY <2>1, <2>2
  <1>3. ASSUME NEW r \in Runners, NEW p \in Pairs, Retransmit(r, p) PROVE Current'
    <2>1. Hold(r, p, constat[p], TRUE) /\ constat'[p] = constat[p]
      BY <1>3 DEF Retransmit
    <2> QED BY <2>1, HoldIsCurrent
  <1>4. ASSUME NEW r \in Runners, Build(r) PROVE Current'
    <2>1. runner'[r].step = "insert"
      BY <1>4 DEF Build, IInv, TypeOK
    <2> QED BY <2>1, NothingHeld
  <1>5. ASSUME NEW r \in Runners, Insert(r) PROVE Current'
    <2>1. PICK p \in Pairs : p = runner[r].pair
      BY <1>5 DEF Insert, IInv, Working
    <2>2. Hold(r, p, constat'[p], runner[r].send) /\ runner[r].send \in BOOLEAN
      BY <1>5, <2>1, Memories DEF Insert, Memory
    <2> QED BY <2>2, HoldIsCurrent
  <1>6. ASSUME NEW r \in Runners, Start(r) PROVE Current'
    <2>1. CASE runner[r].status = "transmitted"
      BY <1>1, <1>6, <2>1 DEF Start
    <2>2. CASE runner[r].status # "transmitted"
      <3>1. GoTo(r, "post") /\ constat' = constat /\ runner[r].step = "start"
        BY <1>6, <2>2 DEF Start
      <3>2. runner'[r].step = "post" /\ runner'[r].pair = runner[r].pair
        BY <3>1 DEF GoTo, IInv, TypeOK
      <3>3. constat'[runner'[r].pair].status # "transmitted"
        BY <2>2, <3>1, <3>2 DEF Current
      <3> QED BY <3>2, <3>3 DEF Current
    <2> QED BY <2>1, <2>2
  <1>7. ASSUME NEW r \in Runners, Post(r) PROVE Current'
    <2>1. Posting(r) /\ constat' = constat
      BY <1>7 DEF Post, PostReceived, PostReceivedUnseen, PostDuplicate, PostUndelivered,
                  PostRefused, Reaches
    <2>2. runner'[r].step \in {"post", "ok", "failed"} /\ runner'[r].pair = runner[r].pair
      <3>1. CASE Retry(r)
        BY <2>1, <3>1, RetryMemory DEF IInv, TypeOK
      <3>2. CASE GoTo(r, "ok") \/ GoTo(r, "failed")
        BY <3>2 DEF GoTo, IInv, TypeOK
      <3> QED BY <1>7, <3>1, <3>2 DEF Post, PostReceived, PostReceivedUnseen, PostDuplicate,
                                      PostUndelivered, PostRefused
    <2>3. constat'[runner'[r].pair].status # "transmitted"
      BY <2>1, <2>2 DEF Current, Posting
    <2> QED BY <2>2, <2>3 DEF Current
  <1>8. ASSUME NEW r \in Runners, Work(r) PROVE Current'
    <2>1. CASE RecordTransmitted(r) \/ RecordFailed(r)
      BY <1>1, <2>1 DEF RecordTransmitted, RecordFailed, Settle
    <2> QED BY <1>4, <1>5, <1>6, <1>7, <1>8, <2>1 DEF Work
  <1>9. ASSUME NEW r \in Runners, Stop(r) PROVE Current'
    BY <1>1, <1>9 DEF Stop
  <1>10. CASE UNCHANGED <<constat, runner>>
    BY <1>10 DEF Current
  <1> QED BY <1>2, <1>3, <1>8, <1>9, <1>10 DEF Next, vars, Invoice

\* With a single process, 'transmitted' is final: no later attempt takes it
\* back (constat.go:576, 763-789).
THEOREM SingleProcessIsFinal ==
    ASSUME \A v, w \in Runners : v = w
    PROVE  Spec => TransmittedIsFinal
  <1> DEFINE Stays == \A p \in Pairs : constat[p] # None /\ constat[p].status = "transmitted" =>
                          constat'[p] # None /\ constat'[p].status = "transmitted"
  <1>1. Init => Current
    BY DEF Init, Current, Idle
  <1>2. IInv /\ Current /\ [Next]_vars => Current'
    BY CurrentInductive
  <1>3. IInv /\ Current /\ [Next]_vars => [Stays]_vars
    <2> SUFFICES ASSUME IInv, Current, [Next]_vars PROVE [Stays]_vars
      OBVIOUS
    <2>1. CASE constat' = constat
      BY <2>1
    <2>2. ASSUME NEW r \in Runners, Insert(r) PROVE Stays
      BY <2>2, Tables DEF Insert
    <2>3. ASSUME NEW r \in Runners, NEW status \in Statuses, Settle(r, status),
                 runner[r].step \in {"ok", "failed"}
          PROVE  Stays
      <3>1. constat[runner[r].pair].status # "transmitted"
        BY <2>3 DEF Current
      <3>2. \A p \in Pairs : p # runner[r].pair => constat'[p] = constat[p]
        BY <2>3, Tables DEF Settle
      <3> QED BY <3>1, <3>2
    <2>4. ASSUME NEW r \in Runners, Work(r) PROVE Stays
      <3>1. CASE RecordTransmitted(r) \/ RecordFailed(r)
        BY <2>3, <3>1 DEF RecordTransmitted, RecordFailed, Statuses
      <3>2. CASE Build(r) \/ Start(r) \/ Post(r)
        BY <2>1, <3>2 DEF Build, Start, Post, PostReceived, PostReceivedUnseen, PostDuplicate,
                          PostUndelivered, PostRefused, Reaches
      <3> QED BY <2>2, <2>4, <3>1, <3>2 DEF Work
    <2> QED BY <2>1, <2>4 DEF Next, vars, Generate, Retransmit, Stop, Invoice
  <1> QED BY <1>1, <1>2, <1>3, Invariant, PTL DEF Spec, TransmittedIsFinal
==============================================================================
