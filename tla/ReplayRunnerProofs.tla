--------------------------- MODULE ReplayRunnerProofs ---------------------------
(***************************************************************************)
(* Proofs about ReplayRunner, for any events, jobs, runners, batches,      *)
(* attempts and faults, and any number of mishaps.  What a runner has      *)
(* copied stays true while others work: the tables only grow (Grows), and  *)
(* an event that comes later has a number above all that were copied.      *)
(***************************************************************************)
EXTENDS ReplayRunner, FiniteSetTheorems, TLAPS

USE DEF logs

Applied  == Invoices \cup Payments
Known(j) == job[j].status # "none"

Numbered == \A e \in Events : sequence[e] <= counter

Progress ==
    \A j \in Jobs : /\ Known(j) => /\ job[j].last <= counter /\ job[j].until <= counter
                                    /\ Handled(j, job[j].last)
                    /\ ~Known(j) => job[j].mode # "apply"

\* A request that a runner waits for is the one it has posted.
Awaited ==
    /\ \A q \in requests : q.by # None => runner[q.by].pc = "wait" /\ runner[q.by].event = q.event
    /\ \A p, q \in requests : p.by = q.by /\ p.by # None => p = q

\* What a poll has copied of a job is still true of it.
Copied(r) == \A q \in runner[r].todo : Known(q.id) /\ q.last <= counter /\ Handled(q.id, q.last)

\* The events of the job up to the end of the batch are handled, or still in it.
Left(r) ==
    LET j == runner[r].job IN
    job[j].mode = "apply" =>
        \A e \in job[j].range \cap Applied :
            sequence[e] \in 1..runner[r].last => e \in mapping \cup failed[j] \cup runner[r].page

\* The batch is the last: it ends behind every event the job was asked for.
Reached(r) ==
    LET j == runner[r].job IN
    \A e \in job[j].range : sequence[e] \in 1..job[j].until => sequence[e] <= runner[r].last

Paid(r) ==
    runner[r].event \in Payments =>
        \A i \in Invoices \cap job[runner[r].job].range :
            sequence[i] \in 1..runner[r].last => i \in mapping \cup failed[runner[r].job]

Sound(r) ==
    /\ Copied(r)
    /\ runner[r].pc # "idle" => runner[r].job \in Jobs /\ Known(runner[r].job)
    /\ runner[r].pc = "list" =>
        runner[r].after <= counter /\ Handled(runner[r].job, runner[r].after)
    /\ runner[r].pc \in {"next", "post", "wait"} =>
        /\ runner[r].last <= counter /\ Left(r)
        /\ ~runner[r].more => Reached(r)
    /\ runner[r].pc = "completed" => Handled(runner[r].job, job[runner[r].job].until)
    /\ runner[r].pc \in {"post", "wait"} <=> runner[r].event # None
    /\ Paid(r)

Tables ==
    /\ sequence \in [Events -> Nat] /\ counter \in Nat
    /\ job \in [Jobs -> [status : Statuses, mode : Modes, range : Ranges \cup {{}},
                         last : Nat, until : Nat]]
    /\ failed \in [Jobs -> SUBSET Events] /\ log \in [Jobs -> SUBSET Events]
    /\ mapping \subseteq Events /\ posted \in [Events -> Nat]
    /\ mishaps \in 0..Mishaps

IInv == /\ Tables /\ runner \in [Runners -> Memory] /\ requests \subseteq Request
        /\ Numbered /\ Progress /\ CompletedIsHandled /\ AppliedOnce /\ Awaited
        /\ \A r \in Runners : Sound(r)

-----------------------------------------------------------------------------
\* Numbers stay, and new ones are above all there were; a job that was asked for
\* keeps what it was asked for; nothing is forgotten.
Grows ==
    /\ \A e \in Events : sequence'[e] = sequence[e] \/ sequence'[e] > counter
    /\ counter <= counter'
    /\ \A j \in Jobs : Known(j) => /\ job'[j].status # "none" /\ job'[j].mode = job[j].mode
                                   /\ job'[j].range = job[j].range /\ job'[j].until = job[j].until
    /\ \A j \in Jobs : failed[j] \subseteq failed'[j]
    /\ mapping \subseteq mapping'

LEMMA RangesAreEvents == ASSUME Tables, NEW j \in Jobs PROVE job[j].range \subseteq Events
  BY ReplayAssumption DEF Tables

\* What is handled of a job up to a number there is stays handled.
LEMMA HandledStays ==
  ASSUME IInv, Tables', Grows, NEW j \in Jobs, Known(j), NEW n \in Nat, n <= counter, Handled(j, n)
  PROVE  job'[j].mode = "apply" =>
             \A e \in job'[j].range \cap Applied :
                 sequence'[e] \in 1..n => e \in mapping' \cup failed'[j]
  <1> SUFFICES ASSUME job'[j].mode = "apply", NEW e \in job'[j].range \cap Applied,
                      sequence'[e] \in 1..n
               PROVE  e \in mapping' \cup failed'[j]
    OBVIOUS
  <1>1. e \in Events /\ job[j].mode = "apply" /\ e \in job[j].range
    BY RangesAreEvents DEF Grows, IInv
  <1>2. sequence[e] \in 1..n
    BY <1>1 DEF Grows, IInv, Tables
  <1>3. e \in mapping \cup failed[j]
    BY <1>1, <1>2 DEF Handled, Applied
  <1> QED BY <1>3 DEF Grows

LEMMA OthersStaySound ==
  ASSUME IInv, Tables', Grows, NEW s \in Runners, runner'[s] = runner[s]
  PROVE  Sound(s)'
  <1> DEFINE m == runner[s]
             j == runner[s].job
  <1>0. m \in Memory /\ Sound(s) /\ counter \in Nat /\ counter' \in Nat /\ counter <= counter'
    BY DEF IInv, Tables, Grows
  <1>1. Copied(s)'
    <2> SUFFICES ASSUME NEW q \in runner[s].todo
                 PROVE  Known(q.id)' /\ q.last <= counter' /\ Handled(q.id, q.last)'
      BY DEF Copied
    <2>1. q.id \in Jobs /\ q.last \in Nat /\ Known(q.id) /\ q.last <= counter /\ Handled(q.id, q.last)
      BY <1>0 DEF Sound, Copied, Memory, Queued
    <2>2. Known(q.id)' /\ q.last <= counter'
      BY <1>0, <2>1 DEF Grows, Known
    <2> QED BY <2>1, <2>2, HandledStays DEF Handled, Applied
  <1>2. m.pc # "idle" => j \in Jobs /\ Known(j) /\ Known(j)'
    BY <1>0 DEF Sound, Grows, Known
  <1>3. m.pc = "list" => m.after <= counter' /\ Handled(j, m.after)'
    <2> HAVE m.pc = "list"
    <2>1. m.after \in Nat /\ m.after <= counter /\ Handled(j, m.after) /\ j \in Jobs /\ Known(j)
      BY <1>0, <1>2 DEF Sound, Memory
    <2>2. m.after <= counter'
      BY <1>0, <2>1
    <2> QED BY <2>1, <2>2, HandledStays DEF Handled, Applied
  <1>4. m.pc = "completed" => Handled(j, job[j].until)'
    <2> HAVE m.pc = "completed"
    <2>1. Handled(j, job[j].until) /\ j \in Jobs /\ Known(j) /\ job[j].until \in Nat
          /\ job[j].until <= counter /\ job'[j].until = job[j].until
      BY <1>0, <1>2 DEF Sound, IInv, Tables, Progress, Grows
    <2> QED BY <2>1, HandledStays DEF Handled, Applied
  <1>5. m.pc \in {"next", "post", "wait"} =>
            m.last <= counter' /\ Left(s)' /\ (~m.more => Reached(s)')
    <2> HAVE m.pc \in {"next", "post", "wait"}
    <2>1. m.last \in Nat /\ m.last <= counter /\ j \in Jobs /\ Known(j) /\ m.last <= counter'
      BY <1>0, <1>2 DEF Sound, Memory
    <2>2. Left(s)'
      <3> SUFFICES ASSUME job'[j].mode = "apply", NEW e \in job'[j].range \cap Applied,
                          sequence'[e] \in 1..m.last
                   PROVE  e \in mapping' \cup failed'[j] \cup m.page
        BY DEF Left
      <3>1. e \in Events /\ job[j].mode = "apply" /\ e \in job[j].range
        BY <2>1, RangesAreEvents DEF Grows, IInv
      <3>2. sequence[e] \in 1..m.last
        <4>1. sequence[e] \in Nat /\ (sequence'[e] = sequence[e] \/ sequence'[e] > counter)
          BY <3>1 DEF Grows, IInv, Tables
        <4> QED BY <1>0, <2>1, <4>1
      <3>3. e \in mapping \cup failed[j] \cup m.page
        <4>1. Left(s)
          BY <1>0 DEF Sound
        <4> QED BY <3>1, <3>2, <4>1 DEF Left
      <3> QED BY <2>1, <3>3 DEF Grows
    <2>3. ~m.more => Reached(s)'
      <3> SUFFICES ASSUME ~m.more, NEW e \in job'[j].range, sequence'[e] \in 1..job'[j].until
                   PROVE  sequence'[e] <= m.last
        BY DEF Reached
      <3>1. e \in Events /\ e \in job[j].range /\ job'[j].until = job[j].until
        BY <2>1, RangesAreEvents DEF Grows, IInv
      <3>2. job[j].until \in Nat /\ job[j].until <= counter
        BY <2>1 DEF IInv, Tables, Progress
      <3>3. sequence'[e] = sequence[e]
        BY <3>1, <3>2, <1>0 DEF Grows, IInv, Tables
      <3> QED BY <1>0, <3>1, <3>3 DEF Sound, Reached
    <2> QED BY <2>1, <2>2, <2>3
  <1>6. Paid(s)'
    <2> SUFFICES ASSUME m.event \in Payments, NEW i \in Invoices \cap job'[j].range,
                        sequence'[i] \in 1..m.last
                 PROVE  i \in mapping' \cup failed'[j]
      BY DEF Paid
    <2>1. m.event # None
      BY ReplayAssumption
    <2>2. m.pc \in {"post", "wait"}
      BY <1>0, <2>1 DEF Sound
    <2>3. j \in Jobs /\ Known(j) /\ m.last \in Nat /\ m.last <= counter
      BY <1>0, <1>2, <2>2 DEF Sound, Memory
    <2>4. i \in Events /\ i \in job[j].range
      BY <2>3, RangesAreEvents DEF Grows, IInv
    <2>5. sequence[i] \in 1..m.last
      <3> HIDE DEF m
      <3>1. /\ sequence[i] \in Nat /\ counter \in Nat
            /\ sequence'[i] = sequence[i] \/ sequence'[i] > counter
        BY <2>4 DEF Grows, IInv, Tables
      <3>2. sequence'[i] \in Nat
        BY <2>4 DEF Tables
      <3> QED BY <2>3, <3>1, <3>2
    <2>6. i \in mapping \cup failed[j]
      BY <1>0, <2>4, <2>5 DEF Sound, Paid
    <2> QED BY <2>3, <2>6 DEF Grows
  <1>7. m.pc \in {"post", "wait"} <=> m.event # None
    BY <1>0 DEF Sound
  <1> QED BY <1>1, <1>2, <1>3, <1>4, <1>5, <1>6, <1>7 DEF Sound

\* A step of one runner, or of none, in tables that grow.
LEMMA Combine ==
  ASSUME IInv, Grows, Tables', Numbered', Progress', CompletedIsHandled', AppliedOnce',
         requests' \subseteq Request, Awaited', runner' \in [Runners -> Memory],
         \A s \in Runners : runner'[s] = runner[s] \/ Sound(s)'
  PROVE  IInv'
  BY OthersStaySound DEF IInv

\* Whoever a runner does not wait for, its requests are nobody's.
LEMMA AwaitedStays ==
  ASSUME IInv, NEW r \in Runners, runner[r].pc # "wait", requests' = requests,
         \A s \in Runners : s # r => runner'[s] = runner[s]
  PROVE  requests' \subseteq Request /\ Awaited'
  <1>1. \A q \in requests : q.by # None => q.by \in Runners /\ q.by # r
    BY DEF IInv, Awaited, Request
  <1> QED BY <1>1 DEF IInv, Awaited

\* The tables are left as they are, but for the count of mishaps.
LEMMA StillTables ==
  ASSUME IInv, UNCHANGED <<sequence, counter, job, failed, log, mapping, posted>>,
         mishaps' \in 0..Mishaps
  PROVE  Grows /\ Tables' /\ Numbered' /\ Progress' /\ CompletedIsHandled' /\ AppliedOnce'
  <1>1. Tables' /\ Grows /\ Numbered'
    BY DEF IInv, Tables, Grows, Known, Numbered
  <1>2. Progress' /\ CompletedIsHandled' /\ AppliedOnce'
    BY DEF IInv, Progress, CompletedIsHandled, AppliedOnce, Handled, Known
  <1> QED BY <1>1, <1>2

LEMMA MishapsBounded ==
  ASSUME IInv
  PROVE  mishaps \in 0..Mishaps /\ \A fault : Mishap(fault) => mishaps' \in 0..Mishaps
  BY ReplayAssumption DEF IInv, Tables, Mishap

\* One runner moves on in its memory alone.
LEMMA QuietMove ==
  ASSUME IInv, NEW r \in Runners, runner[r].pc # "wait",
         NEW m \in Memory, runner' = [runner EXCEPT ![r] = m],
         UNCHANGED <<sequence, counter, job, failed, log, requests, mapping, posted>>,
         mishaps' \in 0..Mishaps, Sound(r)'
  PROVE  IInv'
  <1>1. runner' \in [Runners -> Memory] /\ \A s \in Runners : s # r => runner'[s] = runner[s]
    BY DEF IInv
  <1>2. requests' \subseteq Request /\ Awaited'
    BY <1>1, AwaitedStays
  <1> QED BY <1>1, <1>2, StillTables, Combine

\* A row of replay_jobs is written, with what is true of Odoo, or the write is lost.
JobRow == [status : Statuses, mode : Modes, range : Ranges \cup {{}}, last : Nat, until : Nat]

LEMMA JobWritten ==
  ASSUME IInv, NEW j \in Jobs, Known(j), NEW x \in JobRow,
         x.mode = job[j].mode, x.range = job[j].range, x.until = job[j].until,
         x.status # "none", x.last <= counter, Handled(j, x.last),
         x.status = "completed" => Handled(j, x.until),
         Write([job EXCEPT ![j] = x]),
         UNCHANGED <<sequence, counter, failed, log, mapping, posted>>
  PROVE  Grows /\ Tables' /\ Numbered' /\ Progress' /\ CompletedIsHandled' /\ AppliedOnce'
  <1>1. CASE job' = [job EXCEPT ![j] = x] /\ UNCHANGED mishaps
    <2>1. Tables' /\ Numbered' /\ AppliedOnce'
      BY <1>1 DEF IInv, Tables, JobRow, Numbered, AppliedOnce
    <2>2. \A k \in Jobs : job'[k] = IF k = j THEN x ELSE job[k]
      BY <1>1 DEF IInv, Tables
    <2>3. Grows
      BY <2>2 DEF Grows, Known, IInv, Tables
    <2>4. Progress'
      BY <2>2 DEF Progress, Handled, IInv, Known
    <2>5. CompletedIsHandled'
      BY <2>2 DEF CompletedIsHandled, Handled, IInv
    <2> QED BY <2>1, <2>3, <2>4, <2>5
  <1>2. CASE job' = job /\ mishaps' \in 0..Mishaps
    BY <1>2, StillTables
  <1> QED
    BY <1>1, <1>2, MishapsBounded DEF Write

-----------------------------------------------------------------------------
\* Events and jobs come.

LEMMA IngestKeeps == ASSUME IInv, NEW e \in Events, Ingest(e) PROVE IInv'
  <1>1. counter' = counter + 1 /\ sequence' = [sequence EXCEPT ![e] = counter + 1]
        /\ UNCHANGED <<job, failed, log, runner, odoo, mishaps>>
    BY DEF Ingest
  <1>2. Tables' /\ Grows /\ Numbered'
    BY <1>1 DEF IInv, Tables, Grows, Numbered, Known, odoo
  <1>3. \A j \in Jobs : Known(j) => job[j].last \in Nat /\ job[j].until \in Nat
                                /\ job[j].last <= counter /\ job[j].until <= counter
    BY DEF IInv, Tables, Progress
  <1>4. Progress'
    <2> SUFFICES ASSUME NEW j \in Jobs, Known(j)
                 PROVE  job[j].last <= counter' /\ job[j].until <= counter' /\ Handled(j, job[j].last)'
      BY <1>1 DEF IInv, Progress, Known
    <2>1. Handled(j, job[j].last)
      BY DEF IInv, Progress
    <2>2. job[j].last <= counter' /\ job[j].until <= counter'
      BY <1>1, <1>3 DEF IInv, Tables
    <2> QED BY <1>1, <1>2, <1>3, <2>1, <2>2, HandledStays DEF Handled, Applied
  <1>5. CompletedIsHandled'
    <2> SUFFICES ASSUME NEW j \in Jobs, job[j].status = "completed"
                 PROVE  Handled(j, job[j].until)'
      BY <1>1 DEF CompletedIsHandled
    <2>1. Handled(j, job[j].until) /\ Known(j)
      BY DEF IInv, CompletedIsHandled, Known
    <2> QED BY <1>1, <1>2, <1>3, <2>1, HandledStays DEF Handled, Applied
  <1>6. AppliedOnce' /\ requests' \subseteq Request /\ Awaited' /\ runner' \in [Runners -> Memory]
    BY <1>1 DEF IInv, AppliedOnce, Awaited, odoo
  <1> QED BY <1>1, <1>2, <1>4, <1>5, <1>6, Combine

LEMMA CreateJobKeeps ==
  ASSUME IInv, NEW j \in Jobs, NEW mode \in Modes, NEW range \in Ranges, CreateJob(j, mode, range)
  PROVE  IInv'
  <1> DEFINE x == [status |-> "queued", mode |-> mode, range |-> range, last |-> 0, until |-> counter]
  <1>1. ~Known(j) /\ job' = [job EXCEPT ![j] = x]
        /\ UNCHANGED <<sequence, counter, failed, log, runner, odoo, mishaps>>
    BY DEF CreateJob, Known
  <1>2. \A k \in Jobs : job'[k] = IF k = j THEN x ELSE job[k]
    BY <1>1 DEF IInv, Tables
  <1>3. Tables' /\ Numbered'
    BY <1>1 DEF IInv, Tables, Numbered, odoo, Statuses
  <1>4. Grows
    BY <1>1, <1>2 DEF Grows, Known, IInv, Tables, odoo
  <1>5. Progress' /\ CompletedIsHandled'
    BY <1>1, <1>2 DEF IInv, Tables, Progress, CompletedIsHandled, Handled, Known, odoo
  <1>6. AppliedOnce' /\ requests' \subseteq Request /\ Awaited' /\ runner' \in [Runners -> Memory]
    BY <1>1 DEF IInv, AppliedOnce, Awaited, odoo
  <1> QED BY <1>1, <1>3, <1>4, <1>5, <1>6, Combine

-----------------------------------------------------------------------------
\* The steps of a runner.

LEMMA IdleIsMemory == Idle \in Memory
  BY ReplayAssumption DEF Idle, Memory

LEMMA PollKeeps == ASSUME IInv, NEW r \in Runners, Poll(r) PROVE IInv'
  <1> PICK S \in SUBSET {j \in Jobs : job[j].status = "queued"} :
             runner' = [runner EXCEPT ![r].todo = {[id |-> j, last |-> job[j].last] : j \in S}]
    BY DEF Poll
  <1> DEFINE m == [Idle EXCEPT !.todo = {[id |-> j, last |-> job[j].last] : j \in S}]
  <1>1. runner[r] = Idle /\ UNCHANGED <<sequence, counter, job, failed, log, requests, mapping, posted, mishaps>>
    BY DEF Poll, odoo
  <1>2. m.todo \in SUBSET Queued
    BY DEF IInv, Tables, Queued, Idle
  <1>3. m \in Memory /\ runner' = [runner EXCEPT ![r] = m] /\ runner'[r] = m
    BY <1>1, <1>2, IdleIsMemory DEF Idle, Memory, IInv
  <1>4. Copied(r)'
    BY <1>1, <1>3 DEF Copied, IInv, Progress, Known, Handled, Idle
  <1>5. Sound(r)'
    BY <1>3, <1>4, ReplayAssumption DEF Sound, Idle, Paid
  <1>6. mishaps' \in 0..Mishaps /\ runner[r].pc # "wait"
    BY <1>1, MishapsBounded DEF Idle
  <1> QED BY <1>1, <1>3, <1>5, <1>6, QuietMove

LEMMA StartJobKeeps ==
  ASSUME IInv, NEW r \in Runners, NEW q \in runner[r].todo, StartJob(r, q)
  PROVE  IInv'
  <1> DEFINE pc == IF job[q.id].mode = "apply_without_url" THEN "failed" ELSE "list"
             m == [runner[r] EXCEPT !.todo = @ \ {q}, !.job = q.id, !.after = q.last, !.pc = pc]
             x == [job[q.id] EXCEPT !.status = "running"]
  <1>1. runner[r] \in Memory /\ Sound(r) /\ runner[r].pc = "idle"
    BY DEF IInv, StartJob
  <1>2. q.id \in Jobs /\ q.last \in Nat /\ Known(q.id) /\ q.last <= counter /\ Handled(q.id, q.last)
    BY <1>1 DEF Sound, Copied, Memory, Queued
  <1>3. m \in Memory /\ runner' = [runner EXCEPT ![r] = m] /\ runner'[r] = m
    BY <1>1, <1>2 DEF StartJob, Memory, IInv
  <1>4. Write([job EXCEPT ![q.id] = x]) /\ UNCHANGED <<sequence, counter, failed, log, mapping, posted, requests>>
    BY DEF StartJob, odoo
  <1>5. /\ x \in JobRow /\ x.mode = job[q.id].mode /\ x.range = job[q.id].range
        /\ x.until = job[q.id].until /\ x.status = "running" /\ x.last = job[q.id].last
    BY <1>2 DEF IInv, Tables, JobRow, Statuses
  <1>6. x.last <= counter /\ Handled(q.id, x.last)
    BY <1>2, <1>5 DEF IInv, Progress
  <1>7. Grows /\ Tables' /\ Numbered' /\ Progress' /\ CompletedIsHandled' /\ AppliedOnce'
    BY <1>2, <1>4, <1>5, <1>6, JobWritten
  <1>8. Copied(r)'
    <2> SUFFICES ASSUME NEW p \in m.todo
                 PROVE  Known(p.id)' /\ p.last <= counter' /\ Handled(p.id, p.last)'
      BY <1>3 DEF Copied
    <2>1. p.id \in Jobs /\ p.last \in Nat /\ Known(p.id) /\ p.last <= counter /\ Handled(p.id, p.last)
      BY <1>1 DEF Sound, Copied, Memory, Queued
    <2> QED BY <1>4, <1>7, <2>1, HandledStays DEF Handled, Applied, Grows, Known
  <1>9. Handled(q.id, q.last)' /\ Known(q.id)' /\ q.last <= counter'
    BY <1>2, <1>4, <1>7, HandledStays DEF Handled, Applied, Grows, Known
  <1>10. /\ m.pc \in {"list", "failed"} /\ m.job = q.id /\ m.after = q.last
         /\ m.event = runner[r].event
    BY <1>1 DEF Memory
  <1>11. runner[r].event = None
    BY <1>1 DEF Sound
  <1>12. Sound(r)'
    BY <1>2, <1>3, <1>8, <1>9, <1>10, <1>11, ReplayAssumption DEF Sound, Paid, Handled, Known
  <1>13. requests' \subseteq Request /\ Awaited' /\ runner' \in [Runners -> Memory]
         /\ \A s \in Runners : s # r => runner'[s] = runner[s]
    BY <1>1, <1>3, <1>4, AwaitedStays DEF IInv
  <1> QED BY <1>7, <1>12, <1>13, Combine

LEMMA ListKeeps == ASSUME IInv, NEW r \in Runners, List(r) PROVE IInv'
  <1> DEFINE j == runner[r].job
             S == After(j, runner[r].after)
  <1>1. PICK b \in Batches(S) :
          IF b = {} THEN runner' = [runner EXCEPT ![r].pc = "completed"]
          ELSE \E e \in b :
              /\ \A d \in b : sequence[d] <= sequence[e]
              /\ runner' = [runner EXCEPT ![r].pc = "next", ![r].page = b,
                                ![r].last = sequence[e], ![r].more = Cardinality(b) = BatchSize]
    BY DEF List
  <1>2. /\ runner[r].pc = "list" /\ runner[r].pc # "wait"
        /\ UNCHANGED <<sequence, counter, job, failed, log, requests, mapping, posted, mishaps>>
        /\ mishaps' \in 0..Mishaps
    BY MishapsBounded DEF List, odoo
  <1>3. /\ runner[r] \in Memory /\ Sound(r) /\ j \in Jobs /\ Known(j) /\ runner[r].event = None
        /\ runner[r].after \in Nat /\ Handled(j, runner[r].after)
    BY <1>2 DEF IInv, Sound, Memory
  <1>4. Copied(r) /\ job[j].range \subseteq Events /\ sequence \in [Events -> Nat] /\ counter \in Nat
        /\ job[j].until \in Nat
    BY <1>3, RangesAreEvents DEF Sound, IInv, Tables
  <1>5. b \subseteq S /\ S \subseteq job[j].range /\ \A e \in job[j].range : e \in S <=> sequence[e] > runner[r].after
    BY DEF Batches, After
  <1>6. IsFiniteSet(b) /\ Cardinality(b) \in Nat /\ Cardinality({}) = 0
    <2>1. b \subseteq Events
      BY <1>4, <1>5
    <2>2. IsFiniteSet(b)
      BY <2>1, ReplayAssumption, FS_Subset
    <2> QED BY <2>2, FS_CardinalityType, FS_EmptySet
  <1>7. Cardinality(b) # BatchSize => b = S
    BY <1>6, ReplayAssumption DEF Batches
  <1>8. CASE b = {}
    <2> DEFINE m == [runner[r] EXCEPT !.pc = "completed"]
    <2>1. m \in Memory /\ runner' = [runner EXCEPT ![r] = m] /\ runner'[r] = m
      BY <1>1, <1>3, <1>8 DEF Memory, IInv
    <2>2. S = {}
      BY <1>6, <1>7, <1>8, ReplayAssumption
    <2>3. Handled(j, job[j].until)
      BY <1>3, <1>4, <1>5, <2>2 DEF Handled
    <2>4. Sound(r)'
      BY <1>2, <1>3, <1>4, <2>1, <2>3, ReplayAssumption DEF Sound, Copied, Handled, Known, Paid
    <2> QED BY <1>2, <2>1, <2>4, QuietMove
  <1>9. CASE b # {}
    <2>1. PICK e \in b :
              /\ \A d \in b : sequence[d] <= sequence[e]
              /\ runner' = [runner EXCEPT ![r].pc = "next", ![r].page = b,
                                ![r].last = sequence[e], ![r].more = Cardinality(b) = BatchSize]
      BY <1>1, <1>9
    <2> DEFINE m == [runner[r] EXCEPT !.pc = "next", !.page = b, !.last = sequence[e],
                                      !.more = Cardinality(b) = BatchSize]
    <2>2. e \in Events /\ b \in SUBSET Events /\ sequence[e] \in Nat /\ sequence[e] <= counter
      BY <1>4, <1>5 DEF IInv, Numbered
    <2>3. m \in Memory /\ runner' = [runner EXCEPT ![r] = m] /\ runner'[r] = m
      BY <1>3, <2>1, <2>2 DEF Memory, IInv
    <2>4. m.pc = "next" /\ m.job = j /\ m.page = b /\ m.last = sequence[e]
          /\ m.todo = runner[r].todo /\ m.event = runner[r].event
      BY <1>3 DEF Memory
    <2>5. m.more = (Cardinality(b) = BatchSize)
      BY <1>3, Zenon DEF Memory
    <2>6. ASSUME NEW d \in job[j].range, sequence[d] <= sequence[e]
          PROVE  sequence[d] <= runner[r].after \/ d \in b
      <3>1. d \in S => d \in b
        BY <1>4, <1>5, <2>2, <2>6 DEF Batches
      <3> QED BY <1>3, <1>4, <1>5, <3>1
    <2>7. Left(r)'
      <3> SUFFICES ASSUME job[j].mode = "apply", NEW d \in job[j].range \cap Applied,
                          sequence[d] \in 1..sequence[e]
                   PROVE  d \in mapping \cup failed[j] \cup b
        BY <1>2, <2>3, <2>4 DEF Left
      <3>1. sequence[d] <= runner[r].after \/ d \in b
        BY <1>4, <2>2, <2>6
      <3> QED BY <1>3, <1>4, <2>2, <3>1 DEF Handled, Applied
    <2>8. ~m.more => Reached(r)'
      <3> SUFFICES ASSUME b = S, NEW d \in job[j].range, sequence[d] \in 1..job[j].until
                   PROVE  sequence[d] <= sequence[e]
        BY <1>2, <1>7, <2>3, <2>4, <2>5 DEF Reached
      <3>1. d \in b \/ sequence[d] <= runner[r].after
        BY <1>3, <1>4, <1>5
      <3>2. runner[r].after < sequence[e]
        BY <1>3, <1>4, <1>5, <2>2
      <3> QED BY <1>3, <1>4, <2>1, <2>2, <3>1, <3>2
    <2>9. Sound(r)'
      BY <1>2, <1>3, <1>4, <2>2, <2>3, <2>4, <2>7, <2>8, ReplayAssumption DEF Sound, Copied, Handled, Known, Paid
    <2> QED BY <1>2, <2>3, <2>9, QuietMove
  <1> QED BY <1>8, <1>9

LEMMA ListFailsKeeps == ASSUME IInv, NEW r \in Runners, ListFails(r) PROVE IInv'
  <1> DEFINE m == [runner[r] EXCEPT !.pc = "failed"]
  <1>1. /\ runner[r] \in Memory /\ Sound(r) /\ runner[r].pc = "list" /\ runner[r].pc # "wait"
        /\ UNCHANGED <<sequence, counter, job, failed, log, requests, mapping, posted>>
        /\ mishaps' \in 0..Mishaps
    BY MishapsBounded DEF IInv, ListFails, odoo
  <1>2. m \in Memory /\ runner' = [runner EXCEPT ![r] = m] /\ runner'[r] = m
    BY <1>1 DEF Memory, IInv, ListFails
  <1>3. Sound(r)'
    BY <1>1, <1>2, ReplayAssumption DEF Sound, Copied, Handled, Known, Paid
  <1> QED BY <1>1, <1>2, <1>3, QuietMove

LEMMA NextEventKeeps == ASSUME IInv, NEW r \in Runners, NextEvent(r) PROVE IInv'
  <1> DEFINE j == runner[r].job
  <1>1. PICK e \in ToApply(r) :
            /\ First(r, e)
            /\ runner' = [runner EXCEPT ![r].pc = "post", ![r].event = e, ![r].try = 0]
    BY DEF NextEvent
  <1> DEFINE m == [runner[r] EXCEPT !.pc = "post", !.event = e, !.try = 0]
  <1>2. /\ runner[r] \in Memory /\ Sound(r) /\ runner[r].pc = "next" /\ runner[r].pc # "wait"
        /\ UNCHANGED <<sequence, counter, job, failed, log, requests, mapping, posted, mishaps>>
        /\ mishaps' \in 0..Mishaps
    BY MishapsBounded DEF IInv, NextEvent, odoo
  <1>3. job[j].mode = "apply" /\ e \in runner[r].page /\ e \in Applied /\ e \in Events
        /\ ToApply(r) = runner[r].page \cap Applied
    BY <1>2, ReplayAssumption DEF ToApply, Applied, Memory
  <1>4. m \in Memory /\ runner' = [runner EXCEPT ![r] = m] /\ runner'[r] = m
    <2>1. 0 \in 0..RetryMax /\ "post" \in {"idle", "list", "next", "post", "wait", "completed", "failed"}
      BY ReplayAssumption
    <2>2. m \in Memory
      BY <1>2, <1>3, <2>1 DEF Memory
    <2>3. runner' = [runner EXCEPT ![r] = m]
      BY <1>1
    <2> QED BY <2>2, <2>3 DEF IInv
  <1>5. /\ m.pc = "post" /\ m.job = j /\ m.event = e /\ m.page = runner[r].page
        /\ m.last = runner[r].last /\ m.more = runner[r].more /\ m.todo = runner[r].todo
    BY <1>2 DEF Memory
  <1>6. Paid(r)'
    <2> SUFFICES ASSUME e \in Payments, NEW i \in Invoices \cap job[j].range,
                        sequence[i] \in 1..runner[r].last
                 PROVE  i \in mapping \cup failed[j]
      BY <1>2, <1>4, <1>5 DEF Paid
    <2>1. i \in mapping \cup failed[j] \cup runner[r].page
      BY <1>2, <1>3 DEF Sound, Left, Applied
    <2>2. ASSUME i \in runner[r].page PROVE FALSE
      <3>1. i \in ToApply(r) /\ i \in Invoices /\ i \notin Payments /\ e \notin Invoices
        BY <1>3, <2>2, ReplayAssumption DEF Applied
      <3> QED BY <1>1, <3>1 DEF First
    <2> QED BY <2>1, <2>2
  <1>7. e # None
    BY <1>3, ReplayAssumption
  <1>8. Sound(r)'
    BY <1>2, <1>4, <1>5, <1>6, <1>7 DEF Sound, Copied, Handled, Known, Left, Reached
  <1> QED BY <1>2, <1>4, <1>8, QuietMove

\* An event that cannot be applied has failed, or Odoo applies it.
LEMMA OdooTables ==
  ASSUME IInv, UNCHANGED <<sequence, counter, job>>, mishaps' \in 0..Mishaps,
         {failed', log'} \subseteq [Jobs -> SUBSET Events], \A j \in Jobs : failed[j] \subseteq failed'[j],
         mapping \subseteq mapping', mapping' \subseteq Events,
         posted' \in [Events -> Nat], AppliedOnce'
  PROVE  Grows /\ Tables' /\ Numbered' /\ Progress' /\ CompletedIsHandled' /\ AppliedOnce'
  <1>1. Tables' /\ Grows /\ Numbered'
    BY DEF IInv, Tables, Grows, Known, Numbered
  <1>2. Progress' /\ CompletedIsHandled'
    BY DEF IInv, Progress, CompletedIsHandled, Handled, Known
  <1> QED BY <1>1, <1>2

LEMMA FailGrows ==
  ASSUME IInv, NEW r \in Runners, runner[r].pc # "idle", NEW e \in Events, Fail(r, e)
  PROVE  /\ {failed', log'} \subseteq [Jobs -> SUBSET Events]
         /\ \A j \in Jobs : failed[j] \subseteq failed'[j]
         /\ e \in failed'[runner[r].job] /\ mishaps' \in 0..Mishaps
  <1>1. runner[r].job \in Jobs
    BY DEF IInv, Sound
  <1>2. mishaps' \in 0..Mishaps
    BY MishapsBounded DEF Fail
  <1> QED BY <1>1, <1>2 DEF Fail, IInv, Tables

\* What is left of the batch, once one of its events is handled.
LEMMA SmallerBatch ==
  ASSUME IInv, NEW r \in Runners, runner[r].pc \in {"next", "post", "wait"},
         UNCHANGED <<sequence, counter, job>>, Tables', Grows, NEW e \in Events,
         NEW m \in Memory, runner' = [runner EXCEPT ![r] = m], m.pc = "next", m.event = None,
         m.page = runner[r].page \ {e}, m.job = runner[r].job, m.last = runner[r].last,
         m.more = runner[r].more, m.todo = runner[r].todo,
         e \in mapping' \cup failed'[runner[r].job]
  PROVE  Sound(r)'
  <1>1. runner'[r] = m /\ Sound(r) /\ runner[r].job \in Jobs /\ Known(runner[r].job)
    BY DEF IInv, Sound
  <1>2. Left(r)'
    BY <1>1 DEF Sound, Left, Grows
  <1>3. Copied(r)'
    <2> SUFFICES ASSUME NEW q \in runner[r].todo
                 PROVE  Known(q.id)' /\ q.last <= counter' /\ Handled(q.id, q.last)'
      BY <1>1 DEF Copied
    <2>1. q.id \in Jobs /\ q.last \in Nat /\ Known(q.id) /\ q.last <= counter /\ Handled(q.id, q.last)
      BY <1>1 DEF Sound, Copied, Memory, Queued, IInv
    <2> QED BY <2>1, HandledStays DEF Handled, Applied, Grows, Known
  <1> QED BY <1>1, <1>2, <1>3, ReplayAssumption DEF Sound, Known, Reached, Paid

LEMMA PartnerFailsKeeps == ASSUME IInv, NEW r \in Runners, PartnerFails(r) PROVE IInv'
  <1>1. PICK e \in ToApply(r) : Fail(r, e) /\ runner' = [runner EXCEPT ![r].page = @ \ {e}]
    BY DEF PartnerFails
  <1> DEFINE m == [runner[r] EXCEPT !.page = @ \ {e}]
  <1>2. /\ runner[r] \in Memory /\ Sound(r) /\ runner[r].pc = "next" /\ runner[r].event = None
        /\ UNCHANGED <<sequence, counter, job, requests, mapping, posted>>
    BY DEF IInv, PartnerFails, odoo, Sound
  <1>3. e \in Events
    BY <1>2 DEF ToApply, Memory
  <1>4. m \in Memory /\ runner' = [runner EXCEPT ![r] = m] /\ runner' \in [Runners -> Memory]
    BY <1>1, <1>2 DEF Memory, IInv
  <1>5. /\ m.pc = "next" /\ m.event = None /\ m.page = runner[r].page \ {e} /\ m.job = runner[r].job
        /\ m.last = runner[r].last /\ m.more = runner[r].more /\ m.todo = runner[r].todo
    BY <1>2 DEF Memory
  <1>6. {failed', log'} \subseteq [Jobs -> SUBSET Events] /\ (\A j \in Jobs : failed[j] \subseteq failed'[j])
        /\ e \in failed'[runner[r].job] /\ mishaps' \in 0..Mishaps
    BY <1>1, <1>2, <1>3, FailGrows
  <1>7. Grows /\ Tables' /\ Numbered' /\ Progress' /\ CompletedIsHandled' /\ AppliedOnce'
    BY <1>2, <1>6, OdooTables DEF IInv, Tables, AppliedOnce
  <1>8. Sound(r)'
    BY <1>2, <1>3, <1>4, <1>5, <1>6, <1>7, SmallerBatch
  <1>9. requests' \subseteq Request /\ Awaited' /\ \A s \in Runners : s # r => runner'[s] = runner[s]
    BY <1>2, <1>4, AwaitedStays
  <1> QED BY <1>4, <1>7, <1>8, <1>9, Combine

\* The post goes on, or is tried again.
LEMMA PostingStays ==
  ASSUME IInv, NEW r \in Runners, runner[r].pc \in {"post", "wait"},
         UNCHANGED <<sequence, counter, job>>, Tables', Grows,
         NEW m \in Memory, runner' = [runner EXCEPT ![r] = m], m.pc \in {"post", "wait"},
         m.event = runner[r].event, m.page = runner[r].page, m.job = runner[r].job,
         m.last = runner[r].last, m.more = runner[r].more, m.todo = runner[r].todo
  PROVE  Sound(r)'
  <1>1. runner'[r] = m /\ Sound(r) /\ runner[r].job \in Jobs /\ Known(runner[r].job)
        /\ runner[r].event # None
    BY DEF IInv, Sound
  <1>2. Left(r)' /\ Paid(r)' /\ (~m.more => Reached(r)')
    BY <1>1 DEF Sound, Left, Paid, Reached, Grows
  <1>3. Copied(r)'
    <2> SUFFICES ASSUME NEW q \in runner[r].todo
                 PROVE  Known(q.id)' /\ q.last <= counter' /\ Handled(q.id, q.last)'
      BY <1>1 DEF Copied
    <2>1. q.id \in Jobs /\ q.last \in Nat /\ Known(q.id) /\ q.last <= counter /\ Handled(q.id, q.last)
      BY <1>1 DEF Sound, Copied, Memory, Queued, IInv
    <2> QED BY <2>1, HandledStays DEF Handled, Applied, Grows, Known
  <1> QED BY <1>1, <1>2, <1>3 DEF Sound, Known

LEMMA PostKeeps == ASSUME IInv, NEW r \in Runners, Post(r) PROVE IInv'
  <1> DEFINE m == [runner[r] EXCEPT !.pc = "wait"]
             q == [by |-> r, event |-> runner[r].event, phase |-> "lookup"]
  <1>1. /\ runner[r] \in Memory /\ Sound(r) /\ runner[r].pc = "post"
        /\ UNCHANGED <<sequence, counter, job, failed, log, mapping, posted, mishaps>>
        /\ requests' = requests \cup {q}
    BY DEF IInv, Post
  <1>2. m \in Memory /\ runner' = [runner EXCEPT ![r] = m] /\ runner' \in [Runners -> Memory]
        /\ runner'[r] = m
    BY <1>1 DEF Memory, IInv, Post
  <1>3. /\ m.pc = "wait" /\ m.event = runner[r].event /\ m.page = runner[r].page
        /\ m.job = runner[r].job /\ m.last = runner[r].last /\ m.more = runner[r].more
        /\ m.todo = runner[r].todo
    BY <1>1 DEF Memory
  <1>4. Grows /\ Tables' /\ Numbered' /\ Progress' /\ CompletedIsHandled' /\ AppliedOnce'
    BY <1>1, StillTables, MishapsBounded
  <1>5. Sound(r)'
    BY <1>1, <1>2, <1>3, <1>4, PostingStays
  <1>6. \A s \in Runners : s # r => runner'[s] = runner[s]
    BY <1>2
  <1>7. runner[r].event \in Events
    BY <1>1 DEF Sound, Memory
  <1>8. requests' \subseteq Request
    BY <1>1, <1>7 DEF IInv, Request
  <1>9. Awaited'
    <2>1. \A p \in requests : p.by # None => p.by \in Runners /\ p.by # r
      BY <1>1 DEF IInv, Awaited, Request
    <2> QED BY <1>1, <1>2, <1>3, <1>6, <2>1 DEF IInv, Awaited
  <1> QED BY <1>2, <1>4, <1>5, <1>6, <1>8, <1>9, Combine

\* The event that a runner is at is done with: it is in Odoo, or has failed.
LEMMA DoneIsSound ==
  ASSUME IInv, NEW r \in Runners, runner[r].pc \in {"post", "wait"}, Done(r),
         UNCHANGED <<sequence, counter, job>>, Tables', Grows,
         runner[r].event \in mapping' \cup failed'[runner[r].job]
  PROVE  /\ runner' \in [Runners -> Memory] /\ Sound(r)'
         /\ \A s \in Runners : s # r => runner'[s] = runner[s]
  <1> DEFINE m == [runner[r] EXCEPT !.pc = "next", !.page = @ \ {runner[r].event},
                                    !.event = None, !.try = 0]
  <1>1. runner[r] \in Memory /\ Sound(r) /\ 0 \in 0..RetryMax
    BY ReplayAssumption DEF IInv
  <1>2. runner[r].event \in Events
    BY <1>1 DEF Sound, Memory
  <1>3. m \in Memory
    BY <1>1 DEF Memory
  <1>4. runner' = [runner EXCEPT ![r] = m]
    BY DEF Done
  <1>5. /\ m.pc = "next" /\ m.event = None /\ m.page = runner[r].page \ {runner[r].event}
        /\ m.job = runner[r].job /\ m.last = runner[r].last /\ m.more = runner[r].more
        /\ m.todo = runner[r].todo
    BY <1>1 DEF Memory
  <1>6. Sound(r)'
    BY <1>2, <1>3, <1>4, <1>5, SmallerBatch
  <1> QED BY <1>3, <1>4, <1>6 DEF IInv

LEMMA RetryIsSound ==
  ASSUME IInv, NEW r \in Runners, runner[r].pc \in {"post", "wait"}, Retry(r),
         UNCHANGED <<sequence, counter, job>>, mapping \subseteq mapping',
         mapping' \subseteq Events, posted' \in [Events -> Nat], AppliedOnce'
  PROVE  /\ Grows /\ Tables' /\ Numbered' /\ Progress' /\ CompletedIsHandled' /\ AppliedOnce'
         /\ runner' \in [Runners -> Memory] /\ Sound(r)'
         /\ \A s \in Runners : s # r => runner'[s] = runner[s]
  <1>1. runner[r] \in Memory /\ Sound(r) /\ runner[r].event \in Events
    BY DEF IInv, Sound, Memory
  <1>2. CASE runner[r].try < RetryMax
    <2> DEFINE m == [runner[r] EXCEPT !.pc = "post", !.try = @ + 1]
    <2>1. runner' = [runner EXCEPT ![r] = m] /\ UNCHANGED <<logs, mishaps>>
      BY <1>2 DEF Retry
    <2>2. runner[r].try + 1 \in 0..RetryMax
      BY <1>1, <1>2, ReplayAssumption DEF Memory
    <2>3. m \in Memory
      BY <1>1, <2>2 DEF Memory
    <2>4. /\ m.pc = "post" /\ m.event = runner[r].event /\ m.page = runner[r].page
          /\ m.job = runner[r].job /\ m.last = runner[r].last /\ m.more = runner[r].more
          /\ m.todo = runner[r].todo
      BY <1>1 DEF Memory
    <2>5. /\ {failed', log'} \subseteq [Jobs -> SUBSET Events] /\ mishaps' \in 0..Mishaps
          /\ \A j \in Jobs : failed[j] \subseteq failed'[j]
      BY <2>1, MishapsBounded DEF IInv, Tables
    <2>6. Grows /\ Tables' /\ Numbered' /\ Progress' /\ CompletedIsHandled' /\ AppliedOnce'
      BY <2>5, OdooTables
    <2>7. Sound(r)'
      BY <2>1, <2>3, <2>4, <2>6, PostingStays
    <2> QED BY <2>1, <2>3, <2>6, <2>7 DEF IInv
  <1>3. CASE ~(runner[r].try < RetryMax)
    <2>1. Fail(r, runner[r].event) /\ Done(r)
      BY <1>3 DEF Retry
    <2>2. /\ {failed', log'} \subseteq [Jobs -> SUBSET Events] /\ mishaps' \in 0..Mishaps
          /\ \A j \in Jobs : failed[j] \subseteq failed'[j]
          /\ runner[r].event \in failed'[runner[r].job]
      BY <1>1, <2>1, FailGrows
    <2>3. Grows /\ Tables' /\ Numbered' /\ Progress' /\ CompletedIsHandled' /\ AppliedOnce'
      BY <2>2, OdooTables
    <2> QED BY <2>1, <2>2, <2>3, DoneIsSound
  <1> QED BY <1>2, <1>3

LEMMA NotDeliveredKeeps == ASSUME IInv, NEW r \in Runners, NotDelivered(r) PROVE IInv'
  <1>1. /\ runner[r].pc = "post" /\ Retry(r)
        /\ UNCHANGED <<sequence, counter, job, requests, mapping, posted>>
    BY DEF NotDelivered, odoo
  <1>2. mapping' \subseteq Events /\ posted' \in [Events -> Nat] /\ AppliedOnce'
    BY <1>1 DEF IInv, Tables, AppliedOnce
  <1>3. /\ Grows /\ Tables' /\ Numbered' /\ Progress' /\ CompletedIsHandled' /\ AppliedOnce'
        /\ runner' \in [Runners -> Memory] /\ Sound(r)'
        /\ \A s \in Runners : s # r => runner'[s] = runner[s]
    BY <1>1, <1>2, RetryIsSound
  <1>4. requests' \subseteq Request /\ Awaited'
    BY <1>1, <1>3, AwaitedStays
  <1> QED BY <1>3, <1>4, Combine

LEMMA ForsakenStays ==
  ASSUME IInv, NEW r \in Runners, Forsake(r), \A s \in Runners : s # r => runner'[s] = runner[s]
  PROVE  requests' \subseteq Request /\ Awaited'
  <1>1. \A q \in requests : q.by \in Runners \cup {None} /\ q.event \in Events
                         /\ q.phase \in {"lookup", "create"}
                         /\ [q EXCEPT !.by = None] \in Request
                         /\ [q EXCEPT !.by = None].by = None
    BY DEF IInv, Request
  <1>2. \A p \in requests' : p \in Request /\ (p.by # None => p \in requests /\ p.by # r)
    BY <1>1 DEF Forsake, IInv
  <1> QED BY <1>2 DEF IInv, Awaited, Request

LEMMA GiveUpKeeps == ASSUME IInv, NEW r \in Runners, GiveUp(r) PROVE IInv'
  <1>1. /\ runner[r].pc = "wait" /\ Retry(r) /\ Forsake(r)
        /\ UNCHANGED <<sequence, counter, job, mapping, posted>>
    BY DEF GiveUp
  <1>2. mapping' \subseteq Events /\ posted' \in [Events -> Nat] /\ AppliedOnce'
    BY <1>1 DEF IInv, Tables, AppliedOnce
  <1>3. /\ Grows /\ Tables' /\ Numbered' /\ Progress' /\ CompletedIsHandled' /\ AppliedOnce'
        /\ runner' \in [Runners -> Memory] /\ Sound(r)'
        /\ \A s \in Runners : s # r => runner'[s] = runner[s]
    BY <1>1, <1>2, RetryIsSound
  <1>4. requests' \subseteq Request /\ Awaited'
    BY <1>1, <1>3, ForsakenStays
  <1> QED BY <1>3, <1>4, Combine

\* The batch is over: all that it held is handled up to its end.
LEMMA CheckpointKeeps == ASSUME IInv, NEW r \in Runners, Checkpoint(r) PROVE IInv'
  <1>0. PICK j \in Jobs, n \in Nat : j = runner[r].job /\ n = runner[r].last
    BY DEF IInv, Sound, Checkpoint, Memory
  <1> DEFINE pc == IF runner[r].more THEN "list" ELSE "completed"
             m == [runner[r] EXCEPT !.pc = pc, !.page = {}, !.after = n, !.last = 0, !.more = FALSE]
             x == [job[j] EXCEPT !.last = n]
  <1>1. /\ runner[r] \in Memory /\ Sound(r) /\ runner[r].pc = "next" /\ ToApply(r) = {}
        /\ Known(j) /\ runner[r].event = None /\ n <= counter
        /\ job[j] \in JobRow /\ job[j].range \subseteq Events /\ sequence \in [Events -> Nat]
    BY <1>0, RangesAreEvents DEF IInv, Sound, Checkpoint, Tables, JobRow
  <1>2. Handled(j, n)
    <2> SUFFICES ASSUME job[j].mode = "apply", NEW e \in job[j].range \cap Applied, sequence[e] \in 1..n
                 PROVE  e \in mapping \cup failed[j]
      BY DEF Handled, Applied
    <2>1. e \in mapping \cup failed[j] \cup runner[r].page
      BY <1>0, <1>1 DEF Sound, Left
    <2>2. e \notin runner[r].page
      BY <1>0, <1>1 DEF ToApply, Applied
    <2> QED BY <2>1, <2>2
  <1>3. /\ x \in JobRow /\ x.mode = job[j].mode /\ x.range = job[j].range /\ x.until = job[j].until
        /\ x.status = job[j].status /\ x.last = n
    BY <1>1 DEF JobRow
  <1>4. x.status = "completed" => Handled(j, x.until)
    BY <1>1, <1>3 DEF IInv, CompletedIsHandled
  <1>5. Write([job EXCEPT ![j] = x]) /\ UNCHANGED <<sequence, counter, failed, log, requests, mapping, posted>>
    BY <1>0 DEF Checkpoint, odoo
  <1>6. Grows /\ Tables' /\ Numbered' /\ Progress' /\ CompletedIsHandled' /\ AppliedOnce'
    BY <1>1, <1>2, <1>3, <1>4, <1>5, JobWritten DEF Known
  <1>7. m \in Memory /\ runner' = [runner EXCEPT ![r] = m] /\ runner' \in [Runners -> Memory]
        /\ runner'[r] = m
    <2>1. m \in Memory
      BY <1>1 DEF Memory
    <2>2. runner' = [runner EXCEPT ![r] = m]
      BY <1>0 DEF Checkpoint
    <2> QED BY <2>1, <2>2 DEF IInv
  <1>8. /\ m.pc = pc /\ m.event = None /\ m.job = j /\ m.after = n /\ m.todo = runner[r].todo
    BY <1>0, <1>1 DEF Memory
  <1>9. Handled(j, n)' /\ n <= counter' /\ Known(j)'
    BY <1>1, <1>2, <1>5, <1>6, HandledStays DEF Handled, Applied, Grows, Known
  <1>10. ~runner[r].more => Handled(j, job[j].until)'
    <2> SUFFICES ASSUME ~runner[r].more PROVE Handled(j, job[j].until)'
      OBVIOUS
    <2>1. job[j].until \in Nat /\ job[j].until <= counter /\ job'[j].until = job[j].until
      BY <1>1, <1>6 DEF IInv, Tables, Progress, Grows
    <2>2. Handled(j, job[j].until)
      <3> SUFFICES ASSUME job[j].mode = "apply", NEW e \in job[j].range \cap Applied,
                          sequence[e] \in 1..job[j].until
                   PROVE  e \in mapping \cup failed[j]
        BY DEF Handled, Applied
      <3>1. sequence[e] <= n
        BY <1>0, <1>1 DEF Sound, Reached
      <3>2. sequence[e] \in 1..n
        BY <1>1, <2>1, <3>1
      <3> QED BY <1>2, <3>2 DEF Handled, Applied
    <2> QED BY <1>1, <1>6, <2>1, <2>2, HandledStays DEF Handled, Applied
  <1>11. Copied(r)'
    <2> SUFFICES ASSUME NEW q \in runner[r].todo
                 PROVE  Known(q.id)' /\ q.last <= counter' /\ Handled(q.id, q.last)'
      BY <1>7, <1>8 DEF Copied
    <2>1. q.id \in Jobs /\ q.last \in Nat /\ Known(q.id) /\ q.last <= counter /\ Handled(q.id, q.last)
      BY <1>1 DEF Sound, Copied, Memory, Queued
    <2> QED BY <1>5, <1>6, <2>1, HandledStays DEF Handled, Applied, Grows, Known
  <1>12. Sound(r)'
    BY <1>1, <1>7, <1>8, <1>9, <1>10, <1>11, ReplayAssumption DEF Sound, Paid
  <1>13. requests' \subseteq Request /\ Awaited' /\ \A s \in Runners : s # r => runner'[s] = runner[s]
    BY <1>1, <1>5, <1>7, AwaitedStays
  <1> QED BY <1>6, <1>7, <1>12, <1>13, Combine

\* The end of a job, and of a process, leave the runner with copies at most.
LEMMA RestIsSound ==
  ASSUME IInv, Tables', Grows, NEW r \in Runners, NEW m \in Memory,
         m.pc = "idle", m.event = None, m.todo \subseteq runner[r].todo,
         runner' = [runner EXCEPT ![r] = m]
  PROVE  runner' \in [Runners -> Memory] /\ Sound(r)'
  <1>1. runner[r] \in Memory /\ Sound(r)
    BY DEF IInv
  <1>2. runner'[r] = m /\ runner' \in [Runners -> Memory] /\ counter <= counter'
    BY DEF IInv, Grows
  <1>3. Copied(r)'
    <2> SUFFICES ASSUME NEW q \in runner[r].todo
                 PROVE  Known(q.id)' /\ q.last <= counter' /\ Handled(q.id, q.last)'
      BY <1>2 DEF Copied
    <2>1. q.id \in Jobs /\ q.last \in Nat /\ Known(q.id) /\ q.last <= counter /\ Handled(q.id, q.last)
      BY <1>1 DEF Sound, Copied, Memory, Queued
    <2>2. q.last <= counter'
      BY <1>2, <2>1 DEF Tables, IInv
    <2> QED BY <2>1, <2>2, HandledStays DEF Handled, Applied, Grows, Known
  <1> QED BY <1>2, <1>3, ReplayAssumption DEF Sound, Paid

LEMMA EndJobKeeps == ASSUME IInv, NEW r \in Runners, EndJob(r) PROVE IInv'
  <1> DEFINE j == runner[r].job
             x == [job[j] EXCEPT !.status = runner[r].pc]
  <1>1. /\ runner[r].pc \in {"completed", "failed"} /\ Sound(r) /\ j \in Jobs /\ Known(j)
        /\ job[j] \in JobRow /\ job[j].last <= counter /\ Handled(j, job[j].last)
    BY DEF IInv, Sound, EndJob, Tables, JobRow, Progress
  <1>2. /\ x \in JobRow /\ x.mode = job[j].mode /\ x.range = job[j].range /\ x.until = job[j].until
        /\ x.status = runner[r].pc /\ x.last = job[j].last
    BY <1>1 DEF JobRow, Statuses
  <1>3. x.status = "completed" => Handled(j, x.until)
    BY <1>1, <1>2 DEF Sound
  <1>4. /\ Write([job EXCEPT ![j] = x]) /\ UNCHANGED <<sequence, counter, failed, log, requests, mapping, posted>>
        /\ runner' = [runner EXCEPT ![r] = [Idle EXCEPT !.todo = runner[r].todo]]
    BY DEF EndJob, odoo
  <1>5. Grows /\ Tables' /\ Numbered' /\ Progress' /\ CompletedIsHandled' /\ AppliedOnce'
    BY <1>1, <1>2, <1>3, <1>4, JobWritten
  <1>6. runner' \in [Runners -> Memory] /\ Sound(r)'
    <2> DEFINE m == [Idle EXCEPT !.todo = runner[r].todo]
    <2>1. runner[r].todo \in SUBSET Queued
      BY DEF IInv, Memory
    <2>2. m \in Memory /\ m.pc = "idle" /\ m.event = None /\ m.todo \subseteq runner[r].todo
      BY <2>1, IdleIsMemory DEF Memory, Idle
    <2> QED BY <1>4, <1>5, <2>2, RestIsSound
  <1>7. requests' \subseteq Request /\ Awaited' /\ \A s \in Runners : s # r => runner'[s] = runner[s]
    BY <1>1, <1>4, AwaitedStays
  <1> QED BY <1>5, <1>6, <1>7, Combine

LEMMA StopKeeps == ASSUME IInv, NEW r \in Runners, Stop(r) PROVE IInv'
  <1>1. /\ runner' = [runner EXCEPT ![r] = Idle] /\ Forsake(r) /\ mishaps' \in 0..Mishaps
        /\ UNCHANGED <<sequence, counter, job, failed, log, mapping, posted>>
    BY MishapsBounded DEF Stop
  <1>2. Grows /\ Tables' /\ Numbered' /\ Progress' /\ CompletedIsHandled' /\ AppliedOnce'
    BY <1>1, StillTables
  <1>3. Idle.pc = "idle" /\ Idle.event = None /\ Idle.todo \subseteq runner[r].todo
    BY DEF Idle
  <1>4. runner' \in [Runners -> Memory] /\ Sound(r)'
    BY <1>1, <1>2, <1>3, IdleIsMemory, RestIsSound
  <1>5. requests' \subseteq Request /\ Awaited' /\ \A s \in Runners : s # r => runner'[s] = runner[s]
    BY <1>1, ForsakenStays
  <1> QED BY <1>2, <1>4, <1>5, Combine

-----------------------------------------------------------------------------
\* The steps of Odoo.

LEMMA AnswerKeeps ==
  ASSUME IInv, NEW q \in requests, NEW outcome, Answer(q, outcome),
         mapping \subseteq mapping', mapping' \subseteq Events,
         posted' \in [Events -> Nat], AppliedOnce', outcome = "ok" => q.event \in mapping'
  PROVE  IInv'
  <1>1. UNCHANGED <<sequence, counter, job>> /\ requests' = requests \ {q}
    BY DEF Answer
  <1>2. CASE q.by = None /\ UNCHANGED <<runner, logs, mishaps>>
    <2>1. /\ {failed', log'} \subseteq [Jobs -> SUBSET Events] /\ mishaps' \in 0..Mishaps
          /\ \A j \in Jobs : failed[j] \subseteq failed'[j]
      BY <1>2, MishapsBounded DEF IInv, Tables
    <2>2. Grows /\ Tables' /\ Numbered' /\ Progress' /\ CompletedIsHandled' /\ AppliedOnce'
      BY <1>1, <2>1, OdooTables
    <2>3. requests' \subseteq Request /\ Awaited' /\ runner' \in [Runners -> Memory]
      BY <1>1, <1>2 DEF IInv, Awaited
    <2> QED BY <1>2, <2>2, <2>3, Combine
  <1>3. CASE q.by # None
    <2> DEFINE r == q.by
    <2>1. r \in Runners /\ runner[r].pc = "wait" /\ runner[r].event = q.event /\ q.event \in Events
      BY <1>3 DEF IInv, Awaited, Request
    <2>2. ASSUME Grows, Tables', Numbered', Progress', CompletedIsHandled',
                 runner' \in [Runners -> Memory], Sound(r)',
                 \A s \in Runners : s # r => runner'[s] = runner[s]
          PROVE  IInv'
      <3>1. \A p \in requests' : p \in requests /\ p.by # r
        BY <1>1, <1>3, <2>1 DEF IInv, Awaited
      <3>2. requests' \subseteq Request /\ Awaited'
        BY <2>2, <3>1 DEF IInv, Awaited, Request
      <3> QED BY <2>1, <2>2, <3>2, Combine
    <2>3. CASE outcome = "ok" /\ Done(r) /\ UNCHANGED <<logs, mishaps>>
      <3>1. /\ {failed', log'} \subseteq [Jobs -> SUBSET Events] /\ mishaps' \in 0..Mishaps
            /\ \A j \in Jobs : failed[j] \subseteq failed'[j]
        BY <2>3, MishapsBounded DEF IInv, Tables
      <3>2. Grows /\ Tables' /\ Numbered' /\ Progress' /\ CompletedIsHandled' /\ AppliedOnce'
        BY <1>1, <3>1, OdooTables
      <3> QED BY <1>1, <2>1, <2>2, <2>3, <3>2, DoneIsSound
    <2>4. CASE Done(r) /\ Fail(r, q.event)
      <3>1. /\ {failed', log'} \subseteq [Jobs -> SUBSET Events] /\ mishaps' \in 0..Mishaps
            /\ \A j \in Jobs : failed[j] \subseteq failed'[j]
            /\ q.event \in failed'[runner[r].job]
        BY <2>1, <2>4, FailGrows
      <3>2. Grows /\ Tables' /\ Numbered' /\ Progress' /\ CompletedIsHandled' /\ AppliedOnce'
        BY <1>1, <3>1, OdooTables
      <3> QED BY <1>1, <2>1, <2>2, <2>4, <3>1, <3>2, DoneIsSound
    <2>5. CASE Retry(r)
      BY <1>1, <2>1, <2>2, <2>5, RetryIsSound
    <2> QED BY <1>3, <2>3, <2>4, <2>5 DEF Answer
  <1> QED BY <1>2, <1>3 DEF Answer

LEMMA LookUpKeeps == ASSUME IInv, NEW q \in requests, LookUp(q) PROVE IInv'
  <1>1. UNCHANGED <<mapping, posted>> /\ mapping' \subseteq Events /\ posted' \in [Events -> Nat]
        /\ AppliedOnce' /\ q.event \in Events
    BY DEF LookUp, IInv, Tables, AppliedOnce, Request
  <1>2. CASE q.event \in mapping
    BY <1>1, <1>2, AnswerKeeps DEF LookUp
  <1>3. CASE q.event \notin mapping
    <2> DEFINE p == [q EXCEPT !.phase = "create"]
    <2>1. requests' = (requests \ {q}) \cup {p} /\ UNCHANGED <<sequence, counter, job, failed, log, runner, mishaps>>
      BY <1>3 DEF LookUp
    <2>2. p \in Request /\ p.by = q.by /\ p.event = q.event
      BY DEF IInv, Request
    <2>3. Grows /\ Tables' /\ Numbered' /\ Progress' /\ CompletedIsHandled'
      BY <1>1, <2>1, StillTables, MishapsBounded
    <2>4. \A a \in requests' : a = p \/ (a \in requests /\ a # q)
      BY <2>1
    <2>5. runner' = runner /\ Awaited /\ requests \subseteq Request
      BY <2>1 DEF IInv
    <2>6. Awaited'
      <3>1. ASSUME NEW a \in requests', a.by # None
            PROVE  runner[a.by].pc = "wait" /\ runner[a.by].event = a.event
        <4>1. CASE a = p
          BY <2>2, <2>5, <3>1, <4>1 DEF Awaited
        <4>2. CASE a \in requests
          BY <2>5, <3>1, <4>2 DEF Awaited
        <4> QED BY <2>4, <4>1, <4>2
      <3>2. ASSUME NEW a \in requests', NEW b \in requests', a.by = b.by, a.by # None PROVE a = b
        BY <2>2, <2>4, <2>5, <3>2 DEF Awaited
      <3> QED BY <2>5, <3>1, <3>2 DEF Awaited
    <2>7. requests' \subseteq Request /\ runner' \in [Runners -> Memory]
      BY <2>2, <2>4, <2>5 DEF IInv
    <2> QED BY <1>1, <2>3, <2>5, <2>6, <2>7, Combine
  <1> QED BY <1>2, <1>3

LEMMA CreateKeeps == ASSUME IInv, NEW q \in requests, Create(q) PROVE IInv'
  <1>1. q.event \in Events /\ mapping \subseteq Events /\ posted \in [Events -> Nat] /\ AppliedOnce
    BY DEF IInv, Tables, Request
  <1>2. CASE q.event \in mapping
    BY <1>1, <1>2, AnswerKeeps DEF Create, AppliedOnce
  <1>3. CASE q.event \notin mapping
    <2>1. /\ mapping' = mapping \cup {q.event} /\ posted' = [posted EXCEPT ![q.event] = @ + 1]
          /\ Answer(q, "ok")
      BY <1>3 DEF Create
    <2>2. posted' \in [Events -> Nat] /\ AppliedOnce'
      BY <1>1, <1>3, <2>1 DEF AppliedOnce
    <2> QED BY <1>1, <2>1, <2>2, AnswerKeeps
  <1> QED BY <1>2, <1>3

LEMMA RejectKeeps == ASSUME IInv, NEW q \in requests, Reject(q) PROVE IInv'
  <1>1. UNCHANGED <<mapping, posted>> /\ mapping' \subseteq Events /\ posted' \in [Events -> Nat]
        /\ AppliedOnce'
    BY DEF Reject, IInv, Tables, AppliedOnce
  <1> QED BY <1>1, AnswerKeeps DEF Reject

-----------------------------------------------------------------------------
LEMMA InitKeeps == Init => IInv
  <1> SUFFICES ASSUME Init PROVE IInv
    OBVIOUS
  <1>1. Tables
    BY ReplayAssumption DEF Init, Tables, Statuses, Modes
  <1>2. runner \in [Runners -> Memory] /\ requests \subseteq Request
    BY IdleIsMemory DEF Init
  <1>3. Numbered /\ AppliedOnce /\ Awaited
    BY DEF Init, Numbered, AppliedOnce, Awaited
  <1>4. Progress /\ CompletedIsHandled
    BY DEF Init, Progress, CompletedIsHandled, Known
  <1>5. \A r \in Runners : Sound(r)
    BY ReplayAssumption DEF Init, Idle, Sound, Copied, Paid
  <1> QED BY <1>1, <1>2, <1>3, <1>4, <1>5 DEF IInv

LEMMA StepKeeps == IInv /\ [Next]_vars => IInv'
  <1> SUFFICES ASSUME IInv, [Next]_vars PROVE IInv'
    OBVIOUS
  <1>1. ASSUME NEW r \in Runners, RunnerStep(r) PROVE IInv'
    BY <1>1, PollKeeps, StartJobKeeps, ListKeeps, ListFailsKeeps, NextEventKeeps, PartnerFailsKeeps,
       PostKeeps, NotDeliveredKeeps, GiveUpKeeps, CheckpointKeeps, EndJobKeeps DEF RunnerStep
  <1>2. CASE OdooStep
    BY <1>2, LookUpKeeps, CreateKeeps, RejectKeeps DEF OdooStep
  <1>3. CASE UNCHANGED vars
    <2>1. Grows /\ Tables' /\ Numbered' /\ Progress' /\ CompletedIsHandled' /\ AppliedOnce'
      BY <1>3, StillTables, MishapsBounded DEF vars
    <2>2. requests' \subseteq Request /\ Awaited' /\ runner' \in [Runners -> Memory]
      BY <1>3 DEF vars, IInv, Awaited
    <2> QED BY <1>3, <2>1, <2>2, Combine DEF vars
  <1> QED
    BY <1>1, <1>2, <1>3, IngestKeeps, CreateJobKeeps, StopKeeps DEF Next

LEMMA Inductive == Spec => []IInv
  BY InitKeeps, StepKeeps, PTL DEF Spec

\* Whatever runners, stops and lost writes do, every table and every runner's
\* memory keep their types (runner.go, store.go, replay_controller.py).
THEOREM TypeCorrect == Spec => []TypeOK
  <1>1. IInv => TypeOK
    BY DEF IInv, Tables, TypeOK
  <1> QED BY <1>1, Inductive, PTL

\* An event has one document in Odoo if the mapping names it and none otherwise,
\* for any number of runners, posts and late transactions (replay_controller.py:215-280).
THEOREM OncePerEvent == Spec => []AppliedOnce
  <1>1. IInv => AppliedOnce
    BY DEF IInv
  <1> QED BY <1>1, Inductive, PTL

\* A job is said to be 'completed' only once each event there was when it was asked
\* for is in Odoo or was seen to fail, also when it was cut off and taken up again from
\* its progress any number of times, by any runners, whatever entries of its log were
\* lost (runner.go:158-283, 437-450).
THEOREM CompletedPassedOverNothing == Spec => []CompletedIsHandled
  <1>1. IInv => CompletedIsHandled
    BY DEF IInv
  <1> QED BY <1>1, Inductive, PTL

\* The progress a job shows, from which it would be taken up again, is never ahead
\* of what was applied or seen to fail (runner.go:247-256).
THEOREM ProgressIsTrue == Spec => []ProgressIsHandled
  <1>1. IInv => ProgressIsHandled
    BY DEF IInv, Progress, ProgressIsHandled, Handled
  <1> QED BY <1>1, Inductive, PTL

\* A payment is posted when no invoice of its job, up to the end of the batch, is
\* still to be applied (runner.go:482-503).
THEOREM PaymentsFindInvoices == Spec => []InvoicesFirst
  <1>1. IInv => InvoicesFirst
    BY DEF IInv, Sound, Paid, InvoicesFirst
  <1> QED BY <1>1, Inductive, PTL

-----------------------------------------------------------------------------
\* What is posted was asked for: a batch holds events of the job's range that have
\* come, and a request in Odoo, also one that nobody waits for, is about an event that
\* some job is to apply.

Posting == {"next", "post", "wait"}
Came(e) == sequence[e] # 0

Chosen(r) ==
    runner[r].pc \in Posting =>
        /\ \A e \in runner[r].page : e \in job[runner[r].job].range /\ Came(e)
        /\ runner[r].pc # "next" => runner[r].event \in ToApply(r)

Sent == \A q \in requests : Came(q.event) /\ \E j \in Jobs : q.event \in Wanted(j)

AskedFor == Sent /\ \A r \in Runners : Chosen(r)

\* Events that have come stay, and a job keeps what it was asked for.
Firm == /\ \A e \in Events : Came(e) => Came(e)'
        /\ \A j \in Jobs : Known(j) => /\ job'[j].mode = job[j].mode
                                       /\ job'[j].range = job[j].range

LEMMA StepFirm == ASSUME IInv, Next PROVE Firm
  <1>0. sequence \in [Events -> Nat] /\ counter \in Nat /\ job \in [Jobs -> JobRow]
        /\ runner \in [Runners -> Memory]
    BY DEF IInv, Tables, JobRow
  <1>1. CASE UNCHANGED <<sequence, job>>
    BY <1>1 DEF Firm, Came
  <1>2. ASSUME NEW e \in Events, Ingest(e) PROVE Firm
    BY <1>0, <1>2 DEF Ingest, Firm, Came
  <1>3. ASSUME NEW j \in Jobs, NEW mode \in Modes, NEW range \in Ranges, CreateJob(j, mode, range)
        PROVE  Firm
    BY <1>0, <1>3 DEF CreateJob, Firm, Came, Known
  <1>4. ASSUME NEW r \in Runners, NEW q \in runner[r].todo, StartJob(r, q) PROVE Firm
    <2>1. q.id \in Jobs
      BY <1>0 DEF Memory, Queued
    <2> QED BY <1>0, <1>4, <2>1 DEF StartJob, Write, Firm, Came, JobRow
  <1>5. ASSUME NEW r \in Runners, Checkpoint(r) \/ EndJob(r) PROVE Firm
    BY <1>0, <1>5 DEF Checkpoint, EndJob, Write, Firm, Came, JobRow
  <1>6. ASSUME NEW r \in Runners, RunnerStep(r) PROVE Firm
    BY <1>1, <1>4, <1>5, <1>6
    DEF RunnerStep, Poll, List, ListFails, NextEvent, PartnerFails, Post, NotDelivered, GiveUp
  <1>7. ASSUME NEW r \in Runners, Stop(r) PROVE Firm
    BY <1>1, <1>7 DEF Stop
  <1>8. ASSUME NEW q \in requests, LookUp(q) \/ Create(q) \/ Reject(q) PROVE Firm
    BY <1>1, <1>8 DEF LookUp, Create, Reject, Answer
  <1> QED BY <1>2, <1>3, <1>6, <1>7, <1>8 DEF Next, OdooStep

\* A runner that posts holds a job that was asked for.
LEMMA PostingJob ==
  ASSUME IInv, NEW r \in Runners, runner[r].pc \in Posting
  PROVE  runner[r] \in Memory /\ runner[r].job \in Jobs /\ Known(runner[r].job)
  BY DEF IInv, Sound, Posting

\* A runner keeps its batch, or a part of it.
LEMMA ChosenStays ==
  ASSUME IInv, Firm, NEW r \in Runners, runner[r].pc \in Posting, Chosen(r),
         runner'[r].job = runner[r].job, runner'[r].page \subseteq runner[r].page,
         runner'[r].pc \in Posting \ {"next"} =>
             runner'[r].event \in ToApply(r) \cap runner'[r].page
  PROVE  Chosen(r)'
  <1> DEFINE j == runner[r].job
  <1>1. runner[r] \in Memory /\ j \in Jobs /\ job'[j].mode = job[j].mode /\ job'[j].range = job[j].range
    BY PostingJob DEF Firm
  <1>2. \A e \in runner'[r].page : e \in job'[j].range /\ Came(e)'
    BY <1>1 DEF Chosen, Firm, Memory
  <1>3. runner'[r].pc \in Posting \ {"next"} => runner'[r].event \in ToApply(r)'
    BY <1>1 DEF ToApply
  <1> QED BY <1>2, <1>3 DEF Chosen

LEMMA OthersChosen ==
  ASSUME IInv, Firm, NEW s \in Runners, Chosen(s), runner'[s] = runner[s] PROVE Chosen(s)'
  <1>1. CASE runner[s].pc \in Posting
    <2>1. runner[s].pc # "next" => runner[s].event \in ToApply(s) \cap runner[s].page
      BY <1>1 DEF Chosen, ToApply
    <2> QED BY <1>1, <2>1, ChosenStays
  <1>2. CASE runner[s].pc \notin Posting
    BY <1>2 DEF Chosen
  <1> QED BY <1>1, <1>2

\* Requests are fewer, or nobody's any more.
LEMMA SentStays ==
  ASSUME IInv, Firm, Sent, \A q \in requests' : \E p \in requests : p.event = q.event PROVE Sent'
  <1>1. \A q \in requests : q.event \in Events /\ Came(q.event)'
    BY DEF IInv, Request, Sent, Firm
  <1>2. \A j \in Jobs : Wanted(j) \subseteq Wanted(j)'
    BY DEF Wanted, IInv, Progress, Firm
  <1> QED BY <1>1, <1>2 DEF Sent

\* One runner moves.
LEMMA AskedByOne ==
  ASSUME IInv, Firm, AskedFor, NEW r \in Runners, NEW m, runner' = [runner EXCEPT ![r] = m],
         Chosen(r)', Sent'
  PROVE  AskedFor'
  <1>1. \A s \in Runners \ {r} : runner'[s] = runner[s]
    BY DEF IInv
  <1> QED BY <1>1, OthersChosen DEF AskedFor

LEMMA ResultChosen ==
  ASSUME IInv, Firm, NEW r \in Runners, runner[r].pc \in {"post", "wait"}, Chosen(r),
         Done(r) \/ Retry(r)
  PROVE  /\ Chosen(r)' /\ \E m : runner' = [runner EXCEPT ![r] = m]
         /\ UNCHANGED logs \/ Done(r) \/ Fail(r, runner[r].event)
  <1>1. runner[r] \in Memory /\ runner \in [Runners -> Memory] /\ runner[r].pc \in Posting
        /\ runner[r].event \in ToApply(r) \cap runner[r].page
    BY DEF IInv, Posting, Chosen, ToApply
  <1>2. CASE Done(r)
    <2>1. runner'[r].pc = "next" /\ runner'[r].page \subseteq runner[r].page
          /\ runner'[r].job = runner[r].job
      BY <1>1, <1>2 DEF Done, Memory
    <2>2. runner' = [runner EXCEPT ![r] = [runner[r] EXCEPT !.pc = "next",
                        !.page = @ \ {runner[r].event}, !.event = None, !.try = 0]]
      BY <1>2 DEF Done
    <2> QED BY <1>1, <1>2, <2>1, <2>2, ChosenStays
  <1>3. CASE runner' = [runner EXCEPT ![r].pc = "post", ![r].try = @ + 1] /\ UNCHANGED logs
    <2>1. runner'[r].pc = "post" /\ runner'[r].page = runner[r].page
          /\ runner'[r].job = runner[r].job /\ runner'[r].event = runner[r].event
      BY <1>1, <1>3 DEF Memory
    <2>2. runner' = [runner EXCEPT ![r] = [runner[r] EXCEPT !.pc = "post", !.try = @ + 1]]
      BY <1>3
    <2> QED BY <1>1, <1>3, <2>1, <2>2, ChosenStays
  <1> QED BY <1>2, <1>3 DEF Retry

LEMMA RunnerKeepsAsked ==
  ASSUME IInv, Firm, AskedFor, NEW r \in Runners, RunnerStep(r) \/ Stop(r) PROVE AskedFor'
  <1>0. runner \in [Runners -> Memory] /\ runner[r] \in Memory /\ Chosen(r) /\ Sent
        /\ sequence \in [Events -> Nat]
    BY DEF IInv, AskedFor, Tables
  <1>1. requests' = requests => Sent'
    BY <1>0, SentStays
  <1>2. Forsake(r) => Sent'
    <2> HAVE Forsake(r)
    <2>1. \A q \in requests' : \E p \in requests : p.event = q.event
      BY DEF Forsake, IInv, Request
    <2> QED BY <1>0, <2>1, SentStays
  <1>3. ASSUME NEW m, runner' = [runner EXCEPT ![r] = m], m.pc \notin Posting, Sent' PROVE AskedFor'
    <2>1. Chosen(r)'
      BY <1>0, <1>3 DEF Chosen
    <2> QED BY <1>3, <2>1, AskedByOne
  <1>4. CASE Poll(r)
    <2>1. PICK S : runner' = [runner EXCEPT ![r].todo = {[id |-> j, last |-> job[j].last] : j \in S}]
      BY <1>4 DEF Poll
    <2> DEFINE todo == {[id |-> j, last |-> job[j].last] : j \in S}
               m == [runner[r] EXCEPT !.todo = todo]
    <2>2. m.pc \notin Posting
      BY <1>0, <1>4 DEF Poll, Idle, Posting
    <2>3. runner' = [runner EXCEPT ![r] = m]
      BY <2>1
    <2> QED BY <1>1, <1>3, <1>4, <2>2, <2>3 DEF Poll, odoo
  <1>5. ASSUME NEW q \in runner[r].todo, StartJob(r, q) PROVE AskedFor'
    <2> DEFINE pc == IF job[q.id].mode = "apply_without_url" THEN "failed" ELSE "list"
               m == [runner[r] EXCEPT !.todo = @ \ {q}, !.job = q.id, !.after = q.last, !.pc = pc]
    <2>1. m.pc \notin Posting
      BY <1>0 DEF Memory, Posting
    <2>2. runner' = [runner EXCEPT ![r] = m]
      BY <1>5 DEF StartJob
    <2> QED BY <1>1, <1>3, <1>5, <2>1, <2>2 DEF StartJob, odoo
  <1>6. CASE List(r)
    <2> DEFINE j == runner[r].job
               S == After(j, runner[r].after)
    <2>1. PICK b \in Batches(S) :
            IF b = {} THEN runner' = [runner EXCEPT ![r].pc = "completed"]
            ELSE \E e \in b :
                /\ \A d \in b : sequence[d] <= sequence[e]
                /\ runner' = [runner EXCEPT ![r].pc = "next", ![r].page = b,
                                  ![r].last = sequence[e], ![r].more = Cardinality(b) = BatchSize]
      BY <1>6 DEF List
    <2>2. Sent' /\ runner[r].after \in Nat /\ UNCHANGED <<sequence, job>> /\ j \in Jobs
      BY <1>0, <1>1, <1>6 DEF List, odoo, Memory, IInv, Sound
    <2>3. CASE b = {}
      <3> DEFINE m == [runner[r] EXCEPT !.pc = "completed"]
      <3>1. m.pc \notin Posting
        BY <1>0 DEF Memory, Posting
      <3>2. runner' = [runner EXCEPT ![r] = m]
        BY <2>1, <2>3
      <3> QED BY <1>3, <2>2, <3>1, <3>2
    <2>4. CASE b # {}
      <3>1. PICK e \in b : runner' = [runner EXCEPT ![r].pc = "next", ![r].page = b,
                                  ![r].last = sequence[e], ![r].more = Cardinality(b) = BatchSize]
        BY <2>1, <2>4
      <3> DEFINE m == [runner[r] EXCEPT !.pc = "next", !.page = b,
                                  !.last = sequence[e], !.more = Cardinality(b) = BatchSize]
      <3>2. m.pc = "next" /\ m.page = b /\ m.job = j
        BY <1>0 DEF Memory
      <3>3. runner' = [runner EXCEPT ![r] = m] /\ runner'[r] = m
        BY <1>0, <3>1
      <3>4. \A d \in b : d \in job[j].range /\ Came(d)
        <4>1. \A d \in b : d \in job[j].range /\ d \in Events /\ sequence[d] > runner[r].after
          BY <2>2, RangesAreEvents DEF Batches, After, IInv
        <4> QED BY <1>0, <2>2, <4>1 DEF Came
      <3>5. Chosen(r)'
        BY <2>2, <3>2, <3>3, <3>4 DEF Chosen, Came
      <3> QED BY <2>2, <3>3, <3>5, AskedByOne
    <2> QED BY <2>3, <2>4
  <1>7. CASE ListFails(r)
    <2> DEFINE m == [runner[r] EXCEPT !.pc = "failed"]
    <2>1. m.pc \notin Posting
      BY <1>0 DEF Memory, Posting
    <2>2. runner' = [runner EXCEPT ![r] = m]
      BY <1>7 DEF ListFails
    <2> QED BY <1>1, <1>3, <1>7, <2>1, <2>2 DEF ListFails, odoo
  <1>8. CASE NextEvent(r)
    <2>1. PICK e \in ToApply(r) :
              runner' = [runner EXCEPT ![r].pc = "post", ![r].event = e, ![r].try = 0]
      BY <1>8 DEF NextEvent
    <2> DEFINE m == [runner[r] EXCEPT !.pc = "post", !.event = e, !.try = 0]
    <2>2. runner' = [runner EXCEPT ![r] = m] /\ runner'[r] = m
      BY <1>0, <2>1
    <2>3. m.pc = "post" /\ m.event = e /\ m.page = runner[r].page /\ m.job = runner[r].job
      BY <1>0 DEF Memory
    <2>4. e \in runner[r].page /\ runner[r].pc \in Posting
      BY <1>8 DEF ToApply, NextEvent, Posting
    <2>5. Chosen(r)'
      BY <1>0, <2>2, <2>3, <2>4, ChosenStays
    <2> QED BY <1>1, <1>8, <2>2, <2>5, AskedByOne DEF NextEvent, odoo
  <1>9. CASE PartnerFails(r)
    <2>1. PICK e : runner' = [runner EXCEPT ![r].page = @ \ {e}]
      BY <1>9 DEF PartnerFails
    <2> DEFINE m == [runner[r] EXCEPT !.page = @ \ {e}]
    <2>2. runner' = [runner EXCEPT ![r] = m] /\ runner'[r] = m
      BY <1>0, <2>1
    <2>3. runner[r].pc = "next" /\ m.pc = "next" /\ m.page \subseteq runner[r].page
          /\ m.job = runner[r].job
      BY <1>0, <1>9 DEF PartnerFails, Memory
    <2>4. Chosen(r)'
      BY <1>0, <2>2, <2>3, ChosenStays DEF Posting
    <2> QED BY <1>1, <1>9, <2>2, <2>4, AskedByOne DEF PartnerFails, odoo
  <1>10. CASE Post(r)
    <2> DEFINE m == [runner[r] EXCEPT !.pc = "wait"]
               q == [by |-> r, event |-> runner[r].event, phase |-> "lookup"]
    <2>1. runner' = [runner EXCEPT ![r] = m] /\ runner'[r] = m
      BY <1>0, <1>10 DEF Post
    <2>2. runner[r].pc = "post" /\ m.pc = "wait" /\ m.page = runner[r].page
          /\ m.job = runner[r].job /\ m.event = runner[r].event
      BY <1>0, <1>10 DEF Post, Memory
    <2>3. runner[r].event \in ToApply(r) /\ runner[r].event \in runner[r].page
      BY <1>0, <2>2 DEF Chosen, ToApply, Posting
    <2>4. Chosen(r)'
      BY <1>0, <2>1, <2>2, <2>3, ChosenStays DEF Posting
    <2>5. runner[r].job \in Jobs /\ runner[r].event \in Wanted(runner[r].job) /\ Came(runner[r].event)
      BY <1>0, <2>2, <2>3, PostingJob DEF Posting, Chosen, ToApply, Wanted
    <2>6. requests' = requests \cup {q} /\ UNCHANGED <<sequence, job>>
      BY <1>10 DEF Post
    <2>7. Sent'
      <3>1. \A p \in requests' : p \in requests \/ p.event = runner[r].event
        BY <2>6
      <3>2. \A j \in Jobs : Wanted(j)' = Wanted(j)
        BY <2>6 DEF Wanted
      <3>3. \A p \in requests' : \E j \in Jobs : p.event \in Wanted(j)
        BY <1>0, <2>5, <3>1 DEF Sent
      <3>4. \A p \in requests' : Came(p.event)'
        BY <1>0, <2>5, <2>6, <3>1 DEF Sent, Came
      <3> QED BY <3>2, <3>3, <3>4 DEF Sent
    <2> QED BY <2>1, <2>4, <2>7, AskedByOne
  <1>11. CASE NotDelivered(r) \/ GiveUp(r)
    <2>1. runner[r].pc \in {"post", "wait"} /\ Retry(r) /\ Sent'
      BY <1>1, <1>2, <1>11 DEF NotDelivered, GiveUp, odoo
    <2> QED BY <1>0, <2>1, ResultChosen, AskedByOne
  <1>12. CASE Checkpoint(r)
    <2> DEFINE m == [runner[r] EXCEPT !.pc = IF runner[r].more THEN "list" ELSE "completed",
                         !.page = {}, !.after = runner[r].last, !.last = 0, !.more = FALSE]
    <2>1. m.pc \notin Posting
      BY <1>0 DEF Memory, Posting
    <2>2. runner' = [runner EXCEPT ![r] = m]
      BY <1>12 DEF Checkpoint
    <2> QED BY <1>1, <1>3, <1>12, <2>1, <2>2 DEF Checkpoint, odoo
  <1>13. CASE EndJob(r)
    <2> DEFINE m == [Idle EXCEPT !.todo = runner[r].todo]
    <2>1. m.pc \notin Posting
      BY DEF Idle, Posting
    <2>2. runner' = [runner EXCEPT ![r] = m]
      BY <1>13 DEF EndJob
    <2> QED BY <1>1, <1>3, <1>13, <2>1, <2>2 DEF EndJob, odoo
  <1>14. CASE Stop(r)
    <2>1. Idle.pc \notin Posting
      BY DEF Idle, Posting
    <2> QED BY <1>2, <1>3, <1>14, <2>1 DEF Stop
  <1> QED
    BY <1>4, <1>5, <1>6, <1>7, <1>8, <1>9, <1>10, <1>11, <1>12, <1>13, <1>14 DEF RunnerStep

LEMMA OdooKeepsAsked ==
  ASSUME IInv, Firm, AskedFor, NEW q \in requests, LookUp(q) \/ Create(q) \/ Reject(q) PROVE AskedFor'
  <1>0. q \in Request /\ Sent /\ runner \in [Runners -> Memory]
    BY DEF IInv, AskedFor
  <1>1. \A p \in requests' : \E o \in requests : o.event = p.event
    BY <1>0 DEF LookUp, Create, Reject, Answer, Request
  <1>2. Sent'
    BY <1>0, <1>1, SentStays
  <1>3. CASE UNCHANGED runner
    BY <1>2, <1>3, OthersChosen DEF AskedFor
  <1>4. ASSUME q.by # None, Done(q.by) \/ Retry(q.by) PROVE AskedFor'
    <2>1. q.by \in Runners /\ runner[q.by].pc = "wait" /\ Chosen(q.by)
      BY <1>0, <1>4 DEF Request, IInv, Awaited, AskedFor
    <2> QED BY <1>2, <1>4, <2>1, ResultChosen, AskedByOne
  <1> QED BY <1>3, <1>4 DEF LookUp, Create, Reject, Answer

LEMMA AskedForKept == IInv /\ AskedFor /\ [Next]_vars => AskedFor'
  <1> SUFFICES ASSUME IInv, AskedFor, [Next]_vars PROVE AskedFor'
    OBVIOUS
  <1>1. CASE UNCHANGED vars
    BY <1>1 DEF vars, AskedFor, Sent, Chosen, Came, Wanted, ToApply
  <1>2. CASE Next
    <2>1. Firm
      BY <1>2, StepFirm
    <2>2. ASSUME UNCHANGED <<requests, runner>> PROVE AskedFor'
      <3>1. \A q \in requests' : \E p \in requests : p.event = q.event
        BY <2>2
      <3> QED BY <2>1, <2>2, <3>1, SentStays, OthersChosen DEF AskedFor
    <2>3. ASSUME NEW e \in Events, Ingest(e) PROVE AskedFor'
      BY <2>2, <2>3 DEF Ingest, odoo
    <2>4. ASSUME NEW j \in Jobs, NEW mode \in Modes, NEW range \in Ranges, CreateJob(j, mode, range)
          PROVE  AskedFor'
      BY <2>2, <2>4 DEF CreateJob, odoo
    <2> QED BY <1>2, <2>1, <2>3, <2>4, RunnerKeepsAsked, OdooKeepsAsked DEF Next, OdooStep
  <1> QED BY <1>1, <1>2

LEMMA AskedForAlways == Spec => []AskedFor
  <1>1. Init => AskedFor
    BY DEF Init, AskedFor, Sent, Chosen, Idle, Posting
  <1> QED BY <1>1, AskedForKept, Inductive, PTL DEF Spec

-----------------------------------------------------------------------------
\* Each step is one of the promise, or none.

PromiseStep == Promise!Next \/ UNCHANGED Promise!vars

\* A failure is one of the promise, and its log entry the report of it.
LEMMA Reports ==
  ASSUME IInv, NEW r \in Runners, runner[r].pc \in Posting, Chosen(r),
         NEW e \in ToApply(r), Fail(r, e)
  PROVE  e \in Events /\ \E j \in Jobs : Promise!ToReport(j, e)
  <1> DEFINE j == runner[r].job
  <1>1. j \in Jobs /\ Known(j) /\ e \in runner[r].page /\ runner[r] \in Memory
    BY PostingJob DEF ToApply
  <1>2. e \in Wanted(j) /\ Came(e) /\ e \in Events
    BY <1>1 DEF Chosen, ToApply, Wanted, Memory
  <1>3. /\ failed' = [failed EXCEPT ![j] = @ \cup {e}]
        /\ log' = [log EXCEPT ![j] = @ \cup {e}] \/ UNCHANGED log
    BY DEF Fail
  <1>4. Promise!ToReport(j, e)
    BY <1>1, <1>2, <1>3 DEF Promise!ToReport, Known, Came
  <1> QED BY <1>1, <1>2, <1>4

LEMMA ResultReports ==
  ASSUME IInv, NEW r \in Runners, runner[r].pc \in {"post", "wait"}, Chosen(r),
         UNCHANGED logs \/ Fail(r, runner[r].event)
  PROVE  \/ UNCHANGED logs
         \/ runner[r].event \in Events /\ \E j \in Jobs : Promise!ToReport(j, runner[r].event)
  <1>1. runner[r].event \in ToApply(r) /\ runner[r].pc \in Posting
    BY DEF Chosen, Posting
  <1> QED BY <1>1, Reports

\* The answer to a request is reported for its event, if at all.
LEMMA AnswerReports ==
  ASSUME IInv, AskedFor, NEW q \in requests, NEW outcome, Answer(q, outcome)
  PROVE  UNCHANGED logs \/ \E j \in Jobs : Promise!ToReport(j, q.event)
  <1>1. CASE UNCHANGED logs
    BY <1>1
  <1>2. CASE q.by # None /\ ~UNCHANGED logs
    <2>1. q.by \in Runners /\ runner[q.by].pc = "wait" /\ runner[q.by].event = q.event /\ Chosen(q.by)
      BY <1>2 DEF IInv, Request, Awaited, AskedFor
    <2>2. Fail(q.by, q.event)
      BY <1>2, <2>1 DEF Answer, Retry
    <2> QED BY <2>1, <2>2, ResultReports
  <1> QED BY <1>1, <1>2 DEF Answer

\* Events and jobs are as they were.
LEMMA SameJobs ==
  ASSUME UNCHANGED <<sequence, job>>
  PROVE  UNCHANGED <<{e \in Events : sequence[e] # 0}, {j \in Jobs : job[j].status # "none"},
                     [j \in Jobs |-> Wanted(j)], [j \in Jobs |-> UpTo(j, job[j].until)],
                     [j \in Jobs |-> UpTo(j, job[j].last)], {j \in Jobs : job[j].status = "completed"}>>
  <1>1. \A j \in Jobs : Wanted(j)' = Wanted(j)
    BY DEF Wanted
  <1>2. \A j \in Jobs : /\ UpTo(j, job[j].until)' = UpTo(j, job[j].until)
                        /\ UpTo(j, job[j].last)' = UpTo(j, job[j].last)
    BY DEF Wanted, UpTo
  <1> QED BY <1>1, <1>2

LEMMA ReportStep ==
  ASSUME UNCHANGED <<sequence, job, posted>>,
         UNCHANGED logs \/ \E e \in Events, j \in Jobs : Promise!ToReport(j, e)
  PROVE  PromiseStep
  <1>1. CASE UNCHANGED logs
    BY <1>1, SameJobs DEF PromiseStep, Promise!vars, Promise!reports
  <1>2. CASE \E e \in Events, j \in Jobs : Promise!ToReport(j, e)
    <2>1. PICK e \in Events, j \in Jobs : Promise!ToReport(j, e)
      BY <1>2
    <2>2. Promise!Report(j, e)
      BY <2>1, SameJobs DEF Promise!Report
    <2> QED BY <2>2 DEF PromiseStep, Promise!Next
  <1> QED BY <1>1, <1>2

\* A job has nothing to apply before it was asked for, and asks for events only.
LEMMA WantedIs ==
  ASSUME IInv, NEW j \in Jobs
  PROVE  /\ Wanted(j) \subseteq Events /\ (~Known(j) => Wanted(j) = {})
         /\ Known(j) => job[j].until \in Nat /\ job[j].until <= counter
                        /\ job[j].last \in Nat /\ job[j].last <= counter
  <1>1. job[j] \in JobRow
    BY DEF IInv, Tables, JobRow
  <1> QED BY <1>1, RangesAreEvents DEF IInv, Progress, Wanted, JobRow

LEMMA IngestStep == ASSUME IInv, NEW e \in Events, Ingest(e) PROVE PromiseStep
  <1>1. /\ sequence \in [Events -> Nat] /\ counter \in Nat /\ sequence[e] = 0
        /\ sequence' = [sequence EXCEPT ![e] = counter + 1]
        /\ UNCHANGED <<job, failed, log, posted>>
    BY DEF IInv, Tables, Ingest, odoo
  <1>2. {d \in Events : sequence'[d] # 0} = {d \in Events : sequence[d] # 0} \cup {e}
    BY <1>1
  <1>3. \A j \in Jobs : Wanted(j)' = Wanted(j)
    BY <1>1 DEF Wanted
  <1>4. ASSUME NEW j \in Jobs
        PROVE  /\ UpTo(j, job[j].until)' = UpTo(j, job[j].until)
               /\ UpTo(j, job[j].last)' = UpTo(j, job[j].last)
    <2>1. CASE Wanted(j) = {}
      BY <1>3, <2>1 DEF UpTo
    <2>2. CASE Known(j)
      <3>1. \A n \in Nat : n <= counter =>
                \A d \in Wanted(j) : sequence'[d] \in 1..n <=> sequence[d] \in 1..n
        BY <1>1, WantedIs
      <3> QED BY <1>1, <1>3, <2>2, <3>1, WantedIs DEF UpTo
    <2> QED BY <2>1, <2>2, WantedIs
  <1>5. Promise!Arrive(e)
    BY <1>1, <1>2, <1>3, <1>4 DEF Promise!Arrive, Promise!reports
  <1> QED BY <1>5 DEF PromiseStep, Promise!Next

LEMMA CreateJobStep ==
  ASSUME IInv, NEW j \in Jobs, NEW mode \in Modes, NEW range \in Ranges, CreateJob(j, mode, range)
  PROVE  PromiseStep
  <1> DEFINE x == [status |-> "queued", mode |-> mode, range |-> range, last |-> 0, until |-> counter]
             S == IF mode = "apply" THEN range \cap (Invoices \cup Payments) ELSE {}
  <1>1. /\ job \in [Jobs -> JobRow] /\ ~Known(j) /\ job' = [job EXCEPT ![j] = x]
        /\ sequence \in [Events -> Nat] /\ counter \in Nat /\ UNCHANGED <<sequence, failed, log, posted>>
    BY DEF IInv, Tables, JobRow, CreateJob, Known, odoo
  <1>2. \A k \in Jobs : job'[k] = IF k = j THEN x ELSE job[k]
    BY <1>1
  <1>3. S \in SUBSET Events
    BY ReplayAssumption
  <1>4. {k \in Jobs : job'[k].status # "none"} = {k \in Jobs : job[k].status # "none"} \cup {j}
    BY <1>2
  <1>5. {k \in Jobs : job'[k].status = "completed"} = {k \in Jobs : job[k].status = "completed"}
    BY <1>1, <1>2 DEF Known
  <1>6. \A k \in Jobs : Wanted(k)' = IF k = j THEN S ELSE Wanted(k)
    BY <1>2 DEF Wanted
  <1>7. Wanted(j) = {}
    BY <1>1, WantedIs
  <1>8. UpTo(j, job[j].until)' = S \cap {e \in Events : sequence[e] # 0}
    <2>1. \A e \in Events : sequence[e] \in 1..counter <=> sequence[e] # 0
      BY <1>1 DEF IInv, Numbered
    <2> QED BY <1>1, <1>2, <1>3, <1>6, <2>1 DEF UpTo
  <1>9. UpTo(j, job[j].last)' = {} /\ UpTo(j, job[j].last) = {}
    BY <1>1, <1>2, <1>7 DEF UpTo
  <1>10. \A k \in Jobs \ {j} : /\ UpTo(k, job[k].until)' = UpTo(k, job[k].until)
                               /\ UpTo(k, job[k].last)' = UpTo(k, job[k].last)
    BY <1>1, <1>2, <1>6 DEF UpTo
  <1>11. Promise!Ask(j, S)
    <2>1. [k \in Jobs |-> Wanted(k)]' = [[k \in Jobs |-> Wanted(k)] EXCEPT ![j] = S]
      BY <1>6
    <2>2. [k \in Jobs |-> UpTo(k, job[k].until)]' =
              [[k \in Jobs |-> UpTo(k, job[k].until)] EXCEPT ![j] = S \cap {e \in Events : sequence[e] # 0}]
      BY <1>8, <1>10
    <2>3. [k \in Jobs |-> UpTo(k, job[k].last)]' = [k \in Jobs |-> UpTo(k, job[k].last)]
      BY <1>9, <1>10
    <2> QED BY <1>1, <1>4, <1>5, <2>1, <2>2, <2>3 DEF Promise!Ask, Promise!reports, Known
  <1> QED BY <1>3, <1>11 DEF PromiseStep, Promise!Next

\* A job's row is written without its request.
LEMMA RowWritten ==
  ASSUME IInv, NEW j \in Jobs, Known(j), NEW x \in JobRow,
         x.mode = job[j].mode, x.range = job[j].range, x.until = job[j].until, x.status # "none",
         job' = [job EXCEPT ![j] = x], UNCHANGED sequence
  PROVE  /\ \A k \in Jobs : job'[k] = IF k = j THEN x ELSE job[k]
         /\ {e \in Events : sequence'[e] # 0} = {e \in Events : sequence[e] # 0}
         /\ {k \in Jobs : job'[k].status # "none"} = {k \in Jobs : job[k].status # "none"}
         /\ \A k \in Jobs : Wanted(k)' = Wanted(k)
         /\ [k \in Jobs |-> Wanted(k)]' = [k \in Jobs |-> Wanted(k)]
         /\ [k \in Jobs |-> UpTo(k, job[k].until)]' = [k \in Jobs |-> UpTo(k, job[k].until)]
  <1>1. \A k \in Jobs : job'[k] = IF k = j THEN x ELSE job[k]
    BY DEF IInv, Tables
  <1>2. {k \in Jobs : job'[k].status # "none"} = {k \in Jobs : job[k].status # "none"}
    BY <1>1 DEF Known
  <1>3. \A k \in Jobs : Wanted(k)' = Wanted(k) /\ job'[k].until = job[k].until
    BY <1>1 DEF Wanted
  <1>4. \A k \in Jobs : UpTo(k, job[k].until)' = UpTo(k, job[k].until)
    BY <1>3 DEF UpTo
  <1> QED BY <1>1, <1>2, <1>3, <1>4

\* What is handled of a job is settled for the promise.
LEMMA HandledIsSettled ==
  ASSUME IInv, NEW j \in Jobs, NEW n \in Nat, Handled(j, n)
  PROVE  UpTo(j, n) \subseteq {e \in Wanted(j) : posted[e] # 0} \cup failed[j]
  <1>1. \A e \in UpTo(j, n) : e \in Wanted(j) /\ e \in Events /\ e \in mapping \cup failed[j]
    BY WantedIs DEF UpTo, Wanted, Handled
  <1> QED BY <1>1 DEF IInv, AppliedOnce

LEMMA StatusStep ==
  ASSUME IInv, IInv', NEW j \in Jobs, Known(j), NEW status \in Statuses \ {"none"},
         Write([job EXCEPT ![j].status = status]), UNCHANGED <<sequence, failed, log, posted>>
  PROVE  PromiseStep
  <1>1. CASE UNCHANGED job
    BY <1>1, ReportStep
  <1>2. CASE job' = [job EXCEPT ![j].status = status]
    <2> DEFINE x == [job[j] EXCEPT !.status = status]
    <2>1. job[j] \in JobRow
      BY DEF IInv, Tables, JobRow
    <2>2. /\ x \in JobRow /\ x.mode = job[j].mode /\ x.range = job[j].range
          /\ x.until = job[j].until /\ x.last = job[j].last /\ x.status = status
      BY <2>1 DEF JobRow
    <2>3. job' = [job EXCEPT ![j] = x]
      BY <1>2
    <2> HIDE DEF x
    <2>4. /\ \A k \in Jobs : job'[k] = IF k = j THEN x ELSE job[k]
          /\ {e \in Events : sequence'[e] # 0} = {e \in Events : sequence[e] # 0}
          /\ {k \in Jobs : job'[k].status # "none"} = {k \in Jobs : job[k].status # "none"}
          /\ \A k \in Jobs : Wanted(k)' = Wanted(k)
          /\ [k \in Jobs |-> Wanted(k)]' = [k \in Jobs |-> Wanted(k)]
          /\ [k \in Jobs |-> UpTo(k, job[k].until)]' = [k \in Jobs |-> UpTo(k, job[k].until)]
      BY <2>2, <2>3, RowWritten
    <2>5. [k \in Jobs |-> UpTo(k, job[k].last)]' = [k \in Jobs |-> UpTo(k, job[k].last)]
      <3>1. \A k \in Jobs : UpTo(k, job[k].last)' = UpTo(k, job[k].last)
        BY <2>2, <2>4 DEF UpTo
      <3> QED BY <3>1
    <2>6. CASE status = "completed"
      <3>1. {k \in Jobs : job'[k].status = "completed"} = {k \in Jobs : job[k].status = "completed"} \cup {j}
        BY <2>2, <2>4, <2>6
      <3>2. Handled(j, job[j].until)
        <4>1. job'[j].status = "completed" /\ job'[j].mode = job[j].mode /\ job'[j].range = job[j].range
              /\ job'[j].until = job[j].until
          BY <2>2, <2>4, <2>6
        <4>2. Handled(j, job[j].until)'
          BY <4>1 DEF IInv, CompletedIsHandled
        <4>3. \A e \in Events : e \in mapping' => e \in mapping
          BY DEF IInv, AppliedOnce
        <4> QED BY <4>1, <4>2, <4>3, RangesAreEvents DEF Handled, IInv
      <3>3. UpTo(j, job[j].until) \subseteq {e \in Wanted(j) : posted[e] # 0} \cup failed[j]
        BY <2>1, <3>2, HandledIsSettled DEF JobRow
      <3>4. Promise!Complete(j)
        BY <2>4, <2>5, <3>1, <3>3 DEF Promise!Complete, Promise!reports, Promise!Settled, Known
      <3> QED BY <3>4 DEF PromiseStep, Promise!Next
    <2>7. CASE status # "completed"
      <3>1. {k \in Jobs : job'[k].status = "completed"} = {k \in Jobs : job[k].status = "completed"} \ {j}
        BY <2>2, <2>4, <2>7
      <3>2. Promise!Reopen(j)
        BY <2>4, <2>5, <3>1 DEF Promise!Reopen, Promise!reports
      <3> QED BY <3>2 DEF PromiseStep, Promise!Next
    <2> QED BY <2>6, <2>7
  <1> QED BY <1>1, <1>2 DEF Write

LEMMA CheckpointStep == ASSUME IInv, IInv', NEW r \in Runners, Checkpoint(r) PROVE PromiseStep
  <1> DEFINE last == runner[r].last
  <1>0. PICK j : j = runner[r].job
    OBVIOUS
  <1>1. /\ runner[r] \in Memory /\ j \in Jobs /\ Known(j) /\ last \in Nat
        /\ UNCHANGED <<sequence, failed, log, posted>> /\ Write([job EXCEPT ![j].last = last])
    BY <1>0, PostingJob DEF Checkpoint, Posting, Memory, odoo
  <1>2. CASE UNCHANGED job
    BY <1>1, <1>2, ReportStep
  <1>3. CASE job' = [job EXCEPT ![j].last = last]
    <2> DEFINE x == [job[j] EXCEPT !.last = last]
    <2>1. job[j] \in JobRow
      BY <1>1 DEF IInv, Tables, JobRow
    <2>2. /\ x \in JobRow /\ x.mode = job[j].mode /\ x.range = job[j].range
          /\ x.until = job[j].until /\ x.last = last /\ x.status = job[j].status
      BY <1>1, <2>1 DEF JobRow
    <2>3. job' = [job EXCEPT ![j] = x]
      BY <1>3
    <2> HIDE DEF x
    <2>4. /\ \A k \in Jobs : job'[k] = IF k = j THEN x ELSE job[k]
          /\ {e \in Events : sequence'[e] # 0} = {e \in Events : sequence[e] # 0}
          /\ {k \in Jobs : job'[k].status # "none"} = {k \in Jobs : job[k].status # "none"}
          /\ \A k \in Jobs : Wanted(k)' = Wanted(k)
          /\ [k \in Jobs |-> Wanted(k)]' = [k \in Jobs |-> Wanted(k)]
          /\ [k \in Jobs |-> UpTo(k, job[k].until)]' = [k \in Jobs |-> UpTo(k, job[k].until)]
      BY <1>1, <2>2, <2>3, RowWritten DEF Known
    <2>5. {k \in Jobs : job'[k].status = "completed"} = {k \in Jobs : job[k].status = "completed"}
      BY <2>2, <2>4
    <2>6. PICK S \in SUBSET Events : S = UpTo(j, last)
      BY <1>1, WantedIs DEF UpTo
    <2>7. [k \in Jobs |-> UpTo(k, job[k].last)]' = [[k \in Jobs |-> UpTo(k, job[k].last)] EXCEPT ![j] = S]
      <3>1. \A k \in Jobs : UpTo(k, job[k].last)' = IF k = j THEN S ELSE UpTo(k, job[k].last)
        BY <1>1, <2>2, <2>4, <2>6 DEF UpTo
      <3> QED BY <3>1
    <2>8. Handled(j, last)
      <3>1. job'[j].last = last /\ job'[j].mode = job[j].mode /\ job'[j].range = job[j].range
            /\ Known(j)'
        BY <1>1, <2>2, <2>4 DEF Known
      <3>2. Handled(j, job[j].last)'
        BY <1>1, <3>1 DEF IInv, Progress
      <3>3. \A e \in Events : e \in mapping' => e \in mapping
        BY <1>1 DEF IInv, AppliedOnce
      <3> QED BY <1>1, <3>1, <3>2, <3>3, RangesAreEvents DEF Handled, IInv
    <2>9. S \subseteq {e \in Wanted(j) : posted[e] # 0} \cup failed[j]
      BY <1>1, <2>6, <2>8, HandledIsSettled
    <2>10. Promise!Advance(j, S)
      BY <1>1, <2>4, <2>5, <2>7, <2>9 DEF Promise!Advance, Promise!reports, Promise!Settled, Known
    <2> QED BY <1>1, <2>10 DEF PromiseStep, Promise!Next
  <1> QED BY <1>1, <1>2, <1>3 DEF Write

LEMMA CreateStep == ASSUME IInv, AskedFor, NEW q \in requests, Create(q) PROVE PromiseStep
  <1> DEFINE e == q.event
  <1>1. UNCHANGED <<sequence, job>> /\ e \in Events /\ Came(e) /\ posted \in [Events -> Nat]
    BY DEF Create, Answer, IInv, Tables, Request, AskedFor, Sent
  <1>2. UNCHANGED logs \/ \E j \in Jobs : Promise!ToReport(j, e)
    BY AnswerReports DEF Create
  <1>3. CASE UNCHANGED posted
    BY <1>1, <1>2, <1>3, ReportStep
  <1>4. CASE e \notin mapping /\ posted' = [posted EXCEPT ![e] = @ + 1]
    <2>0. posted[e] = 0 /\ posted[e] + 1 = 1
      BY <1>1, <1>4 DEF IInv, AppliedOnce
    <2>1. posted[e] = 0 /\ posted' = [posted EXCEPT ![e] = 1]
      BY <1>4, <2>0
    <2>2. PICK j \in Jobs : e \in Wanted(j)
      BY DEF AskedFor, Sent
    <2>3. Known(j)
      BY <2>2, WantedIs
    <2>4. Promise!Apply(e)
      BY <1>1, <1>2, <2>1, <2>2, <2>3, SameJobs DEF Promise!Apply, Promise!reports, Promise!ToReport, Known, Came
    <2> QED BY <1>1, <2>4 DEF PromiseStep, Promise!Next
  <1> QED BY <1>3, <1>4 DEF Create

LEMMA RunnerSteps ==
  ASSUME IInv, IInv', AskedFor, NEW r \in Runners, RunnerStep(r) \/ Stop(r) PROVE PromiseStep
  <1>1. CASE UNCHANGED <<sequence, job, failed, log, posted>>
    BY <1>1, ReportStep
  <1>2. ASSUME NEW q \in runner[r].todo, StartJob(r, q) PROVE PromiseStep
    <2>1. q.id \in Jobs /\ Known(q.id) /\ "running" \in Statuses \ {"none"}
      BY DEF IInv, Sound, Copied, Memory, Queued, Statuses
    <2> QED BY <1>2, <2>1, StatusStep DEF StartJob, odoo
  <1>3. CASE EndJob(r)
    <2>1. PICK j, status : j = runner[r].job /\ status = runner[r].pc
      OBVIOUS
    <2>2. j \in Jobs /\ Known(j) /\ status \in Statuses \ {"none"}
      BY <1>3, <2>1 DEF EndJob, IInv, Sound, Statuses
    <2> QED BY <1>3, <2>1, <2>2, StatusStep DEF EndJob, odoo
  <1>4. CASE PartnerFails(r)
    <2>1. PICK e \in ToApply(r) : Fail(r, e)
      BY <1>4 DEF PartnerFails
    <2>2. e \in Events /\ \E j \in Jobs : Promise!ToReport(j, e)
      BY <1>4, <2>1, Reports DEF PartnerFails, Posting, AskedFor
    <2> QED BY <1>4, <2>2, ReportStep DEF PartnerFails, odoo
  <1>5. CASE NotDelivered(r) \/ GiveUp(r)
    <2>1. runner[r].pc \in {"post", "wait"} /\ (UNCHANGED logs \/ Fail(r, runner[r].event))
      BY <1>5 DEF NotDelivered, GiveUp, Retry
    <2>2. UNCHANGED logs \/ \E e \in Events, j \in Jobs : Promise!ToReport(j, e)
      BY <2>1, ResultReports DEF AskedFor
    <2> QED BY <1>5, <2>2, ReportStep DEF NotDelivered, GiveUp, odoo
  <1> QED
    BY <1>1, <1>2, <1>3, <1>4, <1>5, CheckpointStep
    DEF RunnerStep, Poll, List, ListFails, NextEvent, Post, Stop, odoo

LEMMA EachStep == IInv /\ IInv' /\ AskedFor /\ [Next]_vars => [Promise!Next]_Promise!vars
  <1> SUFFICES ASSUME IInv, IInv', AskedFor, [Next]_vars PROVE PromiseStep
    BY DEF PromiseStep
  <1>1. CASE UNCHANGED vars
    BY <1>1, ReportStep DEF vars
  <1>2. ASSUME NEW q \in requests, LookUp(q) \/ Reject(q) PROVE PromiseStep
    <2>1. UNCHANGED <<sequence, job, posted>> /\ q.event \in Events
      BY <1>2 DEF LookUp, Reject, Answer, IInv, Request
    <2>2. UNCHANGED logs \/ \E j \in Jobs : Promise!ToReport(j, q.event)
      BY <1>2, AnswerReports DEF LookUp, Reject
    <2> QED BY <2>1, <2>2, ReportStep
  <1> QED BY <1>1, <1>2, IngestStep, CreateJobStep, RunnerSteps, CreateStep DEF Next, OdooStep

\* Any number of runners, retries, late transactions, stops and lost writes keep the
\* promise of a replay: a document is posted for an event that came and that a job was
\* asked to apply, once; what a job shows as passed, and all it was due once it is said
\* to be completed, is posted or has failed, which only a lost write leaves unreported (runner.go:118-283, replay_controller.py:202-290).
THEOREM ReplayImplementsPromise == Spec => Implements
  <1>1. Init => Promise!Init
    BY ReplayAssumption DEF Init, Promise!Init, Promise!Nothing, Wanted, UpTo
  <1>2. IInv /\ IInv' /\ AskedFor /\ [Next]_vars => [Promise!Next]_Promise!vars
    BY EachStep
  <1> QED BY <1>1, <1>2, Inductive, AskedForAlways, PTL DEF Spec, Implements, Promise!Spec
==============================================================================
