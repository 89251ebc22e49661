----------------------------- MODULE BillingProofs -----------------------------
(***************************************************************************)
(* Proofs about what is billed: the calendar that decides which documents  *)
(* the constat of a month counts (ConstatCalendar, for any months, hours   *)
(* and documents), and the price of the documents it counts                *)
(* (ConstatPricing, for any rules and volumes).                            *)
(***************************************************************************)
EXTENDS ConstatCalendar, ConstatPricing, WellFoundedInduction, TLAPS

-----------------------------------------------------------------------------
\* The calendar.  CalendarInv: what a constat counts is of its month; unless it
\* was asked for too early, its month is over and nothing whole is missing; no
\* document is of a month to come; and, on the first of a month, the tick of
\* midnight is still to be handled, or the month before has its constat.

Counted == \A p \in Periods : Has(p) => constat[p] \subseteq AggregateDocuments(p)

Complete == \A p \in Periods : Has(p) /\ p \notin early =>
               p < month /\ AggregateDocuments(p) \subseteq constat[p]

Dated == \A d \in Docs : Exists(d) => doc[d].month <= month

AtMidnight == UpSince(month) /\ proc.phase = 0 /\ HadDocuments =>
                 \/ day = 1 /\ hour = 0 /\ "tick" \in due
                 \/ Has(month - 1) \/ month - 1 \in failed

CalendarInv == CalendarTypeOK /\ Counted /\ Complete /\ Dated /\ AtMidnight

LEMMA CalendarInitInv == CalendarInit => CalendarInv
  <1> SUFFICES ASSUME CalendarInit PROVE CalendarInv
    OBVIOUS
  <1>1. CalendarTypeOK
    <2>1. 1 \in 1..Days[1] /\ 0 \in 0..Hours-1 /\ 1 \in 1..MaxMonth
      BY CalendarAssumption
    <2>2. month \in 1..MaxMonth /\ day \in 1..Days[month] /\ hour \in 0..Hours-1
      BY <2>1 DEF CalendarInit
    <2>3. doc \in [Docs -> Created \cup {None}] /\ constat \in [Periods -> (SUBSET Docs) \cup {None}]
      BY DEF CalendarInit
    <2>4. proc = None /\ due = {} /\ failed = {} /\ early = {}
      BY DEF CalendarInit
    <2> QED BY <2>2, <2>3, <2>4 DEF CalendarTypeOK
  <1> QED
    BY <1>1 DEF CalendarInit, CalendarInv, Counted, Complete, Dated, AtMidnight, UpSince, Has, Exists

\* A constat that is generated now counts the documents of its month that
\* there are.
LEMMA GenerateKeeps ==
  ASSUME CalendarInv, NEW p \in Periods, Generate(p), UNCHANGED <<month, doc>>,
         early' = early \/ early' = early \cup {p}, p < month \/ p \in early' \/ Has(p)
  PROVE  /\ constat' \in [Periods -> (SUBSET Docs) \cup {None}]
         /\ Counted' /\ Complete' /\ \A q \in Periods : Has(q) => Has(q)'
         /\ Has(p)'
  <1>1. /\ constat' = [constat EXCEPT ![p] = IF @ = None THEN AggregateDocuments(p) ELSE @]
        /\ constat \in [Periods -> (SUBSET Docs) \cup {None}]
    BY DEF Generate, CalendarInv, CalendarTypeOK
  <1>2. AggregateDocuments(p) \in SUBSET Docs /\ AggregateDocuments(p) # None
    BY CalendarAssumption DEF AggregateDocuments
  <1>3. \A q \in Periods : AggregateDocuments(q)' = AggregateDocuments(q)
    BY DEF AggregateDocuments, Exists
  <1>4. constat' \in [Periods -> (SUBSET Docs) \cup {None}]
    BY <1>1, <1>2
  <1>5. \A q \in Periods : Has(q) => constat'[q] = constat[q]
    BY <1>1 DEF Has
  <1>6. ~Has(p) => constat'[p] = AggregateDocuments(p)
    BY <1>1 DEF Has
  <1>7. \A q \in Periods : Has(q)' => Has(q) \/ q = p
    BY <1>1 DEF Has
  <1>8. Counted'
    BY <1>3, <1>5, <1>6, <1>7 DEF CalendarInv, Counted
  <1>9. Complete'
    BY <1>3, <1>5, <1>6, <1>7 DEF CalendarInv, Complete
  <1>10. \A q \in Periods : Has(q) => Has(q)'
    BY <1>5 DEF Has
  <1>11. Has(p)'
    BY <1>2, <1>6, <1>10 DEF Has
  <1> QED BY <1>4, <1>8, <1>9, <1>10, <1>11

\* The run of the job, for the month that is over.
LEMMA RunKeeps ==
  ASSUME CalendarInv, Run, UNCHANGED <<month, doc, early>>
  PROVE  /\ constat' \in [Periods -> (SUBSET Docs) \cup {None}]
         /\ Counted' /\ Complete' /\ \A q \in Periods : Has(q) => Has(q)'
         /\ HadDocuments => Has(month - 1)'
  <1>1. month \in 1..MaxMonth /\ month \in Nat /\ MaxMonth \in Nat
    BY CalendarAssumption DEF CalendarInv, CalendarTypeOK
  <1>2. Period \in Periods /\ Period < month /\ Period = month - 1
    BY <1>1 DEF Period, Periods
  <1>3. CASE IsActive
    BY <1>2, <1>3, GenerateKeeps DEF Run
  <1>4. CASE ~IsActive
    <2>1. constat' = constat
      BY <1>4 DEF Run
    <2>2. ~HadDocuments
      BY <1>4 DEF IsActive, HadDocuments
    <2> QED
      BY <2>1, <2>2 DEF CalendarInv, CalendarTypeOK, Counted, Complete, Has, AggregateDocuments, Exists
  <1> QED BY <1>3, <1>4

LEMMA StartKeeps == ASSUME CalendarInv, Start PROVE CalendarInv'
  <1>1. /\ proc' = [phase |-> hour, since |-> month,
                    first |-> LastDay /\ LastHour /\ NextRunMonth = month + 1]
        /\ due' \subseteq {"first", "tick"} /\ UNCHANGED <<month, day, hour, doc, constat, failed, early>>
    BY DEF Start, calendar, history
  <1>2. proc' \in Process /\ ~(proc'.since < month)
    <2>1. month \in 1..MaxMonth /\ month \in Nat /\ hour \in 0..Hours-1
      BY CalendarAssumption DEF CalendarInv, CalendarTypeOK
    <2> QED BY <1>1, <2>1 DEF Process
  <1> QED
    BY <1>1, <1>2
    DEF CalendarInv, CalendarTypeOK, Counted, Complete, Dated, AtMidnight, UpSince, Has, AggregateDocuments, Exists

LEMMA AdvanceKeeps == ASSUME CalendarInv, Advance PROVE CalendarInv'
  <1>1. /\ due = {} /\ ~(month = MaxMonth /\ LastDay /\ LastHour)
        /\ hour' = (IF LastHour THEN 0 ELSE hour + 1)
        /\ day' = (IF ~LastHour THEN day ELSE IF LastDay THEN 1 ELSE day + 1)
        /\ month' = (IF LastHour /\ LastDay THEN month + 1 ELSE month)
        /\ UNCHANGED <<doc, constat, failed, early>>
    BY DEF Advance, history
  <1>2. /\ month \in 1..MaxMonth /\ day \in 1..Days[month] /\ hour \in 0..Hours-1
        /\ proc \in Process \cup {None}
    BY DEF CalendarInv, CalendarTypeOK
  <1>3. /\ MaxMonth \in Nat \ {0} /\ Hours \in Nat \ {0, 1}
        /\ \A m \in 1..MaxMonth + 1 : Days[m] \in Nat \ {0}
    BY CalendarAssumption
  <1>4. month' \in 1..MaxMonth /\ day' \in 1..Days[month'] /\ hour' \in 0..Hours-1
    <2>1. CASE ~LastHour
      BY <1>1, <1>2, <1>3, <2>1 DEF LastHour
    <2>2. CASE LastHour /\ ~LastDay
      BY <1>1, <1>2, <1>3, <2>2 DEF LastHour, LastDay
    <2>3. CASE LastHour /\ LastDay
      BY <1>1, <1>2, <1>3, <2>3
    <2> QED BY <2>1, <2>2, <2>3
  <1>5. /\ proc = None => proc' = None
        /\ proc # None => /\ proc' = [proc EXCEPT !.first = FALSE]
                          /\ proc.phase = hour' => "tick" \in due'
        /\ due' \subseteq {"first", "tick"}
    BY DEF Advance
  <1>6. proc' \in Process \cup {None}
    BY <1>2, <1>5 DEF Process
  <1>7. proc' # None => proc # None /\ proc'.phase = proc.phase /\ proc'.since = proc.since
    BY <1>2, <1>5 DEF Process
  <1>8. CalendarTypeOK'
    BY <1>1, <1>4, <1>5, <1>6 DEF CalendarInv, CalendarTypeOK
  <1>9. month \in Nat /\ month' \in Nat /\ month <= month'
    BY <1>1, <1>2, <1>3
  <1>10. \A d \in Docs : Exists(d) => doc[d].month \in Nat
    BY DEF CalendarInv, CalendarTypeOK, Exists, Created
  <1>11. Counted' /\ Complete' /\ Dated'
    BY <1>1, <1>9, <1>10 DEF CalendarInv, Counted, Complete, Dated, Has, AggregateDocuments, Exists, Periods
  <1>12. AtMidnight'
    <2> SUFFICES ASSUME UpSince(month)', proc'.phase = 0, HadDocuments'
                 PROVE  \/ day' = 1 /\ hour' = 0 /\ "tick" \in due'
                        \/ Has(month - 1)' \/ month' - 1 \in failed'
      BY DEF AtMidnight
    <2>1. proc # None /\ proc.phase = 0 /\ proc'.since = proc.since /\ proc.since < month'
      BY <1>7 DEF UpSince
    <2>2. CASE LastHour /\ LastDay
      BY <1>1, <1>5, <2>1, <2>2
    <2>3. CASE ~(LastHour /\ LastDay)
      <3>1. month' = month
        BY <1>1, <2>3
      <3>2. UpSince(month) /\ HadDocuments
        BY <1>1, <2>1, <3>1 DEF UpSince, HadDocuments, Exists
      <3>3. Has(month - 1) \/ month - 1 \in failed
        BY <1>1, <2>1, <3>2 DEF CalendarInv, AtMidnight
      <3> QED BY <1>1, <3>1, <3>3 DEF Has
    <2> QED BY <2>2, <2>3
  <1> QED BY <1>8, <1>11, <1>12 DEF CalendarInv

LEMMA CreateKeeps ==
  ASSUME CalendarInv, NEW d \in Docs, NEW at \in Instants, CreateDoc(d, at) PROVE CalendarInv'
  <1>1. /\ doc[d] = None /\ doc' = [doc EXCEPT ![d] = [month |-> month, at |-> at]]
        /\ UNCHANGED <<month, day, hour, proc, due, constat, failed, early>>
    BY DEF CreateDoc, calendar, history
  <1>2. month \in 1..MaxMonth /\ month \in Nat /\ doc \in [Docs -> Created \cup {None}]
    BY CalendarAssumption DEF CalendarInv, CalendarTypeOK
  <1>3. doc' \in [Docs -> Created \cup {None}]
    BY <1>1, <1>2 DEF Created
  <1>4. CalendarTypeOK'
    BY <1>1, <1>3 DEF CalendarInv, CalendarTypeOK
  <1>5. /\ doc'[d].month = month
        /\ \A e \in Docs : e # d => doc'[e] = doc[e]
    BY <1>1, <1>2
  <1>6. \A p \in Periods : AggregateDocuments(p) \subseteq AggregateDocuments(p)'
    BY <1>1, <1>5 DEF AggregateDocuments, Exists
  <1>7. \A p \in Periods : p < month => AggregateDocuments(p)' = AggregateDocuments(p)
    BY <1>1, <1>2, <1>5 DEF AggregateDocuments, Exists, Periods
  <1>8. Counted'
    BY <1>1, <1>6 DEF CalendarInv, Counted, Has
  <1>9. Complete'
    BY <1>1, <1>7 DEF CalendarInv, Complete, Has
  <1>10. Dated'
    BY <1>1, <1>2, <1>5 DEF CalendarInv, Dated, Exists
  <1>11. HadDocuments' => HadDocuments
    BY <1>1, <1>2, <1>5 DEF HadDocuments, Exists
  <1>12. AtMidnight'
    BY <1>1, <1>11 DEF CalendarInv, AtMidnight, UpSince, Has
  <1> QED BY <1>4, <1>8, <1>9, <1>10, <1>12 DEF CalendarInv

\* A timer has been handled: only the tick of midnight matters, and it has run
\* the job.
LEMMA TimerKeeps ==
  ASSUME CalendarInv, UNCHANGED <<month, day, hour, proc, doc, early>>, due' \subseteq due,
         failed' \in SUBSET Periods, failed \subseteq failed',
         constat' \in [Periods -> (SUBSET Docs) \cup {None}], Counted', Complete',
         \A p \in Periods : Has(p) => Has(p)',
         day = 1 /\ hour = 0 /\ "tick" \in due /\ HadDocuments =>
             "tick" \in due' \/ Has(month - 1)' \/ month - 1 \in failed'
  PROVE  CalendarInv'
  <1>1. CalendarTypeOK'
    BY DEF CalendarInv, CalendarTypeOK
  <1>2. Dated'
    BY DEF CalendarInv, Dated, Exists
  <1>3. month \in 1..MaxMonth /\ MaxMonth \in Nat
    BY CalendarAssumption DEF CalendarInv, CalendarTypeOK
  <1>4. month - 1 \in Periods
    BY <1>3 DEF Periods
  <1>5. AtMidnight'
    <2> SUFFICES ASSUME UpSince(month)', proc'.phase = 0, HadDocuments'
                 PROVE  \/ day' = 1 /\ hour' = 0 /\ "tick" \in due'
                        \/ Has(month - 1)' \/ month' - 1 \in failed'
      BY DEF AtMidnight
    <2>1. UpSince(month) /\ proc.phase = 0 /\ HadDocuments
      BY DEF UpSince, HadDocuments, Exists
    <2>2. \/ day = 1 /\ hour = 0 /\ "tick" \in due
          \/ Has(month - 1) \/ month - 1 \in failed
      BY <2>1 DEF CalendarInv, AtMidnight
    <2> QED BY <1>4, <2>1, <2>2
  <1> QED BY <1>1, <1>2, <1>5 DEF CalendarInv

LEMMA FirstRunKeeps == ASSUME CalendarInv, FirstRun PROVE CalendarInv'
  <1>1. /\ Run /\ due' = due \ {"first"} /\ UNCHANGED <<month, day, hour, proc, doc, failed, early>>
    BY DEF FirstRun, calendar, history
  <1>2. failed' \in SUBSET Periods
    BY <1>1 DEF CalendarInv, CalendarTypeOK
  <1>3. "tick" \in due => "tick" \in due'
    BY <1>1
  <1> QED BY <1>1, <1>2, <1>3, RunKeeps, TimerKeeps

LEMMA TickKeeps == ASSUME CalendarInv, Tick PROVE CalendarInv'
  <1>1. /\ due' = due \ {"tick"} /\ UNCHANGED <<month, day, hour, proc, doc, failed, early>>
    BY DEF Tick, calendar, history
  <1>2. failed' \in SUBSET Periods
    BY <1>1 DEF CalendarInv, CalendarTypeOK
  <1>3. CASE day = 1 /\ hour = 0
    <2>1. Run
      BY <1>3 DEF Tick
    <2> QED BY <1>1, <1>2, <2>1, RunKeeps, TimerKeeps
  <1>4. CASE ~(day = 1 /\ hour = 0)
    <2>1. constat' = constat
      BY <1>4 DEF Tick
    <2>2. /\ constat' \in [Periods -> (SUBSET Docs) \cup {None}] /\ Counted' /\ Complete'
          /\ \A p \in Periods : Has(p) => Has(p)'
      BY <1>1, <2>1
      DEF CalendarInv, CalendarTypeOK, Counted, Complete, Has, AggregateDocuments, Exists
    <2> QED BY <1>1, <1>2, <1>4, <2>2, TimerKeeps
  <1> QED BY <1>3, <1>4

LEMMA RunFailsKeeps ==
  ASSUME CalendarInv, NEW timer \in {"first", "tick"}, RunFails(timer) PROVE CalendarInv'
  <1>1. /\ due' = due \ {timer} /\ failed' = failed \cup {Period}
        /\ UNCHANGED <<month, day, hour, proc, doc, constat, early>>
    BY DEF RunFails, calendar
  <1>2. month \in 1..MaxMonth /\ MaxMonth \in Nat /\ failed \subseteq Periods
    BY CalendarAssumption DEF CalendarInv, CalendarTypeOK
  <1>3. Period = month - 1 /\ Period \in Periods
    BY <1>2 DEF Period, Periods
  <1>4. failed' \in SUBSET Periods /\ month - 1 \in failed'
    BY <1>1, <1>2, <1>3
  <1>5. /\ constat' \in [Periods -> (SUBSET Docs) \cup {None}] /\ Counted' /\ Complete'
        /\ \A p \in Periods : Has(p) => Has(p)'
    BY <1>1 DEF CalendarInv, CalendarTypeOK, Counted, Complete, Has, AggregateDocuments, Exists
  <1> QED BY <1>1, <1>4, <1>5, TimerKeeps

LEMMA HandlerKeeps ==
  ASSUME CalendarInv, NEW p \in Periods, GenerateConstatHandler(p) PROVE CalendarInv'
  <1>1. /\ Generate(p) /\ early' = (IF constat[p] = None /\ p >= month THEN early \cup {p} ELSE early)
        /\ UNCHANGED <<month, day, hour, proc, due, doc, failed>>
    BY DEF GenerateConstatHandler, calendar
  <1>2. month \in Nat /\ p \in Nat /\ early \subseteq Periods
    BY CalendarAssumption DEF CalendarInv, CalendarTypeOK, Periods
  <1>3. /\ early' = early \/ early' = early \cup {p}
        /\ p < month \/ p \in early' \/ Has(p)
    BY <1>1, <1>2 DEF Has
  <1>4. /\ constat' \in [Periods -> (SUBSET Docs) \cup {None}]
        /\ Counted' /\ Complete' /\ \A q \in Periods : Has(q) => Has(q)'
    BY <1>1, <1>3, GenerateKeeps
  <1>5. CalendarTypeOK'
    BY <1>1, <1>2, <1>3, <1>4 DEF CalendarInv, CalendarTypeOK
  <1>6. Dated'
    BY <1>1 DEF CalendarInv, Dated, Exists
  <1>7. month - 1 \in Periods
    <2>1. month \in 1..MaxMonth /\ MaxMonth \in Nat
      BY CalendarAssumption DEF CalendarInv, CalendarTypeOK
    <2> QED BY <2>1 DEF Periods
  <1>8. AtMidnight'
    <2>1. Has(month - 1) => Has(month - 1)'
      BY <1>1, <1>4, <1>7 DEF Has
    <2>2. HadDocuments' => HadDocuments
      BY <1>1 DEF HadDocuments, Exists
    <2> QED BY <1>1, <2>1, <2>2 DEF CalendarInv, AtMidnight, UpSince
  <1> QED BY <1>4, <1>5, <1>6, <1>8 DEF CalendarInv

\* When nothing but the process changes, and it stops, nothing is promised.
LEMMA StopKeeps == ASSUME CalendarInv, Stop PROVE CalendarInv'
  <1>1. /\ proc' = None /\ due' = {} /\ UNCHANGED <<month, day, hour, doc, constat, failed, early>>
    BY DEF Stop, calendar, history
  <1> QED
    BY <1>1
    DEF CalendarInv, CalendarTypeOK, Counted, Complete, Dated, AtMidnight, UpSince, Has, AggregateDocuments, Exists

THEOREM CalendarInductive == CalendarSpec => []CalendarInv
  <1>1. ASSUME CalendarInv, [CalendarNext]_calendarVars PROVE CalendarInv'
    <2>1. CASE UNCHANGED calendarVars
      BY <1>1, <2>1
      DEF calendarVars, CalendarInv, CalendarTypeOK, Counted, Complete, Dated, AtMidnight, UpSince,
          HadDocuments, Has, AggregateDocuments, Exists
    <2>2. CASE Start
      BY <1>1, <2>2, StartKeeps
    <2>3. CASE Stop
      BY <1>1, <2>3, StopKeeps
    <2>4. CASE Advance
      BY <1>1, <2>4, AdvanceKeeps
    <2>5. CASE FirstRun
      BY <1>1, <2>5, FirstRunKeeps
    <2>6. CASE Tick
      BY <1>1, <2>6, TickKeeps
    <2>7. ASSUME NEW timer \in {"first", "tick"}, RunFails(timer) PROVE CalendarInv'
      BY <1>1, <2>7, RunFailsKeeps
    <2>8. ASSUME NEW d \in Docs, NEW at \in Instants, CreateDoc(d, at) PROVE CalendarInv'
      BY <1>1, <2>8, CreateKeeps
    <2>9. ASSUME NEW p \in Periods, GenerateConstatHandler(p) PROVE CalendarInv'
      BY <1>1, <2>9, HandlerKeeps
    <2> QED
      BY <1>1, <2>1, <2>2, <2>3, <2>4, <2>5, <2>6, <2>7, <2>8, <2>9 DEF CalendarNext
  <1> QED BY <1>1, CalendarInitInv, PTL DEF CalendarSpec

\* Every variable keeps its type: the date is one of the calendar, and a
\* constat counts documents of the tenant (constat_monthly.go:33-38).
THEOREM CalendarTypeCorrect == CalendarSpec => []CalendarTypeOK
  <1>1. CalendarInv => CalendarTypeOK
    BY DEF CalendarInv
  <1> QED BY <1>1, CalendarInductive, PTL

\* For any months and documents, none is counted in two constats
\* (constat.go:107-113).
THEOREM NeverCountedTwice == CalendarSpec => []CountedOnce
  <1>1. CalendarInv => CountedOnce
    BY DEF CalendarInv, Counted, CountedOnce, AggregateDocuments
  <1> QED BY <1>1, CalendarInductive, PTL

\* A constat that was not asked for too early lacks no document of its month
\* created on a whole second (constat_monthly.go:33-38, constat.go:107-113).
THEOREM ConstatsComplete == CalendarSpec => []CompleteUnlessEarly
  <1>1. CalendarInv => CompleteUnlessEarly
    BY DEF CalendarInv, Complete, CompleteUnlessEarly, AggregateDocuments
  <1> QED BY <1>1, CalendarInductive, PTL

\* A process whose ticker fires in the first hour of the day, and up since an
\* earlier month, has run the job for every month, for any lengths of the
\* months (constat_monthly.go:202-216).
THEOREM MidnightAlwaysRuns == CalendarSpec => []MidnightRuns
  <1>1. CalendarInv => MidnightRuns
    <2> SUFFICES ASSUME CalendarInv, proc # None, proc.phase = 0, UpSince(month), HadDocuments, hour > 0
                 PROVE  Has(month - 1) \/ month - 1 \in failed
      BY DEF MidnightRuns, EveryMonthRuns
    <2>1. hour # 0
      BY DEF CalendarInv, CalendarTypeOK
    <2> QED BY <2>1 DEF CalendarInv, AtMidnight
  <1> QED BY <1>1, CalendarInductive, PTL

-----------------------------------------------------------------------------
\* Sums over the documents of a volume.

\* Induction: a set of numbers that is not empty has a least one.
LEMMA LeastNumber ==
  ASSUME NEW T, T \subseteq Nat, T # {}
  PROVE  \E n \in T : \A m \in T : n <= m
  <1> DEFINE R == OpToRel(<, Nat)
  <1>1. IsWellFoundedOn(R, Nat)
    BY NatLessThanWellFounded
  <1>2. \A x, y \in Nat : <<y, x>> \in R <=> y < x
    BY DEF OpToRel
  <1> HIDE DEF R
  <1>3. PICK n \in T : \A m \in T : ~ (<<m, n>> \in R)
    BY <1>1, WFMin
  <1>4. \A m \in T : n \in Nat /\ m \in Nat /\ ~ (m < n)
    BY <1>2, <1>3
  <1>5. \A m \in T : n <= m
    BY <1>4
  <1> QED BY <1>5

\* The recursive definition of the sums has a solution, which they are.
LEMMA SumsUnfold ==
  ASSUME NEW p
  PROVE  PartialSums(p) = [n \in Nat |-> IF n = 0 THEN 0 ELSE PartialSums(p)[n - 1] + p[n - 1]]
  <1> DEFINE sum == PartialSums(p)
             D(v, n) == v + p[n - 1]
  <1>1. NatInductiveDefHypothesis(sum, 0, D)
    BY DEF NatInductiveDefHypothesis, PartialSums
  <1>2. NatInductiveDefConclusion(sum, 0, D)
    BY <1>1, NatInductiveDef
  <1> QED BY <1>2 DEF NatInductiveDefConclusion

LEMMA Sums ==
  ASSUME NEW p
  PROVE  /\ PartialSums(p)[0] = 0
         /\ \A n \in Nat \ {0} : PartialSums(p)[n] = PartialSums(p)[n - 1] + p[n - 1]
  BY SumsUnfold

LEMMA SumsNat ==
  ASSUME NEW v \in Nat, NEW p \in [0..v-1 -> Nat], NEW n \in 0..v
  PROVE  PartialSums(p)[n] \in Nat
  <1> DEFINE Bad == {m \in 0..v : PartialSums(p)[m] \notin Nat}
  <1> SUFFICES ASSUME Bad # {} PROVE FALSE
    OBVIOUS
  <1>1. PICK m \in Bad : \A k \in Bad : m <= k
    <2>1. Bad \subseteq Nat
      OBVIOUS
    <2> QED BY <2>1, LeastNumber
  <1>2. m \in Nat \ {0} /\ m - 1 \in 0..v-1 /\ m - 1 \notin Bad
    BY <1>1, Sums
  <1>3. PartialSums(p)[m - 1] \in Nat /\ p[m - 1] \in Nat
    BY <1>2
  <1>4. PartialSums(p)[m] = PartialSums(p)[m - 1] + p[m - 1]
    BY <1>2, Sums
  <1>5. PartialSums(p)[m] \in Nat
    BY <1>3, <1>4
  <1> QED BY <1>1, <1>5

LEMMA SumsZero ==
  ASSUME NEW v \in Nat, NEW p, \A k \in 0..v-1 : p[k] = 0
  PROVE  PartialSums(p)[v] = 0
  <1> DEFINE Bad == {m \in 0..v : PartialSums(p)[m] # 0}
  <1> SUFFICES ASSUME Bad # {} PROVE FALSE
    OBVIOUS
  <1>1. PICK m \in Bad : \A k \in Bad : m <= k
    <2>1. Bad \subseteq Nat
      OBVIOUS
    <2> QED BY <2>1, LeastNumber
  <1>2. m \in Nat \ {0} /\ m - 1 \in 0..v-1 /\ m - 1 \notin Bad
    BY <1>1, Sums
  <1> QED BY <1>1, <1>2, Sums

\* From the prices p of the documents of a volume v, where those from a up to b
\* are free, to the prices q, where they cost c each.
Charging(p, q, v, a, b, c) ==
    /\ v \in Nat /\ p \in [0..v-1 -> Nat] /\ q \in [0..v-1 -> Nat]
    /\ a \in Nat /\ b \in a..v /\ c \in Nat
    /\ \A k \in 0..v-1 : q[k] = IF a <= k /\ k < b THEN c ELSE p[k]
    /\ \A k \in a..b-1 : p[k] = 0

LEMMA SumsAdd ==
  ASSUME NEW v, NEW p, NEW q, NEW a, NEW b, NEW c, Charging(p, q, v, a, b, c)
  PROVE  PartialSums(q)[v] = PartialSums(p)[v] + (b - a) * c
  <1>0. /\ v \in Nat /\ p \in [0..v-1 -> Nat] /\ q \in [0..v-1 -> Nat]
        /\ a \in Nat /\ b \in a..v /\ c \in Nat
        /\ \A k \in 0..v-1 : q[k] = IF a <= k /\ k < b THEN c ELSE p[k]
        /\ \A k \in a..b-1 : p[k] = 0
    BY DEF Charging
  <1> USE <1>0
  <1> DEFINE In(n)  == IF n <= a THEN 0 ELSE IF n <= b THEN n - a ELSE b - a
             Bad    == {m \in 0..v : PartialSums(q)[m] # PartialSums(p)[m] + In(m) * c}
  <1>1. SUFFICES ASSUME Bad # {} PROVE FALSE
    <2>1. v \notin Bad => PartialSums(q)[v] = PartialSums(p)[v] + In(v) * c
      OBVIOUS
    <2>2. In(v) = b - a
      OBVIOUS
    <2> QED BY <2>1, <2>2
  <1>2. PICK m \in Bad : \A k \in Bad : m <= k
    <2>1. Bad \subseteq Nat
      OBVIOUS
    <2> HIDE DEF Bad
    <2> QED BY <1>1, <2>1, LeastNumber
  <1>3. PartialSums(q)[0] = PartialSums(p)[0] + In(0) * c
    <2>1. In(0) = 0 /\ 0 * c = 0
      OBVIOUS
    <2> QED BY <2>1, Sums
  <1>4. m \in Nat \ {0} /\ m - 1 \in 0..v-1 /\ m - 1 \notin Bad
    BY <1>2, <1>3
  <1>5. PartialSums(q)[m - 1] = PartialSums(p)[m - 1] + In(m - 1) * c
    BY <1>4
  <1>6. /\ PartialSums(p)[m] = PartialSums(p)[m - 1] + p[m - 1]
        /\ PartialSums(q)[m] = PartialSums(q)[m - 1] + q[m - 1]
    BY <1>4, Sums
  <1>7. PartialSums(p)[m - 1] \in Nat /\ p[m - 1] \in Nat /\ q[m - 1] \in Nat
    BY <1>4, SumsNat
  <1>8. q[m - 1] + In(m - 1) * c = p[m - 1] + In(m) * c
    <2>1. CASE a <= m - 1 /\ m - 1 < b
      <3>1. p[m - 1] = 0 /\ q[m - 1] = c
        BY <1>4, <2>1
      <3>2. In(m) = In(m - 1) + 1 /\ In(m - 1) \in Nat
        BY <1>4, <2>1
      <3>3. \A x \in Nat : (x + 1) * c = x * c + c /\ x * c \in Nat
        OBVIOUS
      <3> HIDE DEF In
      <3> QED BY <3>1, <3>2, <3>3
    <2>2. CASE ~(a <= m - 1 /\ m - 1 < b)
      <3>1. q[m - 1] = p[m - 1]
        BY <1>4, <2>2
      <3>2. In(m) = In(m - 1)
        BY <1>4, <2>2
      <3> QED BY <3>1, <3>2
    <2> QED BY <2>1, <2>2
  <1>9. In(m) \in Nat /\ In(m - 1) \in Nat
    BY <1>4
  <1>10. \A x \in Nat : x * c \in Nat
    OBVIOUS
  <1>11. In(m) * c \in Nat /\ In(m - 1) * c \in Nat
    BY <1>9, <1>10
  <1> HIDE DEF In
  <1>12. PartialSums(q)[m] = PartialSums(p)[m] + In(m) * c
    <2> DEFINE s  == PartialSums(p)[m - 1]
               pm == p[m - 1]
               qm == q[m - 1]
               x  == In(m - 1) * c
               y  == In(m) * c
    <2>1. /\ PartialSums(q)[m] = s + x + qm /\ PartialSums(p)[m] = s + pm
          /\ s \in Nat /\ pm \in Nat /\ qm \in Nat /\ x \in Nat /\ y \in Nat
          /\ qm + x = pm + y
      BY <1>5, <1>6, <1>7, <1>8, <1>11
    <2> HIDE DEF s, pm, qm, x, y
    <2>2. s + x + qm = s + pm + y
      BY <2>1
    <2>3. PartialSums(q)[m] = PartialSums(p)[m] + y
      BY <2>1, <2>2
    <2> QED BY <2>3 DEF y
  <1>13. PartialSums(q)[m] # PartialSums(p)[m] + In(m) * c
    BY <1>2
  <1> QED BY <1>12, <1>13

-----------------------------------------------------------------------------
\* The price.  IInv, of ConstatPricing: what has been charged lies below `processed` and in its
\* tier, its prices add up, and, when the tiers follow one another, nothing
\* below `processed` has been left out.

Smaller(a, b) == IF a < b THEN a ELSE b

\* The loop begins with a volume.
Fresh == IF pc = "contract" THEN volume = 0 /\ i = 1 /\ processed = 0 ELSE volume # 0

Ranges == \A n \in DOMAIN rules : rules[n].tier_from < rules[n].tier_to

Below == \A k \in Documents : charged[k] # 0 => k < processed

\* While no fixed amount has been applied, none is due.
Base == ~based => fixed = 0

Covered ==
    Consecutive =>
        /\ processed = IF i = 1 THEN 0 ELSE Smaller(rules[i - 1].tier_to, volume)
        /\ \A k \in Documents : k < processed => charged[k] # 0
        /\ \A n \in DOMAIN rules : n < i => rules[n].tier_to <= rules[i - 1].tier_to

IInv == /\ TypeOK /\ i \in 1..Len(rules) + 1
        /\ Over => i = Len(rules) + 1
        /\ Fresh /\ Ranges /\ Below /\ ChargedInTier
        /\ Base /\ FixedOnce /\ Covered

-----------------------------------------------------------------------------
LEMMA ProductNat == \A a, b \in Nat : a * b \in Nat
  OBVIOUS

\* An amount net of its discount is a natural number.
LEMMA NetNat == ASSUME NEW cents \in Nat, NEW r \in Rule PROVE Net(cents, r) \in Nat
  <1>1. 100 - r.discount_percent \in Nat
    BY DEF Rule, Tiered
  <1> QED BY <1>1, ProductNat DEF Net

LEMMA InitIInv == Init => IInv
  <1> SUFFICES ASSUME Init PROVE IInv
    OBVIOUS
  <1>1. rules \in Seq(Rule) /\ Len(rules) = 0 /\ DOMAIN rules = {}
    BY DEF Init
  <1>2. Documents = {}
    BY DEF Init, Documents
  <1>3. charged \in [Documents -> 0..Len(rules)]
    <2>1. 0..-1 = {}
      OBVIOUS
    <2>2. charged = [k \in Documents |-> 0]
      BY <1>2, <2>1 DEF Init
    <2> QED BY <1>2, <2>2
  <1>4. TypeOK
    <2>1. rules \in Seq(Rule) /\ volume = 0 /\ processed = 0
      BY <1>1 DEF Init
    <2>2. processed \in 0..volume
      BY <2>1
    <2>3. /\ refused = {} /\ pc = "contract" /\ i = 1 /\ based = FALSE
          /\ fixed = 0 /\ variable = 0 /\ lines = 0
      BY DEF Init
    <2> QED BY <1>3, <2>1, <2>2, <2>3 DEF TypeOK
  <1> QED
    BY <1>1, <1>2, <1>4 DEF Init, IInv, Over, Fresh, Ranges, Below, ChargedInTier, Base, FixedOnce, Covered

\* What the user enters and the form accepts is a rule with a range.
LEMMA SaveRuleKeeps ==
  ASSUME IInv, NEW form \in Forms, SaveRule(form) PROVE IInv'
  <1>1. CASE Value(form.tier_to) <= form.tier_from
    <2>1. UNCHANGED <<rules, pc, account>> /\ refused' = refused \cup {form}
      BY <1>1 DEF SaveRule
    <2> QED
      BY <2>1 DEF IInv, TypeOK, account, Over, Fresh, Ranges, Below, Base, FixedOnce, Covered,
                  ChargedInTier, Consecutive, Documents
  <1>2. CASE ~(Value(form.tier_to) <= form.tier_from)
    <2> DEFINE r == [form EXCEPT !.tier_to = Value(form.tier_to)]
    <2>1. /\ rules' = Append(rules, r) /\ UNCHANGED <<refused, pc, account>> /\ pc = "contract"
      BY <1>2 DEF SaveRule
    <2>2. form \in Tiered(Nat \cup {Empty})
      BY PricingAssumption
    <2>3. Value(form.tier_to) \in Nat
      BY <2>2 DEF Value, Tiered
    <2>4. r \in Rule /\ r.tier_to = Value(form.tier_to) /\ r.tier_from = form.tier_from
      BY <2>2, <2>3 DEF Rule, Tiered
    <2>5. r.tier_from < r.tier_to
      BY <1>2, <2>2, <2>3, <2>4 DEF Tiered
    <2> HIDE DEF r
    <2>6. rules' \in Seq(Rule) /\ Len(rules') = Len(rules) + 1 /\ Len(rules) \in Nat
      BY <2>1, <2>4 DEF IInv, TypeOK
    <2>7. Documents = {} /\ Documents' = {}
      BY <2>1 DEF IInv, Fresh, Documents, account
    <2>8. TypeOK'
      BY <2>1, <2>6, <2>7 DEF IInv, TypeOK, account
    <2>9. Ranges'
      BY <2>1, <2>5, <2>6 DEF IInv, TypeOK, Ranges
    <2>10. i' = 1 /\ processed' = 0 /\ volume' = 0
      BY <2>1 DEF IInv, Fresh, account
    <2>11. FixedOnce'
      <3>1. \A n \in DOMAIN rules : n \in DOMAIN rules' /\ rules'[n] = rules[n]
        BY <2>1, <2>6 DEF IInv, TypeOK
      <3>2. fixed' = fixed
        BY <2>1 DEF account
      <3> QED BY <3>1, <3>2 DEF IInv, FixedOnce, Net
    <2> QED
      BY <2>1, <2>6, <2>7, <2>8, <2>9, <2>10, <2>11
      DEF IInv, Over, Fresh, Below, ChargedInTier, Base, Covered, account
  <1> QED BY <1>1, <1>2

LEMMA ReceiveKeeps ==
  ASSUME IInv, NEW v \in Volumes, Receive(v) PROVE IInv'
  <1>1. v \in Nat /\ v # 0
    BY PricingAssumption
  <1>2. UNCHANGED <<rules, refused, i, processed, based, fixed, variable, lines>>
    BY DEF Receive
  <1>3. pc = "contract" /\ pc' = "pricing" /\ volume' = v /\ charged' = [k \in 0..v-1 |-> 0]
    BY DEF Receive
  <1>4. i' = 1 /\ processed' = 0
    BY <1>2, <1>3 DEF IInv, Fresh
  <1>5. Documents' = 0..v-1
    BY <1>3 DEF Documents
  <1>6. TypeOK'
    BY <1>1, <1>2, <1>3, <1>4, <1>5 DEF IInv, TypeOK
  <1>7. \A k \in Documents' : charged'[k] = 0
    BY <1>3, <1>5
  <1> QED
    BY <1>1, <1>2, <1>3, <1>4, <1>5, <1>6, <1>7
    DEF IInv, Over, Fresh, Ranges, Below, ChargedInTier, Base, FixedOnce, Covered, Consecutive, Documents

-----------------------------------------------------------------------------
\* The rule the loop is at.
LEMMA CurrentRule ==
  ASSUME IInv, ApplyRule
  PROVE  /\ i \in DOMAIN rules /\ rules[i] \in Rule /\ rules[i].tier_from < rules[i].tier_to
         /\ rules[i].tier_from \in Nat /\ rules[i].tier_to \in Nat
  <1>1. i \in 1..Len(rules) /\ rules \in Seq(Rule)
    BY DEF IInv, TypeOK, ApplyRule
  <1>2. i \in DOMAIN rules /\ rules[i] \in Rule
    BY <1>1
  <1> QED
    BY <1>1, <1>2 DEF IInv, Ranges, Rule, Tiered

\* What one turn of the loop does to the fixed amount.
LEMMA ApplyBase ==
  ASSUME IInv, ApplyRule
  PROVE  fixed' \in Nat /\ based' \in BOOLEAN /\ Base' /\ FixedOnce'
  <1> DEFINE r == rules[i]
  <1>1. r \in Rule /\ i \in DOMAIN rules /\ rules' = rules
    BY CurrentRule DEF ApplyRule
  <1>2. CASE Applies(r) /\ ~based /\ r.fixed_amount > 0
    <2>1. fixed' = fixed + Net(r.fixed_amount, r) /\ based' = TRUE
      BY <1>2 DEF ApplyRule, AddFixed
    <2>2. fixed = 0
      BY <1>2 DEF IInv, Base
    <2>3. r.fixed_amount \in Nat
      BY <1>1 DEF Rule, Tiered
    <2>4. Net(r.fixed_amount, r) \in Nat
      BY <1>1, <2>3, NetNat
    <2>5. fixed' = Net(r.fixed_amount, r)
      BY <2>1, <2>2, <2>4
    <2> QED BY <1>1, <2>1, <2>4, <2>5 DEF Base, FixedOnce, Net
  <1>3. CASE ~(Applies(r) /\ ~based /\ r.fixed_amount > 0)
    <2>1. UNCHANGED <<fixed, based>>
      BY <1>3 DEF ApplyRule, AddFixed
    <2> QED BY <1>1, <2>1 DEF IInv, TypeOK, Base, FixedOnce, Net
  <1> QED BY <1>2, <1>3

\* A turn that charges documents charges those from `processed` on, in the
\* tier of its rule, and no other.
LEMMA ApplyCharges ==
  ASSUME IInv, ApplyRule, Applies(rules[i]), From(rules[i]) < Until(rules[i])
  PROVE  /\ variable' \in Nat /\ processed' = Until(rules[i]) /\ processed' \in 0..volume
         /\ processed <= From(rules[i]) /\ processed < processed'
         /\ charged' \in [Documents -> 0..Len(rules)]
         /\ \A k \in Documents :
               charged'[k] = IF From(rules[i]) <= k /\ k < processed' THEN i ELSE charged[k]
  <1> DEFINE r == rules[i]
  <1>1. /\ r \in Rule /\ r.tier_from \in Nat /\ r.tier_to \in Nat /\ i \in 1..Len(rules)
        /\ volume \in Nat /\ processed \in 0..volume
    BY CurrentRule DEF IInv, TypeOK, ApplyRule
  <1>2. From(r) \in Nat /\ Until(r) \in 0..volume /\ processed <= From(r)
    BY <1>1 DEF From, Until
  <1>3. /\ variable' = variable + Net((Until(r) - From(r)) * r.price_unit, r)
        /\ charged' = [k \in Documents |-> IF k \in From(r)..Until(r)-1 THEN i ELSE charged[k]]
        /\ processed' = Until(r)
    BY DEF ApplyRule, Charge
  <1>4. variable' \in Nat
    <2>1. Until(r) - From(r) \in Nat /\ r.price_unit \in Nat
      BY <1>1, <1>2 DEF Rule, Tiered
    <2>2. Net((Until(r) - From(r)) * r.price_unit, r) \in Nat
      BY <1>1, <2>1, NetNat, ProductNat
    <2> QED BY <1>3, <2>2 DEF IInv, TypeOK
  <1>5. \A k \in Documents : k \in From(r)..Until(r)-1 <=> From(r) <= k /\ k < Until(r)
    BY <1>1, <1>2 DEF Documents
  <1>6. charged' \in [Documents -> 0..Len(rules)]
    <2>1. charged \in [Documents -> 0..Len(rules)] /\ i \in 0..Len(rules)
      BY <1>1 DEF IInv, TypeOK
    <2> DEFINE S == From(r)..Until(r)-1
    <2>2. charged' = [k \in Documents |-> IF k \in S THEN i ELSE charged[k]]
      BY <1>3
    <2> HIDE DEF S
    <2>3. \A k \in Documents : (IF k \in S THEN i ELSE charged[k]) \in 0..Len(rules)
      BY <2>1
    <2> QED BY <2>2, <2>3
  <1>7. \A k \in Documents :
           charged'[k] = IF From(r) <= k /\ k < processed' THEN i ELSE charged[k]
    BY <1>3, <1>5
  <1>8. processed' = Until(r)
    BY <1>3
  <1>9. processed' \in 0..volume /\ processed <= From(r) /\ processed < processed'
    BY <1>1, <1>2, <1>8
  <1> QED BY <1>4, <1>6, <1>7, <1>8, <1>9

LEMMA ApplyCovered ==
  ASSUME IInv, ApplyRule PROVE Covered'
  <1> DEFINE r == rules[i]
  <1>1. /\ r \in Rule /\ r.tier_from < r.tier_to /\ r.tier_from \in Nat /\ r.tier_to \in Nat
        /\ i \in DOMAIN rules
    BY CurrentRule
  <1>2. /\ rules' = rules /\ volume' = volume /\ i' = i + 1
        /\ i \in 1..Len(rules) /\ DOMAIN rules = 1..Len(rules) /\ Len(rules) \in Nat
        /\ volume \in Nat /\ processed \in 0..volume
    BY DEF ApplyRule, IInv, TypeOK
  <1> SUFFICES ASSUME Consecutive
               PROVE  /\ processed' = Smaller(r.tier_to, volume)
                      /\ \A k \in Documents : k < processed' => charged'[k] # 0
                      /\ \A n \in DOMAIN rules : n < i + 1 => rules[n].tier_to <= r.tier_to
    BY <1>2 DEF Covered, Consecutive, Documents
  <1> DEFINE e == IF i = 1 THEN 0 ELSE rules[i - 1].tier_to
  <1>3. e \in Nat /\ r.tier_from = e
    BY <1>1, <1>2 DEF Consecutive
  <1>4. /\ processed = IF i = 1 THEN 0 ELSE Smaller(rules[i - 1].tier_to, volume)
        /\ \A k \in Documents : k < processed => charged[k] # 0
        /\ \A n \in DOMAIN rules : n < i => rules[n].tier_to <= rules[i - 1].tier_to
    BY DEF IInv, Covered
  <1>5. processed = Smaller(e, volume)
    BY <1>2, <1>4 DEF Smaller
  <1>6. \A n \in DOMAIN rules : n < i + 1 => rules[n].tier_to <= r.tier_to
    <2> SUFFICES ASSUME NEW n \in DOMAIN rules, n < i + 1 PROVE rules[n].tier_to <= r.tier_to
      OBVIOUS
    <2>1. CASE n = i
      BY <1>1, <2>1
    <2>2. CASE n < i
      <3>1. i # 1 /\ rules[n].tier_to <= e
        BY <1>2, <1>4, <2>2
      <3>2. rules[n] \in Rule
        BY <1>2 DEF IInv, TypeOK
      <3>3. rules[n].tier_to \in Nat
        BY <3>2 DEF Rule, Tiered
      <3> QED BY <1>1, <1>3, <3>1, <3>3
    <2> QED BY <1>2, <2>1, <2>2
  <1> HIDE DEF e
  <1>7. CASE e < volume
    <2>1. processed = e
      BY <1>3, <1>5, <1>7 DEF Smaller
    <2>2. Applies(r) /\ From(r) = e
      BY <1>2, <1>3, <1>7, <2>1 DEF Applies, From
    <2>3. Until(r) = Smaller(r.tier_to, volume) /\ From(r) < Until(r)
      BY <1>1, <1>2, <1>3, <1>7, <2>2 DEF Until, Smaller
    <2>4. /\ processed' = Until(r)
          /\ \A k \in Documents : charged'[k] = IF e <= k /\ k < processed' THEN i ELSE charged[k]
      BY <2>2, <2>3, ApplyCharges
    <2>5. \A k \in Documents : k < processed' => charged'[k] # 0
      BY <1>2, <1>3, <1>4, <2>1, <2>4 DEF Documents
    <2> QED BY <1>6, <2>3, <2>4, <2>5
  <1>8. CASE ~(e < volume)
    <2>1. processed = volume
      BY <1>2, <1>3, <1>5, <1>8 DEF Smaller
    <2>2. ~Applies(r)
      BY <1>2, <2>1 DEF Applies
    <2>3. UNCHANGED <<charged, processed>>
      BY <2>2 DEF ApplyRule
    <2>4. Smaller(r.tier_to, volume) = volume
      BY <1>1, <1>2, <1>3, <1>8 DEF Smaller
    <2> QED BY <1>4, <1>6, <2>1, <2>3, <2>4
  <1> QED BY <1>7, <1>8

LEMMA ApplyKeeps ==
  ASSUME IInv, ApplyRule PROVE IInv'
  <1> DEFINE r == rules[i]
  <1>1. /\ UNCHANGED <<rules, refused, pc, volume, lines>> /\ pc = "pricing"
        /\ i' = i + 1 /\ i \in 1..Len(rules)
    BY DEF ApplyRule, IInv, TypeOK
  <1>2. Documents' = Documents
    BY <1>1 DEF Documents
  <1>3. r.tier_from \in Nat /\ r.tier_to \in Nat /\ volume \in Nat /\ processed \in 0..volume
    BY CurrentRule DEF IInv, TypeOK
  <1>4. /\ variable' \in Nat /\ processed' \in 0..volume
        /\ charged' \in [Documents -> 0..Len(rules)] /\ Below' /\ ChargedInTier'
    <2>1. CASE Applies(r) /\ From(r) < Until(r)
      <3>1. /\ variable' \in Nat /\ processed' = Until(r) /\ processed' \in 0..volume
            /\ processed <= From(r) /\ processed < processed'
            /\ charged' \in [Documents -> 0..Len(rules)]
            /\ \A k \in Documents :
                  charged'[k] = IF From(r) <= k /\ k < processed' THEN i ELSE charged[k]
        BY <2>1, ApplyCharges
      <3>2. r.tier_from <= From(r) /\ Until(r) <= r.tier_to /\ From(r) \in Nat
        BY <1>3 DEF From, Until
      <3>3. Below'
        <4>1. \A k \in Documents : k \in Nat /\ (charged[k] # 0 => k < processed)
          BY <1>3 DEF IInv, Below, Documents
        <4>2. \A k \in Documents : charged'[k] # 0 => k < processed'
          BY <1>3, <3>1, <4>1
        <4> QED BY <1>2, <4>2 DEF Below
      <3>4. ChargedInTier'
        <4> SUFFICES ASSUME NEW k \in Documents, charged'[k] # 0
                     PROVE rules[charged'[k]].tier_from <= k /\ k < rules[charged'[k]].tier_to
          BY <1>1, <1>2 DEF ChargedInTier
        <4>1. CASE From(r) <= k /\ k < processed'
          BY <1>3, <3>1, <3>2, <4>1 DEF Documents
        <4>2. CASE ~(From(r) <= k /\ k < processed')
          BY <3>1, <4>2 DEF IInv, ChargedInTier
        <4> QED BY <4>1, <4>2
      <3> QED BY <3>1, <3>3, <3>4
    <2>2. CASE ~(Applies(r) /\ From(r) < Until(r))
      <3>1. UNCHANGED <<variable, charged, processed>>
        BY <2>2 DEF ApplyRule, Charge
      <3> QED BY <1>1, <1>2, <3>1 DEF IInv, TypeOK, Below, ChargedInTier
    <2> QED BY <2>1, <2>2
  <1>5. fixed' \in Nat /\ based' \in BOOLEAN /\ Base' /\ FixedOnce'
    BY ApplyBase
  <1>6. TypeOK' /\ (i \in 1..Len(rules) + 1)'
    BY <1>1, <1>2, <1>4, <1>5 DEF IInv, TypeOK
  <1>7. Covered'
    BY ApplyCovered
  <1> QED
    BY <1>1, <1>4, <1>5, <1>6, <1>7 DEF IInv, Over, Fresh, Ranges

\* Half-up rounding of a quotient gives a natural number.
LEMMA RoundedNat ==
  ASSUME NEW a \in Nat, NEW b \in Nat \ {0} PROVE RoundedQuotient(a, b) \in Nat
  <1>1. 2 * a + b \in Nat /\ 2 * b \in Nat \ {0}
    OBVIOUS
  <1>2. \A x \in Nat, y \in Nat \ {0} : x \div y \in Nat
    OBVIOUS
  <1> QED BY <1>1, <1>2 DEF RoundedQuotient

LEMMA InvoiceKeeps ==
  ASSUME IInv, GenerateInvoice PROVE IInv'
  <1>1. /\ UNCHANGED <<rules, refused, volume, i, processed, based, fixed, variable, charged>>
        /\ pc' \in {"invoiced", "nothing"} /\ i = Len(rules) + 1 /\ pc = "pricing"
    BY DEF GenerateInvoice, IInv, TypeOK
  <1>2. lines' \in Nat
    <2>1. CASE fixed + variable = 0
      BY <2>1 DEF GenerateInvoice
    <2>2. CASE fixed + variable # 0
      <3>1. lines' = 100 * (RoundedQuotient(fixed, 100) + volume * UnitPrice)
        BY <2>2 DEF GenerateInvoice
      <3>2. fixed \in Nat /\ variable \in Nat /\ volume \in Nat \ {0}
        BY <1>1 DEF IInv, TypeOK, Fresh
      <3>3. UnitPrice \in Nat /\ RoundedQuotient(fixed, 100) \in Nat
        BY <3>2, RoundedNat DEF UnitPrice
      <3>4. volume * UnitPrice \in Nat
        BY <3>2, <3>3, ProductNat
      <3> QED BY <3>1, <3>3, <3>4
    <2> QED BY <2>1, <2>2
  <1>3. TypeOK'
    <2>1. Documents' = Documents
      BY <1>1 DEF Documents
    <2> QED BY <1>1, <1>2, <2>1 DEF IInv, TypeOK
  <1> QED
    BY <1>1, <1>3 DEF IInv, Over, Fresh, Ranges, Below, ChargedInTier, Base, FixedOnce, Net, Covered,
                      Consecutive, Documents

THEOREM Inductive == Spec => []IInv
  <1>1. ASSUME IInv, [Next]_vars PROVE IInv'
    <2>1. CASE UNCHANGED vars
      BY <1>1, <2>1 DEF vars, IInv, TypeOK, Over, Fresh, Ranges, Below, ChargedInTier, Base, FixedOnce,
                        Net, Covered, Consecutive, Documents
    <2>2. CASE Next
      <3>1. ASSUME NEW form \in Forms, SaveRule(form) PROVE IInv'
        BY <1>1, <3>1, SaveRuleKeeps
      <3>2. ASSUME NEW v \in Volumes, Receive(v) PROVE IInv'
        BY <1>1, <3>2, ReceiveKeeps
      <3>3. CASE ApplyRule
        BY <1>1, <3>3, ApplyKeeps
      <3>4. CASE GenerateInvoice
        BY <1>1, <3>4, InvoiceKeeps
      <3>5. CASE Done
        BY <2>1, <3>5 DEF Done
      <3> QED BY <2>2, <3>1, <3>2, <3>3, <3>4, <3>5 DEF Next
    <2> QED BY <1>1, <2>1, <2>2
  <1> QED BY <1>1, InitIInv, PTL DEF Spec

-----------------------------------------------------------------------------
\* Every variable keeps its type: the loop's positions stay within the volume
\* and its amounts natural numbers (dorevia_constat.py:246-281).
THEOREM TypeCorrect == Spec => []TypeOK
  <1>1. IInv => TypeOK
    BY DEF IInv
  <1> QED BY <1>1, Inductive, PTL

\* For any tiers in any order, a document is charged at the price of a tier
\* it falls in (dorevia_constat.py:232-240).
THEOREM DocumentsChargedInTier == Spec => []ChargedInTier
  <1>1. IInv => ChargedInTier
    BY DEF IInv
  <1> QED BY <1>1, Inductive, PTL

\* The fixed amount is that of a single rule (dorevia_constat.py:227-229).
THEOREM FixedDueOnce == Spec => []FixedOnce
  <1>1. IInv => FixedOnce
    BY DEF IInv
  <1> QED BY <1>1, Inductive, PTL

\* Tiers that follow one another from 0 leave no document of theirs free of
\* charge (dorevia_constat.py:216-240).
THEOREM ConsecutiveAllCharged == Spec => []ConsecutiveIsCharged
  <1>1. IInv => ConsecutiveIsCharged
    <2> SUFFICES ASSUME IInv, Over, Consecutive,
                        NEW k \in Documents, NEW n \in DOMAIN rules, k < rules[n].tier_to
                 PROVE  charged[k] # 0
      BY DEF ConsecutiveIsCharged
    <2>1. i = Len(rules) + 1 /\ DOMAIN rules = 1..Len(rules) /\ Len(rules) \in Nat
      BY DEF IInv, TypeOK
    <2>2. n < i /\ i # 1 /\ i - 1 \in DOMAIN rules
      BY <2>1
    <2>3. rules[n] \in Rule /\ rules[i - 1] \in Rule
      BY <2>2 DEF IInv, TypeOK
    <2>4. rules[n].tier_to \in Nat /\ rules[i - 1].tier_to \in Nat
      BY <2>3 DEF Rule, Tiered
    <2>5. rules[n].tier_to <= rules[i - 1].tier_to /\ processed = Smaller(rules[i - 1].tier_to, volume)
      BY <2>2 DEF IInv, Covered
    <2>6. k < processed
      BY <2>4, <2>5 DEF IInv, TypeOK, Documents, Smaller
    <2> QED BY <2>6 DEF IInv, Covered
  <1> QED BY <1>1, Inductive, PTL

\* Once charged, a document is not charged again, though tiers overlap
\* (dorevia_constat.py:232, 240).
THEOREM ChargesStand == Spec => ChargedOnce
  <1> DEFINE Stand == pc = "pricing" => \A k \in Documents : charged[k] # 0 => charged'[k] = charged[k]
  <1>1. ASSUME IInv, [Next]_vars PROVE [Stand]_vars
    <2> SUFFICES ASSUME pc = "pricing", NEW k \in Documents, charged[k] # 0
                 PROVE  charged'[k] = charged[k]
      OBVIOUS
    <2>1. CASE ApplyRule
      <3>1. CASE Applies(rules[i]) /\ From(rules[i]) < Until(rules[i])
        <4>1. k < processed /\ k \in Nat /\ processed \in Nat
          BY <1>1 DEF IInv, Below, TypeOK, Documents
        <4>2. /\ processed <= From(rules[i])
              /\ charged'[k] = IF From(rules[i]) <= k /\ k < processed' THEN i ELSE charged[k]
          BY <1>1, <2>1, <3>1, ApplyCharges
        <4>3. From(rules[i]) \in Nat
          BY <1>1, <2>1, <4>1, CurrentRule DEF From
        <4> QED BY <4>1, <4>2, <4>3
      <3>2. CASE ~(Applies(rules[i]) /\ From(rules[i]) < Until(rules[i]))
        BY <2>1, <3>2 DEF ApplyRule, Charge
      <3> QED BY <3>1, <3>2
    <2>2. CASE UNCHANGED charged
      BY <2>2
    <2> QED
      BY <1>1, <2>1, <2>2 DEF Next, vars, account, SaveRule, Receive, GenerateInvoice, Done
  <1> QED BY <1>1, Inductive, PTL DEF Spec, ChargedOnce

-----------------------------------------------------------------------------
\* The amount.

Prices == [k \in Documents |-> Price(k)]

LEMMA PricesNat == ASSUME IInv PROVE volume \in Nat /\ Prices \in [0..volume-1 -> Nat]
  <1>1. ASSUME NEW k \in Documents PROVE Price(k) \in Nat
    <2>1. CASE charged[k] = 0
      BY <2>1 DEF Price
    <2>2. CASE charged[k] # 0
      <3>1. charged[k] \in 0..Len(rules) /\ rules \in Seq(Rule)
        BY <1>1 DEF IInv, TypeOK
      <3>2. charged[k] \in DOMAIN rules /\ rules[charged[k]] \in Rule
        BY <2>2, <3>1
      <3>3. rules[charged[k]] \in Rule /\ rules[charged[k]].price_unit \in Nat
        BY <3>2 DEF Rule, Tiered
      <3>4. Net(rules[charged[k]].price_unit, rules[charged[k]]) \in Nat
        BY <3>3, NetNat
      <3> QED BY <2>2, <3>4 DEF Price
    <2> QED BY <2>1, <2>2
  <1>2. volume \in Nat /\ Documents = 0..volume-1
    BY DEF IInv, TypeOK, Documents
  <1> QED BY <1>1, <1>2 DEF Prices

\* Net of the discount, n documents cost n times what one costs.
LEMMA NetOfMany ==
  ASSUME NEW n \in Nat, NEW cents \in Nat, NEW r \in Rule
  PROVE  Net(n * cents, r) = n * Net(cents, r)
  <1>1. 100 - r.discount_percent \in Nat
    BY DEF Rule, Tiered
  <1>2. \A x, y, z \in Nat : (x * y) * z = x * (y * z)
    OBVIOUS
  <1> QED BY <1>1, <1>2 DEF Net

\* A turn of the loop adds to the amount what it charges.
LEMMA ApplyAdds ==
  ASSUME IInv, IInv', VariableIsCharged, ApplyRule, Applies(rules[i]), From(rules[i]) < Until(rules[i])
  PROVE  VariableIsCharged'
  <1> DEFINE r == rules[i]
             a == From(r)
             b == Until(r)
             c == Net(r.price_unit, r)
  <1>1. /\ r \in Rule /\ r.tier_from \in Nat /\ i \in 1..Len(rules) /\ i # 0
        /\ volume \in Nat /\ processed \in 0..volume /\ rules' = rules /\ volume' = volume
    BY CurrentRule DEF IInv, TypeOK, ApplyRule
  <1>2. a \in Nat /\ b \in a..volume /\ b \in Nat /\ b - a \in Nat /\ processed <= a
    <2>1. a \in Nat /\ b \in 0..volume /\ processed <= a /\ a < b
      BY <1>1, ApplyCharges DEF From
    <2> HIDE DEF a, b
    <2> QED BY <1>1, <2>1
  <1>3. processed' = b
    BY ApplyCharges
  <1>4. r.price_unit \in Nat /\ c \in Nat
    <2>1. r.price_unit \in Nat
      BY <1>1 DEF Rule, Tiered
    <2> QED BY <1>1, <2>1, NetNat
  <1>5. variable' = variable + (b - a) * c
    <2>1. variable' = variable + Net((b - a) * r.price_unit, r)
      BY DEF ApplyRule, Charge
    <2>2. Net((b - a) * r.price_unit, r) = (b - a) * c
      BY <1>1, <1>2, <1>4, NetOfMany
    <2> QED BY <2>1, <2>2
  <1>6. Documents = 0..volume-1 /\ Documents' = Documents
    BY <1>1 DEF Documents
  <1>7. \A k \in 0..volume-1 : Prices'[k] = IF a <= k /\ k < b THEN c ELSE Prices[k]
    <2> SUFFICES ASSUME NEW k \in Documents
                 PROVE  Prices'[k] = IF a <= k /\ k < b THEN c ELSE Prices[k]
      BY <1>6
    <2>1. charged'[k] = IF a <= k /\ k < b THEN i ELSE charged[k]
      BY <1>3, ApplyCharges
    <2>2. Prices'[k] = Price(k)' /\ Prices[k] = Price(k)
      BY <1>6 DEF Prices
    <2>3. CASE a <= k /\ k < b
      <3>1. charged'[k] = i
        BY <2>1, <2>3
      <3>2. Price(k)' = c
        BY <1>1, <3>1 DEF Price, Net
      <3> QED BY <2>2, <2>3, <3>2
    <2>4. CASE ~(a <= k /\ k < b)
      <3>1. charged'[k] = charged[k]
        BY <2>1, <2>4
      <3>2. Price(k)' = Price(k)
        BY <1>1, <3>1 DEF Price, Net
      <3> QED BY <2>2, <2>4, <3>2
    <2> QED BY <2>3, <2>4
  <1>8. \A k \in a..b-1 : Prices[k] = 0
    <2> SUFFICES ASSUME NEW k \in a..b-1 PROVE Prices[k] = 0
      OBVIOUS
    <2>1. k \in Documents /\ ~(k < processed)
      <3> HIDE DEF a, b
      <3> QED BY <1>1, <1>2, <1>6
    <2>2. charged[k] = 0
      BY <2>1 DEF IInv, Below
    <2> QED BY <2>1, <2>2 DEF Prices, Price
  <1>9. Prices \in [0..volume-1 -> Nat] /\ Prices' \in [0..volume-1 -> Nat]
    <2>1. Prices \in [0..volume-1 -> Nat]
      BY PricesNat
    <2>2. \A k \in 0..volume-1 : Prices'[k] \in Nat
      <3> HIDE DEF a, b, c
      <3> QED BY <1>4, <1>7, <2>1
    <2>3. Prices' = [k \in 0..volume-1 |-> Prices'[k]]
      BY <1>6 DEF Prices
    <2> QED BY <2>1, <2>2, <2>3
  <1> HIDE DEF a, b, c
  <1>10. PartialSums(Prices')[volume] = PartialSums(Prices)[volume] + (b - a) * c
    <2>1. Charging(Prices, Prices', volume, a, b, c)
      BY <1>1, <1>2, <1>4, <1>7, <1>8, <1>9 DEF Charging
    <2> QED BY <2>1, SumsAdd
  <1>11. variable = PartialSums(Prices)[volume]
    BY DEF VariableIsCharged, Prices
  <1>12. variable' = PartialSums(Prices')[volume']
    BY <1>1, <1>5, <1>10, <1>11
  <1> QED BY <1>12 DEF VariableIsCharged, Prices

\* The variable amount of a constat is the sum of what its documents are
\* charged, for any tiers and volume (dorevia_constat.py:235-240).
THEOREM AmountIsSum == Spec => []VariableIsCharged
  <1>1. Init => VariableIsCharged
    BY Sums DEF Init, VariableIsCharged
  <1>2. ASSUME IInv, IInv', VariableIsCharged, [Next]_vars PROVE VariableIsCharged'
    <2>1. ASSUME NEW form \in Forms, SaveRule(form) PROVE VariableIsCharged'
      <3>1. volume = 0 /\ volume' = 0 /\ variable' = variable
        BY <1>2, <2>1 DEF SaveRule, account, IInv, Fresh
      <3> QED BY <1>2, <3>1, Sums DEF VariableIsCharged
    <2>2. ASSUME NEW v \in Volumes, Receive(v) PROVE VariableIsCharged'
      <3>1. volume = 0 /\ volume' = v /\ variable' = variable /\ charged' = [k \in 0..v-1 |-> 0]
        BY <1>2, <2>2 DEF Receive, IInv, Fresh
      <3>2. variable = 0 /\ v \in Nat
        BY <1>2, <3>1, Sums, PricingAssumption DEF VariableIsCharged
      <3>3. Documents' = 0..v-1 /\ \A k \in 0..v-1 : Prices'[k] = 0
        BY <3>1 DEF Documents, Prices, Price
      <3>4. PartialSums(Prices')[v] = 0
        BY <3>2, <3>3, SumsZero
      <3> QED BY <3>1, <3>2, <3>4 DEF VariableIsCharged, Prices
    <2>3. CASE ApplyRule
      <3>1. CASE Applies(rules[i]) /\ From(rules[i]) < Until(rules[i])
        BY <1>2, <2>3, <3>1, ApplyAdds
      <3>2. CASE ~(Applies(rules[i]) /\ From(rules[i]) < Until(rules[i]))
        <4>1. UNCHANGED <<variable, charged, rules, volume>>
          BY <2>3, <3>2 DEF ApplyRule, Charge
        <4> QED BY <1>2, <4>1 DEF VariableIsCharged, Documents, Price, Net
      <3> QED BY <3>1, <3>2
    <2>4. CASE UNCHANGED <<variable, charged, rules, volume>>
      BY <1>2, <2>4 DEF VariableIsCharged, Documents, Price, Net
    <2> QED BY <1>2, <2>1, <2>2, <2>3, <2>4 DEF Next, vars, GenerateInvoice, Done
  <1> QED BY <1>1, <1>2, Inductive, PTL DEF Spec

-----------------------------------------------------------------------------
\* The invoice.

\* A rounded quotient is within a half of the quotient.
LEMMA Rounded ==
  ASSUME NEW a \in Nat, NEW b \in Nat \ {0}
  PROVE  /\ RoundedQuotient(a, b) \in Nat
         /\ 2 * (b * RoundedQuotient(a, b)) <= 2 * a + b
         /\ 2 * a + b < 2 * (b * RoundedQuotient(a, b)) + 2 * b
  <1> DEFINE x == 2 * a + b
             y == 2 * b
             q == x \div y
  <1>1. q \in Nat /\ RoundedQuotient(a, b) = q
    BY RoundedNat DEF RoundedQuotient
  <1>2. x \in Nat /\ y \in Nat \ {0}
    OBVIOUS
  <1>3. \A m \in Nat, n \in Nat \ {0} : n * (m \div n) <= m /\ m < n * (m \div n) + n
    OBVIOUS
  <1>4. y * q <= x /\ x < y * q + y
    <2> HIDE DEF x, y
    <2> QED BY <1>2, <1>3
  <1> HIDE DEF q
  <1>5. y * q = 2 * (b * q)
    BY <1>1
  <1>6. b * q \in Nat
    BY <1>1, ProductNat
  <1> QED BY <1>1, <1>4, <1>5

\* Multiplying by the volume n the price per document, u in hundredths of a
\* cent and w in cents.
LEMMA UnitPriceError ==
  ASSUME NEW n \in Nat \ {0}, NEW v \in Nat, NEW u \in Nat, NEW w \in Nat,
         2 * (n * u) <= 2 * v + n, 2 * v + n < 2 * (n * u) + 2 * n,
         2 * (100 * w) <= 2 * u + 100, 2 * u + 100 < 2 * (100 * w) + 2 * 100
  PROVE  /\ 200 * (n * w) - 2 * v <= 101 * n
         /\ 2 * v - 200 * (n * w) <= 101 * n
  <1> DEFINE x == n * w
             y == n * u
  <1>1. x \in Nat /\ y \in Nat
    BY ProductNat
  <1>2. 200 * x <= 2 * y + 100 * n
    <2>1. \A s, t \in Nat : s <= t => n * s <= n * t
      OBVIOUS
    <2>2. 200 * w \in Nat /\ 2 * u + 100 \in Nat /\ 200 * w <= 2 * u + 100
      OBVIOUS
    <2>3. n * (200 * w) <= n * (2 * u + 100)
      BY <2>1, <2>2
    <2>4. n * (200 * w) = 200 * x /\ n * (2 * u + 100) = 2 * y + 100 * n
      OBVIOUS
    <2> QED BY <2>3, <2>4
  <1>3. 2 * y + 100 * n <= 200 * x + 200 * n
    <2>1. \A s, t \in Nat : s <= t => n * s <= n * t
      OBVIOUS
    <2>2. 200 * w + 200 \in Nat /\ 2 * u + 100 \in Nat /\ 2 * u + 100 <= 200 * w + 200
      OBVIOUS
    <2>3. n * (2 * u + 100) <= n * (200 * w + 200)
      BY <2>1, <2>2
    <2>4. n * (200 * w + 200) = 200 * x + 200 * n /\ n * (2 * u + 100) = 2 * y + 100 * n
      OBVIOUS
    <2> QED BY <2>3, <2>4
  <1>4. 2 * y <= 2 * v + n /\ 2 * v + n < 2 * y + 2 * n
    OBVIOUS
  <1> HIDE DEF x, y
  <1>5. 200 * x - 2 * v <= 101 * n /\ 2 * v - 200 * x <= 101 * n
    BY <1>1, <1>2, <1>3, <1>4
  <1> QED BY <1>5 DEF x

\* What is invoiced differs from the amount by no more than the rounding of
\* the unit price and of the fixed amount (dorevia_constat.py:384-389).
THEOREM InvoiceIsClose == Spec => []InvoiceWithinRounding
  <1>1. Init => InvoiceWithinRounding
    BY DEF Init, InvoiceWithinRounding
  <1>2. ASSUME IInv, InvoiceWithinRounding, [Next]_vars PROVE InvoiceWithinRounding'
    <2>1. CASE GenerateInvoice
      <3> SUFFICES ASSUME pc' = "invoiced"
                   PROVE  /\ -(101 * volume + 100) <= 2 * (lines' - (fixed + variable))
                          /\ 2 * (lines' - (fixed + variable)) <= 101 * volume + 100
        BY <2>1 DEF GenerateInvoice, InvoiceWithinRounding
      <3> DEFINE f == RoundedQuotient(fixed, 100)
                 u == RoundedQuotient(variable, volume)
                 x == volume * UnitPrice
      <3>1. volume \in Nat \ {0} /\ fixed \in Nat /\ variable \in Nat
        BY <1>2, <2>1 DEF IInv, TypeOK, Fresh, GenerateInvoice
      <3>2. /\ f \in Nat /\ 200 * f <= 2 * fixed + 100 /\ 2 * fixed + 100 < 200 * f + 200
        <4>1. /\ f \in Nat /\ 2 * (100 * f) <= 2 * fixed + 100
              /\ 2 * fixed + 100 < 2 * (100 * f) + 2 * 100
          BY <3>1, Rounded
        <4> HIDE DEF f
        <4> QED BY <4>1
      <3>3. /\ u \in Nat /\ 2 * (volume * u) <= 2 * variable + volume
            /\ 2 * variable + volume < 2 * (volume * u) + 2 * volume
        BY <3>1, Rounded
      <3>4. /\ UnitPrice \in Nat /\ 2 * (100 * UnitPrice) <= 2 * u + 100
            /\ 2 * u + 100 < 2 * (100 * UnitPrice) + 2 * 100
        <4>1. UnitPrice = RoundedQuotient(u, 100) /\ u \in Nat
          BY <3>3 DEF UnitPrice
        <4> HIDE DEF u
        <4> QED BY <4>1, Rounded
      <3>5. x \in Nat
        BY <3>1, <3>4, ProductNat
      <3>6. 200 * x - 2 * variable <= 101 * volume /\ 2 * variable - 200 * x <= 101 * volume
        BY <3>1, <3>3, <3>4, UnitPriceError
      <3>7. lines' = 100 * (f + x)
        BY <2>1 DEF GenerateInvoice
      <3> HIDE DEF f, u, x
      <3> QED BY <3>1, <3>2, <3>5, <3>6, <3>7
    <2>2. CASE UNCHANGED vars
      BY <1>2, <2>2 DEF vars, InvoiceWithinRounding
    <2>3. CASE pc' # "invoiced"
      BY <2>3 DEF InvoiceWithinRounding
    <2> QED
      BY <1>2, <2>1, <2>2, <2>3 DEF Next, SaveRule, Receive, ApplyRule, Done
  <1> QED BY <1>1, <1>2, Inductive, PTL DEF Spec
==============================================================================
