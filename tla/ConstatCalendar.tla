---------------------------- MODULE ConstatCalendar ----------------------------
(***************************************************************************)
(* When the monthly constats of a tenant are generated, and which of its   *)
(* documents they count: the daily ticker and first run of StartScheduler, *)
(* the period Run and parsePeriod compute, POST /constats/generate, and    *)
(* the aggregation over created_at.  Signature, races and transmission     *)
(* are module Constat's.                                                   *)
(*                                                                         *)
(* A month has Days[month] days of Hours hours.  What happens in an hour   *)
(* happens strictly inside it; the ticker fires in the hour of the day in  *)
(* which the process was started, every day after that one.                *)
(***************************************************************************)
EXTENDS Naturals

CONSTANTS
    MaxMonth,  \* months the model runs through
    Days,      \* length of each month
    Hours,     \* hours of a day: 24, of which only the first and last matter
    Docs,      \* posted documents of the tenant
    Instants,  \* where in its month a document may be created
    Manual,    \* whether POST /constats/generate is called too
    Faults,    \* "error": a run of the job may fail
    None

ASSUME CalendarAssumption ==
    /\ MaxMonth \in Nat \ {0} /\ Hours \in Nat \ {0, 1}
    /\ Days \in [1..MaxMonth + 1 -> Nat \ {0}]
    /\ Instants \subseteq {"whole", "fraction"}
    /\ Manual \in BOOLEAN /\ Faults \subseteq {"error"}
    /\ None \notin Nat /\ \A counted \in SUBSET Docs : counted # None

VARIABLES
    month, day, hour,  \* the current hour, UTC
    proc,     \* None, or the hour of the ticker, the month of the start, and
              \* whether a first run is scheduled for the next hour
    due,      \* timers that have expired and not been handled
    doc,      \* documents.created_at: its month, and whether it falls in the
              \* last, fractional second of it
    constat,  \* the documents counted by the constat of each period, or None
    failed,   \* history: the periods a run of the job has failed for
    early     \* history: those the endpoint generated before they were over

calendarVars == <<month, day, hour, proc, due, doc, constat, failed, early>>
history == <<failed, early>>

Periods == 0..MaxMonth
Created == [month : 1..MaxMonth, at : Instants]
Process == [phase : 0..Hours-1, since : 1..MaxMonth, first : BOOLEAN]

CalendarTypeOK ==
    /\ month \in 1..MaxMonth /\ day \in 1..Days[month] /\ hour \in 0..Hours-1
    /\ proc \in Process \cup {None}
    /\ due \subseteq {"first", "tick"}
    /\ doc \in [Docs -> Created \cup {None}]
    /\ constat \in [Periods -> (SUBSET Docs) \cup {None}]
    /\ failed \subseteq Periods /\ early \subseteq Periods

CalendarInit ==
    /\ month = 1 /\ day = 1 /\ hour = 0
    /\ proc = None /\ due = {}
    /\ doc = [d \in Docs |-> None]
    /\ constat = [p \in Periods |-> None]
    /\ failed = {} /\ early = {}

calendar == <<month, day, hour>>
LastDay  == day = Days[month]
LastHour == hour = Hours - 1

-----------------------------------------------------------------------------
\* nextRun: the month AddDate(0, 1, 0) falls in, when the day does not exist
\* in the next one.
NextRunMonth == IF day <= Days[month + 1] THEN month + 1 ELSE month + 2

StartNextHour ==  \* mutant: the ticker is taken to fire an hour later every day
    /\ proc' = [phase |-> hour + 1, since |-> month, first |-> FALSE]
    /\ due' = {}
    /\ UNCHANGED <<calendar, doc, constat, history>>
\* StartScheduler: run in a minute in the first hour of a month; wait for the
\* first of the month only when that is less than an hour away.
Start ==
    /\ proc' = [phase |-> hour, since |-> month,
                first |-> LastDay /\ LastHour /\ NextRunMonth = month + 1]
    /\ due' = IF day = 1 /\ hour = 0 THEN {"first"} ELSE {}
    /\ UNCHANGED <<calendar, doc, constat, history>>

Stop == proc # None /\ proc' = None /\ due' = {} /\ UNCHANGED <<calendar, doc, constat, history>>

\* Time passes, and timers expire on time.
Advance ==
    /\ due = {}
    /\ ~(month = MaxMonth /\ LastDay /\ LastHour)
    /\ hour' = IF LastHour THEN 0 ELSE hour + 1
    /\ day' = IF ~LastHour THEN day ELSE IF LastDay THEN 1 ELSE day + 1
    /\ month' = IF LastHour /\ LastDay THEN month + 1 ELSE month
    /\ due' = IF proc = None THEN {}
              ELSE (IF proc.first THEN {"first"} ELSE {}) \cup
                   (IF proc.phase = hour' THEN {"tick"} ELSE {})
    /\ proc' = IF proc = None THEN None ELSE [proc EXCEPT !.first = FALSE]
    /\ UNCHANGED <<doc, constat, history>>

CreateDoc(d, at) ==
    /\ doc[d] = None
    /\ at = "fraction" => LastDay /\ LastHour
    /\ doc' = [doc EXCEPT ![d] = [month |-> month, at |-> at]]
    /\ UNCHANGED <<calendar, proc, due, constat, history>>

-----------------------------------------------------------------------------
Exists(d) == doc[d] # None

AggregateDocumentsSince(p) ==  \* mutant: no upper bound on created_at
    {d \in Docs : Exists(d) /\ doc[d].month >= p /\ doc[d].at = "whole"}
\* AggregateDocuments: created_at from the first second of the period to the
\* last whole second of it.
AggregateDocuments(p) ==
    {d \in Docs : Exists(d) /\ doc[d].month = p /\ doc[d].at = "whole"}

\* GenerateConstat keeps the constat of a period that has one.
Generate(p) ==
    constat' = [constat EXCEPT ![p] = IF @ = None THEN AggregateDocuments(p) ELSE @]

PeriodOfToday == month  \* mutant: the current month
\* Run: the month before the current one.
Period == month - 1

\* getActiveTenants: a tenant with a posted document of whatever period.
IsActive == \E d \in Docs : Exists(d)

Run == IF IsActive THEN Generate(Period) ELSE UNCHANGED constat

FirstRun ==
    /\ "first" \in due
    /\ Run
    /\ due' = due \ {"first"}
    /\ UNCHANGED <<calendar, proc, doc, history>>

TickSecondHour ==  \* mutant: now.Hour() == 1
    /\ "tick" \in due
    /\ IF day = 1 /\ hour = 1 THEN Run ELSE UNCHANGED constat
    /\ due' = due \ {"tick"}
    /\ UNCHANGED <<calendar, proc, doc, history>>
\* The ticker: only between 00:00 and 01:00 of the first day of a month.
Tick ==
    /\ "tick" \in due
    /\ IF day = 1 /\ hour = 0 THEN Run ELSE UNCHANGED constat
    /\ due' = due \ {"tick"}
    /\ UNCHANGED <<calendar, proc, doc, history>>

\* The database fails, or the run takes more than 30 minutes: it is logged.
RunFails(timer) ==
    /\ "error" \in Faults /\ timer \in due
    /\ day = 1 /\ hour = 0
    /\ due' = due \ {timer}
    /\ failed' = failed \cup {Period}
    /\ UNCHANGED <<calendar, proc, doc, constat, early>>

\* POST /constats/generate: any period of the form YYYY-MM.
GenerateConstatHandler(p) ==
    /\ Manual
    /\ Generate(p)
    /\ early' = IF constat[p] = None /\ p >= month THEN early \cup {p} ELSE early
    /\ UNCHANGED <<calendar, proc, due, doc, failed>>

CalendarNext ==
    \/ Start \/ Stop \/ Advance \/ FirstRun \/ Tick
    \/ \E timer \in {"first", "tick"} : RunFails(timer)
    \/ \E d \in Docs, at \in Instants : CreateDoc(d, at)
    \/ \E p \in Periods : GenerateConstatHandler(p)

CalendarSpec == CalendarInit /\ [][CalendarNext]_calendarVars

-----------------------------------------------------------------------------
Has(p) == constat[p] # None

\* No document is counted, and billed, in two months (constat.go:107-113).
CountedOnce ==
    \A p, q \in Periods : Has(p) /\ Has(q) /\ p # q => constat[p] \cap constat[q] = {}

\* What the job counts is complete and of a month that is over: a document
\* created on a whole second is in the constat of its month, unless the
\* endpoint was asked for that constat too early (constat_monthly.go:33-38,
\* constat.go:107-113, 169-185).
CompleteUnlessEarly ==
    \A p \in Periods : Has(p) /\ p \notin early =>
        \A d \in Docs : Exists(d) /\ doc[d].month = p /\ doc[d].at = "whole" => d \in constat[p]

\* THE_BIG_DETAILED_PICTURE.md:250: on the first of each month the job has
\* generated the constat of the month before, or has failed to, when the
\* process has been up since an earlier month.
UpSince(m)     == proc # None /\ proc.since < m
HadDocuments   == \E d \in Docs : Exists(d) /\ doc[d].month < month
EveryMonthRuns ==
    UpSince(month) /\ HadDocuments /\ hour > 0 => Has(month - 1) \/ month - 1 \in failed

\* The ticker keeps that promise to a process started between 00:00 and 01:00
\* (constat_monthly.go:202-216).
MidnightRuns == proc # None /\ proc.phase = 0 => EveryMonthRuns
==============================================================================
