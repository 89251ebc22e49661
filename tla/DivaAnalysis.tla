------------------------------ MODULE DivaAnalysis ------------------------------
(***************************************************************************)
(* DIVA's analyses of one dashboard context by a language model.           *)
(*                                                                         *)
(* A request for an analysis is synchronous (explain: the client waits for *)
(* the model) or asynchronous (explain/async: the row of the context in    *)
(* diva_analysis is claimed, a worker calls the model, and the client      *)
(* polls the job).  Several processes share the table; each has a guard of *)
(* its own that admits one call per context, and purges the entries it     *)
(* finds too old.  A process that stops takes its workers with it.         *)
(*                                                                         *)
(* Time passes in ticks.  A step other than the model's answer takes less  *)
(* than one; a client asks or polls once in each.  The cache of each       *)
(* process only answers earlier what a request with force_refresh asks     *)
(* for, so it is left out; so is /diva/generate, which has its own keys.   *)
(***************************************************************************)
EXTENDS Integers, FiniteSets

CONSTANTS
    Procs,       \* processes
    Clients,     \* clients of the asynchronous analysis
    Workers,     \* calls of the model that may go on at once
    Timeout,     \* MISTRAL_TIMEOUT_MS
    MaxAge,      \* GUARD_MAX_AGE_SECONDS
    MaxRuntime,  \* maxRuntimeSeconds
    Ttl,         \* ttl of a row
    Mishaps,     \* bound on failures of the model and the database, and restarts
    None

ASSUME DivaAssumption ==
    /\ {Timeout, MaxAge, MaxRuntime, Ttl} \subseteq Nat \ {0}
    /\ MaxRuntime <= Ttl
    /\ Mishaps \in Nat
    /\ None \notin Procs \cup Nat

VARIABLES
    guard,   \* a process's entry: its age, or None
    row,     \* diva_analysis: status, and ticks until expires_at
    worker,  \* calls of the model, of either kind
    client,  \* what each client is doing, whether it has been heard in this tick,
             \* and whether it was last told a result, or none
    opened,  \* processes whose purge has taken the entry of a call under way
    mishaps

vars == <<guard, row, worker, client, opened, mishaps>>

\* A failed row, whose expires_at nobody reads.
Failed == [status |-> "failed", left |-> 0]
Free == [step |-> "free", proc |-> None, age |-> 0]
Away == [pc |-> "away", proc |-> None, told |-> "none", seen |-> FALSE]

TypeOK ==
    /\ guard \in [Procs -> (0..MaxAge + 1) \cup {None}]
    /\ row \in [status : {"none", "processing", "done", "failed"}, left : 0..Ttl]
    /\ worker \in [Workers -> [step : {"free", "sync", "async", "done", "failed"},
                               proc : Procs \cup {None}, age : 0..Timeout]]
    /\ client \in [Clients -> [pc : {"away", "acquire", "claim", "polling", "stale"},
                               proc : Procs \cup {None}, seen : BOOLEAN,
                               told : {"none", "result"}]]
    /\ opened \subseteq Procs
    /\ mishaps \in 0..Mishaps

Init ==
    /\ guard = [p \in Procs |-> None]
    /\ row = [status |-> "none", left |-> 0]
    /\ worker = [w \in Workers |-> Free]
    /\ client = [c \in Clients |-> Away]
    /\ opened = {}
    /\ mishaps = 0

-----------------------------------------------------------------------------
Mishap == mishaps < Mishaps /\ mishaps' = mishaps + 1

Runtime == Ttl - row.left  \* since started_at, of a row that is 'processing'
Fresh   == row.status = "done" /\ row.left > 0

Tell(c, answer) == client' = [client EXCEPT ![c] = [Away EXCEPT !.told = answer, !.seen = TRUE]]
GoTo(c, pc)     == client' = [client EXCEPT ![c].pc = pc]
Pending(c)      == client' = [client EXCEPT ![c] = [Away EXCEPT !.pc = "polling", !.seen = TRUE]]

\* guard.TryAcquire and guard.Release, which looks at no owner.
Acquire(p) == guard[p] = None /\ guard' = [guard EXCEPT ![p] = 0]
Release(p) == guard' = [guard EXCEPT ![p] = None]

\* Bound: a request goes on to a call only while Workers leaves one for it.
Room == Cardinality({w \in Workers : worker[w] # Free})
          + Cardinality({c \in Clients : client[c].pc \in {"acquire", "claim"}})
        < Cardinality(Workers)

\* A call of the model begins, in process p.
Call(w, step, p) ==
    /\ worker[w] = Free
    /\ worker' = [worker EXCEPT ![w] = [step |-> step, proc |-> p, age |-> 0]]

-----------------------------------------------------------------------------
\* POST /diva/explain, by anybody.
Explain(w, p) ==
    /\ Room /\ Acquire(p) /\ Call(w, "sync", p)
    /\ UNCHANGED <<row, client, opened, mishaps>>

Runs == row.status = "processing" /\ Runtime < MaxRuntime

\* POST /diva/explain/async reads the row: a result, a job that runs, or neither;
\* a read that fails counts as neither.
Ask(c, p) ==
    /\ client[c].pc = "away" /\ ~client[c].seen
    /\ \/ Fresh /\ Tell(c, "result") /\ UNCHANGED mishaps
       \/ Runs /\ Pending(c) /\ UNCHANGED mishaps
       \/ /\ Room
          /\ (~Fresh /\ ~Runs /\ UNCHANGED mishaps) \/ Mishap
          /\ client' = [client EXCEPT ![c] = [Away EXCEPT !.pc = "acquire", !.proc = p]]
    /\ UNCHANGED <<guard, row, worker, opened>>

\* The guard of the process, whose entry may have no call any more.
TryAcquire(c) ==
    /\ client[c].pc = "acquire"
    /\ \/ Acquire(client[c].proc) /\ GoTo(c, "claim")
       \/ guard[client[c].proc] # None /\ Tell(c, "none") /\ UNCHANGED guard
    /\ UNCHANGED <<row, worker, opened, mishaps>>

Claimable == row.status # "processing" \/ row.left = 0

ClaimReleasing(c) ==  \* mutant: the handler releases the guard, as explain does
    /\ client[c].pc = "claim"
    /\ IF Claimable
       THEN /\ row' = [status |-> "processing", left |-> Ttl]
            /\ \E w \in Workers : Call(w, "async", client[c].proc)
       ELSE UNCHANGED <<row, worker>>
    /\ Pending(c) /\ Release(client[c].proc)
    /\ UNCHANGED <<opened, mishaps>>
\* UpsertProcessing: the row is claimed and a worker started; or it is not, and
\* the guard keeps its entry, which nobody will release.
Claim(c) ==
    /\ client[c].pc = "claim"
    /\ IF Claimable
       THEN /\ row' = [status |-> "processing", left |-> Ttl]
            /\ \E w \in Workers : Call(w, "async", client[c].proc)
       ELSE UNCHANGED <<row, worker>>
    /\ Pending(c)
    /\ UNCHANGED <<guard, opened, mishaps>>

\* 500, and the guard keeps its entry.
ClaimFails(c) ==
    /\ client[c].pc = "claim" /\ Mishap
    /\ Tell(c, "none")
    /\ UNCHANGED <<guard, row, worker, opened>>

-----------------------------------------------------------------------------
\* The calls.
EndCall(w) == worker' = [worker EXCEPT ![w] = Free] /\ Release(worker[w].proc)

\* explain ends, whatever the model answers.
SyncEnds(w) ==
    /\ worker[w].step = "sync" /\ EndCall(w)
    /\ UNCHANGED <<row, client, opened, mishaps>>

ChatAnswers(w) ==
    /\ worker[w].step = "async"
    /\ worker' = [worker EXCEPT ![w].step = "done"]
    /\ UNCHANGED <<guard, row, client, opened, mishaps>>

\* The model refuses, or its time is over.
ChatFails(w) ==
    /\ worker[w].step = "async" /\ Mishap
    /\ worker' = [worker EXCEPT ![w].step = "failed"]
    /\ UNCHANGED <<guard, row, client, opened>>

\* MarkDone and MarkFailed write over the row if it is 'processing', whoever
\* claimed it; the error of the write is ignored.
Mark(w) ==
    /\ worker[w].step \in {"done", "failed"}
    /\ row' = IF row.status # "processing" THEN row
              ELSE IF worker[w].step = "done" THEN [status |-> "done", left |-> Ttl] ELSE Failed
    /\ EndCall(w)
    /\ UNCHANGED <<client, opened, mishaps>>

MarkFails(w) ==
    /\ worker[w].step \in {"done", "failed"} /\ Mishap
    /\ EndCall(w)
    /\ UNCHANGED <<row, client, opened>>

-----------------------------------------------------------------------------
PollPatient(c) ==  \* mutant: a job that has run too long is pending
    /\ client[c].pc = "polling" /\ ~client[c].seen
    /\ \/ row.status = "processing" /\ client' = [client EXCEPT ![c].seen = TRUE]
       \/ row.status = "done" /\ Tell(c, "result")
       \/ row.status = "failed" /\ Tell(c, "none")
    /\ UNCHANGED <<guard, row, worker, opened, mishaps>>
\* GET /diva/jobs/:contextHash.
Poll(c) ==
    /\ client[c].pc = "polling" /\ ~client[c].seen
    /\ \/ Runs /\ client' = [client EXCEPT ![c].seen = TRUE]
       \/ row.status = "processing" /\ ~Runs /\ GoTo(c, "stale")
       \/ row.status = "done" /\ Tell(c, "result")
       \/ row.status = "failed" /\ Tell(c, "none")
    /\ UNCHANGED <<guard, row, worker, opened, mishaps>>

\* MarkStaleFailed, over whatever claim the row has by then; the error of the
\* write is ignored.
MarkStale(c) ==
    /\ client[c].pc = "stale"
    /\ \/ /\ row' = IF row.status = "processing" THEN Failed ELSE row
          /\ UNCHANGED mishaps
       \/ Mishap /\ UNCHANGED row
    /\ Tell(c, "none")
    /\ UNCHANGED <<guard, worker, opened>>

-----------------------------------------------------------------------------
PurgeNone(p) ==  \* mutant: the purge is not started
    FALSE /\ UNCHANGED vars
\* guard.PurgeStale, which does not know whether the call of the entry goes on.
Purge(p) ==
    /\ guard[p] = MaxAge + 1
    /\ Release(p)
    /\ opened' = IF \E w \in Workers : worker[w].proc = p THEN opened \cup {p} ELSE opened
    /\ UNCHANGED <<row, worker, client, mishaps>>

\* A process stops, and starts again.
Restart(p) ==
    /\ Mishap
    /\ Release(p) /\ opened' = opened \ {p}
    /\ worker' = [w \in Workers |-> IF worker[w].proc = p THEN Free ELSE worker[w]]
    /\ client' = [c \in Clients |-> IF client[c].proc = p THEN Away ELSE client[c]]
    /\ UNCHANGED row

TickUntimed ==  \* mutant: the HTTP client has no timeout
    /\ \A w \in Workers : worker[w].step \notin {"done", "failed"}
    /\ \A c \in Clients : \/ client[c].pc = "away"
                          \/ client[c].pc = "polling" /\ client[c].seen
    /\ guard' = [p \in Procs |-> IF guard[p] \in 0..MaxAge THEN guard[p] + 1 ELSE guard[p]]
    /\ row' = [row EXCEPT !.left = IF @ = 0 THEN 0 ELSE @ - 1]
    /\ worker' = [w \in Workers |-> IF worker[w] = Free THEN Free
                                    ELSE [worker[w] EXCEPT !.age = @ + 1]]
    /\ client' = [c \in Clients |-> [client[c] EXCEPT !.seen = FALSE]]
    /\ UNCHANGED <<opened, mishaps>>
\* A tick, which waits for all but the model.
Tick ==
    /\ \A w \in Workers : worker[w].step \notin {"done", "failed"} /\ worker[w].age < Timeout
    /\ \A c \in Clients : \/ client[c].pc = "away"
                          \/ client[c].pc = "polling" /\ client[c].seen
    /\ guard' = [p \in Procs |-> IF guard[p] \in 0..MaxAge THEN guard[p] + 1 ELSE guard[p]]
    /\ row' = [row EXCEPT !.left = IF @ = 0 THEN 0 ELSE @ - 1]
    /\ worker' = [w \in Workers |-> IF worker[w] = Free THEN Free
                                    ELSE [worker[w] EXCEPT !.age = @ + 1]]
    /\ client' = [c \in Clients |-> [client[c] EXCEPT !.seen = FALSE]]
    /\ UNCHANGED <<opened, mishaps>>

WorkerStep(w) == SyncEnds(w) \/ ChatAnswers(w) \/ ChatFails(w) \/ Mark(w) \/ MarkFails(w)
ClientStep(c) == TryAcquire(c) \/ Claim(c) \/ ClaimFails(c) \/ Poll(c) \/ MarkStale(c)

Next == \/ \E w \in Workers, p \in Procs : Explain(w, p)
        \/ \E c \in Clients, p \in Procs : Ask(c, p)
        \/ \E w \in Workers : WorkerStep(w)
        \/ \E c \in Clients : ClientStep(c)
        \/ \E p \in Procs : Purge(p) \/ Restart(p)
        \/ Tick

Spec == Init /\ [][Next]_vars

\* Calls end by their timeout, handlers and polls go on, and so does the ticker of
\* the purge; requests, however many, do not stop time.  Nobody has to ask.
FairSpec == /\ Spec
            /\ \A w \in Workers : WF_vars(WorkerStep(w))
            /\ \A c \in Clients : WF_vars(ClientStep(c))
            /\ \A p \in Procs : WF_vars(Purge(p))
            /\ SF_vars(Tick)

-----------------------------------------------------------------------------
\* A process makes one call at a time for the context: a second one takes the
\* purge of an entry whose call goes on, which the default times allow (180 s for
\* the call, 60 s for the entry); no leaked entry, refused claim or late release
\* does it (guard.go:8-56, explain.go:92, explain_async.go:118-145).
OneCallPerContext ==
    \A v, w \in Workers :
        worker[v] # Free /\ worker[v].proc = worker[w].proc /\ v # w => worker[v].proc \in opened

\* A client that is asking or was told to poll is told a result or a failure in
\* the end, though the worker was lost and its write too: again and again it
\* waits for nothing (explain_async.go:91-151, 222-285).
PendingEnds == \A c \in Clients : []<>(client[c].pc = "away")

\* A client that asks again and again gets a result, or a call is made, again and
\* again: neither a guard entry nor a row left behind shuts the context for good
\* (guard.go:47-64, postgres_analysis_store.go:68-87).
NeverShut ==
    \A c \in Clients :
        []<><<\E p \in Procs : Ask(c, p)>>_vars
            => []<>(client[c].told = "result" \/ \E w \in Workers : worker[w] # Free)
==============================================================================
