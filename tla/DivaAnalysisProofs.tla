--------------------------- MODULE DivaAnalysisProofs ---------------------------
(***************************************************************************)
(* Proofs about DivaAnalysis, for any processes, clients, workers, times   *)
(* and number of mishaps: the guard of a process admits one call at a time *)
(* until a purge takes the entry of a call that goes on, and no purge does *)
(* where a call ends before its entry may be purged.                       *)
(***************************************************************************)
EXTENDS DivaAnalysis, TLAPS

CallRecord == [step : {"free", "sync", "async", "done", "failed"}, proc : Procs \cup {None}, age : 0..Timeout]
Client == [pc : {"away", "acquire", "claim", "polling", "stale"}, proc : Procs \cup {None},
           seen : BOOLEAN, told : {"none", "result"}]

\* A call has a process, and so has a client between the guard and the claim.
Placed ==
    /\ \A w \in Workers : worker[w].proc = None <=> worker[w] = Free
    /\ \A w \in Workers : worker[w].step = "free" <=> worker[w] = Free
    /\ \A c \in Clients : client[c].pc \in {"acquire", "claim"} <=> client[c].proc # None

\* The age of a guard's entry, which is counted up to the purge's limit.
Aged(age) == IF age <= MaxAge THEN age ELSE MaxAge + 1

\* A call is as old as the guard's entry of its process and the only one there.
OwnsGuard(p) ==
    /\ \A w \in Workers : worker[w].proc = p => guard[p] = Aged(worker[w].age)
    /\ \A v, w \in Workers : worker[v].proc = p /\ worker[w].proc = p => v = w

\* So is a client that goes on to its claim, in the tick in which it got the entry.
ClaimsGuard(p) ==
    /\ \A c \in Clients : client[c].pc = "claim" /\ client[c].proc = p =>
           guard[p] = 0 /\ \A w \in Workers : worker[w].proc # p
    /\ \A c, d \in Clients : /\ client[c].pc = "claim" /\ client[d].pc = "claim"
                             /\ client[c].proc = p /\ client[d].proc = p
                             => c = d

Exclusive == \A p \in Procs \ opened : OwnsGuard(p) /\ ClaimsGuard(p)

\* A purged entry is older than any call may be.
ShortCalls == Timeout <= MaxAge => opened = {}

IInv == TypeOK /\ Placed /\ Exclusive /\ ShortCalls

LEMMA Records ==
  /\ Free \in CallRecord /\ Free.proc = None /\ Free.step = "free"
  /\ Away \in Client /\ Away.proc = None /\ Away.pc = "away"
  BY DivaAssumption DEF Free, Away, CallRecord, Client

LEMMA Typed ==
  TypeOK <=> /\ guard \in [Procs -> (0..MaxAge + 1) \cup {None}]
             /\ row \in [status : {"none", "processing", "done", "failed"}, left : 0..Ttl]
             /\ worker \in [Workers -> CallRecord] /\ client \in [Clients -> Client]
             /\ opened \subseteq Procs /\ mishaps \in 0..Mishaps
  BY DEF TypeOK, CallRecord, Client

\* What the handlers make of a client.
LEMMA Told ==
  ASSUME TypeOK, NEW c \in Clients, NEW answer \in {"none", "result"}, Tell(c, answer)
  PROVE  /\ client' \in [Clients -> Client]
         /\ \A d \in Clients : d # c => client'[d] = client[d]
         /\ client'[c].pc = "away" /\ client'[c].proc = None
  <1> DEFINE m == [Away EXCEPT !.told = answer, !.seen = TRUE]
  <1>1. m \in Client /\ m.pc = "away" /\ m.proc = None
    BY DivaAssumption DEF Away, Client
  <1> QED BY <1>1, Typed DEF Tell

LEMMA Waits ==
  ASSUME TypeOK, NEW c \in Clients, Pending(c)
  PROVE  /\ client' \in [Clients -> Client]
         /\ \A d \in Clients : d # c => client'[d] = client[d]
         /\ client'[c].pc = "polling" /\ client'[c].proc = None
  <1> DEFINE m == [Away EXCEPT !.pc = "polling", !.seen = TRUE]
  <1>1. m \in Client /\ m.pc = "polling" /\ m.proc = None
    BY DivaAssumption DEF Away, Client
  <1> QED BY <1>1, Typed DEF Pending

\* A client moves outside the guard: nobody comes to the claim.
LEMMA ClientMoves ==
  ASSUME IInv, NEW c \in Clients, client' \in [Clients -> Client],
         \A d \in Clients : d # c => client'[d] = client[d],
         client'[c].pc # "claim", client'[c].pc = "acquire" <=> client'[c].proc # None,
         UNCHANGED <<guard, worker, opened>>,
         row' \in [status : {"none", "processing", "done", "failed"}, left : 0..Ttl],
         mishaps' \in 0..Mishaps
  PROVE  IInv'
  <1>0. TypeOK'
    BY Typed DEF IInv, TypeOK, CallRecord, Client
  <1>1. Placed'
    BY DEF IInv, Placed
  <1>2. ASSUME NEW q \in Procs \ opened PROVE (OwnsGuard(q) /\ ClaimsGuard(q))'
    <2>1. OwnsGuard(q) /\ ClaimsGuard(q)
      BY DEF IInv, Exclusive
    <2>2. \A d \in Clients : client'[d].pc = "claim" => client'[d] = client[d]
      OBVIOUS
    <2> QED BY <2>1, <2>2 DEF OwnsGuard, ClaimsGuard
  <1> QED BY <1>0, <1>1, <1>2 DEF IInv, Exclusive, ShortCalls

-----------------------------------------------------------------------------
LEMMA ExplainKeeps ==
  ASSUME IInv, NEW w \in Workers, NEW p \in Procs, Explain(w, p) PROVE IInv'
  <1> DEFINE h == [step |-> "sync", proc |-> p, age |-> 0]
  <1>1. /\ guard[p] = None /\ guard' = [guard EXCEPT ![p] = 0] /\ worker[w] = Free
        /\ worker' = [worker EXCEPT ![w] = h] /\ UNCHANGED <<row, client, opened, mishaps>>
    BY DEF Explain, Acquire, Call
  <1>2. h \in CallRecord /\ h.proc = p /\ h.age = 0 /\ h.step = "sync" /\ p # None /\ h # Free
    BY DivaAssumption DEF CallRecord, Free
  <1>3. /\ guard' \in [Procs -> (0..MaxAge + 1) \cup {None}] /\ worker' \in [Workers -> CallRecord]
        /\ \A q \in Procs : guard'[q] = IF q = p THEN 0 ELSE guard[q]
        /\ \A v \in Workers : worker'[v] = IF v = w THEN h ELSE worker[v]
        /\ \A v \in Workers : worker[v] \in CallRecord
        /\ \A d \in Clients : client[d] \in Client
    BY <1>1, <1>2, Typed, DivaAssumption DEF IInv
  <1>4. TypeOK'
    BY <1>1, <1>3, Typed DEF IInv, TypeOK, CallRecord, Client
  <1>5. Placed'
    BY <1>1, <1>2, <1>3 DEF IInv, Placed
  <1>6. ASSUME NEW q \in Procs \ opened PROVE (OwnsGuard(q) /\ ClaimsGuard(q))'
    <2>1. OwnsGuard(q) /\ ClaimsGuard(q)
      BY DEF IInv, Exclusive
    <2>2. q = p => /\ \A v \in Workers : worker[v].proc # p
                   /\ \A d \in Clients : client[d].pc = "claim" => client[d].proc # p
      BY <1>1, <1>3, <2>1, DivaAssumption DEF OwnsGuard, ClaimsGuard, CallRecord, Aged
    <2>3. OwnsGuard(q)'
      BY <1>2, <1>3, <2>1, <2>2, DivaAssumption DEF OwnsGuard, CallRecord, Aged
    <2>4. ClaimsGuard(q)'
      BY <1>1, <1>2, <1>3, <2>1, <2>2 DEF ClaimsGuard
    <2> QED BY <2>3, <2>4
  <1> QED BY <1>1, <1>4, <1>5, <1>6 DEF IInv, Exclusive, ShortCalls

LEMMA AskKeeps ==
  ASSUME IInv, NEW c \in Clients, NEW p \in Procs, Ask(c, p) PROVE IInv'
  <1>1. /\ UNCHANGED <<guard, worker, row, opened>> /\ TypeOK
        /\ row \in [status : {"none", "processing", "done", "failed"}, left : 0..Ttl]
        /\ mishaps' \in 0..Mishaps
    BY DivaAssumption DEF Ask, IInv, TypeOK, Mishap
  <1>2. CASE Tell(c, "result")
    BY <1>1, <1>2, Told, ClientMoves
  <1>3. CASE Pending(c)
    BY <1>1, <1>3, Waits, ClientMoves
  <1>4. CASE client' = [client EXCEPT ![c] = [Away EXCEPT !.pc = "acquire", !.proc = p]]
    <2> DEFINE m == [Away EXCEPT !.pc = "acquire", !.proc = p]
    <2>1. m \in Client /\ m.pc = "acquire" /\ m.proc = p /\ p # None
      BY DivaAssumption DEF Away, Client
    <2>2. /\ client' \in [Clients -> Client] /\ client'[c] = m
          /\ \A d \in Clients : d # c => client'[d] = client[d]
      BY <1>1, <1>4, <2>1, Typed
    <2> QED BY <1>1, <2>1, <2>2, ClientMoves
  <1> QED BY <1>2, <1>3, <1>4 DEF Ask

LEMMA TryAcquireKeeps == ASSUME IInv, NEW c \in Clients, TryAcquire(c) PROVE IInv'
  <1>1. /\ UNCHANGED <<row, worker, opened, mishaps>> /\ TypeOK /\ Placed /\ client[c].pc = "acquire"
        /\ row \in [status : {"none", "processing", "done", "failed"}, left : 0..Ttl]
        /\ mishaps \in 0..Mishaps
    BY DEF TryAcquire, IInv, TypeOK
  <1>2. CASE Tell(c, "none") /\ UNCHANGED guard
    BY <1>1, <1>2, Told, ClientMoves
  <1>3. CASE Acquire(client[c].proc) /\ GoTo(c, "claim")
    <2>1. PICK p \in Procs : p = client[c].proc /\ p # None
      BY <1>1, DivaAssumption DEF Placed, TypeOK
    <2> DEFINE m == [client[c] EXCEPT !.pc = "claim"]
    <2>2. client[c] \in Client
      BY <1>1, Typed
    <2>3. m \in Client /\ m.pc = "claim" /\ m.proc = p
      BY <2>1, <2>2 DEF Client
    <2>4. /\ guard[p] = None /\ guard' = [guard EXCEPT ![p] = 0]
          /\ client' = [client EXCEPT ![c] = m]
      BY <1>3, <2>1 DEF Acquire, GoTo
    <2>5. /\ guard' \in [Procs -> (0..MaxAge + 1) \cup {None}] /\ client' \in [Clients -> Client]
          /\ \A q \in Procs : guard'[q] = IF q = p THEN 0 ELSE guard[q]
          /\ \A d \in Clients : client'[d] = IF d = c THEN m ELSE client[d]
          /\ \A v \in Workers : worker[v] \in CallRecord
      BY <1>1, <2>3, <2>4, Typed, DivaAssumption
    <2>6. TypeOK'
      BY <1>1, <2>5, Typed DEF TypeOK, CallRecord, Client
    <2>7. Placed'
      BY <1>1, <2>1, <2>3, <2>5 DEF Placed
    <2>8. ASSUME NEW q \in Procs \ opened PROVE (OwnsGuard(q) /\ ClaimsGuard(q))'
      <3>1. OwnsGuard(q) /\ ClaimsGuard(q)
        BY DEF IInv, Exclusive
      <3>2. q = p => /\ \A v \in Workers : worker[v].proc # p
                     /\ \A d \in Clients : client[d].pc = "claim" => client[d].proc # p
        BY <2>4, <2>5, <3>1, DivaAssumption DEF OwnsGuard, ClaimsGuard, CallRecord, Aged
      <3>3. OwnsGuard(q)'
        BY <1>1, <2>5, <3>1, <3>2 DEF OwnsGuard
      <3>4. ClaimsGuard(q)'
        <4>1. CASE q = p
          <5>1. \A d \in Clients : client'[d].pc = "claim" /\ client'[d].proc = p => d = c
            BY <2>5, <3>2, <4>1
          <5> QED BY <1>1, <2>5, <3>2, <4>1, <5>1 DEF ClaimsGuard
        <4>2. CASE q # p
          <5>1. \A d \in Clients : client'[d].proc = q => d # c /\ client'[d] = client[d]
            BY <2>3, <2>5, <4>2
          <5> QED BY <1>1, <2>5, <3>1, <4>2, <5>1 DEF ClaimsGuard
        <4> QED BY <4>1, <4>2
      <3> QED BY <3>3, <3>4
    <2> QED BY <1>1, <2>6, <2>7, <2>8 DEF IInv, Exclusive, ShortCalls
  <1> QED BY <1>2, <1>3 DEF TryAcquire

LEMMA ClaimKeeps == ASSUME IInv, NEW c \in Clients, Claim(c) PROVE IInv'
  <1>1. /\ UNCHANGED <<guard, opened, mishaps>> /\ TypeOK /\ Placed /\ client[c].pc = "claim" /\ Pending(c)
        /\ row \in [status : {"none", "processing", "done", "failed"}, left : 0..Ttl]
        /\ mishaps \in 0..Mishaps
    BY DEF Claim, IInv, TypeOK
  <1>2. /\ client' \in [Clients -> Client] /\ \A d \in Clients : d # c => client'[d] = client[d]
        /\ client'[c].pc = "polling" /\ client'[c].proc = None
    BY <1>1, Waits
  <1>3. CASE UNCHANGED <<row, worker>>
    BY <1>1, <1>2, <1>3, ClientMoves
  <1>4. CASE /\ row' = [status |-> "processing", left |-> Ttl]
             /\ \E w \in Workers : Call(w, "async", client[c].proc)
    <2>1. PICK p \in Procs : p = client[c].proc /\ p # None
      BY <1>1, DivaAssumption DEF Placed, TypeOK
    <2> DEFINE h == [step |-> "async", proc |-> p, age |-> 0]
    <2>2. PICK w \in Workers : worker[w] = Free /\ worker' = [worker EXCEPT ![w] = h]
      BY <1>4, <2>1 DEF Call
    <2>3. h \in CallRecord /\ h.proc = p /\ h.age = 0 /\ h.step = "async" /\ h # Free
      BY <2>1, DivaAssumption DEF CallRecord, Free
    <2>4. /\ worker' \in [Workers -> CallRecord]
          /\ \A v \in Workers : worker'[v] = IF v = w THEN h ELSE worker[v]
          /\ \A v \in Workers : worker[v] \in CallRecord
      BY <1>1, <2>2, <2>3, Typed
    <2>5. TypeOK'
      BY <1>1, <1>2, <1>4, <2>4, Typed, DivaAssumption DEF TypeOK, CallRecord, Client
    <2>6. Placed'
      BY <1>1, <1>2, <2>1, <2>2, <2>3, <2>4 DEF Placed
    <2>7. ASSUME NEW q \in Procs \ opened PROVE (OwnsGuard(q) /\ ClaimsGuard(q))'
      <3>1. OwnsGuard(q) /\ ClaimsGuard(q)
        BY DEF IInv, Exclusive
      <3>2. q = p => guard[p] = 0 /\ \A v \in Workers : worker[v].proc # p
        BY <1>1, <2>1, <3>1 DEF ClaimsGuard
      <3>3. q = p => \A d \in Clients : d # c /\ client[d].pc = "claim" => client[d].proc # p
        BY <1>1, <2>1, <3>1 DEF ClaimsGuard
      <3>4. OwnsGuard(q)'
        BY <1>1, <2>3, <2>4, <3>1, <3>2, DivaAssumption DEF OwnsGuard, Aged
      <3>5. ClaimsGuard(q)'
        BY <1>1, <1>2, <2>3, <2>4, <3>1, <3>3 DEF ClaimsGuard
      <3> QED BY <3>4, <3>5
    <2> QED BY <1>1, <2>5, <2>6, <2>7 DEF IInv, Exclusive, ShortCalls
  <1> QED BY <1>3, <1>4 DEF Claim

LEMMA ClaimFailsKeeps == ASSUME IInv, NEW c \in Clients, ClaimFails(c) PROVE IInv'
  <1>1. /\ UNCHANGED <<guard, row, worker, opened>> /\ TypeOK /\ Tell(c, "none") /\ mishaps' \in 0..Mishaps
        /\ row \in [status : {"none", "processing", "done", "failed"}, left : 0..Ttl]
    BY DivaAssumption DEF ClaimFails, IInv, TypeOK, Mishap
  <1> QED BY <1>1, Told, ClientMoves

LEMMA PollKeeps == ASSUME IInv, NEW c \in Clients, Poll(c) PROVE IInv'
  <1>1. /\ UNCHANGED <<guard, row, worker, opened, mishaps>> /\ TypeOK /\ Placed /\ client[c].pc = "polling"
        /\ row \in [status : {"none", "processing", "done", "failed"}, left : 0..Ttl]
        /\ mishaps \in 0..Mishaps
    BY DEF Poll, IInv, TypeOK
  <1>2. client[c] \in Client /\ client[c].proc = None
    BY <1>1, Typed DEF Placed
  <1>3. CASE client' = [client EXCEPT ![c].seen = TRUE]
    <2> DEFINE m == [client[c] EXCEPT !.seen = TRUE]
    <2>1. m \in Client /\ m.pc = "polling" /\ m.proc = None
      BY <1>1, <1>2 DEF Client
    <2>2. client' \in [Clients -> Client] /\ client'[c] = m /\ \A d \in Clients : d # c => client'[d] = client[d]
      BY <1>1, <1>3, <2>1, Typed
    <2> QED BY <1>1, <2>1, <2>2, ClientMoves
  <1>4. CASE GoTo(c, "stale")
    <2> DEFINE m == [client[c] EXCEPT !.pc = "stale"]
    <2>1. m \in Client /\ m.pc = "stale" /\ m.proc = None
      BY <1>2 DEF Client
    <2>2. client' \in [Clients -> Client] /\ client'[c] = m /\ \A d \in Clients : d # c => client'[d] = client[d]
      BY <1>1, <1>4, <2>1, Typed DEF GoTo
    <2> QED BY <1>1, <2>1, <2>2, ClientMoves
  <1>5. CASE Tell(c, "result") \/ Tell(c, "none")
    BY <1>1, <1>5, Told, ClientMoves
  <1> QED BY <1>3, <1>4, <1>5 DEF Poll

LEMMA MarkStaleKeeps == ASSUME IInv, NEW c \in Clients, MarkStale(c) PROVE IInv'
  <1>1. /\ UNCHANGED <<guard, worker, opened>> /\ TypeOK /\ Tell(c, "none") /\ mishaps' \in 0..Mishaps
        /\ row' \in [status : {"none", "processing", "done", "failed"}, left : 0..Ttl]
    BY DivaAssumption DEF MarkStale, IInv, TypeOK, Mishap, Failed
  <1> QED BY <1>1, Told, ClientMoves

-----------------------------------------------------------------------------
\* A call ends, and the guard of its process is free.
LEMMA EndCallKeeps ==
  ASSUME IInv, NEW w \in Workers, worker[w].step # "free", EndCall(w), UNCHANGED <<client, opened>>,
         row' \in [status : {"none", "processing", "done", "failed"}, left : 0..Ttl],
         mishaps' \in 0..Mishaps
  PROVE  IInv'
  <1>1. TypeOK /\ Placed /\ worker[w].proc \in Procs
    BY DEF IInv, TypeOK, Placed
  <1>2. PICK p \in Procs : p = worker[w].proc /\ p # None
    BY <1>1, DivaAssumption
  <1>3. worker' = [worker EXCEPT ![w] = Free] /\ guard' = [guard EXCEPT ![p] = None]
    BY <1>2 DEF EndCall, Release
  <1>4. /\ guard' \in [Procs -> (0..MaxAge + 1) \cup {None}] /\ worker' \in [Workers -> CallRecord]
        /\ \A q \in Procs : guard'[q] = IF q = p THEN None ELSE guard[q]
        /\ \A v \in Workers : worker'[v] = IF v = w THEN Free ELSE worker[v]
        /\ \A v \in Workers : worker[v] \in CallRecord
    BY <1>1, <1>3, Typed, Records
  <1>5. TypeOK'
    BY <1>1, <1>4, Typed DEF TypeOK, CallRecord, Client
  <1>6. Placed'
    BY <1>1, <1>4, Records DEF Placed
  <1>7. ASSUME NEW q \in Procs \ opened PROVE (OwnsGuard(q) /\ ClaimsGuard(q))'
    <2>1. OwnsGuard(q) /\ ClaimsGuard(q)
      BY DEF IInv, Exclusive
    <2>2. q = p => /\ \A v \in Workers : v # w => worker[v].proc # p
                   /\ \A d \in Clients : client[d].pc = "claim" => client[d].proc # p
      BY <1>2, <2>1 DEF OwnsGuard, ClaimsGuard
    <2>3. q # None
      BY DivaAssumption
    <2>4. OwnsGuard(q)'
      BY <1>4, <2>1, <2>2, <2>3, Records DEF OwnsGuard
    <2>5. ClaimsGuard(q)'
      BY <1>4, <2>1, <2>2, <2>3, Records DEF ClaimsGuard
    <2> QED BY <2>4, <2>5
  <1> QED BY <1>5, <1>6, <1>7 DEF IInv, Exclusive, ShortCalls

\* The model has answered, or not: the call goes on to its write.
LEMMA CallMoves ==
  ASSUME IInv, NEW w \in Workers, worker[w].step = "async", NEW step \in {"done", "failed"},
         worker' = [worker EXCEPT ![w].step = step], UNCHANGED <<guard, row, client, opened>>,
         mishaps' \in 0..Mishaps
  PROVE  IInv'
  <1> DEFINE h == [worker[w] EXCEPT !.step = step]
  <1>1. TypeOK /\ Placed /\ worker[w] \in CallRecord
    BY Typed DEF IInv
  <1>2. h \in CallRecord /\ h.proc = worker[w].proc /\ h.age = worker[w].age /\ h.step = step
    BY <1>1 DEF CallRecord
  <1>3. worker[w] # Free /\ worker[w].proc # None /\ h # Free
    BY <1>1, <1>2, Records DEF Placed
  <1>4. /\ worker' \in [Workers -> CallRecord]
        /\ \A v \in Workers : worker'[v] = IF v = w THEN h ELSE worker[v]
    BY <1>1, <1>2, Typed
  <1>5. TypeOK'
    BY <1>1, <1>4, Typed DEF TypeOK, CallRecord, Client
  <1>6. Placed'
    BY <1>1, <1>2, <1>3, <1>4 DEF Placed
  <1>7. \A v \in Workers : worker'[v].proc = worker[v].proc /\ worker'[v].age = worker[v].age
    BY <1>2, <1>4
  <1>8. Exclusive' /\ ShortCalls'
    BY <1>7 DEF IInv, Exclusive, ShortCalls, OwnsGuard, ClaimsGuard
  <1> QED BY <1>5, <1>6, <1>8 DEF IInv

LEMMA WorkerStepKeeps == ASSUME IInv, NEW w \in Workers, WorkerStep(w) PROVE IInv'
  <1>1. /\ row \in [status : {"none", "processing", "done", "failed"}, left : 0..Ttl]
        /\ mishaps \in 0..Mishaps /\ (Mishap => mishaps' \in 0..Mishaps)
    BY DivaAssumption DEF IInv, TypeOK, Mishap
  <1>2. CASE SyncEnds(w)
    BY <1>1, <1>2, EndCallKeeps DEF SyncEnds
  <1>3. CASE ChatAnswers(w)
    BY <1>1, <1>3, CallMoves DEF ChatAnswers
  <1>4. CASE ChatFails(w)
    BY <1>1, <1>4, CallMoves DEF ChatFails
  <1>5. CASE Mark(w)
    <2>1. worker[w].step \in {"done", "failed"} /\ row.left \in 0..Ttl /\ Ttl \in 0..Ttl
      BY <1>1, <1>5, DivaAssumption DEF Mark
    <2>2. row' \in [status : {"none", "processing", "done", "failed"}, left : 0..Ttl]
      BY <1>1, <1>5, <2>1 DEF Mark, Failed
    <2> QED BY <1>1, <1>5, <2>1, <2>2, EndCallKeeps DEF Mark
  <1>6. CASE MarkFails(w)
    BY <1>1, <1>6, EndCallKeeps DEF MarkFails
  <1> QED BY <1>2, <1>3, <1>4, <1>5, <1>6 DEF WorkerStep

-----------------------------------------------------------------------------
\* The purge of an entry whose call goes on opens its process.
LEMMA PurgeKeeps == ASSUME IInv, NEW p \in Procs, Purge(p) PROVE IInv'
  <1>1. /\ guard[p] = MaxAge + 1 /\ guard' = [guard EXCEPT ![p] = None]
        /\ UNCHANGED <<row, worker, client, mishaps>> /\ TypeOK /\ Placed
        /\ opened' = IF \E w \in Workers : worker[w].proc = p THEN opened \cup {p} ELSE opened
    BY DEF Purge, Release, IInv
  <1>2. /\ guard' \in [Procs -> (0..MaxAge + 1) \cup {None}]
        /\ \A q \in Procs : guard'[q] = IF q = p THEN None ELSE guard[q]
        /\ \A v \in Workers : worker[v] \in CallRecord
    BY <1>1, Typed
  <1>3. TypeOK' /\ Placed'
    BY <1>1, <1>2 DEF TypeOK, Placed
  <1>4. ASSUME NEW q \in Procs \ opened' PROVE (OwnsGuard(q) /\ ClaimsGuard(q))'
    <2>1. OwnsGuard(q) /\ ClaimsGuard(q)
      BY <1>1 DEF IInv, Exclusive
    <2>2. q = p => /\ \A w \in Workers : worker[w].proc # p
                   /\ \A d \in Clients : client[d].pc = "claim" => client[d].proc # p
      BY <1>1, <2>1, DivaAssumption DEF ClaimsGuard
    <2> QED BY <1>1, <1>2, <2>1, <2>2 DEF OwnsGuard, ClaimsGuard
  <1>5. ShortCalls'
    <2> SUFFICES ASSUME Timeout <= MaxAge, NEW w \in Workers, worker[w].proc = p PROVE FALSE
      BY <1>1 DEF IInv, ShortCalls
    <2>1. guard[p] = Aged(worker[w].age) /\ worker[w].age \in 0..Timeout
      BY <1>2 DEF IInv, ShortCalls, Exclusive, OwnsGuard, CallRecord
    <2> QED BY <1>1, <2>1, DivaAssumption DEF Aged
  <1> QED BY <1>3, <1>4, <1>5 DEF IInv, Exclusive

LEMMA RestartKeeps == ASSUME IInv, NEW p \in Procs, Restart(p) PROVE IInv'
  <1>1. /\ guard' = [guard EXCEPT ![p] = None] /\ mishaps' \in 0..Mishaps
        /\ \A w \in Workers : worker'[w] = IF worker[w].proc = p THEN Free ELSE worker[w]
        /\ \A c \in Clients : client'[c] = IF client[c].proc = p THEN Away ELSE client[c]
        /\ UNCHANGED row /\ opened' = opened \ {p} /\ TypeOK /\ Placed /\ p # None
    BY DivaAssumption DEF Restart, Release, IInv, Mishap, TypeOK
  <1>2. /\ guard' \in [Procs -> (0..MaxAge + 1) \cup {None}]
        /\ \A q \in Procs : guard'[q] = IF q = p THEN None ELSE guard[q]
        /\ worker' \in [Workers -> CallRecord] /\ client' \in [Clients -> Client]
        /\ \A v \in Workers : worker[v] \in CallRecord
        /\ \A d \in Clients : client[d] \in Client
    BY <1>1, Typed, Records DEF Restart
  <1>3. TypeOK'
    BY <1>1, <1>2, Typed DEF TypeOK, CallRecord, Client
  <1>4. Placed'
    BY <1>1, Records DEF Placed
  <1>5. ASSUME NEW q \in Procs \ opened' PROVE (OwnsGuard(q) /\ ClaimsGuard(q))'
    <2>1. q # None
      BY DivaAssumption
    <2>2. CASE q = p
      BY <1>1, <1>2, <2>1, <2>2, Records DEF OwnsGuard, ClaimsGuard, Placed
    <2>3. CASE q # p
      <3>1. OwnsGuard(q) /\ ClaimsGuard(q)
        BY <1>1, <2>3 DEF IInv, Exclusive
      <3>2. \A w \in Workers : worker'[w].proc = q => worker'[w] = worker[w] /\ worker[w].proc = q
        BY <1>1, <2>1, Records
      <3>3. \A w \in Workers : worker[w].proc # q => worker'[w].proc # q
        BY <1>1, <2>1, Records
      <3>4. \A c \in Clients : client'[c].pc = "claim" => client'[c] = client[c]
        BY <1>1, Records
      <3>5. OwnsGuard(q)'
        BY <1>2, <2>3, <3>1, <3>2 DEF OwnsGuard
      <3>6. ClaimsGuard(q)'
        BY <1>2, <2>3, <3>1, <3>3, <3>4 DEF ClaimsGuard
      <3> QED BY <3>5, <3>6
    <2> QED BY <2>2, <2>3
  <1> QED BY <1>1, <1>3, <1>4, <1>5 DEF IInv, Exclusive, ShortCalls

\* An entry and its call grow old together; nobody is between guard and claim.
LEMMA TickKeeps == ASSUME IInv, Tick PROVE IInv'
  <1>1. /\ TypeOK /\ Placed /\ \A v \in Workers : worker[v] \in CallRecord /\ worker[v].age < Timeout
        /\ \A d \in Clients : client[d] \in Client /\ client[d].pc \in {"away", "polling"}
        /\ UNCHANGED <<opened, mishaps>>
    BY Typed DEF IInv, Tick
  <1>2. /\ guard' \in [Procs -> (0..MaxAge + 1) \cup {None}]
        /\ \A q \in Procs : guard'[q] = IF guard[q] \in 0..MaxAge THEN guard[q] + 1 ELSE guard[q]
    BY <1>1, DivaAssumption DEF Tick, TypeOK
  <1>3. row' \in [status : {"none", "processing", "done", "failed"}, left : 0..Ttl]
    <2>1. row.left \in 0..Ttl /\ row.status \in {"none", "processing", "done", "failed"}
      BY <1>1 DEF TypeOK
    <2>2. (IF row.left = 0 THEN 0 ELSE row.left - 1) \in 0..Ttl
      BY <2>1, DivaAssumption
    <2>3. row' = [row EXCEPT !.left = IF row.left = 0 THEN 0 ELSE row.left - 1]
      BY DEF Tick
    <2> QED BY <1>1, <2>2, <2>3 DEF TypeOK
  <1>4. \A w \in Workers :
            IF worker[w] = Free THEN worker'[w] = Free
            ELSE /\ worker'[w] \in CallRecord /\ worker'[w].proc = worker[w].proc
                 /\ worker'[w].step = worker[w].step /\ worker'[w].age = worker[w].age + 1
    <2> TAKE w \in Workers
    <2>1. worker'[w] = IF worker[w] = Free THEN Free ELSE [worker[w] EXCEPT !.age = @ + 1]
      BY DEF Tick
    <2>2. worker[w].age + 1 \in 0..Timeout
      BY <1>1, DivaAssumption DEF CallRecord
    <2> QED BY <1>1, <2>1, <2>2 DEF CallRecord
  <1>5. \A c \in Clients : /\ client'[c] \in Client
                           /\ client'[c].pc = client[c].pc /\ client'[c].proc = client[c].proc
    BY <1>1 DEF Tick, Client
  <1>6. worker' \in [Workers -> CallRecord] /\ client' \in [Clients -> Client]
    BY <1>4, <1>5, Records DEF Tick
  <1>7. TypeOK'
    BY <1>1, <1>2, <1>3, <1>6, Typed DEF TypeOK, CallRecord, Client
  <1>8. Placed'
    BY <1>1, <1>4, <1>5, Records DEF Placed
  <1>9. ASSUME NEW q \in Procs \ opened PROVE (OwnsGuard(q) /\ ClaimsGuard(q))'
    <2>1. OwnsGuard(q) /\ ClaimsGuard(q) /\ q # None
      BY DivaAssumption DEF IInv, Exclusive
    <2>2. \A w \in Workers : worker'[w].proc = worker[w].proc
      BY <1>4
    <2>3. ASSUME NEW w \in Workers, worker[w].proc = q
          PROVE  guard'[q] = Aged(worker'[w].age)
      <3>1. worker'[w].age = worker[w].age + 1 /\ worker[w].age \in Nat /\ guard[q] = Aged(worker[w].age)
        BY <1>1, <1>4, <2>1, <2>3, Records DEF CallRecord, OwnsGuard
      <3>2. guard'[q] = IF guard[q] \in 0..MaxAge THEN guard[q] + 1 ELSE guard[q]
        BY <1>2
      <3> QED BY <3>1, <3>2, DivaAssumption DEF Aged
    <2>4. OwnsGuard(q)'
      BY <2>1, <2>2, <2>3 DEF OwnsGuard
    <2>5. ClaimsGuard(q)'
      BY <1>1, <1>5 DEF ClaimsGuard
    <2> QED BY <2>4, <2>5
  <1> QED BY <1>1, <1>7, <1>8, <1>9 DEF IInv, Exclusive, ShortCalls

-----------------------------------------------------------------------------
LEMMA InitKeeps == Init => IInv
  <1> SUFFICES ASSUME Init PROVE IInv
    OBVIOUS
  <1>1. TypeOK
    BY Typed, Records, DivaAssumption DEF Init
  <1> QED
    BY <1>1, Records, DivaAssumption DEF Init, IInv, Placed, Exclusive, ShortCalls, OwnsGuard, ClaimsGuard

LEMMA StepKeeps == IInv /\ [Next]_vars => IInv'
  <1> SUFFICES ASSUME IInv, [Next]_vars PROVE IInv'
    OBVIOUS
  <1>1. CASE UNCHANGED vars
    BY <1>1 DEF vars, IInv, TypeOK, Placed, Exclusive, ShortCalls, OwnsGuard, ClaimsGuard
  <1>2. ASSUME NEW c \in Clients, ClientStep(c) PROVE IInv'
    BY <1>2, TryAcquireKeeps, ClaimKeeps, ClaimFailsKeeps, PollKeeps, MarkStaleKeeps DEF ClientStep
  <1> QED
    BY <1>1, <1>2, ExplainKeeps, AskKeeps, WorkerStepKeeps, PurgeKeeps, RestartKeeps, TickKeeps DEF Next

LEMMA Inductive == Spec => []IInv
  BY InitKeeps, StepKeeps, PTL DEF Spec

\* The guards, the row, the calls and the clients keep their types (guard.go,
\* postgres_analysis_store.go, explain_async.go).
THEOREM TypeCorrect == Spec => []TypeOK
  <1>1. IInv => TypeOK
    BY DEF IInv
  <1> QED BY <1>1, Inductive, PTL

\* The guard of a process admits one call at a time for a context, for any times,
\* clients, stops and refused claims, until a purge takes the entry of a call that
\* goes on; from then until a restart it may admit more, and a call that ends frees
\* the entry of another (guard.go:30-56, explain.go:92, explain_async.go:118-145).
THEOREM GuardIsExclusive == Spec => []OneCallPerContext
  <1>1. IInv => OneCallPerContext
    <2> SUFFICES ASSUME IInv, NEW v \in Workers, NEW w \in Workers, worker[v] # Free,
                        worker[v].proc = worker[w].proc, v # w, worker[v].proc \notin opened
                 PROVE  FALSE
      BY DEF OneCallPerContext
    <2>1. worker[v].proc # None /\ worker[v].proc \in Procs
      BY Typed DEF IInv, Placed, CallRecord
    <2> QED BY <2>1 DEF IInv, Exclusive, OwnsGuard
  <1> QED BY <1>1, Inductive, PTL

\* No purge takes the entry of a call that goes on where the model's timeout is not
\* above the age at which entries are purged, as the comment on the guard has it
\* (maxAge = 2 * MISTRAL_TIMEOUT, guard.go:18); the defaults are 180 and 60 s
\* (client.go:92, server.go:39).
THEOREM ShortCallsKeepTheGuard == ASSUME Timeout <= MaxAge PROVE Spec => [](opened = {})
  <1>1. IInv => opened = {}
    BY DEF IInv, ShortCalls
  <1> QED BY <1>1, Inductive, PTL
==============================================================================
