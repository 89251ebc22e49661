--------------------------- MODULE VaultIngestProofs ---------------------------
(***************************************************************************)
(* Proofs about VaultIngest, for any keys, contents, clients and number of *)
(* documents.  A document never moves, so an answer and a lookup that were *)
(* true of the documents stay true while other requests insert theirs.     *)
(***************************************************************************)
EXTENDS VaultIngest, SequenceTheorems, TLAPS

\* A request under way has an input; one whose content was held still finds it.
UnderWay(c) ==
    /\ phase[c] # "idle" => request[c] \in Inputs
    /\ phase[c] = "hash" /\ repeats[c] => SameHash(request[c]) # {}

IInv == /\ TypeOK /\ AnswerIsHeld /\ OneDocPerKey /\ RepeatIsFound
        /\ \A c \in Clients : UnderWay(c)

LEMMA SameHashIsIndex ==
  ASSUME NEW input
  PROVE  /\ \A id \in SameHash(input) : /\ id \in 1..Len(docs) /\ docs[id].kind = input.kind
                                        /\ docs[id].content = input.content
         /\ \A id \in SameKey(input) : /\ id \in 1..Len(docs) /\ docs[id].key = input.key
                                       /\ input.key # NoKey
  BY DEF SameHash, SameKey

\* Only payments have keys.
LEMMA KeyedIsPayment ==
  ASSUME NEW input \in Inputs, input.key # NoKey PROVE input.kind = "payment"
  BY DEF Inputs

-----------------------------------------------------------------------------
\* Requests come, are answered, go on or fail: the documents stay.

\* A handler ends, and its request with it.
LEMMA EndKeeps ==
  ASSUME IInv, NEW c \in Clients, EndRequest(c), UNCHANGED docs,
         \A a \in answers' : \/ a \in answers
                             \/ /\ a.input \in Inputs /\ a.id \in 1..Len(docs)
                                /\ docs[a.id].kind = a.input.kind
                                /\ \/ docs[a.id].content = a.input.content
                                   \/ a.input.key # NoKey /\ docs[a.id].key = a.input.key
  PROVE  IInv'
  <1>1. TypeOK'
    BY DEF IInv, TypeOK, EndRequest, Phases
  <1>2. AnswerIsHeld' /\ OneDocPerKey'
    BY DEF IInv, AnswerIsHeld, OneDocPerKey
  <1>3. \A d \in Clients : IF d = c THEN phase'[d] = "idle"
                           ELSE phase'[d] = phase[d] /\ request'[d] = request[d] /\ repeats'[d] = repeats[d]
    BY DEF IInv, TypeOK, EndRequest
  <1>4. RepeatIsFound' /\ \A d \in Clients : UnderWay(d)'
    BY <1>3 DEF IInv, RepeatIsFound, UnderWay, SameHash
  <1> QED BY <1>1, <1>2, <1>4 DEF IInv

LEMMA GoOnKeeps ==
  ASSUME IInv, NEW c \in Clients, NEW input \in Inputs, NEW next \in {"hash", "insert"},
         GoOn(c, input, next), next = "insert" => ~repeats[c]
  PROVE  IInv'
  <1>1. UNCHANGED <<docs, answers>>
    BY DEF GoOn
  <1>2. TypeOK'
    BY <1>1 DEF IInv, TypeOK, GoOn, Phases
  <1>3. AnswerIsHeld' /\ OneDocPerKey'
    BY <1>1 DEF IInv, AnswerIsHeld, OneDocPerKey
  <1>4. \A d \in Clients \ {c} : phase'[d] = phase[d] /\ request'[d] = request[d] /\ repeats'[d] = repeats[d]
    BY DEF IInv, TypeOK, GoOn
  <1>5. /\ phase'[c] = next /\ request'[c] = input
        /\ repeats'[c] = IF next = "hash" THEN SameHash(input) # {} ELSE repeats[c]
    BY DEF IInv, TypeOK, GoOn
  <1>6. RepeatIsFound'
    BY <1>4, <1>5 DEF IInv, RepeatIsFound
  <1>7. ASSUME NEW d \in Clients PROVE UnderWay(d)'
    <2>1. CASE d = c
      BY <1>1, <1>5, <2>1 DEF UnderWay, SameHash
    <2>2. CASE d # c
      BY <1>1, <1>4, <2>2 DEF IInv, UnderWay, SameHash
    <2> QED BY <2>1, <2>2
  <1> QED BY <1>2, <1>3, <1>6, <1>7 DEF IInv

LEMMA LookupKeyKeeps ==
  ASSUME IInv, NEW c \in Clients, NEW input \in Inputs, LookupKey(c, input) PROVE IInv'
  <1>1. ASSUME NEW id \in SameKey(input), Answer(c, input, id) PROVE IInv'
    <2>1. id \in 1..Len(docs) /\ docs[id].key = input.key /\ input.key # NoKey
      BY SameHashIsIndex
    <2>2. docs[id] \in Inputs
      BY <2>1 DEF IInv, TypeOK
    <2>3. docs[id].kind = input.kind
      BY <2>1, <2>2, KeyedIsPayment
    <2> QED BY <1>1, <2>1, <2>3, EndKeeps DEF Answer
  <1>2. CASE GoOn(c, input, "hash")
    BY <1>2, GoOnKeeps
  <1> QED BY <1>1, <1>2 DEF LookupKey

LEMMA ReceiveKeeps ==
  ASSUME IInv, NEW c \in Clients, NEW input \in Inputs, Receive(c, input) PROVE IInv'
  BY GoOnKeeps DEF Receive

LEMMA LookupHashKeeps == ASSUME IInv, NEW c \in Clients, LookupHash(c) PROVE IInv'
  <1>1. request[c] \in Inputs /\ phase[c] = "hash"
    BY DEF IInv, UnderWay, LookupHash
  <1>2. ASSUME NEW id \in SameHash(request[c]), Answer(c, request[c], id) PROVE IInv'
    BY <1>1, <1>2, SameHashIsIndex, EndKeeps DEF Answer
  <1>3. CASE SameHash(request[c]) = {} /\ GoOn(c, request[c], "insert")
    <2>1. ~repeats[c]
      BY <1>1, <1>3 DEF IInv, UnderWay
    <2> QED BY <1>1, <1>3, <2>1, GoOnKeeps
  <1> QED BY <1>2, <1>3 DEF LookupHash

LEMMA FailKeeps == ASSUME IInv, NEW c \in Clients, Fail(c) PROVE IInv'
  BY EndKeeps DEF Fail

-----------------------------------------------------------------------------
\* A document is added behind the others.
LEMMA InsertKeeps == ASSUME IInv, NEW c \in Clients, Insert(c) PROVE IInv'
  <1> DEFINE input == request[c]
             n == Len(docs) + 1
  <1>1. /\ input \in Inputs /\ SameKey(input) = {} /\ docs' = Append(docs, input) /\ n <= MaxDocs
        /\ answers' = answers \cup {[input |-> input, id |-> n]} /\ EndRequest(c)
    <2>1. phase[c] = "insert" /\ UnderWay(c)
      BY DEF IInv, Insert
    <2>2. input \in Inputs
      BY <2>1 DEF UnderWay
    <2>3. Len(docs) \in Nat /\ Len(docs) < MaxDocs
      BY DEF IInv, TypeOK, Insert
    <2>4. n <= MaxDocs
      BY <2>3, IngestAssumption
    <2> QED BY <2>2, <2>4 DEF Insert
  <1>2. /\ docs' \in Seq(Inputs) /\ Len(docs') = n /\ docs'[n] = input
        /\ \A i \in 1..Len(docs) : docs'[i] = docs[i] /\ i \in 1..n
        /\ \A i \in 1..n : i = n \/ i \in 1..Len(docs)
    BY <1>1 DEF IInv, TypeOK
  <1>3. TypeOK'
    BY <1>1, <1>2 DEF IInv, TypeOK, EndRequest, Phases
  <1>4. AnswerIsHeld'
    BY <1>1, <1>2 DEF IInv, AnswerIsHeld, TypeOK
  <1>5. OneDocPerKey'
    BY <1>1, <1>2 DEF IInv, OneDocPerKey, SameKey
  <1>6. \A d \in Clients : IF d = c THEN phase'[d] = "idle"
                           ELSE phase'[d] = phase[d] /\ request'[d] = request[d] /\ repeats'[d] = repeats[d]
    BY <1>1 DEF IInv, TypeOK, EndRequest
  <1>7. \A x : SameHash(x) # {} => SameHash(x)' # {}
    BY <1>2 DEF SameHash
  <1>8. RepeatIsFound' /\ \A d \in Clients : UnderWay(d)'
    <2>1. RepeatIsFound'
      BY <1>6 DEF IInv, RepeatIsFound
    <2>2. ASSUME NEW d \in Clients PROVE UnderWay(d)'
      <3>1. CASE d = c
        BY <1>6, <3>1 DEF UnderWay
      <3>2. CASE d # c
        <4>1. phase'[d] = phase[d] /\ request'[d] = request[d] /\ repeats'[d] = repeats[d] /\ UnderWay(d)
          BY <1>6, <3>2 DEF IInv
        <4>2. phase'[d] = "hash" /\ repeats'[d] => \E i \in 1..Len(docs) :
                docs[i].kind = request[d].kind /\ docs[i].content = request[d].content
          BY <4>1 DEF UnderWay, SameHash
        <4> QED BY <1>2, <4>1, <4>2 DEF UnderWay, SameHash
      <3> QED BY <3>1, <3>2
    <2> QED BY <2>1, <2>2
  <1> QED BY <1>3, <1>4, <1>5, <1>8 DEF IInv

-----------------------------------------------------------------------------
LEMMA InitKeeps == Init => IInv
  <1> SUFFICES ASSUME Init PROVE IInv
    OBVIOUS
  <1>1. TypeOK
    BY IngestAssumption, EmptySeq DEF Init, TypeOK, Phases
  <1> QED BY <1>1 DEF Init, IInv, AnswerIsHeld, OneDocPerKey, RepeatIsFound, UnderWay

LEMMA StepKeeps == IInv /\ [Next]_vars => IInv'
  <1> SUFFICES ASSUME IInv, [Next]_vars PROVE IInv'
    OBVIOUS
  <1>1. CASE UNCHANGED vars
    BY <1>1 DEF vars, IInv, TypeOK, AnswerIsHeld, OneDocPerKey, RepeatIsFound, UnderWay, SameHash
  <1> QED
    BY <1>1, LookupKeyKeeps, ReceiveKeeps, LookupHashKeeps, InsertKeeps, FailKeeps DEF Next

LEMMA Inductive == Spec => []IInv
  BY InitKeeps, StepKeeps, PTL DEF Spec

\* Documents, answers and requests keep their types (payments_service.go,
\* pos_tickets_service.go).
THEOREM TypeCorrect == Spec => []TypeOK
  <1>1. IInv => TypeOK
    BY DEF IInv
  <1> QED BY <1>1, Inductive, PTL

\* Whoever is told that a document is stored finds it there, with its content or,
\* under its key, the one first sent, and of its kind (payments_service.go:65-125,
\* pos_tickets_service.go:84-100).
THEOREM AnswersAreHeld == Spec => []AnswerIsHeld
  <1>1. IInv => AnswerIsHeld
    BY DEF IInv
  <1> QED BY <1>1, Inductive, PTL

\* Requests that race under one key store one document (payments_service.go:108-125,
\* migration 022).
THEOREM OneDocumentPerKey == Spec => []OneDocPerKey
  <1>1. IInv => OneDocPerKey
    BY DEF IInv
  <1> QED BY <1>1, Inductive, PTL

\* A content that was held when its request came is not inserted again, however
\* many others insert theirs meanwhile (payments_service.go:64-121).
THEOREM RepeatsAreFound == Spec => []RepeatIsFound
  <1>1. IInv => RepeatIsFound
    BY DEF IInv
  <1> QED BY <1>1, Inductive, PTL

\* No step replaces, moves or removes a document (payments_service.go:212).
THEOREM DocumentsStay == Spec => AppendOnly
  <1>1. IInv /\ [Next]_vars => [SubSeq(docs', 1, Len(docs)) = docs]_docs
    <2> SUFFICES ASSUME IInv, Next, docs' # docs PROVE SubSeq(docs', 1, Len(docs)) = docs
      BY DEF vars
    <2>1. PICK c \in Clients : Insert(c)
      BY DEF Next, LookupKey, Receive, LookupHash, Fail, GoOn, Answer
    <2>2. docs' = Append(docs, request[c]) /\ request[c] \in Inputs /\ docs \in Seq(Inputs)
      BY <2>1 DEF Insert, IInv, UnderWay, TypeOK
    <2> QED BY <2>2
  <1> QED BY <1>1, Inductive, PTL DEF Spec, AppendOnly
==============================================================================
