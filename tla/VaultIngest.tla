------------------------------ MODULE VaultIngest ------------------------------
(***************************************************************************)
(* The Vault's ingestion of payments and of point-of-sale tickets: each    *)
(* request looks for a document it would repeat, by idempotency key and by *)
(* content hash, and inserts one when it found none.  The lookups and the  *)
(* insert are separate database calls, so requests interleave; only the    *)
(* pair (tenant, idempotency_key) is UNIQUE (migration 022), and a ticket  *)
(* sets neither.                                                           *)
(*                                                                         *)
(* A Vault serves one tenant.  A hash stands for the kind and the content. *)
(* Repeated submissions (DVIG's retries, lost answers) are further         *)
(* requests with the same input.                                           *)
(***************************************************************************)
EXTENDS Naturals, Sequences

CONSTANTS
    Keys,      \* idempotency keys
    Contents,  \* what the hash of a payment or ticket covers
    Clients,   \* concurrent requests
    MaxDocs,   \* bound on the documents of a behaviour
    NoKey      \* a payment without the optional idempotency_key

ASSUME IngestAssumption == NoKey \notin Keys /\ MaxDocs \in Nat

VARIABLES
    docs,     \* documents in the order of their insertion
    answers,  \* what senders were told: the input and the document's index
    request,  \* the input of the request each client handles
    phase,    \* and where its handler stands
    repeats   \* history: whether its content was held when the request came

vars == <<docs, answers, request, phase, repeats>>

Inputs == [kind : {"payment"}, key : Keys \cup {NoKey}, content : Contents]
          \cup [kind : {"ticket"}, key : {NoKey}, content : Contents]
NoRequest == [kind |-> "none"]
Phases == {"idle", "hash", "insert"}

TypeOK ==
    /\ docs \in Seq(Inputs) /\ Len(docs) <= MaxDocs
    /\ \A a \in answers : a.input \in Inputs /\ a.id \in 1..Len(docs)
    /\ request \in [Clients -> Inputs \cup {NoRequest}]
    /\ phase \in [Clients -> Phases]
    /\ repeats \in [Clients -> BOOLEAN]

Init == /\ docs = <<>> /\ answers = {}
        /\ request = [c \in Clients |-> NoRequest]
        /\ phase = [c \in Clients |-> "idle"]
        /\ repeats = [c \in Clients |-> FALSE]

-----------------------------------------------------------------------------
SameKey(input)  == {i \in 1..Len(docs) : input.key # NoKey /\ docs[i].key = input.key}
SameHash(input) == {i \in 1..Len(docs) : docs[i].kind = input.kind /\ docs[i].content = input.content}

EndRequest(c) ==
    /\ request' = [request EXCEPT ![c] = NoRequest]
    /\ phase' = [phase EXCEPT ![c] = "idle"]
    /\ repeats' = [repeats EXCEPT ![c] = FALSE]

Answer(c, input, id) ==
    /\ answers' = answers \cup {[input |-> input, id |-> id]}
    /\ EndRequest(c)
    /\ UNCHANGED docs

GoOn(c, input, next) ==
    /\ request' = [request EXCEPT ![c] = input]
    /\ phase' = [phase EXCEPT ![c] = next]
    /\ repeats' = [repeats EXCEPT ![c] = IF next = "hash" THEN SameHash(input) # {} ELSE @]
    /\ UNCHANGED <<docs, answers>>

\* A payment with a key is first looked for by its key.
LookupKey(c, input) ==
    /\ phase[c] = "idle" /\ input.key # NoKey
    /\ \/ \E id \in SameKey(input) : Answer(c, input, id)
       \/ SameKey(input) = {} /\ GoOn(c, input, "hash")

\* A payment without a key and a ticket go straight to the hash.
Receive(c, input) ==
    /\ phase[c] = "idle" /\ input.key = NoKey
    /\ GoOn(c, input, "hash")

LookupHashSkipped(c) ==  \* mutant: the lookup by hash is only for tickets
    /\ phase[c] = "hash"
    /\ GoOn(c, request[c], "insert")
LookupHashOnly(c) ==     \* mutant: the hash covers the content, not the kind
    /\ phase[c] = "hash"
    /\ \/ \E id \in {i \in 1..Len(docs) : docs[i].content = request[c].content} : Answer(c, request[c], id)
       \/ SameHash(request[c]) = {} /\ GoOn(c, request[c], "insert")
\* Then by the hash of its content; which of several is found is left open.
LookupHash(c) ==
    /\ phase[c] = "hash"
    /\ \/ \E id \in SameHash(request[c]) : Answer(c, request[c], id)
       \/ SameHash(request[c]) = {} /\ GoOn(c, request[c], "insert")

\* Any failure before the commit: the sender is told 500 and nothing is kept.
Fail(c) ==
    /\ phase[c] # "idle"
    /\ EndRequest(c)
    /\ UNCHANGED <<docs, answers>>

InsertUncommitted(c) ==  \* mutant: the sender is answered though the commit failed
    /\ phase[c] = "insert" /\ Len(docs) < MaxDocs
    /\ answers' = answers \cup {[input |-> request[c], id |-> Len(docs) + 1]}
    /\ EndRequest(c)
    /\ UNCHANGED docs
\* The document, its evidence and its ledger entry are committed together,
\* unless the UNIQUE index refuses them.
Insert(c) ==
    /\ phase[c] = "insert" /\ Len(docs) < MaxDocs
    /\ SameKey(request[c]) = {}
    /\ docs' = Append(docs, request[c])
    /\ answers' = answers \cup {[input |-> request[c], id |-> Len(docs) + 1]}
    /\ EndRequest(c)

Next == \E c \in Clients :
          \/ \E input \in Inputs : LookupKey(c, input) \/ Receive(c, input)
          \/ LookupHash(c) \/ Insert(c) \/ Fail(c)

Spec == Init /\ [][Next]_vars

-----------------------------------------------------------------------------
\* What a sender is told is stored is stored, with its content or, under its
\* key, with the content first sent under that key; a payment is never
\* answered with a ticket (payments_service.go:65-125, pos_tickets_service.go:84-100).
AnswerIsHeld ==
    \A a \in answers :
        /\ docs[a.id].kind = a.input.kind
        /\ \/ docs[a.id].content = a.input.content
           \/ a.input.key # NoKey /\ docs[a.id].key = a.input.key

\* However requests race, a key names one document (migration 022).
OneDocPerKey ==
    \A i, j \in 1..Len(docs) : docs[i].key = docs[j].key /\ docs[i].key # NoKey => i = j

\* A document once inserted is never replaced or moved (payments_service.go:212).
AppendOnly == [][SubSeq(docs', 1, Len(docs)) = docs]_docs

\* A submission whose content is already held when it comes never reaches the
\* insert, whatever its key and whoever else is at work
\* (payments_service.go:64-121, pos_tickets_service.go:85-100).
RepeatIsFound == \A c \in Clients : phase[c] = "insert" => ~repeats[c]

==============================================================================
