------------------------------ MODULE WebhookQueue ------------------------------
(***************************************************************************)
(* The Vault's webhooks: an event for each subscribed URL is pushed on a   *)
(* Redis list; workers pop it, post it, and push it again after a growing  *)
(* wait when the post fails, until MaxRetries posts have failed.           *)
(*                                                                         *)
(* A popped event is in its worker's memory only: a stop of the process,   *)
(* or a push that Redis does not get, loses it.  "posts" and "fate" only   *)
(* serve the properties.                                                   *)
(***************************************************************************)
EXTENDS Naturals, Sequences, FiniteSets

CONSTANTS
    Events,      \* an event for one URL
    Dead,        \* those whose receiver never answers 2xx
    Malformed,   \* those of which no request can be made: a URL that does not parse
    Workers,     \* goroutines of the worker
    MaxRetries,  \* WebhookEvent.MaxRetries
    Mishaps,     \* bound on lost pushes, lost pops and stops
    None

ASSUME WebhookAssumption ==
    /\ Dead \subseteq Events /\ Malformed \subseteq Events
    /\ MaxRetries \in Nat \ {0} /\ Mishaps \in Nat
    /\ None \notin Events

VARIABLES
    queue,   \* the Redis list, oldest first
    hand,    \* the event a worker has popped
    open,    \* the workers and their queue have not been stopped
    posts,   \* posts of an event that have failed
    fate,    \* of an event: none, still due, or its end
    mishaps

vars == <<queue, hand, open, posts, fate, mishaps>>

Item  == [event : Events, retries : 0..MaxRetries - 1]
Fates == {"none", "due", "delivered", "given_up", "dropped", "lost"}
Empty == [event |-> None, retries |-> 0, sleeps |-> FALSE]

TypeOK ==
    /\ queue \in Seq(Item)
    /\ hand \in [Workers -> [event : Events \cup {None}, retries : 0..MaxRetries - 1, sleeps : BOOLEAN]]
    /\ open \in BOOLEAN
    /\ posts \in [Events -> Nat]
    /\ fate \in [Events -> Fates]
    /\ mishaps \in 0..Mishaps

Init ==
    /\ queue = <<>>
    /\ hand = [w \in Workers |-> Empty]
    /\ open = TRUE
    /\ posts = [e \in Events |-> 0]
    /\ fate = [e \in Events |-> "none"]
    /\ mishaps = 0

-----------------------------------------------------------------------------
Mishap == mishaps < Mishaps /\ mishaps' = mishaps + 1

\* A push that does not reach Redis, or is refused by the closed queue.
PushFails == IF open THEN Mishap ELSE UNCHANGED mishaps

Ends(e, end) == fate' = [fate EXCEPT ![e] = end]
Drop(w)      == hand' = [hand EXCEPT ![w] = Empty]

\* EmitEvent, for one URL; an error of the push is logged and the next URL is
\* tried.
Emit(e) ==
    /\ fate[e] = "none"
    /\ \/ /\ open
          /\ queue' = Append(queue, [event |-> e, retries |-> 0])
          /\ Ends(e, "due")
          /\ UNCHANGED mishaps
       \/ PushFails /\ Ends(e, "lost") /\ UNCHANGED queue
    /\ UNCHANGED <<hand, open, posts>>

DequeuePeek(w) ==  \* mutant: the event is read and left on the list
    /\ open /\ hand[w] = Empty /\ queue # <<>>
    /\ hand' = [hand EXCEPT ![w] = [event |-> Head(queue).event, retries |-> Head(queue).retries,
                                    sleeps |-> FALSE]]
    /\ UNCHANGED <<queue, open, posts, fate, mishaps>>
\* workerLoop and Dequeue: BRPOP takes the oldest event off the list.
Dequeue(w) ==
    /\ open /\ hand[w] = Empty /\ queue # <<>>
    /\ queue' = Tail(queue)
    /\ hand' = [hand EXCEPT ![w] = [event |-> Head(queue).event, retries |-> Head(queue).retries,
                                    sleeps |-> FALSE]]
    /\ UNCHANGED <<open, posts, fate, mishaps>>

\* The connection is lost after the pop, or the entry cannot be read.
DequeueFails ==
    /\ open /\ queue # <<>> /\ Mishap
    /\ queue' = Tail(queue)
    /\ Ends(Head(queue).event, "lost")
    /\ UNCHANGED <<hand, open, posts>>

Held(e)    == \E w \in Workers : hand[w].event = e
Handles(w) == hand[w].event # None /\ ~hand[w].sleeps
Posting(w) == Handles(w) /\ hand[w].event \notin Malformed

\* processEvent cannot make the request: the error is logged, and the event is
\* gone without a post and without a retry.
RequestFails(w) ==
    /\ Handles(w) /\ hand[w].event \in Malformed
    /\ Ends(hand[w].event, "dropped")
    /\ Drop(w)
    /\ UNCHANGED <<queue, open, posts, mishaps>>

\* 2xx.
PostDelivered(w) ==
    /\ Posting(w) /\ hand[w].event \notin Dead
    /\ Ends(hand[w].event, "delivered")
    /\ Drop(w)
    /\ UNCHANGED <<queue, open, posts, mishaps>>

GiveUpLate(w) ==  \* mutant: retry_count > max_retries
    hand[w].retries >= MaxRetries
\* handleRetry, once retry_count counts this post.
GiveUp(w) == hand[w].retries + 1 >= MaxRetries

\* Another status, or no answer: the last of the posts, or a wait.
PostFails(w) ==
    /\ Posting(w)
    /\ posts' = [posts EXCEPT ![hand[w].event] = @ + 1]
    /\ \/ GiveUp(w) /\ Ends(hand[w].event, "given_up") /\ Drop(w)
       \/ ~GiveUp(w) /\ hand' = [hand EXCEPT ![w].sleeps = TRUE] /\ UNCHANGED fate
    /\ UNCHANGED <<queue, open, mishaps>>

RequeueUnpushed(w) ==  \* mutant: the worker goes back to its loop after the wait
    /\ hand[w].sleeps /\ open
    /\ Drop(w)
    /\ UNCHANGED <<queue, open, posts, fate, mishaps>>

\* The wait is over: the event goes to the end of the list, with its count.
Requeue(w) ==
    /\ hand[w].sleeps /\ open
    /\ queue' = Append(queue, [event |-> hand[w].event, retries |-> hand[w].retries + 1])
    /\ Drop(w)
    /\ UNCHANGED <<open, posts, fate, mishaps>>

\* The error of the push is logged.
RequeueFails(w) ==
    /\ hand[w].sleeps
    /\ PushFails
    /\ Ends(hand[w].event, "lost")
    /\ Drop(w)
    /\ UNCHANGED <<queue, open, posts>>

\* Manager.Stop: the workers are told to stop and the queue is closed at once.
Stop ==
    /\ open /\ Mishap
    /\ open' = FALSE
    /\ UNCHANGED <<queue, hand, posts, fate>>

\* The process ends, whatever its workers hold, and starts again.
Restart ==
    /\ ~open
    /\ open' = TRUE
    /\ fate' = [e \in Events |-> IF Held(e) THEN "lost" ELSE fate[e]]
    /\ hand' = [w \in Workers |-> Empty]
    /\ UNCHANGED <<queue, posts, mishaps>>

WorkerStep(w) == \/ Dequeue(w) \/ RequestFails(w) \/ PostDelivered(w) \/ PostFails(w)
                 \/ Requeue(w) \/ RequeueFails(w)

Next == \/ \E e \in Events : Emit(e)
        \/ \E w \in Workers : WorkerStep(w)
        \/ DequeueFails \/ Stop \/ Restart

Spec == Init /\ [][Next]_vars

\* Posts have a timeout and waits end; a stopped process is started again.
FairSpec == /\ Spec
            /\ \A w \in Workers : WF_vars(WorkerStep(w))
            /\ WF_vars(Restart)

-----------------------------------------------------------------------------
Listed(e) == \E i \in DOMAIN queue : queue[i].event = e

\* An event that is due is on the list or in one hand, once; an event that is not
\* is nowhere, so nothing is posted after its end.  It is given up after MaxRetries
\* failed posts, across workers and restarts, and never posted more; only one that
\* was never posted is dropped (queue.go:67-111, worker.go:109-121, 164-203).
Accounted ==
    /\ \A i, j \in DOMAIN queue : queue[i].event = queue[j].event => i = j
    /\ \A v, w \in Workers : hand[v].event = hand[w].event => v = w \/ hand[v].event = None
    /\ \A e \in Events : /\ ~(Listed(e) /\ Held(e))
                         /\ Listed(e) \/ Held(e) <=> fate[e] = "due"
                         /\ posts[e] <= MaxRetries
                         /\ fate[e] = "given_up" => posts[e] = MaxRetries
                         /\ fate[e] = "dropped" => posts[e] = 0

\* An end is an end: an event delivered, given up, dropped or lost is never posted again, nor
\* does it come to another end, whatever is still on the list or asleep
\* (queue.go:67-111, worker.go:69-98).
EndIsFinal ==
    [][\A e \in Events : fate[e] \notin {"none", "due"} =>
            fate'[e] = fate[e] /\ posts'[e] = posts[e]]_vars

\* Every event comes to an end, the ones behind dead receivers too: those hold a
\* worker for a bounded number of waits (worker.go:69-98, 164-203).
EventEnds == \A e \in Events : fate[e] = "due" ~> fate[e] # "due"
==============================================================================
