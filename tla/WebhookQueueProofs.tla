--------------------------- MODULE WebhookQueueProofs ---------------------------
(***************************************************************************)
(* Proofs about WebhookQueue, for any events, dead receivers, workers,     *)
(* number of posts and number of mishaps.  An event that is due is in one  *)
(* place, and what it carries there is the number of its failed posts.     *)
(***************************************************************************)
EXTENDS WebhookQueue, SequenceTheorems, TLAPS

Hand == [event : Events \cup {None}, retries : 0..MaxRetries - 1, sleeps : BOOLEAN]

ListedOnce  == \A i, j \in DOMAIN queue : queue[i].event = queue[j].event => i = j
HeldOnce    == \A v, w \in Workers : hand[v].event = hand[w].event => v = w \/ hand[v].event = None
OnePlace    == \A e \in Events : /\ ~(Listed(e) /\ Held(e))
                                 /\ Listed(e) \/ Held(e) <=> fate[e] = "due"
ListedCount == \A i \in DOMAIN queue : posts[queue[i].event] = queue[i].retries

\* A worker that sleeps has counted one more post than its event was popped with.
HeldCount ==
    \A w \in Workers :
        IF hand[w].event = None THEN ~hand[w].sleeps
        ELSE IF hand[w].sleeps THEN /\ hand[w].retries + 1 < MaxRetries
                                    /\ posts[hand[w].event] = hand[w].retries + 1
             ELSE posts[hand[w].event] = hand[w].retries

EndCount == \A e \in Events : /\ posts[e] <= MaxRetries
                              /\ fate[e] = "none" => posts[e] = 0
                              /\ fate[e] = "given_up" => posts[e] = MaxRetries
                              /\ e \in Malformed => posts[e] = 0 /\ fate[e] # "given_up"
                              /\ fate[e] = "dropped" => e \in Malformed

IInv == /\ TypeOK /\ ListedOnce /\ HeldOnce /\ OnePlace
        /\ ListedCount /\ HeldCount /\ EndCount

-----------------------------------------------------------------------------
\* The list.

LEMMA UnlistedElsewhere ==
  ASSUME queue \in Seq(Item), NEW e \in Events, ~Listed(e)
  PROVE  \A i \in DOMAIN queue : queue[i].event \in Events /\ queue[i].event # e
  <1>1. \A i \in DOMAIN queue : queue[i] \in Item
    OBVIOUS
  <1> QED BY <1>1 DEF Listed, Item

LEMMA Pushed ==
  ASSUME queue \in Seq(Item), ListedOnce, ListedCount, NEW x \in Item, queue' = Append(queue, x),
         ~Listed(x.event), UNCHANGED posts, posts[x.event] = x.retries
  PROVE  /\ queue' \in Seq(Item) /\ ListedOnce' /\ ListedCount'
         /\ \A e \in Events : Listed(e)' <=> Listed(e) \/ e = x.event
  <1>1. /\ queue' \in Seq(Item) /\ DOMAIN queue = 1..Len(queue) /\ DOMAIN queue' = 1..Len(queue) + 1
        /\ queue'[Len(queue) + 1] = x /\ Len(queue) \in Nat
        /\ \A i \in 1..Len(queue) : queue'[i] = queue[i]
    OBVIOUS
  <1>2. \A i \in DOMAIN queue' : i = Len(queue) + 1 \/ i \in DOMAIN queue
    BY <1>1
  <1>3. Len(queue) + 1 \in DOMAIN queue' /\ \A i \in DOMAIN queue : i \in DOMAIN queue'
    BY <1>1
  <1>4. ListedOnce'
    BY <1>1, <1>2 DEF ListedOnce, Listed
  <1>5. ListedCount'
    BY <1>1, <1>2 DEF ListedCount
  <1>6. \A e \in Events : Listed(e)' <=> Listed(e) \/ e = x.event
    BY <1>1, <1>2, <1>3 DEF Listed
  <1> QED BY <1>1, <1>4, <1>5, <1>6

LEMMA Popped ==
  ASSUME queue \in Seq(Item), ListedOnce, ListedCount, queue # <<>>, queue' = Tail(queue),
         UNCHANGED posts
  PROVE  /\ queue' \in Seq(Item) /\ ListedOnce' /\ ListedCount'
         /\ Head(queue) \in Item /\ Listed(Head(queue).event)
         /\ posts[Head(queue).event] = Head(queue).retries
         /\ \A e \in Events : Listed(e)' <=> Listed(e) /\ e # Head(queue).event
  <1>1. /\ queue' \in Seq(Item) /\ DOMAIN queue = 1..Len(queue) /\ DOMAIN queue' = 1..Len(queue) - 1
        /\ Len(queue) \in Nat \ {0} /\ Head(queue) = queue[1] /\ Head(queue) \in Item
        /\ \A i \in 1..Len(queue) - 1 : queue'[i] = queue[i + 1]
    OBVIOUS
  <1>2. \A i \in DOMAIN queue' : i + 1 \in DOMAIN queue /\ i + 1 # 1 /\ queue'[i] = queue[i + 1]
    BY <1>1
  <1>3. \A i \in DOMAIN queue : i = 1 \/ (i - 1 \in DOMAIN queue' /\ queue'[i - 1] = queue[i])
    BY <1>1
  <1>4. 1 \in DOMAIN queue
    BY <1>1
  <1>5. ListedOnce'
    <2> SUFFICES ASSUME NEW i \in DOMAIN queue', NEW j \in DOMAIN queue', queue'[i].event = queue'[j].event
                 PROVE  i = j
      BY DEF ListedOnce
    <2>1. i + 1 = j + 1 /\ i \in Nat /\ j \in Nat
      BY <1>1, <1>2 DEF ListedOnce
    <2> QED BY <2>1
  <1>6. ListedCount'
    BY <1>2 DEF ListedCount
  <1>7. Listed(Head(queue).event) /\ posts[Head(queue).event] = Head(queue).retries
    BY <1>1, <1>4 DEF Listed, ListedCount
  <1>8. \A e \in Events : Listed(e)' <=> Listed(e) /\ e # Head(queue).event
    <2> TAKE e \in Events
    <2>1. Listed(e)' => Listed(e) /\ e # Head(queue).event
      BY <1>1, <1>2, <1>4 DEF Listed, ListedOnce
    <2>2. ASSUME Listed(e), e # Head(queue).event PROVE Listed(e)'
      <3>1. PICK i \in DOMAIN queue : queue[i].event = e
        BY <2>2 DEF Listed
      <3> QED BY <1>1, <1>3, <2>2, <3>1 DEF Listed
    <2> QED BY <2>1, <2>2
  <1> QED BY <1>1, <1>5, <1>6, <1>7, <1>8

-----------------------------------------------------------------------------
LEMMA EmitKeeps == ASSUME IInv, NEW e \in Events, Emit(e) PROVE IInv'
  <1>1. /\ fate[e] = "none" /\ ~Listed(e) /\ ~Held(e) /\ posts[e] = 0 /\ UNCHANGED <<hand, open, posts>>
        /\ TypeOK /\ fate \in [Events -> Fates]
    BY DEF IInv, OnePlace, EndCount, Emit, TypeOK
  <1>2. CASE queue' = Append(queue, [event |-> e, retries |-> 0]) /\ Ends(e, "due") /\ UNCHANGED mishaps
    <2> DEFINE x == [event |-> e, retries |-> 0]
    <2>1. x \in Item /\ x.event = e /\ x.retries = 0
      BY WebhookAssumption DEF Item
    <2>2. /\ queue' \in Seq(Item) /\ ListedOnce' /\ ListedCount'
          /\ \A d \in Events : Listed(d)' <=> Listed(d) \/ d = e
      BY <1>1, <1>2, <2>1, Pushed DEF IInv, TypeOK
    <2>3. \A d \in Events : fate'[d] = IF d = e THEN "due" ELSE fate[d]
      BY <1>1, <1>2 DEF Ends
    <2>4. TypeOK'
      BY <1>1, <1>2, <2>2 DEF TypeOK, Ends, Fates
    <2>5. OnePlace'
      BY <1>1, <2>2, <2>3 DEF IInv, OnePlace, Held
    <2>6. HeldOnce' /\ HeldCount' /\ EndCount'
      BY <1>1, <2>3 DEF IInv, HeldOnce, HeldCount, EndCount
    <2> QED BY <2>2, <2>4, <2>5, <2>6 DEF IInv
  <1>3. CASE PushFails /\ Ends(e, "lost") /\ UNCHANGED queue
    <2>1. mishaps' \in 0..Mishaps
      BY <1>1, <1>3, WebhookAssumption DEF PushFails, Mishap, TypeOK
    <2>2. TypeOK'
      BY <1>1, <1>3, <2>1 DEF TypeOK, Ends, Fates
    <2>3. \A d \in Events : fate'[d] = IF d = e THEN "lost" ELSE fate[d]
      BY <1>1, <1>3 DEF Ends
    <2>4. OnePlace'
      BY <1>1, <1>3, <2>3 DEF IInv, OnePlace, Held, Listed
    <2>5. ListedOnce' /\ HeldOnce' /\ ListedCount' /\ HeldCount' /\ EndCount'
      BY <1>1, <1>3, <2>3 DEF IInv, ListedOnce, HeldOnce, ListedCount, HeldCount, EndCount
    <2> QED BY <2>2, <2>4, <2>5 DEF IInv
  <1> QED BY <1>2, <1>3 DEF Emit

LEMMA DequeueKeeps == ASSUME IInv, NEW w \in Workers, Dequeue(w) PROVE IInv'
  <1> DEFINE x == Head(queue)
             h == [event |-> x.event, retries |-> x.retries, sleeps |-> FALSE]
  <1>1. /\ hand[w] = Empty /\ queue # <<>> /\ queue' = Tail(queue) /\ hand' = [hand EXCEPT ![w] = h]
        /\ UNCHANGED <<open, posts, fate, mishaps>>
    BY DEF Dequeue
  <1>2. TypeOK /\ ListedOnce /\ ListedCount /\ HeldOnce /\ HeldCount /\ OnePlace /\ queue \in Seq(Item)
    BY DEF IInv, TypeOK
  <1>3. /\ queue' \in Seq(Item) /\ ListedOnce' /\ ListedCount'
        /\ x \in Item /\ Listed(x.event) /\ posts[x.event] = x.retries
        /\ \A e \in Events : Listed(e)' <=> Listed(e) /\ e # x.event
    BY <1>1, <1>2, Popped
  <1>4. x.event \in Events /\ x.event # None /\ ~Held(x.event)
    BY <1>2, <1>3, WebhookAssumption DEF Item, OnePlace
  <1>5. h \in Hand
    BY <1>3 DEF Item, Hand
  <1>6. TypeOK' /\ \A v \in Workers : hand'[v] = IF v = w THEN h ELSE hand[v]
    BY <1>1, <1>2, <1>3, <1>5 DEF TypeOK, Hand
  <1>7. hand[w].event = None
    BY <1>1 DEF Empty
  <1>8. \A e \in Events : Held(e)' <=> Held(e) \/ e = x.event
    BY <1>4, <1>6, <1>7, WebhookAssumption DEF Held
  <1>9. HeldOnce'
    BY <1>2, <1>4, <1>6 DEF HeldOnce, Held
  <1>10. HeldCount'
    BY <1>1, <1>2, <1>3, <1>4, <1>6 DEF HeldCount
  <1>11. OnePlace'
    BY <1>1, <1>2, <1>3, <1>4, <1>8 DEF OnePlace
  <1>12. EndCount'
    BY <1>1 DEF IInv, EndCount
  <1> QED BY <1>3, <1>6, <1>9, <1>10, <1>11, <1>12 DEF IInv

LEMMA DequeueFailsKeeps == ASSUME IInv, DequeueFails PROVE IInv'
  <1> DEFINE x == Head(queue)
  <1>1. /\ queue # <<>> /\ queue' = Tail(queue) /\ Ends(x.event, "lost")
        /\ UNCHANGED <<hand, open, posts>>
    BY DEF DequeueFails
  <1>2. TypeOK /\ ListedOnce /\ ListedCount /\ OnePlace /\ queue \in Seq(Item)
    BY DEF IInv, TypeOK
  <1>3. /\ queue' \in Seq(Item) /\ ListedOnce' /\ ListedCount'
        /\ x \in Item /\ Listed(x.event)
        /\ \A e \in Events : Listed(e)' <=> Listed(e) /\ e # x.event
    BY <1>1, <1>2, Popped
  <1>4. x.event \in Events
    BY <1>3 DEF Item
  <1>5. \A d \in Events : fate'[d] = IF d = x.event THEN "lost" ELSE fate[d]
    BY <1>1, <1>2 DEF Ends, TypeOK
  <1>6. mishaps' \in 0..Mishaps
    BY <1>2, WebhookAssumption DEF DequeueFails, Mishap, TypeOK
  <1>7. TypeOK'
    BY <1>1, <1>2, <1>3, <1>4, <1>6 DEF TypeOK, Ends, Fates
  <1>8. OnePlace'
    BY <1>1, <1>2, <1>3, <1>4, <1>5 DEF OnePlace, Held
  <1>9. HeldOnce' /\ HeldCount' /\ EndCount'
    BY <1>1, <1>5 DEF IInv, HeldOnce, HeldCount, EndCount
  <1> QED BY <1>3, <1>7, <1>8, <1>9 DEF IInv

\* A worker lets go of its event, which comes to its end.
LEMMA Ended ==
  ASSUME IInv, NEW w \in Workers, NEW e \in Events, e = hand[w].event, NEW end \in Fates,
         end \notin {"none", "due"}, Ends(e, end), Drop(w), UNCHANGED <<queue, open>>,
         posts' \in [Events -> Nat], \A d \in Events : d # e => posts'[d] = posts[d],
         posts'[e] <= MaxRetries, end = "given_up" => posts'[e] = MaxRetries,
         e \in Malformed => posts'[e] = posts[e] /\ end # "given_up",
         end = "dropped" => e \in Malformed,
         mishaps' \in 0..Mishaps
  PROVE  IInv'
  <1>1. Empty \in Hand
    BY WebhookAssumption DEF Empty, Hand
  <1>2. TypeOK /\ OnePlace /\ HeldOnce /\ HeldCount /\ ListedOnce /\ ListedCount /\ EndCount /\ e # None
    BY WebhookAssumption DEF IInv
  <1>3. TypeOK'
    BY <1>1, <1>2 DEF TypeOK, Ends, Drop, Hand
  <1>4. /\ \A v \in Workers : hand'[v] = IF v = w THEN Empty ELSE hand[v]
        /\ \A d \in Events : fate'[d] = IF d = e THEN end ELSE fate[d]
        /\ Empty.event = None /\ ~Empty.sleeps
    BY <1>2 DEF TypeOK, Ends, Drop, Empty
  <1>5. Held(e) /\ ~Listed(e)
    BY <1>2 DEF Held, OnePlace
  <1>6. \A d \in Events : (Held(d)' <=> Held(d) /\ d # e) /\ (Listed(d)' <=> Listed(d))
    BY <1>2, <1>4, WebhookAssumption DEF Held, HeldOnce, Listed
  <1>7. OnePlace'
    BY <1>2, <1>4, <1>5, <1>6 DEF OnePlace
  <1>8. HeldOnce'
    BY <1>2, <1>4 DEF HeldOnce
  <1>9. HeldCount'
    BY <1>2, <1>4 DEF HeldCount, HeldOnce, TypeOK
  <1>10. ListedOnce' /\ ListedCount'
    <2>1. \A i \in DOMAIN queue : queue[i].event \in Events /\ queue[i].event # e
      BY <1>2, <1>5, UnlistedElsewhere DEF TypeOK
    <2> QED BY <1>2, <2>1 DEF ListedOnce, ListedCount
  <1>11. EndCount'
    BY <1>2, <1>4 DEF EndCount
  <1> QED BY <1>3, <1>7, <1>8, <1>9, <1>10, <1>11 DEF IInv

LEMMA PostDeliveredKeeps == ASSUME IInv, NEW w \in Workers, PostDelivered(w) PROVE IInv'
  <1> DEFINE e == hand[w].event
  <1>1. /\ e \in Events /\ Ends(e, "delivered") /\ Drop(w) /\ UNCHANGED <<queue, open, posts, mishaps>>
        /\ posts \in [Events -> Nat] /\ mishaps \in 0..Mishaps /\ posts[e] <= MaxRetries
        /\ "delivered" \in Fates
    BY DEF PostDelivered, Posting, Handles, IInv, TypeOK, EndCount, Fates
  <1> QED BY <1>1, Ended

LEMMA RequestFailsKeeps == ASSUME IInv, NEW w \in Workers, RequestFails(w) PROVE IInv'
  <1> DEFINE e == hand[w].event
  <1>1. /\ e \in Events /\ e \in Malformed /\ Ends(e, "dropped") /\ Drop(w)
        /\ UNCHANGED <<queue, open, posts, mishaps>>
        /\ posts \in [Events -> Nat] /\ mishaps \in 0..Mishaps /\ posts[e] <= MaxRetries
        /\ "dropped" \in Fates
    BY DEF RequestFails, Handles, IInv, TypeOK, EndCount, Fates
  <1> QED BY <1>1, Ended

LEMMA PostFailsKeeps == ASSUME IInv, NEW w \in Workers, PostFails(w) PROVE IInv'
  <1>0. PICK e \in Events : e = hand[w].event /\ e # None /\ ~hand[w].sleeps /\ e \notin Malformed
    BY DEF PostFails, Posting, Handles, IInv, TypeOK
  <1>1. /\ posts' = [posts EXCEPT ![e] = @ + 1] /\ UNCHANGED <<queue, open, mishaps>>
        /\ hand[w] \in Hand /\ posts[e] = hand[w].retries /\ hand[w].retries \in 0..MaxRetries - 1
        /\ mishaps \in 0..Mishaps /\ posts \in [Events -> Nat]
    BY <1>0 DEF PostFails, IInv, TypeOK, HeldCount, Hand
  <1>2. /\ posts' \in [Events -> Nat] /\ posts'[e] = hand[w].retries + 1 /\ posts'[e] <= MaxRetries
        /\ \A d \in Events : d # e => posts'[d] = posts[d]
    BY <1>1, WebhookAssumption
  <1>3. CASE GiveUp(w) /\ Ends(e, "given_up") /\ Drop(w)
    <2>1. posts'[e] = MaxRetries /\ "given_up" \in Fates
      BY <1>1, <1>2, <1>3, WebhookAssumption DEF GiveUp, Fates
    <2> QED BY <1>0, <1>1, <1>2, <1>3, <2>1, Ended
  <1>4. CASE ~GiveUp(w) /\ hand' = [hand EXCEPT ![w].sleeps = TRUE] /\ UNCHANGED fate
    <2> DEFINE h == [hand[w] EXCEPT !.sleeps = TRUE]
    <2>1. hand[w].retries + 1 < MaxRetries
      BY <1>1, <1>4, WebhookAssumption DEF GiveUp
    <2>2. h \in Hand /\ h.event = e /\ h.retries = hand[w].retries /\ h.sleeps
      BY <1>0, <1>1 DEF Hand
    <2>3. TypeOK /\ OnePlace /\ HeldOnce /\ HeldCount /\ ListedOnce /\ ListedCount /\ EndCount
      BY DEF IInv
    <2>4. \A v \in Workers : hand'[v] = IF v = w THEN h ELSE hand[v]
      BY <1>4, <2>3 DEF TypeOK
    <2>5. TypeOK'
      BY <1>1, <1>2, <1>4, <2>2, <2>3 DEF TypeOK, Hand
    <2>6. \A v \in Workers : hand'[v].event = hand[v].event
      BY <1>0, <2>2, <2>4
    <2>7. Held(e) /\ ~Listed(e) /\ fate[e] = "due"
      BY <1>0, <2>3 DEF Held, OnePlace
    <2>8. OnePlace' /\ HeldOnce'
      BY <1>1, <1>4, <2>3, <2>6 DEF OnePlace, HeldOnce, Held, Listed
    <2>9. HeldCount'
      <3> SUFFICES ASSUME NEW v \in Workers
                   PROVE  IF hand'[v].event = None THEN ~hand'[v].sleeps
                          ELSE IF hand'[v].sleeps THEN /\ hand'[v].retries + 1 < MaxRetries
                                                       /\ posts'[hand'[v].event] = hand'[v].retries + 1
                               ELSE posts'[hand'[v].event] = hand'[v].retries
        BY DEF HeldCount
      <3>1. CASE v = w
        BY <1>0, <1>2, <2>1, <2>2, <2>4, <3>1
      <3>2. CASE v # w
        <4>1. hand'[v] = hand[v] /\ hand[v].event # e /\ hand[v].event \in Events \cup {None}
          BY <1>0, <2>3, <2>4, <3>2 DEF HeldOnce, TypeOK
        <4>2. hand[v].event # None => posts'[hand[v].event] = posts[hand[v].event]
          BY <1>2, <4>1
        <4> QED BY <2>3, <4>1, <4>2 DEF HeldCount
      <3> QED BY <3>1, <3>2
    <2>10. ListedOnce' /\ ListedCount'
      <3>1. \A i \in DOMAIN queue : queue[i].event \in Events /\ queue[i].event # e
        BY <2>3, <2>7, UnlistedElsewhere DEF TypeOK
      <3> QED BY <1>1, <1>2, <2>3, <3>1 DEF ListedOnce, ListedCount
    <2>11. EndCount'
      BY <1>0, <1>2, <1>4, <2>3, <2>7 DEF EndCount
    <2> QED BY <2>5, <2>8, <2>9, <2>10, <2>11 DEF IInv
  <1> QED BY <1>0, <1>3, <1>4 DEF PostFails

LEMMA RequeueKeeps == ASSUME IInv, NEW w \in Workers, Requeue(w) PROVE IInv'
  <1>0. TypeOK /\ OnePlace /\ HeldOnce /\ HeldCount /\ ListedOnce /\ ListedCount /\ EndCount
        /\ queue \in Seq(Item) /\ hand[w] \in Hand /\ hand[w].sleeps
    BY DEF IInv, TypeOK, Hand, Requeue
  <1>1. PICK e \in Events : e = hand[w].event /\ e # None
    BY <1>0 DEF HeldCount, Hand
  <1> DEFINE x == [event |-> e, retries |-> hand[w].retries + 1]
  <1>2. /\ queue' = Append(queue, x) /\ Drop(w) /\ UNCHANGED <<open, posts, fate, mishaps>>
    BY <1>1 DEF Requeue
  <1>3. x \in Item /\ x.event = e /\ posts[x.event] = x.retries
    BY <1>0, <1>1, WebhookAssumption DEF HeldCount, Hand, Item
  <1>4. Held(e) /\ ~Listed(e)
    BY <1>0, <1>1 DEF Held, OnePlace
  <1>5. /\ queue' \in Seq(Item) /\ ListedOnce' /\ ListedCount'
        /\ \A d \in Events : Listed(d)' <=> Listed(d) \/ d = e
    BY <1>0, <1>2, <1>3, <1>4, Pushed
  <1>6. Empty \in Hand /\ Empty.event = None /\ ~Empty.sleeps
    BY WebhookAssumption DEF Empty, Hand
  <1>7. TypeOK' /\ \A v \in Workers : hand'[v] = IF v = w THEN Empty ELSE hand[v]
    BY <1>0, <1>2, <1>5, <1>6 DEF TypeOK, Drop, Hand
  <1>8. \A d \in Events : Held(d)' <=> Held(d) /\ d # e
    BY <1>0, <1>1, <1>6, <1>7, WebhookAssumption DEF Held, HeldOnce
  <1>9. OnePlace'
    BY <1>0, <1>2, <1>4, <1>5, <1>8 DEF OnePlace
  <1>10. HeldOnce' /\ HeldCount'
    BY <1>0, <1>2, <1>6, <1>7 DEF HeldOnce, HeldCount
  <1>11. EndCount'
    BY <1>0, <1>2 DEF EndCount
  <1> QED BY <1>5, <1>7, <1>9, <1>10, <1>11 DEF IInv

LEMMA RequeueFailsKeeps == ASSUME IInv, NEW w \in Workers, RequeueFails(w) PROVE IInv'
  <1>0. TypeOK /\ HeldCount /\ EndCount /\ hand[w] \in Hand /\ hand[w].sleeps
    BY DEF IInv, TypeOK, Hand, RequeueFails
  <1>1. PICK e \in Events : e = hand[w].event /\ e # None
    BY <1>0 DEF HeldCount, Hand
  <1>2. mishaps' \in 0..Mishaps
    BY <1>0, WebhookAssumption DEF RequeueFails, PushFails, Mishap, TypeOK
  <1>3. Ends(e, "lost") /\ Drop(w) /\ UNCHANGED <<queue, open, posts>> /\ "lost" \in Fates
        /\ posts \in [Events -> Nat] /\ posts[e] <= MaxRetries
    BY <1>0, <1>1 DEF RequeueFails, Fates, TypeOK, EndCount
  <1> QED BY <1>1, <1>2, <1>3, Ended

LEMMA StopKeeps == ASSUME IInv, Stop PROVE IInv'
  <1>1. mishaps' \in 0..Mishaps /\ open' = FALSE /\ UNCHANGED <<queue, hand, posts, fate>>
    BY WebhookAssumption DEF IInv, TypeOK, Stop, Mishap
  <1>2. TypeOK'
    BY <1>1 DEF IInv, TypeOK
  <1> QED
    BY <1>1, <1>2
    DEF IInv, ListedOnce, HeldOnce, OnePlace, ListedCount, HeldCount, EndCount, Listed, Held

LEMMA RestartKeeps == ASSUME IInv, Restart PROVE IInv'
  <1>1. /\ open' = TRUE /\ UNCHANGED <<queue, posts, mishaps>>
        /\ \A e \in Events : fate'[e] = IF Held(e) THEN "lost" ELSE fate[e]
        /\ hand' = [w \in Workers |-> Empty] /\ \A w \in Workers : hand'[w] = Empty
    BY DEF Restart, Held
  <1>2. Empty \in Hand /\ Empty.event = None /\ ~Empty.sleeps
    BY WebhookAssumption DEF Empty, Hand
  <1>3. fate' \in [Events -> Fates]
    BY DEF Restart, IInv, TypeOK, Fates
  <1>4. TypeOK'
    BY <1>1, <1>2, <1>3 DEF IInv, TypeOK, Hand
  <1>5. \A e \in Events : ~Held(e)' /\ (Listed(e)' <=> Listed(e))
    BY <1>1, <1>2, WebhookAssumption DEF Held, Listed
  <1>6. OnePlace'
    BY <1>1, <1>5 DEF IInv, OnePlace
  <1>7. ListedOnce' /\ HeldOnce' /\ ListedCount' /\ HeldCount' /\ EndCount'
    BY <1>1, <1>2 DEF IInv, ListedOnce, HeldOnce, ListedCount, HeldCount, EndCount
  <1> QED BY <1>4, <1>6, <1>7 DEF IInv

-----------------------------------------------------------------------------
LEMMA InitKeeps == Init => IInv
  <1> SUFFICES ASSUME Init PROVE IInv
    OBVIOUS
  <1>1. /\ Empty \in Hand /\ Empty.event = None /\ ~Empty.sleeps
        /\ \A w \in Workers : hand[w] = Empty
        /\ queue \in Seq(Item) /\ DOMAIN queue = {}
    BY WebhookAssumption, EmptySeq DEF Init, Empty, Hand
  <1>2. TypeOK
    BY <1>1, WebhookAssumption DEF Init, TypeOK, Hand, Fates
  <1>3. OnePlace
    BY <1>1, WebhookAssumption DEF Init, OnePlace, Listed, Held
  <1> QED
    BY <1>1, <1>2, <1>3, WebhookAssumption
    DEF Init, IInv, ListedOnce, HeldOnce, ListedCount, HeldCount, EndCount

LEMMA StepKeeps == IInv /\ [Next]_vars => IInv'
  <1> SUFFICES ASSUME IInv, [Next]_vars PROVE IInv'
    OBVIOUS
  <1>1. CASE UNCHANGED vars
    BY <1>1 DEF vars, IInv, TypeOK, ListedOnce, HeldOnce, OnePlace, ListedCount, HeldCount, EndCount,
                Listed, Held
  <1>2. ASSUME NEW w \in Workers, WorkerStep(w) PROVE IInv'
    BY <1>2, DequeueKeeps, RequestFailsKeeps, PostDeliveredKeeps, PostFailsKeeps, RequeueKeeps, RequeueFailsKeeps
    DEF WorkerStep
  <1> QED
    BY <1>1, <1>2, EmitKeeps, DequeueFailsKeeps, StopKeeps, RestartKeeps DEF Next

LEMMA Inductive == Spec => []IInv
  BY InitKeeps, StepKeeps, PTL DEF Spec

\* The list, the workers' hands and the fates keep their types; no event is on the
\* list with MaxRetries failed posts (queue.go, worker.go).
THEOREM TypeCorrect == Spec => []TypeOK
  <1>1. IInv => TypeOK
    BY DEF IInv
  <1> QED BY <1>1, Inductive, PTL

\* Any number of workers, stops and lost pushes leave an event that is due in one
\* place, with its count of posts, and give it up after MaxRetries of them
\* (queue.go:67-111, worker.go:164-203).
THEOREM EventsAreAccounted == Spec => []Accounted
  <1>1. IInv => Accounted
    BY DEF IInv, Accounted, ListedOnce, HeldOnce, OnePlace, EndCount
  <1> QED BY <1>1, Inductive, PTL

-----------------------------------------------------------------------------
\* What is on the list or in a hand is due.
LEMMA PlacedIsDue ==
  ASSUME IInv
  PROVE  /\ \A i \in DOMAIN queue : queue[i].event \in Events /\ fate[queue[i].event] = "due"
         /\ \A w \in Workers : hand[w].event # None =>
                hand[w].event \in Events /\ fate[hand[w].event] = "due"
  <1>0. queue \in Seq(Item)
    BY DEF IInv, TypeOK
  <1>1. \A i \in DOMAIN queue : queue[i].event \in Events /\ Listed(queue[i].event)
    <2>1. \A i \in DOMAIN queue : queue[i] \in Item
      BY <1>0
    <2> QED BY <2>1 DEF Item, Listed
  <1>2. \A w \in Workers : hand[w].event # None => hand[w].event \in Events /\ Held(hand[w].event)
    BY DEF IInv, TypeOK, Hand, Held
  <1> QED BY <1>1, <1>2 DEF IInv, OnePlace

\* An event that has been delivered, given up or lost is never posted again and comes
\* to no other end: what a worker posts, pushes again or loses is in its hand, the
\* list holds no second copy, and both are of events still due (queue.go:67-111,
\* worker.go:69-98).
THEOREM EndsAreFinal == Spec => EndIsFinal
  <1>1. IInv /\ [Next]_vars =>
            [\A e \in Events : fate[e] \notin {"none", "due"} =>
                 fate'[e] = fate[e] /\ posts'[e] = posts[e]]_vars
    <2> SUFFICES ASSUME IInv, Next, NEW e \in Events, fate[e] \notin {"none", "due"}
                 PROVE  fate'[e] = fate[e] /\ posts'[e] = posts[e]
      BY DEF vars
    <2>0. /\ fate \in [Events -> Fates] /\ posts \in [Events -> Nat] /\ queue \in Seq(Item)
          /\ \A w \in Workers : hand[w].event # e
          /\ queue # <<>> => Head(queue).event # e
      <3>1. queue # <<>> => 1 \in DOMAIN queue /\ Head(queue) = queue[1]
        BY DEF IInv, TypeOK
      <3>2. \A w \in Workers : hand[w].event # e
        BY PlacedIsDue, WebhookAssumption
      <3> QED BY <3>1, <3>2, PlacedIsDue DEF IInv, TypeOK
    <2>1. ASSUME NEW d \in Events, Emit(d) PROVE fate'[e] = fate[e] /\ posts'[e] = posts[e]
      BY <2>0, <2>1 DEF Emit, Ends
    <2>2. ASSUME NEW w \in Workers, WorkerStep(w) PROVE fate'[e] = fate[e] /\ posts'[e] = posts[e]
      <3>1. CASE PostFails(w)
        BY <2>0, <3>1 DEF PostFails, Ends
      <3>2. CASE Dequeue(w) \/ PostDelivered(w) \/ Requeue(w) \/ RequeueFails(w)
        BY <2>0, <3>2 DEF Dequeue, PostDelivered, Requeue, RequeueFails, Ends
      <3>3. CASE RequestFails(w)
        BY <2>0, <3>3 DEF RequestFails, Ends
      <3> QED BY <2>2, <3>1, <3>2, <3>3 DEF WorkerStep
    <2>3. CASE DequeueFails
      BY <2>0, <2>3 DEF DequeueFails, Ends
    <2>4. CASE Stop
      BY <2>4 DEF Stop
    <2>5. CASE Restart
      BY <2>0, <2>5 DEF Restart, Held
    <2> QED BY <2>1, <2>2, <2>3, <2>4, <2>5 DEF Next
  <1> QED BY <1>1, Inductive, PTL DEF Spec, EndIsFinal
==============================================================================
