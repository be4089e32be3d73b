----------------------- MODULE RequestDispatch_proofs -----------------------
(***************************************************************************)
(* Proofs about requests and event subscriptions, for any clients, message *)
(* ids (each client's own or not), methods, minima and counters.           *)
(*                                                                         *)
(* The inductive invariant ties each entry of the event queue to the       *)
(* request it was made from.  The counter of an entry that asks for every  *)
(* event has counted them all since; that of any other entry is 1 and is   *)
(* never due.  A request has therefore at most one response for each event *)
(* if it asks for every event, and at most one in all if it does not.      *)
(***************************************************************************)
EXTENDS RequestDispatch, TLAPS

(* The events that have run a request with this counter again, at most. *)
Served(r, m) == IF requests[r].mSubscriptionEventCounter = 1 THEN Since(r, m) ELSE 0

(* The request r asks for every event of m and found its id free. *)
Sole(r, m) ==
  /\ requests[r].idWasFree
  /\ requests[r].methods = {m}
  /\ requests[r].mSubscriptionEventCounter = 1
  /\ m \in Executed({m}, 1, requests[r].mSubscriptionPeriod)

SinceEarlier == \A r \in Made : \A m \in Method : requests[r].since[m] <= events[m]

(* The entry s of the message id i, and the request it was made from. *)
FromRequest(s, i) ==
  /\ <<s.client, i>> \in Made
  /\ s.method \in requests[<<s.client, i>>].methods
  /\ s.mSubscriptionEventCounter = requests[<<s.client, i>>].mSubscriptionEventCounter
  /\ s.mEventCounter = 1 + Served(<<s.client, i>>, s.method)

(* Each entry of the queue was made by a request of its client. *)
QueuedAreRequested ==
  \A i \in MessageID :
    mMessageRequestEventQueue[i] # None => FromRequest(mMessageRequestEventQueue[i], i)

(* Nothing is answered that was not asked. *)
UnmadeUnanswered ==
  \A r \in (Client \X MessageID) \ Made : \A m \in Method : responses[<<r[1], r[2], m>>] = 0

(* One response at once, and one for each event that has run the entry. *)
AnswersCounted ==
  \A r \in Made : \A m \in Method :
    responses[<<r[1], r[2], m>>] <= IF m \in requests[r].methods THEN 1 + Served(r, m) ELSE 0

(* Such a request has its entry in the queue, and all its responses. *)
SoleIsQueued ==
  \A r \in Made : \A m \in Method :
    Sole(r, m) => /\ mMessageRequestEventQueue[r[2]] # None
                  /\ mMessageRequestEventQueue[r[2]].client = r[1]
                  /\ mMessageRequestEventQueue[r[2]].method = m
                  /\ r[1] \in mConnections => responses[<<r[1], r[2], m>>] = 1 + Since(r, m)

(* The inductive invariant. *)
IInv ==
  /\ TypeOK
  /\ SinceEarlier
  /\ QueuedAreRequested
  /\ UnmadeUnanswered
  /\ AnswersCounted
  /\ SoleIsQueued

-----------------------------------------------------------------------------

(***************************************************************************)
(* What the counters need of division: 1 divides everything, nothing else  *)
(* divides 1, and a quotient is not negative.                              *)
(***************************************************************************)
LEMMA Division ==
  /\ \A x \in Nat : x % 1 = 0 /\ x \div 1 = x
  /\ \A c \in Nat : c >= 2 => 1 % c # 0
  /\ \A x, c \in Nat : c >= 1 => x \div c \in Nat
OBVIOUS

(***************************************************************************)
(* Requests are pairs of a client and a message id.                        *)
(***************************************************************************)
LEMMA Pairs ==
  /\ \A r \in Client \X MessageID : r[1] \in Client /\ r[2] \in MessageID /\ r = <<r[1], r[2]>>
  /\ \A c \in Client, i \in MessageID : /\ <<c, i>> \in Client \X MessageID
                                     /\ <<c, i>>[1] = c /\ <<c, i>>[2] = i
OBVIOUS

(***************************************************************************)
(* What is in the queue is a subscription, and what was made is a request. *)
(***************************************************************************)
LEMMA Kinds ==
  ASSUME TypeOK
  PROVE  /\ \A i \in MessageID : mMessageRequestEventQueue[i] # None =>
                                mMessageRequestEventQueue[i] \in Subscription
         /\ \A r \in Made : r \in Client \X MessageID /\ requests[r] \in Request
BY DEF TypeOK, Made

(* The types of the fields of a subscription. *)
LEMMA SubscriptionFields ==
  ASSUME NEW s \in Subscription
  PROVE  /\ s.client \in Client
         /\ s.method \in Method
         /\ s.mSubscriptionEventCounter \in Nat \ {0}
         /\ s.mEventCounter \in Nat \ {0}
<1>1. /\ s.client \in Client
      /\ s.method \in Method
      /\ s.mSubscriptionEventCounter \in Counters \ {0}
      /\ s.mEventCounter \in 1 .. MaxEvents + 1
  BY DEF Subscription
<1>2. 1 .. MaxEvents + 1 \subseteq Nat \ {0}
  BY DispatchConstants
<1>3. Counters \ {0} \subseteq Nat \ {0}
  BY DispatchConstants
<1> QED
  BY <1>1, <1>2, <1>3

(***************************************************************************)
(* The number of events since a request was made.                          *)
(***************************************************************************)
LEMMA SinceIsNat ==
  ASSUME TypeOK, SinceEarlier, NEW r \in Made, NEW m \in Method
  PROVE  Since(r, m) \in Nat /\ Since(r, m) <= events[m] /\ Served(r, m) \in Nat
<1>1. requests[r].since[m] \in Nat /\ requests[r].since[m] <= events[m] /\ events[m] \in Nat
  BY Kinds, DispatchConstants DEF TypeOK, SinceEarlier, Request
<1> QED
  BY <1>1 DEF Since, Served

(***************************************************************************)
(* Only subscriptions to every event are ever due, and they always are.    *)
(***************************************************************************)
LEMMA DueAsksForEvery ==
  ASSUME IInv, NEW i \in MessageID, mMessageRequestEventQueue[i] # None
  PROVE  LET s == mMessageRequestEventQueue[i]
         IN  Due(s) <=> requests[<<s.client, i>>].mSubscriptionEventCounter = 1
<1> DEFINE s == mMessageRequestEventQueue[i]
           r == <<s.client, i>>
<1>1. s \in Subscription /\ FromRequest(s, i)
  BY Kinds DEF IInv, QueuedAreRequested
<1>2. s.mSubscriptionEventCounter \in Nat \ {0} /\ s.mEventCounter \in Nat
  BY <1>1, SubscriptionFields
<1>3. s.mSubscriptionEventCounter = requests[r].mSubscriptionEventCounter
  BY <1>1 DEF FromRequest
<1>4. CASE s.mSubscriptionEventCounter = 1
  <2>1. s.mEventCounter % 1 = 0
    BY <1>2, Division
  <2>2. Due(s)
    BY <1>4, <2>1, Zenon DEF Due
  <2> QED
    BY <1>3, <1>4, <2>2
<1>5. CASE s.mSubscriptionEventCounter # 1
  <2>1. s.mEventCounter = 1
    BY <1>1, <1>3, <1>5 DEF FromRequest, Served
  <2> QED
    BY <1>2, <1>3, <1>5, <2>1, Division DEF Due
<1> QED
  BY <1>4, <1>5

(***************************************************************************)
(* The initial state satisfies the invariant: nothing was requested.       *)
(***************************************************************************)
LEMMA InitIInv == Init => IInv
<1> SUFFICES ASSUME Init
             PROVE  IInv
  OBVIOUS
<1>1. TypeOK
  BY DispatchConstants DEF Init, TypeOK
<1>2. Made = {}
  BY DEF Init, Made
<1>3. UnmadeUnanswered
  BY Pairs DEF Init, UnmadeUnanswered
<1>4. QueuedAreRequested
  BY DEF Init, QueuedAreRequested
<1> QED
  BY <1>1, <1>2, <1>3, <1>4 DEF IInv, SinceEarlier, AnswersCounted, SoleIsQueued

-----------------------------------------------------------------------------

(***************************************************************************)
(* A request, once made, stays what it is, and its client's entry in the   *)
(* queue too; what a request step adds is about the new request only.      *)
(***************************************************************************)
LEMMA RequestKeepsIInv ==
  ASSUME IInv, NEW c \in Client, NEW i \in MessageID, NEW methods \in MethodSets,
         NEW counter \in Counters, NEW period \in Periods,
         fProcessRequest(c, i, methods, counter, period)
  PROVE  IInv'
<1> DEFINE new == <<c, i>>
           executed == Executed(methods, counter, period)
           answered == methods \ (executed \cap Deferred)
           request == [methods |-> methods, mSubscriptionEventCounter |-> counter,
                       mSubscriptionPeriod |-> period, since |-> events,
                       idWasFree |-> mMessageRequestEventQueue[i] = None]
           entry(m) == [client |-> c, method |-> m, mSubscriptionEventCounter |-> counter,
                        mEventCounter |-> 1]
           queues == counter > 0 /\ mMessageRequestEventQueue[i] = None /\ executed # {}
<1>1. /\ requests' = [requests EXCEPT ![new] = request]
      /\ new \notin Made
      /\ responses' = [a \in DOMAIN responses |->
                         IF a[1] = c /\ a[2] = i /\ a[3] \in answered
                         THEN responses[a] + 1 ELSE responses[a]]
      /\ UNCHANGED <<mConnections, events, unsubscribed>>
  BY DEF fProcessRequest, Made
<1>2. /\ TypeOK /\ counter \in Nat /\ period \in Nat
      /\ executed \subseteq methods /\ methods \subseteq Method
      /\ new \in Client \X MessageID
      /\ \A m \in Method : events[m] \in Nat
  BY DispatchConstants DEF IInv, Executed, TypeOK
<1>3. request \in Request /\ request # None
  <2>1. request \in Request
    BY <1>2 DEF Request, TypeOK
  <2> QED
    BY <2>1, NoneIsNothing
<1>4. /\ Made' = Made \cup {new}
      /\ requests'[new] = request
      /\ \A r \in Made : requests'[r] = requests[r]
  BY <1>1, <1>2, <1>3 DEF Made, TypeOK
<1>5. \A r \in Client \X MessageID : \A m \in Method :
        responses'[<<r[1], r[2], m>>] =
          IF r = new /\ m \in answered THEN 1 ELSE responses[<<r[1], r[2], m>>]
  <2> SUFFICES ASSUME NEW r \in Client \X MessageID, NEW m \in Method
               PROVE  responses'[<<r[1], r[2], m>>] =
                        IF r = new /\ m \in answered THEN 1 ELSE responses[<<r[1], r[2], m>>]
    OBVIOUS
  <2>1. <<r[1], r[2], m>> \in DOMAIN responses
    BY <1>2, Pairs DEF TypeOK
  <2>2. r = new <=> r[1] = c /\ r[2] = i
    BY Pairs
  <2>3. r = new => responses[<<r[1], r[2], m>>] = 0
    BY <1>1, <1>2 DEF IInv, UnmadeUnanswered
  <2> QED
    BY <1>1, <2>1, <2>2, <2>3
<1>6. \/ ~queues /\ UNCHANGED mMessageRequestEventQueue
      \/ /\ queues
         /\ \E m \in executed :
              mMessageRequestEventQueue' = [mMessageRequestEventQueue EXCEPT ![i] = entry(m)]
  BY DEF fProcessRequest, Queued
<1>7. queues => \A m \in executed : entry(m) \in Subscription /\ entry(m) # None
  <2> SUFFICES ASSUME queues, NEW m \in executed
               PROVE  entry(m) \in Subscription /\ entry(m) # None
    OBVIOUS
  <2>1. entry(m) \in Subscription
    BY <1>2, DispatchConstants DEF Subscription
  <2> QED
    BY <2>1, NoneIsNothing
<1>8. /\ request.methods = methods
      /\ request.mSubscriptionEventCounter = counter
      /\ request.mSubscriptionPeriod = period
      /\ request.since = events
      /\ request.idWasFree = (mMessageRequestEventQueue[i] = None)
  OBVIOUS
<1>9. \A m : /\ entry(m).client = c /\ entry(m).method = m
             /\ entry(m).mSubscriptionEventCounter = counter
             /\ entry(m).mEventCounter = 1
  OBVIOUS
<1>10. executed \subseteq methods /\ answered \subseteq methods
  BY <1>2
<1>11. new \in Client \X MessageID /\ new[1] = c /\ new[2] = i
  OBVIOUS
<1>12. TypeOK'
  <2>1. requests' \in [Client \X MessageID -> Request \cup {None}]
    BY <1>1, <1>2, <1>3 DEF TypeOK
  <2>2. responses' \in [Client \X MessageID \X Method -> Nat]
    BY <1>1, <1>2 DEF TypeOK
  <2>3. mMessageRequestEventQueue' \in [MessageID -> Subscription \cup {None}]
    BY <1>2, <1>6, <1>7 DEF TypeOK
  <2> QED
    BY <1>1, <1>2, <2>1, <2>2, <2>3 DEF TypeOK
<1> HIDE DEF new, executed, answered, request, entry, queues
<1>13. \A r \in Made : /\ r \in Client \X MessageID /\ r # new
                      /\ \A m \in Method : Since(r, m)' = Since(r, m) /\ Served(r, m)' = Served(r, m)
  BY <1>1, <1>2, <1>4, Kinds DEF Since, Served
<1>14. \A m \in Method : Since(new, m)' = 0 /\ Served(new, m)' = 0
  BY <1>1, <1>2, <1>4, <1>8 DEF Since, Served
<1>15. SinceEarlier'
  BY <1>1, <1>2, <1>4, <1>8 DEF IInv, SinceEarlier
<1>16. QueuedAreRequested'
  <2> SUFFICES ASSUME NEW j \in MessageID, mMessageRequestEventQueue'[j] # None
               PROVE  FromRequest(mMessageRequestEventQueue[j], j)'
    BY DEF QueuedAreRequested
  <2>1. CASE mMessageRequestEventQueue'[j] = mMessageRequestEventQueue[j]
    <3> DEFINE s == mMessageRequestEventQueue[j]
    <3>1. FromRequest(s, j) /\ s.method \in Method
      BY <1>2, <2>1, Kinds, SubscriptionFields DEF IInv, QueuedAreRequested
    <3>2. <<s.client, j>> \in Made
      BY <3>1 DEF FromRequest
    <3> QED
      BY <1>4, <1>13, <2>1, <3>1, <3>2 DEF FromRequest
  <2>2. CASE mMessageRequestEventQueue'[j] # mMessageRequestEventQueue[j]
    <3>1. j = i /\ \E m \in executed : mMessageRequestEventQueue'[j] = entry(m)
      BY <1>2, <1>6, <2>2 DEF TypeOK
    <3>2. PICK m \in executed : mMessageRequestEventQueue'[j] = entry(m)
      BY <3>1
    <3>3. <<c, j>> = new
      BY <3>1 DEF new
    <3> QED
      BY <1>2, <1>4, <1>8, <1>9, <1>10, <1>14, <3>2, <3>3 DEF FromRequest
  <2> QED
    BY <2>1, <2>2
<1>17. UnmadeUnanswered'
  BY <1>4, <1>5 DEF IInv, UnmadeUnanswered
<1>18. AnswersCounted'
  <2> SUFFICES ASSUME NEW r \in Made', NEW m \in Method
               PROVE  responses'[<<r[1], r[2], m>>] <=
                        IF m \in requests'[r].methods THEN 1 + Served(r, m)' ELSE 0
    BY DEF AnswersCounted
  <2>1. CASE r = new
    <3>1. responses'[<<r[1], r[2], m>>] = IF m \in answered THEN 1 ELSE 0
      BY <1>1, <1>2, <1>5, <1>11, <2>1 DEF IInv, UnmadeUnanswered
    <3> QED
      BY <1>4, <1>8, <1>10, <1>14, <2>1, <3>1
  <2>2. CASE r # new
    BY <1>4, <1>5, <1>13, <2>2 DEF IInv, AnswersCounted
  <2> QED
    BY <2>1, <2>2
<1>19. SoleIsQueued'
  <2> SUFFICES ASSUME NEW r \in Made', NEW m \in Method, Sole(r, m)'
               PROVE  /\ mMessageRequestEventQueue'[r[2]] # None
                      /\ mMessageRequestEventQueue'[r[2]].client = r[1]
                      /\ mMessageRequestEventQueue'[r[2]].method = m
                      /\ r[1] \in mConnections' =>
                           responses'[<<r[1], r[2], m>>] = 1 + Since(r, m)'
    BY DEF SoleIsQueued
  <2>1. CASE r = new
    <3>1. methods = {m} /\ counter = 1 /\ executed = {m}
      BY <1>4, <1>8, <2>1 DEF Sole, Executed, executed
    <3>2. mMessageRequestEventQueue[i] = None
      BY <1>4, <1>8, <2>1 DEF Sole
    <3>3. mMessageRequestEventQueue'[i] = entry(m)
      BY <1>2, <1>6, <3>1, <3>2 DEF queues, TypeOK
    <3>4. m \in answered
      <4>1. m \notin Deferred
        BY <3>1, DeferredTakeNoSubscription
           DEF Executed, fValidEventCounter, Permitted, executed
      <4> QED
        BY <3>1, <4>1 DEF answered
    <3> QED
      BY <1>5, <1>7, <1>9, <1>11, <1>14, <2>1, <3>1, <3>2, <3>3, <3>4 DEF queues
  <2>2. CASE r # new
    <3>1. r \in Made /\ Sole(r, m)
      BY <1>4, <2>2 DEF Sole
    <3>2. mMessageRequestEventQueue[r[2]] # None
      BY <3>1 DEF IInv, SoleIsQueued
    <3>3. mMessageRequestEventQueue'[r[2]] = mMessageRequestEventQueue[r[2]]
      BY <1>2, <1>6, <1>13, <3>1, <3>2, Pairs DEF queues, TypeOK
    <3>4. responses'[<<r[1], r[2], m>>] = responses[<<r[1], r[2], m>>]
      BY <1>5, <1>13, <2>2, <3>1
    <3>5. Since(r, m)' = Since(r, m) /\ mConnections' = mConnections
      BY <1>1, <1>13, <3>1
    <3> HIDE DEF Sole
    <3> QED
      BY <3>1, <3>3, <3>4, <3>5 DEF IInv, SoleIsQueued
  <2> QED
    BY <2>1, <2>2
<1> QED
  BY <1>12, <1>15, <1>16, <1>17, <1>18, <1>19 DEF IInv

(***************************************************************************)
(* Counting an event changes the counter of a subscription and no more.    *)
(***************************************************************************)
LEMMA CountingKeepsKind ==
  ASSUME NEW s \in Subscription, s.mEventCounter <= MaxEvents
  PROVE  LET t == [s EXCEPT !.mEventCounter = @ + 1]
         IN  /\ t \in Subscription
             /\ t # None
             /\ t.client = s.client /\ t.method = s.method
             /\ t.mSubscriptionEventCounter = s.mSubscriptionEventCounter
             /\ t.mEventCounter = s.mEventCounter + 1
<1> DEFINE t == [s EXCEPT !.mEventCounter = @ + 1]
<1>1. s.mEventCounter + 1 \in 1 .. MaxEvents + 1
  BY SubscriptionFields, DispatchConstants
<1>2. t \in Subscription
  BY <1>1 DEF Subscription
<1>3. t # None
  BY <1>2, NoneIsNothing
<1> QED
  BY <1>2, <1>3 DEF Subscription

(***************************************************************************)
(* An event runs again, once each, the requests that ask for every event   *)
(* of the method, which is one event more for them.                        *)
(***************************************************************************)
LEMMA EventKeepsIInv ==
  ASSUME IInv, NEW e \in EventMethod, sEventTriggered(e)
  PROVE  IInv'
<1> DEFINE sub(i) == mMessageRequestEventQueue[i]
           due == {i \in MessageID : sub(i) # None /\ sub(i).method = e /\ Due(sub(i))}
<1>1. /\ events[e] < MaxEvents
      /\ events' = [events EXCEPT ![e] = @ + 1]
      /\ mMessageRequestEventQueue' =
           [i \in MessageID |->
              IF i \in due THEN [sub(i) EXCEPT !.mEventCounter = @ + 1] ELSE sub(i)]
      /\ responses' =
           [a \in DOMAIN responses |->
              IF a[1] \in mConnections /\ a[2] \in due /\ a[3] = e /\ sub(a[2]).client = a[1]
              THEN responses[a] + 1 ELSE responses[a]]
      /\ UNCHANGED <<mConnections, requests, unsubscribed>>
  BY DEF sEventTriggered
<1>2. TypeOK /\ e \in Method /\ MaxEvents \in Nat
  BY DispatchConstants DEF IInv
<1>3. /\ events \in [Method -> 0 .. MaxEvents]
      /\ events' \in [Method -> 0 .. MaxEvents]
      /\ events'[e] = events[e] + 1
      /\ \A m \in Method \ {e} : events'[m] = events[m]
  BY <1>1, <1>2 DEF TypeOK
<1>4. Made' = Made
  BY <1>1 DEF Made
<1>5. \A r \in Made : \A m \in Method :
        /\ Since(r, m)' = IF m = e THEN Since(r, m) + 1 ELSE Since(r, m)
        /\ Served(r, m)' = IF m = e /\ requests[r].mSubscriptionEventCounter = 1
                           THEN Served(r, m) + 1 ELSE Served(r, m)
  <2> SUFFICES ASSUME NEW r \in Made, NEW m \in Method
               PROVE  /\ Since(r, m)' = IF m = e THEN Since(r, m) + 1 ELSE Since(r, m)
                      /\ Served(r, m)' = IF m = e /\ requests[r].mSubscriptionEventCounter = 1
                                         THEN Served(r, m) + 1 ELSE Served(r, m)
    OBVIOUS
  <2>1. requests[r].since[m] \in Nat /\ events[m] \in Nat
    BY <1>2, <1>3, Kinds, DispatchConstants DEF Request
  <2>2. requests' = requests
    BY <1>1
  <2>3. Since(r, m)' = IF m = e THEN Since(r, m) + 1 ELSE Since(r, m)
    BY <1>2, <1>3, <2>1, <2>2 DEF Since
  <2> QED
    BY <2>2, <2>3 DEF Served
<1>6. \A i \in MessageID : sub(i) # None =>
        /\ FromRequest(sub(i), i) /\ sub(i) \in Subscription
        /\ sub(i).client \in Client /\ sub(i).method \in Method
        /\ sub(i).mEventCounter \in Nat
        /\ i \in due <=> /\ sub(i).method = e
                         /\ requests[<<sub(i).client, i>>].mSubscriptionEventCounter = 1
  BY <1>2, Kinds, SubscriptionFields, DueAsksForEvery DEF IInv, QueuedAreRequested
<1>7. \A i \in MessageID :
        /\ i \notin due => mMessageRequestEventQueue'[i] = sub(i)
        /\ i \in due => /\ sub(i) # None
                        /\ mMessageRequestEventQueue'[i] = [sub(i) EXCEPT !.mEventCounter = @ + 1]
  BY <1>1
<1> HIDE DEF sub, due
<1>8. \A i \in due :
        /\ mMessageRequestEventQueue'[i] \in Subscription
        /\ mMessageRequestEventQueue'[i] # None
        /\ mMessageRequestEventQueue'[i].client = sub(i).client
        /\ mMessageRequestEventQueue'[i].method = sub(i).method
        /\ mMessageRequestEventQueue'[i].mSubscriptionEventCounter = sub(i).mSubscriptionEventCounter
        /\ mMessageRequestEventQueue'[i].mEventCounter = sub(i).mEventCounter + 1
  <2> TAKE i \in due
  <2> DEFINE s == sub(i)
             r == <<s.client, i>>
  <2>1. i \in MessageID
    BY DEF due
  <2>2. /\ FromRequest(s, i) /\ s \in Subscription /\ s.method = e
        /\ requests[r].mSubscriptionEventCounter = 1
        /\ mMessageRequestEventQueue'[i] = [s EXCEPT !.mEventCounter = @ + 1]
    BY <1>6, <1>7, <2>1
  <2>3. r \in Made /\ s.mEventCounter = 1 + Since(r, e)
    BY <2>2 DEF FromRequest, Served
  <2>4. Since(r, e) <= events[e] /\ Since(r, e) \in Nat /\ events[e] \in Nat
    BY <1>2, <1>3, <2>3, SinceIsNat DEF IInv
  <2>5. s.mEventCounter <= MaxEvents
    BY <1>1, <1>2, <2>3, <2>4
  <2> QED
    BY <2>2, <2>5, CountingKeepsKind
<1>9. TypeOK'
  <2>1. mMessageRequestEventQueue' \in [MessageID -> Subscription \cup {None}]
    <3>1. mMessageRequestEventQueue' = [i \in MessageID |-> mMessageRequestEventQueue'[i]]
      BY <1>1
    <3>2. \A i \in MessageID : mMessageRequestEventQueue'[i] \in Subscription \cup {None}
      BY <1>2, <1>7, <1>8 DEF TypeOK, sub
    <3> QED
      BY <3>1, <3>2
  <2>2. responses' \in [Client \X MessageID \X Method -> Nat]
    BY <1>1, <1>2 DEF TypeOK
  <2> QED
    BY <1>1, <1>2, <1>3, <2>1, <2>2 DEF TypeOK
<1>10. SinceEarlier'
  <2> SUFFICES ASSUME NEW r \in Made, NEW m \in Method
               PROVE  requests[r].since[m] <= events'[m]
    BY <1>1, <1>4 DEF SinceEarlier
  <2>1. requests[r].since[m] \in Nat /\ requests[r].since[m] <= events[m]
    BY <1>2, Kinds, DispatchConstants DEF IInv, SinceEarlier, Request
  <2> QED
    BY <1>3, <2>1
<1>11. QueuedAreRequested'
  <2> SUFFICES ASSUME NEW i \in MessageID, mMessageRequestEventQueue'[i] # None
               PROVE  FromRequest(mMessageRequestEventQueue[i], i)'
    BY DEF QueuedAreRequested
  <2>1. PICK s : s = sub(i) /\ s # None
    BY <1>7
  <2> DEFINE r == <<s.client, i>>
  <2>2. FromRequest(s, i) /\ s.method \in Method /\ s.client \in Client
    BY <1>6, <2>1
  <2>3. r \in Made
    BY <2>2 DEF FromRequest
  <2>4. Served(r, s.method) \in Nat
    BY <1>2, <2>2, <2>3, SinceIsNat DEF IInv
  <2>5. CASE i \in due
    <3>1. Served(r, s.method)' = Served(r, s.method) + 1
      BY <1>5, <1>6, <2>1, <2>2, <2>3, <2>5
    <3> PICK t : t = mMessageRequestEventQueue'[i]
      OBVIOUS
    <3>2. /\ t.client = s.client /\ t.method = s.method
          /\ t.mSubscriptionEventCounter = s.mSubscriptionEventCounter
          /\ t.mEventCounter = s.mEventCounter + 1
      BY <1>8, <2>1, <2>5
    <3>3. s.mEventCounter = 1 + Served(r, s.method)
      BY <2>2 DEF FromRequest
    <3>4. FromRequest(t, i)'
      BY <1>1, <1>4, <2>2, <2>3, <2>4, <3>1, <3>2, <3>3 DEF FromRequest
    <3> QED
      BY <3>4 DEF FromRequest
  <2>6. CASE i \notin due
    <3>1. Served(r, s.method)' = Served(r, s.method)
      BY <1>5, <1>6, <2>1, <2>2, <2>3, <2>6
    <3>2. FromRequest(s, i)'
      BY <1>1, <1>4, <2>2, <2>3, <3>1 DEF FromRequest
    <3> QED
      BY <1>7, <2>1, <2>6, <3>2 DEF FromRequest
  <2> QED
    BY <2>5, <2>6
<1>12. \A r \in Client \X MessageID : \A m \in Method :
         responses'[<<r[1], r[2], m>>] =
           IF r[1] \in mConnections /\ r[2] \in due /\ m = e /\ sub(r[2]).client = r[1]
           THEN responses[<<r[1], r[2], m>>] + 1 ELSE responses[<<r[1], r[2], m>>]
  BY <1>1, <1>2 DEF TypeOK
<1>13. \A r \in Client \X MessageID : r[2] \in due /\ sub(r[2]).client = r[1] =>
         r \in Made /\ e \in requests[r].methods /\ requests[r].mSubscriptionEventCounter = 1
  <2> SUFFICES ASSUME NEW r \in Client \X MessageID, r[2] \in due, sub(r[2]).client = r[1]
               PROVE  r \in Made /\ e \in requests[r].methods /\ requests[r].mSubscriptionEventCounter = 1
    OBVIOUS
  <2>1. r = <<sub(r[2]).client, r[2]>> /\ r[2] \in MessageID
    BY Pairs
  <2>2. FromRequest(sub(r[2]), r[2]) /\ sub(r[2]).method = e /\ requests[r].mSubscriptionEventCounter = 1
    BY <1>6, <1>7, <2>1
  <2> QED
    BY <2>1, <2>2 DEF FromRequest
<1>14. UnmadeUnanswered'
  BY <1>4, <1>12, <1>13 DEF IInv, UnmadeUnanswered
<1>15. AnswersCounted'
  <2> SUFFICES ASSUME NEW r \in Made, NEW m \in Method
               PROVE  responses'[<<r[1], r[2], m>>] <=
                        IF m \in requests[r].methods THEN 1 + Served(r, m)' ELSE 0
    BY <1>1, <1>4 DEF AnswersCounted
  <2>1. r \in Client \X MessageID /\ Served(r, m) \in Nat
    BY <1>2, Kinds, SinceIsNat DEF IInv
  <2>2. responses[<<r[1], r[2], m>>] \in Nat
    BY <1>2, <2>1 DEF TypeOK
  <2>3. responses[<<r[1], r[2], m>>] <= IF m \in requests[r].methods THEN 1 + Served(r, m) ELSE 0
    BY DEF IInv, AnswersCounted
  <2>4. Served(r, m)' \in Nat /\ Served(r, m)' >= Served(r, m)
    BY <1>5, <2>1
  <2> DEFINE answered == r[1] \in mConnections /\ r[2] \in due /\ m = e /\ sub(r[2]).client = r[1]
  <2>5. CASE answered
    <3>1. responses'[<<r[1], r[2], m>>] = responses[<<r[1], r[2], m>>] + 1
      BY <1>12, <2>1, <2>5
    <3>2. m \in requests[r].methods /\ Served(r, m)' = Served(r, m) + 1
      BY <1>5, <1>13, <2>1, <2>5
    <3> QED
      BY <2>1, <2>2, <2>3, <3>1, <3>2
  <2>6. CASE ~answered
    <3>1. responses'[<<r[1], r[2], m>>] = responses[<<r[1], r[2], m>>]
      BY <1>12, <2>1, <2>6
    <3>2. CASE m \in requests[r].methods
      BY <2>1, <2>2, <2>3, <2>4, <3>1, <3>2
    <3>3. CASE m \notin requests[r].methods
      BY <2>3, <3>1, <3>3
    <3> QED
      BY <3>2, <3>3
  <2> QED
    BY <2>5, <2>6
<1>16. SoleIsQueued'
  <2>0. \A r \in Made : \A m \in Method : Sole(r, m)' <=> Sole(r, m)
    BY <1>1, <1>4 DEF Sole
  <2>10. mConnections' = mConnections
    BY <1>1
  <2> SUFFICES ASSUME NEW r \in Made, NEW m \in Method, Sole(r, m)
               PROVE  /\ mMessageRequestEventQueue'[r[2]] # None
                      /\ mMessageRequestEventQueue'[r[2]].client = r[1]
                      /\ mMessageRequestEventQueue'[r[2]].method = m
                      /\ r[1] \in mConnections => responses'[<<r[1], r[2], m>>] = 1 + Since(r, m)'
    BY <1>4, <2>0, <2>10 DEF SoleIsQueued
  <2>1. r \in Client \X MessageID /\ r[2] \in MessageID /\ r = <<r[1], r[2]>>
    BY <1>2, Kinds, Pairs
  <2>2. /\ sub(r[2]) # None /\ sub(r[2]).client = r[1] /\ sub(r[2]).method = m
        /\ r[1] \in mConnections => responses[<<r[1], r[2], m>>] = 1 + Since(r, m)
    BY DEF IInv, SoleIsQueued, sub
  <2>3. r[2] \in due <=> m = e
    BY <1>6, <2>1, <2>2 DEF Sole
  <2>4. Since(r, m) \in Nat
    BY <1>2, SinceIsNat DEF IInv
  <2>5. /\ mMessageRequestEventQueue'[r[2]] # None
        /\ mMessageRequestEventQueue'[r[2]].client = r[1]
        /\ mMessageRequestEventQueue'[r[2]].method = m
    BY <1>7, <1>8, <2>1, <2>2
  <2>6. r[1] \in mConnections => responses'[<<r[1], r[2], m>>] = 1 + Since(r, m)'
    BY <1>5, <1>12, <2>1, <2>2, <2>3, <2>4
  <2> QED
    BY <2>5, <2>6
<1> QED
  BY <1>9, <1>10, <1>11, <1>14, <1>15, <1>16 DEF IInv

(***************************************************************************)
(* Every step keeps the invariant.  Unsubscribing and disconnecting leave  *)
(* the queue, the requests and the counts as they are.                     *)
(***************************************************************************)
LEMMA NextIInv == IInv /\ [Next]_vars => IInv'
<1> SUFFICES ASSUME IInv, [Next]_vars
             PROVE  IInv'
  OBVIOUS
<1>1. ASSUME NEW c \in Client, NEW i \in MessageID, NEW methods \in MethodSets,
             NEW counter \in Counters, NEW period \in Periods,
             fProcessRequest(c, i, methods, counter, period)
      PROVE  IInv'
  BY <1>1, RequestKeepsIInv
<1>2. ASSUME NEW m \in EventMethod, sEventTriggered(m)
      PROVE  IInv'
  BY <1>2, EventKeepsIInv
<1>3. ASSUME mConnections' \subseteq mConnections,
             unsubscribed' \subseteq Client \X MessageID,
             UNCHANGED <<mMessageRequestEventQueue, requests, events, responses>>
      PROVE  IInv'
  <2>1. TypeOK'
    BY <1>3 DEF IInv, TypeOK
  <2>2. SinceEarlier' /\ UnmadeUnanswered'
    BY <1>3 DEF IInv, SinceEarlier, UnmadeUnanswered, Made
  <2>3. QueuedAreRequested' /\ AnswersCounted'
    BY <1>3 DEF IInv, QueuedAreRequested, FromRequest, AnswersCounted, Served, Since, Made
  <2>4. SoleIsQueued'
    BY <1>3 DEF IInv, SoleIsQueued, Sole, Since, Made
  <2> QED
    BY <2>1, <2>2, <2>3, <2>4 DEF IInv
<1>4. ASSUME NEW c \in Client, NEW i \in MessageID, Unsubscribe(c, i)
      PROVE  IInv'
  BY <1>3, <1>4 DEF Unsubscribe, IInv, TypeOK
<1>5. ASSUME NEW c \in Client, fSocketDisconnected(c)
      PROVE  IInv'
  BY <1>3, <1>5 DEF fSocketDisconnected, IInv, TypeOK
<1>6. CASE UNCHANGED vars
  BY <1>3, <1>6 DEF vars, IInv, TypeOK
<1> QED
  BY <1>1, <1>2, <1>4, <1>5, <1>6 DEF Next

-----------------------------------------------------------------------------

(***************************************************************************)
(* The inductive invariant holds in every reachable state.                 *)
(***************************************************************************)
THEOREM Invariance == Spec => []IInv
<1>1. Init => IInv
  BY InitIInv
<1>2. IInv /\ [Next]_vars => IInv'
  BY NextIInv
<1> QED
  BY <1>1, <1>2, PTL DEF Spec

(***************************************************************************)
(* Every variable keeps its type; in particular no subscription with a     *)
(* counter of 0, by which the event counter would be divided, is queued.   *)
(***************************************************************************)
THEOREM TypeCorrect == Spec => []TypeOK
<1>1. IInv => TypeOK
  BY DEF IInv
<1> QED
  BY <1>1, Invariance, PTL

(***************************************************************************)
(* No client gets more responses than a request for one method, not        *)
(* unsubscribed from, is good for, whatever ids the other clients use.     *)
(***************************************************************************)
THEOREM ServedNoMoreThanPromised == Spec => []NeverTooOften
<1>1. IInv => NeverTooOften
  <2> SUFFICES ASSUME IInv, NEW r \in Made \ unsubscribed, NEW m \in Method
               PROVE  responses[<<r[1], r[2], m>>] <=
                        IF m \in requests[r].methods THEN Promised(r, m) ELSE 0
    BY DEF NeverTooOften
  <2> DEFINE counter == requests[r].mSubscriptionEventCounter
  <2>1. counter \in Nat /\ r \in Client \X MessageID
    BY Kinds, DispatchConstants DEF IInv, Request
  <2>2. Since(r, m) \in Nat
    BY SinceIsNat DEF IInv
  <2>3. responses[<<r[1], r[2], m>>] \in Nat
    BY <2>1 DEF IInv, TypeOK
  <2>4. responses[<<r[1], r[2], m>>] <= IF m \in requests[r].methods THEN 1 + Served(r, m) ELSE 0
    BY DEF IInv, AnswersCounted
  <2>5. Promised(r, m) \in Nat /\ 1 + Served(r, m) <= Promised(r, m)
    <3>1. CASE counter = 0
      BY <3>1 DEF Promised, Served
    <3>2. CASE counter = 1
      BY <2>2, <3>2, Division DEF Promised, Served
    <3>3. CASE counter > 1
      BY <2>1, <2>2, <3>3, Division DEF Promised, Served
    <3> QED
      BY <2>1, <3>1, <3>2, <3>3
  <2>6. Served(r, m) \in Nat
    BY SinceIsNat DEF IInv
  <2> QED
    BY <2>3, <2>4, <2>5, <2>6
<1> QED
  BY <1>1, Invariance, PTL

(***************************************************************************)
(* A connected client that subscribed to every event, under an id that no  *)
(* other client used before, and has not sent Unsubscribe, has had a       *)
(* response for the request and one for each event since.                  *)
(***************************************************************************)
THEOREM ServedAtEveryEvent == Spec => []EveryEventAnswered
<1>1. IInv => EveryEventAnswered
  <2> SUFFICES ASSUME IInv, NEW r \in Made \ unsubscribed, NEW m \in Method,
                      r[1] \in mConnections, Sole(r, m)
               PROVE  responses[<<r[1], r[2], m>>] = Promised(r, m)
    BY DEF EveryEventAnswered, Sole
  <2>1. responses[<<r[1], r[2], m>>] = 1 + Since(r, m)
    BY DEF IInv, SoleIsQueued
  <2>2. Promised(r, m) = 1 + Since(r, m)
    BY SinceIsNat, Division DEF IInv, Promised, Sole
  <2> QED
    BY <2>1, <2>2
<1> QED
  BY <1>1, Invariance, PTL
=============================================================================
