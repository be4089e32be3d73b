-------------------------- MODULE RequestDispatch ---------------------------
(***************************************************************************)
(* How a service (NCoreService) runs the methods of the requests that its  *)
(* WebSocket server receives, and how it serves event subscriptions: a     *)
(* request with a SubscriptionEventCounter is put in the event queue and   *)
(* run again when sEventTriggered names its method.                        *)
(*                                                                         *)
(* Requests, events and disconnections are handled one at a time by the    *)
(* event loop; what interleaves is their order.  Connections have ids of   *)
(* their own here (see NWebSocketServer).                                  *)
(***************************************************************************)
EXTENDS Naturals, FiniteSets

CONSTANTS
  Client,          \* connections of the server
  MessageID,       \* ids of requests
  MessageIDsOf,    \* the ids each client may give to its requests
  Method,          \* method names a request may ask for
  Invokable,       \* those invokeMethod finds and runs
  Deferred,        \* those whose answer another handler sends later
  MinEvent,        \* mApiMethodMinEventAndMinPeriod, first part
  MinPeriod,       \* mApiMethodMinEventAndMinPeriod, second part
  EventMethod,     \* methods sEventTriggered is emitted for
  Counters,        \* SubscriptionEventCounter values of requests
  Periods,         \* SubscriptionPeriod values of requests
  MethodSets,      \* RequestMethods of requests
  MaxEvents,       \* bound: events of one method
  MaxRequests,     \* bound: requests made
  None             \* no request, no subscription

ASSUME DispatchConstants ==
  /\ MessageIDsOf \in [Client -> SUBSET MessageID]
  /\ Deferred \subseteq Invokable
  /\ Invokable \subseteq Method
  /\ EventMethod \subseteq Method \ Deferred
  /\ MinEvent \in [Method -> Nat]
  /\ MinPeriod \in [Method -> Nat]
  /\ Counters \subseteq Nat
  /\ Periods \subseteq Nat
  /\ MethodSets \subseteq SUBSET Method
  /\ MaxEvents \in Nat
  /\ MaxRequests \in Nat

(* RegisterAPI, the one method answered later, has no entry in             *)
(* mApiMethodMinEventAndMinPeriod.                                         *)
ASSUME DeferredTakeNoSubscription == \A m \in Deferred : MinEvent[m] = 0

VARIABLES
  mConnections,              \* clients that are connected
  mMessageRequestEventQueue, \* message id -> subscription
  requests,                  \* <<client, id>> -> the request made with it
  events,                    \* sEventTriggered emissions per method
  responses,                 \* <<client, id, method>> -> responses sent
  unsubscribed               \* <<client, id>> of the Unsubscribe messages

vars == <<mConnections, mMessageRequestEventQueue, requests, events, responses,
          unsubscribed>>

(* A counter of 0 in the queue would be a division by zero in the lambda   *)
(* that serves sEventTriggered.                                            *)
Subscription ==
  [client: Client, method: Method, mSubscriptionEventCounter: Counters \ {0},
   mEventCounter: 1 .. MaxEvents + 1]

Request ==
  [methods: MethodSets, mSubscriptionEventCounter: Counters,
   mSubscriptionPeriod: Periods, since: [Method -> 0 .. MaxEvents], idWasFree: BOOLEAN]

ASSUME NoneIsNothing == None \notin Subscription \cup Request

TypeOK ==
  /\ mConnections \subseteq Client
  /\ mMessageRequestEventQueue \in [MessageID -> Subscription \cup {None}]
  /\ requests \in [Client \X MessageID -> Request \cup {None}]
  /\ events \in [Method -> 0 .. MaxEvents]
  /\ responses \in [Client \X MessageID \X Method -> Nat]
  /\ unsubscribed \subseteq Client \X MessageID

Init ==
  /\ mConnections = Client
  /\ mMessageRequestEventQueue = [i \in MessageID |-> None]
  /\ requests = [r \in Client \X MessageID |-> None]
  /\ events = [m \in Method |-> 0]
  /\ responses = [a \in Client \X MessageID \X Method |-> 0]
  /\ unsubscribed = {}

-----------------------------------------------------------------------------
(* Running methods *)

(* A method without a minimum accepts no subscription at all. *)
Permitted(minimum, value) ==
  IF minimum = 0 THEN value = 0 ELSE value >= minimum

fValidEventCounter(m, counter) == Permitted(MinEvent[m], counter)

fValidPeriod(m, period) == Permitted(MinPeriod[m], period)

Made == {r \in Client \X MessageID : requests[r] # None}

(* The methods of a request that run. *)
Executed(methods, counter, period) ==
  {m \in methods \cap Invokable :
     fValidEventCounter(m, counter) /\ fValidPeriod(m, period)}

(* Mutated forms: the id is not looked up, *)
QueuedAnyway(i, c, executed, counter) ==
  IF counter > 0 /\ executed # {}
  THEN \E m \in executed :
         mMessageRequestEventQueue' =
           [mMessageRequestEventQueue EXCEPT ![i] =
              [client |-> c, method |-> m, mSubscriptionEventCounter |-> counter,
               mEventCounter |-> 1]]
  ELSE UNCHANGED mMessageRequestEventQueue

(* or every executed request is queued. *)
AlwaysQueued(i, c, executed, counter) ==
  IF mMessageRequestEventQueue[i] = None /\ executed # {}
  THEN \E m \in executed :
         mMessageRequestEventQueue' =
           [mMessageRequestEventQueue EXCEPT ![i] =
              [client |-> c, method |-> m, mSubscriptionEventCounter |-> counter,
               mEventCounter |-> 1]]
  ELSE UNCHANGED mMessageRequestEventQueue

(***************************************************************************)
(* fInvokeMethod, after the method ran: a subscription is queued under the *)
(* id of its message unless that id is taken, by another client or by an   *)
(* earlier method of the same request.  Methods are run in the order of    *)
(* their names; which of them comes first is left open.                    *)
(***************************************************************************)
Queued(i, c, executed, counter) ==
  IF counter > 0 /\ mMessageRequestEventQueue[i] = None /\ executed # {}
  THEN \E m \in executed :
         mMessageRequestEventQueue' =
           [mMessageRequestEventQueue EXCEPT ![i] =
              [client |-> c, method |-> m, mSubscriptionEventCounter |-> counter,
               mEventCounter |-> 1]]
  ELSE UNCHANGED mMessageRequestEventQueue

(***************************************************************************)
(* A request: every method is checked, run and answered on its own.        *)
(***************************************************************************)
fProcessRequest(c, i, methods, counter, period) ==
  LET executed == Executed(methods, counter, period)
  IN
  /\ c \in mConnections
  /\ i \in MessageIDsOf[c]
  /\ requests[<<c, i>>] = None
  /\ Cardinality(Made) < MaxRequests
  /\ requests' = [requests EXCEPT ![<<c, i>>] =
                    [methods |-> methods, mSubscriptionEventCounter |-> counter,
                     mSubscriptionPeriod |-> period, since |-> events,
                     idWasFree |-> mMessageRequestEventQueue[i] = None]]
  /\ responses' =
       [a \in DOMAIN responses |->
          IF a[1] = c /\ a[2] = i /\ a[3] \in methods \ (executed \cap Deferred)
          THEN responses[a] + 1 ELSE responses[a]]
  /\ Queued(i, c, executed, counter)
  /\ UNCHANGED <<mConnections, events, unsubscribed>>

-----------------------------------------------------------------------------
(* Events *)

(* Mutated form: the subscription is served at every event. *)
DueAlways(s) == TRUE

Due(s) == s.mEventCounter % s.mSubscriptionEventCounter = 0

(***************************************************************************)
(* The subscriptions to m that are due run again: fInvokeMethod increments *)
(* their counters and sends the answers of those still connected.          *)
(***************************************************************************)
sEventTriggered(m) ==
  LET due == {i \in MessageID :
                LET s == mMessageRequestEventQueue[i]
                IN  s # None /\ s.method = m /\ Due(s)}
  IN
  /\ events[m] < MaxEvents
  /\ events' = [events EXCEPT ![m] = @ + 1]
  /\ mMessageRequestEventQueue' =
       [i \in MessageID |->
          IF i \in due THEN [mMessageRequestEventQueue[i] EXCEPT !.mEventCounter = @ + 1]
          ELSE mMessageRequestEventQueue[i]]
  /\ responses' =
       [a \in DOMAIN responses |->
          IF /\ a[1] \in mConnections /\ a[2] \in due /\ a[3] = m
             /\ mMessageRequestEventQueue[a[2]].client = a[1]
          THEN responses[a] + 1 ELSE responses[a]]
  /\ UNCHANGED <<mConnections, requests, unsubscribed>>

(* The message type is none of those fOnTextMessageReceived passes on. *)
Unsubscribe(c, i) ==
  /\ c \in mConnections
  /\ requests[<<c, i>>] # None
  /\ unsubscribed' = unsubscribed \cup {<<c, i>>}
  /\ UNCHANGED <<mConnections, mMessageRequestEventQueue, requests, events, responses>>

(* The queue is not told. *)
fSocketDisconnected(c) ==
  /\ c \in mConnections
  /\ mConnections' = mConnections \ {c}
  /\ UNCHANGED <<mMessageRequestEventQueue, requests, events, responses, unsubscribed>>

-----------------------------------------------------------------------------

Next ==
  \/ \E c \in Client, i \in MessageID, methods \in MethodSets,
        counter \in Counters, period \in Periods :
       fProcessRequest(c, i, methods, counter, period)
  \/ \E m \in EventMethod : sEventTriggered(m)
  \/ \E c \in Client, i \in MessageID : Unsubscribe(c, i)
  \/ \E c \in Client : fSocketDisconnected(c)

Spec == Init /\ [][Next]_vars

-----------------------------------------------------------------------------
(* Properties *)

Since(r, m) == events[m] - requests[r].since[m]

(* A response now, and one for every counter-th event from then on. *)
Promised(r, m) ==
  LET counter == requests[r].mSubscriptionEventCounter
  IN  IF counter = 0 THEN 1 ELSE 1 + Since(r, m) \div counter

(***************************************************************************)
(* No client gets more responses than a request for one method is good     *)
(* for: one, and for a subscription one more for every counter-th event of *)
(* that method, whoever else subscribes, even with the same message id.    *)
(* Not counted are requests for several methods, which get a response for  *)
(* each where the protocol has one for all, and those whose client has     *)
(* sent Unsubscribe, which the protocol says ends them and the code        *)
(* ignores.                                                                *)
(***************************************************************************)
NeverTooOften ==
  \A r \in Made \ unsubscribed : \A m \in Method :
    Cardinality(requests[r].methods) = 1 =>
      responses[<<r[1], r[2], m>>] <= IF m \in requests[r].methods THEN Promised(r, m) ELSE 0

(***************************************************************************)
(* A connected client that subscribed to one method with a counter of 1,   *)
(* as a Connector does for GetConsolidatedAPI, and has not sent            *)
(* Unsubscribe, has had a response at once and one for each event since,   *)
(* whoever else uses its message id later.  If that id was taken when the  *)
(* request came in it is not queued, and nothing is said of it.            *)
(***************************************************************************)
EveryEventAnswered ==
  \A r \in Made \ unsubscribed : \A m \in Method :
    /\ r[1] \in mConnections
    /\ requests[r].idWasFree
    /\ requests[r].methods = {m}
    /\ requests[r].mSubscriptionEventCounter = 1
    /\ m \in Executed({m}, 1, requests[r].mSubscriptionPeriod)
    => responses[<<r[1], r[2], m>>] = Promised(r, m)

-----------------------------------------------------------------------------
(* What the protocol document says *)

(***************************************************************************)
(* A subscription with any counter is served at every counter-th event.    *)
(***************************************************************************)
CounterHonoured ==
  \A r \in Made : \A m \in Method :
    /\ r[1] \in mConnections
    /\ requests[r].methods = {m}
    /\ requests[r].mSubscriptionEventCounter > 0
    /\ m \in Executed({m}, requests[r].mSubscriptionEventCounter,
                      requests[r].mSubscriptionPeriod)
    => responses[<<r[1], r[2], m>>] = Promised(r, m)
=============================================================================
