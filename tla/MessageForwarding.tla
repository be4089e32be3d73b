------------------------- MODULE MessageForwarding --------------------------
(***************************************************************************)
(* How a request for a module's method travels: a WebSocket client or an   *)
(* HTTP client asks the Connector (NConnectionController), which forwards  *)
(* the method to the service manager (ForwardMessage), which forwards it   *)
(* to the first active module that has the method; the answers come back   *)
(* the same way.  Each process is one event loop and messages of a         *)
(* connection arrive in order; what interleaves are the three loops and    *)
(* the failures of the connections between them.                           *)
(*                                                                         *)
(* The route of an HTTP request waits in a nested event loop, so requests  *)
(* that arrive meanwhile run on top of it and must return before it can.   *)
(*                                                                         *)
(* Not modelled: SubscriptionPeriod, which is treated as the counter is,   *)
(* and WebSocket clients that leave (see NWebSocketServer).                *)
(***************************************************************************)
EXTENDS Naturals, Sequences, FiniteSets, SequencesExt

CONSTANTS
  HttpRequest,  \* requests made over HTTP
  WsRequest,    \* requests made on a WebSocket server of the Connector
  Channel,      \* that server: "Admin", "Comm" or "Client"
  Scope,        \* method -> "Public", "Admin" or "Private"
  ListAPI,      \* the method the Connector has itself
  Module,       \* modules that may register with the service manager
  Methods,      \* the methods of each
  Queries,      \* what each request may say
  MaxFailures,  \* bound: connections lost
  None          \* no request, no response, no connection

Request == HttpRequest \cup WsRequest
Method == DOMAIN Scope
Forward == Request \X (Method \ {ListAPI})

(* Methods, SubscriptionEventCounter, and the minimum that the parameters  *)
(* of the methods name.                                                    *)
QuerySet == [methods : SUBSET Method, counter : Nat, minEvent : Nat, valid : {TRUE}]

(* The body of an HTTP request may be no message of the protocol. *)
Malformed == [methods |-> {}, counter |-> 0, minEvent |-> 0, valid |-> FALSE]

ASSUME ForwardingConstants ==
  /\ HttpRequest \cap WsRequest = {}
  /\ Channel \in [WsRequest -> {"Admin", "Comm", "Client"}]
  /\ Scope \in [Method -> {"Public", "Admin", "Private"}]
  /\ Methods \in [Module -> SUBSET (Method \ {ListAPI})]
  /\ DOMAIN Queries = Request
  /\ \A r \in Request : Queries[r] \subseteq QuerySet \cup {Malformed}
  /\ \A r \in WsRequest : Malformed \notin Queries[r]
  /\ IsFiniteSet(Method)
  /\ MaxFailures \in Nat
  /\ None \notin Nat \cup QuerySet \cup {Malformed}

VARIABLES
  requests,           \* what each request says, None before it is made
  mKnown,             \* mPublicMethods, mAdminMethods and mPrivateMethods
  waiting,            \* routes in their event loops, the innermost last
  lResponse,          \* of each waiting route
  quit,               \* waiting routes whose loop was told to quit
  returned,           \* routes that are gone; their listeners are not
  left,               \* HTTP clients that left while their route waited
  crashed,            \* the Connector is no more
  answers,            \* request -> answers it got
  mForwardedMessages, \* of the Connector: the methods it forwarded
  connection,         \* the Connector's connection at the service manager
  toManager,          \* requests on their way to the service manager
  fromManager,        \* messages on their way to the Connector
  mModuleAPIActive,   \* modules registered with the service manager
  managerForwarded,   \* mForwardedMessages of the service manager
  toModule,           \* requests on their way to each module
  fromModule,         \* answers on their way from each module
  failures,           \* connections lost
  mixed               \* HTTP requests that met another one (history)

routeVars     == <<waiting, lResponse, quit, returned, left, crashed, mixed>>
connectorVars == <<requests, mKnown, answers, mForwardedMessages>>
managerVars   == <<mModuleAPIActive, managerForwarded>>
moduleVars    == <<toModule, fromModule>>
linkVars      == <<connection, toManager, fromManager, failures>>
vars == <<routeVars, connectorVars, managerVars, moduleVars, linkVars>>

Status == {"successful", "NoMethod", "MethodExe", "Unavailable", "Format"}

(* An answer: whose request and which method it is about, the status it    *)
(* states, and whether it carries what the method returned.                *)
Answer == [about : Request, method : Method \cup {None}, status : Status, data : BOOLEAN]

(* What the service manager sends: answers, or the consolidated API. *)
Relayed == [id : Forward, status : Status, data : BOOLEAN]
API == [methods : SUBSET Method]

TypeOK ==
  /\ requests \in [Request -> QuerySet \cup {Malformed, None}]
  /\ mKnown \subseteq Method
  /\ waiting \in Seq(HttpRequest)
  /\ lResponse \in [HttpRequest -> Answer \cup {None}]
  /\ quit \subseteq ToSet(waiting)
  /\ returned \subseteq HttpRequest \ ToSet(waiting)
  /\ left \subseteq HttpRequest
  /\ crashed \in BOOLEAN
  /\ answers \in [Request -> Seq(Answer)]
  /\ mForwardedMessages \subseteq Forward
  /\ connection \in 0 .. MaxFailures \cup {None}
  /\ toManager \in Seq(Forward)
  /\ fromManager \in Seq(Relayed \cup API)
  /\ mModuleAPIActive \subseteq Module
  /\ managerForwarded \subseteq [id : Forward, connection : 0 .. MaxFailures]
  /\ toModule \in [Module -> Seq(Forward)]
  /\ fromModule \in [Module -> Seq(Relayed)]
  /\ failures \in 0 .. MaxFailures
  /\ mixed \subseteq HttpRequest

ActiveMethods(active) == UNION {Methods[m] : m \in active}

Init ==
  /\ requests = [r \in Request |-> None]
  /\ waiting = <<>>
  /\ lResponse = [r \in HttpRequest |-> None]
  /\ quit = {}
  /\ returned = {}
  /\ left = {}
  /\ crashed = FALSE
  /\ answers = [r \in Request |-> <<>>]
  /\ mForwardedMessages = {}
  /\ connection = 0
  /\ toManager = <<>>
  /\ fromManager = <<>>
  /\ mModuleAPIActive = Module
  /\ mKnown = ActiveMethods(Module)
  /\ managerForwarded = {}
  /\ toModule = [m \in Module |-> <<>>]
  /\ fromModule = [m \in Module |-> <<>>]
  /\ failures = 0
  /\ mixed = {}

-----------------------------------------------------------------------------
(* Messages under way *)

(* The queues: the positions of the requests and of the answers in them. *)
Place ==
  ({"toManager", "fromManager"} \X {None}) \cup ({"toModule", "fromModule"} \X Module)

Asking(queue, id) == {i \in DOMAIN queue : queue[i] = id}

Answering(queue, id) == {i \in DOMAIN queue : "id" \in DOMAIN queue[i] /\ queue[i].id = id}

At(place, id) ==
  CASE place[1] = "toManager"   -> Asking(toManager, id)
    [] place[1] = "fromManager" -> Answering(fromManager, id)
    [] place[1] = "toModule"    -> Asking(toModule[place[2]], id)
    [] place[1] = "fromModule"  -> Answering(fromModule[place[2]], id)

UnderWay(id) == UNION {{place} \X At(place, id) : place \in Place}

AtModules(id) == {spot \in UnderWay(id) : spot[1][1] \in {"toModule", "fromModule"}}

HttpUnderWay == \E id \in mForwardedMessages : id[1] \in HttpRequest /\ UnderWay(id) # {}

-----------------------------------------------------------------------------
(* The Connector *)

(* The known methods that may be used where r was made. *)
fMethodValid(r) ==
  LET channel == IF r \in HttpRequest THEN "Client" ELSE Channel[r]
      scopes  == CASE channel = "Comm"   -> {"Public", "Admin", "Private"}
                   [] channel = "Admin"  -> {"Public", "Admin"}
                   [] channel = "Client" -> {"Public"}
  IN  {m \in mKnown \ {ListAPI} : Scope[m] \in scopes}

(* ListAPI has no minimum, so a subscription to it is refused; any other   *)
(* method that is not forwarded is not found.                              *)
LocalAnswer(r, m, counter) ==
  [about  |-> r,
   method |-> m,
   status |-> IF m # ListAPI THEN "NoMethod"
              ELSE IF counter = 0 THEN "successful" ELSE "MethodExe",
   data   |-> m = ListAPI /\ counter = 0]

(* A message that finds no active connection is dropped. *)
fForwardMessage(ids) ==
  /\ mForwardedMessages' = mForwardedMessages \cup ids
  /\ toManager' = IF connection = None THEN toManager ELSE toManager \o SetToSeq(ids)

(***************************************************************************)
(* sHttpResponseProcessed(a) has no id: every waiting route takes it for   *)
(* its own response.  The listeners of routes that have returned are still *)
(* connected and write to stack frames that are gone.                      *)
(***************************************************************************)
sHttpResponseProcessed(a) ==
  /\ lResponse' = [r \in HttpRequest |-> IF r \in ToSet(waiting) THEN a ELSE lResponse[r]]
  /\ quit' = ToSet(waiting)
  /\ crashed' \in IF returned = {} THEN {FALSE} ELSE BOOLEAN

(* Mutated form: methods not found are only logged. *)
ListAPIOnly(r, q) ==
  {LocalAnswer(r, m, q.counter) : m \in q.methods \cap {ListAPI}}

LocalAnswers(r, q) ==
  {LocalAnswer(r, m, q.counter) : m \in q.methods \ fMethodValid(r)}

(* The answer an HTTP request gets before its route would wait.  Only the  *)
(* first of its methods is looked at; which that is is left open.          *)
AnsweredAtOnce(r, q) ==
  IF q = Malformed
  THEN {[about |-> r, method |-> None, status |-> "Format", data |-> FALSE]}
  ELSE LocalAnswers(r, q)

(***************************************************************************)
(* The route "/".                                                          *)
(***************************************************************************)
Route(r, q) ==
  /\ requests[r] = None
  /\ requests' = [requests EXCEPT ![r] = q]
  /\ mixed' = IF waiting = <<>> /\ ~HttpUnderWay THEN mixed
              ELSE mixed \cup ToSet(waiting) \cup {r}
  /\ \/ /\ \E a \in AnsweredAtOnce(r, q) :
               answers' = [answers EXCEPT ![r] = <<a>>] /\ sHttpResponseProcessed(a)
        /\ returned' = returned \cup {r}
        /\ UNCHANGED <<waiting, mForwardedMessages, toManager>>
     \/ /\ IF q.methods = {} THEN UNCHANGED <<mForwardedMessages, toManager>>
           ELSE \E m \in q.methods \cap fMethodValid(r) :
                  fForwardMessage({<<r, m>>})
        /\ q # Malformed
        /\ waiting' = Append(waiting, r)
        /\ UNCHANGED <<lResponse, quit, crashed, answers, returned>>
  /\ UNCHANGED <<mKnown, left, managerVars, moduleVars, connection, fromManager, failures>>

(* NWebSocketServer passes on every method of a request. *)
fProcessRequest(r, q) ==
  /\ requests[r] = None
  /\ requests' = [requests EXCEPT ![r] = q]
  /\ fForwardMessage({r} \X (q.methods \cap fMethodValid(r)))
  /\ answers' = [answers EXCEPT ![r] = SetToSeq(LocalAnswers(r, q))]
  /\ UNCHANGED <<routeVars, mKnown, managerVars, moduleVars, connection, fromManager, failures>>

(* Mutated form: the timer is never started. *)
NoTimeout(r) == FALSE

(* cHttpServerTimeout; the timer repeats. *)
TimedOut(r) == r \in ToSet(waiting) \ quit

Timeout(r) ==
  /\ TimedOut(r)
  /\ quit' = quit \cup {r}
  /\ UNCHANGED <<waiting, lResponse, returned, left, crashed, mixed,
                 connectorVars, managerVars, moduleVars, linkVars>>

TimeoutAnswer(r) ==
  [about |-> r, method |-> None, status |-> "Unavailable", data |-> FALSE]

(***************************************************************************)
(* The innermost route's loop ends.  Without a response the client is told *)
(* of the timeout, by a function that returns no value if the request has  *)
(* no method.  If the client left, the request and the socket are deleted. *)
(***************************************************************************)
Returns ==
  /\ waiting # <<>>
  /\ LET r == Last(waiting) IN
     /\ r \in quit
     /\ waiting' = Front(waiting)
     /\ quit' = quit \ {r}
     /\ returned' = returned \cup {r}
     /\ lResponse' = [lResponse EXCEPT ![r] = None]
     /\ answers' = IF r \in left THEN answers
                   ELSE [answers EXCEPT ![r] =
                           <<IF lResponse[r] # None THEN lResponse[r] ELSE TimeoutAnswer(r)>>]
     /\ crashed' \in IF r \in left \/ (lResponse[r] = None /\ requests[r].methods = {})
                     THEN BOOLEAN ELSE {FALSE}
  /\ UNCHANGED <<left, mixed, requests, mKnown, mForwardedMessages,
                 managerVars, moduleVars, linkVars>>

HttpClientLeaves(r) ==
  /\ r \in ToSet(waiting) \ left
  /\ left' = left \cup {r}
  /\ UNCHANGED <<waiting, lResponse, quit, returned, crashed, mixed,
                 connectorVars, managerVars, moduleVars, linkVars>>

(* Mutated form: the entry is kept. *)
EntryKept(id) == mForwardedMessages

Forgotten(id) ==
  IF requests[id[1]].counter = 0 THEN mForwardedMessages \ {id} ELSE mForwardedMessages

(* Mutated form: HTTP routes hear every answer. *)
Broadcast(a) ==
  /\ sHttpResponseProcessed(a)
  /\ answers' = IF a.about \in HttpRequest THEN answers
                ELSE [answers EXCEPT ![a.about] = Append(@, a)]

(* NConnectionController::fSendMessage *)
fSendMessage(a) ==
  IF a.about \in HttpRequest
  THEN sHttpResponseProcessed(a) /\ UNCHANGED answers
  ELSE /\ answers' = [answers EXCEPT ![a.about] = Append(@, a)]
       /\ UNCHANGED <<lResponse, quit, crashed>>

(* Mutated form: a refusal is passed on as if the method had run. *)
PassedAsRun(message) ==
  [about |-> message.id[1], method |-> message.id[2], status |-> "successful", data |-> TRUE]

(* An answer is passed on as successful, whatever its status. *)
Passed(message) ==
  [about  |-> message.id[1],
   method |-> message.id[2],
   status |-> "successful",
   data   |-> message.data]

(* An answer to no forwarded message is none of the Connector's. *)
RelayedToClient(message) ==
  /\ IF message.id \in mForwardedMessages
     THEN fSendMessage(Passed(message))
     ELSE UNCHANGED <<answers, lResponse, quit, crashed>>
  /\ mForwardedMessages' = Forgotten(message.id)
  /\ UNCHANGED mKnown

fProcessResponse ==
  /\ fromManager # <<>>
  /\ fromManager' = Tail(fromManager)
  /\ LET message == Head(fromManager) IN
     \/ "id" \in DOMAIN message /\ RelayedToClient(message)
     \/ /\ "methods" \in DOMAIN message
        /\ mKnown' = message.methods
        /\ UNCHANGED <<mForwardedMessages, answers, lResponse, quit, crashed>>
  /\ UNCHANGED <<waiting, returned, left, mixed, requests, managerVars, moduleVars,
                 connection, toManager, failures>>

-----------------------------------------------------------------------------
(* The service manager *)

(* fValidateForwardedMessage: a minimum among the forwarded parameters     *)
(* makes every request invalid that is no subscription.                    *)
fValidateForwardedMessage(minEvent) == minEvent = 0

Supporting(method) == {m \in mModuleAPIActive : method \in Methods[m]}

(* Mutated form: every active module with the method gets the request. *)
ForwardedToAll(id) ==
  /\ managerForwarded' = managerForwarded \cup {[id |-> id, connection |-> connection]}
  /\ toModule' = [m \in Module |-> IF m \in Supporting(id[2]) THEN Append(toModule[m], id)
                                   ELSE toModule[m]]
  /\ UNCHANGED fromManager

(* The first active module with the method gets it; the order of the       *)
(* module names is left open.                                              *)
ForwardedTo(id) ==
  /\ managerForwarded' = managerForwarded \cup {[id |-> id, connection |-> connection]}
  /\ \E m \in Supporting(id[2]) :
       toModule' = [toModule EXCEPT ![m] = Append(@, id)]
  /\ UNCHANGED fromManager

Refused(id, status) ==
  /\ fromManager' = Append(fromManager, [id |-> id, status |-> status, data |-> FALSE])
  /\ UNCHANGED <<managerForwarded, toModule>>

(***************************************************************************)
(* ForwardMessage has no minimum of its own, so NCoreService::fInvokeMethod *)
(* refuses every forwarded subscription before the method runs.            *)
(***************************************************************************)
ForwardMessage ==
  /\ toManager # <<>>
  /\ toManager' = Tail(toManager)
  /\ LET id == Head(toManager)
         q  == requests[id[1]]
     IN  \/ q.counter > 0 /\ Refused(id, "MethodExe")
         \/ q.counter = 0 /\ Supporting(id[2]) = {} /\ Refused(id, "Unavailable")
         \/ /\ q.counter = 0 /\ Supporting(id[2]) # {}
            /\ IF fValidateForwardedMessage(q.minEvent) THEN ForwardedTo(id)
               ELSE Refused(id, "MethodExe")
  /\ UNCHANGED <<routeVars, connectorVars, mModuleAPIActive, fromModule, connection, failures>>

(* A connection that is gone gets nothing. *)
StillThere(entry) == entry.connection = connection

(* The service manager's fProcessResponse. *)
RelayAnswer(m) ==
  /\ fromModule[m] # <<>>
  /\ fromModule' = [fromModule EXCEPT ![m] = Tail(@)]
  /\ LET message == Head(fromModule[m]) IN
     \E entry \in managerForwarded :
       /\ entry.id = message.id
       /\ managerForwarded' = managerForwarded \ {entry}
       /\ fromManager' = IF StillThere(entry)
                         THEN Append(fromManager, [message EXCEPT !.status = "successful"])
                         ELSE fromManager
  /\ UNCHANGED <<routeVars, connectorVars, mModuleAPIActive, toModule,
                 connection, toManager, failures>>

(* sEventTriggered("GetConsolidatedAPI"): the Connector is told. *)
Registry(active) ==
  /\ mModuleAPIActive' = active
  /\ fromManager' = IF connection = None THEN fromManager
                    ELSE Append(fromManager, [methods |-> ActiveMethods(active)])

-----------------------------------------------------------------------------
(* Modules and connections *)

(* The first method of the request runs, well or not. *)
ModuleAnswers(m) ==
  /\ toModule[m] # <<>>
  /\ toModule' = [toModule EXCEPT ![m] = Tail(@)]
  /\ \E message \in [id : {Head(toModule[m])}, status : {"successful"}, data : {TRUE}]
                   \cup [id : {Head(toModule[m])}, status : {"MethodExe"}, data : {FALSE}] :
       fromModule' = [fromModule EXCEPT ![m] = Append(@, message)]
  /\ UNCHANGED <<routeVars, connectorVars, managerVars, linkVars>>

ModuleRegisters(m) ==
  /\ m \notin mModuleAPIActive
  /\ Registry(mModuleAPIActive \cup {m})
  /\ UNCHANGED <<routeVars, connectorVars, managerForwarded, moduleVars,
                 connection, toManager, failures>>

(* What was forwarded to it stays in managerForwarded. *)
ModuleDisconnects(m) ==
  /\ m \in mModuleAPIActive
  /\ failures < MaxFailures
  /\ failures' = failures + 1
  /\ Registry(mModuleAPIActive \ {m})
  /\ toModule' = [toModule EXCEPT ![m] = <<>>]
  /\ fromModule' = [fromModule EXCEPT ![m] = <<>>]
  /\ UNCHANGED <<routeVars, connectorVars, managerForwarded, connection, toManager>>

ConnectorDisconnects ==
  /\ connection # None
  /\ failures < MaxFailures
  /\ failures' = failures + 1
  /\ connection' = None
  /\ toManager' = <<>>
  /\ fromManager' = <<>>
  /\ UNCHANGED <<routeVars, connectorVars, managerVars, moduleVars>>

(* Its new connection has a new id, and it asks for the API again. *)
ConnectorReconnects ==
  /\ connection = None
  /\ connection' = failures
  /\ fromManager' = <<[methods |-> ActiveMethods(mModuleAPIActive)]>>
  /\ UNCHANGED <<routeVars, connectorVars, managerVars, moduleVars, toManager, failures>>

-----------------------------------------------------------------------------

(* Once the Connector has crashed nothing more is said of the others. *)
Next ==
  /\ ~crashed
  /\ \/ \E r \in HttpRequest : \E q \in Queries[r] : Route(r, q)
     \/ \E r \in WsRequest : \E q \in Queries[r] : fProcessRequest(r, q)
     \/ \E r \in HttpRequest : Timeout(r)
     \/ Returns
     \/ \E r \in HttpRequest : HttpClientLeaves(r)
     \/ fProcessResponse
     \/ ForwardMessage
     \/ \E m \in Module : RelayAnswer(m)
     \/ \E m \in Module : ModuleAnswers(m)
     \/ \E m \in Module : ModuleRegisters(m)
     \/ \E m \in Module : ModuleDisconnects(m)
     \/ ConnectorDisconnects
     \/ ConnectorReconnects

Spec == Init /\ [][Next]_vars

(* The event loops serve their sockets and timers. *)
Fairness ==
  /\ \A r \in HttpRequest : WF_vars(Timeout(r))
  /\ WF_vars(Returns)
  /\ WF_vars(fProcessResponse)
  /\ WF_vars(ForwardMessage)
  /\ \A m \in Module : WF_vars(RelayAnswer(m)) /\ WF_vars(ModuleAnswers(m))

FairSpec == Spec /\ Fairness

-----------------------------------------------------------------------------
(* Properties *)

(* The answers to a method of a request. *)
AnsweredAt(id) == {i \in DOMAIN answers[id[1]] : answers[id[1]][i].method = id[2]}

(***************************************************************************)
(* A forwarded method is in one place at a time and is answered at most    *)
(* once, whatever connections are lost and made again: no failure makes a  *)
(* request run twice or a client hear twice.                               *)
(***************************************************************************)
AnsweredOnce ==
  \A r \in WsRequest, m \in Method \ {ListAPI} :
    Cardinality(UnderWay(<<r, m>>)) + Cardinality(AnsweredAt(<<r, m>>)) <= 1

(***************************************************************************)
(* While no connection was lost, every entry of the Connector's            *)
(* mForwardedMessages belongs to a request that is under way and each      *)
(* entry of the service manager's to one at a module, except the refused   *)
(* subscriptions, whose entries stay for good.                             *)
(***************************************************************************)
EntriesAccounted ==
  failures = 0 =>
    /\ \A id \in mForwardedMessages :
         requests[id[1]].counter = 0 => Cardinality(UnderWay(id)) = 1
    /\ \A entry \in managerForwarded :
         /\ entry.id \in mForwardedMessages
         /\ Cardinality(AtModules(entry.id)) = 1

(***************************************************************************)
(* An HTTP request that met no other HTTP request, neither in the          *)
(* Connector nor as a late answer, gets an answer about itself.            *)
(***************************************************************************)
HttpAnswersOwn ==
  \A r \in HttpRequest \ mixed : \A i \in DOMAIN answers[r] : answers[r][i].about = r

(***************************************************************************)
(* The routes of HTTP requests return, the outer ones after the inner      *)
(* ones, whatever becomes of the forwarded requests.                       *)
(***************************************************************************)
HttpReturns ==
  \A r \in HttpRequest : requests[r] # None ~> r \in returned \/ crashed

(***************************************************************************)
(* If no connection is lost and the Connector does not crash, a WebSocket  *)
(* client that asks for one method, and does not subscribe to it, gets     *)
(* exactly one answer, whether the method is the Connector's own, may not  *)
(* be used there, is known to nobody, or ran on a module.  Nothing is said *)
(* of the status it states, which the relays overwrite with "successful",  *)
(* or of requests for several methods, which get an answer for each and    *)
(* not the consolidated one that the protocol speaks of.                   *)
(***************************************************************************)
AsksForOne(r) ==
  requests[r] # None /\ requests[r].counter = 0 /\ Cardinality(requests[r].methods) = 1

WsAnswered ==
  \A r \in WsRequest : AsksForOne(r) ~> failures > 0 \/ crashed \/ Len(answers[r]) = 1
-----------------------------------------------------------------------------
(* What the system promises (Forwarding) *)

WsForward == {id \in Forward : id[1] \in WsRequest}

WithData(list, positions) == \E i \in positions : list[i].data

(* Whether the answer on its way to the Connector has data. *)
AnswerHasData(id) ==
  \/ WithData(fromManager, Answering(fromManager, id))
  \/ \E m \in Module : WithData(fromModule[m], Answering(fromModule[m], id))

(* What has become of a method, told from where its request or its answer  *)
(* is.  Forwarded and nowhere, it was lost.                                *)
Fate(id) ==
  IF AnsweredAt(id) # {}
  THEN IF WithData(answers[id[1]], AnsweredAt(id)) THEN "served" ELSE "refused"
  ELSE IF \/ At(<<"fromManager", None>>, id) # {}
          \/ \E m \in Module : At(<<"fromModule", m>>, id) # {}
  THEN IF AnswerHasData(id) THEN "succeeded" ELSE "failed"
  ELSE IF UnderWay(id) # {} THEN "asked"
  ELSE IF id \in mForwardedMessages THEN "lost" ELSE "unasked"

Promise == INSTANCE Forwarding WITH
  Id     <- WsForward,
  fate   <- [id \in WsForward |-> Fate(id)],
  failed <- failures > 0

(***************************************************************************)
(* To a WebSocket client the Connector, the service manager and the        *)
(* modules together are Forwarding: its methods run once at most and are   *)
(* answered once at most, with data only if they ran, and unless a         *)
(* connection was lost, nothing that was forwarded disappears.             *)
(***************************************************************************)
ImplementsForwarding == Promise!Spec
=============================================================================
