--------------------------- MODULE ServiceClient ----------------------------
(***************************************************************************)
(* The client side of a service (NCoreService with its NWebSockets): it    *)
(* connects to the service manager, negotiates, registers its API, and     *)
(* connects to the providers the answer names; whatever connection fails   *)
(* or ends is tried again by a timer.                                      *)
(*                                                                         *)
(* The service is one event loop; the processes at the other end of its    *)
(* connections stop, restart and close connections at any time, and the    *)
(* service learns of it later.  Messages of one connection arrive in       *)
(* order, or not at all once the connection is gone.                       *)
(*                                                                         *)
(* The retry interval is cRetryInterval: so it is for dependencies, and    *)
(* for the service manager in every module but StatsManager.               *)
(***************************************************************************)
EXTENDS Naturals, Sequences

CONSTANTS
  Role,            \* roles in fDependencies()
  serviceManager,  \* cServiceManagerName
  Address,         \* URLs of processes
  managerAddress,  \* mServiceManagerUrl
  Compatible,      \* names whose server supports the version we propose
  MaxFailures,     \* bound: stops, closes and socket errors
  None             \* no NWebSocket yet

Name == Role \cup {serviceManager}

ASSUME ClientConstants ==
  /\ serviceManager \notin Role
  /\ managerAddress \in Address
  /\ Compatible \subseteq Name
  /\ MaxFailures \in Nat
  /\ None \notin Address

VARIABLES
  listening,         \* addresses whose process is up
  failures,          \* how many failures there were
  mConnectionUrl,    \* of the NWebSocket in mWebSockets, None without one
  state,             \* QWebSocket::state()
  mConnectionState,  \* what the NWebSocket knows of the negotiation
  pRetryTimer,       \* names whose retry timer runs
  accepted,          \* names whose connection the server still has
  negotiated,        \* those that the server has negotiated
  toServer,          \* messages on their way to the server
  toClient,          \* messages on their way to the service
  registration       \* our API at the service manager

clientVars == <<mConnectionUrl, state, mConnectionState, pRetryTimer>>
serverVars == <<listening, failures, accepted, negotiated, registration>>
vars == <<clientVars, serverVars, toServer, toClient>>

Message ==
  [type : {"NegotiateConnection", "NegotiationSuccessful", "NegotiationError",
           "RegisterAPI"}]
    \cup [type : {"Registered"}, providers : [Role -> Address]]

TypeOK ==
  /\ listening \subseteq Address
  /\ failures \in 0 .. MaxFailures
  /\ mConnectionUrl \in [Name -> Address \cup {None}]
  /\ state \in [Name -> {"Unconnected", "Connecting", "Connected"}]
  /\ mConnectionState \in [Name -> {"NotNegotiated", "Active"}]
  /\ pRetryTimer \subseteq Name
  /\ accepted \subseteq Name
  /\ negotiated \subseteq accepted
  /\ toServer \in [Name -> Seq(Message)]
  /\ toClient \in [Name -> Seq(Message)]
  /\ registration \in {"none", "pending", "active"}

(* fConnectToServiceManager has opened the first connection. *)
Init ==
  /\ listening \in SUBSET Address
  /\ failures = 0
  /\ mConnectionUrl = [n \in Name |-> IF n = serviceManager THEN managerAddress ELSE None]
  /\ state = [n \in Name |-> IF n = serviceManager THEN "Connecting" ELSE "Unconnected"]
  /\ mConnectionState = [n \in Name |-> "NotNegotiated"]
  /\ pRetryTimer = {}
  /\ accepted = {}
  /\ negotiated = {}
  /\ toServer = [n \in Name |-> <<>>]
  /\ toClient = [n \in Name |-> <<>>]
  /\ registration = "none"

-----------------------------------------------------------------------------
(* The other processes *)

Starts(a) ==
  /\ a \notin listening
  /\ listening' = listening \cup {a}
  /\ UNCHANGED <<clientVars, failures, accepted, negotiated, registration, toServer, toClient>>

(* The server loses the connections of the names in lost. *)
Lost(lost) ==
  /\ failures < MaxFailures
  /\ failures' = failures + 1
  /\ accepted' = accepted \ lost
  /\ negotiated' = negotiated \ lost
  /\ registration' = IF serviceManager \in lost THEN "none" ELSE registration
  /\ UNCHANGED <<clientVars, toServer, toClient>>

Stops(a) ==
  /\ a \in listening
  /\ listening' = listening \ {a}
  /\ Lost({n \in accepted : mConnectionUrl[n] = a})

(* The service manager closes the connections of modules whose dependency  *)
(* disconnects; a network may do the same.                                 *)
Closes(n) ==
  /\ n \in accepted
  /\ Lost({n})
  /\ UNCHANGED listening

(* The server's half of the protocol: NWebSocketServer and RegisterAPI. *)
ServerReceives(n) ==
  /\ n \in accepted
  /\ toServer[n] # <<>>
  /\ toServer' = [toServer EXCEPT ![n] = Tail(@)]
  /\ \/ /\ Head(toServer[n]).type = "NegotiateConnection"
        /\ n \in Compatible
        /\ negotiated' = negotiated \cup {n}
        /\ toClient' = [toClient EXCEPT ![n] = Append(@, [type |-> "NegotiationSuccessful"])]
        /\ UNCHANGED <<accepted, registration>>
     \/ /\ Head(toServer[n]).type = "NegotiateConnection"
        /\ n \notin Compatible
        /\ accepted' = accepted \ {n}
        /\ negotiated' = negotiated \ {n}
        /\ toClient' = [toClient EXCEPT ![n] = Append(@, [type |-> "NegotiationError"])]
        /\ registration' = IF n = serviceManager THEN "none" ELSE registration
     \/ /\ Head(toServer[n]).type = "RegisterAPI"
        /\ registration' = "pending"
        /\ UNCHANGED <<accepted, negotiated, toClient>>
  /\ UNCHANGED <<clientVars, listening, failures>>

(* The dependency search finds a provider for every role. *)
ModuleIsActive(providers) ==
  /\ registration = "pending"
  /\ registration' = "active"
  /\ toClient' = [toClient EXCEPT ![serviceManager] =
                    Append(@, [type |-> "Registered", providers |-> providers])]
  /\ UNCHANGED <<clientVars, listening, failures, accepted, negotiated, toServer>>

-----------------------------------------------------------------------------
(* Connecting *)

(* States of the sockets after fConnect() for names. *)
fConnect(names) ==
  [n \in Name |-> IF n \in names /\ state[n] = "Unconnected" THEN "Connecting" ELSE state[n]]

RetryTimeout(n) ==
  /\ n \in pRetryTimer
  /\ state' = fConnect({n})
  /\ UNCHANGED <<mConnectionUrl, mConnectionState, pRetryTimer, serverVars, toServer, toClient>>

(* Mutated form: the API is registered before the negotiation. *)
RegisteredUnnegotiated(n) ==
  <<[type |-> "NegotiateConnection"], [type |-> "RegisterAPI"]>>

FirstMessages(n) ==
  IF mConnectionState[n] = "NotNegotiated" THEN <<[type |-> "NegotiateConnection"]>> ELSE <<>>

(* The connection is there: negotiate, unless that is done already. *)
fOnConnected(n) ==
  /\ state[n] = "Connecting"
  /\ mConnectionUrl[n] \in listening
  /\ state' = [state EXCEPT ![n] = "Connected"]
  /\ accepted' = accepted \cup {n}
  /\ toServer' = [toServer EXCEPT ![n] = FirstMessages(n)]
  /\ pRetryTimer' = pRetryTimer \ {n}
  /\ UNCHANGED <<mConnectionUrl, mConnectionState, listening, failures, negotiated,
                 registration, toClient>>

(* An error on an open connection: the timer runs from then on. *)
fOnConnectionError(n) ==
  /\ state[n] = "Connected"
  /\ failures < MaxFailures
  /\ failures' = failures + 1
  /\ pRetryTimer' = pRetryTimer \cup {n}
  /\ UNCHANGED <<mConnectionUrl, state, mConnectionState, listening, accepted, negotiated,
                 registration, toServer, toClient>>

(* Mutated forms: the connection state is kept, *)
StateKept(n) ==
  /\ UNCHANGED mConnectionState
  /\ pRetryTimer' = pRetryTimer \cup {n}

(* or the timer is left to errors. *)
TimerNotStarted(n) ==
  /\ mConnectionState' = [mConnectionState EXCEPT ![n] = "NotNegotiated"]
  /\ UNCHANGED pRetryTimer

fOnSocketDisconnection(n) ==
  /\ mConnectionState' = [mConnectionState EXCEPT ![n] = "NotNegotiated"]
  /\ pRetryTimer' = pRetryTimer \cup {n}

(***************************************************************************)
(* The connection could not be opened (the error and the disconnection     *)
(* come together), or the service notices that it ended.                   *)
(***************************************************************************)
Disconnected(n) ==
  /\ \/ state[n] = "Connecting" /\ mConnectionUrl[n] \notin listening
     \/ state[n] = "Connected" /\ n \notin accepted
  /\ state' = [state EXCEPT ![n] = "Unconnected"]
  /\ fOnSocketDisconnection(n)
  /\ toServer' = [toServer EXCEPT ![n] = <<>>]
  /\ toClient' = [toClient EXCEPT ![n] = <<>>]
  /\ UNCHANGED <<mConnectionUrl, serverVars>>

-----------------------------------------------------------------------------
(* Messages *)

(* The API is registered whenever the connection becomes active. *)
NegotiationSuccessful(n) ==
  /\ Head(toClient[n]).type = "NegotiationSuccessful"
  /\ mConnectionState' = [mConnectionState EXCEPT ![n] = "Active"]
  /\ toServer' = IF n = serviceManager
                 THEN [toServer EXCEPT ![n] = Append(@, [type |-> "RegisterAPI"])]
                 ELSE toServer
  /\ UNCHANGED <<mConnectionUrl, state>>

(* The refusal is only logged. *)
NegotiationError(n) ==
  /\ Head(toClient[n]).type = "NegotiationError"
  /\ UNCHANGED <<mConnectionState, toServer, mConnectionUrl, state>>

(* Mutated form: the NWebSockets are made and not opened. *)
NotOpened(providers) ==
  LET new == {r \in Role : mConnectionUrl[r] = None}
  IN  /\ mConnectionUrl' = [n \in Name |-> IF n \in new THEN providers[n] ELSE mConnectionUrl[n]]
      /\ UNCHANGED state

(***************************************************************************)
(* fConnectToModule for every role: an NWebSocket that exists already is   *)
(* connected again to where it was, whatever address is named now.         *)
(***************************************************************************)
fConnectToModule(providers) ==
  LET new == {r \in Role : mConnectionUrl[r] = None}
  IN  /\ mConnectionUrl' = [n \in Name |-> IF n \in new THEN providers[n] ELSE mConnectionUrl[n]]
      /\ state' = fConnect(Role)

fProcessBaseResponse(n) ==
  /\ Head(toClient[n]).type = "Registered"
  /\ fConnectToModule(Head(toClient[n]).providers)
  /\ UNCHANGED <<mConnectionState, toServer>>

fOnTextMessageReceived(n) ==
  /\ state[n] = "Connected"
  /\ toClient[n] # <<>>
  /\ toClient' = [toClient EXCEPT ![n] = Tail(@)]
  /\ \/ NegotiationSuccessful(n)
     \/ NegotiationError(n)
     \/ fProcessBaseResponse(n)
  /\ UNCHANGED <<pRetryTimer, serverVars>>

-----------------------------------------------------------------------------

Next ==
  \/ \E a \in Address : Starts(a)
  \/ \E a \in Address : Stops(a)
  \/ \E n \in Name : Closes(n)
  \/ \E n \in Name : ServerReceives(n)
  \/ \E providers \in [Role -> Address \ {managerAddress}] : ModuleIsActive(providers)
  \/ \E n \in Name : RetryTimeout(n)
  \/ \E n \in Name : fOnConnected(n)
  \/ \E n \in Name : fOnConnectionError(n)
  \/ \E n \in Name : Disconnected(n)
  \/ \E n \in Name : fOnTextMessageReceived(n)

Spec == Init /\ [][Next]_vars

(* The event loops serve their timers and sockets; nothing makes a process *)
(* start, and failures may end.                                            *)
Fairness ==
  \A n \in Name :
    /\ WF_vars(ServerReceives(n))
    /\ WF_vars(RetryTimeout(n))
    /\ WF_vars(fOnConnected(n))
    /\ WF_vars(Disconnected(n))
    /\ WF_vars(fOnTextMessageReceived(n))

FairSpec == Spec /\ Fairness

-----------------------------------------------------------------------------
(* Properties *)

(***************************************************************************)
(* Nothing is sent as on an active connection that the server has not      *)
(* negotiated: the state of an earlier connection does not outlive it.     *)
(***************************************************************************)
ActiveIsNegotiated ==
  \A n \in accepted : mConnectionState[n] = "Active" => n \in negotiated

(***************************************************************************)
(* The service manager gets RegisterAPI only on negotiated connections,    *)
(* and only once on each.                                                  *)
(***************************************************************************)
RegisteredOnce ==
  serviceManager \in accepted =>
    LET onTheWay == {i \in DOMAIN toServer[serviceManager] :
                       toServer[serviceManager][i].type = "RegisterAPI"}
    IN  /\ onTheWay # {} => serviceManager \in negotiated /\ registration = "none"
        /\ \A i, j \in onTheWay : i = j

(***************************************************************************)
(* No connection is given up: one that is neither open nor being opened    *)
(* has its retry timer running.                                            *)
(***************************************************************************)
NothingGivenUp ==
  \A n \in Name :
    mConnectionUrl[n] # None /\ state[n] = "Unconnected" => n \in pRetryTimer

(***************************************************************************)
(* If the service manager is up from some time on, the API is registered   *)
(* from some time on, however often it was down or closed the connection.  *)
(***************************************************************************)
EventuallyRegistered ==
  <>[](managerAddress \in listening) => <>[](registration # "none")

(***************************************************************************)
(* A dependency's connection becomes active and stays so if the process it *)
(* was first told to connect to stays up.                                  *)
(***************************************************************************)
EventuallyConnected ==
  \A r \in Role \cap Compatible :
    <>[](mConnectionUrl[r] \in listening) => <>[](mConnectionState[r] = "Active")
=============================================================================
