------------------------ MODULE ServiceClient_proofs ------------------------
(***************************************************************************)
(* Proofs about the connections of a service, for any number of roles,     *)
(* addresses and failures.                                                 *)
(*                                                                         *)
(* The inductive invariant says how far a connection that both ends have   *)
(* can be, which the messages under way tell: the proposal is on its way,  *)
(* or the server's acceptance is, or the connection is active; the one to  *)
(* the service manager then carries the registration, and after it at most *)
(* the answer.  A connection that the server has lost may be in any state  *)
(* and its messages are of no consequence, because a socket that is not    *)
(* connected has none and has forgotten its negotiation.                   *)
(*                                                                         *)
(* The last part is about the guard that the constructor of NCoreService   *)
(* takes before all this (NCoreService.cpp 15-16).                         *)
(***************************************************************************)
EXTENDS ServiceClient, TLAPS

(* A socket that is not connected starts from nothing. *)
Fresh(n) ==
  /\ n \notin accepted
  /\ mConnectionState[n] = "NotNegotiated"
  /\ toServer[n] = <<>>
  /\ toClient[n] = <<>>

(* The proposal is on its way to the server. *)
Proposed(n) ==
  /\ mConnectionState[n] = "NotNegotiated"
  /\ toServer[n] = <<[type |-> "NegotiateConnection"]>>
  /\ toClient[n] = <<>>
  /\ n = serviceManager => registration = "none"

(* The server has accepted it. *)
Answered(n) ==
  /\ mConnectionState[n] = "NotNegotiated"
  /\ n \in negotiated
  /\ toServer[n] = <<>>
  /\ toClient[n] = <<[type |-> "NegotiationSuccessful"]>>
  /\ n = serviceManager => registration = "none"

(* RegisterAPI is on its way, or arrived. *)
Registering ==
  \/ /\ toServer[serviceManager] = <<[type |-> "RegisterAPI"]>>
     /\ toClient[serviceManager] = <<>>
     /\ registration = "none"
  \/ /\ toServer[serviceManager] = <<>>
     /\ toClient[serviceManager] = <<>>
     /\ registration \in {"pending", "active"}
  \/ /\ toServer[serviceManager] = <<>>
     /\ registration = "active"
     /\ \E providers \in [Role -> Address] :
          toClient[serviceManager] = <<[type |-> "Registered", providers |-> providers]>>

(* The negotiation is known at both ends. *)
Settled(n) ==
  /\ mConnectionState[n] = "Active"
  /\ n \in negotiated
  /\ IF n = serviceManager THEN Registering ELSE toServer[n] = <<>> /\ toClient[n] = <<>>

(* A disconnection leaves nothing of the connection behind. *)
UnconnectedAreFresh == \A n \in Name : state[n] # "Connected" => Fresh(n)

(* How far a connection is that both ends have. *)
AcceptedAdvance == \A n \in accepted : Proposed(n) \/ Answered(n) \/ Settled(n)

(* A registration goes with its connection. *)
RegisteredAreAccepted == registration # "none" => serviceManager \in accepted

(* The inductive invariant. *)
IInv ==
  /\ TypeOK
  /\ UnconnectedAreFresh
  /\ AcceptedAdvance
  /\ RegisteredAreAccepted
  /\ NothingGivenUp

-----------------------------------------------------------------------------

(***************************************************************************)
(* A queue of one message.                                                 *)
(***************************************************************************)
LEMMA OneMessage ==
  ASSUME NEW m
  PROVE  <<m>> # <<>> /\ Head(<<m>>) = m /\ Tail(<<m>>) = <<>> /\ Append(<<>>, m) = <<m>>
OBVIOUS

(***************************************************************************)
(* The messages, by their types; an answer names a provider for each role. *)
(***************************************************************************)
LEMMA Messages ==
  /\ [type |-> "NegotiateConnection"] \in Message
  /\ [type |-> "NegotiationSuccessful"] \in Message
  /\ [type |-> "NegotiationError"] \in Message
  /\ [type |-> "RegisterAPI"] \in Message
  /\ \A p \in [Role -> Address] : [type |-> "Registered", providers |-> p] \in Message
  /\ \A m \in Message : m.type = "Registered" => m.providers \in [Role -> Address]
BY DEF Message

(***************************************************************************)
(* What is received is a message, and what is left is a queue of messages. *)
(***************************************************************************)
LEMMA Receiving ==
  ASSUME NEW q \in Seq(Message), q # <<>>
  PROVE  Head(q) \in Message /\ Tail(q) \in Seq(Message)
OBVIOUS

(***************************************************************************)
(* Every step keeps the variables in their types.                          *)
(***************************************************************************)
LEMMA NextTypeOK == TypeOK /\ [Next]_vars => TypeOK'
<1> SUFFICES ASSUME TypeOK, [Next]_vars
             PROVE  TypeOK'
  OBVIOUS
<1> USE ClientConstants DEF TypeOK, clientVars, serverVars
<1>1. ASSUME NEW a \in Address, Starts(a)
      PROVE  TypeOK'
  BY <1>1 DEF Starts
<1>2. ASSUME NEW a \in Address, Stops(a)
      PROVE  TypeOK'
  BY <1>2 DEF Stops, Lost
<1>3. ASSUME NEW n \in Name, Closes(n)
      PROVE  TypeOK'
  BY <1>3 DEF Closes, Lost
<1>4. ASSUME NEW n \in Name, ServerReceives(n)
      PROVE  TypeOK'
  <2>1. toServer' \in [Name -> Seq(Message)]
    BY <1>4, Receiving DEF ServerReceives
  <2>2. toClient' \in [Name -> Seq(Message)]
    <3>1. \A m \in Message : [toClient EXCEPT ![n] = Append(@, m)] \in [Name -> Seq(Message)]
      OBVIOUS
    <3> QED
      BY <1>4, <3>1, Messages, ZenonT(40) DEF ServerReceives
  <2>3. /\ accepted' \subseteq Name
        /\ negotiated' \subseteq accepted'
        /\ registration' \in {"none", "pending", "active"}
    BY <1>4 DEF ServerReceives
  <2> QED
    BY <1>4, <2>1, <2>2, <2>3 DEF ServerReceives
<1>5. ASSUME NEW providers \in [Role -> Address \ {managerAddress}], ModuleIsActive(providers)
      PROVE  TypeOK'
  <2>1. [type |-> "Registered", providers |-> providers] \in Message
    BY Messages
  <2>2. toClient' \in [Name -> Seq(Message)]
    <3> DEFINE answer == [type |-> "Registered", providers |-> providers]
    <3>1. toClient' = [toClient EXCEPT ![serviceManager] = Append(@, answer)]
      BY <1>5 DEF ModuleIsActive
    <3>2. answer \in Message
      BY <2>1
    <3>3. serviceManager \in Name
      BY DEF Name
    <3> HIDE DEF answer
    <3> QED
      BY <3>1, <3>2, <3>3
  <2> QED
    BY <1>5, <2>2 DEF ModuleIsActive
<1>6. ASSUME NEW n \in Name, RetryTimeout(n)
      PROVE  TypeOK'
  BY <1>6 DEF RetryTimeout, fConnect
<1>7. ASSUME NEW n \in Name, fOnConnected(n)
      PROVE  TypeOK'
  <2>1. FirstMessages(n) \in Seq(Message)
    BY Messages DEF FirstMessages
  <2> QED
    BY <1>7, <2>1 DEF fOnConnected
<1>8. ASSUME NEW n \in Name, fOnConnectionError(n)
      PROVE  TypeOK'
  BY <1>8 DEF fOnConnectionError
<1>9. ASSUME NEW n \in Name, Disconnected(n)
      PROVE  TypeOK'
  BY <1>9 DEF Disconnected, fOnSocketDisconnection
<1>10. ASSUME NEW n \in Name, fOnTextMessageReceived(n)
       PROVE  TypeOK'
  <2>1. Head(toClient[n]) \in Message /\ toClient' \in [Name -> Seq(Message)]
    BY <1>10, Receiving DEF fOnTextMessageReceived
  <2>2. CASE NegotiationSuccessful(n)
    BY <1>10, <2>1, <2>2, Messages DEF fOnTextMessageReceived, NegotiationSuccessful
  <2>3. CASE NegotiationError(n)
    BY <1>10, <2>1, <2>3 DEF fOnTextMessageReceived, NegotiationError
  <2>4. CASE fProcessBaseResponse(n)
    <3>1. Head(toClient[n]).providers \in [Role -> Address]
      BY <2>1, <2>4, Messages DEF fProcessBaseResponse
    <3>2. mConnectionUrl' \in [Name -> Address \cup {None}]
      BY <2>4, <3>1 DEF fProcessBaseResponse, fConnectToModule
    <3>3. state' \in [Name -> {"Unconnected", "Connecting", "Connected"}]
      BY <2>4 DEF fProcessBaseResponse, fConnectToModule, fConnect
    <3> QED
      BY <1>10, <2>1, <2>4, <3>2, <3>3 DEF fOnTextMessageReceived, fProcessBaseResponse
  <2> QED
    BY <1>10, <2>2, <2>3, <2>4 DEF fOnTextMessageReceived
<1>11. CASE UNCHANGED vars
  BY <1>11 DEF vars
<1> QED
  BY <1>1, <1>2, <1>3, <1>4, <1>5, <1>6, <1>7, <1>8, <1>9, <1>10, <1>11 DEF Next

-----------------------------------------------------------------------------

(***************************************************************************)
(* Nothing disturbs a connection both ends have while neither end changes  *)
(* what it knows and no message of it is sent or received.                 *)
(***************************************************************************)
LEMMA Undisturbed ==
  ASSUME NEW n \in Name, Proposed(n) \/ Answered(n) \/ Settled(n),
         mConnectionState'[n] = mConnectionState[n],
         toServer'[n] = toServer[n], toClient'[n] = toClient[n],
         n \in negotiated => n \in negotiated',
         n = serviceManager => registration' = registration
  PROVE  Proposed(n)' \/ Answered(n)' \/ Settled(n)'
BY DEF Proposed, Answered, Settled, Registering

(***************************************************************************)
(* The server's step takes an accepted connection from the proposal to the *)
(* answer, or ends it, or takes the registration.                          *)
(***************************************************************************)
LEMMA ServerAdvances ==
  ASSUME IInv, NEW n \in Name, ServerReceives(n), n \in accepted'
  PROVE  Answered(n)' \/ Settled(n)'
<1>1. toServer \in [Name -> Seq(Message)] /\ toClient \in [Name -> Seq(Message)]
  BY DEF IInv, TypeOK
<1>2. toServer[n] # <<>> /\ toServer'[n] = Tail(toServer[n]) /\ UNCHANGED mConnectionState
  BY <1>1 DEF ServerReceives, clientVars
<1>3. CASE Proposed(n)
  <2>1. Head(toServer[n]).type = "NegotiateConnection" /\ toServer'[n] = <<>>
    BY <1>2, <1>3, OneMessage DEF Proposed
  <2>2. /\ n \in negotiated'
        /\ toClient'[n] = Append(toClient[n], [type |-> "NegotiationSuccessful"])
        /\ registration' = registration
    BY <1>1, <2>1 DEF ServerReceives
  <2> QED
    BY <1>2, <1>3, <2>1, <2>2, OneMessage DEF Proposed, Answered
<1>4. CASE Settled(n)
  <2>1. n = serviceManager /\ toServer[n] = <<[type |-> "RegisterAPI"]>> /\ toClient[n] = <<>>
    BY <1>2, <1>4 DEF Settled, Registering
  <2>2. Head(toServer[n]).type = "RegisterAPI" /\ toServer'[n] = <<>>
    BY <1>2, <2>1, OneMessage
  <2>3. registration' = "pending" /\ UNCHANGED <<negotiated, toClient>>
    BY <2>2 DEF ServerReceives
  <2> QED
    BY <1>2, <1>4, <2>1, <2>2, <2>3 DEF Settled, Registering
<1> QED
  BY <1>2, <1>3, <1>4 DEF ServerReceives, IInv, AcceptedAdvance, Answered

(***************************************************************************)
(* The service's step takes an accepted connection from the answer to the  *)
(* negotiated state, or takes the answer to the registration.              *)
(***************************************************************************)
LEMMA ClientAdvances ==
  ASSUME IInv, NEW n \in Name, n \in accepted, fOnTextMessageReceived(n)
  PROVE  Settled(n)'
<1>1. /\ toServer \in [Name -> Seq(Message)]
      /\ toClient \in [Name -> Seq(Message)]
      /\ mConnectionState \in [Name -> {"NotNegotiated", "Active"}]
  BY DEF IInv, TypeOK
<1>2. /\ toClient[n] # <<>>
      /\ toClient'[n] = Tail(toClient[n])
      /\ UNCHANGED <<negotiated, registration>>
  BY <1>1 DEF fOnTextMessageReceived, serverVars
<1>3. CASE Answered(n)
  <2>1. Head(toClient[n]).type = "NegotiationSuccessful" /\ toClient'[n] = <<>>
    BY <1>2, <1>3, OneMessage DEF Answered
  <2>2. /\ mConnectionState'[n] = "Active"
        /\ toServer'[n] = IF n = serviceManager THEN Append(toServer[n], [type |-> "RegisterAPI"])
                          ELSE toServer[n]
    BY <1>1, <2>1
       DEF fOnTextMessageReceived, NegotiationSuccessful, NegotiationError, fProcessBaseResponse
  <2> QED
    BY <1>2, <1>3, <2>1, <2>2, OneMessage DEF Answered, Settled, Registering
<1>4. CASE Settled(n)
  <2>1. /\ n = serviceManager
        /\ toServer[n] = <<>>
        /\ registration = "active"
        /\ \E p \in [Role -> Address] : toClient[n] = <<[type |-> "Registered", providers |-> p]>>
    BY <1>2, <1>4 DEF Settled, Registering
  <2>2. Head(toClient[n]).type = "Registered" /\ toClient'[n] = <<>>
    BY <1>2, <2>1, OneMessage
  <2>3. UNCHANGED <<mConnectionState, toServer>>
    BY <2>2
       DEF fOnTextMessageReceived, NegotiationSuccessful, NegotiationError, fProcessBaseResponse
  <2> QED
    BY <1>2, <1>4, <2>1, <2>2, <2>3 DEF Settled, Registering
<1> QED
  BY <1>2, <1>3, <1>4 DEF IInv, AcceptedAdvance, Proposed

(***************************************************************************)
(* The initial state satisfies the invariant.                              *)
(***************************************************************************)
LEMMA InitIInv == Init => IInv
<1> SUFFICES ASSUME Init
             PROVE  IInv
  OBVIOUS
<1>1. TypeOK
  BY ClientConstants DEF Init, TypeOK
<1>2. UnconnectedAreFresh
  BY DEF Init, UnconnectedAreFresh, Fresh
<1>3. NothingGivenUp
  BY DEF Init, NothingGivenUp
<1> QED
  BY <1>1, <1>2, <1>3 DEF Init, IInv, AcceptedAdvance, RegisteredAreAccepted

(***************************************************************************)
(* Connections that the server loses are lost whole, and the others are as *)
(* before.                                                                 *)
(***************************************************************************)
LEMMA LostKeepsIInv ==
  ASSUME IInv, TypeOK', NEW lost \in SUBSET Name, Lost(lost)
  PROVE  IInv'
<1>1. /\ accepted' = accepted \ lost
      /\ negotiated' = negotiated \ lost
      /\ registration' = IF serviceManager \in lost THEN "none" ELSE registration
      /\ UNCHANGED <<mConnectionUrl, state, mConnectionState, pRetryTimer, toServer, toClient>>
  BY DEF Lost, clientVars
<1>2. \A n \in accepted' : Proposed(n)' \/ Answered(n)' \/ Settled(n)'
  <2> TAKE n \in accepted'
  <2>1. n \in Name /\ (Proposed(n) \/ Answered(n) \/ Settled(n))
    BY <1>1 DEF IInv, TypeOK, AcceptedAdvance
  <2> QED
    BY <1>1, <2>1, Undisturbed
<1>3. UnconnectedAreFresh' /\ NothingGivenUp'
  BY <1>1 DEF IInv, UnconnectedAreFresh, Fresh, NothingGivenUp
<1>4. RegisteredAreAccepted'
  BY <1>1 DEF IInv, RegisteredAreAccepted
<1> QED
  BY <1>2, <1>3, <1>4 DEF IInv, AcceptedAdvance

(***************************************************************************)
(* Every step keeps the invariant.                                         *)
(***************************************************************************)
LEMMA NextIInv == IInv /\ [Next]_vars => IInv'
<1> SUFFICES ASSUME IInv, [Next]_vars
             PROVE  IInv'
  OBVIOUS
<1>1. TypeOK /\ TypeOK'
  BY NextTypeOK DEF IInv
<1>2. \A n \in accepted : n \in Name /\ state[n] = "Connected"
                        /\ (Proposed(n) \/ Answered(n) \/ Settled(n))
  BY DEF IInv, TypeOK, UnconnectedAreFresh, Fresh, AcceptedAdvance
<1>3. ASSUME NEW a \in Address, Starts(a)
      PROVE  IInv'
  BY <1>1, <1>3, ZenonT(40)
     DEF Starts, clientVars, IInv, UnconnectedAreFresh, Fresh, AcceptedAdvance, Proposed, Answered,
         Settled, Registering, RegisteredAreAccepted, NothingGivenUp
<1>4. ASSUME NEW a \in Address, Stops(a)
      PROVE  IInv'
  <2>1. {n \in accepted : mConnectionUrl[n] = a} \in SUBSET Name
    BY <1>2
  <2> QED
    BY <1>1, <1>4, <2>1, LostKeepsIInv DEF Stops
<1>5. ASSUME NEW n \in Name, Closes(n)
      PROVE  IInv'
  BY <1>1, <1>5, LostKeepsIInv DEF Closes
<1>6. ASSUME NEW n \in Name, ServerReceives(n)
      PROVE  IInv'
  <2>1. /\ n \in accepted
        /\ UNCHANGED <<mConnectionUrl, state, mConnectionState, pRetryTimer>>
        /\ accepted' \subseteq accepted /\ negotiated \ {n} \subseteq negotiated'
        /\ n # serviceManager => registration' = registration
        /\ \A m \in Name \ {n} : toServer'[m] = toServer[m] /\ toClient'[m] = toClient[m]
    <3>1. \A m \in Name \ {n} : toServer'[m] = toServer[m] /\ toClient'[m] = toClient[m]
      BY <1>1, <1>6 DEF ServerReceives, TypeOK
    <3>2. n # serviceManager => registration' = registration
      <4>1. CASE Head(toServer[n]).type = "RegisterAPI"
        BY <1>2, <1>6, <4>1, OneMessage DEF ServerReceives, Proposed, Answered, Settled
      <4> QED
        BY <1>6, <4>1 DEF ServerReceives
    <3> QED
      BY <1>6, <3>1, <3>2 DEF ServerReceives, clientVars
  <2>2. AcceptedAdvance'
    <3> SUFFICES ASSUME NEW m \in accepted'
                 PROVE  Proposed(m)' \/ Answered(m)' \/ Settled(m)'
      BY DEF AcceptedAdvance
    <3>1. CASE m = n
      BY <1>6, <3>1, ServerAdvances
    <3>2. CASE m # n
      BY <1>2, <2>1, <3>2, Undisturbed
    <3> QED
      BY <3>1, <3>2
  <2>3. UnconnectedAreFresh'
    BY <1>2, <2>1 DEF IInv, UnconnectedAreFresh, Fresh
  <2>4. RegisteredAreAccepted'
    <3>1. CASE n = serviceManager
      BY <1>6, <2>1, <3>1 DEF ServerReceives, IInv, RegisteredAreAccepted
    <3>2. CASE n # serviceManager
      BY <1>6, <2>1, <3>2 DEF ServerReceives, IInv, RegisteredAreAccepted
    <3> QED
      BY <3>1, <3>2
  <2> QED
    BY <1>1, <2>1, <2>2, <2>3, <2>4 DEF IInv, NothingGivenUp
<1>7. ASSUME NEW providers \in [Role -> Address \ {managerAddress}], ModuleIsActive(providers)
      PROVE  IInv'
  <2>1. /\ registration = "pending" /\ registration' = "active"
        /\ serviceManager \in accepted
        /\ Settled(serviceManager) /\ Registering
    BY <1>2, <1>7 DEF ModuleIsActive, IInv, RegisteredAreAccepted, Proposed, Answered, Settled
  <2>2. toServer[serviceManager] = <<>> /\ toClient[serviceManager] = <<>>
    BY <2>1 DEF Registering
  <2>3. /\ toClient'[serviceManager] = <<[type |-> "Registered", providers |-> providers]>>
        /\ \A m \in Name \ {serviceManager} : toClient'[m] = toClient[m]
    BY <1>1, <1>2, <1>7, <2>1, <2>2, OneMessage DEF ModuleIsActive, TypeOK
  <2>4. UNCHANGED <<mConnectionUrl, state, mConnectionState, pRetryTimer, accepted, negotiated, toServer>>
    BY <1>7 DEF ModuleIsActive, clientVars
  <2>5. Settled(serviceManager)'
    BY <2>1, <2>2, <2>3, <2>4 DEF Settled, Registering
  <2>6. AcceptedAdvance'
    <3> SUFFICES ASSUME NEW m \in accepted'
                 PROVE  Proposed(m)' \/ Answered(m)' \/ Settled(m)'
      BY DEF AcceptedAdvance
    <3>1. CASE m = serviceManager
      BY <2>5, <3>1
    <3>2. CASE m # serviceManager
      BY <1>2, <2>3, <2>4, <3>2, Undisturbed
    <3> QED
      BY <3>1, <3>2
  <2> QED
    BY <1>1, <1>2, <2>1, <2>3, <2>4, <2>6
       DEF IInv, UnconnectedAreFresh, Fresh, RegisteredAreAccepted, NothingGivenUp
<1>8. ASSUME NEW n \in Name, RetryTimeout(n)
      PROVE  IInv'
  <2>1. /\ \A m \in Name : \/ state'[m] = state[m]
                           \/ state'[m] = "Connecting" /\ state[m] = "Unconnected"
        /\ UNCHANGED <<mConnectionUrl, mConnectionState, pRetryTimer, accepted, negotiated,
                       registration, toServer, toClient>>
    BY <1>8 DEF RetryTimeout, fConnect, serverVars
  <2>2. AcceptedAdvance'
    BY <1>2, <2>1, Undisturbed DEF AcceptedAdvance
  <2> QED
    BY <1>1, <2>1, <2>2
       DEF IInv, UnconnectedAreFresh, Fresh, RegisteredAreAccepted, NothingGivenUp
<1>9. ASSUME NEW n \in Name, fOnConnected(n)
      PROVE  IInv'
  <2>1. Fresh(n) /\ state[n] # "Connected"
    BY <1>9 DEF fOnConnected, IInv, UnconnectedAreFresh
  <2>2. /\ toServer'[n] = <<[type |-> "NegotiateConnection"]>>
        /\ \A m \in Name \ {n} : toServer'[m] = toServer[m] /\ state'[m] = state[m]
        /\ state'[n] = "Connected"
    BY <1>1, <1>9, <2>1 DEF fOnConnected, FirstMessages, Fresh, TypeOK
  <2>3. /\ accepted' = accepted \cup {n}
        /\ pRetryTimer' = pRetryTimer \ {n}
        /\ UNCHANGED <<mConnectionUrl, mConnectionState, negotiated, registration, toClient>>
    BY <1>9 DEF fOnConnected
  <2>4. AcceptedAdvance'
    <3> SUFFICES ASSUME NEW m \in accepted'
                 PROVE  Proposed(m)' \/ Answered(m)' \/ Settled(m)'
      BY DEF AcceptedAdvance
    <3>1. CASE m = n
      BY <2>1, <2>2, <2>3, <3>1 DEF Fresh, Proposed, IInv, RegisteredAreAccepted
    <3>2. CASE m # n
      BY <1>2, <2>2, <2>3, <3>2, Undisturbed
    <3> QED
      BY <3>1, <3>2
  <2> QED
    BY <1>1, <2>2, <2>3, <2>4
       DEF IInv, UnconnectedAreFresh, Fresh, RegisteredAreAccepted, NothingGivenUp
<1>10. ASSUME NEW n \in Name, fOnConnectionError(n)
       PROVE  IInv'
  BY <1>1, <1>10, ZenonT(40)
     DEF fOnConnectionError, IInv, UnconnectedAreFresh, Fresh, AcceptedAdvance, Proposed, Answered,
         Settled, Registering, RegisteredAreAccepted, NothingGivenUp
<1>11. ASSUME NEW n \in Name, Disconnected(n)
       PROVE  IInv'
  <2>1. n \notin accepted
    BY <1>2, <1>11 DEF Disconnected
  <2>2. /\ state'[n] = "Unconnected" /\ mConnectionState'[n] = "NotNegotiated"
        /\ toServer'[n] = <<>> /\ toClient'[n] = <<>>
        /\ \A m \in Name \ {n} : /\ state'[m] = state[m]
                                 /\ mConnectionState'[m] = mConnectionState[m]
                                 /\ toServer'[m] = toServer[m] /\ toClient'[m] = toClient[m]
    BY <1>1, <1>11 DEF Disconnected, fOnSocketDisconnection, TypeOK
  <2>3. /\ pRetryTimer' = pRetryTimer \cup {n}
        /\ UNCHANGED <<mConnectionUrl, accepted, negotiated, registration>>
    BY <1>11 DEF Disconnected, fOnSocketDisconnection, serverVars
  <2>4. AcceptedAdvance'
    BY <1>2, <2>1, <2>2, <2>3, Undisturbed DEF AcceptedAdvance
  <2> QED
    BY <1>1, <2>1, <2>2, <2>3, <2>4
       DEF IInv, UnconnectedAreFresh, Fresh, RegisteredAreAccepted, NothingGivenUp
<1>12. ASSUME NEW n \in Name, fOnTextMessageReceived(n)
       PROVE  IInv'
  <2>1. /\ state[n] = "Connected"
        /\ UNCHANGED <<pRetryTimer, accepted, negotiated, registration>>
        /\ \A m \in Name \ {n} : /\ mConnectionState'[m] = mConnectionState[m]
                                 /\ toServer'[m] = toServer[m] /\ toClient'[m] = toClient[m]
    BY <1>1, <1>12
       DEF fOnTextMessageReceived, NegotiationSuccessful, NegotiationError, fProcessBaseResponse,
           serverVars, TypeOK
  <2>2. \A m \in Name : \/ state'[m] = state[m] /\ mConnectionUrl'[m] = mConnectionUrl[m]
                        \/ state'[m] = "Connecting" /\ state[m] = "Unconnected"
                        \/ state'[m] = state[m] /\ state[m] # "Unconnected"
    <3>1. CASE fProcessBaseResponse(n)
      BY <3>1, ClientConstants DEF fProcessBaseResponse, fConnectToModule, fConnect, Name
    <3> QED
      BY <1>12, <3>1 DEF fOnTextMessageReceived, NegotiationSuccessful, NegotiationError
  <2>3. AcceptedAdvance'
    <3> SUFFICES ASSUME NEW m \in accepted'
                 PROVE  Proposed(m)' \/ Answered(m)' \/ Settled(m)'
      BY DEF AcceptedAdvance
    <3>1. CASE m = n
      BY <1>12, <2>1, <3>1, ClientAdvances
    <3>2. CASE m # n
      BY <1>2, <2>1, <3>2, Undisturbed
    <3> QED
      BY <3>1, <3>2
  <2>4. NothingGivenUp'
    BY <2>1, <2>2 DEF IInv, NothingGivenUp
  <2>5. UnconnectedAreFresh'
    BY <2>1, <2>2 DEF IInv, UnconnectedAreFresh, Fresh
  <2> QED
    BY <1>1, <2>1, <2>3, <2>4, <2>5 DEF IInv, RegisteredAreAccepted
<1>13. CASE UNCHANGED vars
  BY <1>1, <1>13
     DEF vars, clientVars, serverVars, IInv, UnconnectedAreFresh, Fresh, AcceptedAdvance, Proposed,
         Answered, Settled, Registering, RegisteredAreAccepted, NothingGivenUp
<1> QED
  BY <1>3, <1>4, <1>5, <1>6, <1>7, <1>8, <1>9, <1>10, <1>11, <1>12, <1>13 DEF Next

-----------------------------------------------------------------------------

(***************************************************************************)
(* The inductive invariant holds in every reachable state.                 *)
(***************************************************************************)
THEOREM Invariance == Spec => []IInv
<1>1. Init => IInv
  BY InitIInv
<1>2. IInv /\ [Next]_vars => IInv'
  BY NextIInv
<1> QED
  BY <1>1, <1>2, PTL DEF Spec

(***************************************************************************)
(* Every variable keeps its type.                                          *)
(***************************************************************************)
THEOREM TypeCorrect == Spec => []TypeOK
<1>1. IInv => TypeOK
  BY DEF IInv
<1> QED
  BY <1>1, Invariance, PTL

(***************************************************************************)
(* A connection the service holds for active has been negotiated by the    *)
(* server it is open to: a state kept from an earlier connection would     *)
(* show on one whose proposal is still under way.                          *)
(***************************************************************************)
THEOREM ActiveWasNegotiated == Spec => []ActiveIsNegotiated
<1>1. IInv => ActiveIsNegotiated
  BY DEF IInv, AcceptedAdvance, Proposed, Answered, Settled, ActiveIsNegotiated
<1> QED
  BY <1>1, Invariance, PTL

(***************************************************************************)
(* On every connection the service manager gets RegisterAPI at most once,  *)
(* and only after it accepted the negotiation.                             *)
(***************************************************************************)
THEOREM RegistersOnce == Spec => []RegisteredOnce
<1>1. IInv => RegisteredOnce
  <2> SUFFICES ASSUME IInv, serviceManager \in accepted
               PROVE  RegisteredOnce
    BY DEF RegisteredOnce
  <2> DEFINE onTheWay == {i \in DOMAIN toServer[serviceManager] :
                            toServer[serviceManager][i].type = "RegisterAPI"}
  <2>1. CASE toServer[serviceManager] = <<>>
    BY <2>1 DEF RegisteredOnce
  <2>2. CASE toServer[serviceManager] # <<>>
    <3>1. \/ toServer[serviceManager] = <<[type |-> "NegotiateConnection"]>>
          \/ /\ toServer[serviceManager] = <<[type |-> "RegisterAPI"]>>
             /\ serviceManager \in negotiated
             /\ registration = "none"
      BY <2>2 DEF IInv, AcceptedAdvance, Proposed, Answered, Settled, Registering
    <3> QED
      BY <3>1 DEF RegisteredOnce
  <2> QED
    BY <2>1, <2>2
<1> QED
  BY <1>1, Invariance, PTL

(***************************************************************************)
(* A name that has a socket which is neither open nor being opened has its *)
(* retry timer running.                                                    *)
(***************************************************************************)
THEOREM KeepsTrying == Spec => []NothingGivenUp
<1>1. IInv => NothingGivenUp
  BY DEF IInv
<1> QED
  BY <1>1, Invariance, PTL

-----------------------------------------------------------------------------
(* The run guard, for any number of processes.  The invariant behind it:   *)
(* whoever created the segment stays attached to it until it releases it,  *)
(* an attached segment exists, and create fails on one that exists.  The   *)
(* semaphore plays no part in it.                                          *)

CONSTANT Process
VARIABLES pc, lResult, segment, attached, fixing, mMemLock

Guard == INSTANCE NRunGuard

Creator(p) == (pc[p] = "created" /\ lResult[p]) \/ pc[p] = "running"

GuardInv ==
  /\ Guard!TypeOK
  /\ attached # {} \/ fixing # {} => segment
  /\ \A p \in Process : Creator(p) => p \in attached
  /\ \A p, q \in Process : Creator(p) /\ Creator(q) => p = q

(* It holds initially. *)
LEMMA InitGuardInv == Guard!Init => GuardInv
BY DEF Guard!Init, GuardInv, Guard!TypeOK, Creator, Guard!Place

(* Every step keeps it. *)
LEMMA StepGuardInv ==
  ASSUME GuardInv, NEW p \in Process, Guard!Step(p)
  PROVE  GuardInv'
<1> USE DEF GuardInv, Guard!TypeOK, Creator, Guard!Goes, Guard!Place
<1>1. CASE Guard!FixAttaches(p)
  BY <1>1 DEF Guard!FixAttaches
<1>2. CASE Guard!FixDetaches(p)
  BY <1>2 DEF Guard!FixDetaches, Guard!Kept
<1>3. CASE Guard!Looks(p)
  BY <1>3 DEF Guard!Looks, Guard!Acquires
<1>4. CASE Guard!Attaches(p)
  BY <1>4 DEF Guard!Attaches
<1>5. CASE Guard!Looked(p)
  BY <1>5 DEF Guard!Looked, Guard!Releases, Guard!Kept
<1>6. CASE Guard!Tries(p)
  BY <1>6 DEF Guard!Tries, Guard!Acquires
<1>7. CASE Guard!Creates(p)
  BY <1>7 DEF Guard!Creates
<1>8. CASE Guard!Created(p)
  BY <1>8 DEF Guard!Created, Guard!Releases
<1>9. CASE Guard!Ends(p)
  BY <1>9 DEF Guard!Ends
<1>10. CASE Guard!AcquiresToRelease(p)
  BY <1>10 DEF Guard!AcquiresToRelease, Guard!Acquires
<1>11. CASE Guard!fRelease(p)
  BY <1>11 DEF Guard!fRelease, Guard!Releases, Guard!Kept
<1>12. CASE Guard!Crash(p)
  BY <1>12 DEF Guard!Crash
<1>13. QED
  BY <1>1, <1>2, <1>3, <1>4, <1>5, <1>6, <1>7, <1>8, <1>9, <1>10, <1>11, <1>12 DEF Guard!Step

(* The inductive invariant holds in every reachable state. *)
LEMMA GuardInvariance == Guard!Spec => []GuardInv
<1>1. GuardInv /\ [Guard!Next]_Guard!vars => GuardInv'
  <2>1. CASE Guard!Next
    BY <2>1, StepGuardInv DEF Guard!Next
  <2>2. CASE UNCHANGED Guard!vars
    BY <2>2 DEF Guard!vars, GuardInv, Guard!TypeOK, Creator
  <2>3. QED
    BY <2>1, <2>2
<1>2. QED
  BY <1>1, InitGuardInv, PTL DEF Guard!Spec

(* The variables of the guard keep their types (NRunGuard.cpp). *)
THEOREM GuardTypeCorrect == Guard!Spec => []Guard!TypeOK
<1>1. GuardInv => Guard!TypeOK
  BY DEF GuardInv
<1>2. QED
  BY <1>1, GuardInvariance, PTL

(* Two processes never run at the same time, whatever crashes and however  *)
(* the looks of others interleave (NRunGuard.cpp 40-51).                   *)
THEOREM MutualExclusion == Guard!Spec => []Guard!OneRuns
<1>1. GuardInv => Guard!OneRuns
  BY DEF GuardInv, Guard!OneRuns, Creator
<1>2. QED
  BY <1>1, GuardInvariance, PTL
=============================================================================
