--------------------------- MODULE ServiceManager ---------------------------
(***************************************************************************)
(* The module registry of the ServiceManager process                       *)
(* (NServiceManagerController) on top of the connection table of its comm  *)
(* server (NWebSocketServer) and of the event queue of NCoreService.       *)
(*                                                                         *)
(* The process is one Qt event loop: a handler runs to its end before the  *)
(* next one starts, so each action below is one whole handler with every   *)
(* slot it runs synchronously.  What interleaves is the order in which     *)
(* connections, requests, disconnections and timer ticks reach the loop.   *)
(*                                                                         *)
(* A module process registers one API per connection (NCoreService sends   *)
(* RegisterAPI when its socket becomes active, always with its own name),  *)
(* so the registry key "name|socket" is represented by the socket id.      *)
(* Socket ids are never reused; two connections accepted in the same       *)
(* millisecond are the subject of module NWebSocketServer.                 *)
(***************************************************************************)
EXTENDS Naturals

CONSTANTS
  Module,        \* module names
  NoModule,      \* no process has opened the connection yet
  Conn,          \* ids the comm server gives to connections
  Role,          \* a role name in one of its versions
  ModuleRoles,   \* the roles each module offers
  Dependencies,  \* the roles each module depends on
  RetryLimit,    \* cTotal_DependencesSearchRetryTimes
  MessageID,     \* ids of requests, unique only within the process that sends them
  EventCounter,  \* subscription event counters clients ask for
  NoRequest,     \* an id that is not in the event queue
  CanStall       \* may a peer leave the closing handshake's bytes unread?

ASSUME SMConstants ==
  /\ ModuleRoles \in [Module -> SUBSET Role]
  /\ Dependencies \in [Module -> SUBSET Role]
  /\ NoModule \notin Module
  /\ RetryLimit \in Nat \ {0}
  /\ EventCounter \subseteq Nat \ {0}
  /\ CanStall \in BOOLEAN

VARIABLES
  moduleOn,                       \* the module process behind a connection
  mConnections,                   \* keys of NWebSocketServer::mConnections
  stuck,                          \* closed here, but never "disconnected"
  mModuleAPIPendingDependencies,  \* connections whose module waits
  mModuleAPIActive,               \* connections whose module is active
  retryCounter,                   \* mFindDependenciesRetryCounter, live list
  told,                           \* <<c, role, provider>> sent to c
  mMessageRequestEventQueue,      \* the subscription under each message id
  consolidated                    \* last consolidated API sent to subscribers

socketVars   == <<moduleOn, mConnections, stuck>>
registryVars == <<mModuleAPIPendingDependencies, mModuleAPIActive, retryCounter>>
clientVars   == <<told, mMessageRequestEventQueue, consolidated>>
vars         == <<socketVars, registryVars, clientVars>>

Subscription == [conn : Conn, mSubscriptionEventCounter : EventCounter]

Registered == mModuleAPIPendingDependencies \cup mModuleAPIActive

TypeOK ==
  /\ moduleOn \in [Conn -> Module \cup {NoModule}]
  /\ mConnections \subseteq Conn
  /\ stuck \subseteq Conn
  /\ mModuleAPIPendingDependencies \subseteq Conn
  /\ mModuleAPIActive \subseteq Conn
  /\ retryCounter \in [Conn -> 0 .. RetryLimit]
  /\ told \subseteq Conn \X Role \X Conn
  /\ mMessageRequestEventQueue \in [MessageID -> Subscription \cup {NoRequest}]
  /\ consolidated \in [Conn -> SUBSET Conn]

Init ==
  /\ moduleOn = [c \in Conn |-> NoModule]
  /\ mConnections = {}
  /\ stuck = {}
  /\ mModuleAPIPendingDependencies = {}
  /\ mModuleAPIActive = {}
  /\ retryCounter = [c \in Conn |-> 0]
  /\ told = {}
  /\ mMessageRequestEventQueue = [id \in MessageID |-> NoRequest]
  /\ consolidated = [c \in Conn |-> {}]

-----------------------------------------------------------------------------
(* Roles *)

fIsRoleSupported(p, r) == r \in ModuleRoles[moduleOn[p]]

(* The module on d depends on a role the module on c offers. *)
fAreRolesNeeded(d, c) ==
  Dependencies[moduleOn[d]] \cap ModuleRoles[moduleOn[c]] # {}

-----------------------------------------------------------------------------
(* Closing connections *)

(* Mutated forms: the second loop closes nobody, *)
DependentsOfActive(c, act) ==
  {d \in act \cap mConnections : c \in act /\ d # c /\ fAreRolesNeeded(d, c)}

(* dependents with another provider are spared, *)
DependentsWithoutAlternative(c, act) ==
  {d \in act \cap mConnections :
     /\ d # c
     /\ \E r \in Dependencies[moduleOn[d]] \cap ModuleRoles[moduleOn[c]] :
          \A p \in Registered \ {c} : ~fIsRoleSupported(p, r)}

(* pending modules are closed too, *)
DependentsOrPending(c, act) ==
  {d \in Registered \cap mConnections : d # c /\ fAreRolesNeeded(d, c)}

(* a dependent on which c itself depends is spared. *)
DependentsExceptMutual(c, act) ==
  {d \in act \cap mConnections :
     d # c /\ fAreRolesNeeded(d, c) /\ ~fAreRolesNeeded(c, d)}

(***************************************************************************)
(* The connections that fOnWebSocketDisconnected(c) closes: every active   *)
(* module on another socket that needs a role of the module on c.          *)
(***************************************************************************)
Dependents(c, act) ==
  {d \in act \cap mConnections : d # c /\ fAreRolesNeeded(d, c)}

(***************************************************************************)
(* QWebSocket::close() normally emits disconnected() before it returns, so *)
(* closing a dependent runs fOnWebSocketDisconnected for it at once, and   *)
(* so on down the chain.  The recursion ends because a socket leaves       *)
(* mConnections before its callback runs.  When the bytes of the closing   *)
(* handshake cannot be written (stalled), disconnected() comes only after  *)
(* deleteLater() has destroyed the NWebSocket: the callback is lost, and   *)
(* the chain does not continue from that socket.                           *)
(*                                                                         *)
(* The sockets closed starting from `start` are the least set that         *)
(* contains it and is closed under these callbacks.                        *)
(***************************************************************************)
Cascaded(T, act, reg, stalled) ==
  \A c \in (T \cap reg) \ stalled : Dependents(c, act) \subseteq T

ClosedFrom(start, act, reg, stalled) ==
  LET closures == {T \in SUBSET mConnections :
                     start \subseteq T /\ Cascaded(T, act, reg, stalled)}
  IN  {d \in mConnections : \A T \in closures : d \in T}

StalledChoices(candidates) ==
  IF CanStall THEN SUBSET candidates ELSE {{}}

-----------------------------------------------------------------------------
(* GetConsolidatedAPI *)

(***************************************************************************)
(* A subscription's mEventCounter is 1 when it is queued and grows only    *)
(* when it runs, which is when it is a multiple of the counter asked for:  *)
(* it is due at every event if that is 1, and otherwise never (module      *)
(* RequestDispatch counts).                                                *)
(***************************************************************************)
Due(c, queue) ==
  \E id \in MessageID : /\ queue[id] # NoRequest
                        /\ queue[id].conn = c
                        /\ queue[id].mSubscriptionEventCounter = 1

(* Mutated form: the event is emitted before the registry changes. *)
sEventTriggeredTooEarly(emitted, conns, act) ==
  [c \in Conn |-> IF c \notin conns THEN {}
                  ELSE IF emitted /\ Due(c, mMessageRequestEventQueue) THEN mModuleAPIActive
                  ELSE consolidated[c]]

(***************************************************************************)
(* What every connection was last sent once a handler has emitted          *)
(* sEventTriggered("GetConsolidatedAPI") or not: the signal runs the       *)
(* method again for every subscription in the event queue that is due, and *)
(* the answer is dropped when the socket is no longer in the table.        *)
(***************************************************************************)
sEventTriggered(emitted, conns, act) ==
  [c \in Conn |-> IF c \notin conns THEN {}
                  ELSE IF emitted /\ Due(c, mMessageRequestEventQueue) THEN act
                  ELSE consolidated[c]]

(***************************************************************************)
(* A request is queued unless its id is in the queue, be it by another     *)
(* client's request or by one whose connection is gone.                    *)
(***************************************************************************)
Queued(c, id, counter) ==
  IF mMessageRequestEventQueue[id] # NoRequest THEN mMessageRequestEventQueue
  ELSE [mMessageRequestEventQueue EXCEPT
          ![id] = [conn |-> c, mSubscriptionEventCounter |-> counter]]

(***************************************************************************)
(* The request is answered and queued.  A counter of 0 is refused          *)
(* (fValidEventCounter) and changes nothing.  What a client is sent that   *)
(* has no subscription that runs is not kept.                              *)
(***************************************************************************)
GetConsolidatedAPI(c, id, counter) ==
  /\ c \in mConnections
  /\ mMessageRequestEventQueue' = Queued(c, id, counter)
  /\ consolidated' = IF Due(c, Queued(c, id, counter))
                     THEN [consolidated EXCEPT ![c] = mModuleAPIActive]
                     ELSE consolidated
  /\ UNCHANGED <<socketVars, registryVars, told>>

-----------------------------------------------------------------------------
(* Registration and the dependency search *)

Accept(c, m) ==
  /\ moduleOn[c] = NoModule
  /\ moduleOn' = [moduleOn EXCEPT ![c] = m]
  /\ mConnections' = mConnections \cup {c}
  /\ UNCHANGED <<stuck, registryVars, clientVars>>

(* A second request while the first one is pending is ignored. *)
RegisterAPI(c) ==
  /\ c \in mConnections
  /\ c \notin mModuleAPIPendingDependencies
  /\ mModuleAPIPendingDependencies' = mModuleAPIPendingDependencies \cup {c}
  /\ retryCounter' = [retryCounter EXCEPT ![c] = 0]
  /\ UNCHANGED <<socketVars, mModuleAPIActive, clientVars>>

(* Mutated form: only active modules count as providers. *)
ActiveProviders == mModuleAPIActive

(***************************************************************************)
(* A dependency is satisfied by any active module and by any pending one,  *)
(* the asking module included.                                             *)
(***************************************************************************)
Providers == Registered

Satisfied(c) ==
  \A r \in Dependencies[moduleOn[c]] :
    \E p \in Providers : fIsRoleSupported(p, r)

Wanted(ready) ==
  {w \in ready \X Role : w[2] \in Dependencies[moduleOn[w[1]]]}

(* Mutated form: every pass increments the counter of the live list, the   *)
(* refusing one included.                                                  *)
CountedEveryPass ==
  [c \in Conn |-> IF c \in mModuleAPIPendingDependencies /\ ~Satisfied(c)
                  THEN retryCounter[c] + 1 ELSE retryCounter[c]]

(***************************************************************************)
(* The counters after a pass.  A failed search increments the counter of   *)
(* the copy the pass iterates over, which is then thrown away: the live    *)
(* list keeps its counters.                                                *)
(***************************************************************************)
CountersAfterSearch == retryCounter

(***************************************************************************)
(* The 0.5 s timer.  One pass over a copy of the pending list: a module    *)
(* whose counter reached the limit is refused and its connection closed;   *)
(* any other module whose dependencies are all satisfied is answered with  *)
(* one provider per role and becomes active.  Activations only move        *)
(* modules from one list to the other, so the order of the pass does not   *)
(* change which of them are satisfied; which of several providers is       *)
(* reported (map and list order in the code) is left open.                 *)
(***************************************************************************)
fFindDependencies ==
  LET refused == {c \in mModuleAPIPendingDependencies : retryCounter[c] >= RetryLimit}
      ready   == {c \in mModuleAPIPendingDependencies \ refused : Satisfied(c)}
      act     == mModuleAPIActive \cup ready
  IN
  /\ mModuleAPIPendingDependencies # {}
  /\ \E chosen \in [Wanted(ready) -> Registered],
        stalled \in StalledChoices(refused) :
       LET closed == ClosedFrom(refused, act, Registered, stalled)
           gone   == closed \ stalled
       IN
       /\ \A w \in Wanted(ready) : fIsRoleSupported(chosen[w], w[2])
       /\ mConnections' = mConnections \ closed
       /\ stuck' = stuck \cup (closed \cap stalled)
       /\ mModuleAPIPendingDependencies' = (mModuleAPIPendingDependencies \ ready) \ gone
       /\ mModuleAPIActive' = act \ gone
       /\ told' = {t \in told \cup {<<w[1], w[2], chosen[w]>> : w \in Wanted(ready)} :
                     t[1] \in mConnections \ closed}
       /\ consolidated' = sEventTriggered(ready \cup gone # {}, mConnections \ closed, act \ gone)
  /\ retryCounter' = CountersAfterSearch
  /\ UNCHANGED <<moduleOn, mMessageRequestEventQueue>>

-----------------------------------------------------------------------------
(* Disconnection *)

(* Mutated form: a socket found among the active ones is not looked up in  *)
(* the pending list.                                                       *)
RemovedFromOneList(gone) ==
  /\ mModuleAPIActive' = mModuleAPIActive \ gone
  /\ mModuleAPIPendingDependencies' =
       mModuleAPIPendingDependencies \ (gone \ mModuleAPIActive)

(* Both loops run: a module may be active and pending again. *)
fOnWebSocketDisconnected(gone) ==
  /\ mModuleAPIActive' = mModuleAPIActive \ gone
  /\ mModuleAPIPendingDependencies' = mModuleAPIPendingDependencies \ gone

(***************************************************************************)
(* A peer's connection ends, and only active modules are closed with it,   *)
(* each of which may stall: fSocketDisconnected removes it from the        *)
(* table, fOnWebSocketDisconnected closes its dependents, removes it from  *)
(* both lists and triggers the event.  Subscriptions are never removed.    *)
(***************************************************************************)
fSocketDisconnected(c) ==
  /\ c \in mConnections
  /\ \E stalled \in StalledChoices((mModuleAPIActive \cap mConnections) \ {c}) :
       LET closed == ClosedFrom({c}, mModuleAPIActive, Registered, stalled)
           gone   == closed \ stalled
       IN
       /\ stalled \subseteq closed
       /\ mConnections' = mConnections \ closed
       /\ stuck' = stuck \cup stalled
       /\ fOnWebSocketDisconnected(gone)
       /\ told' = {t \in told : t[1] \notin closed}
       /\ consolidated' = sEventTriggered(gone \cap Registered # {}, mConnections \ closed,
                                           mModuleAPIActive \ gone)
  /\ UNCHANGED <<moduleOn, retryCounter, mMessageRequestEventQueue>>

-----------------------------------------------------------------------------

Next ==
  \/ \E c \in Conn, m \in Module : Accept(c, m)
  \/ \E c \in Conn : RegisterAPI(c)
  \/ \E c \in Conn, id \in MessageID, counter \in EventCounter :
       GetConsolidatedAPI(c, id, counter)
  \/ fFindDependencies
  \/ \E c \in Conn : fSocketDisconnected(c)

Spec == Init /\ [][Next]_vars

(* The search timer is periodic and the event loop serves it. *)
Fairness == WF_vars(fFindDependencies)

FairSpec == Spec /\ Fairness

-----------------------------------------------------------------------------
(* Safety *)

(***************************************************************************)
(* No ghosts: whatever is in the registry sits on a connection that is     *)
(* open, or on one whose peer never let the close finish (stuck), so that  *)
(* its disconnection was never reported to fOnWebSocketDisconnected.       *)
(***************************************************************************)
RegistryHasNoGhosts ==
  /\ Registered \subseteq mConnections \cup stuck
  /\ mConnections \cap stuck = {}

(***************************************************************************)
(* As long as an active module is connected, every role it depends on is   *)
(* offered by a registered module, although fFindDependencies lets merely  *)
(* pending modules count and any module may disconnect at any time.        *)
(***************************************************************************)
ActiveDependenciesRegistered ==
  \A c \in mModuleAPIActive \cap mConnections :
    \A r \in Dependencies[moduleOn[c]] :
      \E p \in Registered : fIsRoleSupported(p, r)

(***************************************************************************)
(* Every provider a connected module was told to connect to in the answer  *)
(* to its RegisterAPI is still registered: the provider's disconnection    *)
(* closed the module's own connection, even when another module offers     *)
(* the same role.                                                          *)
(***************************************************************************)
ToldProvidersRegistered ==
  \A t \in told : /\ t[1] \in mModuleAPIActive
                  /\ t[3] \in Registered
                  /\ fIsRoleSupported(t[3], t[2])

(***************************************************************************)
(* Whoever is connected and has a subscription with counter 1 in the event *)
(* queue was last sent the consolidated API of the modules that are active *)
(* now: no change of mModuleAPIActive goes unannounced, in whatever order  *)
(* nested callbacks remove entries.  A client whose request came under an  *)
(* id that was taken is in the queue under no id and is promised nothing.  *)
(***************************************************************************)
SubscribersUpToDate ==
  \A c \in mConnections :
    Due(c, mMessageRequestEventQueue) => consolidated[c] = mModuleAPIActive

(***************************************************************************)
(* A step closes at most one connection of its own accord; every other     *)
(* connection closed with it belongs to an active module that needs a role *)
(* of a registered module closed in the same step.  A disconnection never  *)
(* takes down unrelated modules or modules that are only pending.          *)
(***************************************************************************)
OnlyDependentsClosed ==
  [][LET closed == mConnections \ mConnections'
     IN  \A c, d \in closed :
           c # d => \E e \in {c, d} : \E p \in (closed \cap Registered) \ {e} :
                      e \in mModuleAPIActive /\ fAreRolesNeeded(e, p)]_vars

-----------------------------------------------------------------------------
(* Liveness *)

(***************************************************************************)
(* A pending module whose dependencies stay satisfied by registered        *)
(* modules becomes active, also when two modules depend on each other.     *)
(***************************************************************************)
DependenciesRegistered(c) ==
  \A r \in Dependencies[moduleOn[c]] :
    \E p \in Registered : r \in ModuleRoles[moduleOn[p]]

SatisfiedBecomesActive ==
  \A c \in Conn :
    c \in mModuleAPIPendingDependencies /\ DependenciesRegistered(c)
      ~> \/ c \notin mModuleAPIPendingDependencies
         \/ ~DependenciesRegistered(c)

-----------------------------------------------------------------------------
(* Refinement: the connected part of the registry is a ModuleRegistry. *)

Registry == INSTANCE ModuleRegistry WITH
  member <- [c \in Conn |-> IF c \in Registered THEN moduleOn[c] ELSE NoModule],
  active <- mModuleAPIActive

(* Without stalled closes the service manager keeps the registry's promise. *)
ImplementsRegistry == Registry!Spec
=============================================================================
