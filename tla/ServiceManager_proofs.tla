----------------------- MODULE ServiceManager_proofs -----------------------
(***************************************************************************)
(* Proofs about ServiceManager for every set of modules, roles and         *)
(* connections, with and without stalled closes.                           *)
(***************************************************************************)
EXTENDS ServiceManager, TLAPS

(***************************************************************************)
(* A connection is known to belong to a module before it is used.          *)
(***************************************************************************)
UsedHaveModules ==
  \A c \in mConnections \cup stuck : moduleOn[c] \in Module

(***************************************************************************)
(* A search counts in the copy it throws away: it never refuses anybody.   *)
(***************************************************************************)
NeverCounted == \A c \in Conn : retryCounter[c] = 0

(***************************************************************************)
(* Providers are reported to connected clients, for roles they depend on.  *)
(***************************************************************************)
ToldWhatWasAsked ==
  \A t \in told : /\ t[1] \in mConnections
                  /\ t[2] \in Dependencies[moduleOn[t[1]]]

(***************************************************************************)
(* The inductive invariant.  ActiveDependenciesRegistered is inductive     *)
(* only with RegistryHasNoGhosts: a registered module found on no socket   *)
(* could otherwise be told to new clients and vanish without closing them. *)
(***************************************************************************)
IInv ==
  /\ TypeOK
  /\ NeverCounted
  /\ UsedHaveModules
  /\ RegistryHasNoGhosts
  /\ ActiveDependenciesRegistered
  /\ ToldWhatWasAsked
  /\ ToldProvidersRegistered

-----------------------------------------------------------------------------
(* The closing cascade *)

(***************************************************************************)
(* A cascade closes connections of the table only.                         *)
(***************************************************************************)
LEMMA ClosedFromTable ==
  ASSUME NEW start, NEW act, NEW reg, NEW stalled
  PROVE  ClosedFrom(start, act, reg, stalled) \subseteq mConnections
BY DEF ClosedFrom

(***************************************************************************)
(* A cascade closes the connections it starts from.                        *)
(***************************************************************************)
LEMMA ClosedFromStart ==
  ASSUME NEW start, NEW act, NEW reg, NEW stalled, start \subseteq mConnections
  PROVE  start \subseteq ClosedFrom(start, act, reg, stalled)
BY DEF ClosedFrom

(***************************************************************************)
(* Nobody who needs a role of a closed, registered, reported module stays  *)
(* connected and active.                                                   *)
(***************************************************************************)
LEMMA ClosedFromDependents ==
  ASSUME NEW start, NEW act, NEW reg, NEW stalled,
         NEW c \in ClosedFrom(start, act, reg, stalled), c \in reg, c \notin stalled,
         NEW d \in Dependents(c, act)
  PROVE  d \in ClosedFrom(start, act, reg, stalled)
<1>1. d \in mConnections
  BY DEF Dependents
<1>2. ASSUME NEW T \in SUBSET mConnections,
             start \subseteq T, Cascaded(T, act, reg, stalled)
      PROVE  d \in T
  <2>1. c \in T
    BY <1>2 DEF ClosedFrom
  <2>2. Dependents(c, act) \subseteq T
    BY <1>2, <2>1 DEF Cascaded
  <2>3. QED
    BY <2>2
<1>3. QED
  BY <1>1, <1>2 DEF ClosedFrom

-----------------------------------------------------------------------------
(* The invariant *)

(***************************************************************************)
(* The service manager starts in the invariant: nothing is registered.     *)
(***************************************************************************)
LEMMA InitIInv == Init => IInv
BY SMConstants DEF Init, IInv, TypeOK, NeverCounted, UsedHaveModules, ToldWhatWasAsked,
  RegistryHasNoGhosts, ActiveDependenciesRegistered, ToldProvidersRegistered, Registered

(***************************************************************************)
(* With the counters at zero a search refuses nobody and closes nothing.   *)
(***************************************************************************)
LEMMA SearchClosesNothing ==
  ASSUME IInv
  PROVE  {c \in mModuleAPIPendingDependencies : retryCounter[c] >= RetryLimit} = {}
BY SMConstants DEF IInv, TypeOK, NeverCounted

(***************************************************************************)
(* A cascade that starts from no connection closes none.                   *)
(***************************************************************************)
LEMMA NothingClosed ==
  ASSUME NEW act, NEW reg, NEW stalled
  PROVE  ClosedFrom({}, act, reg, stalled) = {}
<1>1. Cascaded({}, act, reg, stalled)
  BY DEF Cascaded
<1>2. {} \in SUBSET mConnections
  OBVIOUS
<1>3. QED
  BY <1>1, <1>2 DEF ClosedFrom

(***************************************************************************)
(* A new connection has a fresh id: nothing registered or told is about it.*)
(***************************************************************************)
LEMMA AcceptIInv ==
  ASSUME IInv, NEW c \in Conn, NEW m \in Module, Accept(c, m)
  PROVE  IInv'
<1> USE DEF Accept, socketVars, registryVars, clientVars
<1>1. TypeOK' /\ NeverCounted'
  BY DEF IInv, TypeOK, NeverCounted
<1>2. c \notin mConnections \cup stuck
  BY SMConstants DEF IInv, UsedHaveModules
<1>3. c \notin Registered
  BY <1>2 DEF IInv, RegistryHasNoGhosts
<1>4. \A d \in Conn : d # c => moduleOn'[d] = moduleOn[d]
  BY DEF IInv, TypeOK
<1>5. moduleOn'[c] = m
  BY DEF IInv, TypeOK
<1>6. UsedHaveModules'
  BY <1>4, <1>5 DEF IInv, UsedHaveModules, TypeOK
<1>7. RegistryHasNoGhosts'
  BY <1>2 DEF IInv, RegistryHasNoGhosts, Registered
<1>8. Registered' = Registered
  BY DEF Registered
<1>9. ActiveDependenciesRegistered'
  <2>1. mModuleAPIActive' \cap mConnections' = mModuleAPIActive \cap mConnections
    BY <1>3 DEF Registered
  <2>2. Registered \subseteq Conn
    BY DEF Registered, IInv, TypeOK
  <2>3. \A d \in Registered : moduleOn'[d] = moduleOn[d]
    BY <1>3, <1>4, <2>2
  <2>4. mModuleAPIActive \subseteq Registered
    BY DEF Registered
  <2>5. QED
    BY <1>8, <2>1, <2>3, <2>4 DEF IInv, ActiveDependenciesRegistered, fIsRoleSupported
<1>10. ToldProvidersRegistered'
  <2>1. \A d \in Registered : moduleOn'[d] = moduleOn[d]
    BY <1>3, <1>4 DEF Registered, IInv, TypeOK
  <2>2. QED
    BY <1>8, <2>1 DEF IInv, ToldProvidersRegistered, fIsRoleSupported
<1>11. ToldWhatWasAsked'
  BY <1>2, <1>4 DEF IInv, TypeOK, ToldWhatWasAsked
<1>12. QED
  BY <1>1, <1>6, <1>7, <1>9, <1>10, <1>11 DEF IInv

(***************************************************************************)
(* A registration only adds a provider (RegisterAPI).                      *)
(***************************************************************************)
LEMMA RegisterIInv ==
  ASSUME IInv, NEW c \in Conn, RegisterAPI(c)
  PROVE  IInv'
<1> USE DEF RegisterAPI, socketVars, clientVars
<1>1. TypeOK' /\ NeverCounted'
  BY SMConstants DEF IInv, TypeOK, NeverCounted
<1>2. UsedHaveModules'
  BY DEF IInv, UsedHaveModules
<1>3. Registered' = Registered \cup {c}
  BY DEF Registered
<1>4. RegistryHasNoGhosts'
  BY <1>3 DEF IInv, RegistryHasNoGhosts
<1>5. ActiveDependenciesRegistered'
  BY <1>3 DEF IInv, ActiveDependenciesRegistered, fIsRoleSupported
<1>6. ToldProvidersRegistered'
  BY <1>3 DEF IInv, ToldProvidersRegistered, fIsRoleSupported
<1>7. QED
  BY <1>1, <1>2, <1>4, <1>5, <1>6 DEF IInv, ToldWhatWasAsked

(***************************************************************************)
(* GetConsolidatedAPI leaves the registry and the connections alone.       *)
(***************************************************************************)
LEMMA SubscribeIInv ==
  ASSUME IInv, NEW c \in Conn, NEW id \in MessageID, NEW counter \in EventCounter,
         GetConsolidatedAPI(c, id, counter)
  PROVE  IInv'
<1> USE DEF GetConsolidatedAPI, Queued, socketVars, registryVars
<1>1. TypeOK' /\ NeverCounted'
  BY DEF IInv, TypeOK, NeverCounted, Subscription
<1>2. Registered' = Registered
  BY DEF Registered
<1>3. QED
  BY <1>1, <1>2 DEF IInv, UsedHaveModules, RegistryHasNoGhosts,
     ActiveDependenciesRegistered, ToldWhatWasAsked, ToldProvidersRegistered,
     fIsRoleSupported

(***************************************************************************)
(* A search pass moves the satisfied modules from the pending list to the  *)
(* active ones and tells each of them one registered provider per role.    *)
(***************************************************************************)
LEMMA SearchIInv ==
  ASSUME IInv, fFindDependencies
  PROVE  IInv'
<1> DEFINE refused == {c \in mModuleAPIPendingDependencies : retryCounter[c] >= RetryLimit}
           ready == {c \in mModuleAPIPendingDependencies \ refused : Satisfied(c)}
           act == mModuleAPIActive \cup ready
<1>1. refused = {}
  BY SearchClosesNothing
<1>2. PICK chosen \in [Wanted(ready) -> Registered], stalled \in StalledChoices(refused) :
        LET closed == ClosedFrom(refused, act, Registered, stalled)
            gone   == closed \ stalled
        IN
        /\ \A w \in Wanted(ready) : fIsRoleSupported(chosen[w], w[2])
        /\ mConnections' = mConnections \ closed
        /\ stuck' = stuck \cup (closed \cap stalled)
        /\ mModuleAPIPendingDependencies' = (mModuleAPIPendingDependencies \ ready) \ gone
        /\ mModuleAPIActive' = act \ gone
        /\ told' = {t \in told \cup {<<w[1], w[2], chosen[w]>> : w \in Wanted(ready)} :
                      t[1] \in mConnections \ closed}
        /\ consolidated' = sEventTriggered(ready \cup gone # {}, mConnections \ closed, act \ gone)
  BY Zenon DEF fFindDependencies
<1>3. ClosedFrom(refused, act, Registered, stalled) = {}
  BY <1>1, NothingClosed
<1> HIDE DEF refused
<1>4. /\ \A w \in Wanted(ready) : fIsRoleSupported(chosen[w], w[2])
      /\ mConnections' = mConnections
      /\ stuck' = stuck
      /\ mModuleAPIPendingDependencies' = mModuleAPIPendingDependencies \ ready
      /\ mModuleAPIActive' = act
      /\ told' = {t \in told \cup {<<w[1], w[2], chosen[w]>> : w \in Wanted(ready)} :
                    t[1] \in mConnections}
      /\ consolidated' = sEventTriggered(ready # {}, mConnections, act)
  BY <1>2, <1>3
<1>5. /\ moduleOn' = moduleOn
      /\ retryCounter' = retryCounter
      /\ mMessageRequestEventQueue' = mMessageRequestEventQueue
  BY DEF fFindDependencies, CountersAfterSearch
<1>6. ready \subseteq mModuleAPIPendingDependencies
  OBVIOUS
<1>7. \A c \in ready : Satisfied(c)
  OBVIOUS
<1> HIDE DEF ready
<1>8. Registered' = Registered
  BY <1>4, <1>6 DEF Registered
<1>9. Registered \subseteq Conn
  BY DEF Registered, IInv, TypeOK
<1>10. \A w \in Wanted(ready) : /\ w[1] \in ready
                                /\ w[2] \in Role
                                /\ w[2] \in Dependencies[moduleOn[w[1]]]
                                /\ chosen[w] \in Registered
  BY <1>2 DEF Wanted
<1>11. TypeOK'
  <2>1. told' \subseteq Conn \X Role \X Conn
    BY <1>4, <1>6, <1>9, <1>10 DEF IInv, TypeOK
  <2>2. consolidated' \in [Conn -> SUBSET Conn]
    BY <1>4, <1>6 DEF sEventTriggered, IInv, TypeOK
  <2>3. QED
    BY <1>4, <1>5, <1>6, <2>1, <2>2 DEF IInv, TypeOK
<1>12. NeverCounted' /\ UsedHaveModules'
  BY <1>4, <1>5 DEF IInv, NeverCounted, UsedHaveModules
<1>13. RegistryHasNoGhosts'
  BY <1>4, <1>8 DEF IInv, RegistryHasNoGhosts
<1>14. ActiveDependenciesRegistered'
  BY <1>4, <1>5, <1>7, <1>8
     DEF IInv, ActiveDependenciesRegistered, Satisfied, Providers, fIsRoleSupported
<1>15. ToldProvidersRegistered'
  BY <1>4, <1>5, <1>6, <1>8, <1>10
     DEF IInv, ToldProvidersRegistered, fIsRoleSupported
<1>16. ToldWhatWasAsked'
  BY <1>4, <1>5, <1>10 DEF IInv, ToldWhatWasAsked
<1>17. QED
  BY <1>11, <1>12, <1>13, <1>14, <1>15, <1>16 DEF IInv

(***************************************************************************)
(* A disconnection closes whoever depends on a module that leaves the      *)
(* registry, so nobody is left connected who was promised its roles.       *)
(***************************************************************************)
LEMMA DisconnectIInv ==
  ASSUME IInv, NEW c \in Conn, fSocketDisconnected(c)
  PROVE  IInv'
<1>1. PICK stalled \in StalledChoices((mModuleAPIActive \cap mConnections) \ {c}) :
        LET closed == ClosedFrom({c}, mModuleAPIActive, Registered, stalled)
            gone   == closed \ stalled
        IN
        /\ stalled \subseteq closed
        /\ mConnections' = mConnections \ closed
        /\ stuck' = stuck \cup stalled
        /\ fOnWebSocketDisconnected(gone)
        /\ told' = {t \in told : t[1] \notin closed}
        /\ consolidated' = sEventTriggered(gone \cap Registered # {}, mConnections \ closed,
                                           mModuleAPIActive \ gone)
  BY Zenon DEF fSocketDisconnected
<1> DEFINE closed == ClosedFrom({c}, mModuleAPIActive, Registered, stalled)
           gone == closed \ stalled
<1>2. closed \subseteq mConnections
  BY ClosedFromTable
<1>3. \A p \in gone \cap Registered, d \in mModuleAPIActive \cap mConnections :
        d # p /\ fAreRolesNeeded(d, p) => d \in closed
  BY ClosedFromDependents DEF Dependents
<1> HIDE DEF closed
<1>4. /\ stalled \subseteq closed
      /\ mConnections' = mConnections \ closed
      /\ stuck' = stuck \cup stalled
      /\ mModuleAPIActive' = mModuleAPIActive \ gone
      /\ mModuleAPIPendingDependencies' = mModuleAPIPendingDependencies \ gone
      /\ told' = {t \in told : t[1] \notin closed}
      /\ consolidated' = sEventTriggered(gone \cap Registered # {}, mConnections \ closed,
                                         mModuleAPIActive \ gone)
  BY <1>1 DEF fOnWebSocketDisconnected, closed
<1>5. /\ moduleOn' = moduleOn
      /\ retryCounter' = retryCounter
      /\ mMessageRequestEventQueue' = mMessageRequestEventQueue
  BY DEF fSocketDisconnected
<1>6. Registered' = Registered \ gone
  BY <1>4 DEF Registered
<1>7. TypeOK'
  <2>1. consolidated' \in [Conn -> SUBSET Conn]
    BY <1>4 DEF sEventTriggered, IInv, TypeOK
  <2>2. QED
    BY <1>2, <1>4, <1>5, <2>1 DEF IInv, TypeOK
<1>8. NeverCounted' /\ UsedHaveModules'
  BY <1>2, <1>4, <1>5 DEF IInv, NeverCounted, UsedHaveModules
<1>9. RegistryHasNoGhosts'
  BY <1>2, <1>4, <1>6 DEF IInv, RegistryHasNoGhosts
<1>10. ActiveDependenciesRegistered'
  <2> SUFFICES ASSUME NEW d \in mModuleAPIActive' \cap mConnections',
                      NEW r \in Dependencies[moduleOn[d]]
               PROVE  \E p \in Registered' : fIsRoleSupported(p, r)
    BY <1>5 DEF ActiveDependenciesRegistered, fIsRoleSupported
  <2>1. d \in mModuleAPIActive \cap mConnections /\ d \notin closed
    BY <1>4
  <2>2. PICK p \in Registered : fIsRoleSupported(p, r)
    BY <2>1 DEF IInv, ActiveDependenciesRegistered
  <2>3. CASE p \in gone
    <3>1. d # p
      BY <2>1, <2>3
    <3>2. fAreRolesNeeded(d, p)
      BY <2>2 DEF fAreRolesNeeded, fIsRoleSupported
    <3>3. QED
      BY <1>3, <2>1, <2>3, <3>1, <3>2
  <2>4. CASE p \notin gone
    BY <1>6, <2>2, <2>4
  <2>5. QED
    BY <2>3, <2>4
<1>11. ToldProvidersRegistered'
  <2> SUFFICES ASSUME NEW t \in told'
               PROVE  /\ t[1] \in mModuleAPIActive'
                      /\ t[3] \in Registered'
                      /\ fIsRoleSupported(t[3], t[2])
    BY <1>5 DEF ToldProvidersRegistered, fIsRoleSupported
  <2>1. t \in told /\ t[1] \notin closed
    BY <1>4
  <2>2. /\ t[1] \in mModuleAPIActive
        /\ t[3] \in Registered
        /\ fIsRoleSupported(t[3], t[2])
    BY <2>1 DEF IInv, ToldProvidersRegistered
  <2>3. t[1] \in mModuleAPIActive'
    BY <1>4, <2>1, <2>2
  <2>4. t[1] \in mConnections /\ t[2] \in Dependencies[moduleOn[t[1]]]
    BY <2>1 DEF IInv, ToldWhatWasAsked
  <2>5. fAreRolesNeeded(t[1], t[3])
    BY <2>2, <2>4 DEF fAreRolesNeeded, fIsRoleSupported
  <2>6. t[3] \notin gone
    BY <1>3, <2>1, <2>2, <2>4, <2>5
  <2>7. QED
    BY <1>6, <2>2, <2>3, <2>6
<1>12. ToldWhatWasAsked'
  BY <1>4, <1>5 DEF IInv, ToldWhatWasAsked
<1>13. QED
  BY <1>7, <1>8, <1>9, <1>10, <1>11, <1>12 DEF IInv

(***************************************************************************)
(* Every step of the service manager keeps the invariant.                  *)
(***************************************************************************)
LEMMA NextIInv == IInv /\ [Next]_vars => IInv'
<1> SUFFICES ASSUME IInv, [Next]_vars
             PROVE  IInv'
  OBVIOUS
<1>1. ASSUME NEW c \in Conn, NEW m \in Module, Accept(c, m)
      PROVE  IInv'
  BY <1>1, AcceptIInv
<1>2. ASSUME NEW c \in Conn, RegisterAPI(c)
      PROVE  IInv'
  BY <1>2, RegisterIInv
<1>3. ASSUME NEW c \in Conn, NEW id \in MessageID, NEW counter \in EventCounter,
             GetConsolidatedAPI(c, id, counter)
      PROVE  IInv'
  BY <1>3, SubscribeIInv
<1>4. CASE fFindDependencies
  BY <1>4, SearchIInv
<1>5. ASSUME NEW c \in Conn, fSocketDisconnected(c)
      PROVE  IInv'
  BY <1>5, DisconnectIInv
<1>6. CASE UNCHANGED vars
  BY <1>6 DEF vars, socketVars, registryVars, clientVars, IInv, TypeOK, NeverCounted,
     UsedHaveModules, RegistryHasNoGhosts, ActiveDependenciesRegistered, ToldWhatWasAsked,
     ToldProvidersRegistered, Registered, fIsRoleSupported
<1>7. QED
  BY <1>1, <1>2, <1>3, <1>4, <1>5, <1>6 DEF Next

(***************************************************************************)
(* The invariant holds in every state of every behaviour.                  *)
(***************************************************************************)
LEMMA IInvHolds == Spec => []IInv
<1>1. Init => IInv
  BY InitIInv
<1>2. IInv /\ [Next]_vars => IInv'
  BY NextIInv
<1>3. QED
  BY <1>1, <1>2, PTL DEF Spec

-----------------------------------------------------------------------------
(* The theorems *)

(***************************************************************************)
(* The variables of the service manager keep their types.                  *)
(***************************************************************************)
THEOREM TypeCorrect == Spec => []TypeOK
<1>1. IInv => TypeOK
  BY DEF IInv
<1>2. QED
  BY <1>1, IInvHolds, PTL

(***************************************************************************)
(* Registered modules sit on connections that are open or that never       *)
(* finished closing (NWebSocketServer::fRemoveConnections).                *)
(***************************************************************************)
THEOREM NoGhosts == Spec => []RegistryHasNoGhosts
<1>1. IInv => RegistryHasNoGhosts
  BY DEF IInv
<1>2. QED
  BY <1>1, IInvHolds, PTL

(***************************************************************************)
(* A connected active module always finds every role it depends on among   *)
(* the registered modules (fFindDependencies, fOnWebSocketDisconnected).   *)
(***************************************************************************)
THEOREM DependenciesAlwaysRegistered == Spec => []ActiveDependenciesRegistered
<1>1. IInv => ActiveDependenciesRegistered
  BY DEF IInv
<1>2. QED
  BY <1>1, IInvHolds, PTL

(***************************************************************************)
(* The providers a connected module was told about stay registered for as  *)
(* long as it is connected.                                                *)
(***************************************************************************)
THEOREM ToldProvidersStay == Spec => []ToldProvidersRegistered
<1>1. IInv => ToldProvidersRegistered
  BY DEF IInv
<1>2. QED
  BY <1>1, IInvHolds, PTL

-----------------------------------------------------------------------------
(* Subscribers *)

(***************************************************************************)
(* What a search pass changes besides what is told.                        *)
(***************************************************************************)
LEMMA SearchEffect ==
  ASSUME IInv, fFindDependencies
  PROVE  \E ready \in SUBSET mModuleAPIPendingDependencies :
           /\ \A c \in ready : Satisfied(c)
           /\ mModuleAPIPendingDependencies' = mModuleAPIPendingDependencies \ ready
           /\ mModuleAPIActive' = mModuleAPIActive \cup ready
           /\ consolidated' = sEventTriggered(ready # {}, mConnections, mModuleAPIActive \cup ready)
           /\ UNCHANGED <<socketVars, mMessageRequestEventQueue>>
<1> DEFINE refused == {c \in mModuleAPIPendingDependencies : retryCounter[c] >= RetryLimit}
           ready == {c \in mModuleAPIPendingDependencies \ refused : Satisfied(c)}
           act == mModuleAPIActive \cup ready
<1>1. refused = {}
  BY SearchClosesNothing
<1>2. PICK stalled \in StalledChoices(refused) :
        LET closed == ClosedFrom(refused, act, Registered, stalled)
            gone   == closed \ stalled
        IN
        /\ mConnections' = mConnections \ closed
        /\ stuck' = stuck \cup (closed \cap stalled)
        /\ mModuleAPIPendingDependencies' = (mModuleAPIPendingDependencies \ ready) \ gone
        /\ mModuleAPIActive' = act \ gone
        /\ consolidated' = sEventTriggered(ready \cup gone # {}, mConnections \ closed, act \ gone)
  BY Zenon DEF fFindDependencies
<1>3. ClosedFrom(refused, act, Registered, stalled) = {}
  BY <1>1, NothingClosed
<1>4. moduleOn' = moduleOn /\ mMessageRequestEventQueue' = mMessageRequestEventQueue
  BY DEF fFindDependencies
<1>5. ready \in SUBSET mModuleAPIPendingDependencies /\ \A c \in ready : Satisfied(c)
  OBVIOUS
<1> HIDE DEF refused, ready
<1> QED
  BY <1>2, <1>3, <1>4, <1>5 DEF socketVars

(***************************************************************************)
(* What a disconnection changes besides what is told: the closed           *)
(* connections leave the table, those reported (gone) leave the registry.  *)
(***************************************************************************)
LEMMA DisconnectEffect ==
  ASSUME NEW c \in Conn, fSocketDisconnected(c)
  PROVE  \E stalled \in StalledChoices((mModuleAPIActive \cap mConnections) \ {c}) :
           LET closed == ClosedFrom({c}, mModuleAPIActive, Registered, stalled)
               gone   == closed \ stalled
           IN
           /\ stalled \subseteq closed
           /\ mConnections' = mConnections \ closed
           /\ stuck' = stuck \cup stalled
           /\ mModuleAPIActive' = mModuleAPIActive \ gone
           /\ mModuleAPIPendingDependencies' = mModuleAPIPendingDependencies \ gone
           /\ consolidated' = sEventTriggered(gone \cap Registered # {}, mConnections \ closed,
                                              mModuleAPIActive \ gone)
           /\ UNCHANGED <<moduleOn, mMessageRequestEventQueue>>
BY Zenon DEF fSocketDisconnected, fOnWebSocketDisconnected

(***************************************************************************)
(* Subscribers are processes that have connected: a connection that is     *)
(* still to come has no subscription.                                      *)
(***************************************************************************)
IsDue(c) == Due(c, mMessageRequestEventQueue)

SubscribersHaveModules ==
  \A c \in Conn : IsDue(c) => moduleOn[c] \in Module

(***************************************************************************)
(* The registry last seen by the connected clients whose subscriptions are *)
(* in the event queue is the current one, whatever ids the requests came   *)
(* under: every handler that changes mModuleAPIActive emits                *)
(* sEventTriggered after its last change, and an entry of the queue is     *)
(* never replaced by another one.                                          *)
(***************************************************************************)
THEOREM SubscribersKnow == Spec => []SubscribersUpToDate
<1> DEFINE Inv == SubscribersUpToDate /\ SubscribersHaveModules
<1>1. Init => Inv
  BY DEF Init, SubscribersUpToDate, SubscribersHaveModules, IsDue, Due
<1>2. IInv /\ Inv /\ [Next]_vars => Inv'
  <2> SUFFICES ASSUME IInv, Inv, [Next]_vars
               PROVE  Inv'
    OBVIOUS
  <2>1. ASSUME NEW c \in Conn, NEW m \in Module, Accept(c, m)
        PROVE  Inv'
    <3>1. ~IsDue(c)
      BY <2>1, SMConstants DEF Accept, SubscribersHaveModules
    <3>2. \A d \in Conn : moduleOn'[d] = IF d = c THEN m ELSE moduleOn[d]
      BY <2>1 DEF Accept, IInv, TypeOK
    <3>3. \A d : IsDue(d)' <=> IsDue(d)
      BY <2>1 DEF Accept, clientVars, IsDue, Due
    <3> QED
      BY <2>1, <3>1, <3>2, <3>3
         DEF Accept, registryVars, clientVars, SubscribersUpToDate, SubscribersHaveModules, IsDue
  <2>2. ASSUME NEW c \in Conn, RegisterAPI(c)
        PROVE  Inv'
    BY <2>2 DEF RegisterAPI, socketVars, clientVars, SubscribersUpToDate, SubscribersHaveModules,
                IsDue, Due
  <2>3. ASSUME NEW c \in Conn, NEW id \in MessageID, NEW counter \in EventCounter,
               GetConsolidatedAPI(c, id, counter)
        PROVE  Inv'
    <3>1. /\ c \in mConnections /\ mConnections' = mConnections
          /\ mModuleAPIActive' = mModuleAPIActive /\ moduleOn' = moduleOn
      BY <2>3 DEF GetConsolidatedAPI, socketVars, registryVars
    <3>2. ASSUME NEW d, d # c
          PROVE  IsDue(d)' => IsDue(d)
      BY <2>3, <3>2 DEF GetConsolidatedAPI, Queued, IsDue, Due, IInv, TypeOK
    <3>3. consolidated' = IF IsDue(c)' THEN [consolidated EXCEPT ![c] = mModuleAPIActive]
                          ELSE consolidated
      BY <2>3 DEF GetConsolidatedAPI, Queued, IsDue
    <3>4. ASSUME NEW d \in mConnections', IsDue(d)'
          PROVE  consolidated'[d] = mModuleAPIActive' /\ moduleOn'[d] \in Module
      <4>1. d \in Conn /\ d \in mConnections
        BY <3>1 DEF IInv, TypeOK
      <4>2. CASE d = c
        BY <3>1, <3>3, <3>4, <4>2, <4>1 DEF IInv, TypeOK, UsedHaveModules
      <4>3. CASE d # c
        BY <3>1, <3>2, <3>3, <3>4, <4>1, <4>3
           DEF IInv, TypeOK, SubscribersUpToDate, SubscribersHaveModules, IsDue
      <4> QED
        BY <4>2, <4>3
    <3>5. SubscribersUpToDate'
      BY <3>4 DEF SubscribersUpToDate, IsDue
    <3>6. SubscribersHaveModules'
      BY <3>1, <3>2, SMConstants DEF SubscribersHaveModules, IInv, UsedHaveModules
    <3> QED
      BY <3>5, <3>6
  <2>4. CASE fFindDependencies
    <3>1. PICK ready \in SUBSET mModuleAPIPendingDependencies :
            /\ mModuleAPIActive' = mModuleAPIActive \cup ready
            /\ consolidated' = sEventTriggered(ready # {}, mConnections, mModuleAPIActive \cup ready)
            /\ UNCHANGED <<socketVars, mMessageRequestEventQueue>>
      BY <2>4, SearchEffect
    <3>2. \A c : IsDue(c)' <=> IsDue(c)
      BY <3>1 DEF IsDue, Due
    <3>3. ASSUME NEW c \in mConnections, IsDue(c)
          PROVE  consolidated'[c] = mModuleAPIActive \cup ready
      BY <3>1, <3>3 DEF sEventTriggered, SubscribersUpToDate, IInv, TypeOK, IsDue
    <3> QED
      BY <3>1, <3>2, <3>3 DEF socketVars, SubscribersUpToDate, SubscribersHaveModules, IsDue
  <2>5. ASSUME NEW c \in Conn, fSocketDisconnected(c)
        PROVE  Inv'
    <3>1. PICK stalled :
            LET closed == ClosedFrom({c}, mModuleAPIActive, Registered, stalled)
                gone   == closed \ stalled
            IN
            /\ mConnections' = mConnections \ closed
            /\ mModuleAPIActive' = mModuleAPIActive \ gone
            /\ consolidated' = sEventTriggered(gone \cap Registered # {}, mConnections \ closed,
                                               mModuleAPIActive \ gone)
            /\ UNCHANGED <<moduleOn, mMessageRequestEventQueue>>
      BY <2>5, DisconnectEffect
    <3> DEFINE closed == ClosedFrom({c}, mModuleAPIActive, Registered, stalled)
               gone == closed \ stalled
    <3> HIDE DEF closed
    <3>2. gone \cap Registered = {} => mModuleAPIActive \ gone = mModuleAPIActive
      BY DEF Registered
    <3>3. \A d : IsDue(d)' <=> IsDue(d)
      BY <3>1 DEF IsDue, Due
    <3>4. ASSUME NEW d \in mConnections \ closed, IsDue(d)
          PROVE  consolidated'[d] = mModuleAPIActive \ gone
      BY <3>1, <3>2, <3>4
         DEF closed, sEventTriggered, SubscribersUpToDate, IInv, TypeOK, IsDue
    <3> QED
      BY <3>1, <3>3, <3>4 DEF closed, SubscribersUpToDate, SubscribersHaveModules, IsDue
  <2>6. CASE UNCHANGED vars
    BY <2>6 DEF vars, socketVars, registryVars, clientVars, SubscribersUpToDate,
                SubscribersHaveModules, IsDue, Due
  <2> QED
    BY <2>1, <2>2, <2>3, <2>4, <2>5, <2>6 DEF Next
<1>3. Inv => SubscribersUpToDate
  OBVIOUS
<1> QED
  BY <1>1, <1>2, <1>3, IInvHolds, PTL DEF Spec

-----------------------------------------------------------------------------
(* Which connections are closed *)

(***************************************************************************)
(* A cascade closes nobody without a reason: whoever it closes besides its *)
(* start is an active dependent of another closed, registered module.      *)
(***************************************************************************)
LEMMA ClosedFromReason ==
  ASSUME NEW start, NEW act, NEW reg, NEW stalled, start \subseteq mConnections,
         NEW d \in ClosedFrom(start, act, reg, stalled), d \notin start
  PROVE  \E p \in (ClosedFrom(start, act, reg, stalled) \cap reg) \ {d} : d \in Dependents(p, act)
<1> DEFINE closed == ClosedFrom(start, act, reg, stalled)
           rest == closed \ {d}
<1>1. closed \subseteq mConnections /\ start \subseteq closed
  BY ClosedFromTable, ClosedFromStart
<1>2. ~Cascaded(rest, act, reg, stalled)
  <2> SUFFICES ASSUME Cascaded(rest, act, reg, stalled)
               PROVE  FALSE
    OBVIOUS
  <2>1. start \subseteq rest /\ rest \in SUBSET mConnections
    BY <1>1
  <2> QED
    BY <2>1 DEF ClosedFrom
<1>3. PICK p \in (rest \cap reg) \ stalled : ~(Dependents(p, act) \subseteq rest)
  BY <1>2 DEF Cascaded
<1>4. Dependents(p, act) \subseteq closed
  BY <1>3, ClosedFromDependents
<1> QED
  BY <1>3, <1>4

(***************************************************************************)
(* A step closes one connection of its own accord at most: the others are  *)
(* active dependents of registered modules closed with them                *)
(* (fOnWebSocketDisconnected, fFindDependencies).                          *)
(***************************************************************************)
THEOREM ClosedForAReason == Spec => OnlyDependentsClosed
<1> DEFINE Reasons ==
      LET closed == mConnections \ mConnections'
      IN  \A c, d \in closed :
            c # d => \E e \in {c, d} : \E p \in (closed \cap Registered) \ {e} :
                       e \in mModuleAPIActive /\ fAreRolesNeeded(e, p)
<1>1. ASSUME IInv, [Next]_vars
      PROVE  Reasons
  <2>1. ASSUME mConnections \subseteq mConnections'
        PROVE  Reasons
    BY <2>1
  <2>2. ASSUME NEW c \in Conn, fSocketDisconnected(c)
        PROVE  Reasons
    <3>1. PICK stalled : mConnections' =
                           mConnections \ ClosedFrom({c}, mModuleAPIActive, Registered, stalled)
      BY <2>2, DisconnectEffect
    <3> DEFINE closed == ClosedFrom({c}, mModuleAPIActive, Registered, stalled)
    <3>2. c \in mConnections
      BY <2>2 DEF fSocketDisconnected
    <3>3. mConnections \ mConnections' = closed
      BY <3>1, ClosedFromTable
    <3>4. ASSUME NEW d \in closed, d # c
          PROVE  \E p \in (closed \cap Registered) \ {d} :
                   d \in mModuleAPIActive /\ fAreRolesNeeded(d, p)
      <4>1. \E p \in (closed \cap Registered) \ {d} : d \in Dependents(p, mModuleAPIActive)
        BY <3>2, <3>4, ClosedFromReason
      <4> QED
        BY <4>1 DEF Dependents
    <3> HIDE DEF closed
    <3> QED
      BY <3>3, <3>4
  <2>3. CASE fFindDependencies
    BY <1>1, <2>1, <2>3, SearchEffect DEF socketVars
  <2>4. ASSUME NEW c \in Conn,
               \/ \E m \in Module : Accept(c, m)
               \/ RegisterAPI(c)
               \/ \E id \in MessageID, counter \in EventCounter :
                    GetConsolidatedAPI(c, id, counter)
        PROVE  Reasons
    BY <2>1, <2>4 DEF Accept, RegisterAPI, GetConsolidatedAPI, socketVars
  <2>5. CASE UNCHANGED vars
    BY <2>1, <2>5 DEF vars, socketVars
  <2> HIDE DEF Reasons
  <2> QED
    BY <1>1, <2>2, <2>3, <2>4, <2>5 DEF Next
<1>2. IInv /\ [Next]_vars => [Reasons]_vars
  BY <1>1
<1> QED
  BY <1>2, IInvHolds, PTL DEF Spec, OnlyDependentsClosed

-----------------------------------------------------------------------------
(* Refinement *)

Member == [c \in Conn |-> IF c \in Registered THEN moduleOn[c] ELSE NoModule]

(***************************************************************************)
(* The members of the abstract registry are the registered modules.        *)
(***************************************************************************)
LEMMA MembersAreRegistered ==
  ASSUME IInv
  PROVE  /\ Registry!Members = Registered
         /\ Registered \subseteq Conn
         /\ \A c \in Registered : moduleOn[c] \in Module /\ Member[c] = moduleOn[c]
<1>1. Registered \subseteq Conn
  BY DEF IInv, TypeOK, Registered
<1>2. \A c \in Registered : moduleOn[c] \in Module
  BY DEF IInv, RegistryHasNoGhosts, UsedHaveModules
<1> QED
  BY <1>1, <1>2, SMConstants DEF Registry!Members, Member

(***************************************************************************)
(* Nothing is left behind by closes that cannot stall.                     *)
(***************************************************************************)
NothingStuck == stuck = {}

(* Where closes cannot stall, the slot of each runs. *)
LEMMA NeverStuck ==
  ASSUME ~CanStall
  PROVE  Spec => []NothingStuck
<1>1. Init => NothingStuck
  BY DEF Init, NothingStuck
<1>2. IInv /\ NothingStuck /\ [Next]_vars => NothingStuck'
  <2> SUFFICES ASSUME IInv, NothingStuck, [Next]_vars
               PROVE  stuck' = {}
    BY DEF NothingStuck
  <2>1. ASSUME stuck' = stuck
        PROVE  stuck' = {}
    BY <2>1 DEF NothingStuck
  <2>2. CASE fFindDependencies
    BY <2>1, <2>2, SearchEffect DEF socketVars
  <2>3. ASSUME NEW c \in Conn, fSocketDisconnected(c)
        PROVE  stuck' = {}
    <3>1. PICK stalled \in StalledChoices((mModuleAPIActive \cap mConnections) \ {c}) : stuck' = stuck \cup stalled
      BY <2>3, DisconnectEffect
    <3> QED
      BY <3>1 DEF StalledChoices, NothingStuck
  <2>4. ASSUME NEW c \in Conn,
               \/ \E m \in Module : Accept(c, m)
               \/ RegisterAPI(c)
               \/ \E id \in MessageID, counter \in EventCounter :
                    GetConsolidatedAPI(c, id, counter)
        PROVE  stuck' = {}
    BY <2>1, <2>4 DEF Accept, RegisterAPI, GetConsolidatedAPI, socketVars
  <2>5. CASE UNCHANGED vars
    BY <2>1, <2>5 DEF vars, socketVars
  <2> QED
    BY <2>2, <2>3, <2>4, <2>5 DEF Next
<1> QED
  BY <1>1, <1>2, IInvHolds, PTL DEF Spec

(***************************************************************************)
(* Every step of the service manager is a step of the abstract registry or *)
(* leaves it as it is: a registration joins, a search activates, and a     *)
(* disconnection lets the module and everybody it takes along leave.       *)
(***************************************************************************)
LEMMA StepRefines ==
  ASSUME IInv, IInv', NothingStuck', [Next]_vars
  PROVE  [Registry!Next]_(Registry!vars)
<1>1. ASSUME Registered' = Registered, mModuleAPIActive' = mModuleAPIActive,
             \A c \in Registered : moduleOn'[c] = moduleOn[c]
      PROVE  UNCHANGED Registry!vars
  BY <1>1 DEF Registry!vars
<1>2. ASSUME NEW c \in Conn, NEW m \in Module, Accept(c, m)
      PROVE  UNCHANGED Registry!vars
  <2>1. c \notin Registered
    BY <1>2, SMConstants DEF Accept, IInv, RegistryHasNoGhosts, UsedHaveModules
  <2>2. \A d \in Registered : moduleOn'[d] = moduleOn[d]
    BY <1>2, <2>1 DEF Accept, IInv, TypeOK, Registered
  <2> QED
    BY <1>1, <1>2, <2>2 DEF Accept, registryVars, Registered
<1>3. ASSUME NEW c \in Conn, RegisterAPI(c)
      PROVE  [Registry!Next]_(Registry!vars)
  <2>1. /\ Registered' = Registered \cup {c} /\ moduleOn' = moduleOn
        /\ mModuleAPIActive' = mModuleAPIActive
    BY <1>3 DEF RegisterAPI, socketVars, Registered
  <2>2. CASE c \in Registered
    BY <1>1, <2>1, <2>2
  <2>3. CASE c \notin Registered
    <3>1. PICK m \in Module : m = moduleOn[c]
      BY <1>3 DEF RegisterAPI, IInv, UsedHaveModules
    <3>2. Registry!Join(c, m)
      BY <2>1, <2>3, <3>1, MembersAreRegistered DEF Registry!Join
    <3> QED
      BY <3>2 DEF Registry!Next
  <2> QED
    BY <2>2, <2>3
<1>4. ASSUME NEW c \in Conn, NEW id \in MessageID, NEW counter \in EventCounter,
             GetConsolidatedAPI(c, id, counter)
      PROVE  UNCHANGED Registry!vars
  BY <1>1, <1>4 DEF GetConsolidatedAPI, socketVars, registryVars, Registered
<1>5. CASE fFindDependencies
  <2>1. PICK ready \in SUBSET mModuleAPIPendingDependencies :
          /\ \A c \in ready : Satisfied(c)
          /\ mModuleAPIPendingDependencies' = mModuleAPIPendingDependencies \ ready
          /\ mModuleAPIActive' = mModuleAPIActive \cup ready
          /\ UNCHANGED socketVars
    BY <1>5, SearchEffect
  <2>2. Registered' = Registered /\ moduleOn' = moduleOn /\ ready \subseteq Registered
    BY <2>1 DEF Registered, socketVars
  <2>3. ASSUME NEW c \in ready
        PROVE  Registry!SatisfiedBy(c, Registry!Members)
    BY <2>1, <2>2, <2>3, MembersAreRegistered
       DEF Registry!SatisfiedBy, Satisfied, Providers, fIsRoleSupported, Member
  <2>4. Registry!Activate(ready)
    BY <2>1, <2>2, <2>3, MembersAreRegistered DEF Registry!Activate
  <2>5. ready \in SUBSET Conn
    BY <2>2, MembersAreRegistered
  <2> QED
    BY <2>4, <2>5 DEF Registry!Next
<1>6. ASSUME NEW c \in Conn, fSocketDisconnected(c)
      PROVE  [Registry!Next]_(Registry!vars)
  <2>1. PICK lost :
          /\ mModuleAPIActive' = mModuleAPIActive \ lost
          /\ mModuleAPIPendingDependencies' = mModuleAPIPendingDependencies \ lost
          /\ moduleOn' = moduleOn
    BY <1>6, DisconnectEffect
  <2>2. PICK gone \in SUBSET Conn : gone = lost \cap Registered
    BY MembersAreRegistered
  <2>3. Registered' = Registered \ gone /\ mModuleAPIActive' = mModuleAPIActive \ gone
    BY <2>1, <2>2 DEF Registered
  <2>4. ASSUME NEW d \in mModuleAPIActive \ gone
        PROVE  Registry!SatisfiedBy(d, Registry!Members \ gone)
    <3>1. d \in mModuleAPIActive' /\ d \in Registered' /\ d \in mConnections'
      BY <2>3 DEF IInv, RegistryHasNoGhosts, NothingStuck, Registered
    <3>2. \A r \in Dependencies[moduleOn[d]] :
            \E p \in Registered \ gone : r \in ModuleRoles[moduleOn[p]]
      BY <2>1, <2>3, <3>1 DEF IInv, ActiveDependenciesRegistered, fIsRoleSupported
    <3>3. d \in Registered
      BY DEF Registered
    <3> QED
      BY <3>2, <3>3, MembersAreRegistered DEF Registry!SatisfiedBy, Member
  <2>5. Registry!Leave(gone)
    BY <2>1, <2>3, <2>2, <2>4, MembersAreRegistered DEF Registry!Leave
  <2> QED
    BY <2>5 DEF Registry!Next
<1>7. CASE UNCHANGED vars
  BY <1>1, <1>7 DEF vars, socketVars, registryVars, Registered
<1> QED
  BY <1>2, <1>3, <1>4, <1>5, <1>6, <1>7 DEF Next

(***************************************************************************)
(* Without stalled closes the service manager implements ModuleRegistry,   *)
(* whatever the modules, roles, dependencies and connections are.          *)
(***************************************************************************)
THEOREM KeepsThePromise ==
  ASSUME ~CanStall
  PROVE  Spec => ImplementsRegistry
<1>1. Init => Registry!Init
  BY DEF Init, Registry!Init, Registered
<1>2. Spec => []NothingStuck
  BY NeverStuck
<1>3. IInv /\ IInv' /\ NothingStuck' /\ [Next]_vars => [Registry!Next]_(Registry!vars)
  BY StepRefines
<1> QED
  BY <1>1, <1>2, <1>3, IInvHolds, PTL DEF Spec, ImplementsRegistry, Registry!Spec

-----------------------------------------------------------------------------
(* What follows from the promise itself, whoever keeps it: member and      *)
(* active are any variables that do, not those of the service manager.     *)

VARIABLES member, active

Promise == INSTANCE ModuleRegistry

Promised ==
  /\ member \in [Conn -> Module \cup {NoModule}]
  /\ active \subseteq Conn
  /\ Promise!ActiveAreSatisfied

(***************************************************************************)
(* Whoever is satisfied by some providers is so by more of them, as long   *)
(* as the providers and the dependent stay the same modules.               *)
(***************************************************************************)
LEMMA MoreProviders ==
  ASSUME NEW c, NEW few, NEW many, few \subseteq many, Promise!SatisfiedBy(c, few),
         \A q \in few \cup {c} : member'[q] = member[q]
  PROVE  \A r \in Dependencies[member'[c]] : \E q \in many : r \in ModuleRoles[member'[q]]
BY DEF Promise!SatisfiedBy

(***************************************************************************)
(* No member is ever active without the roles it depends on, whoever joins *)
(* and leaves: the promise that fOnWebSocketDisconnected and               *)
(* fFindDependencies have to keep.                                         *)
(***************************************************************************)
THEOREM PromiseIsKept == Promise!Spec => []Promise!ActiveAreSatisfied
<1>1. Promise!Init => Promised
  BY DEF Promise!Init, Promised, Promise!ActiveAreSatisfied
<1>2. Promised /\ [Promise!Next]_(Promise!vars) => Promised'
  <2> SUFFICES ASSUME Promised, [Promise!Next]_(Promise!vars)
               PROVE  Promised'
    OBVIOUS
  <2>1. ASSUME NEW c \in Conn, NEW m \in Module, Promise!Join(c, m)
        PROVE  Promised'
    <3>1. /\ c \notin Promise!Members /\ c \notin active
          /\ member' = [member EXCEPT ![c] = m] /\ active' = active
      BY <2>1 DEF Promise!Join, Promised, Promise!ActiveAreSatisfied, Promise!Members
    <3>2. Promise!Members \subseteq Promise!Members'
      BY <3>1 DEF Promised, Promise!Members
    <3>3. ASSUME NEW a \in active
          PROVE  member'[a] # NoModule /\ Promise!SatisfiedBy(a, Promise!Members)'
      <4>1. member[a] # NoModule /\ Promise!SatisfiedBy(a, Promise!Members)
        BY <3>3 DEF Promised, Promise!ActiveAreSatisfied
      <4>2. \A q \in Promise!Members \cup {a} : member'[q] = member[q]
        BY <3>1, <3>3 DEF Promised, Promise!Members
      <4> QED
        BY <3>2, <4>1, <4>2, MoreProviders DEF Promise!SatisfiedBy
    <3> QED
      BY <3>1, <3>3 DEF Promised, Promise!ActiveAreSatisfied
  <2>2. ASSUME NEW ready \in SUBSET Conn, Promise!Activate(ready)
        PROVE  Promised'
    BY <2>2 DEF Promise!Activate, Promised, Promise!ActiveAreSatisfied, Promise!SatisfiedBy, Promise!Members
  <2>3. ASSUME NEW gone \in SUBSET Conn, Promise!Leave(gone)
        PROVE  Promised'
    <3>1. /\ member' = [c \in Conn |-> IF c \in gone THEN NoModule ELSE member[c]]
          /\ active' = active \ gone
          /\ \A a \in active \ gone : Promise!SatisfiedBy(a, Promise!Members \ gone)
      BY <2>3 DEF Promise!Leave
    <3>2. Promise!Members \ gone \subseteq Promise!Members'
      BY <3>1 DEF Promise!Members
    <3>3. ASSUME NEW a \in active \ gone
          PROVE  member'[a] # NoModule /\ Promise!SatisfiedBy(a, Promise!Members)'
      <4>1. member'[a] = member[a] /\ member[a] # NoModule
        BY <3>1 DEF Promised, Promise!ActiveAreSatisfied
      <4>2. \A q \in (Promise!Members \ gone) \cup {a} : member'[q] = member[q]
        BY <3>1, <4>1 DEF Promise!Members
      <4> QED
        BY <3>1, <3>2, <4>1, <4>2, MoreProviders DEF Promise!SatisfiedBy
    <3>4. member' \in [Conn -> Module \cup {NoModule}] /\ active' \subseteq Conn
      BY <3>1 DEF Promised
    <3> QED
      BY <3>1, <3>3, <3>4 DEF Promised, Promise!ActiveAreSatisfied
  <2>4. CASE UNCHANGED Promise!vars
    BY <2>4 DEF Promise!vars, Promised, Promise!ActiveAreSatisfied, Promise!SatisfiedBy, Promise!Members
  <2> QED
    BY <2>1, <2>2, <2>3, <2>4 DEF Promise!Next
<1>3. Promised => Promise!ActiveAreSatisfied
  BY DEF Promised
<1> QED
  BY <1>1, <1>2, <1>3, PTL DEF Promise!Spec
=============================================================================
