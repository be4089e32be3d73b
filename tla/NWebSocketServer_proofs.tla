---------------------- MODULE NWebSocketServer_proofs -----------------------
(***************************************************************************)
(* Proofs about the connection table, for any set of peers and of clock    *)
(* readings.                                                               *)
(*                                                                         *)
(* The inductive invariant adds to the properties how names come about: a  *)
(* socket is named by the reading at which it was accepted, has a name     *)
(* exactly if it has ever been opened, only named peers wait for an answer *)
(* and only names that were given are reported.  What needs different      *)
(* readings follows from these: two peers with one name would have been    *)
(* accepted at one reading.                                                *)
(***************************************************************************)
EXTENDS NWebSocketServer, TLAPS

Named ==
  \A p \in Peer : /\ fName[p] = acceptedAt[p]
                  /\ fName[p] = 0 <=> socket[p] = "none"

AskersNamed == \A p \in requests : fName[p] # 0

ReportedWereNamed == \A i \in reported : \E p \in Peer : fName[p] = i

IInv ==
  /\ TypeOK
  /\ Named
  /\ AskersNamed
  /\ ReportedWereNamed
  /\ TableHoldsOpenSockets
  /\ ClosedAreReported
  /\ OpenSocketsNamed
  /\ ReportedAreGone
  /\ AnswersReachAsker

(***************************************************************************)
(* A clock reading is not 0, the name of a socket that has none.           *)
(***************************************************************************)
LEMMA ReadingsAreNotZero == \A t \in MSecs : t # 0
BY WSSConstants

(***************************************************************************)
(* The entry of a name is a peer of that name.                             *)
(***************************************************************************)
LEMMA EntryHasTheName ==
  ASSUME TypeOK, TableHoldsOpenSockets, NEW i \in MSecs, NEW q \in Entry(i)
  PROVE  q \in Peer /\ Open(q) /\ fName[q] = i
BY DEF TypeOK, TableHoldsOpenSockets, Entry

(***************************************************************************)
(* As long as readings differ, names do.                                   *)
(***************************************************************************)
LEMMA NamesDiffer ==
  ASSUME Named, ReadingsDiffer, NEW p \in Peer, NEW q \in Peer,
         fName[p] = fName[q], fName[p] # 0
  PROVE  p = q
BY DEF Named, ReadingsDiffer

(***************************************************************************)
(* The initial state satisfies the invariant: nothing is named.            *)
(***************************************************************************)
LEMMA InitIInv == Init => IInv
BY ReadingsAreNotZero, WSSConstants
   DEF Init, IInv, TypeOK, Named, AskersNamed, ReportedWereNamed, TableHoldsOpenSockets, ClosedAreReported,
       OpenSocketsNamed, ReportedAreGone, AnswersReachAsker, Open

(***************************************************************************)
(* Closing the entry of a name, and the peers whose disconnection started  *)
(* it, keeps the invariant.                                                *)
(***************************************************************************)
LEMMA RemovalKeepsIInv ==
  ASSUME IInv, NEW p \in Peer, Open(p), NEW others, NEW lost,
         others = {p} \/ others = {}, lost \subseteq Entry(fName[p]),
         fRemoveConnections(fName[p], others, lost),
         UNCHANGED <<acceptedAt, fName, active, requests, answers>>
  PROVE  IInv'
<1> DEFINE i == fName[p]
           closed == Entry(i) \cup others
<1>1. i \in MSecs
  BY DEF IInv, TypeOK, Named, Open
<1>2. \A q \in closed : q \in Peer /\ fName[q] = i /\ Open(q)
  BY <1>1, EntryHasTheName DEF IInv
<1>3. /\ mConnections' = [mConnections EXCEPT ![i] = NoPeer]
      /\ socket' = [q \in Peer |-> IF q \in closed THEN "closed" ELSE socket[q]]
      /\ reported' = IF others \cup (Entry(i) \ lost) # {} THEN reported \cup {i} ELSE reported
      /\ stalled' = stalled \cup (Entry(i) \cap lost)
  BY DEF fRemoveConnections
<1> HIDE DEF i, closed
<1>4. \A q \in Peer : mConnections[i] = q => q \in closed
  BY WSSConstants DEF closed, Entry
<1>5. TypeOK'
  BY <1>1, <1>2, <1>3, EntryHasTheName DEF IInv, TypeOK, closed
<1>6. Named' /\ AskersNamed' /\ ReportedWereNamed'
  <2>1. \A q \in Peer : fName[q] = 0 <=> socket'[q] = "none"
    BY <1>2, <1>3 DEF IInv, Named, Open
  <2>2. \A j \in reported' : \E q \in Peer : fName[q] = j
    BY <1>3 DEF IInv, ReportedWereNamed, i
  <2> QED
    BY <2>1, <2>2 DEF IInv, Named, AskersNamed, ReportedWereNamed
<1>7. TableHoldsOpenSockets'
  <2> SUFFICES ASSUME NEW j \in MSecs, mConnections'[j] # NoPeer
               PROVE  Open(mConnections[j])' /\ fName[mConnections[j]]' = j
    BY DEF TableHoldsOpenSockets
  <2>1. j # i /\ mConnections'[j] = mConnections[j]
    BY <1>1, <1>3 DEF IInv, TypeOK
  <2>2. Open(mConnections[j]) /\ fName[mConnections[j]] = j /\ mConnections[j] \in Peer
    BY <2>1 DEF IInv, TypeOK, TableHoldsOpenSockets
  <2>3. mConnections[j] \notin closed
    BY <1>2, <2>1, <2>2
  <2> QED
    BY <1>3, <2>1, <2>2, <2>3 DEF Open
<1>8. ClosedAreReported'
  <2> SUFFICES ASSUME NEW q \in Peer, q \notin stalled', socket'[q] = "closed"
               PROVE  fName[q] \in reported'
    BY DEF ClosedAreReported
  <2>1. CASE q \in closed
    <3>1. q \in others \cup (Entry(i) \ lost)
      BY <1>3, <2>1 DEF closed
    <3> QED
      BY <1>2, <1>3, <2>1, <3>1
  <2>2. CASE q \notin closed
    BY <1>3, <2>2 DEF IInv, ClosedAreReported
  <2> QED
    BY <2>1, <2>2
<1>9. ASSUME ReadingsDiffer'
      PROVE  ReadingsDiffer
  BY <1>9 DEF ReadingsDiffer
<1>10. OpenSocketsNamed'
  <2> SUFFICES ASSUME ReadingsDiffer', NEW q \in Peer, Open(q)'
               PROVE  mConnections'[fName[q]] = q
    BY DEF OpenSocketsNamed
  <2>1. q \notin closed /\ Open(q)
    BY <1>3 DEF Open
  <2>2. mConnections[fName[q]] = q /\ fName[q] \in MSecs
    BY <1>9, <2>1 DEF IInv, OpenSocketsNamed, Named, TypeOK, Open
  <2>3. fName[q] # i
    BY <1>4, <2>1, <2>2
  <2> QED
    BY <1>1, <1>3, <2>2, <2>3 DEF IInv, TypeOK
<1>11. ReportedAreGone'
  <2> SUFFICES ASSUME ReadingsDiffer', NEW q \in Peer, fName[q] \in reported', Open(q)'
               PROVE  FALSE
    BY DEF ReportedAreGone
  <2>1. q \notin closed /\ Open(q)
    BY <1>3 DEF Open
  <2>2. fName[q] \notin reported
    BY <1>9, <2>1 DEF IInv, ReportedAreGone
  <2>3. fName[q] = i
    BY <1>3, <2>2
  <2>4. mConnections[i] = q
    BY <1>9, <2>1, <2>3 DEF IInv, OpenSocketsNamed
  <2> QED
    BY <1>4, <2>1, <2>4
<1>12. AnswersReachAsker'
  BY <1>9 DEF IInv, AnswersReachAsker
<1> QED
  BY <1>5, <1>6, <1>7, <1>8, <1>10, <1>11, <1>12 DEF IInv

(***************************************************************************)
(* Accepting a connection keeps the invariant: under differing readings    *)
(* the name is new, so no other entry is replaced.                         *)
(***************************************************************************)
LEMMA AcceptKeepsIInv ==
  ASSUME IInv, NEW p \in Peer, NEW t \in MSecs, fOnNewConnection(p, t)
  PROVE  IInv'
<1>1. /\ socket[p] = "none" /\ fName[p] = 0 /\ acceptedAt[p] = 0 /\ t # 0
      /\ acceptedAt' = [acceptedAt EXCEPT ![p] = t]
      /\ socket' = [socket EXCEPT ![p] = "open"]
      /\ fName' = [fName EXCEPT ![p] = t]
      /\ mConnections' = [mConnections EXCEPT ![t] = p]
      /\ UNCHANGED <<active, requests, answers, reported, stalled>>
  BY ReadingsAreNotZero DEF IInv, Named, fOnNewConnection, NameAt
<1>2. TypeOK'
  BY <1>1 DEF IInv, TypeOK
<1>3. Named' /\ AskersNamed' /\ ReportedWereNamed'
  <2>1. Named' /\ AskersNamed'
    BY <1>1 DEF IInv, TypeOK, Named, AskersNamed
  <2>2. ASSUME NEW j \in reported
        PROVE  \E q \in Peer : fName'[q] = j
    <3>1. PICK q \in Peer : fName[q] = j
      BY <2>2 DEF IInv, ReportedWereNamed
    <3>2. q # p
      BY <1>1, <2>2, <3>1, ReadingsAreNotZero DEF IInv, TypeOK
    <3> QED
      BY <1>1, <3>1, <3>2 DEF IInv, TypeOK
  <2> QED
    BY <1>1, <2>1, <2>2 DEF ReportedWereNamed
<1>4. TableHoldsOpenSockets'
  <2> SUFFICES ASSUME NEW j \in MSecs, mConnections'[j] # NoPeer
               PROVE  Open(mConnections[j])' /\ fName[mConnections[j]]' = j
    BY DEF TableHoldsOpenSockets
  <2>1. CASE j = t
    BY <1>1, <2>1 DEF IInv, TypeOK, Open
  <2>2. CASE j # t
    <3>1. mConnections'[j] = mConnections[j] /\ mConnections[j] \in Peer
      BY <1>1, <2>2 DEF IInv, TypeOK
    <3>2. Open(mConnections[j]) /\ fName[mConnections[j]] = j
      BY <3>1 DEF IInv, TypeOK, TableHoldsOpenSockets
    <3>3. mConnections[j] # p
      BY <1>1, <3>2 DEF Open
    <3> QED
      BY <1>1, <3>1, <3>2, <3>3 DEF IInv, TypeOK, Open
  <2> QED
    BY <2>1, <2>2
<1>5. ClosedAreReported'
  BY <1>1 DEF IInv, TypeOK, ClosedAreReported
<1>6. ASSUME ReadingsDiffer'
      PROVE  ReadingsDiffer /\ \A q \in Peer : fName[q] # t
  <2>1. ReadingsDiffer
    BY <1>1, <1>6 DEF IInv, TypeOK, ReadingsDiffer
  <2>2. \A q \in Peer \ {p} : acceptedAt[q] # t
    BY <1>1, <1>6 DEF IInv, TypeOK, ReadingsDiffer
  <2> QED
    BY <1>1, <2>1, <2>2 DEF IInv, Named
<1>7. OpenSocketsNamed'
  <2> SUFFICES ASSUME ReadingsDiffer', NEW q \in Peer, Open(q)'
               PROVE  mConnections'[fName'[q]] = q
    BY DEF OpenSocketsNamed
  <2>1. CASE q = p
    BY <1>1, <2>1 DEF IInv, TypeOK
  <2>2. CASE q # p
    <3>1. Open(q) /\ fName'[q] = fName[q]
      BY <1>1, <2>2 DEF IInv, TypeOK, Open
    <3>2. mConnections[fName[q]] = q /\ fName[q] # t /\ fName[q] \in MSecs
      BY <1>6, <3>1 DEF IInv, OpenSocketsNamed, Named, TypeOK, Open
    <3> QED
      BY <1>1, <3>1, <3>2 DEF IInv, TypeOK
  <2> QED
    BY <2>1, <2>2
<1>8. ReportedAreGone'
  <2> SUFFICES ASSUME ReadingsDiffer', NEW q \in Peer, fName'[q] \in reported', Open(q)'
               PROVE  FALSE
    BY DEF ReportedAreGone
  <2>1. CASE q # p
    BY <1>1, <1>6, <2>1 DEF IInv, TypeOK, ReportedAreGone, Open
  <2>2. CASE q = p
    <3>1. t \in reported
      BY <1>1, <2>2 DEF IInv, TypeOK
    <3> QED
      BY <1>6, <3>1 DEF IInv, ReportedWereNamed
  <2> QED
    BY <2>1, <2>2
<1>9. AnswersReachAsker'
  BY <1>1, <1>6 DEF IInv, AnswersReachAsker
<1> QED
  BY <1>2, <1>3, <1>4, <1>5, <1>7, <1>8, <1>9 DEF IInv

(***************************************************************************)
(* The invariant is inductive: sending an answer finds the asker, since    *)
(* the entry has its name, and the other steps are those of the lemmas.    *)
(***************************************************************************)
LEMMA StepKeepsIInv == IInv /\ [Next]_vars => IInv'
<1> SUFFICES ASSUME IInv, [Next]_vars
             PROVE  IInv'
  OBVIOUS
<1>1. ASSUME NEW p \in Peer, NEW t \in MSecs, fOnNewConnection(p, t)
      PROVE  IInv'
  BY <1>1, AcceptKeepsIInv
<1>2. ASSUME NEW p \in Peer, fSocketDisconnected(p)
      PROVE  IInv'
  <2>1. PICK lost \in {{}, Entry(fName[p]) \ {p}} : fRemoveConnections(fName[p], {p}, lost)
    BY <1>2 DEF fSocketDisconnected
  <2>2. Open(p) /\ UNCHANGED <<acceptedAt, fName, active, requests, answers>>
    BY <1>2 DEF fSocketDisconnected
  <2>3. lost \subseteq Entry(fName[p])
    OBVIOUS
  <2> QED
    BY <2>1, <2>2, <2>3, RemovalKeepsIInv
<1>3. ASSUME NEW p \in Peer, NegotiationAccepted(p)
      PROVE  IInv'
  BY <1>3 DEF NegotiationAccepted, IInv, TypeOK, Named, AskersNamed, ReportedWereNamed,
              TableHoldsOpenSockets, ClosedAreReported, OpenSocketsNamed, ReportedAreGone,
              AnswersReachAsker, ReadingsDiffer, Open
<1>4. ASSUME NEW p \in Peer, NegotiationRefused(p)
      PROVE  IInv'
  <2>1. PICK lost \in {{}, Entry(fName[p])} : fRemoveConnections(fName[p], {}, lost)
    BY <1>4 DEF NegotiationRefused
  <2>2. Open(p) /\ UNCHANGED <<acceptedAt, fName, active, requests, answers>>
    BY <1>4 DEF NegotiationRefused
  <2>3. lost \subseteq Entry(fName[p])
    OBVIOUS
  <2> QED
    BY <2>1, <2>2, <2>3, RemovalKeepsIInv
<1>5. ASSUME NEW p \in Peer, fProcessRequest(p)
      PROVE  IInv'
  BY <1>5 DEF fProcessRequest, IInv, TypeOK, Named, AskersNamed, ReportedWereNamed,
              TableHoldsOpenSockets, ClosedAreReported, OpenSocketsNamed, ReportedAreGone,
              AnswersReachAsker, ReadingsDiffer, Open
<1>6. ASSUME NEW p \in Peer, fSendMessage(p)
      PROVE  IInv'
  <2>1. p \in requests /\ fName[p] \in MSecs
    BY <1>6 DEF fSendMessage, IInv, TypeOK, AskersNamed
  <2>2. \A q \in Entry(fName[p]) : q \in Peer /\ fName[q] = fName[p]
    BY <2>1, EntryHasTheName DEF IInv
  <2>3. AnswersReachAsker'
    <3> SUFFICES ASSUME ReadingsDiffer', NEW a \in answers'
                 PROVE  a[1] = a[2]
      BY DEF AnswersReachAsker
    <3>1. ReadingsDiffer
      BY <1>6 DEF fSendMessage, ReadingsDiffer
    <3>2. CASE a \in answers
      BY <3>1, <3>2 DEF IInv, AnswersReachAsker
    <3>3. CASE a \in {p} \X Entry(fName[p])
      BY <2>1, <2>2, <3>1, <3>3, NamesDiffer DEF IInv, AskersNamed
    <3> QED
      BY <1>6, <3>2, <3>3 DEF fSendMessage
  <2>4. TypeOK'
    BY <1>6, <2>2 DEF fSendMessage, IInv, TypeOK
  <2> QED
    BY <1>6, <2>3, <2>4
       DEF fSendMessage, IInv, Named, AskersNamed, ReportedWereNamed, TableHoldsOpenSockets,
           ClosedAreReported, OpenSocketsNamed, ReportedAreGone, ReadingsDiffer, Open
<1>7. CASE UNCHANGED vars
  BY <1>7 DEF vars, IInv, TypeOK, Named, AskersNamed, ReportedWereNamed,
              TableHoldsOpenSockets, ClosedAreReported, OpenSocketsNamed, ReportedAreGone,
              AnswersReachAsker, ReadingsDiffer, Open
<1> QED
  BY <1>1, <1>2, <1>3, <1>4, <1>5, <1>6, <1>7 DEF Next

(***************************************************************************)
(* The invariant holds in every reachable state.                           *)
(***************************************************************************)
LEMMA Invariant == Spec => []IInv
<1> QED
  BY InitIInv, StepKeepsIInv, PTL DEF Spec

-----------------------------------------------------------------------------

(***************************************************************************)
(* Every variable keeps its type.                                          *)
(***************************************************************************)
THEOREM TypeCorrect == Spec => []TypeOK
<1>1. IInv => TypeOK
  BY DEF IInv
<1> QED
  BY <1>1, Invariant, PTL

(***************************************************************************)
(* The table names open sockets by the name they carry, whatever the clock *)
(* shows (fSendMessage, fRemoveConnections).                               *)
(***************************************************************************)
THEOREM WritesToOpenSockets == Spec => []TableHoldsOpenSockets
<1>1. IInv => TableHoldsOpenSockets
  BY DEF IInv
<1> QED
  BY <1>1, Invariant, PTL

(***************************************************************************)
(* The end of a connection reaches the owner of the server, unless its     *)
(* peer stalled, whatever the clock shows (fSocketDisconnected,            *)
(* fRemoveConnections).                                                    *)
(***************************************************************************)
THEOREM OwnerIsTold == Spec => []ClosedAreReported
<1>1. IInv => ClosedAreReported
  BY DEF IInv
<1> QED
  BY <1>1, Invariant, PTL

(***************************************************************************)
(* With differing clock readings an answer goes to the connection that     *)
(* asked, however late fSendMessage is called.                             *)
(***************************************************************************)
THEOREM AskerIsAnswered == Spec => []AnswersReachAsker
<1>1. IInv => AnswersReachAsker
  BY DEF IInv
<1> QED
  BY <1>1, Invariant, PTL

(***************************************************************************)
(* With differing clock readings every open connection is in the table     *)
(* under its name (fOnNewConnection).                                      *)
(***************************************************************************)
THEOREM OpenIsReachable == Spec => []OpenSocketsNamed
<1>1. IInv => OpenSocketsNamed
  BY DEF IInv
<1> QED
  BY <1>1, Invariant, PTL

(***************************************************************************)
(* With differing clock readings sWebSocketDisconnected never names a      *)
(* connection that is open.                                                *)
(***************************************************************************)
THEOREM ReportsAreTrue == Spec => []ReportedAreGone
<1>1. IInv => ReportedAreGone
  BY DEF IInv
<1> QED
  BY <1>1, Invariant, PTL

(***************************************************************************)
(* With differing clock readings no step closes two connections: the       *)
(* entry that fRemoveConnections closes is the peer it was called for.     *)
(***************************************************************************)
THEOREM EndsAlone == Spec => OneClosedAtATime
<1> DEFINE Alone == ReadingsDiffer =>
              \A p, q \in Peer :
                Open(p) /\ Open(q) /\ socket'[p] = "closed" /\ socket'[q] = "closed" => p = q
<1>1. ASSUME IInv, [Next]_vars
      PROVE  Alone
  <2> SUFFICES ASSUME ReadingsDiffer, NEW q \in Peer, NEW r \in Peer, Open(q), Open(r),
                      socket'[q] = "closed", socket'[r] = "closed"
               PROVE  q = r
    OBVIOUS
  <2>1. ASSUME NEW p \in Peer, Open(p), NEW others \in {{}, {p}}, NEW lost,
               fRemoveConnections(fName[p], others, lost)
        PROVE  q = r
    <3>1. fName[p] \in MSecs
      BY <1>1, <2>1 DEF IInv, TypeOK, Named, Open
    <3>2. q \in Entry(fName[p]) \cup {p} /\ r \in Entry(fName[p]) \cup {p}
      BY <2>1 DEF fRemoveConnections, Open
    <3>3. mConnections[fName[p]] = p
      BY <1>1, <2>1 DEF IInv, OpenSocketsNamed
    <3> QED
      BY <3>2, <3>3 DEF Entry
  <2>2. ASSUME socket'[q] = socket[q]
        PROVE  FALSE
    BY <2>2 DEF Open
  <2>3. ASSUME NEW p \in Peer, NEW t \in MSecs, fOnNewConnection(p, t)
        PROVE  FALSE
    BY <1>1, <2>3 DEF fOnNewConnection, IInv, TypeOK, Open
  <2>4. ASSUME NEW p \in Peer, fSocketDisconnected(p)
        PROVE  q = r
    BY <2>1, <2>4 DEF fSocketDisconnected
  <2>5. ASSUME NEW p \in Peer, NegotiationRefused(p)
        PROVE  q = r
    BY <2>1, <2>5 DEF NegotiationRefused
  <2>6. ASSUME NEW p \in Peer,
               NegotiationAccepted(p) \/ fProcessRequest(p) \/ fSendMessage(p)
        PROVE  FALSE
    BY <2>2, <2>6 DEF NegotiationAccepted, fProcessRequest, fSendMessage
  <2>7. ASSUME UNCHANGED vars
        PROVE  FALSE
    BY <2>2, <2>7 DEF vars
  <2> QED
    BY <1>1, <2>3, <2>4, <2>5, <2>6, <2>7 DEF Next
<1>2. IInv /\ [Next]_vars => [Alone]_vars
  BY <1>1
<1> QED
  BY <1>2, Invariant, PTL DEF Spec, OneClosedAtATime
=============================================================================
