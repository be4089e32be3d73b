-------------------------- MODULE NWebSocketServer --------------------------
(***************************************************************************)
(* The connection table of a WebSocket server (NWebSocketServer): the      *)
(* server names a connection by the millisecond in which it accepts it,    *)
(* and requests, answers and disconnections are matched by that name only. *)
(*                                                                         *)
(* The server lives in one Qt event loop.  A request is answered by a      *)
(* later call of fSendMessage (the service manager answers RegisterAPI and *)
(* ForwardMessage long after they came in), so connections may come and go *)
(* between the two.  mMaxConnections is 0 (no limit) in every program of   *)
(* the repository: nothing calls fSetMaxConnections.                       *)
(***************************************************************************)
EXTENDS Naturals

CONSTANTS
  Peer,          \* processes that open a connection, each one once
  NoPeer,        \* no entry in the table
  MSecs          \* readings of the clock

ASSUME WSSConstants ==
  /\ MSecs \subseteq Nat \ {0}
  /\ NoPeer \notin Peer

VARIABLES
  socket,        \* state of the QWebSocket of each peer
  acceptedAt,    \* what the clock showed when it was accepted, 0 before
  fName,         \* name of its NWebSocket, 0 before it has one
  mConnections,  \* the table: name -> peer
  active,        \* peers in state eConnectionActive
  requests,      \* peers with a request that waits for its answer
  answers,       \* <<asker, receiver>> of every answer sent
  reported,      \* names sWebSocketDisconnected was emitted for
  stalled        \* peers that left the closing handshake's bytes unread

vars == <<socket, acceptedAt, fName, mConnections, active, requests, answers,
          reported, stalled>>

TypeOK ==
  /\ socket \in [Peer -> {"none", "open", "closed"}]
  /\ acceptedAt \in [Peer -> MSecs \cup {0}]
  /\ fName \in [Peer -> MSecs \cup {0}]
  /\ mConnections \in [MSecs -> Peer \cup {NoPeer}]
  /\ active \subseteq Peer
  /\ requests \subseteq Peer
  /\ answers \subseteq Peer \X Peer
  /\ reported \subseteq MSecs
  /\ stalled \subseteq Peer

Init ==
  /\ socket = [p \in Peer |-> "none"]
  /\ acceptedAt = [p \in Peer |-> 0]
  /\ fName = [p \in Peer |-> 0]
  /\ mConnections = [i \in MSecs |-> NoPeer]
  /\ active = {}
  /\ requests = {}
  /\ answers = {}
  /\ reported = {}
  /\ stalled = {}

Open(p) == socket[p] = "open"

-----------------------------------------------------------------------------
(* Accepting *)

(* Mutated form: names are taken from a clock half as fine. *)
CoarseName(t) == (t + 1) \div 2

NameAt(t) == t

(***************************************************************************)
(* The clock is the system's: it may show the same millisecond to two      *)
(* connections, or be set back.  A second connection with a name replaces  *)
(* the first in the table; the first stays open.                           *)
(***************************************************************************)
fOnNewConnection(p, t) ==
  /\ socket[p] = "none"
  /\ acceptedAt' = [acceptedAt EXCEPT ![p] = t]
  /\ socket' = [socket EXCEPT ![p] = "open"]
  /\ fName' = [fName EXCEPT ![p] = NameAt(t)]
  /\ mConnections' = [mConnections EXCEPT ![NameAt(t)] = p]
  /\ UNCHANGED <<active, requests, answers, reported, stalled>>

-----------------------------------------------------------------------------
(* Closing *)

(* Mutated form: contains() is not asked first. *)
EntryUnchecked(i) == {mConnections[i]}

(* The peer that the table has for name i, if any. *)
Entry(i) == {mConnections[i]} \ {NoPeer}

(* Mutated form: the entry goes, its socket is left open. *)
EntryForgotten(i, others, lost) ==
  /\ mConnections' = [mConnections EXCEPT ![i] = NoPeer]
  /\ socket' = [p \in Peer |-> IF p \in others THEN "closed" ELSE socket[p]]
  /\ reported' = reported \cup {i}
  /\ stalled' = stalled

(* Mutated form: the socket closes, its entry stays. *)
EntryKept(i, others, lost) ==
  /\ mConnections' = mConnections
  /\ socket' = [p \in Peer |-> IF p \in Entry(i) \cup others THEN "closed" ELSE socket[p]]
  /\ reported' = reported \cup {i}
  /\ stalled' = stalled

(* Mutated form: the disconnected signal of a closed socket is not awaited. *)
ClosedUnreported(i, others, lost) ==
  /\ mConnections' = [mConnections EXCEPT ![i] = NoPeer]
  /\ socket' = [p \in Peer |-> IF p \in Entry(i) \cup others THEN "closed" ELSE socket[p]]
  /\ reported' = IF others # {} THEN reported \cup {i} ELSE reported
  /\ stalled' = stalled \cup (Entry(i) \cap lost)

(***************************************************************************)
(* fRemoveConnections({i}) closes the socket that the table has for i;     *)
(* close() normally emits disconnected() at once, which runs               *)
(* fSocketDisconnected for it: the table entry goes and the name is        *)
(* reported.  When the last bytes cannot be written because the peer does  *)
(* not read (lost), the NWebSocket is deleted before disconnected() comes, *)
(* and the report never does.                                              *)
(* others are the peers whose own disconnection started the call.          *)
(***************************************************************************)
fRemoveConnections(i, others, lost) ==
  /\ mConnections' = [mConnections EXCEPT ![i] = NoPeer]
  /\ socket' = [p \in Peer |-> IF p \in Entry(i) \cup others THEN "closed" ELSE socket[p]]
  /\ reported' = IF others \cup (Entry(i) \ lost) # {}
                 THEN reported \cup {i} ELSE reported
  /\ stalled' = stalled \cup (Entry(i) \cap lost)

(* The peer goes away. *)
fSocketDisconnected(p) ==
  /\ Open(p)
  /\ \E lost \in {{}, Entry(fName[p]) \ {p}} : fRemoveConnections(fName[p], {p}, lost)
  /\ UNCHANGED <<acceptedAt, fName, active, requests, answers>>

-----------------------------------------------------------------------------
(* Messages *)

(* The peer proposes a protocol version the server supports: *)
NegotiationAccepted(p) ==
  /\ Open(p)
  /\ active' = active \cup {p}
  /\ UNCHANGED <<socket, acceptedAt, fName, mConnections, requests, answers, reported, stalled>>

(* it proposes another one: the refusal is sent and the connection closed. *)
NegotiationRefused(p) ==
  /\ Open(p)
  /\ \E lost \in {{}, Entry(fName[p])} : fRemoveConnections(fName[p], {}, lost)
  /\ UNCHANGED <<acceptedAt, fName, active, requests, answers>>

(* Whether the connection was negotiated is not looked at. *)
fProcessRequest(p) ==
  /\ Open(p)
  /\ requests' = requests \cup {p}
  /\ UNCHANGED <<socket, acceptedAt, fName, mConnections, active, answers, reported, stalled>>

(***************************************************************************)
(* The answer to the request of p goes to whatever connection has the name *)
(* the request came in with; without one it is dropped.                    *)
(***************************************************************************)
fSendMessage(p) ==
  /\ p \in requests
  /\ requests' = requests \ {p}
  /\ answers' = answers \cup ({p} \X Entry(fName[p]))
  /\ UNCHANGED <<socket, acceptedAt, fName, mConnections, active, reported, stalled>>

-----------------------------------------------------------------------------

Next ==
  \/ \E p \in Peer, t \in MSecs : fOnNewConnection(p, t)
  \/ \E p \in Peer : fSocketDisconnected(p)
  \/ \E p \in Peer : NegotiationAccepted(p)
  \/ \E p \in Peer : NegotiationRefused(p)
  \/ \E p \in Peer : fProcessRequest(p)
  \/ \E p \in Peer : fSendMessage(p)

Spec == Init /\ [][Next]_vars

-----------------------------------------------------------------------------
(* Whatever the clock shows *)

(***************************************************************************)
(* The table only names sockets that are open, by the name they carry:     *)
(* fSendMessage never writes to a socket that is gone, even when two       *)
(* connections share a name and one of them takes the other down.          *)
(***************************************************************************)
TableHoldsOpenSockets ==
  \A i \in MSecs : mConnections[i] # NoPeer =>
                     Open(mConnections[i]) /\ fName[mConnections[i]] = i

(***************************************************************************)
(* Unless its peer stalled, the name of every closed socket has been       *)
(* reported, so the owner of the server could drop what it kept under that *)
(* name, also when a socket went down because it shared another's name.    *)
(***************************************************************************)
ClosedAreReported ==
  \A p \in Peer \ stalled : socket[p] = "closed" => fName[p] \in reported

-----------------------------------------------------------------------------
(* As long as the clock has not shown the same reading twice *)

ReadingsDiffer ==
  \A p, q \in Peer : acceptedAt[p] = acceptedAt[q] /\ acceptedAt[p] # 0 => p = q

(***************************************************************************)
(* Every answer reaches the connection that asked, however late it comes   *)
(* and whoever connected or left in between.                               *)
(***************************************************************************)
AnswersReachAsker ==
  ReadingsDiffer => \A a \in answers : a[1] = a[2]

(***************************************************************************)
(* Every open connection can be answered.                                  *)
(***************************************************************************)
OpenSocketsNamed ==
  ReadingsDiffer => \A p \in Peer : Open(p) => mConnections[fName[p]] = p

(***************************************************************************)
(* A name is reported as disconnected only when no open connection has it: *)
(* the service manager removes no module that is still connected.          *)
(***************************************************************************)
ReportedAreGone ==
  ReadingsDiffer => \A p \in Peer : fName[p] \in reported => ~Open(p)

(***************************************************************************)
(* One connection's end, or its failed negotiation, ends no other one.     *)
(***************************************************************************)
OneClosedAtATime ==
  [][ReadingsDiffer =>
       \A p, q \in Peer :
         Open(p) /\ Open(q) /\ socket'[p] = "closed" /\ socket'[q] = "closed" => p = q]_vars
=============================================================================
