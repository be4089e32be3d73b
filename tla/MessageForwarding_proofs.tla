---------------------- MODULE MessageForwarding_proofs ----------------------
(***************************************************************************)
(* Proofs about forwarded requests, for any clients, modules, methods and  *)
(* failures of the connections.                                            *)
(*                                                                         *)
(* A step moves one message from the head of a queue to the end of         *)
(* another, or to the client, or drops it.  The inductive invariant says   *)
(* that each forwarded method is in one place at most, its answer to the   *)
(* client counted as one, so that a move empties the place it came from;   *)
(* and that a request is nowhere before it is made, so that what is sent   *)
(* is new.  While no connection was lost nothing is dropped, and the       *)
(* entries of the two processes follow the message.  An HTTP request that  *)
(* met no other one waits alone, and no message of another is under way.   *)
(*                                                                         *)
(* Where its message is tells what has become of a method (Fate). The      *)
(* second half of the module shows that Fate changes as Forwarding says,   *)
(* one lemma for each kind of move.                                        *)
(***************************************************************************)
EXTENDS MessageForwarding, FiniteSetTheorems, TLAPS

(* The answers of WebSocket clients are a place too. *)
Client == <<"client", None>>

AnyPlace == Place \cup {Client}

(* Where in the queue, or among the client's answers, the id is. *)
Positions(p, id) ==
  IF p = Client THEN (IF id[1] \in WsRequest THEN AnsweredAt(id) ELSE {}) ELSE At(p, id)

Holds(p, id) == Positions(p, id) # {}

Single(positions) == \A i, j \in positions : i = j

(* A forwarded method is in one place at most, and there once. *)
OncePerPlace == \A id \in Forward : \A p \in AnyPlace : Single(Positions(p, id))

OnePlace == \A id \in Forward : \A p, q \in AnyPlace : Holds(p, id) /\ Holds(q, id) => p = q

(* Before it is made a request is nowhere. *)
UnmadeNowhere ==
  \A id \in Forward : requests[id[1]] = None =>
    id \notin mForwardedMessages /\ \A p \in AnyPlace : ~Holds(p, id)

OnceEach(queue) == \A i, j \in DOMAIN queue : queue[i] = queue[j] => i = j

(* Routes wait or have returned for requests that were made, each once. *)
RoutesMade ==
  /\ \A r \in ToSet(waiting) \cup returned : requests[r] # None
  /\ OnceEach(waiting)

(* While no connection was lost, the entries tell what is under way. *)
EntriesFollow ==
  failures = 0 =>
    /\ connection = 0
    /\ \A id \in Forward : \A p \in Place : Holds(p, id) => id \in mForwardedMessages
    /\ \A id \in mForwardedMessages :
         requests[id[1]].counter = 0 => \E p \in Place : Holds(p, id)
    /\ \A entry \in managerForwarded :
         /\ entry.connection = 0
         /\ requests[entry.id[1]].counter = 0
         /\ \E p \in {"toModule", "fromModule"} \X Module : Holds(p, entry.id)

(* A route that met no other waits alone, with nothing of another under way. *)
UnmixedAlone ==
  \A r \in ToSet(waiting) \ mixed :
    /\ \A w \in ToSet(waiting) : w = r
    /\ \A id \in mForwardedMessages : \A p \in Place :
         id[1] \in HttpRequest /\ Holds(p, id) => id[1] = r
    /\ lResponse[r] # None => lResponse[r].about = r

(* A route begins without a response. *)
NoOldResponse == \A r \in HttpRequest \ ToSet(waiting) : lResponse[r] = None

(* A connection that is gone has nothing under way. *)
GoneEmpty == connection = None => toManager = <<>> /\ fromManager = <<>>

(* The inductive invariant. *)
IInv ==
  /\ TypeOK
  /\ GoneEmpty
  /\ RoutesMade
  /\ NoOldResponse
  /\ OncePerPlace
  /\ OnePlace
  /\ UnmadeNowhere
  /\ EntriesFollow
  /\ UnmixedAlone
  /\ HttpAnswersOwn

-----------------------------------------------------------------------------
(* Queues *)

(***************************************************************************)
(* What the manager sends is told apart by its fields.                     *)
(***************************************************************************)
LEMMA Fields ==
  /\ \A m \in Relayed : "id" \in DOMAIN m /\ "methods" \notin DOMAIN m /\ m.id \in Forward
  /\ \A m \in API : "id" \notin DOMAIN m /\ "methods" \in DOMAIN m /\ m.methods \subseteq Method
BY DEF Relayed, API

(***************************************************************************)
(* Taking the head of a queue moves the others up by one.                  *)
(***************************************************************************)
LEMMA TailPositions ==
  ASSUME NEW S, NEW q \in Seq(S), q # <<>>
  PROVE  /\ Head(q) \in S /\ Tail(q) \in Seq(S)
         /\ 1 \in DOMAIN q /\ q[1] = Head(q)
         /\ \A i : i \in DOMAIN Tail(q) <=> i \in Nat \ {0} /\ i + 1 \in DOMAIN q
         /\ \A i \in DOMAIN Tail(q) : Tail(q)[i] = q[i + 1]
         /\ \A i \in DOMAIN q : i = 1 \/ (i - 1 \in DOMAIN Tail(q) /\ i = (i - 1) + 1)
OBVIOUS

(***************************************************************************)
(* Appending puts a message behind the others.                             *)
(***************************************************************************)
LEMMA AppendPositions ==
  ASSUME NEW S, NEW q \in Seq(S), NEW m \in S
  PROVE  /\ Append(q, m) \in Seq(S)
         /\ Len(q) + 1 \notin DOMAIN q
         /\ DOMAIN Append(q, m) = DOMAIN q \cup {Len(q) + 1}
         /\ Append(q, m)[Len(q) + 1] = m
         /\ \A i \in DOMAIN q : Append(q, m)[i] = q[i]
OBVIOUS

(***************************************************************************)
(* So a queue loses the request at its head, and only that one, if each is *)
(* in it once; and gains the one that is appended.                         *)
(***************************************************************************)
LEMMA TakeAsking ==
  ASSUME NEW S, NEW q \in Seq(S), q # <<>>, NEW id, Single(Asking(q, id))
  PROVE  /\ Single(Asking(Tail(q), id))
         /\ Asking(Tail(q), id) # {} <=> Asking(q, id) # {} /\ id # Head(q)
         /\ id = Head(q) => Asking(q, id) # {}
<1>1. \A i \in Asking(Tail(q), id) : i \in Nat \ {0} /\ i + 1 \in Asking(q, id)
  BY TailPositions DEF Asking
<1>2. \A i \in Asking(q, id) : i = 1 \/ i - 1 \in Asking(Tail(q), id)
  BY TailPositions DEF Asking
<1>3. id = Head(q) <=> 1 \in Asking(q, id)
  BY TailPositions DEF Asking
<1>4. Single(Asking(Tail(q), id))
  BY <1>1 DEF Single
<1>5. \A i \in Asking(Tail(q), id) : id # Head(q)
  BY <1>1, <1>3 DEF Single
<1> QED
  BY <1>1, <1>2, <1>3, <1>4, <1>5

(* A request put on a queue is on it once, if it was not there before. *)
LEMMA PutAsking ==
  ASSUME NEW S, NEW q \in Seq(S), NEW m \in S, NEW id, Single(Asking(q, id)),
         m = id => Asking(q, id) = {}
  PROVE  /\ Single(Asking(Append(q, m), id))
         /\ Asking(Append(q, m), id) # {} <=> Asking(q, id) # {} \/ m = id
<1>1. Asking(Append(q, m), id) = Asking(q, id) \cup {i \in {Len(q) + 1} : m = id}
  BY AppendPositions DEF Asking
<1> QED
  BY <1>1 DEF Single

(***************************************************************************)
(* The same for the answers in a queue.                                    *)
(***************************************************************************)
About(message, id) == "id" \in DOMAIN message /\ message.id = id

(* The first answer that is taken from a queue leaves the others on it. *)
LEMMA TakeAnswering ==
  ASSUME NEW S, NEW q \in Seq(S), q # <<>>, NEW id, Single(Answering(q, id))
  PROVE  /\ Single(Answering(Tail(q), id))
         /\ Answering(Tail(q), id) # {} <=> Answering(q, id) # {} /\ ~About(Head(q), id)
         /\ About(Head(q), id) => Answering(q, id) # {}
<1>1. \A i \in Answering(Tail(q), id) : i \in Nat \ {0} /\ i + 1 \in Answering(q, id)
  BY TailPositions DEF Answering
<1>2. \A i \in Answering(q, id) : i = 1 \/ i - 1 \in Answering(Tail(q), id)
  BY TailPositions DEF Answering
<1>3. About(Head(q), id) <=> 1 \in Answering(q, id)
  BY TailPositions DEF Answering, About
<1>4. Single(Answering(Tail(q), id))
  BY <1>1 DEF Single
<1>5. \A i \in Answering(Tail(q), id) : ~About(Head(q), id)
  BY <1>1, <1>3 DEF Single
<1> QED
  BY <1>1, <1>2, <1>3, <1>4, <1>5

(* An answer put on a queue is on it once, if none about its request was. *)
LEMMA PutAnswering ==
  ASSUME NEW S, NEW q \in Seq(S), NEW m \in S, NEW id, Single(Answering(q, id)),
         About(m, id) => Answering(q, id) = {}
  PROVE  /\ Single(Answering(Append(q, m), id))
         /\ Answering(Append(q, m), id) # {} <=> Answering(q, id) # {} \/ About(m, id)
<1>1. Answering(Append(q, m), id) = Answering(q, id) \cup {i \in {Len(q) + 1} : About(m, id)}
  BY AppendPositions DEF Answering, About
<1> QED
  BY <1>1 DEF Single

(***************************************************************************)
(* Putting the elements of a finite set in some order uses each once.      *)
(***************************************************************************)
LEMMA Ordering ==
  ASSUME NEW S, IsFiniteSet(S)
  PROVE  /\ SetToSeq(S) \in Seq(S)
         /\ OnceEach(SetToSeq(S))
         /\ \A x \in S : \E i \in DOMAIN SetToSeq(S) : SetToSeq(S)[i] = x
<1> DEFINE n == Cardinality(S)
<1>1. n \in Nat /\ ExistsBijection(1 .. n, S)
  BY FS_CardinalityType
<1>2. \E f \in [1 .. n -> S] : IsInjective(f)
  BY <1>1 DEF ExistsBijection, Bijection, Injection, Surjection, IsInjective
<1>3. SetToSeq(S) \in [1 .. n -> S] /\ IsInjective(SetToSeq(S))
  BY <1>2 DEF SetToSeq
<1>4. SetToSeq(S) \in Injection(1 .. n, S)
  BY <1>3 DEF Injection
<1>5. Cardinality(1 .. n) = n /\ IsFiniteSet(1 .. n)
  BY <1>1, FS_Interval
<1>6. SetToSeq(S) \in Surjection(1 .. n, S)
  BY <1>4, <1>5, FS_Injection
<1>7. SetToSeq(S) \in Seq(S)
  BY <1>1, <1>3
<1> QED
  BY <1>3, <1>6, <1>7 DEF IsInjective, Surjection, OnceEach

(***************************************************************************)
(* The routes that wait, when one more does or the innermost returns.      *)
(***************************************************************************)
LEMMA Nesting ==
  ASSUME NEW w \in Seq(HttpRequest)
  PROVE  /\ ToSet(w) \subseteq HttpRequest
         /\ w = <<>> <=> ToSet(w) = {}
         /\ \A r \in HttpRequest : /\ Append(w, r) \in Seq(HttpRequest)
                                   /\ ToSet(Append(w, r)) = ToSet(w) \cup {r}
         /\ w # <<>> => /\ Last(w) \in ToSet(w)
                        /\ Front(w) \in Seq(HttpRequest)
                        /\ ToSet(w) = ToSet(Front(w)) \cup {Last(w)}
<1>1. ToSet(w) \subseteq HttpRequest
  BY DEF ToSet
<1>2. w = <<>> <=> ToSet(w) = {}
  BY DEF ToSet
<1>3. ASSUME NEW r \in HttpRequest
      PROVE  Append(w, r) \in Seq(HttpRequest) /\ ToSet(Append(w, r)) = ToSet(w) \cup {r}
  BY AppendPositions DEF ToSet
<1>4. ASSUME w # <<>>
      PROVE  /\ Last(w) \in ToSet(w)
             /\ Front(w) \in Seq(HttpRequest)
             /\ ToSet(w) = ToSet(Front(w)) \cup {Last(w)}
  <2>1. Len(w) \in Nat \ {0} /\ DOMAIN w = 1 .. Len(w)
    BY <1>4
  <2>2. Front(w) \in Seq(HttpRequest) /\ DOMAIN Front(w) = 1 .. Len(w) - 1
    BY <2>1 DEF Front
  <2>3. \A i \in DOMAIN Front(w) : Front(w)[i] = w[i]
    BY <2>1 DEF Front
  <2>4. \A i \in DOMAIN w : i \in DOMAIN Front(w) \/ i = Len(w)
    BY <2>1, <2>2
  <2> QED
    BY <2>1, <2>2, <2>3, <2>4 DEF ToSet, Last
<1> QED
  BY <1>1, <1>2, <1>3, <1>4

(* Routes enter and leave the stack of nested event loops at its top. *)
LEMMA NestingOnce ==
  ASSUME NEW w \in Seq(HttpRequest), OnceEach(w)
  PROVE  /\ \A r \in HttpRequest \ ToSet(w) : OnceEach(Append(w, r))
         /\ w # <<>> => OnceEach(Front(w)) /\ Last(w) \notin ToSet(Front(w))
<1>1. ASSUME NEW r \in HttpRequest, r \notin ToSet(w)
      PROVE  OnceEach(Append(w, r))
  BY <1>1, AppendPositions DEF OnceEach, ToSet
<1>2. ASSUME w # <<>>
      PROVE  OnceEach(Front(w)) /\ Last(w) \notin ToSet(Front(w))
  <2>1. Len(w) \in Nat \ {0} /\ DOMAIN w = 1 .. Len(w)
    BY <1>2
  <2>2. DOMAIN Front(w) = 1 .. Len(w) - 1 /\ \A i \in 1 .. Len(w) - 1 : Front(w)[i] = w[i]
    BY <2>1 DEF Front
  <2> QED
    BY <2>1, <2>2 DEF OnceEach, ToSet, Last
<1> QED
  BY <1>1, <1>2

-----------------------------------------------------------------------------
(* Types *)

(***************************************************************************)
(* What a request says, its first answers and what is forwarded.           *)
(***************************************************************************)
LEMMA Asked ==
  ASSUME NEW r \in Request, NEW q \in Queries[r]
  PROVE  /\ q \in QuerySet \cup {Malformed}
         /\ r \in WsRequest => q \in QuerySet
         /\ q.methods \subseteq Method /\ q.counter \in Nat
         /\ q # None
<1>1. q \in QuerySet \cup {Malformed} /\ (r \in WsRequest => q \in QuerySet)
  BY ForwardingConstants
<1>2. q.methods \subseteq Method /\ q.counter \in Nat
  <2>1. CASE q \in QuerySet
    BY <2>1 DEF QuerySet
  <2>2. CASE q = Malformed
    BY <2>2 DEF Malformed
  <2> QED
    BY <1>1, <2>1, <2>2
<1> QED
  BY <1>1, <1>2, ForwardingConstants

(* What the connector answers itself is an answer to the request it serves. *)
LEMMA FirstAnswers ==
  ASSUME NEW r \in Request, NEW q \in Queries[r]
  PROVE  /\ LocalAnswers(r, q) \subseteq Answer
         /\ AnsweredAtOnce(r, q) \subseteq Answer
         /\ \A a \in LocalAnswers(r, q) \cup AnsweredAtOnce(r, q) : a.about = r
<1>1. \A m \in Method : LocalAnswer(r, m, q.counter) \in Answer
                       /\ LocalAnswer(r, m, q.counter).about = r
  BY DEF LocalAnswer, Answer, Status
<1>2. LocalAnswers(r, q) \subseteq Answer /\ \A a \in LocalAnswers(r, q) : a.about = r
  <2>1. q.methods \subseteq Method
    BY Asked
  <2> QED
    BY <1>1, <2>1 DEF LocalAnswers
<1> DEFINE refusal == [about |-> r, method |-> None, status |-> "Format", data |-> FALSE]
<1>3. refusal \in Answer /\ refusal.about = r
  BY DEF Answer, Status
<1>4. AnsweredAtOnce(r, q) \subseteq LocalAnswers(r, q) \cup {refusal}
  BY DEF AnsweredAtOnce
<1> HIDE DEF refusal
<1> QED
  BY <1>2, <1>3, <1>4

(* A request is refused a finite number of times. *)
LEMMA LocalAnswersFinite ==
  ASSUME NEW r \in Request, NEW q \in Queries[r]
  PROVE  IsFiniteSet(LocalAnswers(r, q))
<1> DEFINE D == q.methods \ fMethodValid(r)
           f == [m \in D |-> LocalAnswer(r, m, q.counter)]
<1>1. IsFiniteSet(D)
  BY Asked, ForwardingConstants, FS_Subset
<1>2. f \in Surjection(D, LocalAnswers(r, q))
  BY DEF Surjection, LocalAnswers
<1> QED
  BY <1>1, <1>2, FS_Surjection

(* A request is forwarded a finite number of times. *)
LEMMA ForwardFinite ==
  ASSUME NEW r \in Request, NEW ms \in SUBSET Method
  PROVE  IsFiniteSet({r} \X ms)
<1> DEFINE f == [m \in ms |-> <<r, m>>]
<1>1. IsFiniteSet(ms)
  BY ForwardingConstants, FS_Subset
<1>2. f \in Surjection(ms, {r} \X ms)
  BY DEF Surjection
<1> QED
  BY <1>1, <1>2, FS_Surjection

(***************************************************************************)
(* Every step keeps the variables in their types.                          *)
(***************************************************************************)
LEMMA NextTypeOK == TypeOK /\ GoneEmpty /\ RoutesMade /\ [Next]_vars => TypeOK'
<1> SUFFICES ASSUME TypeOK, GoneEmpty, RoutesMade, [Next]_vars
             PROVE  TypeOK'
  OBVIOUS
<1> USE DEF TypeOK, routeVars, connectorVars, managerVars, moduleVars, linkVars
<1>1. MaxFailures \in Nat /\ Method \ {ListAPI} \subseteq Method /\ HttpRequest \subseteq Request
  BY ForwardingConstants DEF Request
<1>2. ASSUME NEW ids \in SUBSET Forward, IsFiniteSet(ids), fForwardMessage(ids)
      PROVE  mForwardedMessages' \subseteq Forward /\ toManager' \in Seq(Forward)
  <2>1. SetToSeq(ids) \in Seq(Forward)
    BY <1>2, Ordering
  <2> QED
    BY <1>2, <2>1 DEF fForwardMessage
<1>3. ASSUME NEW a \in Answer, sHttpResponseProcessed(a)
      PROVE  /\ lResponse' \in [HttpRequest -> Answer \cup {None}]
             /\ quit' = ToSet(waiting)
             /\ crashed' \in BOOLEAN
  BY <1>3 DEF sHttpResponseProcessed
<1>4. ASSUME NEW r \in HttpRequest, NEW q \in Queries[r], Route(r, q)
      PROVE  TypeOK'
  <2>1. /\ requests[r] = None /\ q \in QuerySet \cup {Malformed} /\ r \in Request
        /\ q.methods \subseteq Method
    BY <1>1, <1>4, Asked DEF Route
  <2>2. requests' \in [Request -> QuerySet \cup {Malformed, None}]
    BY <1>4, <2>1 DEF Route
  <2>3. mixed' \subseteq HttpRequest
    BY <1>4, Nesting DEF Route
  <2>4. r \notin ToSet(waiting)
    BY <2>1 DEF RoutesMade
  <2>5. UNCHANGED <<mKnown, left, managerVars, moduleVars, connection, fromManager, failures>>
    BY <1>4 DEF Route
  <2>6. CASE /\ \E a \in AnsweredAtOnce(r, q) :
                  answers' = [answers EXCEPT ![r] = <<a>>] /\ sHttpResponseProcessed(a)
             /\ returned' = returned \cup {r}
             /\ UNCHANGED <<waiting, mForwardedMessages, toManager>>
    <3> PICK a \in AnsweredAtOnce(r, q) :
               answers' = [answers EXCEPT ![r] = <<a>>] /\ sHttpResponseProcessed(a)
      BY <2>6
    <3>1. a \in Answer
      BY <2>1, FirstAnswers
    <3>2. answers' \in [Request -> Seq(Answer)]
      BY <2>1, <3>1
    <3>3. waiting' = waiting /\ returned' = returned \cup {r}
      BY <2>6, Zenon
    <3>4. returned' \subseteq HttpRequest \ ToSet(waiting')
      BY <2>4, <3>3
    <3>5. /\ lResponse' \in [HttpRequest -> Answer \cup {None}]
          /\ quit' = ToSet(waiting')
          /\ crashed' \in BOOLEAN
      BY <1>3, <3>1, <3>3
    <3>6. UNCHANGED <<mForwardedMessages, toManager>>
      BY <2>6, Zenon
    <3> QED
      BY <2>2, <2>3, <2>5, <3>2, <3>3, <3>4, <3>5, <3>6
  <2>7. CASE /\ IF q.methods = {} THEN UNCHANGED <<mForwardedMessages, toManager>>
                ELSE \E m \in q.methods \cap fMethodValid(r) : fForwardMessage({<<r, m>>})
             /\ waiting' = Append(waiting, r)
             /\ UNCHANGED <<lResponse, quit, crashed, answers, returned>>
    <3>1. mForwardedMessages' \subseteq Forward /\ toManager' \in Seq(Forward)
      <4>1. ASSUME NEW m \in q.methods \cap fMethodValid(r), fForwardMessage({<<r, m>>})
            PROVE  mForwardedMessages' \subseteq Forward /\ toManager' \in Seq(Forward)
        <5>1. {<<r, m>>} \in SUBSET Forward
          BY <2>1, <4>1 DEF Forward, fMethodValid
        <5> QED
          BY <1>2, <4>1, <5>1, FS_Singleton
      <4> QED
        BY <2>7, <4>1
    <3>2. waiting' \in Seq(HttpRequest) /\ ToSet(waiting') = ToSet(waiting) \cup {r}
      BY <2>7, Nesting
    <3>3. r \notin returned
      BY <2>1 DEF RoutesMade
    <3> QED
      BY <2>2, <2>3, <2>5, <2>7, <3>1, <3>2, <3>3
  <2> QED
    BY <1>4, <2>6, <2>7 DEF Route
<1>5. ASSUME NEW r \in WsRequest, NEW q \in Queries[r], fProcessRequest(r, q)
      PROVE  TypeOK'
  <2>1. r \in Request /\ q \in QuerySet /\ q.methods \subseteq Method
    BY Asked DEF Request
  <2>2. mForwardedMessages' \subseteq Forward /\ toManager' \in Seq(Forward)
    <3>1. {r} \X (q.methods \cap fMethodValid(r)) \in SUBSET Forward
      BY <2>1 DEF Forward, fMethodValid
    <3>2. IsFiniteSet({r} \X (q.methods \cap fMethodValid(r)))
      BY <2>1, ForwardFinite
    <3> QED
      BY <1>2, <1>5, <3>1, <3>2 DEF fProcessRequest
  <2>3. SetToSeq(LocalAnswers(r, q)) \in Seq(Answer)
    BY <2>1, LocalAnswersFinite, FirstAnswers, Ordering
  <2>4. answers' \in [Request -> Seq(Answer)]
    BY <1>5, <2>3 DEF fProcessRequest
  <2> QED
    BY <1>5, <2>1, <2>2, <2>4 DEF fProcessRequest
<1>6. ASSUME NEW r \in HttpRequest, Timeout(r)
      PROVE  TypeOK'
  BY <1>6 DEF Timeout, TimedOut
<1>7. ASSUME Returns
      PROVE  TypeOK'
  <2> DEFINE r == Last(waiting)
  <2>1. /\ waiting # <<>> /\ waiting' = Front(waiting)
        /\ quit' = quit \ {r} /\ returned' = returned \cup {r}
        /\ lResponse' = [lResponse EXCEPT ![r] = None]
        /\ answers' = IF r \in left THEN answers
                      ELSE [answers EXCEPT ![r] =
                              <<IF lResponse[r] # None THEN lResponse[r] ELSE TimeoutAnswer(r)>>]
        /\ crashed' \in BOOLEAN
    BY <1>7 DEF Returns
  <2>2. /\ r \in HttpRequest /\ ToSet(waiting) = ToSet(waiting') \cup {r}
        /\ waiting' \in Seq(HttpRequest) /\ r \notin ToSet(waiting')
    BY <2>1, Nesting, NestingOnce DEF RoutesMade
  <2>3. r \in Request /\ TimeoutAnswer(r) \in Answer
    BY <1>1, <2>2 DEF TimeoutAnswer, Answer, Status
  <2> HIDE DEF r
  <2>4. answers' \in [Request -> Seq(Answer)]
    BY <2>1, <2>2, <2>3
  <2>5. lResponse' \in [HttpRequest -> Answer \cup {None}]
    BY <2>1
  <2>6. returned' \subseteq HttpRequest \ ToSet(waiting') /\ quit' \subseteq ToSet(waiting')
    BY <2>1, <2>2
  <2> QED
    BY <1>7, <2>1, <2>2, <2>4, <2>5, <2>6 DEF Returns
<1>8. ASSUME NEW r \in HttpRequest, HttpClientLeaves(r)
      PROVE  TypeOK'
  BY <1>8 DEF HttpClientLeaves
<1>9. ASSUME fProcessResponse
      PROVE  TypeOK'
  <2>1. /\ fromManager # <<>> /\ fromManager' = Tail(fromManager)
        /\ UNCHANGED <<waiting, returned, left, mixed, requests, managerVars, moduleVars,
                       connection, toManager, failures>>
    BY <1>9 DEF fProcessResponse
  <2>2. Head(fromManager) \in Relayed \cup API /\ fromManager' \in Seq(Relayed \cup API)
    BY <2>1, TailPositions
  <2>3. CASE "id" \in DOMAIN Head(fromManager) /\ RelayedToClient(Head(fromManager))
    <3>1. Head(fromManager) \in Relayed
      BY <2>2, <2>3, Fields
    <3>2. mForwardedMessages' \subseteq Forward /\ UNCHANGED mKnown
      BY <2>3 DEF RelayedToClient, Forgotten
    <3>3. /\ answers' \in [Request -> Seq(Answer)]
          /\ lResponse' \in [HttpRequest -> Answer \cup {None}]
          /\ quit' \subseteq ToSet(waiting)
          /\ crashed' \in BOOLEAN
      <4> DEFINE a == [about |-> Head(fromManager).id[1], method |-> Head(fromManager).id[2],
                       status |-> "successful", data |-> Head(fromManager).data]
      <4>1. a \in Answer
        BY <3>1 DEF Relayed, Answer, Forward, Status
      <4>2. fSendMessage(a) \/ UNCHANGED <<answers, lResponse, quit, crashed>>
        BY <2>3 DEF RelayedToClient, Passed
      <4> HIDE DEF a
      <4>3. CASE fSendMessage(a)
        <5>1. a.about \in Request
          BY <4>1 DEF Answer
        <5>2. CASE a.about \in HttpRequest
          BY <1>3, <4>1, <4>3, <5>2 DEF fSendMessage
        <5>3. CASE a.about \notin HttpRequest
          <6>1. answers' = [answers EXCEPT ![a.about] = Append(@, a)]
                /\ UNCHANGED <<lResponse, quit, crashed>>
            BY <4>3, <5>3 DEF fSendMessage
          <6> QED
            BY <4>1, <5>1, <6>1
        <5> QED
          BY <5>2, <5>3
      <4> QED
        BY <4>2, <4>3
    <3> QED
      BY <2>1, <2>2, <3>2, <3>3
  <2>4. CASE /\ "methods" \in DOMAIN Head(fromManager)
             /\ mKnown' = Head(fromManager).methods
             /\ UNCHANGED <<mForwardedMessages, answers, lResponse, quit, crashed>>
    <3>1. Head(fromManager) \in API
      BY <2>2, <2>4, Fields
    <3> QED
      BY <2>1, <2>2, <2>4, <3>1, Fields
  <2> QED
    BY <1>9, <2>3, <2>4 DEF fProcessResponse
<1>10. \A active \in SUBSET Module : [methods |-> ActiveMethods(active)] \in API
  BY <1>1, ForwardingConstants DEF API, ActiveMethods
<1>11. ASSUME NEW active \in SUBSET Module, Registry(active)
       PROVE  mModuleAPIActive' \subseteq Module /\ fromManager' \in Seq(Relayed \cup API)
  BY <1>10, <1>11 DEF Registry
<1>12. ASSUME ForwardMessage
       PROVE  TypeOK'
  <2>1. /\ toManager # <<>> /\ toManager' = Tail(toManager)
        /\ UNCHANGED <<routeVars, connectorVars, mModuleAPIActive, fromModule, connection, failures>>
    BY <1>12 DEF ForwardMessage
  <2>2. Head(toManager) \in Forward /\ toManager' \in Seq(Forward)
    BY <2>1, TailPositions
  <2>3. ASSUME NEW status \in Status, Refused(Head(toManager), status)
        PROVE  TypeOK'
    <3>1. [id |-> Head(toManager), status |-> status, data |-> FALSE] \in Relayed
      BY <2>2 DEF Relayed
    <3> QED
      BY <2>1, <2>2, <2>3, <3>1 DEF Refused
  <2>4. ASSUME Supporting(Head(toManager)[2]) # {}, ForwardedTo(Head(toManager))
        PROVE  TypeOK'
    <3>1. PICK m \in Supporting(Head(toManager)[2]) :
                 toModule' = [toModule EXCEPT ![m] = Append(@, Head(toManager))]
      BY <2>4 DEF ForwardedTo
    <3>2. m \in Module
      BY DEF Supporting
    <3>3. toModule' \in [Module -> Seq(Forward)]
      BY <2>2, <3>1, <3>2
    <3>4. connection \in 0 .. MaxFailures
      BY <2>1 DEF GoneEmpty
    <3>5. managerForwarded' \subseteq [id : Forward, connection : 0 .. MaxFailures]
      BY <2>2, <2>4, <3>4 DEF ForwardedTo
    <3> QED
      BY <2>1, <2>2, <2>4, <3>3, <3>5 DEF ForwardedTo
  <2> QED
    BY <1>12, <2>3, <2>4 DEF ForwardMessage, Status
<1>13. ASSUME NEW m \in Module, RelayAnswer(m)
       PROVE  TypeOK'
  <2>1. /\ fromModule[m] # <<>> /\ fromModule' = [fromModule EXCEPT ![m] = Tail(@)]
        /\ UNCHANGED <<routeVars, connectorVars, mModuleAPIActive, toModule,
                       connection, toManager, failures>>
    BY <1>13 DEF RelayAnswer
  <2>2. Head(fromModule[m]) \in Relayed /\ fromModule' \in [Module -> Seq(Relayed)]
    BY <2>1, TailPositions
  <2>3. [Head(fromModule[m]) EXCEPT !.status = "successful"] \in Relayed
    BY <2>2 DEF Relayed, Status
  <2>4. managerForwarded' \subseteq managerForwarded
    BY <1>13 DEF RelayAnswer
  <2>5. fromManager' \in Seq(Relayed \cup API)
    BY <1>13, <2>3 DEF RelayAnswer
  <2> QED
    BY <2>1, <2>2, <2>4, <2>5
<1>14. ASSUME NEW m \in Module, ModuleAnswers(m)
       PROVE  TypeOK'
  <2>1. /\ toModule[m] # <<>> /\ toModule' = [toModule EXCEPT ![m] = Tail(@)]
        /\ UNCHANGED <<routeVars, connectorVars, managerVars, linkVars>>
    BY <1>14 DEF ModuleAnswers
  <2>2. Head(toModule[m]) \in Forward /\ toModule' \in [Module -> Seq(Forward)]
    BY <2>1, TailPositions
  <2>3. PICK message \in [id : {Head(toModule[m])}, status : {"successful"}, data : {TRUE}]
                   \cup [id : {Head(toModule[m])}, status : {"MethodExe"}, data : {FALSE}] :
               fromModule' = [fromModule EXCEPT ![m] = Append(@, message)]
    BY <1>14 DEF ModuleAnswers
  <2>4. message \in Relayed
    BY <2>2 DEF Relayed, Status
  <2> QED
    BY <2>1, <2>2, <2>3, <2>4
<1>15. ASSUME NEW m \in Module, ModuleRegisters(m)
       PROVE  TypeOK'
  <2>1. mModuleAPIActive' \subseteq Module /\ fromManager' \in Seq(Relayed \cup API)
    BY <1>11, <1>15 DEF ModuleRegisters
  <2> QED
    BY <1>15, <2>1 DEF ModuleRegisters
<1>16. ASSUME NEW m \in Module, ModuleDisconnects(m)
       PROVE  TypeOK'
  <2>1. mModuleAPIActive' \subseteq Module /\ fromManager' \in Seq(Relayed \cup API)
    BY <1>11, <1>16 DEF ModuleDisconnects
  <2> QED
    BY <1>1, <1>16, <2>1 DEF ModuleDisconnects
<1>17. ASSUME ConnectorDisconnects
       PROVE  TypeOK'
  BY <1>1, <1>17 DEF ConnectorDisconnects
<1>18. ASSUME ConnectorReconnects
       PROVE  TypeOK'
  <2>1. fromManager' \in Seq(Relayed \cup API)
    BY <1>10, <1>18 DEF ConnectorReconnects
  <2> QED
    BY <1>18, <2>1 DEF ConnectorReconnects
<1>19. CASE UNCHANGED vars
  BY <1>19 DEF vars
<1> QED
  BY <1>4, <1>5, <1>6, <1>7, <1>8, <1>9, <1>12, <1>13, <1>14, <1>15, <1>16, <1>17, <1>18,
     <1>19 DEF Next

-----------------------------------------------------------------------------
(* Places *)

ToManager     == <<"toManager", None>>
FromManager   == <<"fromManager", None>>
ToModule(m)   == <<"toModule", m>>
FromModule(m) == <<"fromModule", m>>

(***************************************************************************)
(* The places are the queues and the clients, and they are distinct.       *)
(***************************************************************************)
LEMMA Places ==
  /\ AnyPlace = {Client, ToManager, FromManager}
                  \cup {ToModule(m) : m \in Module} \cup {FromModule(m) : m \in Module}
  /\ Place = AnyPlace \ {Client}
  /\ {"toModule", "fromModule"} \X Module
       = {ToModule(m) : m \in Module} \cup {FromModule(m) : m \in Module}
  /\ Client # ToManager /\ Client # FromManager /\ ToManager # FromManager
  /\ \A m \in Module : /\ ToModule(m) \notin {Client, ToManager, FromManager}
                       /\ FromModule(m) \notin {Client, ToManager, FromManager}
  /\ \A m, n \in Module : /\ ToModule(m) # FromModule(n)
                          /\ ToModule(m) = ToModule(n) => m = n
                          /\ FromModule(m) = FromModule(n) => m = n
BY DEF AnyPlace, Place, Client, ToManager, FromManager, ToModule, FromModule

(* The places a forwarded request can be at are different from each other. *)
LEMMA Members ==
  /\ Place \subseteq AnyPlace
  /\ Client \in AnyPlace /\ ToManager \in Place /\ FromManager \in Place
  /\ \A m \in Module : /\ ToModule(m) \in Place /\ ToModule(m) \in {"toModule", "fromModule"} \X Module
                       /\ FromModule(m) \in Place /\ FromModule(m) \in {"toModule", "fromModule"} \X Module
                       /\ ToModule(m) # FromModule(m)
BY DEF AnyPlace, Place, Client, ToManager, FromManager, ToModule, FromModule

Answered(list, method) == {i \in DOMAIN list : list[i].method = method}

(* What is at each place. *)
Located ==
  \A id \in Forward :
    /\ id[1] \in WsRequest => Positions(Client, id) = Answered(answers[id[1]], id[2])
    /\ id[1] \notin WsRequest => Positions(Client, id) = {}
    /\ Positions(ToManager, id) = Asking(toManager, id)
    /\ Positions(FromManager, id) = Answering(fromManager, id)
    /\ \A m \in Module : Positions(ToModule(m), id) = Asking(toModule[m], id)
    /\ \A m \in Module : Positions(FromModule(m), id) = Answering(fromModule[m], id)

(***************************************************************************)
(* The positions at a place are those of its queue, in every state         *)
(***************************************************************************)
LEMMA PositionsAt == Located
<1> SUFFICES ASSUME NEW id \in Forward
             PROVE  /\ id[1] \in WsRequest => Positions(Client, id) = Answered(answers[id[1]], id[2])
                    /\ id[1] \notin WsRequest => Positions(Client, id) = {}
                    /\ Positions(ToManager, id) = Asking(toManager, id)
                    /\ Positions(FromManager, id) = Answering(fromManager, id)
                    /\ \A m \in Module : /\ Positions(ToModule(m), id) = Asking(toModule[m], id)
                                         /\ Positions(FromModule(m), id) = Answering(fromModule[m], id)
  BY DEF Located
<1>1. id[1] \in WsRequest => Positions(Client, id) = Answered(answers[id[1]], id[2])
  BY DEF Positions, AnsweredAt, Answered
<1>2. id[1] \notin WsRequest => Positions(Client, id) = {}
  BY DEF Positions
<1>3. Positions(ToManager, id) = At(ToManager, id) /\ Positions(FromManager, id) = At(FromManager, id)
  BY Places DEF Positions
<1>4. At(ToManager, id) = Asking(toManager, id)
  BY DEF At, ToManager
<1>5. At(FromManager, id) = Answering(fromManager, id)
  BY DEF At, FromManager
<1>6. ASSUME NEW m \in Module
      PROVE  /\ Positions(ToModule(m), id) = Asking(toModule[m], id)
             /\ Positions(FromModule(m), id) = Answering(fromModule[m], id)
  <2>1. /\ Positions(ToModule(m), id) = At(ToModule(m), id)
        /\ Positions(FromModule(m), id) = At(FromModule(m), id)
    BY Places DEF Positions
  <2>2. At(ToModule(m), id) = Asking(toModule[m], id)
    BY DEF At, ToModule
  <2>3. At(FromModule(m), id) = Answering(fromModule[m], id)
    BY DEF At, FromModule
  <2> QED
    BY <2>1, <2>2, <2>3
<1> QED
  BY <1>1, <1>2, <1>3, <1>4, <1>5, <1>6

(***************************************************************************)
(* and so after a step.                                                    *)
(***************************************************************************)
LEMMA PositionsNext == Located'
BY PositionsAt, PTL

-----------------------------------------------------------------------------
(* Moves *)

(* The ids of gone leave place p in a step and those of come arrive. *)
Shift(p, gone, come) ==
  \A id \in Forward :
    /\ Single(Positions(p, id)')
    /\ Holds(p, id)' <=> (Holds(p, id) /\ id \notin gone) \/ id \in come

(* The same for all places, with pairs of an id and a place. *)
Flow(gone, come) ==
  \A p \in AnyPlace : Shift(p, {id \in Forward : <<id, p>> \in gone},
                               {id \in Forward : <<id, p>> \in come})

(***************************************************************************)
(* Requests on their way to the manager                                    *)
(***************************************************************************)
LEMMA ShiftToManager ==
  ASSUME TypeOK, OncePerPlace
  PROVE  /\ toManager' = toManager => Shift(ToManager, {}, {})
         /\ toManager # <<>> /\ toManager' = Tail(toManager) =>
              /\ Head(toManager) \in Forward
              /\ Holds(ToManager, Head(toManager))
              /\ Shift(ToManager, {Head(toManager)}, {})
         /\ toManager' = <<>> => Shift(ToManager, Forward, {})
         /\ \A ids \in SUBSET Forward :
              /\ IsFiniteSet(ids)
              /\ \A id \in ids : ~Holds(ToManager, id)
              /\ toManager' = toManager \o SetToSeq(ids)
              => Shift(ToManager, {}, ids)
<1>1. /\ \A id \in Forward : Positions(ToManager, id) = Asking(toManager, id)
      /\ \A id \in Forward : Positions(ToManager, id)' = Asking(toManager', id)
      /\ \A id \in Forward : Single(Asking(toManager, id))
      /\ toManager \in Seq(Forward)
  BY PositionsAt, PositionsNext, Places DEF Located, OncePerPlace, TypeOK
<1>2. /\ \A id \in Forward : Holds(ToManager, id) <=> Asking(toManager, id) # {}
      /\ \A id \in Forward : Holds(ToManager, id)' <=> Asking(toManager', id) # {}
  BY <1>1 DEF Holds
<1>3. ASSUME toManager' = toManager
      PROVE  Shift(ToManager, {}, {})
  BY <1>1, <1>2, <1>3 DEF Shift
<1>4. ASSUME toManager # <<>>, toManager' = Tail(toManager)
      PROVE  /\ Head(toManager) \in Forward
             /\ Holds(ToManager, Head(toManager))
             /\ Shift(ToManager, {Head(toManager)}, {})
  <2>1. Head(toManager) \in Forward
    BY <1>1, <1>4, TailPositions
  <2>2. \A id \in Forward :
          /\ Single(Asking(toManager', id))
          /\ Asking(toManager', id) # {} <=> Asking(toManager, id) # {} /\ id # Head(toManager)
          /\ id = Head(toManager) => Asking(toManager, id) # {}
    BY <1>1, <1>4, TakeAsking
  <2> QED
    BY <1>1, <1>2, <2>1, <2>2 DEF Shift
<1>5. ASSUME toManager' = <<>>
      PROVE  Shift(ToManager, Forward, {})
  <2>1. \A id : Asking(toManager', id) = {}
    BY <1>5 DEF Asking
  <2> QED
    BY <1>1, <1>2, <2>1 DEF Shift, Single
<1>6. ASSUME NEW ids \in SUBSET Forward, IsFiniteSet(ids),
             \A id \in ids : ~Holds(ToManager, id),
             toManager' = toManager \o SetToSeq(ids)
      PROVE  Shift(ToManager, {}, ids)
  <2> DEFINE more == SetToSeq(ids)
             n == Len(toManager)
  <2>1. /\ more \in Seq(ids) /\ OnceEach(more)
        /\ \A x \in ids : \E i \in DOMAIN more : more[i] = x
    BY <1>6, Ordering
  <2>2. toManager' = toManager \o more
    BY <1>6
  <2> HIDE DEF more
  <2>3. n \in Nat /\ DOMAIN toManager = 1 .. n /\ DOMAIN more = 1 .. Len(more) /\ Len(more) \in Nat
    BY <1>1, <2>1
  <2>4. /\ DOMAIN (toManager') = 1 .. n + Len(more)
        /\ \A i \in 1 .. n : toManager'[i] = toManager[i]
        /\ \A i \in 1 .. Len(more) : toManager'[n + i] = more[i]
    BY <1>1, <2>1, <2>2
  <2>5. \A i \in DOMAIN (toManager') :
          i \in 1 .. n \/ (i - n \in 1 .. Len(more) /\ i = n + (i - n))
    BY <2>3, <2>4
  <2>6. ASSUME NEW id \in Forward \ ids
        PROVE  Asking(toManager', id) = Asking(toManager, id)
    BY <2>1, <2>3, <2>4, <2>5 DEF Asking
  <2>7. ASSUME NEW id \in ids
        PROVE  Single(Asking(toManager', id)) /\ Asking(toManager', id) # {}
    <3>1. Asking(toManager, id) = {}
      BY <1>2, <1>6
    <3>2. \A i \in Asking(toManager', id) : i - n \in 1 .. Len(more) /\ more[i - n] = id
      BY <2>3, <2>4, <2>5, <3>1 DEF Asking
    <3>3. \E i \in 1 .. Len(more) : more[i] = id
      BY <2>1, <2>3
    <3>4. \E i \in 1 .. n + Len(more) : toManager'[i] = id
      BY <2>3, <2>4, <3>3
    <3>5. \A i, j \in Asking(toManager', id) : i - n = j - n /\ i \in Int /\ j \in Int
      BY <2>1, <2>3, <2>4, <3>2 DEF OnceEach, Asking
    <3> QED
      BY <2>3, <2>4, <3>4, <3>5 DEF Asking, Single
  <2> QED
    BY <1>1, <1>2, <2>6, <2>7 DEF Shift
<1> QED
  BY <1>3, <1>4, <1>5, <1>6

(***************************************************************************)
(* Messages on their way to the Connector                                  *)
(***************************************************************************)
LEMMA ShiftFromManager ==
  ASSUME TypeOK, OncePerPlace
  PROVE  /\ fromManager' = fromManager => Shift(FromManager, {}, {})
         /\ fromManager # <<>> /\ fromManager' = Tail(fromManager) =>
              /\ Head(fromManager) \in Relayed =>
                   /\ Holds(FromManager, Head(fromManager).id)
                   /\ Shift(FromManager, {Head(fromManager).id}, {})
              /\ Head(fromManager) \in API => Shift(FromManager, {}, {})
         /\ fromManager' = <<>> => Shift(FromManager, Forward, {})
         /\ \A m \in Relayed : /\ fromManager' = Append(fromManager, m)
                               /\ ~Holds(FromManager, m.id)
                               => Shift(FromManager, {}, {m.id})
         /\ \A m \in API : fromManager' = Append(fromManager, m) => Shift(FromManager, {}, {})
         /\ \A m \in API : fromManager = <<>> /\ fromManager' = <<m>> => Shift(FromManager, {}, {})
<1>1. /\ \A id \in Forward : Positions(FromManager, id) = Answering(fromManager, id)
      /\ \A id \in Forward : Positions(FromManager, id)' = Answering(fromManager', id)
      /\ \A id \in Forward : Single(Answering(fromManager, id))
      /\ fromManager \in Seq(Relayed \cup API)
  BY PositionsAt, PositionsNext, Places DEF Located, OncePerPlace, TypeOK
<1>2. /\ \A id \in Forward : Holds(FromManager, id) <=> Answering(fromManager, id) # {}
      /\ \A id \in Forward : Holds(FromManager, id)' <=> Answering(fromManager', id) # {}
  BY <1>1 DEF Holds
<1>3. ASSUME fromManager' = fromManager
      PROVE  Shift(FromManager, {}, {})
  BY <1>1, <1>2, <1>3 DEF Shift
<1>4. ASSUME fromManager # <<>>, fromManager' = Tail(fromManager)
      PROVE  /\ Head(fromManager) \in Relayed =>
                  /\ Holds(FromManager, Head(fromManager).id)
                  /\ Shift(FromManager, {Head(fromManager).id}, {})
             /\ Head(fromManager) \in API => Shift(FromManager, {}, {})
  <2>1. \A id \in Forward :
          /\ Single(Answering(fromManager', id))
          /\ Answering(fromManager', id) # {}
               <=> Answering(fromManager, id) # {} /\ ~About(Head(fromManager), id)
          /\ About(Head(fromManager), id) => Answering(fromManager, id) # {}
    BY <1>1, <1>4, TakeAnswering
  <2>2. ASSUME Head(fromManager) \in Relayed
        PROVE  /\ Holds(FromManager, Head(fromManager).id)
               /\ Shift(FromManager, {Head(fromManager).id}, {})
    <3>1. Head(fromManager).id \in Forward
          /\ \A id \in Forward : About(Head(fromManager), id) <=> id = Head(fromManager).id
      BY <2>2, Fields DEF About
    <3> QED
      BY <1>1, <1>2, <2>1, <3>1 DEF Shift
  <2>3. ASSUME Head(fromManager) \in API
        PROVE  Shift(FromManager, {}, {})
    <3>1. \A id \in Forward : ~About(Head(fromManager), id)
      BY <2>3, Fields DEF About
    <3> QED
      BY <1>1, <1>2, <2>1, <3>1 DEF Shift
  <2> QED
    BY <2>2, <2>3
<1>5. ASSUME fromManager' = <<>>
      PROVE  Shift(FromManager, Forward, {})
  <2>1. \A id : Answering(fromManager', id) = {}
    BY <1>5 DEF Answering
  <2> QED
    BY <1>1, <1>2, <2>1 DEF Shift, Single
<1>6. ASSUME NEW m \in Relayed, fromManager' = Append(fromManager, m), ~Holds(FromManager, m.id)
      PROVE  Shift(FromManager, {}, {m.id})
  <2>1. m.id \in Forward /\ \A id \in Forward : About(m, id) <=> id = m.id
    BY Fields DEF About
  <2>2. \A id \in Forward :
          /\ Single(Answering(fromManager', id))
          /\ Answering(fromManager', id) # {} <=> Answering(fromManager, id) # {} \/ About(m, id)
    BY <1>1, <1>2, <1>6, <2>1, PutAnswering
  <2> QED
    BY <1>1, <1>2, <2>1, <2>2 DEF Shift
<1>7. ASSUME NEW m \in API, fromManager' = Append(fromManager, m)
      PROVE  Shift(FromManager, {}, {})
  <2>1. \A id \in Forward : ~About(m, id)
    BY Fields DEF About
  <2>2. \A id \in Forward :
          /\ Single(Answering(fromManager', id))
          /\ Answering(fromManager', id) # {} <=> Answering(fromManager, id) # {} \/ About(m, id)
    BY <1>1, <1>2, <1>7, <2>1, PutAnswering
  <2> QED
    BY <1>1, <1>2, <2>1, <2>2 DEF Shift
<1>8. ASSUME NEW m \in API, fromManager = <<>>, fromManager' = <<m>>
      PROVE  Shift(FromManager, {}, {})
  <2>1. fromManager' = Append(fromManager, m)
    BY <1>8
  <2> QED
    BY <1>7, <2>1
<1> QED
  BY <1>3, <1>4, <1>5, <1>6, <1>7, <1>8

(***************************************************************************)
(* Requests on their way to a module                                       *)
(***************************************************************************)
LEMMA ShiftToModule ==
  ASSUME TypeOK, OncePerPlace, NEW m \in Module
  PROVE  /\ toModule'[m] = toModule[m] => Shift(ToModule(m), {}, {})
         /\ toModule[m] # <<>> /\ toModule'[m] = Tail(toModule[m]) =>
              /\ Head(toModule[m]) \in Forward
              /\ Holds(ToModule(m), Head(toModule[m]))
              /\ Shift(ToModule(m), {Head(toModule[m])}, {})
         /\ toModule'[m] = <<>> => Shift(ToModule(m), Forward, {})
         /\ \A x \in Forward : /\ toModule'[m] = Append(toModule[m], x)
                               /\ ~Holds(ToModule(m), x)
                               => Shift(ToModule(m), {}, {x})
<1>1. /\ \A id \in Forward : Positions(ToModule(m), id) = Asking(toModule[m], id)
      /\ \A id \in Forward : Positions(ToModule(m), id)' = Asking(toModule'[m], id)
      /\ \A id \in Forward : Single(Asking(toModule[m], id))
      /\ toModule[m] \in Seq(Forward)
  BY PositionsAt, PositionsNext, Places DEF Located, OncePerPlace, TypeOK
<1>2. /\ \A id \in Forward : Holds(ToModule(m), id) <=> Asking(toModule[m], id) # {}
      /\ \A id \in Forward : Holds(ToModule(m), id)' <=> Asking(toModule'[m], id) # {}
  BY <1>1 DEF Holds
<1>3. ASSUME toModule'[m] = toModule[m]
      PROVE  Shift(ToModule(m), {}, {})
  BY <1>1, <1>2, <1>3 DEF Shift
<1>4. ASSUME toModule[m] # <<>>, toModule'[m] = Tail(toModule[m])
      PROVE  /\ Head(toModule[m]) \in Forward
             /\ Holds(ToModule(m), Head(toModule[m]))
             /\ Shift(ToModule(m), {Head(toModule[m])}, {})
  <2>1. Head(toModule[m]) \in Forward
    BY <1>1, <1>4, TailPositions
  <2>2. \A id \in Forward :
          /\ Single(Asking(toModule'[m], id))
          /\ Asking(toModule'[m], id) # {} <=> Asking(toModule[m], id) # {} /\ id # Head(toModule[m])
          /\ id = Head(toModule[m]) => Asking(toModule[m], id) # {}
    BY <1>1, <1>4, TakeAsking
  <2> QED
    BY <1>1, <1>2, <2>1, <2>2 DEF Shift
<1>5. ASSUME toModule'[m] = <<>>
      PROVE  Shift(ToModule(m), Forward, {})
  <2>1. \A id : Asking(toModule'[m], id) = {}
    BY <1>5 DEF Asking
  <2> QED
    BY <1>1, <1>2, <2>1 DEF Shift, Single
<1>6. ASSUME NEW x \in Forward, toModule'[m] = Append(toModule[m], x), ~Holds(ToModule(m), x)
      PROVE  Shift(ToModule(m), {}, {x})
  <2>1. \A id \in Forward :
          /\ Single(Asking(toModule'[m], id))
          /\ Asking(toModule'[m], id) # {} <=> Asking(toModule[m], id) # {} \/ x = id
    BY <1>1, <1>2, <1>6, PutAsking
  <2> QED
    BY <1>1, <1>2, <2>1 DEF Shift
<1> QED
  BY <1>3, <1>4, <1>5, <1>6

(***************************************************************************)
(* Answers on their way from a module                                      *)
(***************************************************************************)
LEMMA ShiftFromModule ==
  ASSUME TypeOK, OncePerPlace, NEW m \in Module
  PROVE  /\ fromModule'[m] = fromModule[m] => Shift(FromModule(m), {}, {})
         /\ fromModule[m] # <<>> /\ fromModule'[m] = Tail(fromModule[m]) =>
              /\ Head(fromModule[m]) \in Relayed
              /\ Head(fromModule[m]).id \in Forward
              /\ Holds(FromModule(m), Head(fromModule[m]).id)
              /\ Shift(FromModule(m), {Head(fromModule[m]).id}, {})
         /\ fromModule'[m] = <<>> => Shift(FromModule(m), Forward, {})
         /\ \A x \in Relayed : /\ fromModule'[m] = Append(fromModule[m], x)
                               /\ ~Holds(FromModule(m), x.id)
                               => Shift(FromModule(m), {}, {x.id})
<1>1. /\ \A id \in Forward : Positions(FromModule(m), id) = Answering(fromModule[m], id)
      /\ \A id \in Forward : Positions(FromModule(m), id)' = Answering(fromModule'[m], id)
      /\ \A id \in Forward : Single(Answering(fromModule[m], id))
      /\ fromModule[m] \in Seq(Relayed)
  BY PositionsAt, PositionsNext, Places DEF Located, OncePerPlace, TypeOK
<1>2. /\ \A id \in Forward : Holds(FromModule(m), id) <=> Answering(fromModule[m], id) # {}
      /\ \A id \in Forward : Holds(FromModule(m), id)' <=> Answering(fromModule'[m], id) # {}
  BY <1>1 DEF Holds
<1>3. ASSUME fromModule'[m] = fromModule[m]
      PROVE  Shift(FromModule(m), {}, {})
  BY <1>1, <1>2, <1>3 DEF Shift
<1>4. ASSUME fromModule[m] # <<>>, fromModule'[m] = Tail(fromModule[m])
      PROVE  /\ Head(fromModule[m]) \in Relayed
             /\ Head(fromModule[m]).id \in Forward
             /\ Holds(FromModule(m), Head(fromModule[m]).id)
             /\ Shift(FromModule(m), {Head(fromModule[m]).id}, {})
  <2>1. Head(fromModule[m]) \in Relayed
    BY <1>1, <1>4, TailPositions
  <2>2. Head(fromModule[m]).id \in Forward
        /\ \A id \in Forward : About(Head(fromModule[m]), id) <=> id = Head(fromModule[m]).id
    BY <2>1, Fields DEF About
  <2>3. \A id \in Forward :
          /\ Single(Answering(fromModule'[m], id))
          /\ Answering(fromModule'[m], id) # {}
               <=> Answering(fromModule[m], id) # {} /\ ~About(Head(fromModule[m]), id)
          /\ About(Head(fromModule[m]), id) => Answering(fromModule[m], id) # {}
    BY <1>1, <1>4, TakeAnswering
  <2> QED
    BY <1>1, <1>2, <2>1, <2>2, <2>3 DEF Shift
<1>5. ASSUME fromModule'[m] = <<>>
      PROVE  Shift(FromModule(m), Forward, {})
  <2>1. \A id : Answering(fromModule'[m], id) = {}
    BY <1>5 DEF Answering
  <2> QED
    BY <1>1, <1>2, <2>1 DEF Shift, Single
<1>6. ASSUME NEW x \in Relayed, fromModule'[m] = Append(fromModule[m], x),
             ~Holds(FromModule(m), x.id)
      PROVE  Shift(FromModule(m), {}, {x.id})
  <2>1. x.id \in Forward /\ \A id \in Forward : About(x, id) <=> id = x.id
    BY Fields DEF About
  <2>2. \A id \in Forward :
          /\ Single(Answering(fromModule'[m], id))
          /\ Answering(fromModule'[m], id) # {} <=> Answering(fromModule[m], id) # {} \/ About(x, id)
    BY <1>1, <1>2, <1>6, <2>1, PutAnswering
  <2> QED
    BY <1>1, <1>2, <2>1, <2>2 DEF Shift
<1> QED
  BY <1>3, <1>4, <1>5, <1>6

(***************************************************************************)
(* Answers of WebSocket clients, the first ones and the later ones.        *)
(***************************************************************************)
LEMMA ShiftClient ==
  ASSUME TypeOK, OncePerPlace
  PROVE  /\ answers' = answers => Shift(Client, {}, {})
         /\ \A r \in HttpRequest : \A list : answers' = [answers EXCEPT ![r] = list]
                                     => Shift(Client, {}, {})
         /\ \A x \in Forward, a \in Answer :
              /\ x[1] \in WsRequest /\ a.method = x[2] /\ ~Holds(Client, x)
              /\ answers' = [answers EXCEPT ![x[1]] = Append(@, a)]
              => Shift(Client, {}, {x})
         /\ \A r \in WsRequest : \A q \in Queries[r] :
              /\ \A id \in Forward : id[1] = r => ~Holds(Client, id)
              /\ answers' = [answers EXCEPT ![r] = SetToSeq(LocalAnswers(r, q))]
              => Shift(Client, {}, {id \in Forward : id[1] = r /\ id[2] \in q.methods \ fMethodValid(r)})
<1>1. ASSUME NEW id \in Forward
      PROVE  /\ id[1] \in Request /\ id[2] \in Method
             /\ id[1] \in WsRequest =>
                  /\ Positions(Client, id) = Answered(answers[id[1]], id[2])
                  /\ Positions(Client, id)' = Answered(answers'[id[1]], id[2])
                  /\ Single(Answered(answers[id[1]], id[2]))
                  /\ Holds(Client, id) <=> Answered(answers[id[1]], id[2]) # {}
                  /\ Holds(Client, id)' <=> Answered(answers'[id[1]], id[2]) # {}
             /\ id[1] \notin WsRequest =>
                  /\ Positions(Client, id)' = {}
                  /\ ~Holds(Client, id)
                  /\ ~Holds(Client, id)'
  <2>1. id[1] \in Request /\ id[2] \in Method
    BY DEF Forward
  <2>2. /\ id[1] \in WsRequest => Positions(Client, id) = Answered(answers[id[1]], id[2])
        /\ id[1] \notin WsRequest => Positions(Client, id) = {}
        /\ id[1] \in WsRequest => Positions(Client, id)' = Answered(answers'[id[1]], id[2])
        /\ id[1] \notin WsRequest => Positions(Client, id)' = {}
    BY PositionsAt, PositionsNext DEF Located
  <2>3. Single(Positions(Client, id))
    BY Places DEF OncePerPlace
  <2> QED
    BY <2>1, <2>2, <2>3 DEF Holds
<1>2. ASSUME \A id \in Forward : id[1] \in WsRequest => answers'[id[1]] = answers[id[1]]
      PROVE  Shift(Client, {}, {})
  BY <1>1, <1>2 DEF Shift, Single
<1>3. ASSUME NEW r \in HttpRequest, NEW list, answers' = [answers EXCEPT ![r] = list]
      PROVE  Shift(Client, {}, {})
  <2>1. \A w \in WsRequest : answers'[w] = answers[w]
    BY <1>3, ForwardingConstants DEF TypeOK, Request
  <2> QED
    BY <1>2, <2>1
<1>4. ASSUME NEW x \in Forward, NEW a \in Answer, x[1] \in WsRequest, a.method = x[2],
             ~Holds(Client, x), answers' = [answers EXCEPT ![x[1]] = Append(@, a)]
      PROVE  Shift(Client, {}, {x})
  <2>1. x[1] \in Request /\ answers[x[1]] \in Seq(Answer)
    BY <1>1 DEF TypeOK
  <2>2. /\ answers'[x[1]] = Append(answers[x[1]], a)
        /\ \A r \in Request : r # x[1] => answers'[r] = answers[r]
    BY <1>4, <2>1 DEF TypeOK
  <2>3. \A m : Answered(answers'[x[1]], m)
                 = Answered(answers[x[1]], m) \cup {i \in {Len(answers[x[1]]) + 1} : x[2] = m}
    BY <1>4, <2>1, <2>2, AppendPositions DEF Answered
  <2>4. \A id \in Forward : id = x <=> id[1] = x[1] /\ id[2] = x[2]
    BY DEF Forward
  <2>5. Answered(answers[x[1]], x[2]) = {}
    BY <1>1, <1>4
  <2>6. ASSUME NEW id \in Forward, id[1] = x[1]
        PROVE  /\ Single(Answered(answers'[id[1]], id[2]))
               /\ Answered(answers'[id[1]], id[2]) # {} <=> Answered(answers[id[1]], id[2]) # {} \/ id = x
    <3>1. CASE id = x
      BY <2>3, <2>5, <3>1 DEF Single
    <3>2. CASE id # x
      <4>1. Answered(answers'[id[1]], id[2]) = Answered(answers[id[1]], id[2])
        BY <2>3, <2>4, <2>6, <3>2
      <4> QED
        BY <1>1, <1>4, <2>6, <3>2, <4>1
    <3> QED
      BY <3>1, <3>2
  <2>7. ASSUME NEW id \in Forward
        PROVE  Single(Positions(Client, id)') /\ (Holds(Client, id)' <=> Holds(Client, id) \/ id = x)
    <3>1. CASE id[1] = x[1]
      BY <1>1, <1>4, <2>6, <3>1
    <3>2. CASE id[1] # x[1] /\ id[1] \in WsRequest
      BY <1>1, <2>2, <2>4, <3>2
    <3>3. CASE id[1] \notin WsRequest
      BY <1>1, <1>4, <3>3 DEF Single
    <3> QED
      BY <3>1, <3>2, <3>3
  <2> QED
    BY <2>7 DEF Shift
<1>5. ASSUME NEW r \in WsRequest, NEW q \in Queries[r],
             \A id \in Forward : id[1] = r => ~Holds(Client, id),
             answers' = [answers EXCEPT ![r] = SetToSeq(LocalAnswers(r, q))]
      PROVE  Shift(Client, {}, {id \in Forward : id[1] = r /\ id[2] \in q.methods \ fMethodValid(r)})
  <2> DEFINE list == SetToSeq(LocalAnswers(r, q))
  <2>1. /\ r \in Request /\ answers'[r] = list
        /\ \A w \in Request : w # r => answers'[w] = answers[w]
    BY <1>5 DEF TypeOK, Request
  <2>2. /\ list \in Seq(LocalAnswers(r, q)) /\ OnceEach(list)
        /\ \A a \in LocalAnswers(r, q) : \E i \in DOMAIN list : list[i] = a
    BY <2>1, LocalAnswersFinite, Ordering
  <2>3. \A m : LocalAnswer(r, m, q.counter).method = m
    BY DEF LocalAnswer
  <2>4. \A m \in q.methods \ fMethodValid(r) : LocalAnswer(r, m, q.counter) \in LocalAnswers(r, q)
    BY DEF LocalAnswers
  <2>5. \A a \in LocalAnswers(r, q) :
          /\ a.method \in q.methods \ fMethodValid(r)
          /\ a = LocalAnswer(r, a.method, q.counter)
    BY <2>3 DEF LocalAnswers
  <2> HIDE DEF list
  <2>6. \A i \in DOMAIN list : list[i] \in LocalAnswers(r, q)
    BY <2>2
  <2>7. ASSUME NEW m
        PROVE  /\ Single(Answered(list, m))
               /\ Answered(list, m) # {} <=> m \in q.methods \ fMethodValid(r)
    <3>1. \A i, j \in Answered(list, m) : list[i] = list[j]
      BY <2>5, <2>6 DEF Answered
    <3>2. Single(Answered(list, m))
      BY <2>2, <3>1 DEF Single, OnceEach, Answered
    <3>3. m \in q.methods \ fMethodValid(r) => Answered(list, m) # {}
      BY <2>2, <2>3, <2>4 DEF Answered
    <3>4. Answered(list, m) # {} => m \in q.methods \ fMethodValid(r)
      BY <2>5, <2>6 DEF Answered
    <3> QED
      BY <3>2, <3>3, <3>4
  <2> QED
    BY <1>1, <1>5, <2>1, <2>7 DEF Shift, Single
<1> QED
  BY <1>2, <1>3, <1>4, <1>5

(***************************************************************************)
(* If what arrives was nowhere else, or leaves, each forwarded method is   *)
(* still in one place.                                                     *)
(***************************************************************************)
LEMMA FlowKeeps ==
  ASSUME OncePerPlace, OnePlace, UnmadeNowhere, NEW gone, NEW come, Flow(gone, come),
         \A id \in Forward : \A p, q \in AnyPlace : <<id, p>> \in come =>
           /\ Holds(q, id) => <<id, q>> \in gone
           /\ <<id, q>> \in come => p = q
           /\ requests'[id[1]] # None,
         \A id \in Forward : requests'[id[1]] = None => requests[id[1]] = None,
         \A id \in mForwardedMessages' \ mForwardedMessages : requests'[id[1]] # None
  PROVE  OncePerPlace' /\ OnePlace' /\ UnmadeNowhere'
<1>1. \A id \in Forward : \A p \in AnyPlace :
        /\ Single(Positions(p, id)')
        /\ Holds(p, id)' <=> (Holds(p, id) /\ <<id, p>> \notin gone) \/ <<id, p>> \in come
  BY DEF Flow, Shift
<1>2. OncePerPlace'
  BY <1>1 DEF OncePerPlace, Single
<1>3. OnePlace'
  BY <1>1 DEF OnePlace
<1>4. UnmadeNowhere'
  BY <1>1 DEF UnmadeNowhere
<1> QED
  BY <1>2, <1>3, <1>4

-----------------------------------------------------------------------------
(* What each action moves *)

InPlace == OncePerPlace /\ OnePlace /\ UnmadeNowhere /\ EntriesFollow

(* What the Connector forwarded and is under way was so before. *)
Carried ==
  \A id \in mForwardedMessages' :
    /\ id \in mForwardedMessages
    /\ (\E p \in Place : Holds(p, id)') => \E p \in Place : Holds(p, id)

(***************************************************************************)
(* Steps that leave the queues of requests and answers alone               *)
(***************************************************************************)
LEMMA QueuesUntouched ==
  ASSUME TypeOK, InPlace, Shift(FromManager, {}, {}), Shift(Client, {}, {}),
         UNCHANGED <<requests, mForwardedMessages, managerForwarded, toManager, toModule, fromModule>>,
         failures' = 0 => UNCHANGED <<failures, connection>>
  PROVE  InPlace' /\ Carried
<1>1. /\ Shift(ToManager, {}, {})
      /\ \A m \in Module : Shift(ToModule(m), {}, {}) /\ Shift(FromModule(m), {}, {})
  BY ShiftToManager, ShiftToModule, ShiftFromModule DEF InPlace
<1>2. \A p \in AnyPlace : Shift(p, {}, {})
  BY <1>1, Places
<1>3. \A id \in Forward : \A p \in AnyPlace : Holds(p, id)' <=> Holds(p, id)
  BY <1>2 DEF Shift
<1>4. Flow({}, {})
  BY <1>2 DEF Flow, Shift
<1>5. OncePerPlace' /\ OnePlace' /\ UnmadeNowhere'
  BY <1>4, FlowKeeps DEF InPlace
<1>6. EntriesFollow'
  <2> SUFFICES ASSUME failures' = 0
               PROVE  EntriesFollow'
    BY DEF EntriesFollow
  <2>1. \A id \in Forward : \A p \in Place : Holds(p, id)' <=> Holds(p, id)
    BY <1>3, Places
  <2>2. {"toModule", "fromModule"} \X Module \subseteq Place
    BY DEF Place
  <2>3. \A entry \in managerForwarded : entry.id \in Forward
    BY DEF TypeOK
  <2> QED
    BY <2>1, <2>2, <2>3 DEF InPlace, EntriesFollow, TypeOK
<1>7. Carried
  BY <1>3, Places DEF Carried, TypeOK
<1> QED
  BY <1>5, <1>6, <1>7 DEF InPlace

(* A registration sends the new API; no request changes its place. *)
LEMMA ModuleRegistersPlaces ==
  ASSUME TypeOK, InPlace, NEW m \in Module, ModuleRegisters(m)
  PROVE  InPlace' /\ Carried
<1> DEFINE api == [methods |-> ActiveMethods(mModuleAPIActive \cup {m})]
<1>1. api \in API
  BY ForwardingConstants DEF API, ActiveMethods, TypeOK
<1>2. fromManager' = fromManager \/ fromManager' = Append(fromManager, api)
  BY DEF ModuleRegisters, Registry
<1>3. Shift(FromManager, {}, {}) /\ Shift(Client, {}, {})
  BY <1>1, <1>2, ShiftFromManager, ShiftClient DEF InPlace, ModuleRegisters, connectorVars
<1> QED
  BY <1>3, QueuesUntouched DEF ModuleRegisters, connectorVars, moduleVars

(* The API sent at a reconnection is alone on the new connection. *)
LEMMA ConnectorReconnectsPlaces ==
  ASSUME TypeOK, GoneEmpty, InPlace, ConnectorReconnects
  PROVE  InPlace' /\ Carried
<1> DEFINE api == [methods |-> ActiveMethods(mModuleAPIActive)]
<1>1. api \in API
  BY ForwardingConstants DEF API, ActiveMethods, TypeOK
<1>2. fromManager = <<>> /\ fromManager' = <<api>>
  BY DEF ConnectorReconnects, GoneEmpty
<1>3. Shift(FromManager, {}, {}) /\ Shift(Client, {}, {})
  BY <1>1, <1>2, ShiftFromManager, ShiftClient DEF InPlace, ConnectorReconnects, connectorVars
<1>4. failures # 0
  BY ForwardingConstants DEF ConnectorReconnects, InPlace, EntriesFollow
<1> QED
  BY <1>3, <1>4, QueuesUntouched DEF ConnectorReconnects, connectorVars, moduleVars, managerVars

(***************************************************************************)
(* Lost connections lose what was in their queues.                         *)
(***************************************************************************)
LEMMA ModuleDisconnectsPlaces ==
  ASSUME TypeOK, InPlace, NEW m \in Module, ModuleDisconnects(m)
  PROVE  InPlace' /\ Carried
<1> DEFINE api == [methods |-> ActiveMethods(mModuleAPIActive \ {m})]
           lost == Forward \X {ToModule(m), FromModule(m)}
<1>1. api \in API
  BY ForwardingConstants DEF API, ActiveMethods, TypeOK
<1>2. fromManager' = fromManager \/ fromManager' = Append(fromManager, api)
  BY DEF ModuleDisconnects, Registry
<1>3. Shift(FromManager, {}, {}) /\ Shift(Client, {}, {}) /\ Shift(ToManager, {}, {})
  BY <1>1, <1>2, ShiftFromManager, ShiftClient, ShiftToManager
  DEF InPlace, ModuleDisconnects, connectorVars
<1>4. /\ toModule'[m] = <<>> /\ fromModule'[m] = <<>>
      /\ \A n \in Module : n # m => toModule'[n] = toModule[n] /\ fromModule'[n] = fromModule[n]
  BY DEF ModuleDisconnects, TypeOK
<1>5. /\ Shift(ToModule(m), Forward, {}) /\ Shift(FromModule(m), Forward, {})
      /\ \A n \in Module : n # m => Shift(ToModule(n), {}, {}) /\ Shift(FromModule(n), {}, {})
  BY <1>4, ShiftToModule, ShiftFromModule DEF InPlace
<1>6. \A p \in AnyPlace : Shift(p, {id \in Forward : <<id, p>> \in lost}, {})
  BY <1>3, <1>5, Places DEF Shift
<1>7. Flow(lost, {})
  BY <1>6 DEF Flow, Shift
<1>8. OncePerPlace' /\ OnePlace' /\ UnmadeNowhere'
  BY <1>7, FlowKeeps DEF InPlace, ModuleDisconnects, connectorVars
<1>9. EntriesFollow'
  BY DEF EntriesFollow, ModuleDisconnects, TypeOK
<1>10. Carried
  BY <1>6, Places DEF Shift, Carried, ModuleDisconnects, connectorVars, TypeOK
<1> QED
  BY <1>8, <1>9, <1>10 DEF InPlace

(* Requests on the connector's connection are lost, the others stay. *)
LEMMA ConnectorDisconnectsPlaces ==
  ASSUME TypeOK, InPlace, ConnectorDisconnects
  PROVE  InPlace' /\ Carried
<1> DEFINE lost == Forward \X {ToManager, FromManager}
<1>1. /\ Shift(FromManager, Forward, {}) /\ Shift(ToManager, Forward, {})
      /\ Shift(Client, {}, {})
      /\ \A m \in Module : Shift(ToModule(m), {}, {}) /\ Shift(FromModule(m), {}, {})
  BY ShiftFromManager, ShiftClient, ShiftToManager, ShiftToModule, ShiftFromModule
  DEF InPlace, ConnectorDisconnects, connectorVars, moduleVars
<1>2. \A p \in AnyPlace : Shift(p, {id \in Forward : <<id, p>> \in lost}, {})
  BY <1>1, Places DEF Shift
<1>3. Flow(lost, {})
  BY <1>2 DEF Flow, Shift
<1>4. OncePerPlace' /\ OnePlace' /\ UnmadeNowhere'
  BY <1>3, FlowKeeps DEF InPlace, ConnectorDisconnects, connectorVars
<1>5. EntriesFollow'
  BY DEF EntriesFollow, ConnectorDisconnects, TypeOK
<1>6. Carried
  BY <1>2, Places DEF Shift, Carried, ConnectorDisconnects, connectorVars, TypeOK
<1> QED
  BY <1>4, <1>5, <1>6 DEF InPlace

(* One message leaves a queue, for one other place or for none. *)
Moved(x, from, to) ==
  /\ from \in Place \ to
  /\ to \subseteq AnyPlace
  /\ \A p, q \in to : p = q
  /\ Holds(from, x)
  /\ Shift(from, {x}, {})
  /\ \A p \in to : Shift(p, {}, {x})
  /\ \A p \in AnyPlace \ to : p # from => Shift(p, {}, {})

(***************************************************************************)
(* Nothing else changes then.                                              *)
(***************************************************************************)
LEMMA OneMove ==
  ASSUME TypeOK, InPlace, NEW x \in Forward, NEW from, NEW to, Moved(x, from, to),
         requests' = requests, mForwardedMessages' \subseteq mForwardedMessages
  PROVE  /\ OncePerPlace' /\ OnePlace' /\ UnmadeNowhere'
         /\ Carried
         /\ \A id \in Forward : \A p \in AnyPlace :
              Holds(p, id)' <=> (Holds(p, id) /\ ~(id = x /\ p = from)) \/ (id = x /\ p \in to)
<1> DEFINE gone == {<<x, from>>}
           come == {x} \X to
<1>1. from \in AnyPlace /\ Holds(from, x)
  BY Members DEF Moved
<1>2. \A id \in Forward : \A p \in AnyPlace :
        /\ Single(Positions(p, id)')
        /\ Holds(p, id)' <=> (Holds(p, id) /\ ~(id = x /\ p = from)) \/ (id = x /\ p \in to)
  BY DEF Moved, Shift
<1>3. Flow(gone, come)
  BY <1>2 DEF Flow, Shift
<1>4. \A q \in AnyPlace : Holds(q, x) => q = from
  BY <1>1 DEF InPlace, OnePlace
<1>5. requests[x[1]] # None
  BY <1>1 DEF InPlace, UnmadeNowhere
<1>6. OncePerPlace' /\ OnePlace' /\ UnmadeNowhere'
  <2>1. \A id \in Forward : \A p, q \in AnyPlace : <<id, p>> \in come =>
          /\ Holds(q, id) => <<id, q>> \in gone
          /\ <<id, q>> \in come => p = q
          /\ requests'[id[1]] # None
    BY <1>4, <1>5 DEF Moved
  <2> HIDE DEF gone, come
  <2> QED
    BY <1>3, <2>1, FlowKeeps DEF InPlace
<1>7. Carried
  <2>1. \A id \in Forward : \A p \in Place : Holds(p, id)' => \E q \in Place : Holds(q, id)
    BY <1>2, Members DEF Moved
  <2> QED
    BY <2>1 DEF Carried, TypeOK
<1> QED
  BY <1>2, <1>6, <1>7

(* A module turns the first request of its queue into an answer. *)
LEMMA ModuleAnswersPlaces ==
  ASSUME TypeOK, InPlace, NEW m \in Module, ModuleAnswers(m)
  PROVE  InPlace' /\ Carried /\ Moved(Head(toModule[m]), ToModule(m), {FromModule(m)})
<1> PICK x : x = Head(toModule[m])
  OBVIOUS
<1>1. /\ toModule[m] # <<>> /\ toModule' = [toModule EXCEPT ![m] = Tail(@)]
      /\ UNCHANGED <<routeVars, connectorVars, managerVars, linkVars>>
  BY DEF ModuleAnswers
<1>2. PICK message \in [id : {x}, status : {"successful"}, data : {TRUE}]
                 \cup [id : {x}, status : {"MethodExe"}, data : {FALSE}] :
             fromModule' = [fromModule EXCEPT ![m] = Append(@, message)]
  BY DEF ModuleAnswers
<1>3. /\ toModule'[m] = Tail(toModule[m]) /\ fromModule'[m] = Append(fromModule[m], message)
      /\ \A n \in Module : n # m => toModule'[n] = toModule[n] /\ fromModule'[n] = fromModule[n]
  BY <1>1, <1>2 DEF TypeOK
<1>4. x \in Forward /\ Holds(ToModule(m), x) /\ Shift(ToModule(m), {x}, {})
  BY <1>1, <1>3, ShiftToModule DEF InPlace
<1>5. message \in Relayed /\ message.id = x
  BY <1>4 DEF Relayed, Status
<1>6. ~Holds(FromModule(m), x)
  BY <1>4, Members DEF InPlace, OnePlace
<1>7. Shift(FromModule(m), {}, {x})
  BY <1>3, <1>5, <1>6, ShiftFromModule DEF InPlace
<1>8. /\ Shift(FromManager, {}, {}) /\ Shift(Client, {}, {}) /\ Shift(ToManager, {}, {})
      /\ \A n \in Module : n # m => Shift(ToModule(n), {}, {}) /\ Shift(FromModule(n), {}, {})
  BY <1>1, <1>3, ShiftFromManager, ShiftClient, ShiftToManager, ShiftToModule, ShiftFromModule
  DEF InPlace, connectorVars, linkVars
<1> PICK to : to = {FromModule(m)}
  OBVIOUS
<1>9. /\ OncePerPlace' /\ OnePlace' /\ UnmadeNowhere'
      /\ Carried
      /\ \A id \in Forward : \A p \in AnyPlace :
           Holds(p, id)' <=> (Holds(p, id) /\ ~(id = x /\ p = ToModule(m))) \/ (id = x /\ p \in to)
      /\ Moved(x, ToModule(m), to)
  <2>1. Moved(x, ToModule(m), to)
    <3>1. \A p \in AnyPlace \ to : p # ToModule(m) => Shift(p, {}, {})
      BY <1>8, Places
    <3> QED
      BY <1>4, <1>7, <3>1, Members DEF Moved
  <2>2. requests' = requests /\ mForwardedMessages' \subseteq mForwardedMessages
    BY <1>1 DEF connectorVars
  <2> QED
    BY <1>4, <2>1, <2>2, OneMove
<1>10. EntriesFollow'
  <2> SUFFICES ASSUME failures' = 0
               PROVE  EntriesFollow'
    BY DEF EntriesFollow
  <2>1. UNCHANGED <<requests, mForwardedMessages, managerForwarded, connection, failures>>
    BY <1>1 DEF connectorVars, managerVars, linkVars
  <2>2. \A id \in Forward : \A p \in Place : Holds(p, id)' => \E q \in Place : Holds(q, id)
    BY <1>4, <1>9, Places
  <2>3. \A id \in Forward : \A p \in Place : Holds(p, id) => \E q \in Place : Holds(q, id)'
    BY <1>9, Members
  <2>4. \A id \in Forward : \A p \in {"toModule", "fromModule"} \X Module :
          Holds(p, id) => \E q \in {"toModule", "fromModule"} \X Module : Holds(q, id)'
    <3>1. {"toModule", "fromModule"} \X Module \subseteq AnyPlace
      BY DEF AnyPlace, Place
    <3> QED
      BY <1>9, <3>1, Members
  <2>5. \A entry \in managerForwarded : entry.id \in Forward
    BY DEF TypeOK
  <2> QED
    BY <2>1, <2>2, <2>3, <2>4, <2>5 DEF InPlace, EntriesFollow, TypeOK
<1> QED
  BY <1>9, <1>10 DEF InPlace

(* What the service manager says of the answers it passes on. *)
Relabelled(message) == [message EXCEPT !.status = "successful"]

(* An answer goes on if the service manager has an entry for it. *)
LEMMA RelayAnswerPlaces ==
  ASSUME TypeOK, InPlace, NEW m \in Module, RelayAnswer(m)
  PROVE  /\ InPlace' /\ Carried
         /\ \E entry \in managerForwarded :
              /\ fromManager' = IF StillThere(entry)
                                THEN Append(fromManager, Relabelled(Head(fromModule[m])))
                                ELSE fromManager
              /\ Moved(Head(fromModule[m]).id, FromModule(m),
                       IF StillThere(entry) THEN {FromManager} ELSE {})
<1> DEFINE message == Head(fromModule[m])
           x == message.id
           relayed == Relabelled(message)
<1>1. /\ fromModule[m] # <<>> /\ fromModule' = [fromModule EXCEPT ![m] = Tail(@)]
      /\ UNCHANGED <<routeVars, connectorVars, mModuleAPIActive, toModule,
                     connection, toManager, failures>>
  BY DEF RelayAnswer
<1>2. PICK entry \in managerForwarded :
        /\ entry.id = x
        /\ managerForwarded' = managerForwarded \ {entry}
        /\ fromManager' = IF StillThere(entry) THEN Append(fromManager, relayed) ELSE fromManager
  BY DEF RelayAnswer, Relabelled
<1> DEFINE to == IF StillThere(entry) THEN {FromManager} ELSE {}
<1>3. /\ fromModule'[m] = Tail(fromModule[m])
      /\ \A n \in Module : n # m => fromModule'[n] = fromModule[n]
  BY <1>1 DEF TypeOK
<1>4. /\ message \in Relayed /\ x \in Forward
      /\ Holds(FromModule(m), x) /\ Shift(FromModule(m), {x}, {})
  BY <1>1, <1>3, ShiftFromModule DEF InPlace
<1>5. relayed \in Relayed /\ relayed.id = x
  BY <1>4 DEF Relayed, Status, Relabelled
<1> HIDE DEF x, message, relayed
<1>6. ~Holds(FromManager, x)
  BY <1>4, Members, Places DEF InPlace, OnePlace
<1>7. IF StillThere(entry) THEN Shift(FromManager, {}, {x}) ELSE Shift(FromManager, {}, {})
  BY <1>2, <1>5, <1>6, ShiftFromManager DEF InPlace
<1>8. /\ Shift(Client, {}, {}) /\ Shift(ToManager, {}, {})
      /\ \A n \in Module : Shift(ToModule(n), {}, {}) /\ (n # m => Shift(FromModule(n), {}, {}))
  BY <1>1, <1>3, ShiftClient, ShiftToManager, ShiftToModule, ShiftFromModule
  DEF InPlace, connectorVars
<1>9. /\ OncePerPlace' /\ OnePlace' /\ UnmadeNowhere'
      /\ Carried
      /\ \A id \in Forward : \A p \in AnyPlace :
           Holds(p, id)' <=> (Holds(p, id) /\ ~(id = x /\ p = FromModule(m))) \/ (id = x /\ p \in to)
      /\ Moved(x, FromModule(m), to)
  <2>1. Moved(x, FromModule(m), to)
    <3>1. \A p \in AnyPlace \ to : p # FromModule(m) => Shift(p, {}, {})
      BY <1>7, <1>8, Places
    <3>2. /\ FromModule(m) \in Place \ to /\ to \subseteq AnyPlace
          /\ \A p, q \in to : p = q
          /\ \A p \in to : Shift(p, {}, {x})
      BY <1>7, Members, Places
    <3> QED
      BY <1>4, <3>1, <3>2 DEF Moved
  <2>2. requests' = requests /\ mForwardedMessages' \subseteq mForwardedMessages
    BY <1>1 DEF connectorVars
  <2> HIDE DEF to
  <2> QED
    BY <1>4, <2>1, <2>2, OneMove
<1>10. EntriesFollow'
  <2> SUFFICES ASSUME failures' = 0
               PROVE  EntriesFollow'
    BY DEF EntriesFollow
  <2>1. UNCHANGED <<requests, mForwardedMessages, connection, failures>>
    BY <1>1 DEF connectorVars
  <2>2. to = {FromManager}
    BY <1>2, <2>1 DEF InPlace, EntriesFollow, StillThere
  <2>3. \A id \in Forward : \A p \in Place : Holds(p, id)' => \E q \in Place : Holds(q, id)
    BY <1>4, <1>9, Members
  <2>4. \A id \in Forward : \A p \in Place : Holds(p, id) => \E q \in Place : Holds(q, id)'
    BY <1>9, <2>2, Members
  <2>5. ASSUME NEW e \in managerForwarded'
        PROVE  /\ e \in managerForwarded
               /\ \E q \in {"toModule", "fromModule"} \X Module : Holds(q, e.id)'
    <3>1. e \in managerForwarded /\ e # entry
      BY <1>2
    <3>2. /\ e \in [id : Forward, connection : 0 .. MaxFailures]
          /\ entry \in [id : Forward, connection : 0 .. MaxFailures]
      BY <3>1 DEF TypeOK
    <3>3. e.connection = entry.connection
      BY <2>1, <3>1 DEF InPlace, EntriesFollow
    <3>4. e.id # x
      BY <1>2, <3>1, <3>2, <3>3
    <3>5. PICK q \in {"toModule", "fromModule"} \X Module : Holds(q, e.id)
      BY <2>1, <3>1 DEF InPlace, EntriesFollow
    <3>6. q \in AnyPlace /\ e.id \in Forward
      BY <3>2 DEF AnyPlace, Place
    <3> QED
      BY <1>9, <3>1, <3>4, <3>5, <3>6
  <2> QED
    BY <2>1, <2>3, <2>4, <2>5 DEF InPlace, EntriesFollow, TypeOK
<1>11. InPlace' /\ Carried
  BY <1>9, <1>10 DEF InPlace
<1> QED
  BY <1>2, <1>9, <1>11 DEF x, message, relayed

(* A request is refused, dropped, or passed on to one module. *)
LEMMA ForwardMessagePlaces ==
  ASSUME TypeOK, GoneEmpty, InPlace, ForwardMessage
  PROVE  /\ InPlace' /\ Carried
         /\ \/ /\ \E status \in Status : Refused(Head(toManager), status)
               /\ Moved(Head(toManager), ToManager, {FromManager})
            \/ /\ ForwardedTo(Head(toManager))
               /\ \E m \in Module : Moved(Head(toManager), ToManager, {ToModule(m)})
<1> PICK x : x = Head(toManager)
  OBVIOUS
<1>1. /\ toManager # <<>> /\ toManager' = Tail(toManager)
      /\ UNCHANGED <<routeVars, connectorVars, mModuleAPIActive, fromModule, connection, failures>>
  BY DEF ForwardMessage
<1>2. \/ \E status \in Status : Refused(x, status)
      \/ requests[x[1]].counter = 0 /\ ForwardedTo(x)
  BY DEF ForwardMessage, Status
<1>3. x \in Forward /\ Holds(ToManager, x) /\ Shift(ToManager, {x}, {})
  BY <1>1, ShiftToManager DEF InPlace
<1>4. \A p \in Place : p # ToManager => ~Holds(p, x)
  BY <1>3, Members DEF InPlace, OnePlace
<1>5. Shift(Client, {}, {}) /\ \A m \in Module : Shift(FromModule(m), {}, {})
  BY <1>1, ShiftClient, ShiftFromModule DEF InPlace, connectorVars
<1>6. /\ requests' = requests /\ mForwardedMessages' = mForwardedMessages
      /\ connection' = connection /\ failures' = failures
  BY <1>1 DEF connectorVars
<1>7. ASSUME NEW status \in Status, Refused(x, status)
      PROVE  InPlace' /\ Carried /\ Moved(x, ToManager, {FromManager})
  <2> DEFINE message == [id |-> x, status |-> status, data |-> FALSE]
             to == {FromManager}
  <2>1. message \in Relayed /\ message.id = x
    BY <1>3 DEF Relayed
  <2>2. /\ fromManager' = Append(fromManager, message)
        /\ managerForwarded' = managerForwarded /\ toModule' = toModule
    BY <1>7 DEF Refused
  <2> HIDE DEF message
  <2>3. Shift(FromManager, {}, {x})
    <3>1. ~Holds(FromManager, message.id)
      BY <1>4, <2>1, Members, Places
    <3> QED
      BY <2>1, <2>2, <3>1, ShiftFromManager DEF InPlace
  <2>4. \A m \in Module : Shift(ToModule(m), {}, {})
    BY <2>2, ShiftToModule DEF InPlace
  <2>5. Moved(x, ToManager, to)
    <3>1. \A p \in AnyPlace \ to : p # ToManager => Shift(p, {}, {})
      BY <1>5, <2>4, Places
    <3> QED
      BY <1>3, <2>3, <3>1, Members, Places DEF Moved
  <2>6. /\ OncePerPlace' /\ OnePlace' /\ UnmadeNowhere'
        /\ Carried
        /\ \A id \in Forward : \A p \in AnyPlace :
             Holds(p, id)' <=> (Holds(p, id) /\ ~(id = x /\ p = ToManager)) \/ (id = x /\ p \in to)
    <3> HIDE DEF to
    <3> QED
      BY <1>3, <1>6, <2>5, OneMove
  <2>7. EntriesFollow'
    <3>1. \A id \in Forward : \A p \in Place : Holds(p, id)' => \E q \in Place : Holds(q, id)
      BY <1>3, <2>6, Members
    <3>2. \A id \in Forward : \A p \in Place : Holds(p, id) => \E q \in Place : Holds(q, id)'
      BY <2>6, Members
    <3>3. \A id \in Forward : \A p \in {"toModule", "fromModule"} \X Module :
            Holds(p, id) => Holds(p, id)'
      BY <2>6, Places
    <3>4. \A e \in managerForwarded : e.id \in Forward
      BY DEF TypeOK
    <3> QED
      BY <1>6, <2>2, <3>1, <3>2, <3>3, <3>4 DEF InPlace, EntriesFollow, TypeOK
  <2> QED
    BY <2>5, <2>6, <2>7 DEF InPlace
<1>8. ASSUME requests[x[1]].counter = 0, ForwardedTo(x)
      PROVE  InPlace' /\ Carried /\ \E m \in Module : Moved(x, ToManager, {ToModule(m)})
  <2>1. PICK m \in Supporting(x[2]) : toModule' = [toModule EXCEPT ![m] = Append(@, x)]
    BY <1>8 DEF ForwardedTo
  <2>2. m \in Module
    BY <2>1 DEF Supporting, TypeOK
  <2>3. /\ toModule'[m] = Append(toModule[m], x)
        /\ \A n \in Module : n # m => toModule'[n] = toModule[n]
    BY <2>1, <2>2 DEF TypeOK
  <2> DEFINE entry == [id |-> x, connection |-> connection]
             to == {ToModule(m)}
  <2>4. managerForwarded' = managerForwarded \cup {entry} /\ fromManager' = fromManager
    BY <1>8 DEF ForwardedTo
  <2>5. Shift(FromManager, {}, {})
    BY <2>4, ShiftFromManager DEF InPlace
  <2>6. /\ Shift(ToModule(m), {}, {x})
        /\ \A n \in Module : n # m => Shift(ToModule(n), {}, {})
    <3>1. ~Holds(ToModule(m), x)
      BY <1>4, <2>2, Members, Places
    <3> QED
      BY <1>3, <2>2, <2>3, <3>1, ShiftToModule DEF InPlace
  <2>7. Moved(x, ToManager, to)
    <3>1. \A p \in AnyPlace \ to : p # ToManager => Shift(p, {}, {})
      BY <1>5, <2>5, <2>6, Places
    <3> QED
      BY <1>3, <2>2, <2>6, <3>1, Members, Places DEF Moved
  <2>8. /\ OncePerPlace' /\ OnePlace' /\ UnmadeNowhere'
        /\ Carried
        /\ \A id \in Forward : \A p \in AnyPlace :
             Holds(p, id)' <=> (Holds(p, id) /\ ~(id = x /\ p = ToManager)) \/ (id = x /\ p \in to)
    <3> HIDE DEF to
    <3> QED
      BY <1>3, <1>6, <2>7, OneMove
  <2>9. EntriesFollow'
    <3>1. \A id \in Forward : \A p \in Place : Holds(p, id)' => \E q \in Place : Holds(q, id)
      BY <1>3, <2>8, Members
    <3>2. \A id \in Forward : \A p \in Place : Holds(p, id) => \E q \in Place : Holds(q, id)'
      BY <2>2, <2>8, Members
    <3>3. \A id \in Forward : \A p \in {"toModule", "fromModule"} \X Module :
            Holds(p, id) => Holds(p, id)'
      BY <2>8, Places
    <3>4. \E p \in {"toModule", "fromModule"} \X Module : Holds(p, x)'
      <4>1. ToModule(m) \in to /\ ToModule(m) \in AnyPlace
        BY <2>2, Members
      <4>2. Holds(ToModule(m), x)'
        BY <1>3, <2>8, <4>1
      <4> QED
        BY <2>2, <4>2, Members
    <3> SUFFICES ASSUME failures' = 0
                 PROVE  EntriesFollow'
      BY DEF EntriesFollow
    <3>5. ASSUME NEW e \in managerForwarded'
          PROVE  /\ e.connection = 0
                 /\ requests'[e.id[1]].counter = 0
                 /\ \E p \in {"toModule", "fromModule"} \X Module : Holds(p, e.id)'
      <4>1. CASE e \in managerForwarded
        BY <1>6, <3>3, <4>1 DEF InPlace, EntriesFollow, TypeOK
      <4>2. CASE e = entry
        BY <1>6, <1>8, <3>4, <4>2 DEF InPlace, EntriesFollow
      <4> QED
        BY <2>4, <4>1, <4>2
    <3> QED
      BY <1>6, <3>1, <3>2, <3>5 DEF InPlace, EntriesFollow, TypeOK
  <2> QED
    BY <2>2, <2>7, <2>8, <2>9 DEF InPlace
<1> QED
  BY <1>2, <1>7, <1>8

(* An answer goes to the client and takes the connector's entry with it. *)
LEMMA ProcessResponsePlaces ==
  ASSUME TypeOK, InPlace, fProcessResponse
  PROVE  /\ InPlace' /\ Carried
         /\ Head(fromManager) \in Relayed =>
              Moved(Head(fromManager).id, FromManager,
                    IF /\ Head(fromManager).id \in mForwardedMessages
                       /\ Head(fromManager).id[1] \notin HttpRequest
                    THEN {Client} ELSE {})
<1> PICK message : message = Head(fromManager)
  OBVIOUS
<1>1. /\ fromManager # <<>> /\ fromManager' = Tail(fromManager)
      /\ UNCHANGED <<waiting, returned, left, mixed, requests, managerVars, moduleVars,
                     connection, toManager, failures>>
      /\ \/ "id" \in DOMAIN message /\ RelayedToClient(message)
         \/ /\ "methods" \in DOMAIN message
            /\ UNCHANGED <<mForwardedMessages, answers>>
  BY DEF fProcessResponse
<1>2. message \in Relayed \cup API
  BY <1>1, TailPositions DEF TypeOK
<1>3. ASSUME message \in API
      PROVE  InPlace' /\ Carried /\ message \notin Relayed
  <2>1. UNCHANGED <<mForwardedMessages, answers>>
    BY <1>1, <1>3, Fields
  <2>2. Shift(FromManager, {}, {}) /\ Shift(Client, {}, {})
    BY <1>1, <1>3, <2>1, ShiftFromManager, ShiftClient DEF InPlace
  <2> QED
    BY <1>1, <1>3, <2>1, <2>2, Fields, QueuesUntouched DEF managerVars, moduleVars
<1>4. ASSUME message \in Relayed
      PROVE  /\ InPlace' /\ Carried
             /\ Moved(message.id, FromManager,
                      IF message.id \in mForwardedMessages /\ message.id[1] \notin HttpRequest
                      THEN {Client} ELSE {})
  <2> PICK x : x = message.id
    OBVIOUS
  <2>1. RelayedToClient(message) /\ x \in Forward
    BY <1>1, <1>4, Fields
  <2>2. Holds(FromManager, x) /\ Shift(FromManager, {x}, {})
    BY <1>1, <1>4, ShiftFromManager DEF InPlace
  <2>3. mForwardedMessages' = Forgotten(x)
    BY <2>1 DEF RelayedToClient
  <2>4. /\ requests' = requests /\ connection' = connection /\ failures' = failures
        /\ managerForwarded' = managerForwarded
    BY <1>1 DEF managerVars
  <2>5. PICK a \in Answer :
          /\ a.about = x[1] /\ a.method = x[2]
          /\ IF x \in mForwardedMessages THEN fSendMessage(a) ELSE UNCHANGED answers
    <3> DEFINE a == [about |-> x[1], method |-> x[2],
                     status |-> "successful", data |-> message.data]
    <3>1. a \in Answer /\ a.about = x[1] /\ a.method = x[2]
      BY <1>4, <2>1 DEF Relayed, Answer, Forward, Status
    <3>2. IF x \in mForwardedMessages THEN fSendMessage(a) ELSE UNCHANGED answers
      BY <2>1 DEF RelayedToClient, Passed
    <3> QED
      BY <3>1, <3>2
  <2>6. ~Holds(Client, x)
    BY <2>1, <2>2, Members, Places DEF InPlace, OnePlace
  <2> DEFINE heard == x \in mForwardedMessages /\ x[1] \notin HttpRequest
  <2> PICK to : to = IF heard THEN {Client} ELSE {}
    OBVIOUS
  <2>7. IF heard THEN Shift(Client, {}, {x}) ELSE Shift(Client, {}, {})
    <3>1. CASE heard
      <4>1. x[1] \in WsRequest
        BY <2>1, <3>1 DEF Forward, Request
      <4>2. answers' = [answers EXCEPT ![x[1]] = Append(@, a)]
        BY <2>5, <3>1 DEF fSendMessage
      <4> QED
        BY <2>1, <2>5, <2>6, <3>1, <4>1, <4>2, ShiftClient DEF InPlace
    <3>2. CASE ~heard
      <4>1. answers' = answers
        BY <2>5, <3>2 DEF fSendMessage
      <4> QED
        BY <3>2, <4>1, ShiftClient DEF InPlace
    <3> QED
      BY <3>1, <3>2
  <2>8. /\ Shift(ToManager, {}, {})
        /\ \A m \in Module : Shift(ToModule(m), {}, {}) /\ Shift(FromModule(m), {}, {})
    BY <1>1, ShiftToManager, ShiftToModule, ShiftFromModule DEF InPlace, moduleVars
  <2>9. Moved(x, FromManager, to)
    <3> HIDE DEF heard
    <3>1. \A p \in AnyPlace \ to : p # FromManager => Shift(p, {}, {})
      BY <2>7, <2>8, Places
    <3>2. /\ FromManager \in Place \ to /\ to \subseteq AnyPlace
          /\ \A p, q \in to : p = q
          /\ \A p \in to : Shift(p, {}, {x})
      BY <2>7, Members, Places
    <3> QED
      BY <2>2, <3>1, <3>2 DEF Moved
  <2>10. /\ OncePerPlace' /\ OnePlace' /\ UnmadeNowhere'
         /\ Carried
         /\ \A id \in Forward : \A p \in AnyPlace :
              Holds(p, id)' <=> (Holds(p, id) /\ ~(id = x /\ p = FromManager)) \/ (id = x /\ p \in to)
    <3>1. mForwardedMessages' \subseteq mForwardedMessages
      BY <2>3 DEF Forgotten
    <3> QED
      BY <2>1, <2>4, <2>9, <3>1, OneMove
  <2>11. EntriesFollow'
    <3> SUFFICES ASSUME failures' = 0
                 PROVE  EntriesFollow'
      BY DEF EntriesFollow
    <3>1. Client \notin Place /\ FromManager \in AnyPlace
      BY Members, Places
    <3>2. \A p \in Place : ~Holds(p, x)'
      <4>1. \A p \in Place : p \notin to
        BY <3>1
      <4>2. \A p \in Place : Holds(p, x) => p = FromManager
        BY <2>1, <2>2, <3>1, Members DEF InPlace, OnePlace
      <4> QED
        BY <2>1, <2>10, <4>1, <4>2, Members
    <3>3. \A id \in Forward : \A p \in Place : id # x => (Holds(p, id)' <=> Holds(p, id))
      BY <2>10, Members
    <3>4. \A id \in Forward : id # x => (id \in mForwardedMessages' <=> id \in mForwardedMessages)
      BY <2>3 DEF Forgotten
    <3>5. x \in mForwardedMessages' => requests[x[1]].counter # 0
      BY <2>3 DEF Forgotten
    <3>6. mForwardedMessages' \subseteq Forward
      BY <2>3 DEF Forgotten, TypeOK
    <3>7. ASSUME NEW e \in managerForwarded
          PROVE  \E p \in {"toModule", "fromModule"} \X Module : Holds(p, e.id)'
      <4>1. PICK p \in {"toModule", "fromModule"} \X Module : Holds(p, e.id)
        BY <2>4 DEF InPlace, EntriesFollow
      <4>2. e.id \in Forward /\ p \in Place /\ p # FromManager
        BY <2>4, Places, Members DEF TypeOK, Place
      <4>3. e.id # x
        BY <2>1, <2>2, <3>1, <4>1, <4>2, Members DEF InPlace, OnePlace
      <4> QED
        BY <3>3, <4>1, <4>2, <4>3
    <3> QED
      BY <2>4, <3>2, <3>3, <3>4, <3>5, <3>6, <3>7 DEF InPlace, EntriesFollow
  <2> QED
    BY <2>9, <2>10, <2>11 DEF InPlace
<1> QED
  BY <1>2, <1>3, <1>4

(* What else the Connector forwarded and is under way was so before. *)
CarriedBut(r) ==
  \A id \in mForwardedMessages' : \A p \in Place :
    Holds(p, id)' => id[1] = r \/ (id \in mForwardedMessages /\ Holds(p, id))

(* A request is made: its methods are forwarded or answered. *)
Made(r, q, forwarded, told) ==
  /\ requests[r] = None
  /\ requests' = [requests EXCEPT ![r] = q]
  /\ \A id \in forwarded \cup told : id[1] = r
  /\ forwarded \cap told = {}
  /\ mForwardedMessages' = mForwardedMessages \cup forwarded
  /\ Shift(Client, {}, told)
  /\ IF connection = None THEN Shift(ToManager, {}, {}) ELSE Shift(ToManager, {}, forwarded)
  /\ UNCHANGED <<managerForwarded, connection, failures, fromManager, toModule, fromModule>>

(***************************************************************************)
(* All it sends is new.                                                    *)
(***************************************************************************)
LEMMA MadePlaces ==
  ASSUME TypeOK, InPlace, NEW r \in Request, NEW q, q # None,
         NEW forwarded \in SUBSET Forward, NEW told \in SUBSET Forward, Made(r, q, forwarded, told)
  PROVE  InPlace' /\ CarriedBut(r)
<1>1. /\ requests[r] = None /\ requests'[r] = q
      /\ \A w \in Request : w # r => requests'[w] = requests[w]
      /\ \A id \in forwarded \cup told : id[1] = r
      /\ forwarded \cap told = {}
      /\ mForwardedMessages' = mForwardedMessages \cup forwarded
  BY DEF Made, TypeOK
<1>2. PICK sent : sent = IF connection = None THEN {} ELSE forwarded
  OBVIOUS
<1>3. /\ Shift(FromManager, {}, {}) /\ Shift(Client, {}, told) /\ Shift(ToManager, {}, sent)
      /\ \A m \in Module : Shift(ToModule(m), {}, {}) /\ Shift(FromModule(m), {}, {})
  BY <1>2, ShiftFromManager, ShiftToModule, ShiftFromModule DEF Made, InPlace
<1>4. PICK come : come = (sent \X {ToManager}) \cup (told \X {Client})
  OBVIOUS
<1>5. \A p \in AnyPlace : Shift(p, {}, {id \in Forward : <<id, p>> \in come})
  BY <1>1, <1>2, <1>3, <1>4, Places DEF Shift
<1>6. \A id \in Forward : \A p \in AnyPlace : Holds(p, id)' <=> Holds(p, id) \/ <<id, p>> \in come
  BY <1>5 DEF Shift
<1>7. Flow({}, come)
  BY <1>5 DEF Flow, Shift
<1>8. \A id \in Forward : id[1] = r =>
        id \notin mForwardedMessages /\ \A p \in AnyPlace : ~Holds(p, id)
  BY <1>1 DEF InPlace, UnmadeNowhere
<1>9. OncePerPlace' /\ OnePlace' /\ UnmadeNowhere'
  <2>1. \A id \in Forward : \A p, other \in AnyPlace : <<id, p>> \in come =>
          /\ Holds(other, id) => <<id, other>> \in {}
          /\ <<id, other>> \in come => p = other
          /\ requests'[id[1]] # None
    BY <1>1, <1>2, <1>4, <1>8
  <2>2. \A id \in Forward : requests'[id[1]] = None => requests[id[1]] = None
    BY <1>1 DEF Forward
  <2>3. \A id \in mForwardedMessages' \ mForwardedMessages : requests'[id[1]] # None
    BY <1>1
  <2> QED
    BY <1>7, <2>1, <2>2, <2>3, FlowKeeps DEF InPlace
<1>10. EntriesFollow'
  <2> SUFFICES ASSUME failures' = 0
               PROVE  EntriesFollow'
    BY DEF EntriesFollow
  <2>1. failures = 0 /\ connection' = connection /\ managerForwarded' = managerForwarded
    BY DEF Made
  <2>2. connection = 0 /\ sent = forwarded
    BY <1>2, <2>1, ForwardingConstants DEF InPlace, EntriesFollow
  <2>3. ASSUME NEW id \in Forward, NEW p \in Place, Holds(p, id)'
        PROVE  id \in mForwardedMessages'
    <3>1. p # Client /\ p \in AnyPlace
      BY Places
    <3>2. Holds(p, id) \/ id \in forwarded
      BY <1>4, <1>6, <2>2, <2>3, <3>1
    <3> QED
      BY <1>1, <2>1, <3>2 DEF InPlace, EntriesFollow
  <2>4. ASSUME NEW id \in mForwardedMessages', requests'[id[1]].counter = 0
        PROVE  \E p \in Place : Holds(p, id)'
    <3>1. CASE id \in forwarded
      <4>1. <<id, ToManager>> \in come
        BY <1>4, <2>2, <3>1
      <4> QED
        BY <1>6, <3>1, <4>1, Members
    <3>2. CASE id \in mForwardedMessages
      <4>1. id \in Forward /\ id[1] \in Request /\ id[1] # r
        BY <1>8, <3>2 DEF TypeOK, Forward
      <4>2. PICK p \in Place : Holds(p, id)
        BY <1>1, <2>1, <2>4, <3>2, <4>1 DEF InPlace, EntriesFollow
      <4> QED
        BY <1>6, <4>1, <4>2, Members
    <3> QED
      BY <1>1, <2>4, <3>1, <3>2
  <2>5. ASSUME NEW e \in managerForwarded
        PROVE  /\ e.connection = 0
               /\ requests'[e.id[1]].counter = 0
               /\ \E p \in {"toModule", "fromModule"} \X Module : Holds(p, e.id)'
    <3>1. e.id \in Forward /\ e.id[1] \in Request
      BY DEF TypeOK, Forward
    <3>2. PICK p \in {"toModule", "fromModule"} \X Module : Holds(p, e.id)
      BY <2>1 DEF InPlace, EntriesFollow
    <3>3. p \in AnyPlace
      BY DEF AnyPlace, Place
    <3>4. e.id[1] # r /\ Holds(p, e.id)'
      BY <1>6, <1>8, <3>1, <3>2, <3>3
    <3> QED
      BY <1>1, <2>1, <3>1, <3>4 DEF InPlace, EntriesFollow
  <2> QED
    BY <2>1, <2>2, <2>3, <2>4, <2>5 DEF EntriesFollow
<1>11. CarriedBut(r)
  <2>1. ASSUME NEW id \in mForwardedMessages', NEW p \in Place, Holds(p, id)', id[1] # r
        PROVE  id \in mForwardedMessages /\ Holds(p, id)
    <3>1. id \in mForwardedMessages /\ id \in Forward
      BY <1>1, <2>1 DEF TypeOK
    <3>2. <<id, p>> \notin come
      BY <1>1, <1>2, <1>4, <2>1
    <3> QED
      BY <1>6, <2>1, <3>1, <3>2, Members
  <2> QED
    BY <2>1 DEF CarriedBut
<1> QED
  BY <1>9, <1>10, <1>11 DEF InPlace

(***************************************************************************)
(* What the Connector sends to the manager                                 *)
(***************************************************************************)
LEMMA Sent ==
  ASSUME TypeOK, InPlace, NEW r \in Request, requests[r] = None,
         NEW ids \in SUBSET Forward, \A id \in ids : id[1] = r, IsFiniteSet(ids),
         fForwardMessage(ids)
  PROVE  /\ mForwardedMessages' = mForwardedMessages \cup ids
         /\ IF connection = None THEN Shift(ToManager, {}, {}) ELSE Shift(ToManager, {}, ids)
<1>1. \A id \in ids : ~Holds(ToManager, id)
  BY Members DEF InPlace, UnmadeNowhere
<1> QED
  BY <1>1, ShiftToManager DEF fForwardMessage, InPlace

(* A WebSocket request begins its way at one place per method. *)
LEMMA ProcessRequestPlaces ==
  ASSUME TypeOK, InPlace, NEW r \in WsRequest, NEW q \in Queries[r], fProcessRequest(r, q)
  PROVE  /\ InPlace' /\ CarriedBut(r)
         /\ \E forwarded, told \in SUBSET Forward :
              /\ Made(r, q, forwarded, told)
              /\ answers' = [answers EXCEPT ![r] = SetToSeq(LocalAnswers(r, q))]
<1>1. /\ requests[r] = None /\ requests' = [requests EXCEPT ![r] = q]
      /\ fForwardMessage({r} \X (q.methods \cap fMethodValid(r)))
      /\ answers' = [answers EXCEPT ![r] = SetToSeq(LocalAnswers(r, q))]
      /\ UNCHANGED <<managerVars, moduleVars, connection, fromManager, failures>>
  BY DEF fProcessRequest
<1>2. r \in Request /\ q.methods \subseteq Method /\ q # None
  BY Asked DEF Request
<1> PICK forwarded, told :
      /\ forwarded = {r} \X (q.methods \cap fMethodValid(r))
      /\ told = {id \in Forward : id[1] = r /\ id[2] \in q.methods \ fMethodValid(r)}
  OBVIOUS
<1>3. forwarded \in SUBSET Forward /\ told \in SUBSET Forward
  BY <1>2 DEF Forward, fMethodValid
<1>4. /\ mForwardedMessages' = mForwardedMessages \cup forwarded
      /\ IF connection = None THEN Shift(ToManager, {}, {}) ELSE Shift(ToManager, {}, forwarded)
  <2>1. IsFiniteSet(forwarded)
    BY <1>2, ForwardFinite
  <2> QED
    BY <1>1, <1>2, <1>3, <2>1, Sent
<1>5. Shift(Client, {}, told)
  <2>1. \A id \in Forward : id[1] = r => ~Holds(Client, id)
    BY <1>1, Members DEF InPlace, UnmadeNowhere
  <2> QED
    BY <1>1, <2>1, ShiftClient DEF InPlace
<1>6. Made(r, q, forwarded, told)
  BY <1>1, <1>4, <1>5 DEF Made, managerVars, moduleVars
<1> QED
  BY <1>1, <1>2, <1>3, <1>6, MadePlaces

(* An HTTP request begins its way at one place per method. *)
LEMMA RoutePlaces ==
  ASSUME TypeOK, InPlace, NEW r \in HttpRequest, NEW q \in Queries[r], Route(r, q)
  PROVE  /\ InPlace' /\ CarriedBut(r)
         /\ \E forwarded \in SUBSET Forward : Made(r, q, forwarded, {})
<1>1. /\ requests[r] = None /\ requests' = [requests EXCEPT ![r] = q]
      /\ UNCHANGED <<managerVars, moduleVars, connection, fromManager, failures>>
  BY DEF Route
<1>2. r \in Request /\ q.methods \subseteq Method /\ q # None
  BY Asked DEF Request
<1>3. Shift(Client, {}, {})
  <2>1. UNCHANGED answers \/ \E list : answers' = [answers EXCEPT ![r] = list]
    BY DEF Route
  <2> QED
    BY <2>1, ShiftClient DEF InPlace
<1>4. ASSUME UNCHANGED <<mForwardedMessages, toManager>>
      PROVE  /\ InPlace' /\ CarriedBut(r)
             /\ \E forwarded \in SUBSET Forward : Made(r, q, forwarded, {})
  <2>1. Made(r, q, {}, {})
    BY <1>1, <1>3, <1>4, ShiftToManager DEF Made, managerVars, moduleVars, InPlace
  <2>2. {} \in SUBSET Forward
    OBVIOUS
  <2> QED
    BY <1>2, <2>1, <2>2, MadePlaces
<1>5. ASSUME NEW m \in q.methods \cap fMethodValid(r), fForwardMessage({<<r, m>>})
      PROVE  /\ InPlace' /\ CarriedBut(r)
             /\ \E forwarded \in SUBSET Forward : Made(r, q, forwarded, {})
  <2> PICK forwarded : forwarded = {<<r, m>>}
    OBVIOUS
  <2>1. forwarded \in SUBSET Forward /\ \A id \in forwarded : id[1] = r
    <3>1. m \in Method \ {ListAPI}
      BY <1>2 DEF fMethodValid
    <3> QED
      BY <1>2, <3>1 DEF Forward
  <2>2. IsFiniteSet(forwarded)
    BY FS_Singleton
  <2>3. /\ mForwardedMessages' = mForwardedMessages \cup forwarded
        /\ IF connection = None THEN Shift(ToManager, {}, {}) ELSE Shift(ToManager, {}, forwarded)
    BY <1>1, <1>2, <1>5, <2>1, <2>2, Sent
  <2>4. Made(r, q, forwarded, {})
    BY <1>1, <1>3, <2>1, <2>3 DEF Made, managerVars, moduleVars
  <2>5. {} \in SUBSET Forward
    OBVIOUS
  <2> QED
    BY <1>2, <2>1, <2>4, <2>5, MadePlaces
<1>6. \/ UNCHANGED <<mForwardedMessages, toManager>>
      \/ \E m \in q.methods \cap fMethodValid(r) : fForwardMessage({<<r, m>>})
  BY DEF Route
<1> QED
  BY <1>4, <1>5, <1>6

(***************************************************************************)
(* Routes that end, time out or lose their client move nothing.            *)
(***************************************************************************)
LEMMA RoutesMoveNothing ==
  ASSUME TypeOK, InPlace,
         \/ \E r \in HttpRequest : Timeout(r)
         \/ Returns
         \/ \E r \in HttpRequest : HttpClientLeaves(r)
         \/ UNCHANGED vars
  PROVE  InPlace' /\ Carried
<1>1. UNCHANGED <<requests, mForwardedMessages, managerVars, moduleVars, linkVars>>
  BY DEF Timeout, Returns, HttpClientLeaves, vars, connectorVars
<1>2. \/ answers' = answers
      \/ \E r \in HttpRequest : \E list : answers' = [answers EXCEPT ![r] = list]
  <2>1. CASE Returns
    <3> DEFINE r == Last(waiting)
    <3>1. r \in HttpRequest
      BY <2>1, Nesting DEF Returns, TypeOK
    <3>2. answers' = answers \/ \E list : answers' = [answers EXCEPT ![r] = list]
      BY <2>1 DEF Returns
    <3> HIDE DEF r
    <3> QED
      BY <3>1, <3>2
  <2> QED
    BY <2>1 DEF Timeout, HttpClientLeaves, vars, connectorVars
<1>3. Shift(FromManager, {}, {}) /\ Shift(Client, {}, {})
  BY <1>1, <1>2, ShiftFromManager, ShiftClient DEF InPlace, linkVars
<1> QED
  BY <1>1, <1>3, QueuesUntouched DEF managerVars, moduleVars, linkVars

(* Every step keeps requests and answers in one place each. *)
LEMMA NextInPlace == TypeOK /\ GoneEmpty /\ InPlace /\ [Next]_vars => InPlace'
BY RoutePlaces, ProcessRequestPlaces, RoutesMoveNothing, ProcessResponsePlaces,
   ForwardMessagePlaces, RelayAnswerPlaces, ModuleAnswersPlaces, ModuleRegistersPlaces,
   ModuleDisconnectsPlaces, ConnectorDisconnectsPlaces, ConnectorReconnectsPlaces
DEF Next

(***************************************************************************)
(* Nothing is sent on a connection that is gone.                           *)
(***************************************************************************)
LEMMA NextGoneEmpty == TypeOK /\ GoneEmpty /\ [Next]_vars => GoneEmpty'
<1> SUFFICES ASSUME TypeOK, GoneEmpty, [Next]_vars, connection' = None
             PROVE  toManager' = <<>> /\ fromManager' = <<>>
  BY DEF GoneEmpty
<1>1. CASE ConnectorDisconnects
  BY <1>1 DEF ConnectorDisconnects
<1>2. CASE ConnectorReconnects
  BY <1>2, ForwardingConstants DEF ConnectorReconnects, TypeOK
<1>3. CASE connection' = connection
  <2>1. connection = None /\ toManager = <<>> /\ fromManager = <<>>
    BY <1>3 DEF GoneEmpty
  <2>2. ASSUME NEW m \in Module, RelayAnswer(m)
        PROVE  toManager' = <<>> /\ fromManager' = <<>>
    <3>1. \A entry \in managerForwarded : ~StillThere(entry)
      BY <2>1, ForwardingConstants DEF TypeOK, StillThere
    <3> QED
      BY <2>1, <2>2, <3>1 DEF RelayAnswer
  <2>3. ASSUME NEW r, NEW q, Route(r, q) \/ fProcessRequest(r, q)
        PROVE  toManager' = <<>> /\ fromManager' = <<>>
    BY <2>1, <2>3 DEF Route, fProcessRequest, fForwardMessage
  <2>4. ~fProcessResponse /\ ~ForwardMessage /\ ~ConnectorDisconnects
    BY <2>1 DEF fProcessResponse, ForwardMessage, ConnectorDisconnects
  <2>5. ASSUME NEW m, ModuleRegisters(m) \/ ModuleDisconnects(m)
        PROVE  toManager' = <<>> /\ fromManager' = <<>>
    BY <2>1, <2>5 DEF ModuleRegisters, ModuleDisconnects, Registry
  <2>6. CASE UNCHANGED linkVars
    BY <2>1, <2>6 DEF linkVars
  <2> QED
    BY <1>2, <2>2, <2>3, <2>4, <2>5, <2>6 DEF Next, Timeout, Returns, HttpClientLeaves,
       ModuleAnswers, vars
<1> QED
  BY <1>1, <1>2, <1>3 DEF Next, Route, fProcessRequest, Timeout, Returns, HttpClientLeaves,
     fProcessResponse, ForwardMessage, RelayAnswer, ModuleAnswers, ModuleRegisters,
     ModuleDisconnects, linkVars, vars

(***************************************************************************)
(* Routes nest.                                                            *)
(***************************************************************************)
LEMMA NextRoutesMade == TypeOK /\ RoutesMade /\ [Next]_vars => RoutesMade'
<1> SUFFICES ASSUME TypeOK, RoutesMade, [Next]_vars
             PROVE  RoutesMade'
  OBVIOUS
<1> USE DEF RoutesMade
<1>1. ASSUME NEW r \in HttpRequest, NEW q \in Queries[r], Route(r, q)
      PROVE  RoutesMade'
  <2>1. r \in Request /\ requests[r] = None /\ q # None
    BY <1>1, Asked DEF Route, Request
  <2>2. /\ requests'[r] # None /\ \A w \in Request : requests[w] # None => requests'[w] # None
    BY <1>1, <2>1 DEF Route, TypeOK
  <2>3. r \notin ToSet(waiting) /\ ToSet(waiting) \cup returned \subseteq Request
    BY <2>1, Nesting DEF TypeOK, Request
  <2>4. \/ waiting' = waiting /\ returned' = returned \cup {r}
        \/ waiting' = Append(waiting, r) /\ returned' = returned
    BY <1>1, Zenon DEF Route
  <2>5. ToSet(waiting') \cup returned' = ToSet(waiting) \cup returned \cup {r}
    <3>1. ToSet(Append(waiting, r)) = ToSet(waiting) \cup {r}
      BY Nesting DEF TypeOK
    <3> QED
      BY <2>4, <3>1
  <2>6. OnceEach(waiting')
    <3>1. OnceEach(Append(waiting, r))
      BY <2>3, NestingOnce DEF TypeOK
    <3> QED
      BY <2>4, <3>1
  <2> QED
    BY <2>2, <2>3, <2>5, <2>6
<1>2. ASSUME NEW r \in WsRequest, NEW q \in Queries[r], fProcessRequest(r, q)
      PROVE  RoutesMade'
  <2>1. r \in Request /\ requests[r] = None /\ q # None
    BY <1>2, Asked DEF fProcessRequest, Request
  <2>2. waiting' = waiting /\ returned' = returned /\ requests' = [requests EXCEPT ![r] = q]
    BY <1>2 DEF fProcessRequest, routeVars
  <2>3. ToSet(waiting) \cup returned \subseteq Request
    BY Nesting DEF TypeOK, Request
  <2> QED
    BY <2>1, <2>2, <2>3 DEF TypeOK
<1>3. CASE Returns
  <2> PICK r : r = Last(waiting)
    OBVIOUS
  <2>1. /\ waiting # <<>> /\ waiting' = Front(waiting)
        /\ returned' = returned \cup {r} /\ requests' = requests
    BY <1>3 DEF Returns
  <2>2. ToSet(waiting) = ToSet(waiting') \cup {r} /\ OnceEach(waiting')
    BY <2>1, Nesting, NestingOnce DEF TypeOK
  <2> QED
    BY <2>1, <2>2
<1> QED
  <2>1. CASE UNCHANGED <<requests, waiting, returned>>
    BY <2>1
  <2> QED
    BY <1>1, <1>2, <1>3, <2>1 DEF Next, Timeout, HttpClientLeaves, fProcessResponse,
       ForwardMessage, RelayAnswer, ModuleAnswers, ModuleRegisters, ModuleDisconnects,
       ConnectorDisconnects, ConnectorReconnects, vars, routeVars, connectorVars

(* A route has no response before it is made, whatever answers arrive. *)
LEMMA NextNoOldResponse == TypeOK /\ NoOldResponse /\ [Next]_vars => NoOldResponse'
<1> SUFFICES ASSUME TypeOK, NoOldResponse, [Next]_vars
             PROVE  NoOldResponse'
  OBVIOUS
<1> USE DEF NoOldResponse
<1>1. ASSUME NEW a, sHttpResponseProcessed(a), waiting' = waiting
      PROVE  NoOldResponse'
  BY <1>1 DEF sHttpResponseProcessed
<1>2. ASSUME NEW r \in HttpRequest, NEW q \in Queries[r], Route(r, q)
      PROVE  NoOldResponse'
  <2>1. ToSet(waiting) \subseteq ToSet(Append(waiting, r))
    BY Nesting DEF TypeOK
  <2>2. \/ waiting' = waiting /\ \E a : sHttpResponseProcessed(a)
        \/ waiting' = Append(waiting, r) /\ lResponse' = lResponse
    BY <1>2, Zenon DEF Route
  <2> QED
    BY <1>1, <2>1, <2>2
<1>3. CASE Returns
  <2> PICK r : r = Last(waiting)
    OBVIOUS
  <2>1. /\ waiting # <<>> /\ waiting' = Front(waiting)
        /\ lResponse' = [lResponse EXCEPT ![r] = None]
    BY <1>3 DEF Returns
  <2>2. ToSet(waiting) = ToSet(waiting') \cup {r}
    BY <2>1, Nesting DEF TypeOK
  <2>3. \A w \in HttpRequest \ ToSet(waiting') : w = r \/ lResponse[w] = None
    BY <2>2
  <2> QED
    BY <2>1, <2>3 DEF TypeOK
<1>4. CASE fProcessResponse
  <2>1. waiting' = waiting /\ (lResponse' = lResponse \/ RelayedToClient(Head(fromManager)))
    BY <1>4 DEF fProcessResponse
  <2>2. lResponse' = lResponse \/ \E a : sHttpResponseProcessed(a)
    BY <2>1 DEF RelayedToClient, fSendMessage
  <2> QED
    BY <1>1, <2>1, <2>2
<1> QED
  <2>1. CASE UNCHANGED <<waiting, lResponse>>
    BY <2>1
  <2> QED
    BY <1>2, <1>3, <1>4, <2>1 DEF Next, fProcessRequest, Timeout, HttpClientLeaves,
       ForwardMessage, RelayAnswer, ModuleAnswers, ModuleRegisters, ModuleDisconnects,
       ConnectorDisconnects, ConnectorReconnects, vars, routeVars

-----------------------------------------------------------------------------
(* HTTP requests alone *)

Alone == UnmixedAlone /\ HttpAnswersOwn

(***************************************************************************)
(* Steps of others bring no message of another HTTP request.               *)
(***************************************************************************)
LEMMA AloneKept ==
  ASSUME TypeOK, Alone, Carried, UNCHANGED <<waiting, mixed>>,
         \A r \in ToSet(waiting) \ mixed :
           lResponse'[r] # None => lResponse'[r] = lResponse[r] \/ lResponse'[r].about = r,
         \A r \in HttpRequest : answers'[r] = answers[r]
  PROVE  Alone'
<1>1. UnmixedAlone'
  <2> SUFFICES ASSUME NEW r \in ToSet(waiting) \ mixed
               PROVE  /\ \A w \in ToSet(waiting) : w = r
                      /\ \A id \in mForwardedMessages' : \A p \in Place :
                           id[1] \in HttpRequest /\ Holds(p, id)' => id[1] = r
                      /\ lResponse'[r] # None => lResponse'[r].about = r
    BY DEF UnmixedAlone
  <2>1. /\ \A w \in ToSet(waiting) : w = r
        /\ \A id \in mForwardedMessages : \A p \in Place :
             id[1] \in HttpRequest /\ Holds(p, id) => id[1] = r
        /\ lResponse[r] # None => lResponse[r].about = r
    BY DEF Alone, UnmixedAlone
  <2>2. \A id \in mForwardedMessages' : \A p \in Place :
          id[1] \in HttpRequest /\ Holds(p, id)' => id[1] = r
    BY <2>1 DEF Carried
  <2> QED
    BY <2>1, <2>2
<1>2. HttpAnswersOwn'
  BY DEF Alone, HttpAnswersOwn
<1> QED
  BY <1>1, <1>2 DEF Alone

(* An answer to the only route that waits is its own. *)
LEMMA ProcessResponseAlone ==
  ASSUME TypeOK, InPlace, Alone, fProcessResponse
  PROVE  Alone'
<1> PICK message : message = Head(fromManager)
  OBVIOUS
<1>1. /\ fromManager # <<>> /\ fromManager' = Tail(fromManager)
      /\ UNCHANGED <<waiting, mixed>>
      /\ \/ "id" \in DOMAIN message /\ RelayedToClient(message)
         \/ "methods" \in DOMAIN message /\ UNCHANGED <<lResponse, answers>>
  BY DEF fProcessResponse
<1>2. Carried
  BY ProcessResponsePlaces
<1>3. CASE UNCHANGED <<lResponse, answers>>
  BY <1>1, <1>2, <1>3, AloneKept
<1>4. ASSUME "id" \in DOMAIN message, RelayedToClient(message), message.id \in mForwardedMessages
      PROVE  Alone'
  <2> PICK x : x = message.id
    OBVIOUS
  <2>1. message \in Relayed /\ x \in Forward
    BY <1>1, <1>4, TailPositions, Fields DEF TypeOK
  <2>2. Holds(FromManager, x)
    BY <1>1, <2>1, ShiftFromManager DEF InPlace
  <2>3. \E a \in Answer : a.about = x[1] /\ fSendMessage(a)
    <3> DEFINE a == [about |-> x[1], method |-> x[2],
                     status |-> "successful", data |-> message.data]
    <3>1. a \in Answer /\ a.about = x[1]
      BY <2>1 DEF Relayed, Answer, Forward, Status
    <3>2. fSendMessage(a)
      BY <1>4 DEF RelayedToClient, Passed
    <3> QED
      BY <3>1, <3>2
  <2> PICK a \in Answer : a.about = x[1] /\ fSendMessage(a)
    BY <2>3
  <2>4. CASE a.about \in HttpRequest
    <3>1. /\ lResponse' = [r \in HttpRequest |-> IF r \in ToSet(waiting) THEN a ELSE lResponse[r]]
          /\ answers' = answers
      BY <2>4 DEF fSendMessage, sHttpResponseProcessed
    <3>2. \A r \in ToSet(waiting) \ mixed : a.about = r
      BY <1>4, <2>2, <2>4, Members DEF Alone, UnmixedAlone
    <3>3. ToSet(waiting) \subseteq HttpRequest
      BY Nesting DEF TypeOK
    <3>4. \A r \in ToSet(waiting) \ mixed : lResponse'[r] = a
      BY <3>1, <3>3
    <3> QED
      BY <1>1, <1>2, <3>1, <3>2, <3>4, AloneKept
  <2>5. CASE a.about \notin HttpRequest
    <3>1. lResponse' = lResponse /\ answers' = [answers EXCEPT ![a.about] = Append(@, a)]
      BY <2>5 DEF fSendMessage
    <3>2. \A r \in HttpRequest : answers'[r] = answers[r]
      BY <2>5, <3>1 DEF TypeOK, Request
    <3> QED
      BY <1>1, <1>2, <3>1, <3>2, AloneKept
  <2> QED
    BY <2>4, <2>5
<1> QED
  BY <1>1, <1>3, <1>4 DEF RelayedToClient

(* A route that begins alone finds no HTTP request under way. *)
LEMMA RouteAlone ==
  ASSUME TypeOK, InPlace, NoOldResponse, Alone, NEW r \in HttpRequest, NEW q \in Queries[r], Route(r, q)
  PROVE  Alone'
<1>1. CarriedBut(r)
  BY RoutePlaces
<1>2. r \in Request /\ requests[r] = None
  BY DEF Route, Request
<1>3. \/ /\ waiting = <<>> /\ ~HttpUnderWay /\ mixed' = mixed
      \/ mixed' = mixed \cup ToSet(waiting) \cup {r}
  BY DEF Route
<1>4. HttpAnswersOwn'
  <2>1. CASE \E a \in AnsweredAtOnce(r, q) :
               answers' = [answers EXCEPT ![r] = <<a>>] /\ sHttpResponseProcessed(a)
    <3>1. PICK a \in AnsweredAtOnce(r, q) : answers' = [answers EXCEPT ![r] = <<a>>]
      BY <2>1
    <3>2. a.about = r
      BY <1>2, FirstAnswers
    <3>3. \A i \in DOMAIN <<a>> : <<a>>[i].about = r
      BY <3>2
    <3>4. \A w \in HttpRequest : answers'[w] = IF w = r THEN <<a>> ELSE answers[w]
      BY <1>2, <3>1 DEF TypeOK, Request
    <3>5. mixed \subseteq mixed'
      BY <1>3
    <3> QED
      BY <3>3, <3>4, <3>5 DEF Alone, HttpAnswersOwn
  <2>2. CASE answers' = answers
    BY <1>3, <2>2 DEF Alone, HttpAnswersOwn
  <2> QED
    BY <2>1, <2>2, Zenon DEF Route
<1>5. UnmixedAlone'
  <2> SUFFICES ASSUME NEW w \in ToSet(waiting') \ mixed'
               PROVE  /\ \A v \in ToSet(waiting') : v = w
                      /\ \A id \in mForwardedMessages' : \A p \in Place :
                           id[1] \in HttpRequest /\ Holds(p, id)' => id[1] = w
                      /\ lResponse'[w] # None => lResponse'[w].about = w
    BY DEF UnmixedAlone
  <2>1. \/ waiting' = waiting
        \/ waiting' = Append(waiting, r) /\ lResponse' = lResponse
    BY Zenon DEF Route
  <2>2. waiting = <<>> /\ ~HttpUnderWay
    <3>1. ToSet(waiting') \subseteq ToSet(waiting) \cup {r}
      <4>1. ToSet(Append(waiting, r)) = ToSet(waiting) \cup {r}
        BY Nesting DEF TypeOK
      <4> QED
        BY <2>1, <4>1
    <3> QED
      BY <1>3, <3>1
  <2>3. waiting' = Append(waiting, r) /\ lResponse' = lResponse
    BY <2>1, <2>2, Nesting DEF TypeOK
  <2>4. ToSet(waiting) = {} /\ ToSet(waiting') = {r} /\ w = r
    <3>1. ToSet(waiting) = {}
      BY <2>2, Nesting DEF TypeOK
    <3>2. ToSet(Append(waiting, r)) = ToSet(waiting) \cup {r}
      BY Nesting DEF TypeOK
    <3> QED
      BY <2>3, <3>1, <3>2
  <2>5. ASSUME NEW id \in mForwardedMessages, NEW p \in Place, id[1] \in HttpRequest
        PROVE  ~Holds(p, id)
    <3>1. UnderWay(id) = {}
      BY <2>2, <2>5 DEF HttpUnderWay
    <3>2. \A i \in At(p, id) : <<p, i>> \in UnderWay(id)
      BY DEF UnderWay
    <3> QED
      BY <3>1, <3>2, Places DEF Holds, Positions
  <2>6. \A id \in mForwardedMessages' : \A p \in Place :
          id[1] \in HttpRequest /\ Holds(p, id)' => id[1] = w
    BY <1>1, <2>4, <2>5 DEF CarriedBut
  <2>7. lResponse'[w] = None
    BY <2>3, <2>4 DEF NoOldResponse
  <2> QED
    BY <2>4, <2>6, <2>7
<1> QED
  BY <1>4, <1>5 DEF Alone

(* A WebSocket request changes nothing for a route that is alone. *)
LEMMA ProcessRequestAlone ==
  ASSUME TypeOK, InPlace, Alone, NEW r \in WsRequest, NEW q \in Queries[r], fProcessRequest(r, q)
  PROVE  Alone'
<1>1. CarriedBut(r)
  BY ProcessRequestPlaces
<1>2. /\ waiting' = waiting /\ mixed' = mixed /\ lResponse' = lResponse
      /\ answers' = [answers EXCEPT ![r] = SetToSeq(LocalAnswers(r, q))]
  BY DEF fProcessRequest, routeVars
<1>3. r \notin HttpRequest
  BY ForwardingConstants
<1>4. \A w \in HttpRequest : answers'[w] = answers[w]
  BY <1>2, <1>3 DEF TypeOK, Request
<1>5. UnmixedAlone'
  <2>1. \A id \in mForwardedMessages' : \A p \in Place :
          id[1] \in HttpRequest /\ Holds(p, id)' => id \in mForwardedMessages /\ Holds(p, id)
    BY <1>1, <1>3 DEF CarriedBut
  <2> QED
    BY <1>2, <2>1 DEF Alone, UnmixedAlone
<1>6. HttpAnswersOwn'
  BY <1>2, <1>4 DEF Alone, HttpAnswersOwn
<1> QED
  BY <1>5, <1>6 DEF Alone

(* The route that returns answers with what it took, or with a timeout. *)
LEMMA ReturnsAlone ==
  ASSUME TypeOK, RoutesMade, Alone, Returns
  PROVE  Alone'
<1> PICK r : r = Last(waiting)
  OBVIOUS
<1>1. /\ waiting # <<>> /\ waiting' = Front(waiting) /\ mixed' = mixed
      /\ \/ answers' = answers
         \/ answers' = [answers EXCEPT ![r] =
                          <<IF lResponse[r] # None THEN lResponse[r] ELSE TimeoutAnswer(r)>>]
  BY DEF Returns
<1>2. /\ r \in HttpRequest /\ r \in ToSet(waiting) /\ r \notin ToSet(waiting')
      /\ ToSet(waiting) = ToSet(waiting') \cup {r}
  BY <1>1, Nesting, NestingOnce DEF TypeOK, RoutesMade
<1>3. UnmixedAlone'
  <2>1. ToSet(waiting') \subseteq mixed
    BY <1>2 DEF Alone, UnmixedAlone
  <2> QED
    BY <1>1, <2>1 DEF UnmixedAlone
<1>4. HttpAnswersOwn'
  <2> SUFFICES ASSUME NEW w \in HttpRequest \ mixed, NEW i \in DOMAIN answers'[w]
               PROVE  answers'[w][i].about = w
    BY <1>1 DEF HttpAnswersOwn
  <2>1. CASE w # r \/ answers' = answers
    <3>1. answers'[w] = answers[w]
      BY <1>1, <2>1 DEF TypeOK, Request
    <3> QED
      BY <3>1 DEF Alone, HttpAnswersOwn
  <2>2. CASE w = r /\ answers' # answers
    <3> PICK a : a = IF lResponse[r] # None THEN lResponse[r] ELSE TimeoutAnswer(r)
      OBVIOUS
    <3>1. answers'[w] = <<a>>
      BY <1>1, <2>2 DEF TypeOK, Request
    <3>2. a.about = r
      BY <1>2, <2>2 DEF Alone, UnmixedAlone, TimeoutAnswer
    <3> QED
      BY <2>2, <3>1, <3>2
  <2> QED
    BY <2>1, <2>2
<1> QED
  BY <1>3, <1>4 DEF Alone

(* Every step leaves a route that met no other with its own answer. *)
LEMMA NextAlone ==
  TypeOK /\ GoneEmpty /\ RoutesMade /\ NoOldResponse /\ InPlace /\ Alone /\ [Next]_vars => Alone'
<1> SUFFICES ASSUME TypeOK, GoneEmpty, RoutesMade, NoOldResponse, InPlace, Alone, [Next]_vars
             PROVE  Alone'
  OBVIOUS
<1>1. ASSUME Carried, UNCHANGED <<waiting, mixed, lResponse, answers>>
      PROVE  Alone'
  BY <1>1, AloneKept
<1>2. ASSUME NEW r \in HttpRequest, Timeout(r) \/ HttpClientLeaves(r)
      PROVE  Alone'
  <2>1. Carried
    BY <1>2, RoutesMoveNothing
  <2> QED
    BY <1>1, <1>2, <2>1 DEF Timeout, HttpClientLeaves, connectorVars
<1>3. CASE ForwardMessage \/ ConnectorDisconnects \/ ConnectorReconnects
  <2>1. Carried
    BY <1>3, ForwardMessagePlaces, ConnectorDisconnectsPlaces, ConnectorReconnectsPlaces
  <2>2. UNCHANGED <<routeVars, connectorVars>>
    BY <1>3 DEF ForwardMessage, ConnectorDisconnects, ConnectorReconnects
  <2> QED
    BY <1>1, <2>1, <2>2 DEF routeVars, connectorVars
<1>4. ASSUME NEW m \in Module,
             RelayAnswer(m) \/ ModuleAnswers(m) \/ ModuleRegisters(m) \/ ModuleDisconnects(m)
      PROVE  Alone'
  <2>1. Carried
    BY <1>4, RelayAnswerPlaces, ModuleAnswersPlaces, ModuleRegistersPlaces, ModuleDisconnectsPlaces
  <2>2. UNCHANGED <<routeVars, connectorVars>>
    BY <1>4 DEF RelayAnswer, ModuleAnswers, ModuleRegisters, ModuleDisconnects
  <2> QED
    BY <1>1, <2>1, <2>2 DEF routeVars, connectorVars
<1>5. CASE UNCHANGED vars
  <2>1. Carried
    BY <1>5, RoutesMoveNothing
  <2> QED
    BY <1>1, <1>5, <2>1 DEF vars, routeVars, connectorVars
<1> QED
  BY <1>2, <1>3, <1>4, <1>5, RouteAlone, ProcessRequestAlone, ReturnsAlone, ProcessResponseAlone
  DEF Next

-----------------------------------------------------------------------------
(* The theorems *)

(* At the start nothing has been asked. *)
LEMMA InitIInv == Init => IInv
<1> SUFFICES ASSUME Init
             PROVE  IInv
  OBVIOUS
<1>1. ToSet(waiting) = {}
  BY DEF Init, ToSet
<1>2. TypeOK
  <2>1. ActiveMethods(Module) \subseteq Method
    BY ForwardingConstants DEF ActiveMethods
  <2>2. /\ waiting \in Seq(HttpRequest) /\ toManager \in Seq(Forward)
        /\ fromManager \in Seq(Relayed \cup API)
        /\ toModule \in [Module -> Seq(Forward)] /\ fromModule \in [Module -> Seq(Relayed)]
        /\ answers \in [Request -> Seq(Answer)]
        /\ requests \in [Request -> QuerySet \cup {Malformed, None}]
        /\ lResponse \in [HttpRequest -> Answer \cup {None}]
    BY DEF Init
  <2>3. connection \in 0 .. MaxFailures \cup {None} /\ failures \in 0 .. MaxFailures
    BY ForwardingConstants DEF Init
  <2>4. /\ mKnown \subseteq Method /\ mModuleAPIActive \subseteq Module /\ crashed \in BOOLEAN
        /\ quit = {} /\ returned = {} /\ left = {} /\ mixed = {}
        /\ mForwardedMessages = {} /\ managerForwarded = {}
    BY <2>1 DEF Init
  <2> QED
    BY <2>2, <2>3, <2>4 DEF TypeOK
<1>3. GoneEmpty /\ RoutesMade /\ NoOldResponse
  BY <1>1 DEF Init, GoneEmpty, RoutesMade, NoOldResponse, OnceEach
<1>4. \A id \in Forward : \A p \in AnyPlace : Positions(p, id) = {}
  <2> SUFFICES ASSUME NEW id \in Forward
               PROVE  \A p \in AnyPlace : Positions(p, id) = {}
    OBVIOUS
  <2>1. id[1] \in Request
    BY DEF Forward
  <2>2. Positions(Client, id) = {}
    BY <2>1, PositionsAt DEF Init, Located, Answered
  <2>3. Positions(ToManager, id) = {} /\ Positions(FromManager, id) = {}
    BY PositionsAt DEF Init, Located, Asking, Answering
  <2>4. \A m \in Module : Positions(ToModule(m), id) = {} /\ Positions(FromModule(m), id) = {}
    BY PositionsAt DEF Init, Located, Asking, Answering
  <2> QED
    BY <2>2, <2>3, <2>4, Places
<1>5. OncePerPlace /\ OnePlace /\ UnmadeNowhere
  BY <1>4 DEF Init, OncePerPlace, OnePlace, UnmadeNowhere, Holds, Single
<1>6. EntriesFollow
  BY <1>4, Members DEF Init, EntriesFollow, Holds
<1>7. UnmixedAlone /\ HttpAnswersOwn
  BY <1>1 DEF Init, UnmixedAlone, HttpAnswersOwn, Request
<1> QED
  BY <1>2, <1>3, <1>5, <1>6, <1>7 DEF IInv

(***************************************************************************)
(* The inductive invariant holds in every state: whatever connections are  *)
(* lost and made again, each forwarded method is in one queue or answered, *)
(* and never in two.                                                       *)
(***************************************************************************)
THEOREM Invariance == Spec => []IInv
<1>1. IInv /\ [Next]_vars => IInv'
  BY NextTypeOK, NextGoneEmpty, NextRoutesMade, NextNoOldResponse, NextInPlace, NextAlone
  DEF IInv, InPlace, Alone
<1> QED
  BY InitIInv, <1>1, PTL DEF Spec

(***************************************************************************)
(* The variables have their types; among them, a route waits or is gone.   *)
(***************************************************************************)
THEOREM TypeCorrect == Spec => []TypeOK
<1>1. IInv => TypeOK
  BY DEF IInv
<1> QED
  BY <1>1, Invariance, PTL

(***************************************************************************)
(* Counting sets with one element at most                                  *)
(***************************************************************************)
LEMMA Counting ==
  ASSUME NEW S, Single(S)
  PROVE  Cardinality(S) = IF S = {} THEN 0 ELSE 1
<1>1. CASE S = {}
  BY <1>1, FS_EmptySet
<1>2. CASE S # {}
  <2> PICK x : x \in S
    BY <1>2
  <2>1. S = {x}
    BY DEF Single
  <2> QED
    BY <1>2, <2>1, FS_Singleton
<1> QED
  BY <1>1, <1>2

(* The spots of UnderWay are the places that hold the id. *)
LEMMA Spots ==
  ASSUME OncePerPlace, OnePlace, NEW id \in Forward
  PROVE  /\ Single(UnderWay(id))
         /\ UnderWay(id) # {} <=> \E p \in Place : Holds(p, id)
         /\ \A spot \in UnderWay(id) : spot[1] \in Place /\ Holds(spot[1], id)
         /\ \A p \in Place : Holds(p, id) => \E spot \in UnderWay(id) : spot[1] = p
<1>1. \A p \in Place : Positions(p, id) = At(p, id)
  BY Places DEF Positions
<1>2. \A spot \in UnderWay(id) :
        /\ spot[1] \in Place /\ spot[2] \in Positions(spot[1], id)
        /\ spot = <<spot[1], spot[2]>>
  BY <1>1 DEF UnderWay
<1>3. \A p \in Place : \A i \in Positions(p, id) : <<p, i>> \in UnderWay(id)
  BY <1>1 DEF UnderWay
<1>4. \A spot \in UnderWay(id) : Holds(spot[1], id)
  BY <1>2 DEF Holds
<1>5. \A a, b \in UnderWay(id) : a[1] = b[1]
  BY <1>2, <1>4, Members DEF OnePlace
<1>6. \A a, b \in UnderWay(id) : a[2] = b[2]
  BY <1>2, <1>5, Members DEF OncePerPlace, Single
<1>7. Single(UnderWay(id))
  BY <1>2, <1>5, <1>6 DEF Single
<1>8. \A p \in Place : Holds(p, id) => \E spot \in UnderWay(id) : spot[1] = p
  BY <1>3 DEF Holds
<1> QED
  BY <1>2, <1>4, <1>7, <1>8

(***************************************************************************)
(* A forwarded method is in one place at a time and is answered at most    *)
(* once, whatever connections are lost: no message is duplicated by the    *)
(* handlers of the two processes.                                          *)
(***************************************************************************)
THEOREM AnsweredAtMostOnce == Spec => []AnsweredOnce
<1>1. IInv => AnsweredOnce
  <2> SUFFICES ASSUME IInv, NEW r \in WsRequest, NEW m \in Method \ {ListAPI}
               PROVE  Cardinality(UnderWay(<<r, m>>)) + Cardinality(AnsweredAt(<<r, m>>)) <= 1
    BY DEF AnsweredOnce
  <2> PICK id : id = <<r, m>>
    OBVIOUS
  <2>1. id \in Forward /\ id[1] \in WsRequest
    BY DEF Forward, Request
  <2>2. Positions(Client, id) = AnsweredAt(id)
    BY <2>1 DEF Positions
  <2>3. Single(AnsweredAt(id)) /\ Single(UnderWay(id))
    BY <2>1, <2>2, Spots, Members DEF IInv, OncePerPlace
  <2>4. AnsweredAt(id) = {} \/ UnderWay(id) = {}
    <3>1. Client \notin Place
      BY Places
    <3> QED
      BY <2>1, <2>2, <3>1, Spots, Members DEF IInv, OnePlace, Holds
  <2> QED
    BY <2>3, <2>4, Counting
<1> QED
  BY <1>1, Invariance, PTL

(***************************************************************************)
(* Until a connection is lost, the entries of mForwardedMessages, in the   *)
(* Connector and in the service manager, are those of requests under way;  *)
(* only those of refused subscriptions stay.                               *)
(***************************************************************************)
THEOREM EntriesAreAccounted == Spec => []EntriesAccounted
<1>1. IInv => EntriesAccounted
  <2> SUFFICES ASSUME IInv, failures = 0
               PROVE  /\ \A id \in mForwardedMessages :
                           requests[id[1]].counter = 0 => Cardinality(UnderWay(id)) = 1
                      /\ \A entry \in managerForwarded :
                           /\ entry.id \in mForwardedMessages
                           /\ Cardinality(AtModules(entry.id)) = 1
    BY DEF EntriesAccounted
  <2>1. ASSUME NEW id \in mForwardedMessages, requests[id[1]].counter = 0
        PROVE  Cardinality(UnderWay(id)) = 1
    <3>1. id \in Forward /\ \E p \in Place : Holds(p, id)
      BY <2>1 DEF IInv, EntriesFollow, TypeOK
    <3>2. Single(UnderWay(id)) /\ UnderWay(id) # {}
      BY <3>1, Spots DEF IInv
    <3> QED
      BY <3>2, Counting
  <2>2. ASSUME NEW entry \in managerForwarded
        PROVE  /\ entry.id \in mForwardedMessages
               /\ Cardinality(AtModules(entry.id)) = 1
    <3>1. entry.id \in Forward
      BY DEF IInv, TypeOK
    <3>2. PICK p \in {"toModule", "fromModule"} \X Module : Holds(p, entry.id)
      BY DEF IInv, EntriesFollow
    <3>3. p \in Place /\ p[1] \in {"toModule", "fromModule"}
      BY DEF Place
    <3>4. entry.id \in mForwardedMessages
      BY <3>1, <3>2, <3>3 DEF IInv, EntriesFollow
    <3>5. Single(UnderWay(entry.id)) /\ \E spot \in UnderWay(entry.id) : spot[1] = p
      BY <3>1, <3>2, <3>3, Spots DEF IInv
    <3>6. Single(AtModules(entry.id)) /\ AtModules(entry.id) # {}
      BY <3>3, <3>5 DEF AtModules, Single
    <3> QED
      BY <3>4, <3>6, Counting
  <2> QED
    BY <2>1, <2>2
<1> QED
  BY <1>1, Invariance, PTL

(***************************************************************************)
(* An HTTP request that met no other one gets an answer about itself.      *)
(***************************************************************************)
THEOREM AnswersAreOwn == Spec => []HttpAnswersOwn
<1>1. IInv => HttpAnswersOwn
  BY DEF IInv
<1> QED
  BY <1>1, Invariance, PTL

-----------------------------------------------------------------------------
(* The promise of Forwarding is kept *)

AskPlace    == {ToManager} \cup {ToModule(m) : m \in Module}
AnswerPlace == {FromManager} \cup {FromModule(m) : m \in Module}

(* The answer about id at place p has data. *)
Good(p, id) ==
  IF p = Client THEN WithData(answers[id[1]], AnsweredAt(id))
  ELSE IF p = FromManager THEN WithData(fromManager, Answering(fromManager, id))
  ELSE WithData(fromModule[p[2]], Answering(fromModule[p[2]], id))

OnlyAt(p, id) == Holds(p, id) /\ \A q \in AnyPlace : Holds(q, id) => q = p

(* What has become of a method, told from the place that holds it. *)
Fates ==
  \A id \in WsForward :
    /\ OnlyAt(Client, id) => Fate(id) = IF Good(Client, id) THEN "served" ELSE "refused"
    /\ \A p \in AnswerPlace :
         OnlyAt(p, id) => Fate(id) = IF Good(p, id) THEN "succeeded" ELSE "failed"
    /\ \A p \in AskPlace : OnlyAt(p, id) => Fate(id) = "asked"
    /\ (\A p \in AnyPlace : ~Holds(p, id))
         => Fate(id) = IF id \in mForwardedMessages THEN "lost" ELSE "unasked"

(***************************************************************************)
(* The definition of Fate, read place by place, in every state             *)
(***************************************************************************)
LEMMA FatesAt == Fates
<1> SUFFICES ASSUME NEW id \in WsForward
             PROVE  /\ OnlyAt(Client, id)
                         => Fate(id) = IF Good(Client, id) THEN "served" ELSE "refused"
                    /\ \A p \in AnswerPlace :
                         OnlyAt(p, id) => Fate(id) = IF Good(p, id) THEN "succeeded" ELSE "failed"
                    /\ \A p \in AskPlace : OnlyAt(p, id) => Fate(id) = "asked"
                    /\ (\A p \in AnyPlace : ~Holds(p, id))
                         => Fate(id) = IF id \in mForwardedMessages THEN "lost" ELSE "unasked"
  BY DEF Fates
<1>1. id \in Forward /\ id[1] \in WsRequest
  BY DEF WsForward
<1>2. /\ Holds(Client, id) <=> AnsweredAt(id) # {}
      /\ \A p \in Place : Holds(p, id) <=> At(p, id) # {}
      /\ \A m \in Module : Holds(FromModule(m), id) <=> At(<<"fromModule", m>>, id) # {}
      /\ Holds(FromManager, id) <=> At(<<"fromManager", None>>, id) # {}
  <2>1. Client \notin Place
    BY Places
  <2>2. Holds(Client, id) <=> AnsweredAt(id) # {}
    BY <1>1 DEF Holds, Positions
  <2>3. \A p \in Place : Holds(p, id) <=> At(p, id) # {}
    BY <2>1 DEF Holds, Positions
  <2> QED
    BY <2>2, <2>3, Members DEF FromModule, FromManager
<1>3. UnderWay(id) # {} <=> \E p \in Place : Holds(p, id)
  <2>1. \A spot \in UnderWay(id) : spot[1] \in Place /\ At(spot[1], id) # {}
    BY DEF UnderWay
  <2>2. \A p \in Place : \A i \in At(p, id) : <<p, i>> \in UnderWay(id)
    BY DEF UnderWay
  <2> QED
    BY <1>2, <2>1, <2>2
<1>4. /\ AskPlace \subseteq Place /\ AnswerPlace \subseteq Place /\ Place \subseteq AnyPlace
      /\ Client \in AnyPlace
      /\ FromManager \in Place
      /\ \A m \in Module : FromModule(m) \in Place
      /\ AskPlace \cap AnswerPlace = {} /\ Client \notin AskPlace \cup AnswerPlace
  BY Members, Places DEF AskPlace, AnswerPlace
<1>5. \/ Holds(FromManager, id) \/ \E m \in Module : Holds(FromModule(m), id)
      \/ \A p \in AnswerPlace : ~Holds(p, id)
  BY DEF AnswerPlace
<1>6. OnlyAt(Client, id) => Fate(id) = IF Good(Client, id) THEN "served" ELSE "refused"
  BY <1>2 DEF OnlyAt, Fate, Good
<1>7. ASSUME NEW p \in AnswerPlace, OnlyAt(p, id)
      PROVE  Fate(id) = IF Good(p, id) THEN "succeeded" ELSE "failed"
  <2>1. AnsweredAt(id) = {}
    BY <1>2, <1>4, <1>7 DEF OnlyAt
  <2>2. \/ \E m \in Module : At(<<"fromModule", m>>, id) # {}
        \/ At(<<"fromManager", None>>, id) # {}
    BY <1>2, <1>7 DEF OnlyAt, AnswerPlace
  <2>3. AnswerHasData(id) <=> Good(p, id)
    <3>1. ASSUME NEW m \in Module, WithData(fromModule[m], Answering(fromModule[m], id))
          PROVE  Holds(FromModule(m), id) /\ Good(FromModule(m), id)
      <4>1. Answering(fromModule[m], id) # {}
        BY <3>1 DEF WithData
      <4>2. FromModule(m) # Client /\ FromModule(m) # FromManager /\ FromModule(m)[2] = m
        BY Places DEF FromModule
      <4> QED
        BY <1>1, <3>1, <4>1, <4>2, PositionsAt DEF Holds, Located, Good
    <3>2. ASSUME WithData(fromManager, Answering(fromManager, id))
          PROVE  Holds(FromManager, id) /\ Good(FromManager, id)
      <4>1. Answering(fromManager, id) # {}
        BY <3>2 DEF WithData
      <4> QED
        BY <1>1, <3>2, <4>1, PositionsAt, Places DEF Holds, Located, Good
    <3>3. AnswerHasData(id) => Good(p, id)
      BY <1>4, <1>7, <3>1, <3>2 DEF AnswerHasData, OnlyAt
    <3>4. Good(p, id) => AnswerHasData(id)
      <4>1. CASE p = FromManager
        BY <4>1, Places DEF Good, AnswerHasData
      <4>2. CASE p # FromManager
        <5>1. PICK m \in Module : p = FromModule(m)
          BY <1>7, <4>2 DEF AnswerPlace
        <5>2. p # Client /\ p[2] = m
          BY <5>1, Places DEF FromModule
        <5> QED
          BY <4>2, <5>2 DEF Good, AnswerHasData
      <4> QED
        BY <4>1, <4>2
    <3> QED
      BY <3>3, <3>4
  <2>4. Fate(id) = IF AnswerHasData(id) THEN "succeeded" ELSE "failed"
    BY <2>1, <2>2 DEF Fate
  <2>5. CASE Good(p, id)
    BY <2>3, <2>4, <2>5
  <2>6. CASE ~Good(p, id)
    BY <2>3, <2>4, <2>6
  <2> QED
    BY <2>5, <2>6
<1>8. ASSUME NEW p \in AskPlace, OnlyAt(p, id)
      PROVE  Fate(id) = "asked"
  <2>1. AnsweredAt(id) = {}
    BY <1>2, <1>4, <1>8 DEF OnlyAt
  <2>2. \A q \in AnswerPlace : ~Holds(q, id)
    BY <1>4, <1>8 DEF OnlyAt
  <2>3. /\ \A m \in Module : At(<<"fromModule", m>>, id) = {}
        /\ At(<<"fromManager", None>>, id) = {}
    BY <1>2, <2>2 DEF AnswerPlace
  <2>4. UnderWay(id) # {}
    BY <1>3, <1>4, <1>8 DEF OnlyAt
  <2> QED
    BY <2>1, <2>3, <2>4 DEF Fate
<1>9. ASSUME \A p \in AnyPlace : ~Holds(p, id)
      PROVE  Fate(id) = IF id \in mForwardedMessages THEN "lost" ELSE "unasked"
  BY <1>2, <1>3, <1>4, <1>9 DEF Fate
<1> QED
  BY <1>6, <1>7, <1>8, <1>9

(***************************************************************************)
(* and so after a step.                                                    *)
(***************************************************************************)
LEMMA FatesNext == Fates'
BY FatesAt, PTL

(* For a place that is a constant, the fate is told by what it holds then. *)
LEMMA FatesAfter ==
  ASSUME NEW id \in WsForward
  PROVE  /\ OnlyAt(Client, id)' => Fate(id)' = IF Good(Client, id)' THEN "served" ELSE "refused"
         /\ \A p \in AnswerPlace :
              OnlyAt(p, id)' => Fate(id)' = IF Good(p, id)' THEN "succeeded" ELSE "failed"
         /\ \A p \in AskPlace : OnlyAt(p, id)' => Fate(id)' = "asked"
         /\ (\A p \in AnyPlace : ~Holds(p, id)')
              => Fate(id)' = IF id \in mForwardedMessages' THEN "lost" ELSE "unasked"
<1>1. /\ AnyPlace' = AnyPlace /\ AnswerPlace' = AnswerPlace /\ AskPlace' = AskPlace
      /\ Client' = Client /\ WsForward' = WsForward
  BY DEF AnswerPlace, AskPlace, WsForward
<1> QED
  BY <1>1, FatesNext DEF Fates

(***************************************************************************)
(* What answers carry stays the same while others join or leave the queue. *)
(***************************************************************************)
LEMMA TakeData ==
  ASSUME NEW S, NEW q \in Seq(S), q # <<>>, NEW id, Single(Answering(q, id))
  PROVE  /\ Answering(Tail(q), id) # {} =>
              (WithData(Tail(q), Answering(Tail(q), id)) <=> WithData(q, Answering(q, id)))
         /\ About(Head(q), id) => (WithData(q, Answering(q, id)) <=> Head(q).data)
<1>1. \A i \in Answering(Tail(q), id) : i + 1 \in Answering(q, id) /\ Tail(q)[i] = q[i + 1]
  BY TailPositions DEF Answering
<1>2. About(Head(q), id) => 1 \in Answering(q, id) /\ q[1] = Head(q)
  BY TailPositions DEF Answering, About
<1>3. \A i, j \in Answering(q, id) : i = j
  BY DEF Single
<1> QED
  BY <1>1, <1>2, <1>3 DEF WithData

(* And what is put on the queue is found there. *)
LEMMA PutData ==
  ASSUME NEW S, NEW q \in Seq(S), NEW m \in S, NEW id
  PROVE  /\ ~About(m, id) =>
              (WithData(Append(q, m), Answering(Append(q, m), id)) <=> WithData(q, Answering(q, id)))
         /\ About(m, id) /\ Answering(q, id) = {} =>
              (WithData(Append(q, m), Answering(Append(q, m), id)) <=> m.data)
<1>1. Answering(Append(q, m), id) = Answering(q, id) \cup {i \in {Len(q) + 1} : About(m, id)}
  BY AppendPositions DEF Answering, About
<1>2. /\ Append(q, m)[Len(q) + 1] = m
      /\ \A i \in Answering(q, id) : Append(q, m)[i] = q[i]
  BY AppendPositions DEF Answering
<1> QED
  BY <1>1, <1>2 DEF WithData

(***************************************************************************)
(* Answers on their way to the Connector                                   *)
(***************************************************************************)
LEMMA DataFromManager ==
  ASSUME TypeOK, OncePerPlace
  PROVE  /\ fromManager' = fromManager =>
              \A id \in Forward : Good(FromManager, id)' <=> Good(FromManager, id)
         /\ fromManager # <<>> /\ fromManager' = Tail(fromManager) =>
              \A id \in Forward :
                Holds(FromManager, id)' => (Good(FromManager, id)' <=> Good(FromManager, id))
         /\ fromManager # <<>> /\ Head(fromManager) \in Relayed =>
              (Good(FromManager, Head(fromManager).id) <=> Head(fromManager).data)
         /\ \A m \in Relayed \cup API :
              /\ fromManager' = Append(fromManager, m)
              /\ m \in Relayed => ~Holds(FromManager, m.id)
              => /\ \A id \in Forward : Holds(FromManager, id) =>
                      (Good(FromManager, id)' <=> Good(FromManager, id))
                 /\ m \in Relayed => (Good(FromManager, m.id)' <=> m.data)
<1>1. /\ \A id \in Forward : Good(FromManager, id) <=> WithData(fromManager, Answering(fromManager, id))
      /\ \A id \in Forward : Good(FromManager, id)' <=> WithData(fromManager', Answering(fromManager', id))
      /\ \A id \in Forward : Single(Answering(fromManager, id))
      /\ \A id \in Forward : Holds(FromManager, id) <=> Answering(fromManager, id) # {}
      /\ \A id \in Forward : Holds(FromManager, id)' <=> Answering(fromManager', id) # {}
      /\ fromManager \in Seq(Relayed \cup API)
  <2>1. \A id \in Forward :
          /\ Positions(FromManager, id) = Answering(fromManager, id)
          /\ Positions(FromManager, id)' = Answering(fromManager', id)
          /\ Single(Positions(FromManager, id))
    BY PositionsAt, PositionsNext, Members DEF Located, OncePerPlace
  <2>2. \A id \in Forward :
          /\ Good(FromManager, id) <=> WithData(fromManager, Answering(fromManager, id))
          /\ Good(FromManager, id)' <=> WithData(fromManager', Answering(fromManager', id))
    BY Places DEF Good
  <2> QED
    BY <2>1, <2>2 DEF Holds, TypeOK
<1>2. ASSUME fromManager' = fromManager
      PROVE  \A id \in Forward : Good(FromManager, id)' <=> Good(FromManager, id)
  BY <1>1, <1>2
<1>3. ASSUME fromManager # <<>>, fromManager' = Tail(fromManager), NEW id \in Forward,
             Holds(FromManager, id)'
      PROVE  Good(FromManager, id)' <=> Good(FromManager, id)
  BY <1>1, <1>3, TakeData
<1>4. ASSUME fromManager # <<>>, Head(fromManager) \in Relayed
      PROVE  Good(FromManager, Head(fromManager).id) <=> Head(fromManager).data
  <2>1. Head(fromManager).id \in Forward /\ About(Head(fromManager), Head(fromManager).id)
    BY <1>4, Fields DEF About
  <2> QED
    BY <1>1, <1>4, <2>1, TakeData
<1>5. ASSUME NEW m \in Relayed \cup API, fromManager' = Append(fromManager, m),
             m \in Relayed => ~Holds(FromManager, m.id)
      PROVE  /\ \A id \in Forward : Holds(FromManager, id) =>
                  (Good(FromManager, id)' <=> Good(FromManager, id))
             /\ m \in Relayed => (Good(FromManager, m.id)' <=> m.data)
  <2>1. \A id \in Forward : Holds(FromManager, id) => ~About(m, id)
    BY <1>5, Fields DEF About
  <2>2. m \in Relayed => m.id \in Forward /\ About(m, m.id)
    BY Fields DEF About
  <2>3. ASSUME NEW id \in Forward, Holds(FromManager, id)
        PROVE  Good(FromManager, id)' <=> Good(FromManager, id)
    BY <1>1, <1>5, <2>1, <2>3, PutData
  <2>4. ASSUME m \in Relayed
        PROVE  Good(FromManager, m.id)' <=> m.data
    BY <1>1, <1>5, <2>2, <2>4, PutData
  <2> QED
    BY <2>3, <2>4
<1> QED
  BY <1>2, <1>3, <1>4, <1>5

(***************************************************************************)
(* Answers on their way from a module                                      *)
(***************************************************************************)
LEMMA DataFromModule ==
  ASSUME TypeOK, OncePerPlace, NEW m \in Module
  PROVE  /\ fromModule'[m] = fromModule[m] =>
              \A id \in Forward : Good(FromModule(m), id)' <=> Good(FromModule(m), id)
         /\ fromModule[m] # <<>> /\ fromModule'[m] = Tail(fromModule[m]) =>
              \A id \in Forward :
                Holds(FromModule(m), id)' => (Good(FromModule(m), id)' <=> Good(FromModule(m), id))
         /\ fromModule[m] # <<>> =>
              (Good(FromModule(m), Head(fromModule[m]).id) <=> Head(fromModule[m]).data)
         /\ \A x \in Relayed :
              fromModule'[m] = Append(fromModule[m], x) /\ ~Holds(FromModule(m), x.id)
              => /\ \A id \in Forward : Holds(FromModule(m), id) =>
                      (Good(FromModule(m), id)' <=> Good(FromModule(m), id))
                 /\ Good(FromModule(m), x.id)' <=> x.data
<1> DEFINE p == FromModule(m)
<1>1. /\ \A id \in Forward : Good(p, id) <=> WithData(fromModule[m], Answering(fromModule[m], id))
      /\ \A id \in Forward : Good(p, id)' <=> WithData(fromModule'[m], Answering(fromModule'[m], id))
      /\ \A id \in Forward : Single(Answering(fromModule[m], id))
      /\ \A id \in Forward : Holds(p, id) <=> Answering(fromModule[m], id) # {}
      /\ \A id \in Forward : Holds(p, id)' <=> Answering(fromModule'[m], id) # {}
      /\ fromModule[m] \in Seq(Relayed)
  <2>1. \A id \in Forward :
          /\ Positions(p, id) = Answering(fromModule[m], id)
          /\ Positions(p, id)' = Answering(fromModule'[m], id)
          /\ Single(Positions(p, id))
    BY PositionsAt, PositionsNext, Members DEF Located, OncePerPlace
  <2>2. p # Client /\ p # FromManager /\ p[2] = m
    BY Places DEF FromModule
  <2>3. \A id \in Forward :
          /\ Good(p, id) <=> WithData(fromModule[m], Answering(fromModule[m], id))
          /\ Good(p, id)' <=> WithData(fromModule'[m], Answering(fromModule'[m], id))
    BY <2>2 DEF Good
  <2> QED
    BY <2>1, <2>3 DEF Holds, TypeOK
<1> HIDE DEF p
<1>2. ASSUME fromModule'[m] = fromModule[m]
      PROVE  \A id \in Forward : Good(p, id)' <=> Good(p, id)
  BY <1>1, <1>2
<1>3. ASSUME fromModule[m] # <<>>, fromModule'[m] = Tail(fromModule[m]), NEW id \in Forward,
             Holds(p, id)'
      PROVE  Good(p, id)' <=> Good(p, id)
  BY <1>1, <1>3, TakeData
<1>4. ASSUME fromModule[m] # <<>>
      PROVE  Good(p, Head(fromModule[m]).id) <=> Head(fromModule[m]).data
  <2>1. Head(fromModule[m]) \in Relayed
    BY <1>1, <1>4, TailPositions
  <2>2. Head(fromModule[m]).id \in Forward /\ About(Head(fromModule[m]), Head(fromModule[m]).id)
    BY <2>1, Fields DEF About
  <2> QED
    BY <1>1, <1>4, <2>2, TakeData
<1>5. ASSUME NEW x \in Relayed, fromModule'[m] = Append(fromModule[m], x), ~Holds(p, x.id)
      PROVE  /\ \A id \in Forward : Holds(p, id) => (Good(p, id)' <=> Good(p, id))
             /\ Good(p, x.id)' <=> x.data
  <2>1. x.id \in Forward /\ About(x, x.id) /\ \A id : About(x, id) => id = x.id
    BY Fields DEF About
  <2>2. ASSUME NEW id \in Forward, Holds(p, id)
        PROVE  Good(p, id)' <=> Good(p, id)
    BY <1>1, <1>5, <2>1, <2>2, PutData
  <2>3. Good(p, x.id)' <=> x.data
    BY <1>1, <1>5, <2>1, PutData
  <2> QED
    BY <2>2, <2>3
<1> QED
  BY <1>2, <1>3, <1>4, <1>5 DEF p

(***************************************************************************)
(* The answers of WebSocket clients: those of others stay, what comes is   *)
(* as it was sent, and the first ones have no data, for ListAPI is         *)
(* forwarded by no one.                                                    *)
(***************************************************************************)
LEMMA DataClient ==
  ASSUME TypeOK
  PROVE  /\ answers' = answers \/ (\E r \in HttpRequest : \E list : answers' = [answers EXCEPT ![r] = list])
              => \A id \in WsForward : Good(Client, id)' <=> Good(Client, id)
         /\ \A x \in WsForward, a \in Answer :
              /\ a.method = x[2] /\ ~Holds(Client, x)
              /\ answers' = [answers EXCEPT ![x[1]] = Append(@, a)]
              => /\ \A id \in WsForward \ {x} : Good(Client, id)' <=> Good(Client, id)
                 /\ Good(Client, x)' <=> a.data
         /\ \A r \in WsRequest : \A q \in Queries[r] :
              answers' = [answers EXCEPT ![r] = SetToSeq(LocalAnswers(r, q))]
              => \A id \in WsForward :
                   /\ id[1] # r => (Good(Client, id)' <=> Good(Client, id))
                   /\ id[1] = r => ~Good(Client, id)'
<1>1. \A id \in WsForward :
        /\ id \in Forward /\ id[1] \in WsRequest /\ id[1] \in Request /\ id[2] \in Method \ {ListAPI}
        /\ Good(Client, id) <=> WithData(answers[id[1]], Answered(answers[id[1]], id[2]))
        /\ Good(Client, id)' <=> WithData(answers'[id[1]], Answered(answers'[id[1]], id[2]))
        /\ Holds(Client, id) <=> Answered(answers[id[1]], id[2]) # {}
  BY DEF WsForward, Forward, Good, AnsweredAt, Answered, Holds, Positions
<1>2. \A id \in WsForward :
        answers'[id[1]] = answers[id[1]] => (Good(Client, id)' <=> Good(Client, id))
  BY <1>1
<1>3. ASSUME answers' = answers \/ \E r \in HttpRequest : \E list : answers' = [answers EXCEPT ![r] = list]
      PROVE  \A id \in WsForward : Good(Client, id)' <=> Good(Client, id)
  <2>1. \A w \in WsRequest : answers'[w] = answers[w]
    BY <1>3, ForwardingConstants DEF TypeOK, Request
  <2> QED
    BY <1>1, <1>2, <2>1
<1>4. ASSUME NEW x \in WsForward, NEW a \in Answer, a.method = x[2], ~Holds(Client, x),
             answers' = [answers EXCEPT ![x[1]] = Append(@, a)]
      PROVE  /\ \A id \in WsForward \ {x} : Good(Client, id)' <=> Good(Client, id)
             /\ Good(Client, x)' <=> a.data
  <2>1. x[1] \in Request /\ answers[x[1]] \in Seq(Answer)
    BY <1>1 DEF TypeOK
  <2>2. /\ answers'[x[1]] = Append(answers[x[1]], a)
        /\ \A r \in Request : r # x[1] => answers'[r] = answers[r]
    BY <1>4, <2>1 DEF TypeOK
  <2> PICK list : list = answers[x[1]]
    OBVIOUS
  <2>3. \A m : Answered(Append(list, a), m) = Answered(list, m) \cup {i \in {Len(list) + 1} : x[2] = m}
    BY <1>4, <2>1, AppendPositions DEF Answered
  <2>4. /\ Append(list, a)[Len(list) + 1] = a
        /\ \A m : \A i \in Answered(list, m) : Append(list, a)[i] = list[i]
    BY <2>1, AppendPositions DEF Answered
  <2>5. ASSUME NEW m, m # x[2]
        PROVE  WithData(Append(list, a), Answered(Append(list, a), m))
                 <=> WithData(list, Answered(list, m))
    <3>1. Answered(Append(list, a), m) = Answered(list, m)
      BY <2>3, <2>5
    <3>2. \A i \in Answered(list, m) : Append(list, a)[i].data = list[i].data
      BY <2>4
    <3> QED
      BY <3>1, <3>2 DEF WithData
  <2>6. WithData(Append(list, a), Answered(Append(list, a), x[2])) <=> a.data
    BY <1>1, <1>4, <2>3, <2>4 DEF WithData
  <2>7. \A id \in WsForward : id[1] = x[1] /\ id[2] = x[2] => id = x
    BY DEF WsForward, Forward
  <2>8. ASSUME NEW id \in WsForward \ {x}
        PROVE  Good(Client, id)' <=> Good(Client, id)
    <3>1. CASE id[1] = x[1]
      BY <1>1, <2>2, <2>5, <2>7, <3>1
    <3>2. CASE id[1] # x[1]
      BY <1>1, <1>2, <2>2, <3>2
    <3> QED
      BY <3>1, <3>2
  <2> QED
    BY <1>1, <2>2, <2>6, <2>8
<1>5. ASSUME NEW r \in WsRequest, NEW q \in Queries[r],
             answers' = [answers EXCEPT ![r] = SetToSeq(LocalAnswers(r, q))]
      PROVE  \A id \in WsForward : /\ id[1] # r => (Good(Client, id)' <=> Good(Client, id))
                                   /\ id[1] = r => ~Good(Client, id)'
  <2> PICK list : list = SetToSeq(LocalAnswers(r, q))
    OBVIOUS
  <2>1. /\ r \in Request /\ answers'[r] = list
        /\ \A w \in Request : w # r => answers'[w] = answers[w]
    BY <1>5 DEF TypeOK, Request
  <2>2. list \in Seq(LocalAnswers(r, q))
    BY <2>1, LocalAnswersFinite, Ordering
  <2>3. \A a \in LocalAnswers(r, q) : a.method # ListAPI => ~a.data
    <3>1. \A m : /\ LocalAnswer(r, m, q.counter).method = m
                 /\ LocalAnswer(r, m, q.counter).data = (m = ListAPI /\ q.counter = 0)
      BY DEF LocalAnswer
    <3>2. \A a \in LocalAnswers(r, q) : \E m : a = LocalAnswer(r, m, q.counter)
      BY DEF LocalAnswers
    <3>3. ASSUME NEW m, m # ListAPI
          PROVE  ~LocalAnswer(r, m, q.counter).data
      BY <3>1, <3>3
    <3> QED
      BY <3>1, <3>2, <3>3
  <2>4. \A m \in Method \ {ListAPI} : ~WithData(list, Answered(list, m))
    <3>1. \A i \in DOMAIN list : list[i] \in LocalAnswers(r, q)
      BY <2>2
    <3>2. \A m : \A i \in Answered(list, m) : i \in DOMAIN list /\ list[i].method = m
      BY DEF Answered
    <3>3. ASSUME NEW m \in Method \ {ListAPI}, NEW i \in Answered(list, m)
          PROVE  ~list[i].data
      BY <2>3, <3>1, <3>2
    <3> QED
      BY <3>3 DEF WithData
  <2> QED
    BY <1>1, <1>2, <2>1, <2>4
<1> QED
  BY <1>3, <1>4, <1>5

-----------------------------------------------------------------------------
(* What becomes of what is not moved *)

(* What is under way was forwarded, even after connections were lost. *)
UnderWayKnown == \A id \in Forward : \A p \in Place : Holds(p, id) => id \in mForwardedMessages

(* Answers that stay where they are carry what they carried, *)
DataKept(others) ==
  \A id \in WsForward \ others : \A p \in AnswerPlace \cup {Client} :
    Holds(p, id) /\ Holds(p, id)' => (Good(p, id)' <=> Good(p, id))

(* and the methods they are about have the same fate. *)
FateKept(others) == \A id \in WsForward \ others : Fate(id)' = Fate(id)

(***************************************************************************)
(* A method in the same place, with the same entry, has the same fate.     *)
(***************************************************************************)
LEMMA Staying ==
  ASSUME OnePlace, NEW others, DataKept(others),
         \A id \in WsForward \ others :
           /\ \A p \in AnyPlace : Holds(p, id)' <=> Holds(p, id)
           /\ id \in mForwardedMessages' <=> id \in mForwardedMessages
  PROVE  FateKept(others)
<1> SUFFICES ASSUME NEW id \in WsForward \ others
             PROVE  Fate(id)' = Fate(id)
  BY DEF FateKept
<1>1. /\ AnyPlace = {Client} \cup AnswerPlace \cup AskPlace
      /\ AnyPlace' = AnyPlace /\ AnswerPlace' = AnswerPlace /\ AskPlace' = AskPlace
      /\ Client' = Client
  BY Places DEF AnswerPlace, AskPlace
<1>2. id \in Forward /\ id \in WsForward'
  BY DEF WsForward
<1>3. \A p \in AnyPlace : OnlyAt(p, id)' <=> OnlyAt(p, id)
  BY <1>1 DEF OnlyAt
<1>4. \A p \in AnyPlace : Holds(p, id) => OnlyAt(p, id)
  BY <1>2 DEF OnePlace, OnlyAt
<1>5. CASE \A p \in AnyPlace : ~Holds(p, id)
  BY <1>1, <1>2, <1>5, FatesAt, FatesNext DEF Fates
<1>6. CASE Holds(Client, id)
  <2>1. OnlyAt(Client, id) /\ OnlyAt(Client, id)' /\ (Good(Client, id)' <=> Good(Client, id))
    BY <1>1, <1>3, <1>4, <1>6 DEF DataKept
  <2> QED
    BY <1>1, <1>2, <2>1, FatesAt, FatesNext DEF Fates
<1>7. ASSUME NEW p \in AnswerPlace, Holds(p, id)
      PROVE  Fate(id)' = Fate(id)
  <2>1. OnlyAt(p, id) /\ OnlyAt(p, id)' /\ (Good(p, id)' <=> Good(p, id))
    BY <1>1, <1>3, <1>4, <1>7 DEF DataKept
  <2> QED
    BY <1>1, <1>2, <2>1, FatesAt, FatesNext DEF Fates
<1>8. ASSUME NEW p \in AskPlace, Holds(p, id)
      PROVE  Fate(id)' = Fate(id)
  <2>1. OnlyAt(p, id) /\ OnlyAt(p, id)'
    BY <1>1, <1>3, <1>4, <1>8
  <2> QED
    BY <1>1, <1>2, <2>1, FatesAt, FatesNext DEF Fates
<1> QED
  BY <1>1, <1>5, <1>6, <1>7, <1>8

(***************************************************************************)
(* When one message moves, the others have the fate they had, and the      *)
(* place it moves to tells its own.                                        *)
(***************************************************************************)
LEMMA MovedFate ==
  ASSUME TypeOK, InPlace, UnderWayKnown, NEW x \in Forward, NEW from, NEW to, Moved(x, from, to),
         requests' = requests, mForwardedMessages' \subseteq mForwardedMessages,
         mForwardedMessages \ mForwardedMessages' \subseteq {x},
         to \cap Place # {} => mForwardedMessages' = mForwardedMessages,
         DataKept({x})
  PROVE  /\ UnderWayKnown'
         /\ FateKept({x})
         /\ OnlyAt(from, x) /\ x \in mForwardedMessages
         /\ \A p \in to : OnlyAt(p, x)'
         /\ to = {} => \A p \in AnyPlace : ~Holds(p, x)'
<1>1. \A id \in Forward : \A p \in AnyPlace :
        Holds(p, id)' <=> (Holds(p, id) /\ ~(id = x /\ p = from)) \/ (id = x /\ p \in to)
  BY OneMove
<1>2. /\ from \in Place /\ from \in AnyPlace /\ from \notin to /\ to \subseteq AnyPlace
      /\ \A p, q \in to : p = q
      /\ Holds(from, x)
  BY Members DEF Moved
<1>3. OnlyAt(from, x) /\ x \in mForwardedMessages
  BY <1>2 DEF OnlyAt, InPlace, OnePlace, UnderWayKnown
<1>4. \A p \in AnyPlace : Holds(p, x)' <=> p \in to
  BY <1>1, <1>2, <1>3 DEF OnlyAt
<1>5. UnderWayKnown'
  <2> SUFFICES ASSUME NEW id \in Forward, NEW p \in Place, Holds(p, id)'
               PROVE  id \in mForwardedMessages'
    BY DEF UnderWayKnown
  <2>1. p \in AnyPlace
    BY Members
  <2>2. CASE id = x
    BY <1>3, <1>4, <2>1, <2>2
  <2>3. CASE id # x
    BY <1>1, <2>1, <2>3 DEF UnderWayKnown
  <2> QED
    BY <2>2, <2>3
<1>6. FateKept({x})
  <2>1. \A id \in WsForward \ {x} :
          /\ \A p \in AnyPlace : Holds(p, id)' <=> Holds(p, id)
          /\ id \in mForwardedMessages' <=> id \in mForwardedMessages
    BY <1>1 DEF WsForward
  <2> QED
    BY <2>1, Staying DEF InPlace
<1>7. \A p \in to : OnlyAt(p, x)'
  BY <1>2, <1>4 DEF OnlyAt
<1> QED
  BY <1>3, <1>4, <1>5, <1>6, <1>7

(***************************************************************************)
(* When nothing moves but messages of HTTP requests, nothing happens to    *)
(* WebSocket clients.                                                      *)
(***************************************************************************)
LEMMA NothingMoves ==
  ASSUME FateKept({}), failures' = failures
  PROVE  UNCHANGED Promise!vars
<1>1. \A id \in WsForward : Fate(id)' = Fate(id)
  BY DEF FateKept
<1>2. WsForward' = WsForward
  BY DEF WsForward
<1>3. [id \in WsForward |-> Fate(id)]' = [id \in WsForward |-> Fate(id)]
  BY <1>1, <1>2
<1> QED
  BY <1>3 DEF Promise!vars

(* The steps of Forwarding that are about one method *)
LEMMA OneFate ==
  ASSUME NEW x \in WsForward, FateKept({x}), failures \in Nat, failures' = failures,
         \/ Fate(x)' = Fate(x)
         \/ Fate(x) = "asked" /\ Fate(x)' \in {"succeeded", "failed"}
         \/ /\ Fate(x) \in {"succeeded", "failed"}
            /\ Fate(x)' = IF Fate(x) = "succeeded" THEN "served" ELSE "refused"
         \/ Fate(x) \in {"succeeded", "failed"} /\ Fate(x)' = "lost" /\ failures # 0
  PROVE  [Promise!Next]_(Promise!vars)
<1> DEFINE F == [id \in WsForward |-> Fate(id)]
<1>1. /\ \A id \in WsForward : id # x => Fate(id)' = Fate(id)
      /\ WsForward' = WsForward
  BY DEF FateKept, WsForward
<1>2. F' = [F EXCEPT ![x] = Fate(x)'] /\ F[x] = Fate(x)
  BY <1>1
<1>3. CASE Fate(x)' = Fate(x)
  BY <1>1, <1>3 DEF Promise!vars
<1>4. CASE Fate(x) = "asked" /\ Fate(x)' \in {"succeeded", "failed"}
  <2>1. Promise!Run(x, Fate(x)')
    BY <1>2, <1>4 DEF Promise!Run
  <2> QED
    BY <1>4, <2>1 DEF Promise!Next
<1>5. CASE /\ Fate(x) \in {"succeeded", "failed"}
           /\ Fate(x)' = IF Fate(x) = "succeeded" THEN "served" ELSE "refused"
  <2>1. Promise!Answer(x)
    BY <1>2, <1>5 DEF Promise!Answer
  <2> QED
    BY <2>1 DEF Promise!Next
<1>6. CASE Fate(x) \in {"succeeded", "failed"} /\ Fate(x)' = "lost" /\ failures # 0
  <2>1. F' = [id \in WsForward |-> IF id \in {x} THEN "lost" ELSE F[id]]
    BY <1>1, <1>6
  <2>2. (failures > 0)' = TRUE
    BY <1>6
  <2>3. Promise!Lose({x})
    BY <1>2, <1>6, <2>1, <2>2 DEF Promise!Lose
  <2> QED
    BY <2>3 DEF Promise!Next
<1> QED
  BY <1>3, <1>4, <1>5, <1>6

(* A connection takes what is on it with it. *)
LEMMA LostFate ==
  ASSUME NEW ids \in SUBSET WsForward, FateKept(ids), failures' \in Nat \ {0},
         \A id \in ids : Fate(id) \in {"asked", "succeeded", "failed"} /\ Fate(id)' = "lost"
  PROVE  Promise!Next
<1> DEFINE F == [id \in WsForward |-> Fate(id)]
<1>1. WsForward' = WsForward /\ \A id \in WsForward \ ids : Fate(id)' = Fate(id)
  BY DEF FateKept, WsForward
<1>2. F' = [id \in WsForward |-> IF id \in ids THEN "lost" ELSE F[id]]
  BY <1>1
<1>3. (failures > 0)' = TRUE
  OBVIOUS
<1>4. Promise!Lose(ids)
  BY <1>2, <1>3 DEF Promise!Lose
<1> QED
  BY <1>4 DEF Promise!Next

-----------------------------------------------------------------------------
(* What each action does to the promise *)

Promised == UnderWayKnown' /\ [Promise!Next]_(Promise!vars)

(***************************************************************************)
(* Answers that wait keep their data while others come and go.             *)
(***************************************************************************)
LEMMA QuietData ==
  ASSUME TypeOK, OncePerPlace, fromModule' = fromModule,
         \/ answers' = answers
         \/ \E r \in HttpRequest : \E list : answers' = [answers EXCEPT ![r] = list],
         \/ fromManager' = fromManager
         \/ fromManager # <<>> /\ fromManager' = Tail(fromManager)
         \/ \E api \in API : fromManager' = Append(fromManager, api)
  PROVE  DataKept({})
<1>1. \A id \in WsForward : id \in Forward
  BY DEF WsForward
<1>2. \A id \in WsForward : Good(Client, id)' <=> Good(Client, id)
  BY DataClient
<1>3. \A id \in WsForward : Holds(FromManager, id) /\ Holds(FromManager, id)'
        => (Good(FromManager, id)' <=> Good(FromManager, id))
  <2>1. \A api \in API : api \notin Relayed /\ api \in Relayed \cup API
    BY Fields
  <2> QED
    BY <1>1, <2>1, DataFromManager
<1>4. \A m \in Module : \A id \in WsForward : Good(FromModule(m), id)' <=> Good(FromModule(m), id)
  BY <1>1, DataFromModule
<1> QED
  BY <1>2, <1>3, <1>4 DEF DataKept, AnswerPlace

(* Lost connections are counted. *)
LEMMA Count == TypeOK => failures \in Nat
BY ForwardingConstants DEF TypeOK

(* If nothing moves the promise takes no step. *)
LEMMA QuietFate ==
  ASSUME TypeOK, InPlace, UnderWayKnown, DataKept({}),
         \A p \in AnyPlace : \A id \in Forward :
           id \in WsForward \/ p \in Place => (Holds(p, id)' <=> Holds(p, id)),
         mForwardedMessages' = mForwardedMessages, failures' = failures
  PROVE  Promised
<1>1. UnderWayKnown'
  BY Members DEF UnderWayKnown
<1>2. FateKept({})
  BY Staying DEF InPlace, WsForward
<1> QED
  BY <1>1, <1>2, NothingMoves DEF Promised

(***************************************************************************)
(* Routes that end, and connections that come, change no fate.             *)
(***************************************************************************)
LEMMA RoutesFate ==
  ASSUME TypeOK, InPlace, UnderWayKnown,
         \/ \E r \in HttpRequest : Timeout(r)
         \/ Returns
         \/ \E r \in HttpRequest : HttpClientLeaves(r)
         \/ UNCHANGED vars
  PROVE  Promised
<1>1. UNCHANGED <<requests, mForwardedMessages, managerVars, moduleVars, linkVars>>
  BY DEF Timeout, Returns, HttpClientLeaves, vars, connectorVars
<1>2. \/ answers' = answers
      \/ \E r \in HttpRequest : \E list : answers' = [answers EXCEPT ![r] = list]
  <2>1. CASE Returns
    <3> PICK r : r = Last(waiting)
      OBVIOUS
    <3>1. r \in HttpRequest
      BY <2>1, Nesting DEF Returns, TypeOK
    <3>2. answers' = answers \/ \E list : answers' = [answers EXCEPT ![r] = list]
      BY <2>1 DEF Returns
    <3> QED
      BY <3>1, <3>2
  <2> QED
    BY <2>1 DEF Timeout, HttpClientLeaves, vars, connectorVars
<1>3. /\ Shift(FromManager, {}, {}) /\ Shift(Client, {}, {}) /\ Shift(ToManager, {}, {})
      /\ \A m \in Module : Shift(ToModule(m), {}, {}) /\ Shift(FromModule(m), {}, {})
  BY <1>1, <1>2, ShiftFromManager, ShiftClient, ShiftToManager, ShiftToModule, ShiftFromModule
  DEF InPlace, linkVars, moduleVars
<1>4. \A p \in AnyPlace : \A id \in Forward : Holds(p, id)' <=> Holds(p, id)
  BY <1>3, Places DEF Shift
<1>5. DataKept({})
  BY <1>1, <1>2, QuietData DEF InPlace, linkVars, moduleVars
<1> QED
  BY <1>1, <1>4, <1>5, QuietFate DEF linkVars

(* A module that registers and a Connector that is back are told the API. *)
LEMMA ArrivalsFate ==
  ASSUME TypeOK, GoneEmpty, InPlace, UnderWayKnown,
         ConnectorReconnects \/ \E m \in Module : ModuleRegisters(m)
  PROVE  Promised
<1>1. UNCHANGED <<requests, answers, mForwardedMessages, toManager, toModule, fromModule, failures>>
  BY DEF ConnectorReconnects, ModuleRegisters, connectorVars, moduleVars
<1>2. fromManager' = fromManager \/ \E api \in API : fromManager' = Append(fromManager, api)
  <2>1. \A active \in SUBSET Module : [methods |-> ActiveMethods(active)] \in API
    BY ForwardingConstants DEF API, ActiveMethods
  <2>2. mModuleAPIActive \subseteq Module
    BY DEF TypeOK
  <2>3. CASE ConnectorReconnects
    <3>1. fromManager = <<>> /\ fromManager' = <<[methods |-> ActiveMethods(mModuleAPIActive)]>>
      BY <2>3 DEF ConnectorReconnects, GoneEmpty
    <3> QED
      BY <2>1, <2>2, <3>1
  <2>4. ASSUME NEW m \in Module, ModuleRegisters(m)
        PROVE  fromManager' = fromManager \/ \E api \in API : fromManager' = Append(fromManager, api)
    BY <2>1, <2>2, <2>4 DEF ModuleRegisters, Registry
  <2> QED
    BY <2>3, <2>4
<1>3. /\ Shift(FromManager, {}, {}) /\ Shift(Client, {}, {}) /\ Shift(ToManager, {}, {})
      /\ \A m \in Module : Shift(ToModule(m), {}, {}) /\ Shift(FromModule(m), {}, {})
  BY <1>1, <1>2, ShiftFromManager, ShiftClient, ShiftToManager, ShiftToModule, ShiftFromModule
  DEF InPlace
<1>4. \A p \in AnyPlace : \A id \in Forward : Holds(p, id)' <=> Holds(p, id)
  BY <1>3, Places DEF Shift
<1>5. DataKept({})
  BY <1>1, <1>2, QuietData DEF InPlace
<1> QED
  BY <1>1, <1>4, <1>5, QuietFate

(***************************************************************************)
(* A module runs the method.                                               *)
(***************************************************************************)
LEMMA ModuleAnswersFate ==
  ASSUME TypeOK, InPlace, UnderWayKnown, NEW m \in Module, ModuleAnswers(m)
  PROVE  Promised
<1> PICK x : x = Head(toModule[m])
  OBVIOUS
<1>1. /\ toModule[m] # <<>>
      /\ UNCHANGED <<requests, answers, mForwardedMessages, fromManager, failures>>
  BY DEF ModuleAnswers, connectorVars, linkVars
<1>2. PICK message \in [id : {x}, status : {"successful"}, data : {TRUE}]
                 \cup [id : {x}, status : {"MethodExe"}, data : {FALSE}] :
             fromModule' = [fromModule EXCEPT ![m] = Append(@, message)]
  BY DEF ModuleAnswers
<1>3. Moved(x, ToModule(m), {FromModule(m)})
  BY ModuleAnswersPlaces
<1>4. x \in Forward
  BY <1>1, TailPositions DEF TypeOK
<1>5. message \in Relayed /\ message.id = x
  BY <1>4 DEF Relayed, Status
<1>6. ~Holds(FromModule(m), x)
  BY <1>3, <1>4, Members DEF InPlace, OnePlace, Moved
<1>7. DataKept({x})
  <2>1. \A id \in WsForward : id \in Forward
    BY DEF WsForward
  <2>2. /\ fromModule'[m] = Append(fromModule[m], message)
        /\ \A n \in Module : n # m => fromModule'[n] = fromModule[n]
    BY <1>2 DEF TypeOK
  <2>3. \A id \in WsForward \ {x} : Holds(FromModule(m), id)
          => (Good(FromModule(m), id)' <=> Good(FromModule(m), id))
    BY <1>5, <1>6, <2>1, <2>2, DataFromModule DEF InPlace
  <2>4. \A n \in Module : n # m => \A id \in WsForward : Good(FromModule(n), id)' <=> Good(FromModule(n), id)
    BY <2>1, <2>2, DataFromModule DEF InPlace
  <2>5. \A id \in WsForward : /\ Good(Client, id)' <=> Good(Client, id)
                              /\ Good(FromManager, id)' <=> Good(FromManager, id)
    BY <1>1, <2>1, DataClient, DataFromManager DEF InPlace
  <2> QED
    BY <2>3, <2>4, <2>5 DEF DataKept, AnswerPlace
<1> PICK to : to = {FromModule(m)}
  OBVIOUS
<1>8. /\ UnderWayKnown' /\ FateKept({x})
      /\ OnlyAt(ToModule(m), x) /\ OnlyAt(FromModule(m), x)'
  <2>1. FromModule(m) \in to
    OBVIOUS
  <2>2. Moved(x, ToModule(m), to)
    BY <1>3
  <2> QED
    BY <1>1, <1>4, <1>7, <2>1, <2>2, MovedFate
<1>9. CASE x \in WsForward
  <2>1. Fate(x) = "asked"
    BY <1>8, <1>9, FatesAt DEF Fates, AskPlace
  <2>2. Fate(x)' \in {"succeeded", "failed"}
    BY <1>8, <1>9, FatesAfter DEF AnswerPlace
  <2> QED
    BY <1>1, <1>8, <1>9, <2>1, <2>2, Count, OneFate DEF Promised
<1>10. CASE x \notin WsForward
  <2>1. FateKept({})
    BY <1>8, <1>10 DEF FateKept
  <2> QED
    BY <1>1, <1>8, <2>1, NothingMoves DEF Promised
<1> QED
  BY <1>9, <1>10

(***************************************************************************)
(* The service manager passes an answer on with the data it has, or drops  *)
(* it if the connection that asked is gone.                                *)
(***************************************************************************)
LEMMA RelayAnswerFate ==
  ASSUME TypeOK, InPlace, UnderWayKnown, NEW m \in Module, RelayAnswer(m)
  PROVE  Promised
<1> PICK message : message = Head(fromModule[m])
  OBVIOUS
<1> PICK x : x = message.id
  OBVIOUS
<1> PICK relayed : relayed = Relabelled(message)
  OBVIOUS
<1>1. /\ fromModule[m] # <<>> /\ fromModule' = [fromModule EXCEPT ![m] = Tail(@)]
      /\ UNCHANGED <<requests, answers, mForwardedMessages, connection, failures>>
  BY DEF RelayAnswer, connectorVars
<1>2. PICK entry \in managerForwarded :
        /\ fromManager' = IF StillThere(entry) THEN Append(fromManager, relayed) ELSE fromManager
        /\ Moved(x, FromModule(m), IF StillThere(entry) THEN {FromManager} ELSE {})
  BY RelayAnswerPlaces
<1> PICK to : to = IF StillThere(entry) THEN {FromManager} ELSE {}
  OBVIOUS
<1>3. message \in Relayed /\ x \in Forward
  <2>1. fromModule[m] \in Seq(Relayed)
    BY DEF TypeOK
  <2> QED
    BY <1>1, <2>1, TailPositions, Fields
<1>4. relayed \in Relayed /\ relayed.id = x /\ relayed.data = message.data
  BY <1>3 DEF Relayed, Status, Relabelled
<1>5. Holds(FromModule(m), x) /\ ~Holds(FromManager, x)
  BY <1>2, <1>3, Members, Places DEF InPlace, OnePlace, Moved
<1>6. \A id \in WsForward : id \in Forward
  BY DEF WsForward
<1>7. DataKept({x})
  <2>1. /\ fromModule'[m] = Tail(fromModule[m])
        /\ \A n \in Module : n # m => fromModule'[n] = fromModule[n]
    BY <1>1 DEF TypeOK
  <2>2. \A id \in WsForward : Holds(FromModule(m), id)'
          => (Good(FromModule(m), id)' <=> Good(FromModule(m), id))
    BY <1>1, <1>6, <2>1, DataFromModule DEF InPlace
  <2>3. \A n \in Module : n # m => \A id \in WsForward : Good(FromModule(n), id)' <=> Good(FromModule(n), id)
    BY <1>6, <2>1, DataFromModule DEF InPlace
  <2>4. \A id \in WsForward : Good(Client, id)' <=> Good(Client, id)
    BY <1>1, DataClient
  <2>5. \A id \in WsForward : Holds(FromManager, id) => (Good(FromManager, id)' <=> Good(FromManager, id))
    BY <1>2, <1>4, <1>5, <1>6, DataFromManager DEF InPlace
  <2> QED
    BY <2>2, <2>3, <2>4, <2>5 DEF DataKept, AnswerPlace
<1>8. /\ UnderWayKnown' /\ FateKept({x})
      /\ OnlyAt(FromModule(m), x) /\ x \in mForwardedMessages
      /\ \A p \in to : OnlyAt(p, x)'
      /\ to = {} => \A p \in AnyPlace : ~Holds(p, x)'
  BY <1>1, <1>2, <1>3, <1>7, MovedFate
<1>9. CASE x \in WsForward
  <2>1. Fate(x) = IF Good(FromModule(m), x) THEN "succeeded" ELSE "failed"
    BY <1>8, <1>9, FatesAt DEF Fates, AnswerPlace
  <2>2. CASE StillThere(entry)
    <3>1. OnlyAt(FromManager, x)'
      BY <1>8, <2>2
    <3>2. Fate(x)' = IF Good(FromManager, x)' THEN "succeeded" ELSE "failed"
      BY <1>9, <3>1, FatesAfter DEF AnswerPlace
    <3>3. Good(FromManager, x)' <=> Good(FromModule(m), x)
      <4>1. Good(FromModule(m), x) <=> message.data
        BY <1>1, DataFromModule DEF InPlace
      <4>2. Good(FromManager, x)' <=> relayed.data
        BY <1>2, <1>4, <1>5, <2>2, DataFromManager DEF InPlace
      <4> QED
        BY <1>4, <4>1, <4>2
    <3>4. Fate(x)' = Fate(x)
      BY <2>1, <3>2, <3>3
    <3> QED
      BY <1>1, <1>8, <1>9, <3>4, Count, OneFate DEF Promised
  <2>3. CASE ~StillThere(entry)
    <3>1. Fate(x)' = "lost"
      BY <1>1, <1>8, <1>9, <2>3, FatesAfter
    <3>2. failures # 0
      BY <2>3 DEF InPlace, EntriesFollow, StillThere
    <3>3. Fate(x) \in {"succeeded", "failed"}
      BY <2>1
    <3> QED
      BY <1>1, <1>8, <1>9, <3>1, <3>2, <3>3, Count, OneFate DEF Promised
  <2> QED
    BY <2>2, <2>3
<1>10. CASE x \notin WsForward
  <2>1. FateKept({})
    BY <1>8, <1>10 DEF FateKept
  <2> QED
    BY <1>1, <1>8, <2>1, NothingMoves DEF Promised
<1> QED
  BY <1>9, <1>10

(***************************************************************************)
(* The service manager refuses a request or passes it on to a module.      *)
(***************************************************************************)
LEMMA ForwardMessageFate ==
  ASSUME TypeOK, GoneEmpty, InPlace, UnderWayKnown, ForwardMessage
  PROVE  Promised
<1> PICK x : x = Head(toManager)
  OBVIOUS
<1>1. /\ toManager # <<>>
      /\ UNCHANGED <<requests, answers, mForwardedMessages, fromModule, failures>>
  BY DEF ForwardMessage, connectorVars
<1>2. x \in Forward
  BY <1>1, TailPositions DEF TypeOK
<1>3. \/ /\ \E status \in Status : Refused(x, status)
         /\ Moved(x, ToManager, {FromManager})
      \/ /\ ForwardedTo(x)
         /\ \E m \in Module : Moved(x, ToManager, {ToModule(m)})
  BY ForwardMessagePlaces
<1>4. ASSUME NEW to, Moved(x, ToManager, to), DataKept({x}), to # {},
             to \subseteq AskPlace \/ to \subseteq AnswerPlace
      PROVE  Promised
  <2>1. /\ UnderWayKnown' /\ FateKept({x}) /\ OnlyAt(ToManager, x)
        /\ \A p \in to : OnlyAt(p, x)'
    BY <1>1, <1>2, <1>4, MovedFate
  <2>2. CASE x \in WsForward
    <3>1. Fate(x) = "asked"
      BY <2>1, <2>2, FatesAt DEF Fates, AskPlace
    <3>2. Fate(x)' \in {"asked", "succeeded", "failed"}
      BY <1>4, <2>1, <2>2, FatesAfter
    <3> QED
      BY <1>1, <2>1, <2>2, <3>1, <3>2, Count, OneFate DEF Promised
  <2>3. CASE x \notin WsForward
    <3>1. FateKept({})
      BY <2>1, <2>3 DEF FateKept
    <3> QED
      BY <1>1, <2>1, <3>1, NothingMoves DEF Promised
  <2> QED
    BY <2>2, <2>3
<1>5. ASSUME NEW status \in Status, Refused(x, status), Moved(x, ToManager, {FromManager})
      PROVE  Promised
  <2> PICK message : message = [id |-> x, status |-> status, data |-> FALSE]
    OBVIOUS
  <2>1. message \in Relayed /\ message.id = x /\ fromManager' = Append(fromManager, message)
    BY <1>2, <1>5 DEF Relayed, Refused
  <2>2. ~Holds(FromManager, x)
    BY <1>2, <1>5, Members, Places DEF InPlace, OnePlace, Moved
  <2>3. \A id \in WsForward : id \in Forward
    BY DEF WsForward
  <2>4. \A id \in WsForward : Holds(FromManager, id) => (Good(FromManager, id)' <=> Good(FromManager, id))
    BY <2>1, <2>2, <2>3, DataFromManager DEF InPlace
  <2>5. \A id \in WsForward : Good(Client, id)' <=> Good(Client, id)
    BY <1>1, DataClient
  <2>6. \A m \in Module : \A id \in WsForward : Good(FromModule(m), id)' <=> Good(FromModule(m), id)
    BY <1>1, <2>3, DataFromModule DEF InPlace
  <2>7. DataKept({x})
    BY <2>4, <2>5, <2>6 DEF DataKept, AnswerPlace
  <2>8. {FromManager} \subseteq AnswerPlace
    BY DEF AnswerPlace
  <2> QED
    BY <1>4, <1>5, <2>7, <2>8
<1>6. ASSUME NEW m \in Module, ForwardedTo(x), Moved(x, ToManager, {ToModule(m)})
      PROVE  Promised
  <2>1. DataKept({x})
    <3>1. DataKept({})
      BY <1>1, <1>6, QuietData DEF InPlace, ForwardedTo
    <3> QED
      BY <3>1 DEF DataKept
  <2>2. {ToModule(m)} \subseteq AskPlace
    BY DEF AskPlace
  <2> QED
    BY <1>4, <1>6, <2>1, <2>2
<1> QED
  BY <1>3, <1>5, <1>6

(***************************************************************************)
(* The Connector hands the answer to the client, with the data it has.     *)
(***************************************************************************)
LEMMA ProcessResponseFate ==
  ASSUME TypeOK, InPlace, UnderWayKnown, fProcessResponse
  PROVE  Promised
<1> PICK message : message = Head(fromManager)
  OBVIOUS
<1>1. /\ fromManager # <<>> /\ fromManager' = Tail(fromManager)
      /\ UNCHANGED <<requests, toManager, toModule, fromModule, failures>>
      /\ \/ "id" \in DOMAIN message /\ RelayedToClient(message)
         \/ "methods" \in DOMAIN message /\ UNCHANGED <<mForwardedMessages, answers>>
  BY DEF fProcessResponse, moduleVars
<1>2. message \in Relayed \cup API
  BY <1>1, TailPositions DEF TypeOK
<1>3. \A id \in WsForward : id \in Forward
  BY DEF WsForward
<1>4. CASE message \in API
  <2>1. UNCHANGED <<mForwardedMessages, answers>>
    BY <1>1, <1>4, Fields
  <2>2. /\ Shift(FromManager, {}, {}) /\ Shift(Client, {}, {}) /\ Shift(ToManager, {}, {})
        /\ \A m \in Module : Shift(ToModule(m), {}, {}) /\ Shift(FromModule(m), {}, {})
    BY <1>1, <1>4, <2>1, ShiftFromManager, ShiftClient, ShiftToManager, ShiftToModule, ShiftFromModule
    DEF InPlace
  <2>3. \A p \in AnyPlace : \A id \in Forward : Holds(p, id)' <=> Holds(p, id)
    BY <2>2, Places DEF Shift
  <2>4. DataKept({})
    BY <1>1, <2>1, QuietData DEF InPlace
  <2> QED
    BY <1>1, <2>1, <2>3, <2>4, QuietFate
<1>5. CASE message \in Relayed
  <2> PICK x : x = message.id
    OBVIOUS
  <2> PICK a : a = Passed(message)
    OBVIOUS
  <2>1. x \in Forward /\ RelayedToClient(message)
    BY <1>1, <1>5, Fields
  <2>2. a \in Answer /\ a.about = x[1] /\ a.method = x[2] /\ a.data = message.data
    BY <1>5, <2>1 DEF Relayed, Answer, Forward, Status, Passed
  <2> DEFINE heard == x \in mForwardedMessages /\ x[1] \notin HttpRequest
  <2> PICK to : to = IF heard THEN {Client} ELSE {}
    OBVIOUS
  <2>3. Moved(x, FromManager, to)
    BY <1>5, ProcessResponsePlaces
  <2>4. /\ mForwardedMessages' \subseteq mForwardedMessages
        /\ mForwardedMessages \ mForwardedMessages' \subseteq {x}
    BY <2>1 DEF RelayedToClient, Forgotten
  <2>5. Holds(FromManager, x) /\ ~Holds(Client, x)
    BY <2>1, <2>3, Members, Places DEF InPlace, OnePlace, Moved
  <2>6. x \in WsForward <=> x[1] \notin HttpRequest
    BY <2>1, ForwardingConstants DEF WsForward, Forward, Request
  <2>7. /\ heard => answers' = [answers EXCEPT ![x[1]] = Append(@, a)]
        /\ ~heard => answers' = answers
    <3>1. IF x \in mForwardedMessages THEN fSendMessage(a) ELSE UNCHANGED answers
      BY <2>1 DEF RelayedToClient
    <3> QED
      BY <2>2, <3>1 DEF fSendMessage
  <2>8. DataKept({x})
    <3>1. \A id \in WsForward : Holds(FromManager, id)' => (Good(FromManager, id)' <=> Good(FromManager, id))
      BY <1>1, <1>3, DataFromManager DEF InPlace
    <3>2. \A m \in Module : \A id \in WsForward : Good(FromModule(m), id)' <=> Good(FromModule(m), id)
      BY <1>1, <1>3, DataFromModule DEF InPlace
    <3>3. \A id \in WsForward \ {x} : Good(Client, id)' <=> Good(Client, id)
      <4>1. CASE heard
        BY <2>2, <2>5, <2>6, <2>7, <4>1, DataClient
      <4>2. CASE ~heard
        BY <2>7, <4>2, DataClient
      <4> QED
        BY <4>1, <4>2
    <3> QED
      BY <3>1, <3>2, <3>3 DEF DataKept, AnswerPlace
  <2>9. to \cap Place = {}
    BY Places
  <2>10. /\ UnderWayKnown' /\ FateKept({x})
         /\ OnlyAt(FromManager, x) /\ x \in mForwardedMessages
         /\ \A p \in to : OnlyAt(p, x)'
    <3> HIDE DEF heard
    <3> QED
      BY <1>1, <2>1, <2>3, <2>4, <2>8, <2>9, MovedFate
  <2>11. CASE x \in WsForward
    <3>1. heard
      BY <2>6, <2>10, <2>11
    <3>2. Fate(x) = IF Good(FromManager, x) THEN "succeeded" ELSE "failed"
      BY <2>10, <2>11, FatesAt DEF Fates, AnswerPlace
    <3>3. Fate(x)' = IF Good(Client, x)' THEN "served" ELSE "refused"
      <4>1. OnlyAt(Client, x)'
        BY <2>10, <3>1
      <4> QED
        BY <2>11, <4>1, FatesAfter
    <3>4. Good(Client, x)' <=> Good(FromManager, x)
      <4>1. Good(FromManager, x) <=> message.data
        BY <1>1, <1>5, DataFromManager DEF InPlace
      <4>2. Good(Client, x)' <=> a.data
        BY <2>2, <2>5, <2>7, <2>11, <3>1, DataClient
      <4> QED
        BY <2>2, <4>1, <4>2
    <3>5. /\ Fate(x) \in {"succeeded", "failed"}
          /\ Fate(x)' = IF Fate(x) = "succeeded" THEN "served" ELSE "refused"
      BY <3>2, <3>3, <3>4
    <3> QED
      BY <1>1, <2>10, <2>11, <3>5, Count, OneFate DEF Promised
  <2>12. CASE x \notin WsForward
    <3>1. FateKept({})
      BY <2>10, <2>12 DEF FateKept
    <3> QED
      BY <1>1, <2>10, <3>1, NothingMoves DEF Promised
  <2> QED
    BY <2>11, <2>12
<1> QED
  BY <1>2, <1>4, <1>5

(***************************************************************************)
(* A connection that fails takes with it what is on its way over it.       *)
(***************************************************************************)
LEMMA Losing ==
  ASSUME TypeOK, InPlace, UnderWayKnown, NEW gone \in SUBSET Place, DataKept({}),
         \A id \in Forward : \A p \in AnyPlace : Holds(p, id)' <=> Holds(p, id) /\ p \notin gone,
         mForwardedMessages' = mForwardedMessages, failures' \in Nat \ {0}
  PROVE  Promised
<1>1. UnderWayKnown'
  BY Members DEF UnderWayKnown
<1> PICK ids : ids = {id \in WsForward : \E p \in gone : Holds(p, id)}
  OBVIOUS
<1>2. gone \subseteq AnyPlace /\ gone \subseteq AskPlace \cup AnswerPlace
      /\ \A id \in WsForward : id \in Forward
  BY Places DEF AskPlace, AnswerPlace, WsForward
<1>3. FateKept(ids)
  <2>1. \A id \in WsForward \ ids : \A p \in AnyPlace : Holds(p, id)' <=> Holds(p, id)
    BY <1>2
  <2>2. DataKept(ids)
    BY DEF DataKept
  <2> QED
    BY <2>1, <2>2, Staying DEF InPlace
<1>4. ASSUME NEW id \in ids
      PROVE  Fate(id) \in {"asked", "succeeded", "failed"} /\ Fate(id)' = "lost"
  <2>1. PICK p \in gone : Holds(p, id)
    OBVIOUS
  <2>2. id \in WsForward /\ id \in Forward /\ OnlyAt(p, id) /\ id \in mForwardedMessages
    BY <1>2, <2>1 DEF OnlyAt, InPlace, OnePlace, UnderWayKnown
  <2>3. \A q \in AnyPlace : ~Holds(q, id)'
    BY <2>2 DEF OnlyAt
  <2>4. Fate(id)' = "lost"
    BY <2>2, <2>3, FatesAfter
  <2>5. Fate(id) \in {"asked", "succeeded", "failed"}
    <3>1. CASE p \in AskPlace
      BY <2>2, <3>1, FatesAt DEF Fates
    <3>2. CASE p \in AnswerPlace
      BY <2>2, <3>2, FatesAt DEF Fates
    <3> QED
      BY <1>2, <3>1, <3>2
  <2> QED
    BY <2>4, <2>5
<1>5. Promise!Next
  <2>1. ids \in SUBSET WsForward
    OBVIOUS
  <2> QED
    BY <1>3, <1>4, <2>1, LostFate
<1> QED
  BY <1>1, <1>5 DEF Promised

(* With a module, what it was asked and what it answered. *)
LEMMA ModuleDisconnectsFate ==
  ASSUME TypeOK, InPlace, UnderWayKnown, NEW m \in Module, ModuleDisconnects(m)
  PROVE  Promised
<1>1. /\ UNCHANGED <<answers, mForwardedMessages, toManager>>
      /\ failures' \in Nat \ {0}
      /\ toModule'[m] = <<>> /\ fromModule'[m] = <<>>
      /\ \A n \in Module : n # m => toModule'[n] = toModule[n] /\ fromModule'[n] = fromModule[n]
  BY Count DEF ModuleDisconnects, connectorVars, TypeOK
<1>2. PICK api \in API : fromManager' = fromManager \/ fromManager' = Append(fromManager, api)
  <2>1. [methods |-> ActiveMethods(mModuleAPIActive \ {m})] \in API
    BY ForwardingConstants DEF API, ActiveMethods, TypeOK
  <2> QED
    BY <2>1 DEF ModuleDisconnects, Registry
<1>3. Shift(FromManager, {}, {}) /\ Shift(Client, {}, {}) /\ Shift(ToManager, {}, {})
  BY <1>1, <1>2, ShiftFromManager, ShiftClient, ShiftToManager DEF InPlace
<1>4. /\ Shift(ToModule(m), Forward, {}) /\ Shift(FromModule(m), Forward, {})
      /\ \A n \in Module : n # m => Shift(ToModule(n), {}, {}) /\ Shift(FromModule(n), {}, {})
  BY <1>1, ShiftToModule, ShiftFromModule DEF InPlace
<1> PICK gone : gone = {ToModule(m), FromModule(m)}
  OBVIOUS
<1>5. \A id \in Forward : \A p \in AnyPlace : Holds(p, id)' <=> Holds(p, id) /\ p \notin gone
  BY <1>3, <1>4, Places DEF Shift
<1>6. DataKept({})
  <2>1. \A id \in WsForward : id \in Forward /\ FromModule(m) \in AnyPlace /\ FromModule(m) \in gone
    BY Members DEF WsForward
  <2>2. \A id \in WsForward : ~Holds(FromModule(m), id)'
    BY <1>4, <2>1 DEF Shift
  <2>3. \A n \in Module : n # m => \A id \in WsForward : Good(FromModule(n), id)' <=> Good(FromModule(n), id)
    BY <1>1, <2>1, DataFromModule DEF InPlace
  <2>4. \A id \in WsForward : Good(Client, id)' <=> Good(Client, id)
    BY <1>1, DataClient
  <2>5. \A id \in WsForward : Holds(FromManager, id) => (Good(FromManager, id)' <=> Good(FromManager, id))
    <3>1. api \in Relayed \cup API /\ api \notin Relayed
      BY Fields
    <3> QED
      BY <1>2, <2>1, <3>1, DataFromManager DEF InPlace
  <2> QED
    BY <2>2, <2>3, <2>4, <2>5 DEF DataKept, AnswerPlace
<1>7. gone \in SUBSET Place
  BY Members
<1> QED
  BY <1>1, <1>5, <1>6, <1>7, Losing

(* With the Connector's connection, what is between it and the manager. *)
LEMMA ConnectorDisconnectsFate ==
  ASSUME TypeOK, InPlace, UnderWayKnown, ConnectorDisconnects
  PROVE  Promised
<1>1. /\ UNCHANGED <<answers, mForwardedMessages, toModule, fromModule>>
      /\ failures' \in Nat \ {0}
      /\ toManager' = <<>> /\ fromManager' = <<>>
  BY Count DEF ConnectorDisconnects, connectorVars, moduleVars
<1>2. /\ Shift(FromManager, Forward, {}) /\ Shift(ToManager, Forward, {})
      /\ Shift(Client, {}, {})
      /\ \A m \in Module : Shift(ToModule(m), {}, {}) /\ Shift(FromModule(m), {}, {})
  BY <1>1, ShiftFromManager, ShiftClient, ShiftToManager, ShiftToModule, ShiftFromModule
  DEF InPlace
<1> PICK gone : gone = {ToManager, FromManager}
  OBVIOUS
<1>3. \A id \in Forward : \A p \in AnyPlace : Holds(p, id)' <=> Holds(p, id) /\ p \notin gone
  BY <1>2, Places DEF Shift
<1>4. DataKept({})
  <2>1. \A id \in WsForward : id \in Forward
    BY DEF WsForward
  <2>2. \A id \in WsForward : ~Holds(FromManager, id)'
    BY <1>2, <2>1 DEF Shift
  <2>3. \A m \in Module : \A id \in WsForward : Good(FromModule(m), id)' <=> Good(FromModule(m), id)
    BY <1>1, <2>1, DataFromModule DEF InPlace
  <2>4. \A id \in WsForward : Good(Client, id)' <=> Good(Client, id)
    BY <1>1, DataClient
  <2> QED
    BY <2>2, <2>3, <2>4 DEF DataKept, AnswerPlace
<1>5. gone \in SUBSET Place
  BY Members
<1> QED
  BY <1>1, <1>3, <1>4, <1>5, Losing

(* The methods of a request are forwarded, or answered with a refusal. *)
Begun(r, forwarded, told) ==
  /\ \A id \in forwarded \cup told : id[1] = r
  /\ forwarded \cap told = {}
  /\ mForwardedMessages' = mForwardedMessages \cup forwarded
  /\ \A id \in Forward : id[1] = r =>
       id \notin mForwardedMessages /\ \A p \in AnyPlace : ~Holds(p, id)
  /\ \A id \in Forward : \A p \in AnyPlace :
       Holds(p, id)' <=> \/ Holds(p, id)
                         \/ p = ToManager /\ connection # None /\ id \in forwarded
                         \/ p = Client /\ id \in told
  /\ UNCHANGED <<failures, fromManager, fromModule>>

(***************************************************************************)
(* A request that is made puts its methods where they begin their way.     *)
(***************************************************************************)
LEMMA Beginning ==
  ASSUME TypeOK, InPlace, UnderWayKnown, NEW r \in Request,
         NEW q, NEW forwarded \in SUBSET Forward, NEW told \in SUBSET Forward,
         Made(r, q, forwarded, told)
  PROVE  UnderWayKnown' /\ Begun(r, forwarded, told)
<1>1. /\ requests[r] = None
      /\ \A id \in forwarded \cup told : id[1] = r
      /\ forwarded \cap told = {}
      /\ mForwardedMessages' = mForwardedMessages \cup forwarded
      /\ UNCHANGED <<failures, fromManager, fromModule, toModule>>
  BY DEF Made
<1>2. /\ Shift(FromManager, {}, {}) /\ Shift(Client, {}, told)
      /\ connection = None => Shift(ToManager, {}, {})
      /\ connection # None => Shift(ToManager, {}, forwarded)
      /\ \A m \in Module : Shift(ToModule(m), {}, {}) /\ Shift(FromModule(m), {}, {})
  BY <1>1, ShiftFromManager, ShiftToModule, ShiftFromModule DEF Made, InPlace
<1>3. ASSUME NEW id \in Forward, NEW p \in AnyPlace
      PROVE  Holds(p, id)' <=> \/ Holds(p, id)
                               \/ p = ToManager /\ connection # None /\ id \in forwarded
                               \/ p = Client /\ id \in told
  BY <1>2, Places DEF Shift
<1>4. \A id \in Forward : id[1] = r =>
        id \notin mForwardedMessages /\ \A p \in AnyPlace : ~Holds(p, id)
  BY <1>1 DEF InPlace, UnmadeNowhere
<1>5. UnderWayKnown'
  BY <1>1, <1>3, Members, Places DEF UnderWayKnown
<1> QED
  BY <1>1, <1>3, <1>4, <1>5 DEF Begun

(* An HTTP request is none of theirs. *)
LEMMA RouteFate ==
  ASSUME TypeOK, InPlace, UnderWayKnown, NEW r \in HttpRequest, NEW q \in Queries[r], Route(r, q)
  PROVE  Promised
<1>1. PICK forwarded \in SUBSET Forward : Made(r, q, forwarded, {})
  BY RoutePlaces
<1>2. r \in Request /\ \A id \in WsForward : id \in Forward /\ id[1] # r
  BY ForwardingConstants DEF Request, WsForward
<1>3. /\ UnderWayKnown'
      /\ \A id \in forwarded : id[1] = r
      /\ mForwardedMessages' = mForwardedMessages \cup forwarded
      /\ \A id \in WsForward : \A p \in AnyPlace : Holds(p, id)' <=> Holds(p, id)
      /\ UNCHANGED <<failures, fromManager, fromModule>>
  <2> PICK told \in SUBSET Forward : told = {}
    OBVIOUS
  <2>1. Made(r, q, forwarded, told)
    BY <1>1
  <2>2. UnderWayKnown' /\ Begun(r, forwarded, told)
    BY <1>2, <2>1, Beginning
  <2> QED
    BY <1>2, <2>2 DEF Begun
<1>4. DataKept({})
  <2>1. UNCHANGED answers \/ \E list : answers' = [answers EXCEPT ![r] = list]
    BY DEF Route
  <2> QED
    BY <1>3, <2>1, QuietData DEF InPlace
<1>5. FateKept({})
  BY <1>2, <1>3, <1>4, Staying DEF InPlace
<1> QED
  BY <1>3, <1>5, NothingMoves DEF Promised

(* A WebSocket request asks for all its methods at once. *)
LEMMA ProcessRequestFate ==
  ASSUME TypeOK, InPlace, UnderWayKnown, NEW r \in WsRequest, NEW q \in Queries[r],
         fProcessRequest(r, q)
  PROVE  Promised
<1>1. PICK forwarded, told \in SUBSET Forward :
        /\ Made(r, q, forwarded, told)
        /\ answers' = [answers EXCEPT ![r] = SetToSeq(LocalAnswers(r, q))]
  BY ProcessRequestPlaces
<1>2. r \in Request /\ \A id \in Forward : id[1] = r => id \in WsForward
  BY DEF Request, WsForward
<1>3. /\ UnderWayKnown'
      /\ \A id \in forwarded \cup told : id[1] = r /\ id \in WsForward
      /\ forwarded \cap told = {}
      /\ mForwardedMessages' = mForwardedMessages \cup forwarded
      /\ \A id \in Forward : id[1] = r =>
           id \notin mForwardedMessages /\ \A p \in AnyPlace : ~Holds(p, id)
      /\ \A id \in Forward : \A p \in AnyPlace :
           Holds(p, id)' <=> \/ Holds(p, id)
                             \/ p = ToManager /\ connection # None /\ id \in forwarded
                             \/ p = Client /\ id \in told
      /\ UNCHANGED <<failures, fromManager, fromModule>>
  <2>1. UnderWayKnown' /\ Begun(r, forwarded, told)
    BY <1>1, <1>2, Beginning
  <2> QED
    BY <1>2, <2>1 DEF Begun
<1> PICK new : new = forwarded \cup told
  OBVIOUS
<1>4. \A id \in WsForward : id \in Forward
  BY DEF WsForward
<1>5. FateKept(new)
  <2>1. \A id \in WsForward \ new :
          /\ \A p \in AnyPlace : Holds(p, id)' <=> Holds(p, id)
          /\ id \in mForwardedMessages' <=> id \in mForwardedMessages
    BY <1>3, <1>4
  <2>2. DataKept(new)
    <3>1. \A id \in WsForward : id[1] # r => (Good(Client, id)' <=> Good(Client, id))
      BY <1>1, DataClient
    <3>2. \A id \in WsForward : id[1] = r => ~Holds(Client, id)
      BY <1>3, <1>4, Members
    <3>3. /\ \A id \in WsForward : Good(FromManager, id)' <=> Good(FromManager, id)
          /\ \A m \in Module : \A id \in WsForward : Good(FromModule(m), id)' <=> Good(FromModule(m), id)
      BY <1>3, <1>4, DataFromManager, DataFromModule DEF InPlace
    <3> QED
      BY <3>1, <3>2, <3>3 DEF DataKept, AnswerPlace
  <2> QED
    BY <2>1, <2>2, Staying DEF InPlace
<1>6. \A id \in new : Fate(id) = "unasked"
  BY <1>3, <1>4, FatesAt DEF Fates
<1>7. \A id \in told : Fate(id)' = "refused"
  <2>1. \A id \in told : OnlyAt(Client, id)'
    BY <1>3, <1>4, Members, Places DEF OnlyAt
  <2>2. \A id \in told : ~Good(Client, id)'
    BY <1>1, <1>3, DataClient
  <2> QED
    BY <1>3, <2>1, <2>2, FatesAfter
<1> PICK outcome : outcome = IF connection = None THEN "lost" ELSE "asked"
  OBVIOUS
<1>8. \A id \in forwarded : Fate(id)' = outcome
  <2>1. CASE connection = None
    <3>1. \A id \in forwarded : \A p \in AnyPlace : ~Holds(p, id)'
      BY <1>3, <1>4, <2>1
    <3> QED
      BY <1>3, <2>1, <3>1, FatesAfter
  <2>2. CASE connection # None
    <3>1. \A id \in forwarded : OnlyAt(ToManager, id)'
      BY <1>3, <1>4, <2>2, Members DEF OnlyAt
    <3>2. ToManager \in AskPlace
      BY DEF AskPlace
    <3> QED
      BY <1>3, <2>2, <3>1, <3>2, FatesAfter
  <2> QED
    BY <2>1, <2>2
<1>9. outcome = "asked" \/ (outcome = "lost" /\ failures > 0)
  <2>1. connection = None => failures # 0
    BY ForwardingConstants DEF InPlace, EntriesFollow
  <2> QED
    BY <2>1, Count
<1>10. Promise!Ask(told, forwarded, outcome)
  <2> DEFINE F == [id \in WsForward |-> Fate(id)]
  <2>1. WsForward' = WsForward
    BY DEF WsForward
  <2>2. F' = [id \in WsForward |-> IF id \in told THEN "refused"
                                   ELSE IF id \in forwarded THEN outcome ELSE F[id]]
    BY <1>5, <1>7, <1>8, <2>1 DEF FateKept
  <2>3. \A id \in told \cup forwarded : F[id] = "unasked"
    BY <1>3, <1>6
  <2>4. (failures > 0)' = (failures > 0)
    BY <1>3
  <2> QED
    BY <1>9, <2>2, <2>3, <2>4 DEF Promise!Ask
<1>11. Promise!Next
  <2>1. /\ \A id \in told \cup forwarded : id \in WsForward
        /\ \A id \in told \cup forwarded : [x \in WsForward |-> Fate(x)][id] = "unasked"
    BY <1>3, <1>6
  <2>2. /\ told \in SUBSET {id \in WsForward : [x \in WsForward |-> Fate(x)][id] = "unasked"}
        /\ forwarded \in SUBSET {id \in WsForward : [x \in WsForward |-> Fate(x)][id] = "unasked"}
        /\ outcome \in {"asked", "lost"}
    BY <2>1
  <2> QED
    BY <1>10, <2>2 DEF Promise!Next
<1> QED
  BY <1>3, <1>11 DEF Promised

(***************************************************************************)
(* Every step keeps the promise.                                           *)
(***************************************************************************)
LEMMA NextPromised == TypeOK /\ GoneEmpty /\ InPlace /\ UnderWayKnown /\ [Next]_vars => Promised
BY RoutesFate, ArrivalsFate, ModuleAnswersFate, RelayAnswerFate, ForwardMessageFate,
   ProcessResponseFate, ModuleDisconnectsFate, ConnectorDisconnectsFate, RouteFate,
   ProcessRequestFate
DEF Next

(* At the start nothing is asked. *)
LEMMA InitPromised == Init => UnderWayKnown /\ Promise!Init
<1> SUFFICES ASSUME Init
             PROVE  UnderWayKnown /\ Promise!Init
  OBVIOUS
<1>1. IInv
  BY InitIInv
<1>2. \A id \in Forward : id \notin mForwardedMessages /\ \A p \in AnyPlace : ~Holds(p, id)
  BY <1>1 DEF Init, IInv, UnmadeNowhere, Forward
<1>3. UnderWayKnown
  BY <1>2, Members DEF UnderWayKnown
<1>4. \A id \in WsForward : Fate(id) = "unasked"
  BY <1>2, FatesAt DEF Fates, WsForward
<1>5. (failures > 0) = FALSE
  BY DEF Init
<1> QED
  BY <1>3, <1>4, <1>5 DEF Promise!Init

(***************************************************************************)
(* What is under way is in mForwardedMessages of the Connector: an entry   *)
(* goes only when its answer does, so no answer comes back unknown.        *)
(***************************************************************************)
THEOREM AnswersKnown == Spec => []UnderWayKnown
<1>1. IInv /\ UnderWayKnown /\ [Next]_vars => UnderWayKnown'
  BY NextPromised DEF IInv, InPlace, Promised
<1> QED
  BY InitPromised, Invariance, <1>1, PTL DEF Spec

(***************************************************************************)
(* To WebSocket clients the three processes are Forwarding: whatever       *)
(* fails, a method they ask for runs once at most, is answered once at     *)
(* most and with data only if it ran well, and is lost only if a           *)
(* connection was.                                                         *)
(***************************************************************************)
THEOREM PromiseKept == Spec => ImplementsForwarding
<1>1. IInv /\ UnderWayKnown /\ [Next]_vars => [Promise!Next]_(Promise!vars)
  BY NextPromised DEF IInv, InPlace, Promised
<1> QED
  BY InitPromised, Invariance, AnswersKnown, <1>1, PTL DEF Spec, ImplementsForwarding, Promise!Spec

(***************************************************************************)
(* What Forwarding promises, whoever keeps it: unless a connection was     *)
(* lost, no method that was asked for is lost.                             *)
(***************************************************************************)
THEOREM NothingLostAlone ==
  Promise!Spec => [](failures > 0 \/ \A id \in WsForward : Fate(id) # "lost")
<1> DEFINE F == [id \in WsForward |-> Fate(id)]
           Inv == (failures > 0) = TRUE \/ \A id \in WsForward : F[id] # "lost"
<1>1. WsForward' = WsForward
  BY DEF WsForward
<1>2. Promise!Init => Inv
  BY DEF Promise!Init
<1>3. Inv /\ [Promise!Next]_(Promise!vars) => Inv'
  <2> SUFFICES ASSUME Inv, [Promise!Next]_(Promise!vars)
               PROVE  Inv'
    OBVIOUS
  <2>1. CASE UNCHANGED Promise!vars
    BY <1>1, <2>1 DEF Promise!vars
  <2>2. ASSUME NEW refused \in SUBSET WsForward, NEW asked \in SUBSET WsForward, NEW outcome,
               Promise!Ask(refused, asked, outcome)
        PROVE  Inv'
    BY <1>1, <2>2 DEF Promise!Ask
  <2>3. ASSUME NEW x \in WsForward, NEW outcome \in {"succeeded", "failed"}, Promise!Run(x, outcome)
        PROVE  Inv'
    BY <1>1, <2>3 DEF Promise!Run
  <2>4. ASSUME NEW x \in WsForward, Promise!Answer(x)
        PROVE  Inv'
    BY <1>1, <2>4 DEF Promise!Answer
  <2>5. ASSUME NEW ids \in SUBSET WsForward, Promise!Lose(ids)
        PROVE  Inv'
    BY <2>5 DEF Promise!Lose
  <2> QED
    BY <2>1, <2>2, <2>3, <2>4, <2>5 DEF Promise!Next
<1>4. Inv => failures > 0 \/ \A id \in WsForward : Fate(id) # "lost"
  OBVIOUS
<1> QED
  BY <1>2, <1>3, <1>4, PTL DEF Promise!Spec
=============================================================================
