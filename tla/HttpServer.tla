----------------------------- MODULE HttpServer -----------------------------
(***************************************************************************)
(* One connection of the HTTP server: what a client sends arrives in       *)
(* fragments; QAbstractHttpServer passes each to http_parser, whose        *)
(* callbacks build a QHttpServerRequest, and hands a complete request to   *)
(* the first rule of the router that matches, or answers 404.              *)
(*                                                                         *)
(* The handler of a rule is atomic here; that of the Connector waits in an *)
(* event loop of its own, which is the subject of MessageForwarding.       *)
(* Headers are kept by name: the code keeps them by a hash of the name.    *)
(***************************************************************************)
EXTENDS HttpParser, FiniteSets

CONSTANTS
  Conversations,  \* what a client may send: sequences of messages
  Rules,          \* of the router: sequence of [methods, path]
  Reservable,     \* the largest body that is sure to find memory
  MaxFragments,   \* bound: fragments that arrive
  None            \* the request object is deleted

VARIABLES
  conversation,   \* what the client sends
  input,          \* the same as text
  arrived,        \* how many symbols of it have arrived
  parser,         \* httpParser
  request,        \* the QHttpServerRequest of the connection
  socket,         \* "open", "deaf" (no signal reaches the server), "closed"
  answers,        \* responses, each with the request the rule saw
  fragments,      \* fragments that have arrived
  notified,       \* the parser's callbacks, adjacent pieces of a datum joined
  cut,            \* a fragment ended in a URL or a header (history)
  mixed           \* a fragment had the end of a message and more (history)

vars == <<conversation, input, arrived, parser, request, socket, answers, fragments,
          notified, cut, mixed>>

-----------------------------------------------------------------------------
(* What a client sends.  A message has a method, a URL, the minor version  *)
(* of HTTP, headers, and a body in pieces that is sent as one, with its    *)
(* length, or piece by piece, or not at all; it may be raw text instead,   *)
(* malformed or only strange.                                              *)

MethodText ==
  [GET |-> <<"G", "ET">>, POST |-> <<"P", "OST">>, PUT |-> <<"P", "UT">>,
   CONNECT |-> <<"C", "ONNECT">>, SOURCE |-> <<"S", "OURCE">>]

Digit(n) == CHOOSE d \in Num : Number[d] = n

Joined(pieces) ==
  LET upTo[i \in 0 .. Len(pieces)] == IF i = 0 THEN <<>> ELSE upTo[i - 1] \o pieces[i]
  IN  upTo[Len(pieces)]

Line(text) == text \o <<"CR", "LF">>

UrlText(url) ==
  (IF url.host = <<>> THEN <<>>
   ELSE url.schema \o <<":", "/", "/">>
          \o (IF url.userinfo = <<>> THEN <<>> ELSE Append(url.userinfo, "@"))
          \o url.host \o (IF url.port = <<>> THEN <<>> ELSE <<":">> \o url.port))
  \o url.path
  \o (IF url.query = <<>> THEN <<>> ELSE <<"?">> \o url.query)
  \o (IF url.fragment = <<>> THEN <<>> ELSE <<"#">> \o url.fragment)

AllHeaders(m) ==
  m.headers \o
    CASE m.coding = "length"  -> <<[name |-> <<"con", "tent-length">>,
                                    value |-> <<Digit(Len(Joined(m.body)))>>]>>
      [] m.coding = "chunked" -> <<[name |-> <<"transfer-", "encoding">>,
                                    value |-> <<"chu", "nked">>]>>
      [] m.coding = "none"    -> <<>>

BodyText(m) ==
  CASE m.coding = "length"  -> Joined(m.body)
    [] m.coding = "chunked" ->
         Joined([i \in DOMAIN m.body |-> Line(<<Digit(Len(m.body[i]))>>) \o Line(m.body[i])])
           \o Line(<<"0">>) \o Line(<<>>)
    [] m.coding = "none"    -> <<>>

Text(m) ==
  IF "raw" \in DOMAIN m THEN m.raw
  ELSE Line(MethodText[m.method] \o <<"SP">> \o UrlText(m.url)
              \o <<"SP", "HT", "TP", "/", "1", ".", m.minor>>)
       \o Joined([i \in DOMAIN AllHeaders(m) |->
                    Line(AllHeaders(m)[i].name \o <<":", "SP">> \o AllHeaders(m)[i].value)])
       \o Line(<<>>) \o BodyText(m)

TextOf(messages) == Joined([i \in DOMAIN messages |-> Text(messages[i])])

ASSUME ServerConstants ==
  /\ \A c \in Conversations : TextOf(c) \in Seq(Symbol)
  /\ MaxFragments \in Nat
  /\ Reservable \in Nat

EndOf(i) == Len(TextOf(SubSeq(conversation, 1, i)))

-----------------------------------------------------------------------------
(* QHttpServerRequest *)

NoPort == 65536
EmptyUrl == [EmptyFields EXCEPT !.port = NoPort]

(* http_parser_init and the constructor. *)
NewRequest ==
  [state |-> "NotStarted", url |-> EmptyUrl, lastHeader |-> <<>>,
   headers |-> [n \in {} |-> <<>>], body |-> <<>>]

(* Mutated form: the body is forgotten to be cleared. *)
ClearedButBody(r) ==
  [r EXCEPT !.url = EmptyUrl, !.lastHeader = <<>>, !.headers = [n \in {} |-> <<>>]]

Clear(r) == [ClearedButBody(r) EXCEPT !.body = <<>>]

(* A URL that cannot be parsed leaves everything as it is. *)
parseUrl(text, connect, url) ==
  LET u == http_parser_parse_url(text, connect)
  IN  IF u.failed THEN url
      ELSE [f \in DOMAIN url |->
              CASE u.fields[f] = <<>> -> url[f]
                [] u.fields[f] # <<>> /\ f = "port" -> PortValue(u.fields[f])
                [] OTHER -> u.fields[f]]

onUrl(r, text) == [r EXCEPT !.state = "OnUrl", !.url = parseUrl(text, FALSE, @)]

onHeaderField(r, key) ==
  [r EXCEPT !.state = "OnHeaders", !.headers = (key :> <<>>) @@ @, !.lastHeader = key]

(* As built for release: a debug build also forgets lastHeader, and        *)
(* asserts that there is one, which the second piece of a value violates.  *)
onHeaderValue(r, value) ==
  [r EXCEPT !.state = "OnHeaders",
            !.headers = (r.lastHeader :> value) @@ @,
            !.url = IF r.lastHeader = <<"ho", "st">> THEN parseUrl(value, TRUE, @) ELSE @]

onBody(r, text) == [r EXCEPT !.state = "OnBody", !.body = @ \o text]

(***************************************************************************)
(* With its first piece onBody reserves room for the whole body, as long   *)
(* as the client says it is, and the piece once more.  The length is cast  *)
(* to int: one that is too large wraps, and what is then reserved is       *)
(* enough, or negative or huge, which ends the server.  Only a piece that  *)
(* the fragment ends in comes while there is more to come.                 *)
(***************************************************************************)
Unreservable(callbacks, content_length, body) ==
  LET n == Len(callbacks) IN
    /\ n > 0 /\ callbacks[n].on = "body" /\ callbacks[n].data = body
    /\ content_length + Len(body) > Reservable

(* The callbacks that only set the state. *)
NotifiedState ==
  [message_begin |-> "OnMessageBegin", headers_complete |-> "OnHeadersComplete",
   message_complete |-> "OnMessageComplete", chunk_header |-> "OnChunkHeader",
   chunk_complete |-> "OnChunkComplete"]

RequestState ==
  {"NotStarted", "OnUrl", "OnHeaders", "OnBody"}
    \cup {NotifiedState[k] : k \in DOMAIN NotifiedState}

Callback(r, c) ==
  CASE c.on = "url"          -> onUrl(r, c.data)
    [] c.on = "header_field" -> onHeaderField(r, c.data)
    [] c.on = "header_value" -> onHeaderValue(r, c.data)
    [] c.on = "body"         -> onBody(r, c.data)
    [] OTHER                 -> [r EXCEPT !.state = NotifiedState[c.on]]

Callbacks(r, callbacks) ==
  LET after[i \in 0 .. Len(callbacks)] ==
        IF i = 0 THEN r ELSE Callback(after[i - 1], callbacks[i])
  IN  after[Len(callbacks)]

(* QHttpServerRequest::method: none of those it knows is Unknown. *)
method(m) == IF m \in {"GET", "POST", "PUT"} THEN m ELSE "Unknown"

-----------------------------------------------------------------------------
(* The router *)

matches(rule, m, r) == method(m) \in rule.methods /\ r.url.path = rule.path

(* What the rule gets to see, and the status of what is sent back. *)
handleRequest(m, r) ==
  [status |-> IF \E i \in DOMAIN Rules : matches(Rules[i], m, r) THEN 200 ELSE 404,
   method |-> m, url |-> r.url, headers |-> r.headers, body |-> r.body]

-----------------------------------------------------------------------------
(* QAbstractHttpServer *)

(* A new connection; its socket's signals are connected to the server. *)
Init ==
  /\ conversation \in Conversations
  /\ input = TextOf(conversation)
  /\ arrived = 0
  /\ parser = http_parser_init
  /\ request = NewRequest
  /\ socket = "open"
  /\ answers = <<>>
  /\ fragments = 0
  /\ notified = <<>>
  /\ cut = FALSE
  /\ mixed = FALSE

(* Joins pieces of a datum; pieces without a symbol say nothing. *)
Join(callbacks, c) ==
  LET n == Len(callbacks) IN
  CASE c.on \in Data /\ c.data = <<>> -> callbacks
    [] c.on \in Data /\ c.data # <<>> /\ n > 0 /\ callbacks[n].on = c.on ->
         [callbacks EXCEPT ![n].data = @ \o c.data]
    [] OTHER -> Append(callbacks, c)

JoinAll(before, callbacks) ==
  LET joined[i \in 0 .. Len(callbacks)] ==
        IF i = 0 THEN before ELSE Join(joined[i - 1], callbacks[i])
  IN  joined[Len(callbacks)]

(***************************************************************************)
(* handleReadyRead.  After a parse error "socket->disconnect()" cuts the   *)
(* socket's signals instead of its connection.  An upgrade is never        *)
(* supported: the connection is closed, and the warning about it reads     *)
(* past the end of the headers if none of them is Upgrade.  The callbacks  *)
(* may end the server too.                                                 *)
(***************************************************************************)
handleReadyRead(data) ==
  \E out \in {http_parser_execute(parser, data)} :
  \E r \in {Callbacks([(IF request.state = "OnMessageComplete" THEN Clear(request) ELSE request)
                         EXCEPT !.url.schema = <<"http">>], out.callbacks)} :
    /\ parser' = out.parser
    /\ request' = r
    /\ notified' = JoinAll(notified, out.callbacks)
    /\ cut' = (cut \/ out.parser.state \in UrlStates \cup {"header_field", "header_value"})
    /\ \/ ~out.complete /\ socket' = "deaf" /\ UNCHANGED answers
       \/ /\ out.complete /\ out.parser.upgrade
          /\ socket' \in {"closed"} \cup
               IF <<"up", "grade">> \in DOMAIN r.headers THEN {} ELSE {"crashed"}
          /\ UNCHANGED answers
       \/ /\ out.complete /\ ~out.parser.upgrade /\ r.state = "OnMessageComplete"
          /\ answers' = Append(answers, handleRequest(out.parser.method, r))
          /\ UNCHANGED socket
       \/ /\ out.complete /\ ~out.parser.upgrade /\ r.state # "OnMessageComplete"
          /\ UNCHANGED <<socket, answers>>
       \/ /\ Unreservable(out.callbacks, out.parser.content_length, r.body)
          /\ socket' = "crashed"
          /\ UNCHANGED answers

(* Nothing is read from a socket whose signals are cut. *)
ReadyRead(n) ==
  /\ socket = "open"
  /\ fragments < MaxFragments
  /\ n <= Len(input) - arrived
  /\ fragments' = fragments + 1
  /\ arrived' = arrived + n
  /\ handleReadyRead(SubSeq(input, arrived + 1, arrived + n))
  /\ mixed' = (mixed \/ \E i \in DOMAIN conversation :
                          arrived < EndOf(i) /\ EndOf(i) < arrived + n)
  /\ UNCHANGED <<conversation, input>>

(* The client leaves; the socket and the request are deleted, unless the   *)
(* signals that would do so are cut.                                       *)
disconnected ==
  /\ socket \in {"open", "deaf"}
  /\ socket' = "closed"
  /\ request' = IF socket = "open" THEN None ELSE request
  /\ UNCHANGED <<conversation, input, arrived, parser, answers, fragments, notified, cut, mixed>>

Next ==
  \/ \E n \in 1 .. Len(input) : ReadyRead(n)
  \/ disconnected

Spec == Init /\ [][Next]_vars

-----------------------------------------------------------------------------
(* Properties *)

TypeOK ==
  /\ arrived \in 0 .. Len(input)
  /\ parser.content_length \in 0 .. MaxLength
  /\ parser.nread \in Nat
  /\ parser.errno = "OK" => parser.nread <= MaxHeaderSize
  /\ parser.flags \subseteq Flag
  /\ parser.method \in Method
  /\ request # None => request.state \in RequestState
  /\ socket \in {"open", "deaf", "closed", "crashed"}
  /\ fragments \in 0 .. MaxFragments

(***************************************************************************)
(* What http_parser.c asserts: before a symbol, which has not been counted *)
(* yet, and that a fragment ends in one datum at most.  The build does not *)
(* leave the assertions out: one that fails ends the server.               *)
(***************************************************************************)
ChunkStates ==
  {"chunk_size_start", "chunk_size", "chunk_parameters", "chunk_size_almost_done",
   "chunk_data", "chunk_data_almost_done", "chunk_data_done"}

FieldStates ==
  {"h_general", "h_CON", "h_matching_transfer_encoding", "h_matching_upgrade",
   "h_matching_proxy_connection", "h_connection", "h_content_length",
   "h_transfer_encoding", "h_upgrade"}

Asserted(l) ==
  /\ l.state \in {"body_identity", "chunk_data"} => l.content_length \notin {0, MaxLength}
  /\ l.state \in ChunkStates => "CHUNKED" \in l.flags
  /\ l.state = "chunk_size_start" => l.nread = 0
  /\ l.state = "chunk_data_almost_done" => l.content_length = 0
  /\ l.state = "header_field" => l.header_state \in FieldStates
  /\ l.state = "header_value" => l.header_state \notin {"h_connection", "h_transfer_encoding"}
  /\ \A c, d \in Data : l.mark[c] # 0 /\ l.mark[d] # 0 => c = d

(* However the rest of the input is cut, every assertion holds.            *)
AssertionsHold ==
  socket = "open" =>
    \A run \in {Execution(parser, SubSeq(input, arrived + 1, Len(input)))} :
      \A i \in DOMAIN run : ~Stopped(run[i]) => Asserted(run[i])

ControlCharacter == \E i \in DOMAIN input : input[i] = "ctl"

(***************************************************************************)
(* How the input is cut does not matter to http_parser: it accepts what it *)
(* would accept if all that has arrived had come at once, ends in the same *)
(* state, the count of the header included, and its callbacks say the      *)
(* same; it refuses what it would refuse, with the same error, except that *)
(* a header that is too long may be found so before something else is      *)
(* wrong with it, for a run of a name or a value is counted at its end or  *)
(* at that of the fragment.  (Whether it accepts control characters in a   *)
(* header value does depend on the fragments.)                             *)
(***************************************************************************)
FragmentsDoNotMatter ==
  ~ControlCharacter =>
    \A whole \in {http_parser_execute(http_parser_init, SubSeq(input, 1, arrived))} :
      /\ parser.errno = "OK" =>
           parser = whole.parser /\ notified = JoinAll(<<>>, whole.callbacks)
      /\ parser.errno # "OK" =>
           \/ whole.parser.errno = parser.errno
           \/ whole.parser.errno # "OK" /\ parser.errno = "HEADER_OVERFLOW"

-----------------------------------------------------------------------------
(* What should be answered *)

Said(m, name, value) == \E i \in DOMAIN m.headers : m.headers[i] = [name |-> name, value |-> value]

KeptAlive(m) ==
  IF m.minor = "1" THEN ~Said(m, <<"con", "nection">>, <<"clo", "se">>)
  ELSE Said(m, <<"con", "nection">>, <<"kee", "p-alive">>)

(* The messages the router should see: well-formed ones, up to the first   *)
(* after which the connection is done.                                     *)
Answerable(i) ==
  /\ "raw" \notin DOMAIN conversation[i] /\ conversation[i].method # "CONNECT"
  /\ ~Said(conversation[i], <<"con", "nection">>, <<"up", "grade">>)

Expected ==
  {i \in DOMAIN conversation :
     EndOf(i) <= arrived /\ \A j \in 1 .. i : Answerable(j) /\ (j < i => KeptAlive(conversation[j]))}

HeadersSent(m) ==
  LET last(name) == CHOOSE i \in DOMAIN AllHeaders(m) :
                      /\ AllHeaders(m)[i].name = name
                      /\ \A j \in DOMAIN AllHeaders(m) : AllHeaders(m)[j].name = name => j <= i
  IN  [name \in {AllHeaders(m)[i].name : i \in DOMAIN AllHeaders(m)} |->
         AllHeaders(m)[last(name)].value]

(* A Host header counts if it names a port (the host is one symbol). *)
HostHeaders(m) ==
  {h \in {m.headers[i] : i \in DOMAIN m.headers} :
     h.name = <<"ho", "st">> /\ Len(h.value) > 2 /\ h.value[2] = ":"}

UrlSent(m) ==
  LET url == [m.url EXCEPT !.schema = <<>>, !.port = IF @ = <<>> THEN NoPort ELSE PortValue(@)]
  IN  IF HostHeaders(m) = {} THEN url
      ELSE LET value == (CHOOSE h \in HostHeaders(m) : TRUE).value
           IN  [url EXCEPT !.host = <<value[1]>>, !.port = PortValue(SubSeq(value, 3, Len(value)))]

AnswerDue(m) ==
  [status |-> IF \E i \in DOMAIN Rules : m.method \in Rules[i].methods /\ Rules[i].path = m.url.path
              THEN 200 ELSE 404,
   method |-> m.method, url |-> UrlSent(m), headers |-> HeadersSent(m), body |-> Joined(m.body)]

(* Every fragment sets the scheme to http again, whatever the URL says. *)
Answered == [i \in DOMAIN answers |-> [answers[i] EXCEPT !.url.schema = <<>>]]

AnsweredAsSent == Answered = [i \in 1 .. Cardinality(Expected) |-> AnswerDue(conversation[i])]

(* Folded lines, headers without a value, control characters, trailers and *)
(* blank lines between requests: none of the properties below is about     *)
(* them, for a blank line alone gets the last request's URL, now empty,    *)
(* answered with 404.                                                      *)
Strange ==
  \E i \in DOMAIN conversation : "raw" \in DOMAIN conversation[i] /\ ~conversation[i].malformed

(***************************************************************************)
(* Every request reaches the router once, in order, and its rule sees the  *)
(* URL (but its scheme), the headers and the body that were sent, as long  *)
(* as no fragment ends within a URL or a header and none has parts of two  *)
(* messages; what is malformed never reaches it, nor what comes after the  *)
(* connection is done.  Whether these should get an answer of another kind *)
(* is not said.                                                            *)
(***************************************************************************)
RequestsAsSent == ~Strange /\ ~cut /\ ~mixed => AnsweredAsSent

(***************************************************************************)
(* What http_parser.h says of its data callbacks, that there may be many   *)
(* for one string, is true of URLs and headers too: a request that comes   *)
(* in several fragments is answered as one that comes at once.             *)
(***************************************************************************)
AnyFragments == ~Strange /\ ~mixed => AnsweredAsSent
=============================================================================
