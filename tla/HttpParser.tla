----------------------------- MODULE HttpParser -----------------------------
(***************************************************************************)
(* http_parser_execute for requests: what it makes of a fragment of the    *)
(* input, symbol after symbol, and the callbacks it runs on the way.  Each *)
(* state of the C code is an operator of that name on the parser l, which  *)
(* here holds the local variables of the call as well, and the symbol ch;  *)
(* "goto reexecute" applies the operator of the next state to ch.          *)
(*                                                                         *)
(* Content lengths and the size of a header are counted in symbols.        *)
(* MaxLength is ULLONG_MAX, which here also stands for "no length".        *)
(* In a header's name and in its value a loop of its own takes all that    *)
(* the fragment has of it, a run, and counts it at its end; here a run is  *)
(* taken symbol after symbol as well, and l.run is how many it has taken.  *)
(* Left out: responses, F_SKIPBODY and errors from callbacks (no callback  *)
(* of QHttpServerRequest asks for either), the end of input, which         *)
(* QHttpServerRequest never passes on, and that the rest of a value that   *)
(* is not looked at is skipped max_header_size symbols at a time.          *)
(***************************************************************************)
EXTENDS HttpUrl, TLC

CONSTANTS
  MaxLength,      \* ULLONG_MAX
  MaxHeaderSize   \* max_header_size

ASSUME ParserConstants ==
  /\ MaxLength \in Nat /\ MaxLength > 16
  /\ MaxHeaderSize \in Nat

(* What one symbol more of a method makes of the guess its first letter    *)
(* gave; the other methods are matched the same way.                       *)
FirstLetter == [G |-> "GET", P |-> "POST", C |-> "CONNECT", S |-> "SUBSCRIBE"]
OtherLetters ==
  [GET |-> [ET |-> "GET"], POST |-> [OST |-> "POST", UT |-> "PUT"],
   CONNECT |-> [ONNECT |-> "CONNECT"], SUBSCRIBE |-> [OURCE |-> "SOURCE"]]

Method == {"GET", "POST", "PUT", "CONNECT", "SUBSCRIBE", "SOURCE", "DELETE"}

Flag == {"CHUNKED", "CONNECTION_KEEP_ALIVE", "CONNECTION_CLOSE", "CONNECTION_UPGRADE",
         "TRAILING", "UPGRADE", "CONTENTLENGTH"}

UrlStates ==
  {"req_schema", "req_schema_slash", "req_schema_slash_slash", "req_server_start",
   "req_server", "req_server_with_at", "req_path", "req_query_string_start",
   "req_query_string", "req_fragment_start", "req_fragment"}

BodyStates ==
  {"chunk_data", "chunk_data_almost_done", "chunk_data_done", "body_identity", "message_done"}

PARSING_HEADER(s) == s \notin BodyStates

Data == {"url", "header_field", "header_value", "body"}
NoMark == [d \in Data |-> 0]

(* The last seven fields are the local variables of http_parser_execute. *)
http_parser_init ==
  [state |-> "start_req", header_state |-> "h_general", index |-> 0, flags |-> {},
   content_length |-> 0, method |-> "DELETE", http_major |-> 0, http_minor |-> 0,
   upgrade |-> FALSE, nread |-> 0, errno |-> "OK",
   data |-> <<>>, p |-> 0, mark |-> NoMark, callbacks |-> <<>>, done |-> FALSE,
   skipping |-> FALSE, run |-> 0]

-----------------------------------------------------------------------------
(* Callbacks and marks.  A mark is the place in the fragment where a datum *)
(* starts, 0 if there is none.                                             *)

SET_ERRNO(l, e) == [l EXCEPT !.errno = e]
UPDATE_STATE(l, s) == [l EXCEPT !.state = s]

MARK(l, datum) == IF l.mark[datum] = 0 THEN [l EXCEPT !.mark[datum] = l.p] ELSE l

CALLBACK_NOTIFY(l, what) == [l EXCEPT !.callbacks = Append(@, [on |-> what])]

CALLBACK_DATA_(l, datum, end) ==
  IF l.mark[datum] = 0 THEN l
  ELSE [l EXCEPT !.mark[datum] = 0,
                 !.callbacks = Append(@, [on |-> datum,
                                          data |-> SubSeq(l.data, l.mark[datum], end)])]

CALLBACK_DATA(l, datum) == CALLBACK_DATA_(l, datum, l.p - 1)

(* What is counted is kept even if it is too much. *)
COUNT_HEADER_SIZE(l, v) ==
  LET m == [l EXCEPT !.nread = @ + v]
  IN  IF m.nread > MaxHeaderSize THEN SET_ERRNO(m, "HEADER_OVERFLOW") ELSE m

(* The first symbol of a run has been counted like any other one. *)
RunGoesOn(l) == [l EXCEPT !.run = @ + 1]
RunEnds(l) == COUNT_HEADER_SIZE([l EXCEPT !.run = 0], l.run - 1)

STRICT_CHECK(failed, l, next) == IF failed THEN SET_ERRNO(l, "STRICT") ELSE next

(* A request needs no end of file to be complete. *)
http_should_keep_alive(l) ==
  IF l.http_major > 0 /\ l.http_minor > 0 THEN "CONNECTION_CLOSE" \notin l.flags
  ELSE "CONNECTION_KEEP_ALIVE" \in l.flags

(* Mutated form: a connection is never done. *)
NextMessage(l) == "start_req"

NEW_MESSAGE(l) == IF http_should_keep_alive(l) THEN "start_req" ELSE "dead"

message_complete(l) == CALLBACK_NOTIFY(UPDATE_STATE(l, NEW_MESSAGE(l)), "message_complete")

-----------------------------------------------------------------------------
(* Bodies *)

message_done(l) == [message_complete(l) EXCEPT !.done = l.upgrade]

(* The symbol that completes the body is looked at again. *)
body_identity(l) ==
  LET m == MARK([l EXCEPT !.content_length = @ - 1], "body")
  IN  IF m.content_length > 0 THEN m
      ELSE message_done(CALLBACK_DATA_(UPDATE_STATE(m, "message_done"), "body", m.p))

unhex(ch) == IF ch = "a" THEN 10 ELSE Number[ch]

chunk_size_start(l, ch) ==
  IF ch \notin Hex THEN SET_ERRNO(l, "INVALID_CHUNK_SIZE")
  ELSE UPDATE_STATE([l EXCEPT !.content_length = unhex(ch)], "chunk_size")

(* Mutated form: no test for overflow. *)
AnyDigitMore(l, base, digit) == [l EXCEPT !.content_length = base * @ + digit]

(* The next value of a length in a given base, if it cannot overflow. *)
OneDigitMore(l, base, digit) ==
  IF (MaxLength - base) \div base < l.content_length
  THEN SET_ERRNO(l, "INVALID_CONTENT_LENGTH")
  ELSE [l EXCEPT !.content_length = base * @ + digit]

chunk_size(l, ch) ==
  CASE ch = "CR"          -> UPDATE_STATE(l, "chunk_size_almost_done")
    [] ch \in {";", "SP"} -> UPDATE_STATE(l, "chunk_parameters")
    [] ch \in Hex         -> OneDigitMore(l, 16, unhex(ch))
    [] OTHER              -> SET_ERRNO(l, "INVALID_CHUNK_SIZE")

chunk_parameters(l, ch) ==
  IF ch = "CR" THEN UPDATE_STATE(l, "chunk_size_almost_done") ELSE l

(* The last chunk has no data; trailing headers follow it. *)
chunk_size_almost_done(l, ch) ==
  STRICT_CHECK(ch # "LF", l,
    CALLBACK_NOTIFY(
      IF l.content_length = 0
      THEN [l EXCEPT !.nread = 0, !.flags = @ \cup {"TRAILING"}, !.state = "header_field_start"]
      ELSE [l EXCEPT !.nread = 0, !.state = "chunk_data"],
      "chunk_header"))

chunk_data(l) ==
  LET m == MARK([l EXCEPT !.content_length = @ - 1], "body")
  IN  IF m.content_length = 0 THEN UPDATE_STATE(m, "chunk_data_almost_done") ELSE m

chunk_data_almost_done(l, ch) ==
  STRICT_CHECK(ch # "CR", l, CALLBACK_DATA(UPDATE_STATE(l, "chunk_data_done"), "body"))

chunk_data_done(l, ch) ==
  STRICT_CHECK(ch # "LF", l,
    CALLBACK_NOTIFY([l EXCEPT !.nread = 0, !.state = "chunk_size_start"], "chunk_complete"))

-----------------------------------------------------------------------------
(* The end of the headers *)

(* Mutated form: no length is a length. *)
AnyBody(l) == "CHUNKED" \in l.flags \/ l.content_length # 0

hasBody(l) == "CHUNKED" \in l.flags \/ l.content_length \notin {0, MaxLength}

headers_done(l) ==
  LET m == [l EXCEPT !.nread = 0] IN
  IF m.upgrade /\ (m.method = "CONNECT" \/ ~hasBody(m))
  THEN [message_complete(m) EXCEPT !.done = TRUE]
  ELSE IF "CHUNKED" \in m.flags THEN UPDATE_STATE(m, "chunk_size_start")
  ELSE IF hasBody(m) THEN UPDATE_STATE(m, "body_identity")
  ELSE message_complete(m)

headers_almost_done(l, ch) ==
  STRICT_CHECK(ch # "LF", l,
    IF "TRAILING" \in l.flags
    THEN message_done(CALLBACK_NOTIFY(UPDATE_STATE(l, "message_done"), "chunk_complete"))
    ELSE IF {"CHUNKED", "CONTENTLENGTH"} \subseteq l.flags
    THEN SET_ERRNO(l, "UNEXPECTED_CONTENT_LENGTH")
    ELSE headers_done(CALLBACK_NOTIFY(
           [l EXCEPT !.state = "headers_done",
                     !.upgrade = \/ {"UPGRADE", "CONNECTION_UPGRADE"} \subseteq l.flags
                                 \/ l.method = "CONNECT"],
           "headers_complete")))

-----------------------------------------------------------------------------
(* Headers, from their end back to their start.  The pieces of words make  *)
(* the index into a header's name or value superfluous.                    *)

(* What a header turns out to have said when it ends. *)
SaidBy(header_state) ==
  CASE header_state = "h_connection_keep_alive"     -> {"CONNECTION_KEEP_ALIVE"}
    [] header_state = "h_connection_close"          -> {"CONNECTION_CLOSE"}
    [] header_state = "h_connection_upgrade"        -> {"CONNECTION_UPGRADE"}
    [] header_state = "h_transfer_encoding_chunked" -> {"CHUNKED"}
    [] OTHER                                        -> {}

HeaderSaid(l) == [l EXCEPT !.flags = @ \cup SaidBy(l.header_state)]

(* Starts a token of a Connection header. *)
ConnectionToken(ch) ==
  CASE ch = "kee" -> "h_matching_connection_keep_alive"
    [] ch = "clo" -> "h_matching_connection_close"
    [] ch = "up"  -> "h_matching_connection_upgrade"
    [] OTHER      -> "h_matching_connection_token"

ContentLengthStarts(l, ch) ==
  IF ch \notin Num THEN SET_ERRNO(l, "INVALID_CONTENT_LENGTH")
  ELSE IF "CONTENTLENGTH" \in l.flags THEN SET_ERRNO(l, "UNEXPECTED_CONTENT_LENGTH")
  ELSE [l EXCEPT !.flags = @ \cup {"CONTENTLENGTH"},
                 !.content_length = Number[ch],
                 !.header_state = "h_content_length_num"]

header_value_start(l, ch) ==
  LET m  == [MARK(l, "header_value") EXCEPT !.state = "header_value", !.skipping = FALSE]
      hs == m.header_state
  IN  CASE hs = "h_upgrade" ->
             [m EXCEPT !.flags = @ \cup {"UPGRADE"}, !.header_state = "h_general"]
        [] hs = "h_transfer_encoding" /\ ch = "chu" ->
             [m EXCEPT !.header_state = "h_matching_transfer_encoding_chunked"]
        [] hs = "h_content_length" -> ContentLengthStarts(m, ch)
        [] hs = "h_connection"     -> [m EXCEPT !.header_state = ConnectionToken(ch)]
        [] hs \in {"h_content_length_ws", "h_matching_connection_token_start"} -> m
        [] OTHER -> [m EXCEPT !.header_state = "h_general"]

(* LF ends the request line or a header; then a blank folds the next line  *)
(* into the header, and anything else starts the next header or ends them. *)
header_field_start(l, ch) ==
  CASE ch = "CR"        -> UPDATE_STATE(l, "headers_almost_done")
    [] ch = "LF"        -> headers_almost_done(l, ch)
    [] ch \in Token     ->
         [MARK(l, "header_field") EXCEPT
            !.state = "header_field",
            !.header_state =
               CASE ch = "con"       -> "h_CON"
                 [] ch = "transfer-" -> "h_matching_transfer_encoding"
                 [] ch = "up"        -> "h_matching_upgrade"
                 [] ch = "proxy-"    -> "h_matching_proxy_connection"
                 [] OTHER            -> "h_general"]
    [] OTHER -> SET_ERRNO(l, "INVALID_HEADER_TOKEN")

header_value_lws(l, ch) ==
  IF ch \in {"SP", "TAB"}
  THEN header_value_start(
         [l EXCEPT !.header_state = IF @ = "h_content_length_num" THEN "h_content_length_ws" ELSE @],
         ch)
  ELSE header_field_start(UPDATE_STATE(HeaderSaid(l), "header_field_start"), ch)

header_almost_done(l, ch) ==
  IF ch # "LF" THEN SET_ERRNO(l, "LF_EXPECTED") ELSE UPDATE_STATE(l, "header_value_lws")

(***************************************************************************)
(* One symbol more of a value.  After the comma of a Connection header a   *)
(* space is skipped but a tab is not, for LOWER has made a parenthesis of  *)
(* it.                                                                     *)
(***************************************************************************)
ValueMatched(hs, ch) ==
  CASE hs = "h_general" -> "h_general"
    [] hs = "h_matching_transfer_encoding_chunked" ->
         IF ch = "nked" THEN "h_transfer_encoding_chunked" ELSE "h_general"
    [] hs = "h_transfer_encoding_chunked" -> IF ch = "SP" THEN hs ELSE "h_general"
    [] hs = "h_matching_connection_keep_alive" /\ ch = "p-alive" -> "h_connection_keep_alive"
    [] hs = "h_matching_connection_close" /\ ch = "se"           -> "h_connection_close"
    [] hs = "h_matching_connection_upgrade" /\ ch = "grade"      -> "h_connection_upgrade"
    [] hs = "h_matching_connection_token_start" ->
         IF ch = "SP" THEN hs ELSE IF ch \in Token THEN ConnectionToken(ch) ELSE "h_general"
    [] hs \in {"h_connection_keep_alive", "h_connection_close", "h_connection_upgrade"}
         /\ ch = "SP" -> hs
    [] hs \in {"h_connection_keep_alive", "h_connection_close", "h_connection_upgrade",
               "h_matching_connection_token"} /\ ch = "," -> "h_matching_connection_token_start"
    [] OTHER -> "h_matching_connection_token"

ContentLengthGoesOn(l, ch) ==
  CASE ch = "SP" -> [l EXCEPT !.header_state = "h_content_length_ws"]
    [] ch \in Num /\ l.header_state = "h_content_length_num" -> OneDigitMore(l, 10, Number[ch])
    [] OTHER     -> SET_ERRNO(l, "INVALID_CONTENT_LENGTH")

(* The tokens of a Connection header say what they say at the comma. *)
ValueGoesOn(l, ch) ==
  LET said == ch = "," /\ l.header_state # "h_transfer_encoding_chunked"
  IN  [(IF said THEN HeaderSaid(l) ELSE l) EXCEPT !.header_state = ValueMatched(@, ch)]

(***************************************************************************)
(* A control character is an error unless it follows, in one fragment, a   *)
(* symbol of a value that is not looked at: the rest of such a value is    *)
(* skipped up to its end.  An error leaves the run uncounted.              *)
(***************************************************************************)
ValueRun(l, ch) ==
  IF ch = "ctl" /\ ~l.skipping THEN SET_ERRNO(l, "INVALID_HEADER_TOKEN")
  ELSE IF l.header_state \in {"h_content_length_num", "h_content_length_ws"}
  THEN ContentLengthGoesOn(l, ch)
  ELSE [ValueGoesOn(l, ch) EXCEPT !.skipping = (l.header_state = "h_general")]

(* CR passes the value on and then counts the run, LF the other way round. *)
ValueEnds(l, ch) ==
  LET m == UPDATE_STATE(l, "header_almost_done") IN
  IF ch = "CR" THEN RunEnds(CALLBACK_DATA(m, "header_value"))
  ELSE IF RunEnds(m).errno # "OK" THEN RunEnds(m)
  ELSE header_almost_done(CALLBACK_DATA(RunEnds(m), "header_value"), ch)

header_value(l, ch) ==
  IF ch \in {"CR", "LF"} THEN ValueEnds(RunGoesOn(l), ch) ELSE ValueRun(RunGoesOn(l), ch)

header_value_discard_ws_almost_done(l, ch) ==
  STRICT_CHECK(ch # "LF", l, UPDATE_STATE(l, "header_value_discard_lws"))

(* A header without a value; a Content-Length must have one. *)
header_value_discard_lws(l, ch) ==
  CASE ch \in {"SP", "TAB"} -> UPDATE_STATE(l, "header_value_discard_ws")
    [] ch \notin {"SP", "TAB"} /\ l.header_state = "h_content_length" ->
         SET_ERRNO(l, "INVALID_CONTENT_LENGTH")
    [] OTHER -> header_field_start(
                  CALLBACK_DATA(MARK(UPDATE_STATE(HeaderSaid(l), "header_field_start"),
                                     "header_value"), "header_value"), ch)

header_value_discard_ws(l, ch) ==
  CASE ch \in {"SP", "TAB"} -> l
    [] ch = "CR"            -> UPDATE_STATE(l, "header_value_discard_ws_almost_done")
    [] ch = "LF"            -> UPDATE_STATE(l, "header_value_discard_lws")
    [] OTHER                -> header_value_start(l, ch)

(* One symbol more of a name that matters; no such name has a third one. *)
FieldMatched(hs, ch) ==
  CASE hs = "h_CON" /\ ch = "nection"     -> "h_connection"
    [] hs = "h_CON" /\ ch = "tent-length" -> "h_content_length"
    [] hs = "h_matching_transfer_encoding" /\ ch = "encoding"   -> "h_transfer_encoding"
    [] hs = "h_matching_upgrade" /\ ch = "grade"                -> "h_upgrade"
    [] hs = "h_matching_proxy_connection" /\ ch = "connection"  -> "h_connection"
    [] OTHER -> "h_general"

FieldRun(l, ch) == [l EXCEPT !.header_state = FieldMatched(@, ch)]

(* The run is counted before its end is looked at. *)
FieldEnds(l, ch) ==
  CASE l.errno # "OK"              -> l
    [] l.errno = "OK" /\ ch = ":" ->
         CALLBACK_DATA(UPDATE_STATE(l, "header_value_discard_ws"), "header_field")
    [] OTHER                       -> SET_ERRNO(l, "INVALID_HEADER_TOKEN")

header_field(l, ch) ==
  IF ch \in Token THEN FieldRun(RunGoesOn(l), ch) ELSE FieldEnds(RunEnds(RunGoesOn(l)), ch)

-----------------------------------------------------------------------------
(* The request line *)

start_req(l, ch) ==
  CASE ch \in {"CR", "LF"}  -> l
    [] ch \in DOMAIN FirstLetter ->
         CALLBACK_NOTIFY([l EXCEPT !.flags = {}, !.content_length = MaxLength,
                                   !.method = FirstLetter[ch], !.index = 1,
                                   !.state = "req_method"], "message_begin")
    [] OTHER -> SET_ERRNO(l, "INVALID_METHOD")

req_method(l, ch) ==
  CASE ch = "SP" /\ l.index = 2 -> UPDATE_STATE(l, "req_spaces_before_url")
    [] l.index = 1 /\ ch \in DOMAIN OtherLetters[l.method] ->
         [l EXCEPT !.method = OtherLetters[l.method][ch], !.index = 2]
    [] OTHER -> SET_ERRNO(l, "INVALID_METHOD")

UrlGoesOn(l, ch) ==
  LET s == parse_url_char(l.state, ch)
  IN  IF s = "dead" THEN SET_ERRNO(l, "INVALID_URL") ELSE UPDATE_STATE(l, s)

req_spaces_before_url(l, ch) ==
  IF ch = "SP" THEN l
  ELSE LET m == MARK(l, "url")
       IN  UrlGoesOn(IF m.method = "CONNECT" THEN UPDATE_STATE(m, "req_server_start") ELSE m, ch)

(* The URL ends with a space, or with the line if it is an HTTP/0.9 one. *)
req_url(l, ch) ==
  IF l.state \in {"req_schema", "req_schema_slash", "req_schema_slash_slash", "req_server_start"}
  THEN UrlGoesOn(l, ch)
  ELSE CASE ch = "SP" -> CALLBACK_DATA(UPDATE_STATE(l, "req_http_start"), "url")
         [] ch \in {"CR", "LF"} ->
              CALLBACK_DATA([l EXCEPT !.http_major = 0, !.http_minor = 9,
                                      !.state = IF ch = "CR" THEN "req_line_almost_done"
                                                ELSE "header_field_start"], "url")
         [] OTHER -> UrlGoesOn(l, ch)

(* "HTTP/" in its pieces; a SOURCE request may say "ICE/". *)
req_http_start(l, ch) ==
  CASE ch = "SP" -> l
    [] ch = "HT" -> UPDATE_STATE(l, "req_http_HT")
    [] ch = "ICE" /\ l.method = "SOURCE" -> UPDATE_STATE(l, "req_http_HTTP")
    [] OTHER     -> SET_ERRNO(l, "INVALID_CONSTANT")

req_http_name(l, ch) ==
  IF l.state = "req_http_HT"
  THEN STRICT_CHECK(ch # "TP", l, UPDATE_STATE(l, "req_http_HTTP"))
  ELSE STRICT_CHECK(ch # "/", l, UPDATE_STATE(l, "req_http_major"))

req_http_version(l, ch) ==
  CASE l.state = "req_http_major" /\ ch \in Num ->
         [l EXCEPT !.http_major = Number[ch], !.state = "req_http_dot"]
    [] l.state = "req_http_dot" /\ ch = "." -> UPDATE_STATE(l, "req_http_minor")
    [] l.state = "req_http_minor" /\ ch \in Num ->
         [l EXCEPT !.http_minor = Number[ch], !.state = "req_http_end"]
    [] l.state = "req_http_end" /\ ch = "CR" -> UPDATE_STATE(l, "req_line_almost_done")
    [] l.state = "req_http_end" /\ ch = "LF" -> UPDATE_STATE(l, "header_field_start")
    [] OTHER -> SET_ERRNO(l, "INVALID_VERSION")

req_line_almost_done(l, ch) ==
  IF ch # "LF" THEN SET_ERRNO(l, "LF_EXPECTED") ELSE UPDATE_STATE(l, "header_field_start")

(* After a message with "Connection: close" no other may come. *)
dead(l, ch) == IF ch \in {"CR", "LF"} THEN l ELSE SET_ERRNO(l, "CLOSED_CONNECTION")

-----------------------------------------------------------------------------
(* http_parser_execute *)

execute_symbol(l, ch) ==
  CASE l.state = "dead"                  -> dead(l, ch)
    [] l.state = "start_req"             -> start_req(l, ch)
    [] l.state = "req_method"            -> req_method(l, ch)
    [] l.state = "req_spaces_before_url" -> req_spaces_before_url(l, ch)
    [] l.state \in UrlStates             -> req_url(l, ch)
    [] l.state = "req_http_start"        -> req_http_start(l, ch)
    [] l.state \in {"req_http_HT", "req_http_HTTP"} -> req_http_name(l, ch)
    [] l.state \in {"req_http_major", "req_http_dot", "req_http_minor", "req_http_end"} ->
                                            req_http_version(l, ch)
    [] l.state = "req_line_almost_done"  -> req_line_almost_done(l, ch)
    [] l.state = "header_field_start"    -> header_field_start(l, ch)
    [] l.state = "header_field"          -> header_field(l, ch)
    [] l.state = "header_value_discard_ws" -> header_value_discard_ws(l, ch)
    [] l.state = "header_value_discard_ws_almost_done" ->
                                            header_value_discard_ws_almost_done(l, ch)
    [] l.state = "header_value_discard_lws" -> header_value_discard_lws(l, ch)
    [] l.state = "header_value"          -> header_value(l, ch)
    [] l.state = "header_almost_done"    -> header_almost_done(l, ch)
    [] l.state = "header_value_lws"      -> header_value_lws(l, ch)
    [] l.state = "headers_almost_done"   -> headers_almost_done(l, ch)
    [] l.state = "body_identity"         -> body_identity(l)
    [] l.state = "chunk_size_start"      -> chunk_size_start(l, ch)
    [] l.state = "chunk_size"            -> chunk_size(l, ch)
    [] l.state = "chunk_parameters"      -> chunk_parameters(l, ch)
    [] l.state = "chunk_size_almost_done" -> chunk_size_almost_done(l, ch)
    [] l.state = "chunk_data"            -> chunk_data(l)
    [] l.state = "chunk_data_almost_done" -> chunk_data_almost_done(l, ch)
    [] l.state = "chunk_data_done"       -> chunk_data_done(l, ch)

(* An error or an upgrade ends the call where it is found. *)
Stopped(l) == l.errno # "OK" \/ l.done

(* Within a run it is the loop of the run that goes to the next symbol. *)
Counted(l) == IF PARSING_HEADER(l.state) /\ l.run = 0 THEN COUNT_HEADER_SIZE(l, 1) ELSE l

Executed(l) == IF Stopped(l) THEN l ELSE execute_symbol(l, l.data[l.p])

Consume(l, i) == IF Stopped(l) THEN l ELSE Executed(Counted([l EXCEPT !.p = i]))

(* Mutated form: a header value that was cut is not taken up again. *)
ValueLost(state, datum) ==
  \/ datum = "header_field" /\ state = "header_field"
  \/ datum = "url" /\ state \in UrlStates

(* A datum that the last fragment was cut in goes on; a body needs no mark *)
(* before its next symbol.                                                 *)
GoesOn(state, datum) ==
  \/ datum = "header_field" /\ state = "header_field"
  \/ datum = "header_value" /\ state = "header_value"
  \/ datum = "url" /\ state \in UrlStates

PassedOn(l) ==
  CALLBACK_DATA_(CALLBACK_DATA_(CALLBACK_DATA_(CALLBACK_DATA_(l,
    "header_field", Len(l.data)), "header_value", Len(l.data)),
    "url", Len(l.data)), "body", Len(l.data))

(* What the fragment ends in is counted, and passed on as far as it goes. *)
Leftover(l) ==
  LET m == IF l.run = 0 THEN l ELSE RunEnds(l)
  IN  CASE Stopped(l)  -> l
        [] ~Stopped(l) -> IF Stopped(m) THEN m ELSE PassedOn(m)

(* The call is complete if it returns the length of the fragment. *)
Returned(l) ==
  [parser    |-> [l EXCEPT !.data = <<>>, !.p = 0, !.mark = NoMark, !.callbacks = <<>>,
                           !.done = FALSE, !.skipping = FALSE, !.run = 0],
   callbacks |-> l.callbacks,
   complete  |-> l.errno = "OK" /\ (l.done => l.p = Len(l.data))]

(* The parser before the first symbol of a fragment and after each one.    *)
Execution(parser, data) ==
  LET run[i \in 0 .. Len(data)] ==
        IF i = 0
        THEN [parser EXCEPT !.data = data,
                            !.mark = [d \in Data |-> IF GoesOn(parser.state, d) THEN 1 ELSE 0]]
        ELSE Consume(run[i - 1], i)
  IN  run

http_parser_execute(parser, data) == Returned(Leftover(Execution(parser, data)[Len(data)]))

=============================================================================
