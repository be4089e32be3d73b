------------------------- MODULE HttpServer_proofs --------------------------
(***************************************************************************)
(* Proofs about one connection of the HTTP server, for any router, any     *)
(* conversation and any way to cut it into fragments: the variables keep   *)
(* their types, what http_parser.c asserts is true, and it does not matter *)
(* to the parser how the input is cut.                                     *)
(*                                                                         *)
(* The inductive invariant says of the parser between two fragments that   *)
(* it is Waiting: its state, its lengths, its flags and the kind of the    *)
(* header fit each other (Lengths). Within a fragment the marks fit the    *)
(* state as well, and stay in the fragment (Good). Each state of the C     *)
(* code is an operator of HttpParser, and there is a lemma for each: it    *)
(* makes of a good parser a good one, or it reports an error.              *)
(* execute_symbolGood puts them together.                                  *)
(*                                                                         *)
(* A call goes through a fragment symbol after symbol, and so does a       *)
(* request through the callbacks: both are recursive functions. That they  *)
(* are what their equations say, and that each of their values is good, is *)
(* proved by induction over the natural numbers (AllNumbers, stated for a  *)
(* set).                                                                   *)
(*                                                                         *)
(* That the fragments do not matter is proved with a second parser, which  *)
(* reads the whole input in one call. Twins says of two parsers that read  *)
(* the same symbol, at two places, that they agree in all but the places   *)
(* (Same) and that what they have notified, with what is under way, is the *)
(* same (Heard). Each state of the C code keeps that (there is a lemma for *)
(* each, its name ending in Twins), and so do the end of a call, which     *)
(* hands over what is under way (LeftoverHeard), and the start of the      *)
(* next, which marks it again (StartsAlike). A run of a header's name or   *)
(* value is counted at its end, or earlier, at that of the fragment: what  *)
(* agrees is the Total, the run under way included, and one parser may     *)
(* report an overflow while the other is still in the run that will be too *)
(* long (Doomed, Outcome). The invariant FInv compares                     *)
(* the connection with that second parser after each fragment; the call    *)
(* with all that has arrived, which FragmentsDoNotMatter is about, is one  *)
(* fragment more to compare with it.                                       *)
(***************************************************************************)
EXTENDS HttpServer, SequenceTheorems, WellFoundedInduction, TLAPS

(* The states of the parser; the first ones are those of the request line. *)
LineStates ==
  {"dead", "start_req", "req_method", "req_spaces_before_url", "req_http_start", "req_http_HT",
   "req_http_HTTP", "req_http_major", "req_http_dot", "req_http_minor", "req_http_end",
   "req_line_almost_done"}

HeaderStates ==
  {"header_field_start", "header_field", "header_value_discard_ws",
   "header_value_discard_ws_almost_done", "header_value_discard_lws", "header_value",
   "header_almost_done", "header_value_lws", "headers_almost_done"}

State == LineStates \cup UrlStates \cup HeaderStates \cup ChunkStates \cup {"body_identity"}

(* States that it only passes through within a symbol, too. *)
AnyState == State \cup {"headers_done", "message_done"}

(* What it knows of the header under way. *)
HeaderState ==
  FieldStates \cup
  {"h_matching_transfer_encoding_chunked", "h_transfer_encoding_chunked", "h_content_length_num",
   "h_content_length_ws", "h_matching_connection_token_start", "h_matching_connection_token",
   "h_matching_connection_keep_alive", "h_matching_connection_close",
   "h_matching_connection_upgrade", "h_connection_keep_alive", "h_connection_close",
   "h_connection_upgrade"}

Error ==
  {"OK", "HEADER_OVERFLOW", "STRICT", "INVALID_CHUNK_SIZE", "INVALID_CONTENT_LENGTH",
   "UNEXPECTED_CONTENT_LENGTH", "INVALID_HEADER_TOKEN", "LF_EXPECTED", "INVALID_METHOD",
   "INVALID_URL", "INVALID_CONSTANT", "INVALID_VERSION", "CLOSED_CONNECTION"}

(* What a callback is told. *)
Notice == [on : DOMAIN NotifiedState] \cup [on : Data, data : Seq(Symbol)]

Parser ==
  [state : AnyState, header_state : HeaderState, index : Nat, flags : SUBSET Flag,
   content_length : 0 .. MaxLength, method : Method, http_major : Nat, http_minor : Nat,
   upgrade : BOOLEAN, nread : Nat, errno : Error,
   data : Seq(Symbol), p : Nat, mark : [Data -> Nat], callbacks : Seq(Notice), done : BOOLEAN,
   skipping : BOOLEAN, run : Nat]

(* A state that fits the length, the flags, the header and the method. *)
Lengths(s, l) ==
  /\ s \in State
  /\ s \in {"body_identity", "chunk_data"} => l.content_length \notin {0, MaxLength}
  /\ s \in ChunkStates => "CHUNKED" \in l.flags
  /\ s \in {"chunk_size", "chunk_parameters", "chunk_size_almost_done"}
       => l.content_length # MaxLength
  /\ s = "chunk_data_almost_done" => l.content_length = 0
  /\ s = "header_field" => l.header_state \in FieldStates
  /\ s = "header_value" => l.header_state \notin {"h_connection", "h_transfer_encoding"}
  /\ s = "req_method" /\ l.index = 1 => l.method \in DOMAIN OtherLetters
  /\ l.run # 0 => s \in {"header_field", "header_value"}

(* A mark that fits the state: a fragment is in one datum at a time. *)
Marks(s, mark) ==
  /\ mark["url"] # 0 => s \in UrlStates
  /\ mark["header_field"] # 0 => s = "header_field"
  /\ mark["header_value"] # 0 => s = "header_value"
  /\ mark["body"] # 0 => s \in {"body_identity", "chunk_data", "chunk_data_almost_done"}

(* A parser in a fragment (text), its marks in it as well; what it has     *)
(* counted is not too much, or that is an error.                           *)
Sane(l, text) ==
  /\ l \in Parser /\ l.data = text
  /\ l.p <= Len(l.data)
  /\ l.errno = "OK" => l.nread <= MaxHeaderSize
  /\ \A d \in Data : l.mark[d] <= Len(l.data)
  /\ l.done => l.upgrade

(* One that stands between two symbols of it, or has stopped. *)
Good(l, text) ==
  /\ Sane(l, text)
  /\ ~Stopped(l) => /\ Lengths(l.state, l)
                    /\ Marks(l.state, l.mark)
                    /\ l.state = "chunk_size_start" => l.nread = 0

(* One that goes on. *)
Running(l, text) == Sane(l, text) /\ ~Stopped(l)

(* One that may take a symbol, its count included. *)
Ready(l, text) == Running(l, text) /\ Lengths(l.state, l) /\ Marks(l.state, l.mark)

(* No datum is marked, and no run is under way; only one may be marked. *)
Unmarking(l) == \A d \in Data : l.mark[d] = 0
Quiet(l) == Unmarking(l) /\ l.run = 0
Only(l, datum) == \A d \in Data : d # datum => l.mark[d] = 0

(* The states that ask for nothing. *)
Plain == State \ (ChunkStates \cup {"body_identity", "header_field", "header_value", "req_method"})

-----------------------------------------------------------------------------

(* What the fields of a parser are. *)
LEMMA Fields ==
  ASSUME NEW l \in Parser
  PROVE  /\ l.state \in AnyState /\ l.header_state \in HeaderState /\ l.index \in Nat
         /\ l.flags \subseteq Flag /\ l.content_length \in 0 .. MaxLength /\ l.method \in Method
         /\ l.http_major \in Nat /\ l.http_minor \in Nat /\ l.upgrade \in BOOLEAN
         /\ l.nread \in Nat /\ l.run \in Nat /\ l.errno \in Error /\ l.data \in Seq(Symbol)
         /\ Len(l.data) \in Nat
         /\ l.p \in Nat /\ l.mark \in [Data -> Nat] /\ l.callbacks \in Seq(Notice)
         /\ l.done \in BOOLEAN /\ l.skipping \in BOOLEAN
BY DEF Parser

(* An error leaves the parser good: it has stopped. *)
LEMMA Errs ==
  ASSUME NEW text, NEW l, Running(l, text), NEW e \in Error, e # "OK"
  PROVE  Good(SET_ERRNO(l, e), text)
<1> DEFINE m == SET_ERRNO(l, e)
<1>1. m \in Parser
  BY DEF SET_ERRNO, Running, Sane, Parser
<1>2. m.errno = e /\ m.p = l.p /\ m.data = l.data /\ m.mark = l.mark /\ m.run = l.run /\ m.done = l.done
        /\ m.upgrade = l.upgrade
  BY DEF SET_ERRNO, Running, Sane, Parser
<1>3. Stopped(m)
  BY <1>2 DEF Stopped
<1>4. QED
  BY <1>1, <1>2, <1>3 DEF Good, Sane, Running

(* UPDATE_STATE changes the state and nothing else. *)
LEMMA StateSet ==
  ASSUME NEW text, NEW l, Running(l, text), NEW s \in AnyState
  PROVE  LET m == UPDATE_STATE(l, s) IN
         /\ Running(m, text) /\ m.state = s /\ m.mark = l.mark /\ m.run = l.run
         /\ m.content_length = l.content_length
         /\ m.flags = l.flags /\ m.header_state = l.header_state /\ m.nread = l.nread
         /\ m.p = l.p /\ m.data = l.data /\ m.upgrade = l.upgrade /\ m.method = l.method
<1> DEFINE m == UPDATE_STATE(l, s)
<1>1. m \in Parser
  BY DEF UPDATE_STATE, Running, Sane, Parser
<1>2. /\ m.state = s /\ m.mark = l.mark /\ m.run = l.run /\ m.content_length = l.content_length
      /\ m.flags = l.flags /\ m.header_state = l.header_state /\ m.nread = l.nread
      /\ m.p = l.p /\ m.data = l.data /\ m.upgrade = l.upgrade /\ m.method = l.method
      /\ m.errno = l.errno /\ m.done = l.done
  BY DEF UPDATE_STATE, Running, Sane, Parser
<1>3. Running(m, text)
  BY <1>1, <1>2 DEF Running, Sane, Stopped
<1>4. QED
  BY <1>2, <1>3

(* Appending keeps a sequence one of its kind. *)
LEMMA Appended ==
  ASSUME NEW S, NEW s \in Seq(S), NEW e \in S
  PROVE  Append(s, e) \in Seq(S)
OBVIOUS

(* CALLBACK_NOTIFY only adds a callback. *)
LEMMA Notified ==
  ASSUME NEW text, NEW l, Running(l, text), NEW what \in DOMAIN NotifiedState
  PROVE  LET m == CALLBACK_NOTIFY(l, what) IN
         /\ Running(m, text) /\ m.state = l.state /\ m.mark = l.mark /\ m.run = l.run
         /\ m.content_length = l.content_length
         /\ m.flags = l.flags /\ m.header_state = l.header_state /\ m.nread = l.nread
         /\ m.p = l.p /\ m.data = l.data /\ m.upgrade = l.upgrade /\ m.method = l.method
<1> DEFINE m == CALLBACK_NOTIFY(l, what)
<1>1. [on |-> what] \in Notice
  BY DEF Notice
<1>2. m \in Parser
  <2>1. l.callbacks \in Seq(Notice) /\ l \in Parser
    BY Fields DEF Running, Sane
  <2>2. PICK more \in Seq(Notice) : more = Append(l.callbacks, [on |-> what])
    <3>1. PICK c \in Notice : c = [on |-> what]
      BY <1>1
    <3>2. Append(l.callbacks, c) \in Seq(Notice)
      BY <2>1, Appended
    <3>3. QED
      BY <3>1, <3>2
  <2>3. m = [l EXCEPT !.callbacks = more]
    BY <2>2 DEF CALLBACK_NOTIFY
  <2>4. QED
    BY <2>1, <2>3 DEF Parser
<1>3. /\ m.state = l.state /\ m.mark = l.mark /\ m.run = l.run /\ m.content_length = l.content_length
      /\ m.flags = l.flags /\ m.header_state = l.header_state /\ m.nread = l.nread
      /\ m.p = l.p /\ m.data = l.data /\ m.upgrade = l.upgrade /\ m.method = l.method
      /\ m.errno = l.errno /\ m.done = l.done
  BY DEF CALLBACK_NOTIFY, Running, Sane, Parser
<1>4. Running(m, text)
  BY <1>2, <1>3 DEF Running, Sane, Stopped
<1>5. QED
  BY <1>3, <1>4

(* A piece of a text is text. *)
LEMMA Piece ==
  ASSUME NEW s \in Seq(Symbol), NEW a \in Nat \ {0}, NEW b \in Int, b <= Len(s)
  PROVE  SubSeq(s, a, b) \in Seq(Symbol)
<1>1. SubSeq(s, a, b) = [i \in 1 .. (IF a <= b THEN b - a + 1 ELSE 0) |-> s[a + i - 1]]
  OBVIOUS
<1>2. QED
  OBVIOUS

(* CALLBACK_DATA_ only adds a callback and takes the mark away. *)
LEMMA HandedOver ==
  ASSUME NEW text, NEW l, Running(l, text), NEW datum \in Data, NEW end \in Int, end <= Len(l.data)
  PROVE  LET m == CALLBACK_DATA_(l, datum, end) IN
         /\ Running(m, text) /\ m.state = l.state /\ m.run = l.run /\ m.mark = [l.mark EXCEPT ![datum] = 0]
         /\ m.content_length = l.content_length
         /\ m.flags = l.flags /\ m.header_state = l.header_state /\ m.nread = l.nread
         /\ m.p = l.p /\ m.data = l.data /\ m.upgrade = l.upgrade /\ m.method = l.method
         /\ m.index = l.index /\ m.errno = l.errno /\ m.done = l.done
<1>0. l \in Parser /\ l.mark \in [Data -> Nat] /\ l.data \in Seq(Symbol)
  BY Fields DEF Running, Sane
<1>1. CASE l.mark[datum] = 0
  <2>1. l.run = l.run /\ l.mark = [l.mark EXCEPT ![datum] = 0]
    BY <1>0, <1>1
  <2>2. QED
    BY <1>1, <2>1 DEF CALLBACK_DATA_
<1>2. CASE l.mark[datum] # 0
  <2> DEFINE c == [on |-> datum, data |-> SubSeq(l.data, l.mark[datum], end)]
             m == [l EXCEPT !.mark[datum] = 0, !.callbacks = Append(@, c)]
  <2>1. c \in Notice
    <3>1. SubSeq(l.data, l.mark[datum], end) \in Seq(Symbol)
      BY <1>0, <1>2, Piece
    <3>2. QED
      BY <3>1 DEF Notice
  <2>2. m \in Parser
    <3>1. PICK more \in Seq(Notice) : more = Append(l.callbacks, c)
      <4>1. l.callbacks \in Seq(Notice)
        BY <1>0, Fields
      <4> HIDE DEF c
      <4>2. Append(l.callbacks, c) \in Seq(Notice)
        BY <2>1, <4>1, Appended
      <4>3. QED
        BY <4>2
    <3>2. PICK marks \in [Data -> Nat] : marks = [l.mark EXCEPT ![datum] = 0]
      BY <1>0
    <3>3. m = [l EXCEPT !.mark = marks, !.callbacks = more]
      BY <3>1, <3>2
    <3>4. QED
      BY <1>0, <3>3 DEF Parser
  <2>3. /\ m.state = l.state /\ m.run = l.run /\ m.mark = [l.mark EXCEPT ![datum] = 0]
        /\ m.content_length = l.content_length
        /\ m.flags = l.flags /\ m.header_state = l.header_state /\ m.nread = l.nread
        /\ m.p = l.p /\ m.data = l.data /\ m.upgrade = l.upgrade /\ m.method = l.method
        /\ m.index = l.index
        /\ m.errno = l.errno /\ m.done = l.done
    <3> HIDE DEF c
    <3>1. QED
      BY <1>0 DEF Parser
  <2>4. \A d \in Data : m.mark[d] <= Len(m.data)
    BY <1>0, <2>3 DEF Running, Sane
  <2>5. Running(m, text)
    <3> HIDE DEF m
    <3>1. QED
      BY <2>2, <2>3, <2>4 DEF Running, Sane, Stopped
  <2>6. m = CALLBACK_DATA_(l, datum, end)
    BY <1>2 DEF CALLBACK_DATA_
  <2> HIDE DEF m
  <2>7. QED
    BY <2>3, <2>5, <2>6
<1>3. QED
  BY <1>1, <1>2

(* MARK changes one mark, to a place in the fragment. *)
LEMMA Marked ==
  ASSUME NEW text, NEW l, Running(l, text), NEW datum \in Data
  PROVE  LET m == MARK(l, datum) IN
         /\ Running(m, text) /\ m.state = l.state
         /\ \A d \in Data : d # datum => m.mark[d] = l.mark[d]
         /\ m.run = l.run
         /\ m.content_length = l.content_length
         /\ m.flags = l.flags /\ m.header_state = l.header_state /\ m.nread = l.nread
         /\ m.p = l.p /\ m.data = l.data /\ m.upgrade = l.upgrade /\ m.method = l.method
<1>0. l \in Parser /\ l.mark \in [Data -> Nat] /\ l.p \in Nat
  BY Fields DEF Running, Sane
<1>1. CASE l.mark[datum] # 0
  BY <1>1 DEF MARK
<1>2. CASE l.mark[datum] = 0
  <2> DEFINE m == [l EXCEPT !.mark[datum] = l.p]
  <2>2. m \in Parser
    BY <1>0 DEF Parser
  <2>3. /\ m.state = l.state /\ m.run = l.run /\ m.mark = [l.mark EXCEPT ![datum] = l.p]
        /\ m.content_length = l.content_length
        /\ m.flags = l.flags /\ m.header_state = l.header_state /\ m.nread = l.nread
        /\ m.p = l.p /\ m.data = l.data /\ m.upgrade = l.upgrade /\ m.method = l.method
        /\ m.errno = l.errno /\ m.done = l.done
    BY <1>0 DEF Parser
  <2>6. m = MARK(l, datum)
    BY <1>2 DEF MARK
  <2> HIDE DEF m
  <2>4. \A d \in Data : m.mark[d] <= Len(m.data)
    BY <1>0, <2>3 DEF Running, Sane
  <2>5. Running(m, text)
    BY <2>2, <2>3, <2>4 DEF Running, Sane, Stopped
  <2>7. QED
    BY <1>0, <2>3, <2>5, <2>6
<1>3. QED
  BY <1>1, <1>2

-----------------------------------------------------------------------------

(* A parser that may take a symbol is good, but for the count at the start *)
(* of a chunk.                                                             *)
LEMMA Stays ==
  ASSUME NEW text, NEW l, Ready(l, text), l.state # "chunk_size_start"
  PROVE  Good(l, text)
BY DEF Ready, Running, Good

(* Only in a URL, a header or a body is a mark set. *)
LEMMA Unmarked ==
  ASSUME NEW text, NEW l, Ready(l, text),
         l.state \notin UrlStates \cup {"header_field", "header_value", "body_identity",
                                        "chunk_data", "chunk_data_almost_done"}
  PROVE  Quiet(l)
BY DEF Ready, Lengths, Marks, Quiet, Unmarking, Data

(* No marks fit any state. *)
LEMMA QuietMarks ==
  ASSUME NEW l, Quiet(l), NEW s
  PROVE  Marks(s, l.mark)
BY DEF Marks, Quiet, Unmarking, Data

(* Without marks the parser may go to any state that asks for nothing. *)
LEMMA Goes ==
  ASSUME NEW text, NEW l, Running(l, text), Quiet(l), NEW s \in Plain
  PROVE  LET m == UPDATE_STATE(l, s) IN Good(m, text) /\ Ready(m, text) /\ Quiet(m)
<1>1. s \in AnyState
  BY DEF Plain, AnyState
<1>2. PICK m : m = UPDATE_STATE(l, s)
  OBVIOUS
<1>3. Running(m, text) /\ m.state = s /\ m.mark = l.mark /\ m.run = l.run
  BY <1>1, <1>2, StateSet
<1>4. Quiet(m)
  BY <1>3 DEF Quiet, Unmarking
<1>5. Lengths(s, m)
  BY <1>3 DEF Lengths, Plain, ChunkStates, Quiet
<1>6. s # "chunk_size_start"
  BY DEF Plain, ChunkStates
<1>7. Ready(m, text)
  BY <1>3, <1>4, <1>5, QuietMarks DEF Ready
<1>8. QED
  BY <1>2, <1>3, <1>4, <1>6, <1>7, Stays

(* A new count changes nothing else. *)
LEMMA Recounts ==
  ASSUME NEW text, NEW l, Running(l, text), NEW n \in 0 .. MaxHeaderSize
  PROVE  LET m == [l EXCEPT !.nread = n] IN
         /\ Running(m, text) /\ m.state = l.state /\ m.mark = l.mark /\ m.run = l.run
         /\ m.content_length = l.content_length
         /\ m.flags = l.flags /\ m.header_state = l.header_state /\ m.nread = n
         /\ m.p = l.p /\ m.data = l.data /\ m.upgrade = l.upgrade /\ m.method = l.method
<1> DEFINE m == [l EXCEPT !.nread = n]
<1>0. n \in Nat
  BY ParserConstants
<1>1. m \in Parser
  BY <1>0 DEF Running, Sane, Parser
<1>2. /\ m.state = l.state /\ m.mark = l.mark /\ m.run = l.run
      /\ m.content_length = l.content_length
      /\ m.flags = l.flags /\ m.header_state = l.header_state /\ m.nread = n
      /\ m.p = l.p /\ m.data = l.data /\ m.upgrade = l.upgrade /\ m.method = l.method
      /\ m.errno = l.errno /\ m.done = l.done
  BY DEF Running, Sane, Parser
<1> HIDE DEF m
<1>3. Running(m, text)
  BY <1>1, <1>2, ParserConstants DEF Running, Sane, Stopped
<1>4. QED
  BY <1>2, <1>3 DEF m

(* COUNT_HEADER_SIZE counts; if that is too much, it is an error. *)
LEMMA Counts ==
  ASSUME NEW text, NEW l, Running(l, text), NEW v \in Nat,
         NEW m, m = COUNT_HEADER_SIZE(l, v)
  PROVE  /\ Sane(m, text)
         /\ m.errno = IF l.nread + v > MaxHeaderSize THEN "HEADER_OVERFLOW" ELSE "OK"
         /\ Stopped(m) \/ Running(m, text)
         /\ m.nread = l.nread + v /\ ~m.done
         /\ m.state = l.state /\ m.mark = l.mark /\ m.run = l.run /\ m.index = l.index
         /\ m.content_length = l.content_length
         /\ m.flags = l.flags /\ m.header_state = l.header_state
         /\ m.p = l.p /\ m.data = l.data /\ m.upgrade = l.upgrade /\ m.method = l.method
<1>0. l \in Parser /\ l.nread \in Nat /\ l.errno = "OK" /\ ~l.done /\ l.done \in BOOLEAN
  BY Fields DEF Running, Sane, Stopped
<1>1. PICK n \in Nat : n = l.nread + v
  BY <1>0
<1>2. PICK e \in Error : e = IF n > MaxHeaderSize THEN "HEADER_OVERFLOW" ELSE "OK"
  BY DEF Error
<1>3. PICK k : k = [[l EXCEPT !.nread = n] EXCEPT !.errno = e]
  OBVIOUS
<1>4. k \in Parser
  BY <1>0, <1>3 DEF Parser
<1>5. /\ k.state = l.state /\ k.mark = l.mark /\ k.run = l.run /\ k.index = l.index
      /\ k.content_length = l.content_length
      /\ k.flags = l.flags /\ k.header_state = l.header_state /\ k.nread = n
      /\ k.p = l.p /\ k.data = l.data /\ k.upgrade = l.upgrade /\ k.method = l.method
      /\ k.errno = e /\ k.done = l.done
  BY <1>0, <1>3 DEF Parser
<1>6. m = k
  <2>1. PICK a : a = [l EXCEPT !.nread = n]
    OBVIOUS
  <2>2. a.nread = n /\ a.errno = "OK" /\ a \in Parser
    BY <1>0, <2>1 DEF Parser
  <2>3. a = [l EXCEPT !.nread = @ + v]
    BY <1>1, <2>1
  <2>4. m = IF n > MaxHeaderSize THEN SET_ERRNO(a, "HEADER_OVERFLOW") ELSE a
    BY <2>2, <2>3 DEF COUNT_HEADER_SIZE
  <2>5. CASE n > MaxHeaderSize
    BY <1>2, <1>3, <2>1, <2>4, <2>5 DEF SET_ERRNO
  <2>6. CASE ~(n > MaxHeaderSize)
    <3>1. k = [a EXCEPT !.errno = a.errno]
      BY <1>2, <1>3, <2>1, <2>2, <2>6
    <3>2. k = a
      BY <2>2, <3>1 DEF Parser
    <3>3. QED
      BY <2>4, <2>6, <3>2
  <2>7. QED
    BY <2>5, <2>6
<1>7. k.errno = "OK" => k.nread <= MaxHeaderSize
  BY <1>2, <1>5, ParserConstants
<1>8. Sane(k, text)
  BY <1>0, <1>4, <1>5, <1>7 DEF Running, Sane
<1>9. QED
  BY <1>0, <1>1, <1>2, <1>5, <1>6, <1>8 DEF Running, Stopped

(* A run takes one symbol more. *)
LEMMA RunGoes ==
  ASSUME NEW text, NEW l, Running(l, text), NEW m, m = RunGoesOn(l)
  PROVE  /\ Running(m, text) /\ m.run = l.run + 1 /\ m.run # 0
         /\ m.state = l.state /\ m.mark = l.mark /\ m.index = l.index
         /\ m.content_length = l.content_length /\ m.nread = l.nread
         /\ m.flags = l.flags /\ m.header_state = l.header_state /\ m.skipping = l.skipping
         /\ m.p = l.p /\ m.data = l.data /\ m.upgrade = l.upgrade /\ m.method = l.method
<1>1. l \in Parser /\ l.run \in Nat
  BY Fields DEF Running, Sane
<1>2. PICK n \in Nat \ {0} : n = l.run + 1
  BY <1>1
<1>3. m = [l EXCEPT !.run = n]
  BY <1>2 DEF RunGoesOn
<1>4. m \in Parser
  BY <1>1, <1>3 DEF Parser
<1>5. /\ m.state = l.state /\ m.mark = l.mark /\ m.run = n /\ m.index = l.index
      /\ m.content_length = l.content_length /\ m.skipping = l.skipping
      /\ m.flags = l.flags /\ m.header_state = l.header_state /\ m.nread = l.nread
      /\ m.p = l.p /\ m.data = l.data /\ m.upgrade = l.upgrade /\ m.method = l.method
      /\ m.errno = l.errno /\ m.done = l.done
  BY <1>1, <1>3 DEF Parser
<1>6. Running(m, text)
  BY <1>1, <1>4, <1>5 DEF Running, Sane, Stopped
<1>7. QED
  BY <1>2, <1>5, <1>6

(* The end of a run counts what has not been counted of it. *)
LEMMA RunsEnd ==
  ASSUME NEW text, NEW l, Running(l, text), l.run # 0, NEW m, m = RunEnds(l)
  PROVE  /\ Sane(m, text) /\ m.run = 0
         /\ l.run - 1 \in Nat /\ m.nread = l.nread + (l.run - 1)
         /\ m.errno = IF m.nread > MaxHeaderSize THEN "HEADER_OVERFLOW" ELSE "OK"
         /\ Stopped(m) \/ Running(m, text)
         /\ m.state = l.state /\ m.mark = l.mark /\ ~m.done /\ m.index = l.index
         /\ m.content_length = l.content_length
         /\ m.flags = l.flags /\ m.header_state = l.header_state
         /\ m.p = l.p /\ m.data = l.data /\ m.upgrade = l.upgrade /\ m.method = l.method
<1>0. l \in Parser /\ l.run \in Nat
  BY Fields DEF Running, Sane
<1>1. PICK v \in Nat : v = l.run - 1
  BY <1>0
<1>2. PICK k : k = [l EXCEPT !.run = 0]
  OBVIOUS
<1>3. k \in Parser
  BY <1>0, <1>2 DEF Parser
<1>4. /\ k.state = l.state /\ k.mark = l.mark /\ k.run = 0 /\ k.index = l.index
      /\ k.content_length = l.content_length
      /\ k.flags = l.flags /\ k.header_state = l.header_state /\ k.nread = l.nread
      /\ k.p = l.p /\ k.data = l.data /\ k.upgrade = l.upgrade /\ k.method = l.method
      /\ k.errno = l.errno /\ k.done = l.done
  BY <1>0, <1>2 DEF Parser
<1>5. Running(k, text)
  BY <1>0, <1>3, <1>4 DEF Running, Sane, Stopped
<1>6. m = COUNT_HEADER_SIZE(k, v)
  BY <1>1, <1>2 DEF RunEnds
<1>7. /\ Sane(m, text)
      /\ m.errno = IF k.nread + v > MaxHeaderSize THEN "HEADER_OVERFLOW" ELSE "OK"
      /\ Stopped(m) \/ Running(m, text)
      /\ m.nread = k.nread + v /\ ~m.done
      /\ m.state = k.state /\ m.mark = k.mark /\ m.run = k.run /\ m.index = k.index
      /\ m.content_length = k.content_length
      /\ m.flags = k.flags /\ m.header_state = k.header_state
      /\ m.p = k.p /\ m.data = k.data /\ m.upgrade = k.upgrade /\ m.method = k.method
  BY <1>5, <1>6, Counts
<1>8. QED
  BY <1>1, <1>4, <1>7

(* The call may end where a message ends. *)
LEMMA Ends ==
  ASSUME NEW text, NEW l, Ready(l, text), Quiet(l), l.state # "chunk_size_start",
         NEW v \in BOOLEAN, v => l.upgrade
  PROVE  Good([l EXCEPT !.done = v], text)
<1>1. CASE v
  <2> DEFINE m == [l EXCEPT !.done = v]
  <2>1. m \in Parser
    BY DEF Ready, Running, Sane, Parser
  <2>2. /\ m.mark = l.mark /\ m.run = l.run /\ m.p = l.p /\ m.data = l.data /\ m.upgrade = l.upgrade
        /\ m.done = v /\ m.nread = l.nread /\ m.errno = l.errno
    BY DEF Ready, Running, Sane, Parser
  <2> HIDE DEF m
  <2>3. Stopped(m)
    BY <1>1, <2>2 DEF Stopped
  <2>4. Good(m, text)
    BY <1>1, <2>1, <2>2, <2>3 DEF Good, Ready, Running, Sane
  <2>5. QED
    BY <2>4 DEF m
<1>2. CASE ~v
  <2>1. l \in Parser /\ ~l.done
    BY DEF Ready, Running, Sane, Stopped
  <2>2. l.done = v
    BY <1>2, <2>1, Fields
  <2>3. [l EXCEPT !.done = v] = l
    BY <2>1, <2>2 DEF Parser
  <2>4. QED
    BY <2>3, Stays
<1>3. QED
  BY <1>1, <1>2

(* message_complete goes to the start of the next message, or to dead. *)
LEMMA Completed ==
  ASSUME NEW text, NEW l, Running(l, text), Quiet(l)
  PROVE  LET m == message_complete(l) IN
         /\ Ready(m, text) /\ Quiet(m) /\ m.upgrade = l.upgrade
         /\ m.state \in {"start_req", "dead"}
<1>1. PICK s \in {"start_req", "dead"} : s = NEW_MESSAGE(l)
  BY DEF NEW_MESSAGE
<1>2. s \in Plain
  <2>1. s \in State
    BY DEF State, LineStates
  <2>2. QED
    BY <2>1 DEF Plain, ChunkStates
<1>3. PICK a : a = UPDATE_STATE(l, s)
  OBVIOUS
<1>a. s \in AnyState
  BY <1>2 DEF Plain, AnyState
<1>4. Running(a, text) /\ a.state = s /\ a.mark = l.mark /\ a.run = l.run /\ a.upgrade = l.upgrade
  BY <1>a, <1>3, StateSet
<1>5. PICK m : m = CALLBACK_NOTIFY(a, "message_complete")
  OBVIOUS
<1>6. "message_complete" \in DOMAIN NotifiedState
  BY DEF NotifiedState
<1>7. Running(m, text) /\ m.state = a.state /\ m.mark = a.mark /\ m.run = a.run /\ m.upgrade = a.upgrade
  BY <1>4, <1>5, <1>6, Notified
<1>8. Quiet(m)
  BY <1>4, <1>7 DEF Quiet, Unmarking
<1>9. Lengths(m.state, m)
  BY <1>2, <1>4, <1>7, <1>8 DEF Lengths, Plain, ChunkStates, Quiet
<1>10. Ready(m, text)
  BY <1>7, <1>8, <1>9, QuietMarks DEF Ready
<1>11. m = message_complete(l)
  BY <1>1, <1>3, <1>5 DEF message_complete
<1>12. QED
  BY <1>4, <1>7, <1>8, <1>10, <1>11

(* message_done does so too, and ends the call after an upgrade. *)
LEMMA Finished ==
  ASSUME NEW text, NEW l, Running(l, text), Quiet(l)
  PROVE  Good(message_done(l), text)
<1>1. PICK m : m = message_complete(l)
  OBVIOUS
<1>2. /\ Ready(m, text) /\ Quiet(m) /\ m.upgrade = l.upgrade
      /\ m.state \in {"start_req", "dead"}
  BY <1>1, Completed
<1>3. l.upgrade \in BOOLEAN
  BY Fields DEF Running, Sane
<1>4. Good([m EXCEPT !.done = l.upgrade], text)
  BY <1>2, <1>3, Ends
<1>5. QED
  BY <1>1, <1>4 DEF message_done

(* The end of the headers starts the body that they promise. *)
LEMMA headers_doneGood ==
  ASSUME NEW text, NEW l, Running(l, text), Quiet(l)
  PROVE  Good(headers_done(l), text)
<1>1. PICK m : m = [l EXCEPT !.nread = 0]
  OBVIOUS
<1>2. Running(m, text) /\ m.mark = l.mark /\ m.run = l.run /\ m.nread = 0
  BY <1>1, Recounts, ParserConstants
<1>3. Quiet(m)
  BY <1>2 DEF Quiet, Unmarking
<1> DEFINE over    == m.upgrade /\ (m.method = "CONNECT" \/ ~hasBody(m))
           chunked == "CHUNKED" \in m.flags
           body    == hasBody(m)
           ended   == [message_complete(m) EXCEPT !.done = TRUE]
           chunks  == UPDATE_STATE(m, "chunk_size_start")
           plain   == UPDATE_STATE(m, "body_identity")
           none    == message_complete(m)
<1>a. headers_done(l) =
        IF over THEN ended ELSE IF chunked THEN chunks ELSE IF body THEN plain ELSE none
  BY <1>1 DEF headers_done
<1>b. /\ over => headers_done(l) = ended
      /\ ~over /\ chunked => headers_done(l) = chunks
      /\ ~over /\ ~chunked /\ body => headers_done(l) = plain
      /\ ~over /\ ~chunked /\ ~body => headers_done(l) = none
  <2> HIDE DEF over, chunked, body, ended, chunks, plain, none
  <2>1. QED
    BY <1>a
<1>4. CASE over
  <2>1. PICK n : n = message_complete(m)
    OBVIOUS
  <2>2. Ready(n, text) /\ Quiet(n) /\ n.upgrade = m.upgrade /\ n.state \in {"start_req", "dead"}
    BY <1>2, <1>3, <2>1, Completed
  <2>3. n.upgrade /\ n.state # "chunk_size_start"
    BY <1>4, <2>2
  <2>4. Good([n EXCEPT !.done = TRUE], text)
    BY <2>2, <2>3, Ends
  <2>5. QED
    BY <1>b, <1>4, <2>1, <2>4
<1>5. CASE ~over /\ chunked
  <2>1. PICK n : n = UPDATE_STATE(m, "chunk_size_start")
    OBVIOUS
  <2>a. "chunk_size_start" \in AnyState
    BY DEF AnyState, State, ChunkStates
  <2>2. /\ Running(n, text) /\ n.state = "chunk_size_start" /\ n.mark = m.mark /\ n.run = m.run
        /\ n.flags = m.flags /\ n.nread = 0
    BY <1>2, <2>1, <2>a, StateSet
  <2>3. Quiet(n)
    BY <1>3, <2>2 DEF Quiet, Unmarking
  <2>4. Lengths(n.state, n)
    BY <1>5, <2>2, <2>3 DEF Quiet, Lengths, State, ChunkStates
  <2>5. Good(n, text)
    BY <2>2, <2>3, <2>4, QuietMarks DEF Good, Running
  <2>6. QED
    BY <1>b, <1>5, <2>1, <2>5
<1>6. CASE ~over /\ ~chunked /\ body
  <2>1. PICK n : n = UPDATE_STATE(m, "body_identity")
    OBVIOUS
  <2>a. "body_identity" \in AnyState
    BY DEF AnyState, State, ChunkStates
  <2>2. /\ Running(n, text) /\ n.state = "body_identity" /\ n.mark = m.mark /\ n.run = m.run
        /\ n.content_length = m.content_length
    BY <1>2, <2>1, <2>a, StateSet
  <2>3. Quiet(n)
    BY <1>3, <2>2 DEF Quiet, Unmarking
  <2>4. Lengths(n.state, n)
    BY <1>6, <2>2, <2>3 DEF Quiet, Lengths, State, ChunkStates, hasBody
  <2>5. Good(n, text)
    BY <2>2, <2>3, <2>4, QuietMarks DEF Good, Running
  <2>6. QED
    BY <1>b, <1>6, <2>1, <2>5
<1>7. CASE ~over /\ ~chunked /\ ~body
  BY <1>2, <1>3, <1>7, <1>b, Completed, Stays
<1>8. QED
  BY <1>4, <1>5, <1>6, <1>7

-----------------------------------------------------------------------------

(* What is left alone decides whether a parser is still in its fragment. *)
LEMMA Follows ==
  ASSUME NEW text, NEW l, Running(l, text), NEW m \in Parser, m.p = l.p, m.data = l.data,
         m.errno = l.errno, m.done = l.done, m.nread \in {0, l.nread},
         m.mark = l.mark /\ m.run = l.run
  PROVE  Running(m, text)
BY ParserConstants DEF Running, Sane, Stopped

(* The last line feed of the headers, or of the trailer. *)
LEMMA headers_almost_doneGood ==
  ASSUME NEW text, NEW l, Running(l, text), Quiet(l), NEW ch
  PROVE  Good(headers_almost_done(l, ch), text)
<1>1. CASE ch # "LF"
  <2>1. Good(SET_ERRNO(l, "STRICT"), text)
    BY Errs DEF Error
  <2>2. QED
    BY <1>1, <2>1 DEF headers_almost_done, STRICT_CHECK
<1>2. CASE ch = "LF" /\ "TRAILING" \in l.flags
  <2>1. PICK a : a = UPDATE_STATE(l, "message_done")
    OBVIOUS
  <2>2. "message_done" \in AnyState /\ "chunk_complete" \in DOMAIN NotifiedState
    BY DEF AnyState, NotifiedState
  <2>3. Running(a, text) /\ a.mark = l.mark /\ a.run = l.run
    BY <2>1, <2>2, StateSet
  <2>4. PICK b : b = CALLBACK_NOTIFY(a, "chunk_complete")
    OBVIOUS
  <2>5. Running(b, text) /\ b.mark = l.mark /\ b.run = l.run
    BY <2>2, <2>3, <2>4, Notified
  <2>6. Quiet(b)
    BY <2>5 DEF Quiet, Unmarking
  <2>7. Good(message_done(b), text)
    BY <2>5, <2>6, Finished
  <2>8. QED
    BY <1>2, <2>1, <2>4, <2>7 DEF headers_almost_done, STRICT_CHECK
<1>3. CASE ch = "LF" /\ "TRAILING" \notin l.flags /\ {"CHUNKED", "CONTENTLENGTH"} \subseteq l.flags
  <2>1. Good(SET_ERRNO(l, "UNEXPECTED_CONTENT_LENGTH"), text)
    BY Errs DEF Error
  <2>2. QED
    BY <1>3, <2>1 DEF headers_almost_done, STRICT_CHECK
<1>4. CASE /\ ch = "LF" /\ "TRAILING" \notin l.flags
           /\ ~({"CHUNKED", "CONTENTLENGTH"} \subseteq l.flags)
  <2>1. PICK u \in BOOLEAN : u = (\/ {"UPGRADE", "CONNECTION_UPGRADE"} \subseteq l.flags
                                  \/ l.method = "CONNECT")
    OBVIOUS
  <2>2. PICK a : a = [l EXCEPT !.state = "headers_done", !.upgrade = u]
    OBVIOUS
  <2>3. "headers_done" \in AnyState /\ "headers_complete" \in DOMAIN NotifiedState
    BY DEF AnyState, NotifiedState
  <2>4. a \in Parser
    BY <2>2, <2>3 DEF Running, Sane, Parser
  <2>5. a.mark = l.mark /\ a.run = l.run /\ a.p = l.p /\ a.data = l.data /\ a.errno = l.errno
        /\ a.done = l.done /\ a.nread = l.nread
    BY <2>2 DEF Running, Sane, Parser
  <2>6. Running(a, text)
    BY <2>4, <2>5, Follows
  <2>7. PICK b : b = CALLBACK_NOTIFY(a, "headers_complete")
    OBVIOUS
  <2>8. Running(b, text) /\ b.mark = l.mark /\ b.run = l.run
    BY <2>3, <2>5, <2>6, <2>7, Notified
  <2>9. Quiet(b)
    BY <2>8 DEF Quiet, Unmarking
  <2>10. Good(headers_done(b), text)
    BY <2>8, <2>9, headers_doneGood
  <2>11. headers_almost_done(l, ch) = headers_done(b)
    BY <1>4, <2>1, <2>2, <2>7 DEF headers_almost_done, STRICT_CHECK
  <2>12. QED
    BY <2>10, <2>11
<1>5. QED
  BY <1>1, <1>2, <1>3, <1>4

(* The first symbol of a line of the headers. *)
LEMMA header_field_startGood ==
  ASSUME NEW text, NEW l, Running(l, text), Quiet(l), NEW ch
  PROVE  Good(header_field_start(l, ch), text)
<1>1. CASE ch = "CR"
  <2>1. "headers_almost_done" \in Plain
    BY DEF Plain, State, HeaderStates, ChunkStates
  <2>2. QED
    BY <1>1, <2>1, Goes DEF header_field_start, Token, AlphaNum, Alpha, Num, Number, Words, Mark
<1>2. CASE ch = "LF"
  BY <1>2, headers_almost_doneGood
     DEF header_field_start, Token, AlphaNum, Alpha, Num, Number, Words, Mark
<1>3. CASE ch \notin {"CR", "LF"} /\ ch \in Token
  <2>1. PICK k : k = CASE ch = "con"       -> "h_CON"
                       [] ch = "transfer-" -> "h_matching_transfer_encoding"
                       [] ch = "up"        -> "h_matching_upgrade"
                       [] ch = "proxy-"    -> "h_matching_proxy_connection"
                       [] OTHER            -> "h_general"
    OBVIOUS
  <2>2. k \in FieldStates
    BY <2>1 DEF FieldStates
  <2>3. k \in HeaderState
    BY <2>2 DEF HeaderState
  <2>4. PICK a : a = MARK(l, "header_field")
    OBVIOUS
  <2>5. "header_field" \in Data
    BY DEF Data
  <2>6. /\ Running(a, text)
        /\ \A d \in Data : d # "header_field" => a.mark[d] = l.mark[d]
    BY <2>4, <2>5, Marked
  <2>7. PICK m : m = [a EXCEPT !.state = "header_field", !.header_state = k]
    OBVIOUS
  <2>8. "header_field" \in AnyState /\ "header_field" \in State
    BY DEF AnyState, State, HeaderStates
  <2>9. m \in Parser
    BY <2>3, <2>6, <2>7, <2>8 DEF Running, Sane, Parser
  <2>10. /\ m.p = a.p /\ m.data = a.data /\ m.errno = a.errno /\ m.done = a.done /\ m.nread = a.nread
         /\ m.mark = a.mark /\ m.run = a.run /\ m.state = "header_field" /\ m.header_state = k
    BY <2>6, <2>7 DEF Running, Sane, Parser
  <2>11. Running(m, text)
    BY <2>6, <2>9, <2>10, Follows
  <2>12. Lengths(m.state, m)
    BY <2>2, <2>8, <2>10 DEF Lengths, ChunkStates
  <2>13. Marks(m.state, m.mark)
    BY <2>6, <2>10 DEF Marks, Quiet, Unmarking, Data
  <2>14. Good(m, text)
    BY <2>10, <2>11, <2>12, <2>13, Stays DEF Ready
  <2>15. header_field_start(l, ch) = m
    BY <1>3, <2>1, <2>4, <2>7 DEF header_field_start
  <2>16. QED
    BY <2>14, <2>15
<1>4. CASE ch \notin {"CR", "LF"} /\ ch \notin Token
  BY <1>4, Errs DEF header_field_start, Error
<1>5. QED
  BY <1>1, <1>2, <1>3, <1>4

(* Only the kind of the header changes. *)
LEMMA KindSet ==
  ASSUME NEW text, NEW l, Running(l, text), NEW k \in HeaderState
  PROVE  LET m == [l EXCEPT !.header_state = k] IN
         /\ Running(m, text)
         /\ m.state = l.state /\ m.mark = l.mark /\ m.run = l.run
         /\ m.content_length = l.content_length /\ m.flags = l.flags
         /\ m.header_state = k /\ m.nread = l.nread /\ m.p = l.p /\ m.data = l.data
<1> DEFINE m == [l EXCEPT !.header_state = k]
<1>1. m \in Parser
  BY DEF Running, Sane, Parser
<1>2. /\ m.state = l.state /\ m.mark = l.mark /\ m.run = l.run
      /\ m.content_length = l.content_length /\ m.flags = l.flags
         /\ m.header_state = k /\ m.nread = l.nread /\ m.p = l.p /\ m.data = l.data
         /\ m.errno = l.errno /\ m.done = l.done
  BY DEF Running, Sane, Parser
<1> HIDE DEF m
<1>3. Running(m, text)
  BY <1>1, <1>2, Follows
<1>4. QED
  BY <1>2, <1>3 DEF m

(* Only the flags change. *)
LEMMA FlagsSet ==
  ASSUME NEW text, NEW l, Running(l, text), NEW f \in SUBSET Flag
  PROVE  LET m == [l EXCEPT !.flags = f] IN
         /\ Running(m, text)
         /\ m.state = l.state /\ m.mark = l.mark /\ m.run = l.run
         /\ m.content_length = l.content_length /\ m.flags = f
         /\ m.header_state = l.header_state /\ m.nread = l.nread /\ m.p = l.p /\ m.data = l.data
<1> DEFINE m == [l EXCEPT !.flags = f]
<1>1. m \in Parser
  BY DEF Running, Sane, Parser
<1>2. /\ m.state = l.state /\ m.mark = l.mark /\ m.run = l.run /\ m.content_length = l.content_length /\ m.flags = f
         /\ m.header_state = l.header_state /\ m.nread = l.nread /\ m.p = l.p /\ m.data = l.data
         /\ m.errno = l.errno /\ m.done = l.done
  BY DEF Running, Sane, Parser
<1> HIDE DEF m
<1>3. Running(m, text)
  BY <1>1, <1>2, Follows
<1>4. QED
  BY <1>2, <1>3 DEF m

(* HeaderSaid changes nothing but the flags. *)
LEMMA FlagsSaid ==
  ASSUME NEW text, NEW l, Running(l, text)
  PROVE  LET m == HeaderSaid(l) IN
         /\ Running(m, text) /\ m.state = l.state /\ m.mark = l.mark /\ m.run = l.run
         /\ m.content_length = l.content_length /\ m.header_state = l.header_state
         /\ m.p = l.p /\ m.data = l.data /\ m.nread = l.nread
<1>1. SaidBy(l.header_state) \subseteq Flag
  BY DEF SaidBy, Flag
<1>2. l.flags \subseteq Flag /\ l.header_state \in HeaderState /\ l.state \in AnyState
  BY Fields DEF Running, Sane
<1>3. PICK f \in SUBSET Flag : f = l.flags \cup SaidBy(l.header_state)
  BY <1>1, <1>2
<1>4. HeaderSaid(l) = [l EXCEPT !.flags = f]
  BY <1>3 DEF HeaderSaid
<1>5. QED
  BY <1>4, FlagsSet

(* The values of the digits. *)
LEMMA Digits ==
  ASSUME NEW ch \in Num
  PROVE  Number[ch] \in 0 .. 9
<1>1. ch \in {"0", "1", "2", "3", "4", "5", "6", "7", "8", "9"}
  BY DEF Num, Number
<1>2. QED
  BY <1>1 DEF Number

(* The first symbol of a Content-Length is a length. *)
LEMMA ContentLengthStartsGood ==
  ASSUME NEW text, NEW l, Running(l, text), NEW ch, l.state = "header_value", Marks(l.state, l.mark)
  PROVE  Good(ContentLengthStarts(l, ch), text)
<1>1. CASE ch \notin Num
  BY <1>1, Errs DEF ContentLengthStarts, Error
<1>2. CASE ch \in Num /\ "CONTENTLENGTH" \in l.flags
  BY <1>2, Errs DEF ContentLengthStarts, Error
<1>3. CASE ch \in Num /\ "CONTENTLENGTH" \notin l.flags
  <2>1. PICK n \in 0 .. MaxLength : n = Number[ch]
    BY <1>3, Digits, ParserConstants
  <2>2. PICK f \in SUBSET Flag : f = l.flags \cup {"CONTENTLENGTH"}
    BY Fields DEF Running, Sane, Flag
  <2>3. "h_content_length_num" \in HeaderState
    BY DEF HeaderState
  <2>4. PICK m : m = [l EXCEPT !.flags = f, !.content_length = n,
                               !.header_state = "h_content_length_num"]
    OBVIOUS
  <2>5. m \in Parser
    BY <2>3, <2>4 DEF Running, Sane, Parser
  <2>6. /\ m.p = l.p /\ m.data = l.data /\ m.errno = l.errno /\ m.done = l.done /\ m.nread = l.nread
        /\ m.mark = l.mark /\ m.run = l.run /\ m.state = "header_value" /\ m.header_state = "h_content_length_num"
    BY <2>4 DEF Running, Sane, Parser
  <2>7. Running(m, text)
    BY <2>5, <2>6, Follows
  <2>8. Lengths(m.state, m)
    BY <2>6 DEF Lengths, State, HeaderStates, ChunkStates
  <2>9. Good(m, text)
    BY <2>6, <2>7, <2>8, Stays DEF Ready
  <2>10. ContentLengthStarts(l, ch) = m
    BY <1>3, <2>1, <2>2, <2>4 DEF ContentLengthStarts
  <2>11. QED
    BY <2>9, <2>10
<1>4. QED
  BY <1>1, <1>2, <1>3

(* A token of a Connection header is of a kind that a value may have. *)
LEMMA Tokens ==
  ASSUME NEW ch
  PROVE  /\ ConnectionToken(ch) \in HeaderState
         /\ ConnectionToken(ch) \notin {"h_connection", "h_transfer_encoding"}
BY DEF ConnectionToken, HeaderState

(* A value under way whose kind changes to one that a value may have. *)
LEMMA ValueKind ==
  ASSUME NEW text, NEW l, Running(l, text), l.state = "header_value", Marks(l.state, l.mark),
         NEW k \in HeaderState \ {"h_connection", "h_transfer_encoding"}
  PROVE  Good([l EXCEPT !.header_state = k], text) /\ Ready([l EXCEPT !.header_state = k], text)
<1>2. PICK m : m = [l EXCEPT !.header_state = k]
  OBVIOUS
<1>4. Running(m, text) /\ m.state = "header_value" /\ m.header_state = k /\ m.mark = l.mark /\ m.run = l.run
  BY <1>2, KindSet
<1>5. Lengths(m.state, m)
  BY <1>4 DEF Lengths, State, HeaderStates, ChunkStates
<1>6. Ready(m, text)
  BY <1>4, <1>5 DEF Ready
<1>7. QED
  BY <1>2, <1>4, <1>6, Stays

(* The first symbol of a value: the kinds that only a name may have are    *)
(* gone.                                                                   *)
LEMMA header_value_startGood ==
  ASSUME NEW text, NEW l, Running(l, text), Quiet(l), NEW ch
  PROVE  Good(header_value_start(l, ch), text)
<1>1. PICK a : a = MARK(l, "header_value")
  OBVIOUS
<1>2. "header_value" \in Data
  BY DEF Data
<1>3. Running(a, text) /\ \A d \in Data : d # "header_value" => a.mark[d] = l.mark[d]
  BY <1>1, <1>2, Marked
<1>4. PICK m : m = [a EXCEPT !.state = "header_value", !.skipping = FALSE]
  OBVIOUS
<1>5. "header_value" \in AnyState
  BY DEF AnyState, State, HeaderStates
<1>6. m \in Parser
  BY <1>3, <1>4, <1>5 DEF Running, Sane, Parser
<1>7. /\ m.p = a.p /\ m.data = a.data /\ m.errno = a.errno /\ m.done = a.done /\ m.nread = a.nread
      /\ m.mark = a.mark /\ m.run = a.run /\ m.state = "header_value"
  BY <1>3, <1>4 DEF Running, Sane, Parser
<1>8. Running(m, text)
  BY <1>3, <1>6, <1>7, Follows
<1>9. Marks(m.state, m.mark)
  BY <1>3, <1>7 DEF Marks, Quiet, Unmarking, Data
<1>10. m.header_state \in HeaderState /\ m.flags \in SUBSET Flag
  BY <1>6, Fields
<1> DEFINE upgrade == [m EXCEPT !.flags = @ \cup {"UPGRADE"}, !.header_state = "h_general"]
           chunked == [m EXCEPT !.header_state = "h_matching_transfer_encoding_chunked"]
           tokens  == [m EXCEPT !.header_state = ConnectionToken(ch)]
           other   == [m EXCEPT !.header_state = "h_general"]
           hs      == m.header_state
<1>11. header_value_start(l, ch) =
         CASE hs = "h_upgrade" -> upgrade
           [] hs = "h_transfer_encoding" /\ ch = "chu" -> chunked
           [] hs = "h_content_length" -> ContentLengthStarts(m, ch)
           [] hs = "h_connection"     -> tokens
           [] hs \in {"h_content_length_ws", "h_matching_connection_token_start"} -> m
           [] OTHER -> other
  BY <1>1, <1>4 DEF header_value_start
<1>12. Good(ContentLengthStarts(m, ch), text)
  BY <1>7, <1>8, <1>9, ContentLengthStartsGood
<1>13. Good(chunked, text) /\ Good(other, text)
  BY <1>7, <1>8, <1>9, ValueKind DEF HeaderState, FieldStates
<1>14. Good(tokens, text)
  BY <1>7, <1>8, <1>9, ValueKind, Tokens
<1>15. Good(upgrade, text)
  <2>1. PICK f \in SUBSET Flag : f = m.flags \cup {"UPGRADE"}
    BY <1>10 DEF Flag
  <2>2. PICK n : n = [m EXCEPT !.flags = f, !.header_state = "h_general"]
    OBVIOUS
  <2>3. "h_general" \in HeaderState
    BY DEF HeaderState, FieldStates
  <2>4. n \in Parser
    BY <1>6, <2>2, <2>3 DEF Parser
  <2>5. /\ n.p = m.p /\ n.data = m.data /\ n.errno = m.errno /\ n.done = m.done /\ n.nread = m.nread
        /\ n.mark = m.mark /\ n.run = m.run /\ n.state = "header_value" /\ n.header_state = "h_general"
    BY <1>6, <1>7, <2>2 DEF Parser
  <2>6. Running(n, text)
    BY <1>8, <2>4, <2>5, Follows
  <2>7. Lengths(n.state, n)
    BY <2>5 DEF Lengths, State, HeaderStates, ChunkStates
  <2>8. QED
    BY <1>7, <1>9, <2>1, <2>2, <2>5, <2>6, <2>7, Stays DEF Ready
<1>16. CASE hs \in {"h_content_length_ws", "h_matching_connection_token_start"}
  <2>1. Lengths(m.state, m)
    BY <1>7, <1>16 DEF Lengths, State, HeaderStates, ChunkStates
  <2>2. Good(m, text)
    BY <1>7, <1>8, <1>9, <2>1, Stays DEF Ready
  <2>3. header_value_start(l, ch) = m
    <3> HIDE DEF upgrade, chunked, tokens, other
    <3>1. QED
      BY <1>11, <1>16
  <2>4. QED
    BY <2>2, <2>3
<1>17. CASE hs \notin {"h_content_length_ws", "h_matching_connection_token_start"}
  <2> HIDE DEF upgrade, chunked, tokens, other
  <2>1. header_value_start(l, ch) \in {upgrade, chunked, ContentLengthStarts(m, ch), tokens, other}
    BY <1>11, <1>17
  <2>2. QED
    BY <1>12, <1>13, <1>14, <1>15, <2>1
<1>18. QED
  BY <1>16, <1>17

(* The first symbol of the line after a value. *)
LEMMA header_value_lwsGood ==
  ASSUME NEW text, NEW l, Running(l, text), Quiet(l), NEW ch
  PROVE  Good(header_value_lws(l, ch), text)
<1>1. CASE ch \in {"SP", "TAB"}
  <2>1. l.header_state \in HeaderState /\ l.flags \in SUBSET Flag /\ l.state \in AnyState
    BY Fields DEF Running, Sane
  <2>2. PICK k \in HeaderState :
          k = IF l.header_state = "h_content_length_num" THEN "h_content_length_ws"
              ELSE l.header_state
    BY <2>1 DEF HeaderState
  <2>3. PICK m : m = [l EXCEPT !.header_state = k]
    OBVIOUS
  <2>5. Running(m, text) /\ m.mark = l.mark /\ m.run = l.run
    BY <2>3, KindSet
  <2>6. Quiet(m)
    BY <2>5 DEF Quiet, Unmarking
  <2>7. header_value_lws(l, ch) = header_value_start(m, ch)
    BY <1>1, <2>2, <2>3 DEF header_value_lws
  <2>8. QED
    BY <2>5, <2>6, <2>7, header_value_startGood
<1>2. CASE ch \notin {"SP", "TAB"}
  <2>1. PICK a : a = HeaderSaid(l)
    OBVIOUS
  <2>2. Running(a, text) /\ a.mark = l.mark /\ a.run = l.run
    BY <2>1, FlagsSaid
  <2>3. Quiet(a)
    BY <2>2 DEF Quiet, Unmarking
  <2>4. "header_field_start" \in Plain
    BY DEF Plain, State, HeaderStates, ChunkStates
  <2>5. PICK b : b = UPDATE_STATE(a, "header_field_start")
    OBVIOUS
  <2>6. Running(b, text) /\ Quiet(b)
    BY <2>2, <2>3, <2>4, <2>5, Goes DEF Ready
  <2>7. header_value_lws(l, ch) = header_field_start(b, ch)
    BY <1>2, <2>1, <2>5 DEF header_value_lws
  <2>8. QED
    BY <2>6, <2>7, header_field_startGood
<1>3. QED
  BY <1>1, <1>2

-----------------------------------------------------------------------------

(* What asks for nothing fits. *)
LEMMA PlainFits ==
  ASSUME NEW l, NEW s \in Plain, l.run = 0
  PROVE  Lengths(s, l)
BY DEF Lengths, Plain, ChunkStates

(* A datum that ends with a symbol leaves no mark. *)
LEMMA HandedOn ==
  ASSUME NEW text, NEW l, Running(l, text), NEW datum \in Data, Only(l, datum), NEW s \in State,
         Lengths(s, l), s \notin {"chunk_size_start", "req_method"}, l.run = 0
  PROVE  LET m == CALLBACK_DATA(UPDATE_STATE(l, s), datum) IN
         Good(m, text) /\ Ready(m, text) /\ Quiet(m) /\ m.state = s
<1>1. s \in AnyState
  BY DEF AnyState
<1>2. PICK a : a = UPDATE_STATE(l, s)
  OBVIOUS
<1>3. /\ Running(a, text) /\ a.state = s /\ a.mark = l.mark /\ a.run = l.run /\ a.content_length = l.content_length
      /\ a.flags = l.flags /\ a.header_state = l.header_state
  BY <1>1, <1>2, StateSet
<1>4. a.p - 1 \in Int /\ a.p - 1 <= Len(a.data) /\ a.mark \in [Data -> Nat]
  BY <1>3, Fields DEF Running, Sane
<1>5. PICK m : m = CALLBACK_DATA_(a, datum, a.p - 1)
  OBVIOUS
<1>6. /\ Running(m, text) /\ m.state = s /\ m.run = a.run /\ m.mark = [a.mark EXCEPT ![datum] = 0]
      /\ m.content_length = a.content_length /\ m.flags = a.flags
      /\ m.header_state = a.header_state
  BY <1>3, <1>4, <1>5, HandedOver
<1>7. Quiet(m)
  BY <1>3, <1>4, <1>6 DEF Quiet, Unmarking, Only
<1>8. Lengths(s, m)
  BY <1>3, <1>6 DEF Lengths
<1>9. Ready(m, text)
  BY <1>6, <1>7, <1>8, QuietMarks DEF Ready
<1>10. m = CALLBACK_DATA(UPDATE_STATE(l, s), datum)
  BY <1>2, <1>5 DEF CALLBACK_DATA
<1>11. QED
  BY <1>6, <1>7, <1>9, <1>10, Stays

(* A length changes nothing else. *)
LEMMA LengthSet ==
  ASSUME NEW text, NEW l, Running(l, text), NEW n \in 0 .. MaxLength
  PROVE  LET m == [l EXCEPT !.content_length = n] IN
         /\ Running(m, text) /\ m.state = l.state /\ m.mark = l.mark /\ m.run = l.run /\ m.content_length = n
         /\ m.flags = l.flags /\ m.header_state = l.header_state /\ m.nread = l.nread
         /\ m.p = l.p /\ m.data = l.data /\ m.upgrade = l.upgrade
<1> DEFINE m == [l EXCEPT !.content_length = n]
<1>1. m \in Parser
  BY DEF Running, Sane, Parser
<1>2. /\ m.state = l.state /\ m.mark = l.mark /\ m.run = l.run /\ m.content_length = n
      /\ m.flags = l.flags /\ m.header_state = l.header_state /\ m.nread = l.nread
      /\ m.p = l.p /\ m.data = l.data /\ m.errno = l.errno /\ m.done = l.done
      /\ m.upgrade = l.upgrade
  BY DEF Running, Sane, Parser
<1> HIDE DEF m
<1>3. Running(m, text)
  BY <1>1, <1>2, Follows
<1>4. QED
  BY <1>2, <1>3 DEF m

(* The test for overflow is enough: the next value is less than ULLONG_MAX. *)
LEMMA DigitFits ==
  ASSUME NEW base \in {10, 16}, NEW digit \in 0 .. 10, NEW n \in 0 .. MaxLength, digit < base,
         ~((MaxLength - base) \div base < n)
  PROVE  base * n + digit \in 0 .. MaxLength /\ base * n + digit # MaxLength
<1>1. CASE base = 10
  BY <1>1, ParserConstants
<1>2. CASE base = 16
  BY <1>2, ParserConstants
<1>3. QED
  BY <1>1, <1>2

(* One digit more of a length, decimal or hexadecimal. *)
LEMMA OneDigitMoreGood ==
  ASSUME NEW text, NEW l, Ready(l, text), NEW base \in {10, 16},
         NEW digit \in 0 .. 10, digit < base,
         l.state \in {"header_value", "chunk_size"}
  PROVE  Good(OneDigitMore(l, base, digit), text)
<1>1. CASE (MaxLength - base) \div base < l.content_length
  BY <1>1, Errs DEF OneDigitMore, Error, Ready
<1>2. CASE ~((MaxLength - base) \div base < l.content_length)
  <2>1. l.content_length \in 0 .. MaxLength
    BY Fields DEF Ready, Running, Sane
  <2>2. PICK n \in 0 .. MaxLength : n = base * l.content_length + digit
    BY <1>2, <2>1, DigitFits
  <2>3. n # MaxLength
    BY <1>2, <2>1, <2>2, DigitFits
  <2>4. PICK m : m = [l EXCEPT !.content_length = n]
    OBVIOUS
  <2>5. /\ Running(m, text) /\ m.state = l.state /\ m.mark = l.mark /\ m.run = l.run /\ m.content_length = n
        /\ m.flags = l.flags /\ m.header_state = l.header_state
    BY <2>4, LengthSet DEF Ready
  <2>6. Lengths(m.state, m)
    BY <2>3, <2>5 DEF Ready, Lengths
  <2>7. Ready(m, text)
    BY <2>5, <2>6 DEF Ready
  <2>8. Good(m, text)
    BY <2>5, <2>7, Stays
  <2>9. OneDigitMore(l, base, digit) = m
    BY <1>2, <2>2, <2>4 DEF OneDigitMore
  <2>10. QED
    BY <2>8, <2>9
<1>3. QED
  BY <1>1, <1>2

(* One symbol more of a value makes no kind of it that only a name may have. *)
LEMMA ValuesMatched ==
  ASSUME NEW hs \in HeaderState, NEW ch
  PROVE  ValueMatched(hs, ch) \in HeaderState \ {"h_connection", "h_transfer_encoding"}
<1> DEFINE S == HeaderState \ {"h_connection", "h_transfer_encoding"}
<1>1. ConnectionToken(ch) \in S
  BY Tokens
<1>2. /\ "h_general" \in S /\ "h_transfer_encoding_chunked" \in S
      /\ "h_connection_keep_alive" \in S /\ "h_connection_close" \in S
      /\ "h_connection_upgrade" \in S /\ "h_matching_connection_token_start" \in S
      /\ "h_matching_connection_token" \in S
  BY DEF HeaderState, FieldStates
<1> HIDE DEF S
<1>3. ValueMatched(hs, ch) \in S
  BY <1>1, <1>2 DEF ValueMatched
<1>4. QED
  BY <1>3 DEF S

(* One symbol more of a Content-Length. *)
LEMMA ContentLengthGoesOnGood ==
  ASSUME NEW text, NEW l, Ready(l, text), NEW ch, l.state = "header_value"
  PROVE  Good(ContentLengthGoesOn(l, ch), text)
<1>1. "SP" \notin Num
  BY DEF Num, Number
<1>2. CASE ch = "SP"
  BY <1>1, <1>2, ValueKind DEF ContentLengthGoesOn, HeaderState, Ready
<1>3. CASE ch # "SP" /\ ch \in Num /\ l.header_state = "h_content_length_num"
  <2>1. Number[ch] \in 0 .. 10 /\ Number[ch] < 10
    BY <1>3, Digits
  <2>2. Good(OneDigitMore(l, 10, Number[ch]), text)
    BY <2>1, OneDigitMoreGood
  <2>3. QED
    BY <1>3, <2>2 DEF ContentLengthGoesOn
<1>4. CASE ch # "SP" /\ ~(ch \in Num /\ l.header_state = "h_content_length_num")
  BY <1>4, Errs DEF ContentLengthGoesOn, Error, Ready
<1>5. QED
  BY <1>2, <1>3, <1>4

(* The line feed after a value. *)
LEMMA header_almost_doneGood ==
  ASSUME NEW text, NEW l, Running(l, text), Quiet(l), NEW ch
  PROVE  Good(header_almost_done(l, ch), text)
<1>1. "header_value_lws" \in Plain
  BY DEF Plain, State, HeaderStates, ChunkStates
<1>2. QED
  BY <1>1, Errs, Goes DEF header_almost_done, Error

(* One symbol more of a run of a value, that does not end it. *)
LEMMA ValueRunGood ==
  ASSUME NEW text, NEW l, Ready(l, text), NEW ch, l.state = "header_value"
  PROVE  Good(ValueRun(l, ch), text)
<1>7. CASE ch = "ctl" /\ ~l.skipping
  BY <1>7, Errs DEF ValueRun, Error, Ready
<1>8. CASE ~(ch = "ctl" /\ ~l.skipping)
  <2> DEFINE length == l.header_state \in {"h_content_length_num", "h_content_length_ws"}
             other  == [ValueGoesOn(l, ch) EXCEPT !.skipping = (l.header_state = "h_general")]
  <2>1. ValueRun(l, ch) = IF length THEN ContentLengthGoesOn(l, ch) ELSE other
    BY <1>8 DEF ValueRun
  <2>2. CASE length
    BY <2>1, <2>2, ContentLengthGoesOnGood
  <2>3. CASE ~length
    <3>1. PICK b : b = IF ch = "," /\ l.header_state # "h_transfer_encoding_chunked"
                       THEN HeaderSaid(l) ELSE l
      OBVIOUS
    <3>2. /\ Running(b, text) /\ b.state = l.state /\ b.mark = l.mark /\ b.run = l.run
          /\ b.header_state = l.header_state
      BY <3>1, FlagsSaid DEF Ready
    <3>3. PICK k \in HeaderState \ {"h_connection", "h_transfer_encoding"} :
             k = ValueMatched(b.header_state, ch)
      BY <3>2, ValuesMatched, Fields DEF Running, Sane
    <3>4. PICK c : c = [b EXCEPT !.header_state = k]
      OBVIOUS
    <3>5. Ready(c, text)
      BY <3>2, <3>4, ValueKind DEF Ready
    <3>6. c = ValueGoesOn(l, ch)
      BY <3>1, <3>3, <3>4 DEF ValueGoesOn
    <3>7. c.state = "header_value"
      BY <3>2, <3>4, KindSet
    <3>8. PICK v \in BOOLEAN : v = (l.header_state = "h_general")
      OBVIOUS
    <3>9. PICK d : d = [c EXCEPT !.skipping = v]
      OBVIOUS
    <3>10. d \in Parser
      BY <3>5, <3>9 DEF Ready, Running, Sane, Parser
    <3>11. /\ d.p = c.p /\ d.data = c.data /\ d.errno = c.errno /\ d.done = c.done
           /\ d.mark = c.mark /\ d.run = c.run /\ d.nread = c.nread
           /\ d.state = c.state /\ d.header_state = c.header_state
           /\ d.content_length = c.content_length /\ d.flags = c.flags
      BY <3>5, <3>9 DEF Ready, Running, Sane, Parser
    <3>12. Running(d, text)
      BY <3>5, <3>10, <3>11, Follows DEF Ready
    <3>13. Lengths(d.state, d) /\ Marks(d.state, d.mark)
      BY <3>5, <3>7, <3>11 DEF Ready, Lengths
    <3>14. Good(d, text)
      BY <3>7, <3>11, <3>12, <3>13, Stays DEF Ready
    <3>15. other = d
      BY <3>6, <3>8, <3>9
    <3> HIDE DEF other
    <3>16. QED
      BY <2>1, <2>3, <3>14, <3>15
  <2>4. QED
    BY <2>2, <2>3
<1>9. QED
  BY <1>7, <1>8

(* A parser without marks whose run has ended is good. *)
LEMMA RunEndsGood ==
  ASSUME NEW text, NEW l, Running(l, text), Unmarking(l), l.state \in Plain,
         l.run # 0, NEW m, m = RunEnds(l)
  PROVE  Good(m, text) /\ (Stopped(m) \/ (Running(m, text) /\ Quiet(m)))
<1>0. Running(l, text) /\ l.run # 0 /\ m = RunEnds(l)
  OBVIOUS
<1>1. /\ Sane(m, text) /\ m.run = 0 /\ m.state = l.state /\ m.mark = l.mark
      /\ Stopped(m) \/ Running(m, text)
  BY ONLY <1>0, RunsEnd
<1>2. Quiet(m)
  BY <1>1 DEF Quiet, Unmarking
<1>3. CASE Stopped(m)
  BY <1>1, <1>3 DEF Good
<1>4. CASE ~Stopped(m)
  <2>1. Lengths(m.state, m)
    BY <1>1, PlainFits
  <2>2. Marks(m.state, m.mark)
    BY <1>2, QuietMarks
  <2>3. m.state # "chunk_size_start"
    BY <1>1 DEF Plain, ChunkStates
  <2>4. QED
    BY <1>1, <1>2, <1>4, <2>1, <2>2, <2>3 DEF Good
<1>5. QED
  BY <1>3, <1>4

(* The end of a value, and of its run. *)
LEMMA ValueEndsGood ==
  ASSUME NEW text, NEW l, Running(l, text), Only(l, "header_value"), l.run # 0, NEW ch
  PROVE  Good(ValueEnds(l, ch), text)
<1>1. PICK a : a = UPDATE_STATE(l, "header_almost_done")
  OBVIOUS
<1>2. "header_value" \in Data
  BY DEF Data
<1>3. "header_almost_done" \in Plain /\ "header_almost_done" \in AnyState
  BY DEF Plain, State, HeaderStates, ChunkStates, AnyState
<1>4. Running(a, text) /\ a.state = "header_almost_done" /\ a.mark = l.mark /\ a.run # 0
  BY <1>1, <1>3, StateSet
<1>5. Only(a, "header_value")
  BY <1>4 DEF Only
<1>6. ASSUME NEW b, Running(b, text), Only(b, "header_value"), b.state = "header_almost_done",
             NEW c, c = CALLBACK_DATA(b, "header_value")
      PROVE  Running(c, text) /\ Unmarking(c) /\ c.state = b.state /\ c.run = b.run
  <2>1. b.p - 1 \in Int /\ b.p - 1 <= Len(b.data) /\ b.mark \in [Data -> Nat]
    BY <1>6, Fields DEF Running, Sane
  <2>2. c = CALLBACK_DATA_(b, "header_value", b.p - 1)
    BY <1>6 DEF CALLBACK_DATA
  <2>3. /\ Running(c, text) /\ c.state = b.state /\ c.run = b.run
        /\ c.mark = [b.mark EXCEPT !["header_value"] = 0]
    BY <1>2, <1>6, <2>1, <2>2, HandedOver
  <2>4. QED
    BY <1>6, <2>1, <2>3 DEF Unmarking, Only
<1>7. CASE ch = "CR"
  <2>1. PICK c : c = CALLBACK_DATA(a, "header_value")
    OBVIOUS
  <2>2. Running(c, text) /\ Unmarking(c) /\ c.state = "header_almost_done" /\ c.run # 0
    BY <1>4, <1>5, <1>6, <2>1
  <2>3. Good(RunEnds(c), text)
    BY <1>3, <2>2, RunEndsGood
  <2>4. QED
    BY <1>1, <1>7, <2>1, <2>3 DEF ValueEnds
<1>8. CASE ch # "CR"
  <2>1. PICK b : b = RunEnds(a)
    OBVIOUS
  <2>2. /\ Sane(b, text) /\ b.run = 0 /\ b.state = a.state /\ b.mark = a.mark /\ ~b.done
        /\ Stopped(b) \/ Running(b, text)
    BY <1>4, <2>1, RunsEnd
  <2>3. CASE b.errno # "OK"
    BY <1>1, <1>8, <2>1, <2>2, <2>3 DEF ValueEnds, Good, Stopped
  <2>4. CASE b.errno = "OK"
    <3>1. Running(b, text) /\ Only(b, "header_value")
      BY <1>5, <2>2, <2>4 DEF Stopped, Only
    <3>2. PICK c : c = CALLBACK_DATA(b, "header_value")
      OBVIOUS
    <3>3. Running(c, text) /\ Quiet(c)
      BY <1>4, <1>6, <2>2, <3>1, <3>2 DEF Quiet
    <3>4. Good(header_almost_done(c, ch), text)
      BY <3>3, header_almost_doneGood
    <3>5. QED
      BY <1>1, <1>8, <2>1, <2>4, <3>2, <3>4 DEF ValueEnds
  <2>5. QED
    BY <2>3, <2>4
<1>9. QED
  BY <1>7, <1>8

(* One symbol more of a value. *)
LEMMA header_valueGood ==
  ASSUME NEW text, NEW l, Ready(l, text), NEW ch, l.state = "header_value"
  PROVE  Good(header_value(l, ch), text)
<1>1. PICK m : m = RunGoesOn(l)
  OBVIOUS
<1>2. /\ Running(m, text) /\ m.state = l.state /\ m.mark = l.mark /\ m.index = l.index
      /\ m.content_length = l.content_length /\ m.flags = l.flags
      /\ m.header_state = l.header_state /\ m.method = l.method /\ m.run # 0
  BY <1>1, RunGoes DEF Ready
<1>3. Ready(m, text)
  BY <1>2 DEF Ready, Lengths
<1>4. Only(m, "header_value")
  BY <1>2, <1>3 DEF Only, Ready, Marks, Data, UrlStates
<1>5. CASE ch \in {"CR", "LF"}
  BY <1>1, <1>2, <1>4, <1>5, ValueEndsGood DEF header_value
<1>6. CASE ch \notin {"CR", "LF"}
  BY <1>1, <1>2, <1>3, <1>6, ValueRunGood DEF header_value
<1>7. QED
  BY <1>5, <1>6

(* The line feed before a value. *)
LEMMA header_value_discard_ws_almost_doneGood ==
  ASSUME NEW text, NEW l, Running(l, text), Quiet(l), NEW ch
  PROVE  Good(header_value_discard_ws_almost_done(l, ch), text)
<1>1. "header_value_discard_lws" \in Plain
  BY DEF Plain, State, HeaderStates, ChunkStates
<1>2. QED
  BY <1>1, Errs, Goes DEF header_value_discard_ws_almost_done, STRICT_CHECK, Error

(* The first symbol of the line after a name. *)
LEMMA header_value_discard_lwsGood ==
  ASSUME NEW text, NEW l, Running(l, text), Quiet(l), NEW ch
  PROVE  Good(header_value_discard_lws(l, ch), text)
<1>1. "header_value_discard_ws" \in Plain /\ "header_field_start" \in Plain
  BY DEF Plain, State, HeaderStates, ChunkStates
<1>2. CASE ch \in {"SP", "TAB"}
  BY <1>1, <1>2, Goes DEF header_value_discard_lws
<1>3. CASE ch \notin {"SP", "TAB"} /\ l.header_state = "h_content_length"
  BY <1>3, Errs DEF header_value_discard_lws, Error
<1>4. CASE ch \notin {"SP", "TAB"} /\ l.header_state # "h_content_length"
  <2>1. PICK a : a = HeaderSaid(l)
    OBVIOUS
  <2>2. Running(a, text) /\ a.mark = l.mark /\ a.run = l.run
    BY <2>1, FlagsSaid
  <2>3. Quiet(a)
    BY <2>2 DEF Quiet, Unmarking
  <2>4. PICK b : b = UPDATE_STATE(a, "header_field_start")
    OBVIOUS
  <2>5. Running(b, text) /\ Quiet(b)
    BY <1>1, <2>2, <2>3, <2>4, Goes DEF Ready
  <2>6. PICK c : c = MARK(b, "header_value")
    OBVIOUS
  <2>7. "header_value" \in Data
    BY DEF Data
  <2>8. /\ Running(c, text) /\ c.run = b.run
        /\ \A d \in Data : d # "header_value" => c.mark[d] = b.mark[d]
    BY <2>5, <2>6, <2>7, Marked
  <2>9. c.p - 1 \in Int /\ c.p - 1 <= Len(c.data) /\ c.mark \in [Data -> Nat]
    BY <2>8, Fields DEF Running, Sane
  <2>10. PICK m : m = CALLBACK_DATA_(c, "header_value", c.p - 1)
    OBVIOUS
  <2>11. Running(m, text) /\ m.run = c.run /\ m.mark = [c.mark EXCEPT !["header_value"] = 0]
    BY <2>7, <2>8, <2>9, <2>10, HandedOver
  <2>12. Quiet(m)
    BY <2>5, <2>8, <2>9, <2>11 DEF Quiet, Unmarking
  <2>13. header_value_discard_lws(l, ch) = header_field_start(m, ch)
    BY <1>4, <2>1, <2>4, <2>6, <2>10 DEF header_value_discard_lws, CALLBACK_DATA
  <2>14. QED
    BY <2>11, <2>12, <2>13, header_field_startGood
<1>5. QED
  BY <1>2, <1>3, <1>4

(* A symbol before a value. *)
LEMMA header_value_discard_wsGood ==
  ASSUME NEW text, NEW l, Ready(l, text), Quiet(l), NEW ch, l.state # "chunk_size_start"
  PROVE  Good(header_value_discard_ws(l, ch), text)
<1>1. /\ "header_value_discard_ws_almost_done" \in Plain
      /\ "header_value_discard_lws" \in Plain
  BY DEF Plain, State, HeaderStates, ChunkStates
<1>2. CASE ch \in {"SP", "TAB"}
  BY <1>2, Stays DEF header_value_discard_ws
<1>3. CASE ch = "CR"
  BY <1>1, <1>3, Goes DEF header_value_discard_ws, Ready
<1>4. CASE ch = "LF"
  BY <1>1, <1>4, Goes DEF header_value_discard_ws, Ready
<1>5. CASE ch \notin {"SP", "TAB", "CR", "LF"}
  BY <1>5, header_value_startGood DEF header_value_discard_ws, Ready
<1>6. QED
  BY <1>2, <1>3, <1>4, <1>5

(* One symbol more of a run of a name. *)
LEMMA FieldRunGood ==
  ASSUME NEW text, NEW l, Ready(l, text), NEW ch, l.state = "header_field"
  PROVE  Good(FieldRun(l, ch), text)
<1>1. PICK k : k = FieldMatched(l.header_state, ch)
  OBVIOUS
<1>2. k \in FieldStates
  BY <1>1 DEF FieldMatched, FieldStates
<1>3. k \in HeaderState
  BY <1>2 DEF HeaderState
<1>4. PICK m : m = [l EXCEPT !.header_state = k]
  OBVIOUS
<1>5. /\ Running(m, text) /\ m.state = "header_field" /\ m.header_state = k
      /\ m.mark = l.mark /\ m.run = l.run
  BY <1>3, <1>4, KindSet DEF Ready
<1>6. Lengths(m.state, m)
  BY <1>2, <1>5 DEF Lengths, State, HeaderStates, ChunkStates
<1>7. Good(m, text)
  BY <1>5, <1>6, Stays DEF Ready
<1>8. FieldRun(l, ch) = m
  BY <1>1, <1>4 DEF FieldRun
<1>9. QED
  BY <1>7, <1>8

(* One symbol more of a name. *)
LEMMA header_fieldGood ==
  ASSUME NEW text, NEW l, Ready(l, text), NEW ch, l.state = "header_field"
  PROVE  Good(header_field(l, ch), text)
<1>1. PICK m : m = RunGoesOn(l)
  OBVIOUS
<1>2. /\ Running(m, text) /\ m.state = l.state /\ m.mark = l.mark /\ m.index = l.index
      /\ m.content_length = l.content_length /\ m.flags = l.flags
      /\ m.header_state = l.header_state /\ m.method = l.method /\ m.run # 0
  BY <1>1, RunGoes DEF Ready
<1>3. Ready(m, text)
  BY <1>2 DEF Ready, Lengths
<1>4. CASE ch \in Token
  BY <1>1, <1>2, <1>3, <1>4, FieldRunGood DEF header_field
<1>5. CASE ch \notin Token
  <2>1. PICK n : n = RunEnds(m)
    OBVIOUS
  <2>2. header_field(l, ch) = FieldEnds(n, ch)
    BY <1>1, <1>5, <2>1 DEF header_field
  <2>3. /\ Sane(n, text) /\ n.run = 0 /\ n.state = m.state /\ n.mark = m.mark /\ ~n.done
        /\ Stopped(n) \/ Running(n, text)
    BY <1>2, <2>1, RunsEnd
  <2>4. CASE n.errno # "OK"
    BY <2>2, <2>3, <2>4 DEF FieldEnds, Good, Stopped
  <2>5. CASE n.errno = "OK"
    <3>1. Running(n, text)
      BY <2>3, <2>5 DEF Stopped
    <3>2. Only(n, "header_field") /\ "header_field" \in Data
      BY <1>2, <1>3, <2>3 DEF Only, Ready, Marks, Data, UrlStates
    <3>3. /\ "header_value_discard_ws" \in Plain /\ "header_value_discard_ws" \in State
      BY DEF Plain, State, HeaderStates, ChunkStates
    <3>4. Lengths("header_value_discard_ws", n)
      BY <2>3, <3>3, PlainFits
    <3>5. Good(CALLBACK_DATA(UPDATE_STATE(n, "header_value_discard_ws"), "header_field"), text)
      BY <2>3, <3>1, <3>2, <3>3, <3>4, HandedOn
    <3>6. CASE ch = ":"
      BY <2>2, <2>5, <3>5, <3>6 DEF FieldEnds
    <3>7. CASE ch # ":"
      BY <2>2, <2>5, <3>1, <3>7, Errs DEF FieldEnds, Error
    <3>8. QED
      BY <3>6, <3>7
  <2>6. QED
    BY <2>4, <2>5
<1>6. QED
  BY <1>4, <1>5

-----------------------------------------------------------------------------
(* The request line *)

(* The methods that are guessed are methods. *)
LEMMA Methods ==
  ASSUME NEW l, NEW ch
  PROVE  /\ ch \in DOMAIN FirstLetter => FirstLetter[ch] \in Method
         /\ DOMAIN FirstLetter = {"G", "P", "C", "S"}
         /\ l.method \in DOMAIN OtherLetters /\ ch \in DOMAIN OtherLetters[l.method]
              => OtherLetters[l.method][ch] \in Method
<1>1. DOMAIN FirstLetter = {"G", "P", "C", "S"}
  BY DEF FirstLetter
<1>2. ch \in DOMAIN FirstLetter => FirstLetter[ch] \in Method
  BY DEF FirstLetter, Method
<1>3. ASSUME l.method \in DOMAIN OtherLetters, ch \in DOMAIN OtherLetters[l.method]
      PROVE  OtherLetters[l.method][ch] \in Method
  <2>1. l.method \in {"GET", "POST", "CONNECT", "SUBSCRIBE"}
    BY <1>3 DEF OtherLetters
  <2>2. CASE l.method = "GET"
    BY <1>3, <2>2 DEF OtherLetters, Method
  <2>3. CASE l.method = "POST"
    BY <1>3, <2>3 DEF OtherLetters, Method
  <2>4. CASE l.method = "CONNECT"
    BY <1>3, <2>4 DEF OtherLetters, Method
  <2>5. CASE l.method = "SUBSCRIBE"
    BY <1>3, <2>5 DEF OtherLetters, Method
  <2>6. QED
    BY <2>1, <2>2, <2>3, <2>4, <2>5
<1>4. QED
  BY <1>1, <1>2, <1>3

(* The first symbol of a request. *)
LEMMA start_reqGood ==
  ASSUME NEW text, NEW l, Ready(l, text), Quiet(l), NEW ch, l.state # "chunk_size_start"
  PROVE  Good(start_req(l, ch), text)
<1>1. DOMAIN FirstLetter = {"G", "P", "C", "S"}
  BY Methods
<1>2. CASE ch \in {"CR", "LF"}
  BY <1>1, <1>2, Stays DEF start_req
<1>3. CASE ch \in DOMAIN FirstLetter
  <2>1. PICK g \in Method : g = FirstLetter[ch] /\ g \in DOMAIN OtherLetters
    BY <1>3, Methods DEF FirstLetter, OtherLetters
  <2>2. PICK a : a = [l EXCEPT !.flags = {}, !.content_length = MaxLength,
                               !.method = g, !.index = 1, !.state = "req_method"]
    OBVIOUS
  <2>3. "req_method" \in AnyState /\ "req_method" \in State
    BY DEF AnyState, State, LineStates
  <2>4. a \in Parser
    <3>1. PICK f \in SUBSET Flag : f = {}
      OBVIOUS
    <3>2. PICK n \in 0 .. MaxLength : n = MaxLength
      BY ParserConstants
    <3>3. a = [l EXCEPT !.flags = f, !.content_length = n,
                        !.method = g, !.index = 1, !.state = "req_method"]
      BY <2>2, <3>1, <3>2
    <3>4. QED
      BY <2>3, <3>3 DEF Ready, Running, Sane, Parser
  <2>5. /\ a.p = l.p /\ a.data = l.data /\ a.errno = l.errno /\ a.done = l.done /\ a.nread = l.nread
        /\ a.mark = l.mark /\ a.run = l.run /\ a.state = "req_method" /\ a.method = g
    BY <2>2 DEF Ready, Running, Sane, Parser
  <2>6. Running(a, text)
    BY <2>4, <2>5, Follows DEF Ready
  <2>7. PICK m : m = CALLBACK_NOTIFY(a, "message_begin")
    OBVIOUS
  <2>8. "message_begin" \in DOMAIN NotifiedState
    BY DEF NotifiedState
  <2>9. Running(m, text) /\ m.state = "req_method" /\ m.mark = l.mark /\ m.run = l.run /\ m.method = g
    BY <2>5, <2>6, <2>7, <2>8, Notified
  <2>10. Quiet(m)
    BY <2>9 DEF Quiet, Unmarking
  <2>11. Good(m, text)
    <3>1. Lengths(m.state, m)
      BY <2>1, <2>3, <2>9 DEF Quiet, Lengths, ChunkStates
    <3>2. QED
      BY <2>9, <2>10, <3>1, QuietMarks, Stays DEF Ready
  <2>12. start_req(l, ch) = m
    BY <1>1, <1>3, <2>1, <2>2, <2>7 DEF start_req
  <2>13. QED
    BY <2>11, <2>12
<1>4. CASE ch \notin {"CR", "LF"} /\ ch \notin DOMAIN FirstLetter
  BY <1>4, Errs DEF start_req, Error, Ready
<1>5. QED
  BY <1>2, <1>3, <1>4

(* One symbol more of the method. *)
LEMMA req_methodGood ==
  ASSUME NEW text, NEW l, Ready(l, text), Quiet(l), NEW ch, l.state = "req_method"
  PROVE  Good(req_method(l, ch), text)
<1>1. CASE ch = "SP" /\ l.index = 2
  <2>1. "req_spaces_before_url" \in Plain
    BY DEF Plain, State, LineStates, ChunkStates
  <2>2. QED
    BY <1>1, <2>1, Goes DEF req_method, Ready
<1>2. CASE l.index = 1 /\ ch \in DOMAIN OtherLetters[l.method]
  <2>1. PICK g \in Method : g = OtherLetters[l.method][ch]
    BY <1>2, Methods DEF Ready, Lengths
  <2>2. PICK m : m = [l EXCEPT !.method = g, !.index = 2]
    OBVIOUS
  <2>3. m \in Parser
    BY <2>2 DEF Ready, Running, Sane, Parser
  <2>4. /\ m.p = l.p /\ m.data = l.data /\ m.errno = l.errno /\ m.done = l.done /\ m.nread = l.nread
        /\ m.mark = l.mark /\ m.run = l.run /\ m.state = "req_method" /\ m.index = 2
    BY <2>2 DEF Ready, Running, Sane, Parser
  <2>5. Running(m, text)
    BY <2>3, <2>4, Follows DEF Ready
  <2>6. Lengths(m.state, m)
    BY <2>4 DEF Quiet, Lengths, State, LineStates, ChunkStates
  <2>7. Good(m, text)
    BY <2>4, <2>5, <2>6, Stays DEF Ready
  <2>8. req_method(l, ch) = m
    BY <1>2, <2>1, <2>2 DEF req_method
  <2>9. QED
    BY <2>7, <2>8
<1>3. CASE /\ ~(ch = "SP" /\ l.index = 2)
           /\ ~(l.index = 1 /\ ch \in DOMAIN OtherLetters[l.method])
  BY <1>3, Errs DEF req_method, Error, Ready
<1>4. QED
  BY <1>1, <1>2, <1>3

(* The URL machine stays in its states, or gives up. *)
LEMMA UrlMachine ==
  ASSUME NEW s, NEW ch
  PROVE  parse_url_char(s, ch) \in UrlStates \cup {"dead"}
BY DEF parse_url_char, UrlStates

(* One symbol more of the URL. *)
LEMMA UrlGoesOnGood ==
  ASSUME NEW text, NEW l, Running(l, text), Only(l, "url"), l.run = 0, NEW ch
  PROVE  Good(UrlGoesOn(l, ch), text)
<1>1. PICK s \in UrlStates \cup {"dead"} : s = parse_url_char(l.state, ch)
  BY UrlMachine
<1>2. CASE s = "dead"
  BY <1>1, <1>2, Errs DEF UrlGoesOn, Error
<1>3. CASE s # "dead"
  <2>1. s \in UrlStates /\ s \in Plain /\ s \in AnyState
    BY <1>3 DEF UrlStates, Plain, AnyState, State, ChunkStates
  <2>2. PICK m : m = UPDATE_STATE(l, s)
    OBVIOUS
  <2>3. Running(m, text) /\ m.state = s /\ m.mark = l.mark /\ m.run = l.run
    BY <2>1, <2>2, StateSet
  <2>4. Marks(m.state, m.mark)
    BY <2>1, <2>3 DEF Marks, Only, Data
  <2>5. s # "chunk_size_start"
    BY <2>1 DEF Plain, ChunkStates
  <2>6. Good(m, text)
    BY <2>1, <2>3, <2>4, <2>5, PlainFits, Stays DEF Ready
  <2>7. UrlGoesOn(l, ch) = m
    BY <1>1, <1>3, <2>2 DEF UrlGoesOn
  <2>8. QED
    BY <2>6, <2>7
<1>4. QED
  BY <1>2, <1>3

(* A symbol before the URL. *)
LEMMA req_spaces_before_urlGood ==
  ASSUME NEW text, NEW l, Ready(l, text), Quiet(l), NEW ch, l.state = "req_spaces_before_url"
  PROVE  Good(req_spaces_before_url(l, ch), text)
<1>1. CASE ch = "SP"
  BY <1>1, Stays DEF req_spaces_before_url
<1>2. CASE ch # "SP"
  <2>1. PICK m : m = MARK(l, "url")
    OBVIOUS
  <2>2. "url" \in Data
    BY DEF Data
  <2>3. Running(m, text) /\ (\A d \in Data : d # "url" => m.mark[d] = l.mark[d]) /\ m.run = 0
    BY <2>1, <2>2, Marked DEF Ready, Quiet
  <2>4. Only(m, "url")
    BY <2>3 DEF Only, Quiet, Unmarking
  <2>5. CASE m.method = "CONNECT"
    <3>1. "req_server_start" \in AnyState
      BY DEF AnyState, State, UrlStates
    <3>2. PICK n : n = UPDATE_STATE(m, "req_server_start")
      OBVIOUS
    <3>3. Running(n, text) /\ n.mark = m.mark /\ n.run = m.run
      BY <2>3, <3>1, <3>2, StateSet
    <3>4. Only(n, "url")
      BY <2>4, <3>3 DEF Only
    <3>5. Good(UrlGoesOn(n, ch), text)
      BY <2>3, <3>3, <3>4, UrlGoesOnGood
    <3>6. QED
      BY <1>2, <2>1, <2>5, <3>2, <3>5 DEF req_spaces_before_url
  <2>6. CASE m.method # "CONNECT"
    <3>1. Good(UrlGoesOn(m, ch), text)
      BY <2>3, <2>4, UrlGoesOnGood
    <3>2. QED
      BY <1>2, <2>1, <2>6, <3>1 DEF req_spaces_before_url
  <2>7. QED
    BY <2>5, <2>6
<1>3. QED
  BY <1>1, <1>2

(* A symbol of the URL or after it. *)
LEMMA req_urlGood ==
  ASSUME NEW text, NEW l, Ready(l, text), NEW ch, l.state \in UrlStates
  PROVE  Good(req_url(l, ch), text)
<1>1. Only(l, "url") /\ "url" \in Data /\ l.run = 0
  BY DEF Only, Ready, Lengths, Marks, Data, UrlStates
<1>2. Good(UrlGoesOn(l, ch), text)
  BY <1>1, UrlGoesOnGood DEF Ready
<1> DEFINE early == l.state \in {"req_schema", "req_schema_slash", "req_schema_slash_slash",
                                 "req_server_start"}
<1>3. CASE early
  BY <1>2, <1>3 DEF req_url
<1>4. CASE ~early /\ ch = "SP"
  <2>1. "req_http_start" \in Plain /\ "req_http_start" \in State
    BY DEF Plain, State, LineStates, ChunkStates
  <2>2. "req_http_start" \notin {"chunk_size_start", "req_method"}
    OBVIOUS
  <2>3. Good(CALLBACK_DATA(UPDATE_STATE(l, "req_http_start"), "url"), text)
    BY <1>1, <2>1, <2>2, PlainFits, HandedOn DEF Ready
  <2>4. QED
    BY <1>4, <2>3 DEF req_url
<1>5. CASE ~early /\ ch \in {"CR", "LF"}
  <2>1. PICK s \in {"req_line_almost_done", "header_field_start"} :
          s = IF ch = "CR" THEN "req_line_almost_done" ELSE "header_field_start"
    OBVIOUS
  <2>2. s \in Plain /\ s \in AnyState
    BY DEF Plain, AnyState, State, LineStates, HeaderStates, ChunkStates
  <2>3. PICK a : a = [l EXCEPT !.http_major = 0, !.http_minor = 9, !.state = s]
    OBVIOUS
  <2>4. a \in Parser
    BY <2>2, <2>3 DEF Ready, Running, Sane, Parser
  <2>5. /\ a.p = l.p /\ a.data = l.data /\ a.errno = l.errno /\ a.done = l.done /\ a.nread = l.nread
        /\ a.mark = l.mark /\ a.run = l.run /\ a.state = s
    BY <2>3 DEF Ready, Running, Sane, Parser
  <2>6. Running(a, text)
    BY <2>4, <2>5, Follows DEF Ready
  <2>7. a.p - 1 \in Int /\ a.p - 1 <= Len(a.data) /\ a.mark \in [Data -> Nat]
    BY <2>6, Fields DEF Running, Sane
  <2>8. PICK m : m = CALLBACK_DATA_(a, "url", a.p - 1)
    OBVIOUS
  <2>9. Running(m, text) /\ m.state = s /\ m.run = a.run /\ m.mark = [a.mark EXCEPT !["url"] = 0]
    BY <1>1, <2>5, <2>6, <2>7, <2>8, HandedOver
  <2>10. Quiet(m)
    BY <1>1, <2>5, <2>7, <2>9 DEF Quiet, Unmarking, Only
  <2>11. s # "chunk_size_start"
    OBVIOUS
  <2>12. Good(m, text)
    BY <1>1, <2>2, <2>5, <2>9, <2>10, <2>11, PlainFits, QuietMarks, Stays DEF Ready
  <2>13. req_url(l, ch) = m
    BY <1>5, <2>1, <2>3, <2>8 DEF req_url, CALLBACK_DATA
  <2>14. QED
    BY <2>12, <2>13
<1>6. CASE ~early /\ ch \notin {"SP", "CR", "LF"}
  BY <1>2, <1>6 DEF req_url
<1>7. QED
  BY <1>3, <1>4, <1>5, <1>6

(* A symbol before the version. *)
LEMMA req_http_startGood ==
  ASSUME NEW text, NEW l, Ready(l, text), Quiet(l), NEW ch, l.state = "req_http_start"
  PROVE  Good(req_http_start(l, ch), text)
<1>1. "req_http_HT" \in Plain /\ "req_http_HTTP" \in Plain
  BY DEF Plain, State, LineStates, ChunkStates
<1>2. QED
  BY <1>1, Stays, Goes, Errs DEF req_http_start, Error, Ready

(* One symbol more of "HTTP/". *)
LEMMA req_http_nameGood ==
  ASSUME NEW text, NEW l, Ready(l, text), Quiet(l), NEW ch
  PROVE  Good(req_http_name(l, ch), text)
<1>1. "req_http_HTTP" \in Plain /\ "req_http_major" \in Plain
  BY DEF Plain, State, LineStates, ChunkStates
<1>2. QED
  BY <1>1, Goes, Errs DEF req_http_name, STRICT_CHECK, Error, Ready

(* One symbol more of the version. *)
LEMMA req_http_versionGood ==
  ASSUME NEW text, NEW l, Ready(l, text), Quiet(l), NEW ch
  PROVE  Good(req_http_version(l, ch), text)
<1>1. /\ "req_http_dot" \in Plain /\ "req_http_minor" \in Plain /\ "req_http_end" \in Plain
      /\ "req_line_almost_done" \in Plain /\ "header_field_start" \in Plain
  BY DEF Plain, State, LineStates, HeaderStates, ChunkStates
<1>2. /\ "req_http_dot" \in AnyState /\ "req_http_end" \in AnyState
  BY DEF AnyState, State, LineStates
<1>3. CASE l.state = "req_http_major" /\ ch \in Num
  <2>1. PICK n \in Nat : n = Number[ch]
    BY <1>3, Digits
  <2>2. PICK m : m = [l EXCEPT !.http_major = n, !.state = "req_http_dot"]
    OBVIOUS
  <2>3. m \in Parser
    BY <1>2, <2>2 DEF Ready, Running, Sane, Parser
  <2>4. /\ m.p = l.p /\ m.data = l.data /\ m.errno = l.errno /\ m.done = l.done /\ m.nread = l.nread
        /\ m.mark = l.mark /\ m.run = l.run /\ m.state = "req_http_dot"
    BY <2>2 DEF Ready, Running, Sane, Parser
  <2>5. Running(m, text)
    BY <2>3, <2>4, Follows DEF Ready
  <2>6. Good(m, text)
    BY <1>1, <2>4, <2>5, QuietMarks, PlainFits, Stays DEF Ready, Quiet, Unmarking
  <2>7. req_http_version(l, ch) = m
    BY <1>3, <2>1, <2>2 DEF req_http_version
  <2>8. QED
    BY <2>6, <2>7
<1>4. CASE l.state = "req_http_minor" /\ ch \in Num
  <2>1. PICK n \in Nat : n = Number[ch]
    BY <1>4, Digits
  <2>2. PICK m : m = [l EXCEPT !.http_minor = n, !.state = "req_http_end"]
    OBVIOUS
  <2>3. m \in Parser
    BY <1>2, <2>2 DEF Ready, Running, Sane, Parser
  <2>4. /\ m.p = l.p /\ m.data = l.data /\ m.errno = l.errno /\ m.done = l.done /\ m.nread = l.nread
        /\ m.mark = l.mark /\ m.run = l.run /\ m.state = "req_http_end"
    BY <2>2 DEF Ready, Running, Sane, Parser
  <2>5. Running(m, text)
    BY <2>3, <2>4, Follows DEF Ready
  <2>6. Good(m, text)
    BY <1>1, <2>4, <2>5, QuietMarks, PlainFits, Stays DEF Ready, Quiet, Unmarking
  <2>7. req_http_version(l, ch) = m
    BY <1>4, <2>1, <2>2 DEF req_http_version
  <2>8. QED
    BY <2>6, <2>7
<1>5. CASE /\ ~(l.state = "req_http_major" /\ ch \in Num)
           /\ ~(l.state = "req_http_minor" /\ ch \in Num)
  <2>1. /\ Good(UPDATE_STATE(l, "req_http_minor"), text)
        /\ Good(UPDATE_STATE(l, "req_line_almost_done"), text)
          /\ Good(UPDATE_STATE(l, "header_field_start"), text)
    BY <1>1, Goes DEF Ready
  <2>2. Good(SET_ERRNO(l, "INVALID_VERSION"), text)
    BY Errs DEF Error, Ready
  <2>3. req_http_version(l, ch) \in {UPDATE_STATE(l, "req_http_minor"),
          UPDATE_STATE(l, "req_line_almost_done"), UPDATE_STATE(l, "header_field_start"),
          SET_ERRNO(l, "INVALID_VERSION")}
    BY <1>5 DEF req_http_version
  <2>4. QED
    BY <2>1, <2>2, <2>3
<1>6. QED
  BY <1>3, <1>4, <1>5

(* The line feed after the request line. *)
LEMMA req_line_almost_doneGood ==
  ASSUME NEW text, NEW l, Ready(l, text), Quiet(l), NEW ch
  PROVE  Good(req_line_almost_done(l, ch), text)
<1>1. "header_field_start" \in Plain
  BY DEF Plain, State, HeaderStates, ChunkStates
<1>2. QED
  BY <1>1, Goes, Errs DEF req_line_almost_done, Error, Ready

(* A symbol after the last message. *)
LEMMA deadGood ==
  ASSUME NEW text, NEW l, Ready(l, text), NEW ch, l.state = "dead"
  PROVE  Good(dead(l, ch), text)
BY Stays, Errs DEF dead, Error, Ready

-----------------------------------------------------------------------------
(* Bodies *)

(* A symbol of a body with a length: the length left is never 0 before it. *)
LEMMA body_identityGood ==
  ASSUME NEW text, NEW l, Ready(l, text), l.state = "body_identity"
  PROVE  Good(body_identity(l), text)
<1>1. l.content_length \in 0 .. MaxLength /\ l.content_length # 0 /\ l.content_length # MaxLength
  BY Fields DEF Ready, Running, Sane, Lengths
<1>2. PICK n \in 0 .. MaxLength : n = l.content_length - 1
  BY <1>1, ParserConstants
<1>3. n # MaxLength
  BY <1>1, <1>2, ParserConstants
<1>4. PICK a : a = [l EXCEPT !.content_length = n]
  OBVIOUS
<1>5. Running(a, text) /\ a.state = "body_identity" /\ a.mark = l.mark /\ a.run = l.run /\ a.content_length = n
  BY <1>4, LengthSet DEF Ready
<1>6. "body" \in Data
  BY DEF Data
<1>7. PICK m : m = MARK(a, "body")
  OBVIOUS
<1>r. l.run = 0
  BY DEF Ready, Lengths
<1>8. /\ Running(m, text) /\ m.state = "body_identity" /\ m.content_length = n
      /\ \A d \in Data : d # "body" => m.mark[d] = a.mark[d]
      /\ m.run = 0
  BY <1>5, <1>6, <1>7, <1>r, Marked
<1>9. Only(m, "body")
  BY <1>5, <1>8 DEF Only, Ready, Marks, Data, UrlStates
<1>10. body_identity(l) = IF m.content_length > 0 THEN m
                          ELSE message_done(CALLBACK_DATA_(UPDATE_STATE(m, "message_done"), "body", m.p))
  BY <1>2, <1>4, <1>7 DEF body_identity
<1>11. CASE n > 0
  <2>1. Lengths(m.state, m)
    BY <1>3, <1>8, <1>11 DEF Lengths, State, ChunkStates
  <2>2. Marks(m.state, m.mark)
    BY <1>8, <1>9 DEF Marks, Only, Data
  <2>3. Good(m, text)
    BY <1>8, <2>1, <2>2, Stays DEF Ready
  <2>4. QED
    BY <1>8, <1>10, <1>11, <2>3
<1>12. CASE ~(n > 0)
  <2>1. "message_done" \in AnyState
    BY DEF AnyState
  <2>2. PICK b : b = UPDATE_STATE(m, "message_done")
    OBVIOUS
  <2>3. Running(b, text) /\ b.mark = m.mark /\ b.run = m.run /\ b.p = m.p /\ b.data = m.data
    BY <1>8, <2>1, <2>2, StateSet
  <2>4. m.p \in Int /\ m.p <= Len(b.data) /\ b.mark \in [Data -> Nat]
    BY <1>8, <2>3, Fields DEF Running, Sane
  <2>5. PICK c : c = CALLBACK_DATA_(b, "body", m.p)
    OBVIOUS
  <2>6. Running(c, text) /\ c.run = b.run /\ c.mark = [b.mark EXCEPT !["body"] = 0]
    BY <1>6, <2>3, <2>4, <2>5, HandedOver
  <2>7. Quiet(c)
    BY <1>8, <1>9, <2>3, <2>4, <2>6 DEF Quiet, Unmarking, Only
  <2>8. Good(message_done(c), text)
    BY <2>6, <2>7, Finished
  <2>9. QED
    BY <1>8, <1>10, <1>12, <2>2, <2>5, <2>8
<1>13. QED
  BY <1>11, <1>12

(* A chunk state that the length fits, after a quiet one. *)
LEMMA GoesOnInChunks ==
  ASSUME NEW text, NEW l, Running(l, text), Quiet(l), NEW s \in State,
         s # "chunk_size_start", Lengths(s, l),
         s # "req_method"
  PROVE  Good(UPDATE_STATE(l, s), text)
<1>1. s \in AnyState
  BY DEF AnyState
<1>2. PICK m : m = UPDATE_STATE(l, s)
  OBVIOUS
<1>3. /\ Running(m, text) /\ m.state = s /\ m.mark = l.mark /\ m.run = l.run /\ m.content_length = l.content_length
      /\ m.flags = l.flags /\ m.header_state = l.header_state
  BY <1>1, <1>2, StateSet
<1>4. Quiet(m) /\ Lengths(s, m)
  BY <1>3 DEF Quiet, Unmarking, Lengths
<1>5. QED
  BY <1>2, <1>3, <1>4, QuietMarks, Stays DEF Ready

(* The first digit of a chunk. *)
LEMMA chunk_size_startGood ==
  ASSUME NEW text, NEW l, Ready(l, text), Quiet(l), NEW ch, l.state = "chunk_size_start"
  PROVE  Good(chunk_size_start(l, ch), text)
<1>1. CASE ch \notin Hex
  BY <1>1, Errs DEF chunk_size_start, Error, Ready
<1>2. CASE ch \in Hex
  <2>1. unhex(ch) \in 0 .. 10
    BY <1>2, Digits DEF unhex, Hex
  <2>2. PICK n \in 0 .. MaxLength : n = unhex(ch) /\ n # MaxLength
    BY <2>1, ParserConstants
  <2>3. PICK a : a = [l EXCEPT !.content_length = n]
    OBVIOUS
  <2>4. Running(a, text) /\ a.mark = l.mark /\ a.run = l.run /\ a.content_length = n /\ a.flags = l.flags
    BY <2>3, LengthSet DEF Ready
  <2>5. Quiet(a)
    BY <2>4 DEF Quiet, Unmarking
  <2>6. "CHUNKED" \in a.flags /\ a.run = 0
    BY <2>4, <2>5 DEF Ready, Quiet, Lengths, ChunkStates
  <2>7. "chunk_size" \in State /\ Lengths("chunk_size", a)
    BY <2>2, <2>4, <2>6 DEF Lengths, State, ChunkStates
  <2>8. Good(UPDATE_STATE(a, "chunk_size"), text)
    BY <2>4, <2>5, <2>7, GoesOnInChunks
  <2>9. QED
    BY <1>2, <2>2, <2>3, <2>8 DEF chunk_size_start
<1>3. QED
  BY <1>1, <1>2

(* One symbol more of the size of a chunk. *)
LEMMA chunk_sizeGood ==
  ASSUME NEW text, NEW l, Ready(l, text), Quiet(l), NEW ch, l.state = "chunk_size"
  PROVE  Good(chunk_size(l, ch), text)
<1>1. ch \in Hex => ch \notin {"CR", ";", "SP"}
  BY DEF Hex, Num, Number
<1>2. CASE ch = "CR"
  <2>1. "chunk_size_almost_done" \in State /\ Lengths("chunk_size_almost_done", l)
    BY DEF Ready, Lengths, State, ChunkStates
  <2>2. QED
    BY <1>1, <1>2, <2>1, GoesOnInChunks DEF chunk_size, Ready
<1>3. CASE ch \in {";", "SP"}
  <2>1. "chunk_parameters" \in State /\ Lengths("chunk_parameters", l)
    BY DEF Ready, Lengths, State, ChunkStates
  <2>2. QED
    BY <1>1, <1>3, <2>1, GoesOnInChunks DEF chunk_size, Ready
<1>4. CASE ch \in Hex
  <2>1. unhex(ch) \in 0 .. 10 /\ unhex(ch) < 16
    BY <1>4, Digits DEF unhex, Hex
  <2>2. Good(OneDigitMore(l, 16, unhex(ch)), text)
    BY <2>1, OneDigitMoreGood
  <2>3. QED
    BY <1>1, <1>4, <2>2 DEF chunk_size
<1>5. CASE ch \notin {"CR", ";", "SP"} /\ ch \notin Hex
  BY <1>5, Errs DEF chunk_size, Error, Ready
<1>6. QED
  BY <1>2, <1>3, <1>4, <1>5

(* A symbol of the parameters of a chunk. *)
LEMMA chunk_parametersGood ==
  ASSUME NEW text, NEW l, Ready(l, text), Quiet(l), NEW ch, l.state = "chunk_parameters"
  PROVE  Good(chunk_parameters(l, ch), text)
<1>1. "chunk_size_almost_done" \in State /\ Lengths("chunk_size_almost_done", l)
  BY DEF Ready, Lengths, State, ChunkStates
<1>2. QED
  BY <1>1, GoesOnInChunks, Stays DEF chunk_parameters, Ready

(* The line feed before a chunk: it has data, or a trailer follows. *)
LEMMA chunk_size_almost_doneGood ==
  ASSUME NEW text, NEW l, Ready(l, text), Quiet(l), NEW ch, l.state = "chunk_size_almost_done"
  PROVE  Good(chunk_size_almost_done(l, ch), text)
<1>1. "chunk_header" \in DOMAIN NotifiedState
  BY DEF NotifiedState
<1>2. l.content_length # MaxLength /\ "CHUNKED" \in l.flags
  BY DEF Ready, Lengths, ChunkStates
<1>3. CASE ch # "LF"
  BY <1>3, Errs DEF chunk_size_almost_done, STRICT_CHECK, Error, Ready
<1>4. CASE ch = "LF" /\ l.content_length = 0
  <2>1. PICK f \in SUBSET Flag : f = l.flags \cup {"TRAILING"}
    BY Fields DEF Ready, Running, Sane, Flag
  <2>2. PICK n \in Nat : n = 0
    OBVIOUS
  <2>3. "header_field_start" \in Plain /\ "header_field_start" \in AnyState
    BY DEF Plain, AnyState, State, HeaderStates, ChunkStates
  <2>4. PICK a : a = [l EXCEPT !.nread = n, !.flags = f, !.state = "header_field_start"]
    OBVIOUS
  <2>5. a \in Parser
    BY <2>2, <2>3, <2>4, ParserConstants DEF Ready, Running, Sane, Parser
  <2>6. /\ a.p = l.p /\ a.data = l.data /\ a.errno = l.errno /\ a.done = l.done /\ a.nread = 0
        /\ a.mark = l.mark /\ a.run = l.run /\ a.state = "header_field_start"
    BY <2>2, <2>4 DEF Ready, Running, Sane, Parser
  <2>7. Running(a, text)
    BY <2>5, <2>6, Follows DEF Ready
  <2>8. PICK m : m = CALLBACK_NOTIFY(a, "chunk_header")
    OBVIOUS
  <2>9. Running(m, text) /\ m.state = "header_field_start" /\ m.mark = l.mark /\ m.run = l.run
    BY <1>1, <2>6, <2>7, <2>8, Notified
  <2>10. Quiet(m)
    BY <2>9 DEF Quiet, Unmarking
  <2>11. Good(m, text)
    BY <2>3, <2>9, <2>10, PlainFits, QuietMarks, Stays DEF Ready, Quiet
  <2>12. chunk_size_almost_done(l, ch) = m
    BY <1>4, <2>1, <2>2, <2>4, <2>8 DEF chunk_size_almost_done, STRICT_CHECK
  <2>13. QED
    BY <2>11, <2>12
<1>5. CASE ch = "LF" /\ l.content_length # 0
  <2>2. PICK n \in Nat : n = 0
    OBVIOUS
  <2>3. "chunk_data" \in State /\ "chunk_data" \in AnyState
    BY DEF AnyState, State, ChunkStates
  <2>4. PICK a : a = [l EXCEPT !.nread = n, !.state = "chunk_data"]
    OBVIOUS
  <2>5. a \in Parser
    BY <2>2, <2>3, <2>4, ParserConstants DEF Ready, Running, Sane, Parser
  <2>6. /\ a.p = l.p /\ a.data = l.data /\ a.errno = l.errno /\ a.done = l.done /\ a.nread = 0
        /\ a.mark = l.mark /\ a.run = l.run /\ a.state = "chunk_data" /\ a.flags = l.flags
        /\ a.content_length = l.content_length
    BY <2>2, <2>4 DEF Ready, Running, Sane, Parser
  <2>7. Running(a, text)
    BY <2>5, <2>6, Follows DEF Ready
  <2>8. PICK m : m = CALLBACK_NOTIFY(a, "chunk_header")
    OBVIOUS
  <2>9. /\ Running(m, text) /\ m.state = "chunk_data" /\ m.mark = l.mark /\ m.run = l.run /\ m.flags = l.flags
        /\ m.content_length = l.content_length
    BY <1>1, <2>6, <2>7, <2>8, Notified
  <2>10. Quiet(m)
    BY <2>9 DEF Quiet, Unmarking
  <2>11. Lengths(m.state, m)
    BY <1>2, <1>5, <2>3, <2>9, <2>10 DEF Quiet, Lengths, ChunkStates
  <2>12. Good(m, text)
    BY <2>9, <2>10, <2>11, QuietMarks, Stays DEF Ready
  <2>13. chunk_size_almost_done(l, ch) = m
    BY <1>5, <2>2, <2>4, <2>8 DEF chunk_size_almost_done, STRICT_CHECK
  <2>14. QED
    BY <2>12, <2>13
<1>6. QED
  BY <1>3, <1>4, <1>5

(* A symbol of a chunk. *)
LEMMA chunk_dataGood ==
  ASSUME NEW text, NEW l, Ready(l, text), l.state = "chunk_data"
  PROVE  Good(chunk_data(l), text)
<1>1. /\ l.content_length \in 0 .. MaxLength /\ l.content_length # 0
      /\ l.content_length # MaxLength /\ "CHUNKED" \in l.flags
  BY Fields DEF Ready, Running, Sane, Lengths, ChunkStates
<1>2. PICK n \in 0 .. MaxLength : n = l.content_length - 1
  BY <1>1, ParserConstants
<1>3. n # MaxLength
  BY <1>1, <1>2, ParserConstants
<1>4. PICK a : a = [l EXCEPT !.content_length = n]
  OBVIOUS
<1>5. /\ Running(a, text) /\ a.state = "chunk_data" /\ a.mark = l.mark /\ a.run = l.run /\ a.content_length = n
      /\ a.flags = l.flags
  BY <1>4, LengthSet DEF Ready
<1>6. "body" \in Data
  BY DEF Data
<1>7. PICK m : m = MARK(a, "body")
  OBVIOUS
<1>r. l.run = 0
  BY DEF Ready, Lengths
<1>8. /\ Running(m, text) /\ m.state = "chunk_data" /\ m.content_length = n /\ m.flags = l.flags
      /\ \A d \in Data : d # "body" => m.mark[d] = a.mark[d]
      /\ m.run = 0
  BY <1>5, <1>6, <1>7, <1>r, Marked
<1>9. Only(m, "body")
  BY <1>5, <1>8 DEF Only, Ready, Marks, Data, UrlStates
<1>10. chunk_data(l) = IF m.content_length = 0 THEN UPDATE_STATE(m, "chunk_data_almost_done") ELSE m
  BY <1>2, <1>4, <1>7 DEF chunk_data
<1>11. CASE n # 0
  <2>1. Lengths(m.state, m)
    BY <1>1, <1>3, <1>8, <1>11 DEF Lengths, State, ChunkStates
  <2>2. Marks(m.state, m.mark)
    BY <1>8, <1>9 DEF Marks, Only, Data
  <2>3. Good(m, text)
    BY <1>8, <2>1, <2>2, Stays DEF Ready
  <2>4. QED
    BY <1>8, <1>10, <1>11, <2>3
<1>12. CASE n = 0
  <2>1. "chunk_data_almost_done" \in AnyState /\ "chunk_data_almost_done" \in State
    BY DEF AnyState, State, ChunkStates
  <2>2. PICK b : b = UPDATE_STATE(m, "chunk_data_almost_done")
    OBVIOUS
  <2>3. /\ Running(b, text) /\ b.state = "chunk_data_almost_done" /\ b.mark = m.mark /\ b.run = m.run
        /\ b.content_length = n /\ b.flags = l.flags
    BY <1>8, <2>1, <2>2, StateSet
  <2>4. Lengths(b.state, b)
    BY <1>1, <1>8, <1>12, <2>1, <2>3 DEF Lengths, ChunkStates
  <2>5. Marks(b.state, b.mark)
    BY <1>9, <2>3 DEF Marks, Only, Data
  <2>6. Good(b, text)
    BY <2>3, <2>4, <2>5, Stays DEF Ready
  <2>7. QED
    BY <1>8, <1>10, <1>12, <2>2, <2>6
<1>13. QED
  BY <1>11, <1>12

(* The carriage return after a chunk. *)
LEMMA chunk_data_almost_doneGood ==
  ASSUME NEW text, NEW l, Ready(l, text), NEW ch, l.state = "chunk_data_almost_done"
  PROVE  Good(chunk_data_almost_done(l, ch), text)
<1>1. Only(l, "body") /\ "body" \in Data
  BY DEF Only, Ready, Marks, Data, UrlStates
<1>2. "chunk_data_done" \in State /\ Lengths("chunk_data_done", l) /\ l.run = 0
  BY DEF Ready, Lengths, State, ChunkStates
<1>3. CASE ch # "CR"
  BY <1>3, Errs DEF chunk_data_almost_done, STRICT_CHECK, Error, Ready
<1>4. CASE ch = "CR"
  <2>1. Good(CALLBACK_DATA(UPDATE_STATE(l, "chunk_data_done"), "body"), text)
    BY <1>1, <1>2, HandedOn DEF Ready
  <2>2. QED
    BY <1>4, <2>1 DEF chunk_data_almost_done, STRICT_CHECK
<1>5. QED
  BY <1>3, <1>4

(* The line feed after a chunk. *)
LEMMA chunk_data_doneGood ==
  ASSUME NEW text, NEW l, Ready(l, text), Quiet(l), NEW ch, l.state = "chunk_data_done"
  PROVE  Good(chunk_data_done(l, ch), text)
<1>1. "chunk_complete" \in DOMAIN NotifiedState
  BY DEF NotifiedState
<1>2. CASE ch # "LF"
  BY <1>2, Errs DEF chunk_data_done, STRICT_CHECK, Error, Ready
<1>3. CASE ch = "LF"
  <2>1. PICK n \in Nat : n = 0
    OBVIOUS
  <2>2. "chunk_size_start" \in State /\ "chunk_size_start" \in AnyState
    BY DEF AnyState, State, ChunkStates
  <2>3. PICK a : a = [l EXCEPT !.nread = n, !.state = "chunk_size_start"]
    OBVIOUS
  <2>4. a \in Parser
    BY <2>1, <2>2, <2>3 DEF Ready, Running, Sane, Parser
  <2>5. /\ a.p = l.p /\ a.data = l.data /\ a.errno = l.errno /\ a.done = l.done
        /\ a.mark = l.mark /\ a.run = l.run /\ a.state = "chunk_size_start" /\ a.flags = l.flags
        /\ a.nread = 0
    BY <2>1, <2>3 DEF Ready, Running, Sane, Parser
  <2>6. Running(a, text)
    BY <2>4, <2>5, Follows DEF Ready
  <2>7. PICK m : m = CALLBACK_NOTIFY(a, "chunk_complete")
    OBVIOUS
  <2>8. /\ Running(m, text) /\ m.state = "chunk_size_start" /\ m.mark = l.mark /\ m.run = l.run /\ m.flags = l.flags
        /\ m.nread = 0
    BY <1>1, <2>5, <2>6, <2>7, Notified
  <2>9. Quiet(m)
    BY <2>8 DEF Quiet, Unmarking
  <2>10. "CHUNKED" \in l.flags
    BY DEF Ready, Lengths, ChunkStates
  <2>11. Lengths(m.state, m)
    BY <2>2, <2>8, <2>9, <2>10 DEF Quiet, Lengths, ChunkStates
  <2>12. Good(m, text)
    BY <2>8, <2>9, <2>11, QuietMarks DEF Good, Running
  <2>13. chunk_data_done(l, ch) = m
    BY <1>3, <2>1, <2>3, <2>7 DEF chunk_data_done, STRICT_CHECK
  <2>14. QED
    BY <2>12, <2>13
<1>4. QED
  BY <1>2, <1>3

-----------------------------------------------------------------------------
(* A whole fragment *)

(* Every symbol, in every state. *)
LEMMA execute_symbolGood ==
  ASSUME NEW text, NEW l, Ready(l, text), NEW ch
  PROVE  Good(execute_symbol(l, ch), text)
<1>1. Running(l, text)
  BY DEF Ready
<1>2. CASE l.state = "dead"
  BY <1>2, deadGood DEF execute_symbol, UrlStates
<1>3. CASE l.state = "start_req"
  <2>1. Quiet(l)
    BY <1>3, Unmarked DEF UrlStates
  <2>2. QED
    BY <1>3, start_reqGood, <2>1 DEF execute_symbol, UrlStates
<1>4. CASE l.state = "req_method"
  <2>1. Quiet(l)
    BY <1>4, Unmarked DEF UrlStates
  <2>2. QED
    BY <1>4, req_methodGood, <2>1 DEF execute_symbol, UrlStates
<1>5. CASE l.state = "req_spaces_before_url"
  <2>1. Quiet(l)
    BY <1>5, Unmarked DEF UrlStates
  <2>2. QED
    BY <1>5, req_spaces_before_urlGood, <2>1 DEF execute_symbol, UrlStates
<1>6. CASE l.state \in UrlStates
  BY <1>6, req_urlGood DEF execute_symbol, UrlStates
<1>7. CASE l.state = "req_http_start"
  <2>1. Quiet(l)
    BY <1>7, Unmarked DEF UrlStates
  <2>2. QED
    BY <1>7, req_http_startGood, <2>1 DEF execute_symbol, UrlStates
<1>8. CASE l.state \in {"req_http_HT", "req_http_HTTP"}
  <2>1. Quiet(l)
    BY <1>8, Unmarked DEF UrlStates
  <2>2. QED
    BY <1>8, req_http_nameGood, <2>1 DEF execute_symbol, UrlStates
<1>9. CASE l.state \in {"req_http_major", "req_http_dot", "req_http_minor", "req_http_end"}
  <2>1. Quiet(l)
    BY <1>9, Unmarked DEF UrlStates
  <2>2. QED
    BY <1>9, req_http_versionGood, <2>1 DEF execute_symbol, UrlStates
<1>10. CASE l.state = "req_line_almost_done"
  <2>1. Quiet(l)
    BY <1>10, Unmarked DEF UrlStates
  <2>2. QED
    BY <1>10, req_line_almost_doneGood, <2>1 DEF execute_symbol, UrlStates
<1>11. CASE l.state = "header_field_start"
  <2>1. Quiet(l)
    BY <1>11, Unmarked DEF UrlStates
  <2>2. QED
    BY <1>11, header_field_startGood, <1>1, <2>1 DEF execute_symbol, UrlStates
<1>12. CASE l.state = "header_field"
  BY <1>12, header_fieldGood DEF execute_symbol, UrlStates
<1>13. CASE l.state = "header_value_discard_ws"
  <2>1. Quiet(l)
    BY <1>13, Unmarked DEF UrlStates
  <2>2. QED
    BY <1>13, header_value_discard_wsGood, <2>1 DEF execute_symbol, UrlStates
<1>14. CASE l.state = "header_value_discard_ws_almost_done"
  <2>1. Quiet(l)
    BY <1>14, Unmarked DEF UrlStates
  <2>2. QED
    BY <1>14, header_value_discard_ws_almost_doneGood, <1>1, <2>1 DEF execute_symbol, UrlStates
<1>15. CASE l.state = "header_value_discard_lws"
  <2>1. Quiet(l)
    BY <1>15, Unmarked DEF UrlStates
  <2>2. QED
    BY <1>15, header_value_discard_lwsGood, <1>1, <2>1 DEF execute_symbol, UrlStates
<1>16. CASE l.state = "header_value"
  BY <1>16, header_valueGood DEF execute_symbol, UrlStates
<1>17. CASE l.state = "header_almost_done"
  <2>1. Quiet(l)
    BY <1>17, Unmarked DEF UrlStates
  <2>2. QED
    BY <1>17, header_almost_doneGood, <1>1, <2>1 DEF execute_symbol, UrlStates
<1>18. CASE l.state = "header_value_lws"
  <2>1. Quiet(l)
    BY <1>18, Unmarked DEF UrlStates
  <2>2. QED
    BY <1>18, header_value_lwsGood, <1>1, <2>1 DEF execute_symbol, UrlStates
<1>19. CASE l.state = "headers_almost_done"
  <2>1. Quiet(l)
    BY <1>19, Unmarked DEF UrlStates
  <2>2. QED
    BY <1>19, headers_almost_doneGood, <1>1, <2>1 DEF execute_symbol, UrlStates
<1>20. CASE l.state = "body_identity"
  BY <1>20, body_identityGood DEF execute_symbol, UrlStates
<1>21. CASE l.state = "chunk_size_start"
  <2>1. Quiet(l)
    BY <1>21, Unmarked DEF UrlStates
  <2>2. QED
    BY <1>21, chunk_size_startGood, <2>1 DEF execute_symbol, UrlStates
<1>22. CASE l.state = "chunk_size"
  <2>1. Quiet(l)
    BY <1>22, Unmarked DEF UrlStates
  <2>2. QED
    BY <1>22, chunk_sizeGood, <2>1 DEF execute_symbol, UrlStates
<1>23. CASE l.state = "chunk_parameters"
  <2>1. Quiet(l)
    BY <1>23, Unmarked DEF UrlStates
  <2>2. QED
    BY <1>23, chunk_parametersGood, <2>1 DEF execute_symbol, UrlStates
<1>24. CASE l.state = "chunk_size_almost_done"
  <2>1. Quiet(l)
    BY <1>24, Unmarked DEF UrlStates
  <2>2. QED
    BY <1>24, chunk_size_almost_doneGood, <2>1 DEF execute_symbol, UrlStates
<1>25. CASE l.state = "chunk_data"
  BY <1>25, chunk_dataGood DEF execute_symbol, UrlStates
<1>26. CASE l.state = "chunk_data_almost_done"
  BY <1>26, chunk_data_almost_doneGood DEF execute_symbol, UrlStates
<1>27. CASE l.state = "chunk_data_done"
  <2>1. Quiet(l)
    BY <1>27, Unmarked DEF UrlStates
  <2>2. QED
    BY <1>27, chunk_data_doneGood, <2>1 DEF execute_symbol, UrlStates
<1>28. QED
  <2>1. l.state \in State
    BY DEF Ready, Lengths
  <2>2. QED
    BY <2>1, <1>2, <1>3, <1>4, <1>5, <1>6, <1>7, <1>8, <1>9, <1>10, <1>11, <1>12, <1>13, <1>14,
       <1>15, <1>16, <1>17, <1>18, <1>19, <1>20, <1>21, <1>22, <1>23, <1>24, <1>25, <1>26, <1>27
       DEF State, LineStates, HeaderStates, ChunkStates


(* A symbol with its count: one too many is an error, a stopped parser     *)
(* takes none.                                                             *)
LEMMA ConsumeGood ==
  ASSUME NEW text, NEW l, Good(l, text), NEW i \in 1 .. Len(text)
  PROVE  Good(Consume(l, i), text)
<1>1. CASE Stopped(l)
  BY <1>1 DEF Consume
<1>2. CASE ~Stopped(l)
  <2>1. PICK a : a = [l EXCEPT !.p = i]
    OBVIOUS
  <2>2. /\ a \in Parser /\ a.p = i /\ a.data = l.data /\ a.mark = l.mark /\ a.run = l.run /\ a.state = l.state
        /\ a.content_length = l.content_length /\ a.flags = l.flags
        /\ a.header_state = l.header_state /\ a.index = l.index /\ a.method = l.method
        /\ a.done = l.done /\ a.upgrade = l.upgrade /\ a.errno = l.errno /\ a.nread = l.nread
    <3>1. l \in Parser /\ i \in Nat
      BY DEF Good, Sane
    <3>2. QED
      BY <2>1, <3>1 DEF Parser
  <2>3. Ready(a, text)
    <3>1. Sane(a, text) /\ ~Stopped(a)
      BY <1>2, <2>2 DEF Good, Sane, Stopped
    <3>2. Lengths(a.state, a) /\ Marks(a.state, a.mark)
      BY <1>2, <2>2 DEF Good, Lengths
    <3>3. QED
      BY <3>1, <3>2 DEF Ready, Running
  <2>4. PICK c : c = Counted(a)
    OBVIOUS
  <2>5. (Good(c, text) /\ Stopped(c)) \/ Ready(c, text)
    <3>1. CASE ~(PARSING_HEADER(a.state) /\ a.run = 0)
      BY <2>3, <2>4, <3>1 DEF Counted
    <3>2. CASE PARSING_HEADER(a.state) /\ a.run = 0
      <4>1. c = COUNT_HEADER_SIZE(a, 1)
        BY <2>4, <3>2 DEF Counted
      <4>2. /\ Sane(c, text) /\ (Stopped(c) \/ Running(c, text))
            /\ c.state = a.state /\ c.mark = a.mark /\ c.run = a.run
            /\ c.content_length = a.content_length /\ c.flags = a.flags
            /\ c.header_state = a.header_state /\ c.method = a.method /\ c.index = a.index
        BY <2>3, <4>1, Counts DEF Ready
      <4>3. CASE Stopped(c)
        BY <4>2, <4>3 DEF Good
      <4>4. CASE ~Stopped(c)
        <5>1. Lengths(c.state, c) /\ Marks(c.state, c.mark)
          BY <2>3, <4>2 DEF Ready, Lengths
        <5>2. QED
          BY <4>2, <4>4, <5>1 DEF Ready
      <4>5. QED
        BY <4>3, <4>4
    <3>4. QED
      BY <3>1, <3>2
  <2>6. Consume(l, i) = Executed(c)
    BY <1>2, <2>1, <2>4 DEF Consume
  <2>7. QED
    BY <2>5, <2>6, execute_symbolGood DEF Executed, Ready, Running
<1>3. QED
  BY <1>1, <1>2

-----------------------------------------------------------------------------

(* Induction: a set with 0 that has the successors of its members has all  *)
(* numbers.                                                                *)
LEMMA AllNumbers ==
  ASSUME NEW S, 0 \in S, \A n \in Nat : n \in S => n + 1 \in S
  PROVE  Nat \subseteq S
<1> SUFFICES ASSUME ~(Nat \subseteq S) PROVE FALSE
  OBVIOUS
<1>1. PICK n \in Nat \ S : \A k \in Nat \ S : ~ (<<k, n>> \in OpToRel(<, Nat))
  <2>1. Nat \ S \subseteq Nat /\ Nat \ S # {}
    OBVIOUS
  <2>2. QED
    BY <2>1, WFMin, NatLessThanWellFounded, Zenon
<1>2. \A k \in Nat \ S : ~ (k < n)
  BY <1>1, Zenon DEF OpToRel
<1>3. n # 0 /\ n - 1 \in Nat /\ n - 1 < n
  OBVIOUS
<1>4. n - 1 \in S
  BY <1>2, <1>3
<1>5. QED
  BY <1>3, <1>4

(* The parser before the first symbol of a fragment.                       *)
First(l, text) ==
  [l EXCEPT !.data = text, !.mark = [d \in Data |-> IF GoesOn(l.state, d) THEN 1 ELSE 0]]

(* The call is what its equations say: there is such a function. *)
LEMMA Executions ==
  ASSUME NEW l, NEW text \in Seq(Symbol)
  PROVE  LET run == Execution(l, text) IN
         /\ DOMAIN run = 0 .. Len(text)
         /\ run[0] = First(l, text)
         /\ \A i \in 1 .. Len(text) : run[i] = Consume(run[i - 1], i)
<1>1. PICK first : first = First(l, text)
  OBVIOUS
<1> DEFINE Runs(f, k) == f = [i \in 0 .. k |-> IF i = 0 THEN first ELSE Consume(f[i - 1], i)]
           S == {k \in Nat : \E f : Runs(f, k)}
<1>2. 0 \in S
  <2> DEFINE f == [i \in 0 .. 0 |-> first]
  <2>1. Runs(f, 0)
    OBVIOUS
  <2>2. QED
    BY <2>1
<1>3. ASSUME NEW k \in Nat, k \in S
      PROVE  k + 1 \in S
  <2>1. PICK f : Runs(f, k)
    BY <1>3
  <2> DEFINE g == [i \in 0 .. k + 1 |-> IF i = k + 1 THEN Consume(f[k], k + 1) ELSE f[i]]
  <2>2. \A i \in 0 .. k + 1 : g[i] = IF i = 0 THEN first ELSE Consume(g[i - 1], i)
    <3> TAKE i \in 0 .. k + 1
    <3>1. CASE i = k + 1
      BY <3>1
    <3>2. CASE i # k + 1
      <4>1. i \in 0 .. k /\ g[i] = f[i] /\ (i # 0 => g[i - 1] = f[i - 1])
        BY <3>2
      <4>2. f[i] = IF i = 0 THEN first ELSE Consume(f[i - 1], i)
        BY <2>1, <4>1
      <4>3. QED
        BY <4>1, <4>2
    <3>3. QED
      BY <3>1, <3>2
  <2>3. Runs(g, k + 1)
    BY <2>2
  <2> HIDE DEF g, Runs
  <2>4. QED
    BY <2>3
<1>4. Nat \subseteq S
  <2> HIDE DEF S
  <2>1. QED
    BY <1>2, <1>3, AllNumbers
<1>5. \E f : Runs(f, Len(text))
  <2>1. Len(text) \in Nat
    OBVIOUS
  <2> HIDE DEF Runs
  <2>2. QED
    BY <1>4, <2>1
<1>6. Execution(l, text) = CHOOSE f : Runs(f, Len(text))
  BY <1>1 DEF Execution, First
<1>7. Runs(Execution(l, text), Len(text))
  <2> HIDE DEF Runs
  <2>1. QED
    BY <1>5, <1>6
<1>8. PICK run : run = Execution(l, text)
  OBVIOUS
<1>9. Runs(run, Len(text)) /\ Len(text) \in Nat
  BY <1>7, <1>8
<1>10. DOMAIN run = 0 .. Len(text) /\ run[0] = first
  BY <1>9
<1>11. ASSUME NEW i \in 1 .. Len(text)
       PROVE  run[i] = Consume(run[i - 1], i)
  BY <1>9
<1>12. QED
  BY <1>1, <1>8, <1>10, <1>11


(* A parser between two fragments: what it has of the call is reset.       *)
Resting(l) ==
  /\ l \in Parser /\ l.p = 0 /\ ~l.done /\ l.run = 0
  /\ l.errno = "OK" => l.nread <= MaxHeaderSize

(* It can go on with the next fragment.                                    *)
Waiting(l) ==
  /\ Resting(l)
  /\ l.errno = "OK"
  /\ Lengths(l.state, l)
  /\ l.state = "chunk_size_start" => l.nread = 0

(* The parser of a new connection. *)
LEMMA Begins ==
  /\ Waiting(http_parser_init)
  /\ http_parser_init.state = "start_req" /\ http_parser_init.callbacks = <<>>
  /\ \A d \in Data : ~GoesOn("start_req", d)
<1>1. PICK l : l = http_parser_init
  OBVIOUS
<1>2. l \in Parser
  <2>1. NoMark \in [Data -> Nat]
    BY DEF NoMark
  <2>2. <<>> \in Seq(Symbol) /\ <<>> \in Seq(Notice)
    OBVIOUS
  <2>3. "start_req" \in AnyState /\ "h_general" \in HeaderState /\ "OK" \in Error
          /\ "DELETE" \in Method
    BY DEF AnyState, State, LineStates, HeaderState, FieldStates, Error, Method
  <2>4. 0 \in 0 .. MaxLength
    BY ParserConstants
  <2> HIDE DEF NoMark
  <2>5. QED
    BY <1>1, <2>1, <2>2, <2>3, <2>4 DEF http_parser_init, Parser
<1>3. /\ l.run = 0 /\ l.nread = 0 /\ l.p = 0 /\ l.done = FALSE /\ l.errno = "OK" /\ l.state = "start_req"
      /\ l.callbacks = <<>>
  BY <1>1 DEF http_parser_init
<1>4. Lengths("start_req", l)
  BY <1>3 DEF Lengths, State, LineStates, ChunkStates
<1>5. \A d \in Data : ~GoesOn("start_req", d)
  BY DEF GoesOn, UrlStates
<1>6. QED
  BY <1>1, <1>2, <1>3, <1>4, <1>5, ParserConstants DEF Waiting, Resting

(* The call starts with a good parser: what was cut goes on at the first   *)
(* symbol.                                                                 *)
LEMMA FirstGood ==
  ASSUME NEW l, Waiting(l), NEW text \in Seq(Symbol), text # <<>>
  PROVE  Good(Execution(l, text)[0], text)
<1>1. PICK marks : marks = [d \in Data |-> IF GoesOn(l.state, d) THEN 1 ELSE 0]
  OBVIOUS
<1>2. PICK first : first = [l EXCEPT !.data = text, !.mark = marks]
  OBVIOUS
<1>3. Execution(l, text)[0] = first
  <2>1. First(l, text) = first
    BY <1>1, <1>2 DEF First
  <2>2. QED
    BY <2>1, Executions
<1>4. marks \in [Data -> Nat] /\ \A d \in Data : marks[d] <= 1
  BY <1>1
<1>5. /\ first \in Parser /\ first.p = l.p /\ first.data = text /\ first.mark = marks
      /\ first.state = l.state /\ first.content_length = l.content_length
      /\ first.flags = l.flags /\ first.header_state = l.header_state /\ first.index = l.index
      /\ first.method = l.method /\ first.done = l.done /\ first.errno = l.errno
      /\ first.nread = l.nread /\ first.run = l.run
  <2>1. l \in Parser
    BY DEF Waiting, Resting
  <2>2. PICK a : a = [l EXCEPT !.data = text]
    OBVIOUS
  <2>3. first = [a EXCEPT !.mark = marks]
    BY <1>2, <2>2
  <2>4. /\ a \in Parser /\ a.p = l.p /\ a.data = text
        /\ a.state = l.state /\ a.content_length = l.content_length
        /\ a.flags = l.flags /\ a.header_state = l.header_state /\ a.index = l.index
        /\ a.method = l.method /\ a.done = l.done /\ a.errno = l.errno
        /\ a.nread = l.nread /\ a.run = l.run
    BY <2>1, <2>2 DEF Parser
  <2>5. marks \in [Data -> Nat]
    BY <1>4
  <2>6. QED
    BY <2>3, <2>4, <2>5 DEF Parser
<1>6. Len(text) \in Nat /\ Len(text) >= 1
  OBVIOUS
<1>7. Sane(first, text)
  <2>1. \A d \in Data : marks[d] <= Len(text)
    BY <1>4, <1>6
  <2>2. l.p = 0 /\ ~l.done
    BY DEF Waiting, Resting
  <2>r. l.errno = "OK" => l.nread <= MaxHeaderSize
    BY DEF Waiting, Resting
  <2>3. QED
    BY <1>5, <1>6, <2>1, <2>2, <2>r DEF Sane
<1>8. Lengths(first.state, first)
  BY <1>5 DEF Waiting, Lengths
<1>9. Marks(first.state, first.mark)
  BY <1>1, <1>5 DEF Marks, GoesOn, Data
<1>10. QED
  BY <1>3, <1>5, <1>7, <1>8, <1>9 DEF Good, Waiting

(* The parser is good after every symbol of the fragment. *)
LEMMA ExecutionGood ==
  ASSUME NEW l, Waiting(l), NEW text \in Seq(Symbol), text # <<>>,
         NEW n \in 0 .. Len(text)
  PROVE  Good(Execution(l, text)[n], text)
<1>1. PICK run : run = Execution(l, text)
  OBVIOUS
<1>2. \A i \in 1 .. Len(text) : run[i] = Consume(run[i - 1], i)
  BY <1>1, Executions
<1> DEFINE S == {k \in Nat : k <= Len(text) => Good(run[k], text)}
<1>3. 0 \in S
  BY <1>1, FirstGood
<1>4. ASSUME NEW k \in Nat, k \in S
      PROVE  k + 1 \in S
  <2> SUFFICES ASSUME k + 1 <= Len(text) PROVE Good(run[k + 1], text)
    OBVIOUS
  <2>1. Good(run[k], text) /\ k + 1 \in 1 .. Len(text)
    BY <1>4
  <2>2. run[k + 1] = Consume(run[k], k + 1)
    BY <1>2, <2>1
  <2>3. QED
    BY <2>1, <2>2, ConsumeGood
<1>5. Nat \subseteq S
  <2> HIDE DEF S
  <2>1. QED
    BY <1>3, <1>4, AllNumbers
<1>6. QED
  BY <1>1, <1>5

(* HandedOver again, without the marks. *)
LEMMA OnlyHandedOver ==
  ASSUME NEW text, NEW l, Running(l, text), NEW datum \in Data, NEW end \in Int, end <= Len(l.data),
         NEW k, k = CALLBACK_DATA_(l, datum, end)
  PROVE  /\ Running(k, text) /\ k.state = l.state /\ k.run = l.run
         /\ k.content_length = l.content_length /\ k.flags = l.flags
         /\ k.header_state = l.header_state /\ k.nread = l.nread /\ k.data = l.data
         /\ k.method = l.method /\ k.index = l.index
<1>1. /\ Running(l, text) /\ datum \in Data /\ end \in Int /\ end <= Len(l.data)
      /\ k = CALLBACK_DATA_(l, datum, end) /\ l.mark \in [Data -> Nat]
  BY Fields DEF Running, Sane
<1>2. PICK e \in Int : e = end
  OBVIOUS
<1>3. PICK m : m = CALLBACK_DATA_(l, datum, e)
  OBVIOUS
<1>4. Running(m, text) /\ m.mark = [l.mark EXCEPT ![datum] = 0]
  BY ONLY <1>1, <1>2, <1>3, HandedOver
<1>5. /\ m.state = l.state /\ m.run = l.run
      /\ m.content_length = l.content_length /\ m.flags = l.flags
      /\ m.header_state = l.header_state /\ m.nread = l.nread /\ m.data = l.data
      /\ m.method = l.method /\ m.index = l.index
      /\ m.mark = [l.mark EXCEPT ![datum] = 0]
  BY ONLY <1>1, <1>2, <1>3, HandedOver
<1>7. QED
  BY <1>1, <1>2, <1>3, <1>4, <1>5

(* What is handed over at the end of a fragment changes no more. *)
LEMMA PassedOnGood ==
  ASSUME NEW text, NEW l, Running(l, text), NEW m, m = PassedOn(l)
  PROVE  /\ Running(m, text) /\ m.state = l.state /\ m.run = l.run
         /\ m.content_length = l.content_length /\ m.flags = l.flags
         /\ m.header_state = l.header_state /\ m.nread = l.nread /\ m.data = l.data
         /\ m.method = l.method /\ m.index = l.index
<1> DEFINE Kept(k, o) ==
             /\ Running(o, text) /\ o.state = k.state /\ o.run = k.run
             /\ o.content_length = k.content_length /\ o.flags = k.flags
             /\ o.header_state = k.header_state /\ o.nread = k.nread /\ o.data = k.data
             /\ o.method = k.method /\ o.index = k.index
<1>1. PICK n : n = Len(l.data)
  OBVIOUS
<1>2. n \in Int /\ \A o : o.data = l.data => n <= Len(o.data)
  BY <1>1, Fields DEF Running, Sane
<1>3. ASSUME NEW o, Running(o, text), o.data = l.data, NEW d \in Data,
             NEW k, k = CALLBACK_DATA_(o, d, n)
      PROVE  Kept(o, k)
  <2>1. n \in Int /\ n <= Len(o.data)
    BY <1>2, <1>3
  <2>2. /\ Running(k, text) /\ k.state = o.state /\ k.run = o.run
        /\ k.content_length = o.content_length /\ k.flags = o.flags
        /\ k.header_state = o.header_state /\ k.nread = o.nread /\ k.data = o.data
        /\ k.method = o.method /\ k.index = o.index
    <3> HIDE DEF Kept
    <3>1. QED
      BY <1>3, <2>1, OnlyHandedOver
  <2>3. QED
    BY <2>2
<1>4. PICK a : a = CALLBACK_DATA_(l, "header_field", n)
  OBVIOUS
<1>5. PICK b : b = CALLBACK_DATA_(a, "header_value", n)
  OBVIOUS
<1>6. PICK c : c = CALLBACK_DATA_(b, "url", n)
  OBVIOUS
<1>7. m = CALLBACK_DATA_(c, "body", n)
  BY <1>1, <1>4, <1>5, <1>6 DEF PassedOn
<1>8. ASSUME NEW k, NEW o, Kept(k, o)
      PROVE  Running(o, text) /\ o.data = k.data
  BY <1>8
<1>10. Running(l, text)
  OBVIOUS
<1>9. /\ "header_field" \in Data /\ "header_value" \in Data
      /\ "url" \in Data /\ "body" \in Data
  BY DEF Data
<1>15. Kept(l, a) /\ Kept(a, b) /\ Kept(b, c) /\ Kept(c, m)
  <2> HIDE DEF Kept
  <2>1. Kept(l, a)
    BY ONLY <1>3, <1>4, <1>9, <1>10
  <2>2. Running(a, text) /\ a.data = l.data
    BY ONLY <2>1, <1>8
  <2>3. Kept(a, b)
    BY ONLY <1>3, <1>5, <1>9, <2>2
  <2>4. Running(b, text) /\ b.data = l.data
    BY ONLY <2>2, <2>3, <1>8
  <2>5. Kept(b, c)
    BY ONLY <1>3, <1>6, <1>9, <2>4
  <2>6. Running(c, text) /\ c.data = l.data
    BY ONLY <2>4, <2>5, <1>8
  <2>7. Kept(c, m)
    BY ONLY <1>3, <1>7, <1>9, <2>6
  <2>8. QED
    BY <2>1, <2>3, <2>5, <2>7
<1>16. QED
  BY <1>15

(* The end of the fragment counts the run, and hands over what it is in. *)
LEMMA LeftoverGood ==
  ASSUME NEW text, NEW l, Good(l, text)
  PROVE  LET m == Leftover(l) IN
         /\ Sane(m, text)
         /\ ~Stopped(m) => /\ Lengths(m.state, m) /\ m.run = 0
                           /\ m.state = "chunk_size_start" => m.nread = 0
<1>1. CASE Stopped(l)
  BY <1>1 DEF Leftover, Good
<1>2. CASE ~Stopped(l)
  <2>1. PICK k : k = IF l.run = 0 THEN l ELSE RunEnds(l)
    OBVIOUS
  <2>2. Running(l, text) /\ Lengths(l.state, l)
    BY <1>2 DEF Good, Running
  <2>3. /\ Sane(k, text) /\ (Stopped(k) \/ Running(k, text)) /\ k.run = 0
        /\ k.state = l.state /\ k.index = l.index /\ k.content_length = l.content_length
        /\ k.flags = l.flags /\ k.header_state = l.header_state /\ k.method = l.method
    <3>1. CASE l.run = 0
      BY <2>1, <2>2, <3>1 DEF Running
    <3>2. CASE l.run # 0
      <4>1. k = RunEnds(l)
        BY <2>1, <3>2
      <4>2. QED
        BY <2>2, <3>2, <4>1, RunsEnd
    <3>3. QED
      BY <3>1, <3>2
  <2>4. l.state = "chunk_size_start" => k.nread = 0
    <3>1. l.state = "chunk_size_start" => l.run = 0 /\ l.nread = 0
      BY <1>2, <2>2 DEF Lengths, Good
    <3>2. QED
      BY <2>1, <3>1
  <2>5. CASE Stopped(k)
    BY <1>2, <2>1, <2>3, <2>5 DEF Leftover
  <2>6. CASE ~Stopped(k)
    <3>1. PICK m : m = PassedOn(k)
      OBVIOUS
    <3>2. /\ Running(m, text) /\ m.state = k.state /\ m.run = k.run
          /\ m.content_length = k.content_length /\ m.flags = k.flags
          /\ m.header_state = k.header_state /\ m.nread = k.nread /\ m.data = k.data
          /\ m.method = k.method /\ m.index = k.index
      BY <2>3, <2>6, <3>1, PassedOnGood
    <3>3. Leftover(l) = m
      BY <1>2, <2>1, <2>6, <3>1 DEF Leftover
    <3>4. Lengths(m.state, m)
      BY <2>2, <2>3, <3>2 DEF Lengths
    <3>5. QED
      BY <2>3, <2>4, <3>2, <3>3, <3>4 DEF Running
  <2>7. QED
    BY <2>5, <2>6
<1>3. QED
  BY <1>1, <1>2

(* A call that is complete, without an upgrade, leaves a parser that waits. *)
LEMMA ReturnedRests ==
  ASSUME NEW text, NEW m, Sane(m, text),
         ~Stopped(m) => /\ Lengths(m.state, m) /\ m.run = 0
                        /\ m.state = "chunk_size_start" => m.nread = 0
  PROVE  LET out == Returned(m) IN
         /\ Resting(out.parser)
         /\ out.callbacks \in Seq(Notice)
         /\ out.complete \in BOOLEAN
         /\ out.complete /\ ~out.parser.upgrade => Waiting(out.parser)
<1>1. PICK l : l = [m EXCEPT !.data = <<>>, !.p = 0, !.mark = NoMark, !.callbacks = <<>>,
                             !.done = FALSE, !.skipping = FALSE, !.run = 0]
  OBVIOUS
<1>2. /\ Returned(m).parser = l /\ Returned(m).callbacks = m.callbacks
      /\ Returned(m).complete = (m.errno = "OK" /\ (m.done => m.p = Len(m.data)))
  BY <1>1 DEF Returned
<1>3. m \in Parser
  BY DEF Sane
<1>4. /\ l \in Parser /\ l.run = 0 /\ l.p = 0 /\ ~l.done /\ l.state = m.state
      /\ l.content_length = m.content_length
      /\ l.flags = m.flags /\ l.header_state = m.header_state /\ l.index = m.index
      /\ l.method = m.method /\ l.errno = m.errno /\ l.nread = m.nread /\ l.upgrade = m.upgrade
  <2>1. NoMark \in [Data -> Nat]
    BY DEF NoMark
  <2>2. <<>> \in Seq(Symbol) /\ <<>> \in Seq(Notice)
    OBVIOUS
  <2> HIDE DEF NoMark
  <2>3. QED
    BY <1>1, <1>3, <2>1, <2>2 DEF Parser
<1>5. Resting(l)
  BY <1>4 DEF Resting, Sane
<1>6. ASSUME Returned(m).complete, ~l.upgrade
      PROVE  Waiting(l)
  <2>1. ~Stopped(m)
    BY <1>2, <1>4, <1>6 DEF Sane, Stopped
  <2>2. Lengths(l.state, l)
    BY <1>4, <2>1 DEF Lengths
  <2>3. QED
    BY <1>4, <1>5, <2>1, <2>2 DEF Waiting, Stopped
<1>7. QED
  BY <1>2, <1>3, <1>5, <1>6, Fields

(* What a call makes of a parser and of a fragment.                        *)
LEMMA http_parser_executeRests ==
  ASSUME NEW l, Waiting(l), NEW text \in Seq(Symbol), text # <<>>
  PROVE  LET out == http_parser_execute(l, text) IN
         /\ Resting(out.parser)
         /\ out.callbacks \in Seq(Notice)
         /\ out.complete \in BOOLEAN
         /\ out.complete /\ ~out.parser.upgrade => Waiting(out.parser)
<1>1. PICK m : m = Execution(l, text)[Len(text)]
  OBVIOUS
<1>2. Good(m, text)
  BY <1>1, ExecutionGood
<1>3. QED
  BY <1>1, <1>2, LeftoverGood, ReturnedRests DEF http_parser_execute


-----------------------------------------------------------------------------

(* A request is a record with a state; the rest of it may be anything.     *)
IsRequest(r) == "state" \in DOMAIN r /\ r.state \in RequestState

(* A callback leaves a request with a state it knows. *)
LEMMA CallbackKeeps ==
  ASSUME NEW r, IsRequest(r), NEW c \in Notice
  PROVE  IsRequest(Callback(r, c))
<1>1. ASSUME NEW q, "state" \in DOMAIN q, NEW s \in RequestState
      PROVE  IsRequest([q EXCEPT !.state = s])
  BY <1>1 DEF IsRequest
<1>2. ASSUME NEW q, IsRequest(q), NEW f, f # "state", NEW v
      PROVE  IsRequest([q EXCEPT ![f] = v])
  BY <1>2 DEF IsRequest
<1>3. CASE c.on = "url"
  <2>1. PICK u : u = parseUrl(c.data, FALSE, r.url)
    OBVIOUS
  <2>2. Callback(r, c) = [[r EXCEPT !.state = "OnUrl"] EXCEPT !.url = u]
    BY <1>3, <2>1 DEF Callback, onUrl
  <2>3. QED
    BY <1>1, <1>2, <2>2 DEF IsRequest, RequestState
<1>4. CASE c.on = "header_field"
  <2>1. PICK h : h = (c.data :> <<>>) @@ r.headers
    OBVIOUS
  <2>2. Callback(r, c) = [[[r EXCEPT !.state = "OnHeaders"] EXCEPT !.headers = h]
                            EXCEPT !.lastHeader = c.data]
    BY <1>4, <2>1 DEF Callback, onHeaderField
  <2>3. QED
    BY <1>1, <1>2, <2>2 DEF IsRequest, RequestState
<1>5. CASE c.on = "header_value"
  <2>1. PICK h : h = (r.lastHeader :> c.data) @@ r.headers
    OBVIOUS
  <2>2. PICK u : u = IF r.lastHeader = <<"ho", "st">> THEN parseUrl(c.data, TRUE, r.url)
                     ELSE r.url
    OBVIOUS
  <2>3. Callback(r, c) = [[[r EXCEPT !.state = "OnHeaders"] EXCEPT !.headers = h]
                            EXCEPT !.url = u]
    BY <1>5, <2>1, <2>2 DEF Callback, onHeaderValue
  <2>4. QED
    BY <1>1, <1>2, <2>3 DEF IsRequest, RequestState
<1>6. CASE c.on = "body"
  <2>1. PICK b : b = r.body \o c.data
    OBVIOUS
  <2>2. Callback(r, c) = [[r EXCEPT !.state = "OnBody"] EXCEPT !.body = b]
    BY <1>6, <2>1 DEF Callback, onBody
  <2>3. QED
    BY <1>1, <1>2, <2>2 DEF IsRequest, RequestState
<1>7. CASE c.on \notin Data
  <2>1. c.on \in DOMAIN NotifiedState
    BY <1>7 DEF Notice
  <2>2. NotifiedState[c.on] \in RequestState
    BY <2>1 DEF RequestState
  <2>3. Callback(r, c) = [r EXCEPT !.state = NotifiedState[c.on]]
    BY <1>7 DEF Callback, Data
  <2>4. QED
    BY <1>1, <2>2, <2>3 DEF IsRequest
<1>8. QED
  BY <1>3, <1>4, <1>5, <1>6, <1>7 DEF Data

(* The callbacks, one after another, are what their equations say. *)
LEMMA CallbacksMade ==
  ASSUME NEW r, NEW callbacks \in Seq(Notice)
  PROVE  \E after : /\ Callbacks(r, callbacks) = after[Len(callbacks)]
                    /\ after[0] = r
                    /\ \A i \in 1 .. Len(callbacks) :
                         after[i] = Callback(after[i - 1], callbacks[i])
<1> DEFINE Makes(f, k) ==
             f = [i \in 0 .. k |-> IF i = 0 THEN r ELSE Callback(f[i - 1], callbacks[i])]
           S == {k \in Nat : \E f : Makes(f, k)}
<1>1. 0 \in S
  <2> DEFINE f == [i \in 0 .. 0 |-> r]
  <2>1. Makes(f, 0)
    OBVIOUS
  <2>2. QED
    BY <2>1
<1>2. ASSUME NEW k \in Nat, k \in S
      PROVE  k + 1 \in S
  <2>1. PICK f : Makes(f, k)
    BY <1>2
  <2> DEFINE g == [i \in 0 .. k + 1 |->
                     IF i = k + 1 THEN Callback(f[k], callbacks[k + 1]) ELSE f[i]]
  <2>2. \A i \in 0 .. k + 1 : g[i] = IF i = 0 THEN r ELSE Callback(g[i - 1], callbacks[i])
    <3> TAKE i \in 0 .. k + 1
    <3>1. CASE i = k + 1
      BY <3>1
    <3>2. CASE i # k + 1
      <4>1. i \in 0 .. k /\ g[i] = f[i] /\ (i # 0 => g[i - 1] = f[i - 1])
        BY <3>2
      <4>2. f[i] = IF i = 0 THEN r ELSE Callback(f[i - 1], callbacks[i])
        BY <2>1, <4>1
      <4>3. QED
        BY <4>1, <4>2
    <3>3. QED
      BY <3>1, <3>2
  <2>3. Makes(g, k + 1)
    BY <2>2
  <2> HIDE DEF g, Makes
  <2>4. QED
    BY <2>3
<1>3. Nat \subseteq S
  <2> HIDE DEF S
  <2>1. QED
    BY <1>1, <1>2, AllNumbers
<1>4. \E f : Makes(f, Len(callbacks))
  <2>1. Len(callbacks) \in Nat
    OBVIOUS
  <2> HIDE DEF Makes
  <2>2. QED
    BY <1>3, <2>1
<1>5. PICK after : after = CHOOSE f : Makes(f, Len(callbacks))
  OBVIOUS
<1>6. Callbacks(r, callbacks) = after[Len(callbacks)]
  BY <1>5 DEF Callbacks
<1>7. Makes(after, Len(callbacks))
  <2> HIDE DEF Makes
  <2>1. QED
    BY <1>4, <1>5
<1>8. after[0] = r /\ \A i \in 1 .. Len(callbacks) :
                         after[i] = Callback(after[i - 1], callbacks[i])
  BY <1>7
<1>9. QED
  BY <1>6, <1>8

(* All the callbacks of a call do so. *)
LEMMA CallbacksKeep ==
  ASSUME NEW r, IsRequest(r), NEW callbacks \in Seq(Notice)
  PROVE  IsRequest(Callbacks(r, callbacks))
<1>1. PICK after : /\ Callbacks(r, callbacks) = after[Len(callbacks)]
                   /\ after[0] = r
                   /\ \A i \in 1 .. Len(callbacks) :
                         after[i] = Callback(after[i - 1], callbacks[i])
  BY CallbacksMade
<1> DEFINE S == {k \in Nat : k <= Len(callbacks) => IsRequest(after[k])}
<1>2. 0 \in S
  BY <1>1
<1>3. ASSUME NEW k \in Nat, k \in S
      PROVE  k + 1 \in S
  <2> SUFFICES ASSUME k + 1 <= Len(callbacks) PROVE IsRequest(after[k + 1])
    OBVIOUS
  <2>1. IsRequest(after[k]) /\ k + 1 \in 1 .. Len(callbacks) /\ callbacks[k + 1] \in Notice
    BY <1>3
  <2>2. after[k + 1] = Callback(after[k], callbacks[k + 1])
    BY <1>1, <2>1
  <2>3. QED
    BY <2>1, <2>2, CallbackKeeps
<1>4. Nat \subseteq S
  <2> HIDE DEF S
  <2>1. QED
    BY <1>2, <1>3, AllNumbers
<1>5. QED
  BY <1>1, <1>4


-----------------------------------------------------------------------------

IInv ==
  /\ input \in Seq(Symbol)
  /\ arrived \in 0 .. Len(input)
  /\ fragments \in 0 .. MaxFragments
  /\ socket \in {"open", "deaf", "closed", "crashed"}
  /\ Resting(parser)
  /\ request # None => IsRequest(request)
  /\ socket = "open" => Waiting(parser) /\ IsRequest(request)

(* The inductive invariant implies the type invariant. *)
LEMMA IInvTypes == IInv => TypeOK
<1> SUFFICES ASSUME IInv PROVE TypeOK
  OBVIOUS
<1>1. parser \in Parser /\ (parser.errno = "OK" => parser.nread <= MaxHeaderSize)
  BY DEF IInv, Resting
<1>2. QED
  BY <1>1, Fields DEF IInv, TypeOK, IsRequest

(* The marks of the first parser are where they belong even if there is    *)
(* nothing to read.                                                        *)
LEMMA MarksApart ==
  ASSUME NEW s, NEW marks, Marks(s, marks)
  PROVE  \A c, d \in Data : marks[c] # 0 /\ marks[d] # 0 => c = d
BY DEF Marks, Data, UrlStates

(* It implies the assertions, within the next fragment and before it. *)
LEMMA IInvAsserts == IInv => AssertionsHold
<1> SUFFICES ASSUME IInv, socket = "open" PROVE AssertionsHold
  BY DEF AssertionsHold
<1>1. Waiting(parser) /\ input \in Seq(Symbol) /\ arrived \in 0 .. Len(input)
  BY DEF IInv
<1>2. PICK text : text = SubSeq(input, arrived + 1, Len(input))
  OBVIOUS
<1>3. text \in Seq(Symbol)
  BY <1>1, <1>2, Piece
<1>4. PICK run : run = Execution(parser, text)
  OBVIOUS
<1>5. DOMAIN run = 0 .. Len(text) /\ run[0] = First(parser, text)
  BY <1>3, <1>4, Executions
<1>6. ASSUME NEW i \in DOMAIN run, ~Stopped(run[i])
      PROVE  Asserted(run[i])
  <2>1. CASE text # <<>>
    <3>1. Good(run[i], text)
      BY <1>1, <1>3, <1>4, <1>5, <2>1, ExecutionGood
    <3>2. PICK l : l = run[i]
      OBVIOUS
    <3>3. /\ Lengths(l.state, l) /\ Marks(l.state, l.mark)
          /\ l.state = "chunk_size_start" => l.nread = 0
      BY <1>6, <3>1, <3>2 DEF Good
    <3>4. \A c, d \in Data : l.mark[c] # 0 /\ l.mark[d] # 0 => c = d
      BY <3>3, MarksApart
    <3>5. Asserted(l)
      BY <3>3, <3>4 DEF Asserted, Lengths
    <3>6. QED
      BY <3>2, <3>5
  <2>2. CASE text = <<>>
    <3>1. i = 0
      BY <1>5, <2>2
    <3>2. PICK marks : marks = [d \in Data |-> IF GoesOn(parser.state, d) THEN 1 ELSE 0]
      OBVIOUS
    <3>3. PICK l : l = [parser EXCEPT !.data = text, !.mark = marks]
      OBVIOUS
    <3>4. run[i] = l
      BY <1>5, <3>1, <3>2, <3>3 DEF First
    <3>5. /\ l.mark = marks /\ l.state = parser.state
          /\ l.content_length = parser.content_length /\ l.flags = parser.flags
          /\ l.header_state = parser.header_state /\ l.nread = parser.nread
      <4>1. parser \in Parser
        BY <1>1 DEF Waiting, Resting
      <4>2. QED
        BY <3>3, <4>1 DEF Parser
    <3>6. Marks(l.state, l.mark)
      BY <3>2, <3>5 DEF Marks, GoesOn, Data
    <3>7. \A c, d \in Data : l.mark[c] # 0 /\ l.mark[d] # 0 => c = d
      BY <3>6, MarksApart
    <3>8. Asserted(l)
      BY <1>1, <3>5, <3>7 DEF Asserted, Lengths, Waiting
    <3>9. QED
      BY <3>4, <3>8
  <2>3. QED
    BY <2>1, <2>2
<1>7. QED
  BY <1>2, <1>4, <1>6 DEF AssertionsHold

(* It holds initially. *)
LEMMA InitInv == Init => IInv
<1> SUFFICES ASSUME Init PROVE IInv
  OBVIOUS
<1>1. input \in Seq(Symbol) /\ arrived \in 0 .. Len(input) /\ fragments \in 0 .. MaxFragments
  <2>1. input \in Seq(Symbol)
    BY ServerConstants DEF Init
  <2>2. arrived = 0 /\ fragments = 0 /\ Len(input) \in Nat
    BY <2>1 DEF Init
  <2>3. QED
    BY <2>1, <2>2, ServerConstants
<1>2. Waiting(parser)
  BY Begins DEF Init
<1>3. IsRequest(request)
  BY DEF Init, NewRequest, IsRequest, RequestState
<1>4. QED
  BY <1>1, <1>2, <1>3 DEF Init, IInv, Waiting

(* A fragment keeps it: the socket is still open only if the parser waits. *)
LEMMA ReadyReadInv ==
  ASSUME IInv, NEW n \in 1 .. Len(input), ReadyRead(n)
  PROVE  IInv'
<1>1. /\ input' = input /\ arrived' = arrived + n /\ fragments' = fragments + 1
      /\ socket = "open" /\ fragments < MaxFragments /\ n <= Len(input) - arrived
  BY DEF ReadyRead
<1>2. /\ input \in Seq(Symbol) /\ arrived \in 0 .. Len(input) /\ Len(input) \in Nat
      /\ fragments \in 0 .. MaxFragments /\ Waiting(parser) /\ IsRequest(request)
  BY <1>1 DEF IInv
<1>3. input' \in Seq(Symbol) /\ arrived' \in 0 .. Len(input') /\ fragments' \in 0 .. MaxFragments
  BY <1>1, <1>2, ServerConstants
<1>4. PICK text : text = SubSeq(input, arrived + 1, arrived + n)
  OBVIOUS
<1>5. text \in Seq(Symbol) /\ text # <<>>
  <2>1. arrived + 1 \in Nat \ {0} /\ arrived + n \in Int /\ arrived + n <= Len(input)
    BY <1>1, <1>2
  <2>2. text \in Seq(Symbol)
    BY <1>2, <1>4, <2>1, Piece
  <2>3. Len(text) = n
    BY <1>1, <1>2, <1>4, <2>1
  <2>4. QED
    BY <2>2, <2>3
<1>6. PICK out : out = http_parser_execute(parser, text)
  OBVIOUS
<1>7. /\ Resting(out.parser)
      /\ out.callbacks \in Seq(Notice)
      /\ out.complete \in BOOLEAN
      /\ out.complete /\ ~out.parser.upgrade => Waiting(out.parser)
  BY <1>2, <1>5, <1>6, http_parser_executeRests
<1>8. PICK q : q = IF request.state = "OnMessageComplete" THEN Clear(request) ELSE request
  OBVIOUS
<1>9. IsRequest(q)
  BY <1>2, <1>8 DEF Clear, ClearedButBody, IsRequest
<1>10. PICK k : k = [q EXCEPT !.url.schema = <<"http">>]
  OBVIOUS
<1>11. IsRequest(k)
  BY <1>9, <1>10 DEF IsRequest
<1>12. PICK r : r = Callbacks(k, out.callbacks)
  OBVIOUS
<1>13. IsRequest(r)
  BY <1>7, <1>11, <1>12, CallbacksKeep
<1>14. handleReadyRead(text)
  BY <1>4 DEF ReadyRead
<1>15. /\ parser' = out.parser /\ request' = r
       /\ \/ ~out.complete /\ socket' = "deaf"
          \/ out.complete /\ out.parser.upgrade /\ socket' \in {"closed", "crashed"}
          \/ out.complete /\ ~out.parser.upgrade /\ socket' = socket
          \/ socket' = "crashed"
  BY <1>6, <1>8, <1>10, <1>12, <1>14 DEF handleReadyRead
<1>16. /\ socket' \in {"open", "deaf", "closed", "crashed"}
       /\ socket' = "open" => out.complete /\ ~out.parser.upgrade
  BY <1>1, <1>15
<1>17. QED
  BY <1>3, <1>7, <1>13, <1>15, <1>16 DEF IInv, IsRequest, Waiting, Resting

(* The end of the connection keeps it. *)
LEMMA disconnectedInv ==
  ASSUME IInv, disconnected
  PROVE  IInv'
<1>1. /\ socket' = "closed" /\ request' = IF socket = "open" THEN None ELSE request
      /\ UNCHANGED <<input, arrived, parser, fragments>>
  BY DEF disconnected
<1>2. QED
  BY <1>1 DEF IInv, IsRequest, Waiting, Resting

(* Every step keeps it. *)
LEMMA NextInv == IInv /\ [Next]_vars => IInv'
<1> SUFFICES ASSUME IInv, [Next]_vars PROVE IInv'
  OBVIOUS
<1>1. CASE \E n \in 1 .. Len(input) : ReadyRead(n)
  BY <1>1, ReadyReadInv
<1>2. CASE disconnected
  BY <1>2, disconnectedInv
<1>3. CASE UNCHANGED vars
  BY <1>3 DEF IInv, vars, IsRequest, Waiting, Resting
<1>4. QED
  BY <1>1, <1>2, <1>3 DEF Next

-----------------------------------------------------------------------------
(* What the callbacks say, however it is cut into pieces. *)

(* Texts joined are text, and the order of joining does not matter. *)
LEMMA Texts ==
  ASSUME NEW s \in Seq(Symbol), NEW t \in Seq(Symbol)
  PROVE  /\ s \o t \in Seq(Symbol)
         /\ s # <<>> => s \o t # <<>>
         /\ \A r \in Seq(Symbol) : (r \o s) \o t = r \o (s \o t)
<1>1. s \o t \in Seq(Symbol) /\ Len(s \o t) = Len(s) + Len(t)
  BY ConcatProperties
<1>2. s # <<>> => s \o t # <<>>
  <2>1. s # <<>> => Len(s) # 0
    BY EmptySeq
  <2>2. Len(s) \in Nat /\ Len(t) \in Nat /\ Len(<<>>) = 0
    BY LenProperties, EmptySeq
  <2>3. QED
    BY <1>1, <2>1, <2>2
<1>3. \A r \in Seq(Symbol) : (r \o s) \o t = r \o (s \o t)
  BY ConcatAssociative
<1>4. QED
  BY <1>1, <1>2, <1>3

(* A callback that is joined to others gives callbacks again. *)
LEMMA JoinOfNotices ==
  ASSUME NEW x \in Seq(Notice), NEW c \in Notice
  PROVE  Join(x, c) \in Seq(Notice)
<1>1. PICK n \in Nat : n = Len(x)
  OBVIOUS
<1> DEFINE empty == c.on \in Data /\ c.data = <<>>
           more  == c.on \in Data /\ c.data # <<>> /\ n > 0 /\ x[n].on = c.on
<1>2. CASE empty
  BY <1>2 DEF Join
<1>3. CASE more
  <2>1. x[n] \in Notice /\ x[n].on \in Data
    BY <1>1, <1>3
  <2>2. x[n].on \notin DOMAIN NotifiedState /\ c.on \notin DOMAIN NotifiedState
    BY <1>3, <2>1 DEF Data, NotifiedState
  <2>3. x[n] \in [on : Data, data : Seq(Symbol)] /\ c \in [on : Data, data : Seq(Symbol)]
    BY <2>1, <2>2 DEF Notice
  <2>4. PICK s \in Seq(Symbol) : s = x[n].data \o c.data
    <3>1. x[n].data \in Seq(Symbol) /\ c.data \in Seq(Symbol)
      BY <2>3
    <3>2. x[n].data \o c.data \in Seq(Symbol)
      BY <3>1, Texts
    <3>3. QED
      BY <3>2
  <2>5. PICK e \in Notice : e = [x[n] EXCEPT !.data = s]
    BY <2>3 DEF Notice
  <2>6. Join(x, c) = [x EXCEPT ![n] = e]
    <3>1. Join(x, c) = [x EXCEPT ![n].data = @ \o c.data]
      BY <1>1, <1>3 DEF Join
    <3>2. QED
      BY <2>4, <2>5, <3>1
  <2>7. QED
    BY <1>1, <1>3, <2>5, <2>6
<1>4. CASE ~empty /\ ~more
  <2>1. Join(x, c) = Append(x, c)
    BY <1>1, <1>4 DEF Join
  <2>2. QED
    BY <2>1, Appended
<1>5. QED
  BY <1>2, <1>3, <1>4

(* The callback for a piece of a datum. *)
PieceOf(d, s) == [on |-> d, data |-> s]

(* It is a callback. *)
LEMMA PieceIsNotice ==
  ASSUME NEW d \in Data, NEW s \in Seq(Symbol)
  PROVE  PieceOf(d, s) \in Notice
BY DEF PieceOf, Notice

(* A piece without a symbol says nothing. *)
LEMMA JoinNothing ==
  ASSUME NEW x, NEW d \in Data
  PROVE  Join(x, PieceOf(d, <<>>)) = x
BY DEF Join, PieceOf

(* With more of it, it is the callback for the longer piece. *)
LEMMA PieceGrows ==
  ASSUME NEW d, NEW s, NEW t
  PROVE  [[on |-> d, data |-> s] EXCEPT !.data = t] = [on |-> d, data |-> t]
OBVIOUS

(* The last of a list is replaced. *)
LEMMA LastReplaced ==
  ASSUME NEW x \in Seq(Notice), NEW p \in Notice, NEW q \in Notice
  PROVE  [Append(x, p) EXCEPT ![Len(x) + 1] = q] = Append(x, q)
<1>1. PICK n \in Nat : n = Len(x)
  OBVIOUS
<1>2. PICK a \in Seq(Notice) : a = Append(x, p)
  BY Appended
<1>3. PICK b \in Seq(Notice) : b = Append(x, q)
  BY Appended
<1>4. /\ Len(a) = n + 1 /\ Len(b) = n + 1 /\ b[n + 1] = q
      /\ \A i \in 1 .. n : a[i] = x[i] /\ b[i] = x[i]
  BY <1>1, <1>2, <1>3
<1>5. PICK e \in Seq(Notice) : e = [a EXCEPT ![n + 1] = q]
  <2>1. PICK i \in 1 .. Len(a) : i = n + 1
    BY <1>4
  <2>2. [a EXCEPT ![i] = q] \in Seq(Notice)
    BY ExceptSeq
  <2>3. QED
    BY <2>1, <2>2
<1>6. Len(e) = n + 1 /\ e[n + 1] = q /\ \A i \in 1 .. n : e[i] = x[i]
  BY <1>4, <1>5
<1>7. \A i \in 1 .. Len(e) : e[i] = b[i]
  BY <1>4, <1>6
<1>8. e = b
  BY <1>4, <1>6, <1>7, SeqEqual
<1>9. QED
  BY <1>1, <1>2, <1>3, <1>5, <1>8

(* Two pieces one after the other say what one piece says. *)
LEMMA JoinPieces ==
  ASSUME NEW x \in Seq(Notice), NEW d \in Data, NEW s \in Seq(Symbol), NEW t \in Seq(Symbol)
  PROVE  Join(Join(x, PieceOf(d, s)), PieceOf(d, t)) = Join(x, PieceOf(d, s \o t))
<1>1. CASE s = <<>>
  BY <1>1, JoinNothing
<1>2. CASE t = <<>>
  BY <1>2, JoinNothing
<1>3. CASE s # <<>> /\ t # <<>>
  <2>1. PICK u \in Seq(Symbol) : u = s \o t /\ u # <<>>
    <3>1. s \o t \in Seq(Symbol) /\ s \o t # <<>>
      BY <1>3, Texts
    <3>2. QED
      BY <3>1
  <2>2. PICK n \in Nat : n = Len(x)
    OBVIOUS
  <2>3. PICK y : y = Join(x, PieceOf(d, s))
    OBVIOUS
  <2>4. CASE n > 0 /\ x[n].on = d
    <3>1. x[n] \in Notice /\ n \in DOMAIN x
      BY <2>2, <2>4
    <3>2. x[n] \in [on : Data, data : Seq(Symbol)]
      BY <2>4, <3>1 DEF Notice, Data, NotifiedState
    <3>3. PICK r \in Seq(Symbol) : r = x[n].data
      BY <3>2
    <3>4. x[n] = [on |-> d, data |-> r]
      BY <2>4, <3>2, <3>3
    <3>5. y = [x EXCEPT ![n] = [on |-> d, data |-> r \o s]]
      <4>1. y = [x EXCEPT ![n].data = @ \o s]
        BY <1>3, <2>2, <2>3, <2>4 DEF Join, PieceOf
      <4>2. [x EXCEPT ![n].data = @ \o s]
              = [x EXCEPT ![n] = [[on |-> d, data |-> r] EXCEPT !.data = r \o s]]
        BY <3>3, <3>4
      <4>3. [[on |-> d, data |-> r] EXCEPT !.data = r \o s] = [on |-> d, data |-> r \o s]
        BY PieceGrows
      <4>4. QED
        BY <4>1, <4>2, <4>3
    <3>6. PICK v \in Seq(Symbol) : v = r \o s
      <4>1. r \o s \in Seq(Symbol)
        BY Texts
      <4>2. QED
        BY <4>1
    <3>7. Len(y) = n /\ y[n] = [on |-> d, data |-> v]
      BY <2>2, <3>1, <3>5, <3>6
    <3>8. Join(y, PieceOf(d, t)) = [y EXCEPT ![n] = [on |-> d, data |-> v \o t]]
      <4>1. Join(y, PieceOf(d, t)) = [y EXCEPT ![n].data = @ \o t]
        BY <1>3, <2>4, <3>7 DEF Join, PieceOf
      <4>2. [y EXCEPT ![n].data = @ \o t]
              = [y EXCEPT ![n] = [[on |-> d, data |-> v] EXCEPT !.data = v \o t]]
        BY <3>7
      <4>3. [[on |-> d, data |-> v] EXCEPT !.data = v \o t] = [on |-> d, data |-> v \o t]
        BY PieceGrows
      <4>4. QED
        BY <4>1, <4>2, <4>3
    <3>9. Join(x, PieceOf(d, u)) = [x EXCEPT ![n] = [on |-> d, data |-> r \o u]]
      <4>1. Join(x, PieceOf(d, u)) = [x EXCEPT ![n].data = @ \o u]
        BY <2>1, <2>2, <2>4 DEF Join, PieceOf
      <4>2. [x EXCEPT ![n].data = @ \o u]
              = [x EXCEPT ![n] = [[on |-> d, data |-> r] EXCEPT !.data = r \o u]]
        BY <3>3, <3>4
      <4>3. [[on |-> d, data |-> r] EXCEPT !.data = r \o u] = [on |-> d, data |-> r \o u]
        BY PieceGrows
      <4>4. QED
        BY <4>1, <4>2, <4>3
    <3>10. v \o t = r \o u
      <4>1. (r \o s) \o t = r \o (s \o t)
        BY Texts, SMTT(30)
      <4>2. QED
        BY <2>1, <3>6, <4>1
    <3>11. QED
      BY <2>1, <2>3, <3>1, <3>5, <3>8, <3>9, <3>10
  <2>5. CASE ~(n > 0 /\ x[n].on = d)
    <3>1. y = Append(x, PieceOf(d, s))
      BY <1>3, <2>2, <2>3, <2>5 DEF Join, PieceOf
    <3>2. PICK p : p = PieceOf(d, s)
      OBVIOUS
    <3>3. PICK q : q = PieceOf(d, u)
      OBVIOUS
    <3>4. Len(y) = n + 1 /\ y[n + 1] = p /\ p.on = d /\ p.data = s /\ q = [p EXCEPT !.data = u]
      BY <2>2, <3>1, <3>2, <3>3 DEF PieceOf
    <3>5. Join(y, PieceOf(d, t)) = [y EXCEPT ![n + 1] = q]
      <4>1. Join(y, PieceOf(d, t)) = [y EXCEPT ![n + 1].data = @ \o t]
        BY <1>3, <3>4 DEF Join, PieceOf
      <4>2. QED
        BY <2>1, <3>4, <4>1
    <3>6. Join(x, PieceOf(d, u)) = Append(x, q)
      BY <2>1, <2>2, <2>5, <3>3 DEF Join, PieceOf
    <3>7. [y EXCEPT ![n + 1] = q] = Append(x, q)
      <4>1. p \in Notice /\ q \in Notice
        BY <2>1, <3>2, <3>3, PieceIsNotice
      <4>2. QED
        BY <2>2, <3>1, <3>2, <4>1, LastReplaced
    <3>8. QED
      BY <2>1, <2>3, <3>5, <3>6, <3>7
  <2>6. QED
    BY <2>4, <2>5
<1>4. QED
  BY <1>1, <1>2, <1>3

-----------------------------------------------------------------------------

(* One after the other, the callbacks joined to what was there.            *)
IsJoining(f, b, cs) == f[0] = b /\ \A i \in 1 .. Len(cs) : f[i] = Join(f[i - 1], cs[i])

(* JoinAll is what its equations say: there is such a function. *)
LEMMA Joinings ==
  ASSUME NEW b, NEW cs \in Seq(Notice)
  PROVE  \E f : IsJoining(f, b, cs) /\ JoinAll(b, cs) = f[Len(cs)]
<1> DEFINE Joins(f, k) == f = [i \in 0 .. k |-> IF i = 0 THEN b ELSE Join(f[i - 1], cs[i])]
           S == {k \in Nat : \E f : Joins(f, k)}
<1>1. 0 \in S
  <2> DEFINE f == [i \in 0 .. 0 |-> b]
  <2>1. Joins(f, 0)
    OBVIOUS
  <2>2. QED
    BY <2>1
<1>2. ASSUME NEW k \in Nat, k \in S
      PROVE  k + 1 \in S
  <2>1. PICK f : Joins(f, k)
    BY <1>2
  <2> DEFINE g == [i \in 0 .. k + 1 |-> IF i = k + 1 THEN Join(f[k], cs[k + 1]) ELSE f[i]]
  <2>2. \A i \in 0 .. k + 1 : g[i] = IF i = 0 THEN b ELSE Join(g[i - 1], cs[i])
    <3> TAKE i \in 0 .. k + 1
    <3>1. CASE i = k + 1
      BY <3>1
    <3>2. CASE i # k + 1
      <4>1. i \in 0 .. k /\ g[i] = f[i] /\ (i # 0 => g[i - 1] = f[i - 1])
        BY <3>2
      <4>2. f[i] = IF i = 0 THEN b ELSE Join(f[i - 1], cs[i])
        BY <2>1, <4>1
      <4>3. QED
        BY <4>1, <4>2
    <3>3. QED
      BY <3>1, <3>2
  <2>3. Joins(g, k + 1)
    BY <2>2
  <2> HIDE DEF g, Joins
  <2>4. QED
    BY <2>3
<1>3. Nat \subseteq S
  <2> HIDE DEF S
  <2>1. QED
    BY <1>1, <1>2, AllNumbers
<1>4. \E f : Joins(f, Len(cs))
  <2>1. Len(cs) \in Nat
    OBVIOUS
  <2> HIDE DEF Joins
  <2>2. QED
    BY <1>3, <2>1
<1>5. PICK f : f = CHOOSE g : Joins(g, Len(cs))
  OBVIOUS
<1>6. JoinAll(b, cs) = f[Len(cs)]
  BY <1>5 DEF JoinAll
<1>7. Joins(f, Len(cs))
  <2> HIDE DEF Joins
  <2>1. QED
    BY <1>4, <1>5
<1>8. IsJoining(f, b, cs)
  BY <1>7 DEF IsJoining
<1>9. QED
  BY <1>6, <1>8

(* Nothing more, nothing changed; what is joined are callbacks. *)
LEMMA JoinAllOfNotices ==
  ASSUME NEW b \in Seq(Notice), NEW cs \in Seq(Notice)
  PROVE  JoinAll(b, cs) \in Seq(Notice) /\ (cs = <<>> => JoinAll(b, cs) = b)
<1>1. PICK f : IsJoining(f, b, cs) /\ JoinAll(b, cs) = f[Len(cs)]
  BY Joinings
<1> DEFINE S == {k \in Nat : k <= Len(cs) => f[k] \in Seq(Notice)}
<1>2. 0 \in S
  BY <1>1 DEF IsJoining
<1>3. ASSUME NEW k \in Nat, k \in S
      PROVE  k + 1 \in S
  <2> SUFFICES ASSUME k + 1 <= Len(cs) PROVE f[k + 1] \in Seq(Notice)
    OBVIOUS
  <2>1. f[k] \in Seq(Notice) /\ k + 1 \in 1 .. Len(cs) /\ cs[k + 1] \in Notice
    BY <1>3
  <2>2. f[k + 1] = Join(f[k], cs[k + 1])
    BY <1>1, <2>1 DEF IsJoining
  <2>3. QED
    BY <2>1, <2>2, JoinOfNotices
<1>4. Nat \subseteq S
  <2> HIDE DEF S
  <2>1. QED
    BY <1>2, <1>3, AllNumbers
<1>5. Len(cs) \in Nat /\ (cs = <<>> => Len(cs) = 0)
  OBVIOUS
<1>6. QED
  BY <1>1, <1>4, <1>5 DEF IsJoining

(* One callback more is joined last. *)
LEMMA JoinAllMore ==
  ASSUME NEW b \in Seq(Notice), NEW cs \in Seq(Notice), NEW c \in Notice
  PROVE  JoinAll(b, Append(cs, c)) = Join(JoinAll(b, cs), c)
<1>1. PICK more \in Seq(Notice) : more = Append(cs, c)
  BY Appended
<1>2. PICK n \in Nat : n = Len(cs)
  OBVIOUS
<1>3. Len(more) = n + 1 /\ more[n + 1] = c /\ \A i \in 1 .. n : more[i] = cs[i]
  BY <1>1, <1>2
<1>4. PICK f : IsJoining(f, b, cs) /\ JoinAll(b, cs) = f[n]
  BY <1>2, Joinings
<1>5. PICK g : IsJoining(g, b, more) /\ JoinAll(b, more) = g[n + 1]
  BY <1>3, Joinings
<1> DEFINE S == {k \in Nat : k <= n => f[k] = g[k]}
<1>6. 0 \in S
  BY <1>4, <1>5 DEF IsJoining
<1>7. ASSUME NEW k \in Nat, k \in S
      PROVE  k + 1 \in S
  <2> SUFFICES ASSUME k + 1 <= n PROVE f[k + 1] = g[k + 1]
    OBVIOUS
  <2>1. f[k] = g[k] /\ k + 1 \in 1 .. n /\ k + 1 \in 1 .. n + 1 /\ more[k + 1] = cs[k + 1]
    BY <1>3, <1>7
  <2>2. f[k + 1] = Join(f[k], cs[k + 1])
    BY <1>2, <1>4, <2>1 DEF IsJoining
  <2>3. g[k + 1] = Join(g[k], more[k + 1])
    BY <1>3, <1>5, <2>1 DEF IsJoining
  <2>4. QED
    BY <2>1, <2>2, <2>3
<1>8. Nat \subseteq S
  <2> HIDE DEF S
  <2>1. QED
    BY <1>6, <1>7, AllNumbers
<1>9. f[n] = g[n]
  BY <1>8
<1>10. g[n + 1] = Join(g[n], c)
  BY <1>3, <1>5 DEF IsJoining
<1>11. QED
  BY <1>1, <1>4, <1>5, <1>9, <1>10

-----------------------------------------------------------------------------
(* Two parsers, one of which reads a fragment of what the other reads. *)

(* What a header has come to, the run under way included, which is counted *)
(* at its end, or at that of the fragment.                                 *)
Total(l) == l.nread + (IF l.run = 0 THEN 0 ELSE l.run - 1)

(* The fields that a call leaves: all that counts for the symbols to come. *)
Same(l, w) ==
  /\ l.state = w.state /\ l.header_state = w.header_state /\ l.index = w.index
  /\ l.flags = w.flags /\ l.content_length = w.content_length /\ l.method = w.method
  /\ l.http_major = w.http_major /\ l.http_minor = w.http_minor
  /\ l.upgrade = w.upgrade /\ Total(l) = Total(w) /\ l.errno = w.errno /\ l.done = w.done

(* The callbacks of l, with those before the call (b), say x if the datum  *)
(* under way were handed over up to the place e.                           *)
Heard(x, b, l, e) ==
  /\ Unmarking(l) => x = JoinAll(b, l.callbacks)
  /\ \A d \in Data : l.mark[d] # 0 =>
       /\ Only(l, d)
       /\ x = Join(JoinAll(b, l.callbacks), PieceOf(d, SubSeq(l.data, l.mark[d], e)))

(* What of the fragments two parsers are looking at: one symbol.           *)
Reading(c) ==
  /\ c.before \in Seq(Notice) /\ c.text \in Seq(Symbol) /\ c.whole \in Seq(Symbol)
  /\ c.i \in 1 .. Len(c.text) /\ c.j \in 1 .. Len(c.whole) /\ c.text[c.i] = c.whole[c.j]

(* Both have said the same, up to their places. *)
HeardAlike(c, l, w, i, j) ==
  \E x \in Seq(Notice) : Heard(x, c.before, l, i) /\ Heard(x, <<>>, w, j)

(* Where they stand. *)
Placed(l, text, i) == Running(l, text) /\ l.p = i /\ \A d \in Data : l.mark[d] <= i

(* Where the first is in a run, so is the second; it may be in one longer. *)
RunsWith(l, w) == l.run # 0 => w.run # 0

(* Two parsers of which one reads a part of what the other reads, within a *)
(* symbol: they have the same fields, and have said the same.              *)
Twins(c, l, w) ==
  /\ Placed(l, c.text, c.i) /\ Placed(w, c.whole, c.j)
  /\ Same(l, w) /\ RunsWith(l, w)
  /\ HeardAlike(c, l, w, c.i - 1, c.j - 1)

(* The marks of URLs and headers are where they are needed, and no other.  *)
Exact(l) == \A d \in Data \ {"body"} : l.mark[d] # 0 <=> GoesOn(l.state, d)

(* A parser with an error, or in a run that is too long already.           *)
Doomed(l) ==
  \/ l.errno # "OK"
  \/ ~l.done /\ l.state \in {"header_field", "header_value"} /\ Total(l) > MaxHeaderSize

(* The second ends as badly as the first. *)
Outcome(l, w) == w.errno = l.errno \/ (l.errno = "HEADER_OVERFLOW" /\ Doomed(w))

(* Two such parsers between symbols. *)
Between(c, l, w) ==
  /\ l.errno # "OK" => Outcome(l, w)
  /\ l.errno = "OK" =>
       /\ Same(l, w) /\ RunsWith(l, w)
       /\ Exact(l) /\ Exact(w)
       /\ \A d \in Data : l.mark[d] <= c.i + 1 /\ w.mark[d] <= c.j + 1
       /\ l.done => Quiet(l) /\ Quiet(w)
       /\ HeardAlike(c, l, w, c.i, c.j)

-----------------------------------------------------------------------------

(* Parsers with the same fields are like equal ones. *)
LEMMA SameAs ==
  /\ \A l : Same(l, l)
  /\ \A l, w : Same(l, w) => Same(w, l)
  /\ \A l, m, w : Same(l, m) /\ Same(m, w) => Same(l, w)
BY DEF Same, Total

(* What is left alone by a change of the fields. *)
Untouched(m, l) ==
  /\ m.mark = l.mark /\ m.run = l.run /\ m.callbacks = l.callbacks /\ m.p = l.p /\ m.data = l.data
  /\ m.errno = l.errno /\ m.done = l.done
  /\ m.nread \in {0, l.nread} \/ m.nread <= MaxHeaderSize

(* What has been said, and where a parser stands, stay. *)
LEMMA HeardStays ==
  ASSUME NEW x, NEW b, NEW l, NEW e, Heard(x, b, l, e), NEW m, Untouched(m, l)
  PROVE  Heard(x, b, m, e)
BY DEF Heard, Untouched, Quiet, Unmarking, Only

(* It stands where it stood. *)
LEMMA PlacedStays ==
  ASSUME NEW l, NEW text, NEW i, Placed(l, text, i), NEW m \in Parser, Untouched(m, l)
  PROVE  Placed(m, text, i)
<1>1. Running(m, text)
  BY ParserConstants DEF Placed, Untouched, Running, Sane, Stopped
<1>2. QED
  BY <1>1 DEF Placed, Untouched

(* The same change of the fields. *)
LEMMA Changed ==
  ASSUME NEW c, NEW l, NEW w, Twins(c, l, w), NEW m \in Parser, NEW k \in Parser,
         Untouched(m, l), Untouched(k, w), Same(m, k)
  PROVE  Twins(c, m, k)
<1>1. PICK x \in Seq(Notice) : Heard(x, c.before, l, c.i - 1) /\ Heard(x, <<>>, w, c.j - 1)
  BY DEF Twins, RunsWith, HeardAlike
<1>2. Heard(x, c.before, m, c.i - 1) /\ Heard(x, <<>>, k, c.j - 1)
  BY <1>1, HeardStays
<1>3. Placed(m, c.text, c.i) /\ Placed(k, c.whole, c.j)
  BY PlacedStays DEF Twins, RunsWith
<1>4. QED
  BY <1>2, <1>3 DEF Twins, RunsWith, Untouched, HeardAlike

(* What is in a parser of a pair. *)
LEMMA TwinFields ==
  ASSUME NEW c, NEW l, NEW w, Twins(c, l, w)
  PROVE  l \in Parser /\ w \in Parser /\ Running(l, c.text) /\ Running(w, c.whole)
BY DEF Twins, RunsWith, Placed, Running, Sane

(* UPDATE_STATE as a change. *)
LEMMA StateTwins ==
  ASSUME NEW c, NEW l, NEW w, Twins(c, l, w), NEW s \in AnyState,
         NEW m, m = UPDATE_STATE(l, s), NEW k, k = UPDATE_STATE(w, s)
  PROVE  Twins(c, m, k) /\ m.mark = l.mark /\ m.run = l.run /\ k.mark = w.mark /\ k.run = w.run /\ m.state = s
         /\ m.header_state = l.header_state /\ m.flags = l.flags /\ m.upgrade = l.upgrade
         /\ m.method = l.method /\ m.content_length = l.content_length /\ m.index = l.index
<1>1. l \in Parser /\ w \in Parser /\ Same(l, w)
  BY TwinFields DEF Twins, RunsWith
<1>2. m \in Parser /\ Untouched(m, l) /\ m.state = s
  BY <1>1 DEF UPDATE_STATE, Parser, Untouched
<1>3. k \in Parser /\ Untouched(k, w)
  BY <1>1 DEF UPDATE_STATE, Parser, Untouched
<1>4. Same(m, k)
  BY <1>1 DEF UPDATE_STATE, Parser, Same, Total
<1>5. Twins(c, m, k)
  BY <1>2, <1>3, <1>4, Changed
<1>6. /\ m.header_state = l.header_state /\ m.flags = l.flags /\ m.upgrade = l.upgrade
      /\ m.method = l.method /\ m.content_length = l.content_length /\ m.index = l.index
  BY <1>1 DEF UPDATE_STATE, Parser
<1>7. QED
  BY <1>2, <1>3, <1>5, <1>6 DEF Untouched

(* MARK sets a mark to where nothing of the datum has been yet. *)
LEMMA MarkFields ==
  ASSUME NEW text, NEW i \in Nat \ {0}, NEW l, Placed(l, text, i), NEW d \in Data, Only(l, d),
         NEW m, m = MARK(l, d)
  PROVE  /\ Placed(m, text, i) /\ Same(m, l) /\ m.run = l.run /\ m.callbacks = l.callbacks
         /\ Only(m, d) /\ m.mark[d] # 0 /\ (l.mark[d] = 0 => m.mark[d] = i)
         /\ l.mark[d] # 0 => m = l
<1>1. l \in Parser /\ l.mark \in [Data -> Nat] /\ l.p = i /\ Running(l, text)
  BY Fields DEF Placed, Running, Sane
<1>2. Running(m, text)
  BY <1>1, Marked
<1>3. CASE l.mark[d] # 0
  <2>1. m = l
    BY <1>3 DEF MARK
  <2>2. QED
    BY <1>3, <2>1 DEF Same, Total
<1>4. CASE l.mark[d] = 0
  <2>1. m = [l EXCEPT !.mark[d] = i]
    BY <1>1, <1>4 DEF MARK
  <2>2. m.run = l.run /\ m.mark = [l.mark EXCEPT ![d] = i] /\ m.callbacks = l.callbacks /\ m.p = i
    BY <1>1, <2>1 DEF Parser
  <2>3. Same(m, l)
    BY <1>1, <2>1 DEF Same, Total, Parser
  <2>4. \A e \in Data : m.mark[e] = IF e = d THEN i ELSE l.mark[e]
    BY <1>1, <2>2
  <2>5. QED
    BY <1>2, <1>4, <2>2, <2>3, <2>4 DEF Placed, Only
<1>5. QED
  BY <1>3, <1>4

(* What is marked now has said nothing yet. *)
LEMMA MarkHeard ==
  ASSUME NEW text, NEW i \in Nat \ {0}, NEW l, Placed(l, text, i), NEW d \in Data, Only(l, d),
         NEW x, NEW b, Heard(x, b, l, i - 1)
  PROVE  Heard(x, b, MARK(l, d), i - 1)
<1>1. PICK m : m = MARK(l, d)
  OBVIOUS
<1>2. /\ Placed(m, text, i) /\ m.callbacks = l.callbacks
      /\ Only(m, d) /\ m.mark[d] # 0 /\ (l.mark[d] = 0 => m.mark[d] = i)
      /\ l.mark[d] # 0 => m = l
  BY <1>1, MarkFields
<1>3. CASE l.mark[d] # 0
  BY <1>1, <1>2, <1>3
<1>4. CASE l.mark[d] = 0
  <2>1. Unmarking(l)
    BY <1>4 DEF Quiet, Unmarking, Only
  <2>2. x = JoinAll(b, m.callbacks)
    BY <1>2, <2>1 DEF Heard
  <2>3. SubSeq(m.data, i, i - 1) = <<>>
    <3>1. m.data \in Seq(Symbol)
      BY <1>2, Fields DEF Placed, Running, Sane
    <3>2. QED
      BY <3>1
  <2>4. x = Join(JoinAll(b, m.callbacks), PieceOf(d, SubSeq(m.data, m.mark[d], i - 1)))
    BY <1>2, <1>4, <2>2, <2>3, JoinNothing
  <2>5. ~Unmarking(m) /\ \A e \in Data : m.mark[e] # 0 => e = d
    BY <1>2 DEF Quiet, Unmarking, Only
  <2>6. QED
    BY <1>1, <1>2, <2>4, <2>5 DEF Heard
<1>5. QED
  BY <1>3, <1>4

(* MARK in both. *)
LEMMA MarkTwins ==
  ASSUME NEW c, Reading(c), NEW l, NEW w, Twins(c, l, w), NEW d \in Data, Only(l, d), Only(w, d),
         NEW m, m = MARK(l, d), NEW k, k = MARK(w, d)
  PROVE  /\ Twins(c, m, k) /\ Same(m, l) /\ m.run = l.run /\ k.run = w.run
         /\ Only(m, d) /\ Only(k, d) /\ m.mark[d] # 0 /\ k.mark[d] # 0
<1>1. c.i \in Nat \ {0} /\ c.j \in Nat \ {0}
  BY DEF Reading
<1>2. Placed(m, c.text, c.i) /\ Same(m, l) /\ m.run = l.run /\ Only(m, d) /\ m.mark[d] # 0
  <2>1. Placed(l, c.text, c.i)
    BY DEF Twins
  <2>2. QED
    BY <1>1, <2>1, MarkFields
<1>3. Placed(k, c.whole, c.j) /\ Same(k, w) /\ k.run = w.run /\ Only(k, d) /\ k.mark[d] # 0
  <2>1. Placed(w, c.whole, c.j)
    BY DEF Twins
  <2>2. QED
    BY <1>1, <2>1, MarkFields
<1>4. PICK x \in Seq(Notice) : Heard(x, c.before, l, c.i - 1) /\ Heard(x, <<>>, w, c.j - 1)
  BY DEF Twins, RunsWith, HeardAlike
<1>5. Heard(x, c.before, m, c.i - 1) /\ Heard(x, <<>>, k, c.j - 1)
  BY <1>1, <1>4, MarkHeard DEF Twins, RunsWith
<1>6. Same(m, k)
  BY <1>2, <1>3, SameAs DEF Twins, RunsWith
<1>7. QED
  BY <1>2, <1>3, <1>5, <1>6 DEF Twins, RunsWith, HeardAlike

-----------------------------------------------------------------------------

(* CALLBACK_NOTIFY joins its callback to what has been said. *)
NoticeOf(what) == [on |-> what]

(* The rest of the parser stays. *)
LEMMA NotifyFields ==
  ASSUME NEW text, NEW i, NEW l, Placed(l, text, i), NEW what \in DOMAIN NotifiedState,
         NEW m, m = CALLBACK_NOTIFY(l, what)
  PROVE  /\ Placed(m, text, i) /\ Same(m, l) /\ m.mark = l.mark /\ m.run = l.run /\ (Quiet(l) => Quiet(m))
         /\ m.callbacks = Append(l.callbacks, NoticeOf(what))
<1>1. l \in Parser /\ Running(l, text)
  BY DEF Placed, Running, Sane
<1>2. Running(m, text) /\ m.mark = l.mark /\ m.run = l.run /\ m.p = l.p
  BY <1>1, Notified
<1>3. PICK more : more = Append(l.callbacks, NoticeOf(what))
  OBVIOUS
<1>4. m = [l EXCEPT !.callbacks = more]
  BY <1>3 DEF CALLBACK_NOTIFY, NoticeOf
<1>5. m.callbacks = more
  BY <1>1, <1>4 DEF Parser
<1>6. Same(m, l)
  BY <1>1, <1>4 DEF Parser, Same, Total
<1>7. QED
  BY <1>2, <1>3, <1>5, <1>6 DEF Placed, Quiet, Unmarking

(* The callback is said last, if nothing is under way. *)
LEMMA NotifyHeard ==
  ASSUME NEW text, NEW i, NEW l, Placed(l, text, i), Quiet(l), NEW what \in DOMAIN NotifiedState,
         NEW x, NEW b \in Seq(Notice), NEW e, Heard(x, b, l, e)
  PROVE  Heard(Join(x, NoticeOf(what)), b, CALLBACK_NOTIFY(l, what), e)
<1>1. PICK m : m = CALLBACK_NOTIFY(l, what)
  OBVIOUS
<1>2. m.mark = l.mark /\ m.run = l.run /\ m.callbacks = Append(l.callbacks, NoticeOf(what))
  BY <1>1, NotifyFields
<1>3. Quiet(m) /\ x = JoinAll(b, l.callbacks)
  BY <1>2 DEF Quiet, Unmarking, Heard
<1>4. PICK n \in Notice : n = NoticeOf(what)
  BY DEF Notice, NoticeOf
<1>5. l.callbacks \in Seq(Notice)
  BY Fields DEF Placed, Running, Sane
<1>6. JoinAll(b, m.callbacks) = Join(x, n)
  BY <1>2, <1>3, <1>4, <1>5, JoinAllMore
<1>7. QED
  BY <1>1, <1>3, <1>4, <1>6 DEF Heard, Quiet, Unmarking

(* CALLBACK_NOTIFY in both. *)
LEMMA NotifyTwins ==
  ASSUME NEW c, Reading(c), NEW l, NEW w, Twins(c, l, w), Quiet(l), Quiet(w),
         NEW what \in DOMAIN NotifiedState,
         NEW m, m = CALLBACK_NOTIFY(l, what), NEW k, k = CALLBACK_NOTIFY(w, what)
  PROVE  Twins(c, m, k) /\ Same(m, l) /\ Quiet(m) /\ Quiet(k)
<1>1. Placed(m, c.text, c.i) /\ Same(m, l) /\ Quiet(m)
  BY NotifyFields DEF Twins, RunsWith
<1>2. Placed(k, c.whole, c.j) /\ Same(k, w) /\ Quiet(k)
  BY NotifyFields DEF Twins, RunsWith
<1>4. PICK x \in Seq(Notice) : Heard(x, c.before, l, c.i - 1) /\ Heard(x, <<>>, w, c.j - 1)
  BY DEF Twins, RunsWith, HeardAlike
<1>5. PICK y : y = Join(x, NoticeOf(what))
  OBVIOUS
<1>6. y \in Seq(Notice)
  <2>1. PICK n \in Notice : n = NoticeOf(what)
    BY DEF Notice, NoticeOf
  <2>2. QED
    BY <1>5, <2>1, JoinOfNotices
<1>7. c.before \in Seq(Notice) /\ <<>> \in Seq(Notice)
  BY DEF Reading
<1>8. Heard(y, c.before, m, c.i - 1) /\ Heard(y, <<>>, k, c.j - 1)
  BY <1>4, <1>5, <1>7, NotifyHeard DEF Twins, RunsWith
<1>9. Same(m, k)
  BY <1>1, <1>2, SameAs DEF Twins, RunsWith
<1>10. QED
  BY <1>1, <1>2, <1>6, <1>8, <1>9 DEF Twins, RunsWith, HeardAlike, Quiet

-----------------------------------------------------------------------------

(* CALLBACK_DATA_ hands over what is marked. *)
LEMMA HandedFields ==
  ASSUME NEW text, NEW l, Running(l, text), NEW d \in Data, Only(l, d),
         NEW e \in Int, e <= Len(text), NEW m, m = CALLBACK_DATA_(l, d, e)
  PROVE  /\ Running(m, text) /\ m.p = l.p /\ Same(m, l) /\ Unmarking(m) /\ m.run = l.run
         /\ l.mark[d] = 0 => m = l
         /\ l.mark[d] # 0 =>
              m.callbacks = Append(l.callbacks, PieceOf(d, SubSeq(l.data, l.mark[d], e)))
<1>1. l \in Parser /\ l.mark \in [Data -> Nat] /\ l.data = text
  BY Fields DEF Running, Sane
<1>2. PICK marks : marks = [l.mark EXCEPT ![d] = 0]
  OBVIOUS
<1>3. Running(m, text) /\ m.mark = marks /\ m.p = l.p /\ m.run = l.run
  BY <1>1, <1>2, HandedOver
<1>4. \A f \in Data : m.mark[f] = IF f = d THEN 0 ELSE l.mark[f]
  BY <1>1, <1>2, <1>3
<1>5. Unmarking(m)
  BY <1>4 DEF Only, Quiet, Unmarking
<1>6. CASE l.mark[d] = 0
  <2>1. m = l
    BY <1>6 DEF CALLBACK_DATA_
  <2>2. QED
    BY <1>3, <1>5, <1>6, <2>1 DEF Same, Total
<1>7. CASE l.mark[d] # 0
  <2>1. PICK more : more = Append(l.callbacks, PieceOf(d, SubSeq(l.data, l.mark[d], e)))
    OBVIOUS
  <2>2. m = [l EXCEPT !.mark[d] = 0, !.callbacks = more]
    BY <1>7, <2>1 DEF CALLBACK_DATA_, PieceOf
  <2>3. m = [l EXCEPT !.mark = marks, !.callbacks = more]
    BY <1>2, <2>2
  <2>4. m.callbacks = more
    BY <1>1, <2>3 DEF Parser
  <2>5. Same(m, l)
    BY <1>1, <2>3 DEF Parser, Same, Total
  <2>6. QED
    BY <1>3, <1>5, <1>7, <2>1, <2>4, <2>5
<1>8. QED
  BY <1>6, <1>7

(* What is handed over was said before, up to its end. *)
LEMMA HandedHeard ==
  ASSUME NEW text, NEW l, Running(l, text), NEW d \in Data, Only(l, d),
         NEW e \in Int, e <= Len(text), NEW x, NEW b \in Seq(Notice), Heard(x, b, l, e), NEW f
  PROVE  Heard(x, b, CALLBACK_DATA_(l, d, e), f)
<1>1. PICK m : m = CALLBACK_DATA_(l, d, e)
  OBVIOUS
<1>2. PICK piece : piece = PieceOf(d, SubSeq(l.data, l.mark[d], e))
  OBVIOUS
<1>3. /\ Unmarking(m)
      /\ l.mark[d] = 0 => m = l
      /\ l.mark[d] # 0 => m.callbacks = Append(l.callbacks, piece)
  BY <1>1, <1>2, HandedFields
<1>4. x = JoinAll(b, m.callbacks)
  <2>1. CASE l.mark[d] = 0
    BY <1>3, <2>1 DEF Heard
  <2>2. CASE l.mark[d] # 0
    <3>1. /\ l.callbacks \in Seq(Notice) /\ l.data \in Seq(Symbol)
          /\ l.mark[d] \in Nat /\ l.data = text
      BY Fields DEF Running, Sane
    <3>2. piece \in Notice
      <4>1. SubSeq(l.data, l.mark[d], e) \in Seq(Symbol)
        BY <2>2, <3>1, Piece
      <4>2. QED
        BY <1>2, <4>1, PieceIsNotice
    <3>3. x = Join(JoinAll(b, l.callbacks), piece)
      BY <1>2, <2>2 DEF Heard
    <3>4. QED
      BY <1>3, <2>2, <3>1, <3>2, <3>3, JoinAllMore
  <2>3. QED
    BY <2>1, <2>2
<1>5. QED
  BY <1>1, <1>3, <1>4 DEF Heard, Quiet, Unmarking

(* It leaves the parser where it was. *)
LEMMA DataFields ==
  ASSUME NEW text, NEW i, NEW l, Placed(l, text, i), NEW d \in Data, Only(l, d),
         NEW e \in Int, e <= Len(text), NEW m, m = CALLBACK_DATA_(l, d, e)
  PROVE  Placed(m, text, i) /\ Same(m, l) /\ Unmarking(m) /\ m.run = l.run
<1>1. Running(l, text) /\ l.p = i
  BY DEF Placed
<1>2. Running(m, text) /\ m.p = l.p /\ Same(m, l) /\ Unmarking(m) /\ m.run = l.run
  BY <1>1, HandedFields
<1>3. \A f \in Data : m.mark[f] <= i
  <2>1. i \in Nat
    BY <1>1, Fields DEF Running, Sane
  <2>2. QED
    BY <1>2, <2>1 DEF Quiet, Unmarking
<1>4. QED
  BY <1>1, <1>2, <1>3 DEF Placed

(* CALLBACK_DATA in both. *)
LEMMA DataTwins ==
  ASSUME NEW c, Reading(c), NEW l, NEW w, Twins(c, l, w), NEW d \in Data, Only(l, d), Only(w, d),
         NEW m, m = CALLBACK_DATA(l, d), NEW k, k = CALLBACK_DATA(w, d)
  PROVE  Twins(c, m, k) /\ Same(m, l) /\ Unmarking(m) /\ Unmarking(k)
         /\ m.run = l.run /\ k.run = w.run
<1>1. /\ c.i - 1 \in Int /\ c.j - 1 \in Int /\ c.i - 1 <= Len(c.text) /\ c.j - 1 <= Len(c.whole)
      /\ c.before \in Seq(Notice) /\ <<>> \in Seq(Notice)
  BY DEF Reading
<1>2. m = CALLBACK_DATA_(l, d, c.i - 1) /\ k = CALLBACK_DATA_(w, d, c.j - 1)
  BY DEF CALLBACK_DATA, Twins, RunsWith, Placed
<1>3. Placed(m, c.text, c.i) /\ Same(m, l) /\ Unmarking(m) /\ m.run = l.run
  BY <1>1, <1>2, DataFields DEF Twins, RunsWith
<1>4. Placed(k, c.whole, c.j) /\ Same(k, w) /\ Unmarking(k) /\ k.run = w.run
  BY <1>1, <1>2, DataFields DEF Twins, RunsWith
<1>5. PICK x \in Seq(Notice) : Heard(x, c.before, l, c.i - 1) /\ Heard(x, <<>>, w, c.j - 1)
  BY DEF Twins, RunsWith, HeardAlike
<1>6. Heard(x, c.before, m, c.i - 1) /\ Heard(x, <<>>, k, c.j - 1)
  BY <1>1, <1>2, <1>5, HandedHeard DEF Twins, RunsWith, Placed
<1>7. Same(m, k)
  BY <1>3, <1>4, SameAs DEF Twins, RunsWith
<1>8. QED
  BY <1>3, <1>4, <1>6, <1>7 DEF Twins, RunsWith, HeardAlike

(* The symbol that is read belongs to the datum that is marked. *)
LEMMA SymbolHeard ==
  ASSUME NEW text \in Seq(Symbol), NEW i \in 1 .. Len(text), NEW l, Placed(l, text, i),
         NEW d \in Data, Only(l, d), l.mark[d] # 0,
         NEW x \in Seq(Notice), NEW b \in Seq(Notice), Heard(x, b, l, i - 1)
  PROVE  Heard(Join(x, PieceOf(d, <<text[i]>>)), b, l, i)
<1>1. l.data = text /\ l.mark \in [Data -> Nat] /\ l.callbacks \in Seq(Notice)
  BY Fields DEF Placed, Running, Sane
<1>2. PICK n \in 1 .. i : n = l.mark[d]
  BY <1>1 DEF Placed
<1>3. PICK s : s = SubSeq(text, n, i - 1)
  OBVIOUS
<1>4. s \in Seq(Symbol)
  <2>1. n \in Nat \ {0} /\ i - 1 \in Int /\ i - 1 <= Len(text)
    BY <1>2
  <2>2. QED
    BY <1>3, <2>1, Piece
<1>5. SubSeq(text, n, i) = s \o <<text[i]>>
  <2>1. n \in 1 .. Len(text) /\ i \in n .. Len(text)
    BY <1>2
  <2>2. QED
    BY <1>3, <2>1, SubSeqRecursiveSecond
<1>6. PICK y \in Seq(Notice) : y = JoinAll(b, l.callbacks)
  BY <1>1, JoinAllOfNotices
<1>7. x = Join(y, PieceOf(d, s))
  BY <1>1, <1>2, <1>3, <1>6 DEF Heard
<1>8. Join(x, PieceOf(d, <<text[i]>>)) = Join(y, PieceOf(d, SubSeq(l.data, l.mark[d], i)))
  <2>1. <<text[i]>> \in Seq(Symbol)
    OBVIOUS
  <2>2. Join(x, PieceOf(d, <<text[i]>>)) = Join(y, PieceOf(d, s \o <<text[i]>>))
    BY <1>4, <1>7, <2>1, JoinPieces
  <2>3. QED
    BY <1>1, <1>2, <1>5, <2>2
<1>9. ~Unmarking(l) /\ \A e \in Data : l.mark[e] # 0 => e = d
  BY DEF Quiet, Unmarking, Only
<1>10. QED
  BY <1>6, <1>8, <1>9 DEF Heard

(* After the symbol both have said the same again: nothing is pending, *)
LEMMA QuietHeard ==
  ASSUME NEW c, NEW l, NEW w, Twins(c, l, w), Quiet(l), Quiet(w), NEW i, NEW j
  PROVE  HeardAlike(c, l, w, i, j)
<1>1. PICK x \in Seq(Notice) : Heard(x, c.before, l, c.i - 1) /\ Heard(x, <<>>, w, c.j - 1)
  BY DEF Twins, RunsWith, HeardAlike
<1>2. Heard(x, c.before, l, i) /\ Heard(x, <<>>, w, j)
  BY <1>1 DEF Heard, Quiet, Unmarking
<1>3. QED
  BY <1>2 DEF HeardAlike

(* or the symbol is added to what is.                                      *)
LEMMA MarkedHeard ==
  ASSUME NEW c, Reading(c), NEW l, NEW w, Twins(c, l, w), NEW d \in Data, Only(l, d), Only(w, d),
         l.mark[d] # 0, w.mark[d] # 0
  PROVE  HeardAlike(c, l, w, c.i, c.j)
<1>1. PICK x \in Seq(Notice) : Heard(x, c.before, l, c.i - 1) /\ Heard(x, <<>>, w, c.j - 1)
  BY DEF Twins, RunsWith, HeardAlike
<1>2. PICK y : y = Join(x, PieceOf(d, <<c.text[c.i]>>))
  OBVIOUS
<1>3. y \in Seq(Notice)
  <2>1. <<c.text[c.i]>> \in Seq(Symbol)
    BY DEF Reading
  <2>2. QED
    BY <1>2, <2>1, PieceIsNotice, JoinOfNotices
<1>4. Placed(l, c.text, c.i) /\ Placed(w, c.whole, c.j)
  BY DEF Twins, RunsWith
<1>5. /\ c.before \in Seq(Notice) /\ <<>> \in Seq(Notice)
      /\ c.text \in Seq(Symbol) /\ c.whole \in Seq(Symbol)
      /\ c.i \in 1 .. Len(c.text) /\ c.j \in 1 .. Len(c.whole) /\ c.text[c.i] = c.whole[c.j]
  BY DEF Reading
<1>6. Heard(y, c.before, l, c.i)
  BY <1>1, <1>2, <1>4, <1>5, SymbolHeard
<1>7. Heard(y, <<>>, w, c.j)
  BY <1>1, <1>2, <1>4, <1>5, SymbolHeard
<1>8. QED
  BY <1>3, <1>6, <1>7 DEF HeardAlike

(* The states in which a URL or a header is under way. *)
Texting == UrlStates \cup {"header_field", "header_value"}

(* A mark is at most where the next symbol will be. *)
LEMMA PlacesAfter ==
  ASSUME NEW c, Reading(c), NEW l, NEW w, Twins(c, l, w)
  PROVE  \A d \in Data : l.mark[d] <= c.i + 1 /\ w.mark[d] <= c.j + 1
<1>1. c.i \in Nat /\ c.j \in Nat
  BY DEF Reading
<1>2. l.mark \in [Data -> Nat] /\ w.mark \in [Data -> Nat]
  BY TwinFields, Fields
<1>3. \A d \in Data : l.mark[d] <= c.i /\ w.mark[d] <= c.j
  BY DEF Twins, RunsWith, Placed
<1>4. QED
  BY <1>1, <1>2, <1>3

(* Nothing under way: both are between symbols again. *)
LEMMA QuietBetween ==
  ASSUME NEW c, Reading(c), NEW l, NEW w, Twins(c, l, w), Quiet(l), Quiet(w), l.state \notin Texting
  PROVE  Between(c, l, w)
<1>1. Same(l, w) /\ RunsWith(l, w)
  BY DEF Twins
<1>2. Exact(l) /\ Exact(w)
  BY <1>1 DEF Exact, Quiet, Unmarking, GoesOn, Texting, Same, Total
<1>3. Outcome(l, w)
  BY <1>1 DEF Outcome, Same
<1>4. QED
  BY <1>1, <1>2, <1>3, PlacesAfter, QuietHeard DEF Between

(* A datum under way in both: both are between symbols again. *)
LEMMA MarkedBetween ==
  ASSUME NEW c, Reading(c), NEW l, NEW w, Twins(c, l, w), NEW d \in Data, Only(l, d), Only(w, d),
         l.mark[d] # 0, w.mark[d] # 0,
         IF d = "body" THEN l.state \notin Texting ELSE GoesOn(l.state, d)
  PROVE  Between(c, l, w)
<1>1. Same(l, w) /\ RunsWith(l, w) /\ ~l.done
  BY DEF Twins, Placed, Running, Stopped
<1>2. Exact(l) /\ Exact(w)
  BY <1>1 DEF Exact, Only, GoesOn, Texting, Same, Total, Data, UrlStates
<1>3. Outcome(l, w)
  BY <1>1 DEF Outcome, Same
<1>4. QED
  BY <1>1, <1>2, <1>3, PlacesAfter, MarkedHeard DEF Between

(* The same error. *)
LEMMA ErrorBetween ==
  ASSUME NEW c, NEW l, NEW w, Twins(c, l, w), NEW e \in Error, e # "OK"
  PROVE  Between(c, SET_ERRNO(l, e), SET_ERRNO(w, e))
<1>1. PICK m : m = SET_ERRNO(l, e)
  OBVIOUS
<1>2. PICK k : k = SET_ERRNO(w, e)
  OBVIOUS
<1>3. l \in Parser /\ w \in Parser /\ Same(l, w)
  BY TwinFields DEF Twins, RunsWith
<1>4. Same(m, k) /\ m.errno = e
  BY <1>1, <1>2, <1>3 DEF SET_ERRNO, Parser, Same, Total
<1>5. Outcome(m, k)
  BY <1>4 DEF Outcome, Same
<1>6. QED
  BY <1>1, <1>2, <1>4, <1>5 DEF Between

(* The call ends where a message does. *)
LEMMA EndBetween ==
  ASSUME NEW c, Reading(c), NEW l, NEW w, Twins(c, l, w), Quiet(l), Quiet(w),
         l.state \notin Texting,
         NEW v \in BOOLEAN
  PROVE  Between(c, [l EXCEPT !.done = v], [w EXCEPT !.done = v])
<1>1. PICK m : m = [l EXCEPT !.done = v]
  OBVIOUS
<1>2. PICK k : k = [w EXCEPT !.done = v]
  OBVIOUS
<1>3. l \in Parser /\ w \in Parser /\ Same(l, w)
  BY TwinFields DEF Twins, RunsWith
<1>4. m.mark = l.mark /\ m.run = l.run /\ m.callbacks = l.callbacks /\ m.data = l.data /\ m.state = l.state
  BY <1>1, <1>3 DEF Parser
<1>5. k.mark = w.mark /\ k.run = w.run /\ k.callbacks = w.callbacks /\ k.data = w.data /\ k.state = w.state
  BY <1>2, <1>3 DEF Parser
<1>6. Same(m, k)
  BY <1>1, <1>2, <1>3 DEF Parser, Same, Total
<1>7. Quiet(m) /\ Quiet(k)
  BY <1>4, <1>5 DEF Quiet, Unmarking
<1>8. HeardAlike(c, m, k, c.i, c.j)
  <2>1. PICK x \in Seq(Notice) : Heard(x, c.before, l, c.i) /\ Heard(x, <<>>, w, c.j)
    BY QuietHeard DEF HeardAlike
  <2>2. Heard(x, c.before, m, c.i) /\ Heard(x, <<>>, k, c.j)
    BY <1>4, <1>5, <1>7, <2>1 DEF Heard, Quiet, Unmarking
  <2>3. QED
    BY <2>2 DEF HeardAlike
<1>9. Exact(m) /\ Exact(k)
  BY <1>3, <1>4, <1>5, <1>7 DEF Exact, Quiet, Unmarking, GoesOn, Texting, Same, Total
<1>10. \A d \in Data : m.mark[d] <= c.i + 1 /\ k.mark[d] <= c.j + 1
  BY <1>4, <1>5, PlacesAfter
<1>11. Outcome(m, k) /\ RunsWith(m, k)
  BY <1>6, <1>7 DEF Outcome, Same, RunsWith, Quiet
<1>12. QED
  BY <1>1, <1>2, <1>6, <1>7, <1>8, <1>9, <1>10, <1>11 DEF Between

-----------------------------------------------------------------------------
(* The states, as twins: both parsers make the same of a symbol. *)

(* Two such parsers that may take the symbol. *)
Peers(c, l, w) ==
  /\ Reading(c) /\ Twins(c, l, w)
  /\ Ready(l, c.text) /\ Ready(w, c.whole)
  /\ Exact(l) /\ Exact(w)

(* Two of which neither has a datum under way. *)
QuietTwins(c, l, w) == Reading(c) /\ Twins(c, l, w) /\ Quiet(l) /\ Quiet(w)

(* Between data no mark is set. *)
LEMMA PeersQuiet ==
  ASSUME NEW c, NEW l, NEW w, Peers(c, l, w),
         l.state \notin UrlStates \cup {"header_field", "header_value", "body_identity",
                                        "chunk_data", "chunk_data_almost_done"}
  PROVE  QuietTwins(c, l, w)
<1>1. w.state = l.state
  BY DEF Peers, Twins, RunsWith, Same, Total
<1>2. Quiet(l) /\ Quiet(w)
  BY <1>1, Unmarked DEF Peers
<1>3. QED
  BY <1>2 DEF Peers, QuietTwins

(* A change of the fields leaves the marks. *)
LEMMA MarksStay ==
  ASSUME NEW l, NEW m, Untouched(m, l)
  PROVE  (Quiet(l) => Quiet(m)) /\ \A d \in Data : Only(l, d) => Only(m, d)
BY DEF Untouched, Quiet, Unmarking, Only

(* A change of the fields, without a datum under way. *)
LEMMA QuietChanged ==
  ASSUME NEW c, NEW l, NEW w, QuietTwins(c, l, w), NEW m \in Parser, NEW k \in Parser,
         Untouched(m, l), Untouched(k, w), Same(m, k)
  PROVE  QuietTwins(c, m, k)
BY Changed, MarksStay DEF QuietTwins

(* A change of the state, which may end the symbol. *)
LEMMA QuietMoves ==
  ASSUME NEW c, NEW l, NEW w, QuietTwins(c, l, w), NEW s \in AnyState,
         NEW m, m = UPDATE_STATE(l, s), NEW k, k = UPDATE_STATE(w, s)
  PROVE  QuietTwins(c, m, k) /\ m.state = s
<1>1. l \in Parser /\ w \in Parser /\ Same(l, w)
  BY TwinFields DEF Twins, RunsWith, QuietTwins
<1>2. m \in Parser /\ Untouched(m, l) /\ m.state = s
  BY <1>1 DEF UPDATE_STATE, Parser, Untouched
<1>3. k \in Parser /\ Untouched(k, w)
  BY <1>1 DEF UPDATE_STATE, Parser, Untouched
<1>4. Same(m, k)
  BY <1>1 DEF UPDATE_STATE, Parser, Same, Total
<1>5. QED
  BY <1>2, <1>3, <1>4, QuietChanged

(* Without marks they stand between symbols wherever no datum is expected. *)
LEMMA Rests ==
  ASSUME NEW c, NEW l, NEW w, QuietTwins(c, l, w), l.state \notin Texting
  PROVE  Between(c, l, w)
BY QuietBetween DEF QuietTwins

(* A change of the state that ends the symbol. *)
LEMMA Moves ==
  ASSUME NEW c, NEW l, NEW w, QuietTwins(c, l, w), NEW s \in AnyState \ Texting
  PROVE  Between(c, UPDATE_STATE(l, s), UPDATE_STATE(w, s))
<1>1. PICK m : m = UPDATE_STATE(l, s)
  OBVIOUS
<1>2. PICK k : k = UPDATE_STATE(w, s)
  OBVIOUS
<1>3. QuietTwins(c, m, k) /\ m.state = s
  BY <1>1, <1>2, QuietMoves
<1>4. QED
  BY <1>1, <1>2, <1>3, Rests

(* The same error, without a datum under way. *)
LEMMA Fails ==
  ASSUME NEW c, NEW l, NEW w, QuietTwins(c, l, w), NEW e \in Error, e # "OK"
  PROVE  Between(c, SET_ERRNO(l, e), SET_ERRNO(w, e))
BY ErrorBetween DEF QuietTwins

(* CALLBACK_NOTIFY, without a datum under way. *)
LEMMA QuietNotify ==
  ASSUME NEW c, NEW l, NEW w, QuietTwins(c, l, w), NEW what \in DOMAIN NotifiedState,
         NEW m, m = CALLBACK_NOTIFY(l, what), NEW k, k = CALLBACK_NOTIFY(w, what)
  PROVE  QuietTwins(c, m, k) /\ m.state = l.state /\ m.upgrade = l.upgrade
         /\ Same(m, l)
<1>1. Twins(c, m, k) /\ Same(m, l) /\ Quiet(m) /\ Quiet(k)
  BY NotifyTwins DEF QuietTwins
<1>2. QED
  BY <1>1 DEF QuietTwins, Same, Total

-----------------------------------------------------------------------------
(* The request line *)

(* After the end of the connection. *)
LEMMA deadTwins ==
  ASSUME NEW c, NEW l, NEW w, QuietTwins(c, l, w), l.state = "dead", NEW ch
  PROVE  Between(c, dead(l, ch), dead(w, ch))
<1>1. CASE ch \in {"CR", "LF"}
  BY <1>1, Rests DEF dead, Texting, UrlStates
<1>2. CASE ch \notin {"CR", "LF"}
  BY <1>2, Fails DEF dead, Error
<1>3. QED
  BY <1>1, <1>2

(* The first letter of the method. *)
LEMMA start_reqTwins ==
  ASSUME NEW c, NEW l, NEW w, QuietTwins(c, l, w), l.state = "start_req", NEW ch
  PROVE  Between(c, start_req(l, ch), start_req(w, ch))
<1>0. DOMAIN FirstLetter = {"G", "P", "C", "S"}
  BY Methods
<1>1. CASE ch \in {"CR", "LF"}
  BY <1>0, <1>1, Rests DEF start_req, Texting, UrlStates
<1>2. CASE ch \in DOMAIN FirstLetter
  <2>1. PICK g \in Method : g = FirstLetter[ch]
    BY <1>2, Methods
  <2>2. PICK m : m = [l EXCEPT !.flags = {}, !.content_length = MaxLength,
                               !.method = g, !.index = 1, !.state = "req_method"]
    OBVIOUS
  <2>3. PICK k : k = [w EXCEPT !.flags = {}, !.content_length = MaxLength,
                               !.method = g, !.index = 1, !.state = "req_method"]
    OBVIOUS
  <2>4. "req_method" \in AnyState /\ "req_method" \notin Texting
    BY DEF AnyState, State, LineStates, Texting, UrlStates
  <2>5. l \in Parser /\ w \in Parser /\ Same(l, w)
    BY TwinFields DEF Twins, RunsWith, QuietTwins
  <2>6. PICK f \in SUBSET Flag : f = {}
    OBVIOUS
  <2>7. PICK n \in 0 .. MaxLength : n = MaxLength
    BY ParserConstants
  <2>8. /\ m = [l EXCEPT !.flags = f, !.content_length = n,
                         !.method = g, !.index = 1, !.state = "req_method"]
        /\ k = [w EXCEPT !.flags = f, !.content_length = n,
                         !.method = g, !.index = 1, !.state = "req_method"]
    BY <2>2, <2>3, <2>6, <2>7
  <2>9. m \in Parser /\ Untouched(m, l) /\ m.state = "req_method"
    BY <2>4, <2>5, <2>8 DEF Parser, Untouched
  <2>10. k \in Parser /\ Untouched(k, w)
    BY <2>4, <2>5, <2>8 DEF Parser, Untouched
  <2>11. Same(m, k)
    BY <2>5, <2>8 DEF Parser, Same, Total
  <2>12. QuietTwins(c, m, k)
    BY <2>9, <2>10, <2>11, QuietChanged
  <2>13. PICK mm : mm = CALLBACK_NOTIFY(m, "message_begin")
    OBVIOUS
  <2>14. PICK kk : kk = CALLBACK_NOTIFY(k, "message_begin")
    OBVIOUS
  <2>15. QuietTwins(c, mm, kk) /\ mm.state = m.state
    BY <2>12, <2>13, <2>14, QuietNotify DEF NotifiedState
  <2>16. start_req(l, ch) = mm /\ start_req(w, ch) = kk
    BY <1>0, <1>2, <2>1, <2>2, <2>3, <2>13, <2>14 DEF start_req
  <2>17. QED
    BY <2>4, <2>9, <2>15, <2>16, Rests
<1>3. CASE ch \notin {"CR", "LF"} /\ ch \notin DOMAIN FirstLetter
  BY <1>3, Fails DEF start_req, Error
<1>4. QED
  BY <1>1, <1>2, <1>3

(* The rest of the method. *)
LEMMA req_methodTwins ==
  ASSUME NEW c, NEW l, NEW w, QuietTwins(c, l, w), Lengths(l.state, l),
         l.state = "req_method", NEW ch
  PROVE  Between(c, req_method(l, ch), req_method(w, ch))
<1>0. l \in Parser /\ w \in Parser /\ Same(l, w)
  BY TwinFields DEF Twins, RunsWith, QuietTwins
<1>a. w.index = l.index /\ w.method = l.method
  BY <1>0 DEF Same, Total
<1>1. CASE ch = "SP" /\ l.index = 2
  <2>1. "req_spaces_before_url" \in AnyState \ Texting
    BY DEF AnyState, State, LineStates, Texting, UrlStates
  <2>2. QED
    BY <1>a, <1>1, <2>1, Moves DEF req_method
<1>2. CASE l.index = 1 /\ ch \in DOMAIN OtherLetters[l.method]
  <2>1. PICK g \in Method : g = OtherLetters[l.method][ch]
    BY <1>2, Methods DEF Lengths
  <2>2. PICK m : m = [l EXCEPT !.method = g, !.index = 2]
    OBVIOUS
  <2>3. PICK k : k = [w EXCEPT !.method = g, !.index = 2]
    OBVIOUS
  <2>4. m \in Parser /\ Untouched(m, l) /\ m.state = "req_method"
    BY <1>0, <2>2 DEF Parser, Untouched
  <2>5. k \in Parser /\ Untouched(k, w)
    BY <1>0, <2>3 DEF Parser, Untouched
  <2>6. Same(m, k)
    BY <1>0, <2>2, <2>3 DEF Parser, Same, Total
  <2>7. QuietTwins(c, m, k)
    BY <2>4, <2>5, <2>6, QuietChanged
  <2>8. req_method(l, ch) = m /\ req_method(w, ch) = k
    BY <1>a, <1>2, <2>1, <2>2, <2>3 DEF req_method
  <2>9. QED
    BY <2>4, <2>7, <2>8, Rests DEF Texting, UrlStates
<1>3. CASE /\ ~(ch = "SP" /\ l.index = 2)
           /\ ~(l.index = 1 /\ ch \in DOMAIN OtherLetters[l.method])
  <2>1. /\ req_method(l, ch) = SET_ERRNO(l, "INVALID_METHOD")
        /\ req_method(w, ch) = SET_ERRNO(w, "INVALID_METHOD")
    BY <1>a, <1>3 DEF req_method
  <2>2. QED
    BY <2>1, Fails DEF Error
<1>4. QED
  BY <1>1, <1>2, <1>3

(* The URL goes on in both. *)
LEMMA UrlTwins ==
  ASSUME NEW c, Reading(c), NEW l, NEW w, Twins(c, l, w), NEW ch,
         Only(l, "url"), Only(w, "url"), l.mark["url"] # 0, w.mark["url"] # 0
  PROVE  Between(c, UrlGoesOn(l, ch), UrlGoesOn(w, ch))
<1>1. PICK s \in UrlStates \cup {"dead"} : s = parse_url_char(l.state, ch)
  BY UrlMachine
<1>2. w.state = l.state
  BY DEF Twins, RunsWith, Same, Total
<1>3. CASE s = "dead"
  <2>1. /\ UrlGoesOn(l, ch) = SET_ERRNO(l, "INVALID_URL")
        /\ UrlGoesOn(w, ch) = SET_ERRNO(w, "INVALID_URL")
    BY <1>1, <1>2, <1>3 DEF UrlGoesOn
  <2>2. QED
    BY <2>1, ErrorBetween DEF Error
<1>4. CASE s # "dead"
  <2>1. s \in UrlStates /\ s \in AnyState
    BY <1>4 DEF UrlStates, AnyState, State
  <2>2. PICK m : m = UPDATE_STATE(l, s)
    OBVIOUS
  <2>3. PICK k : k = UPDATE_STATE(w, s)
    OBVIOUS
  <2>4. Twins(c, m, k) /\ m.mark = l.mark /\ m.run = l.run /\ k.mark = w.mark /\ k.run = w.run /\ m.state = s
    BY <2>1, <2>2, <2>3, StateTwins
  <2>5. Only(m, "url") /\ Only(k, "url") /\ m.mark["url"] # 0 /\ k.mark["url"] # 0
    BY <2>4 DEF Only
  <2>6. GoesOn(m.state, "url") /\ "url" \in Data /\ "url" # "body"
    BY <2>1, <2>4 DEF GoesOn, Data
  <2>7. Between(c, m, k)
    BY <2>4, <2>5, <2>6, MarkedBetween
  <2>8. UrlGoesOn(l, ch) = m /\ UrlGoesOn(w, ch) = k
    BY <1>1, <1>2, <1>4, <2>2, <2>3 DEF UrlGoesOn
  <2>9. QED
    BY <2>7, <2>8
<1>5. QED
  BY <1>3, <1>4

(* The URL starts. *)
LEMMA req_spaces_before_urlTwins ==
  ASSUME NEW c, NEW l, NEW w, QuietTwins(c, l, w), l.state = "req_spaces_before_url", NEW ch
  PROVE  Between(c, req_spaces_before_url(l, ch), req_spaces_before_url(w, ch))
<1>1. CASE ch = "SP"
  BY <1>1, Rests DEF req_spaces_before_url, Texting, UrlStates
<1>2. CASE ch # "SP"
  <2>1. PICK m : m = MARK(l, "url")
    OBVIOUS
  <2>2. PICK k : k = MARK(w, "url")
    OBVIOUS
  <2>3. "url" \in Data /\ Only(l, "url") /\ Only(w, "url") /\ Reading(c) /\ Twins(c, l, w)
    BY DEF Data, Only, QuietTwins, Quiet, Unmarking
  <2>4. Twins(c, m, k) /\ Only(m, "url") /\ Only(k, "url") /\ m.mark["url"] # 0 /\ k.mark["url"] # 0
    BY <2>1, <2>2, <2>3, MarkTwins
  <2>5. k.method = m.method
    BY <2>4 DEF Twins, RunsWith, Same, Total
  <2>6. CASE m.method = "CONNECT"
    <3>1. "req_server_start" \in AnyState
      BY DEF AnyState, State, UrlStates
    <3>2. PICK mm : mm = UPDATE_STATE(m, "req_server_start")
      OBVIOUS
    <3>3. PICK kk : kk = UPDATE_STATE(k, "req_server_start")
      OBVIOUS
    <3>4. Twins(c, mm, kk) /\ mm.mark = m.mark /\ mm.run = m.run /\ kk.mark = k.mark /\ kk.run = k.run
      BY <2>4, <3>1, <3>2, <3>3, StateTwins
    <3>5. Only(mm, "url") /\ Only(kk, "url") /\ mm.mark["url"] # 0 /\ kk.mark["url"] # 0
      BY <2>4, <3>4 DEF Only
    <3>6. Between(c, UrlGoesOn(mm, ch), UrlGoesOn(kk, ch))
      BY <2>3, <3>4, <3>5, UrlTwins
    <3>7. QED
      BY <1>2, <2>1, <2>2, <2>5, <2>6, <3>2, <3>3, <3>6 DEF req_spaces_before_url
  <2>7. CASE m.method # "CONNECT"
    <3>1. Between(c, UrlGoesOn(m, ch), UrlGoesOn(k, ch))
      BY <2>3, <2>4, UrlTwins
    <3>2. QED
      BY <1>2, <2>1, <2>2, <2>5, <2>7, <3>1 DEF req_spaces_before_url
  <2>8. QED
    BY <2>6, <2>7
<1>3. QED
  BY <1>1, <1>2

(* A datum that ends before the symbol. *)
LEMMA EndsQuiet ==
  ASSUME NEW c, Reading(c), NEW l, NEW w, Twins(c, l, w), NEW d \in Data, Only(l, d), Only(w, d),
         l.run = 0, w.run = 0,
         NEW s \in AnyState,
         NEW m, m = CALLBACK_DATA(UPDATE_STATE(l, s), d),
         NEW k, k = CALLBACK_DATA(UPDATE_STATE(w, s), d)
  PROVE  QuietTwins(c, m, k) /\ m.state = s
<1>1. PICK a : a = UPDATE_STATE(l, s)
  OBVIOUS
<1>2. PICK b : b = UPDATE_STATE(w, s)
  OBVIOUS
<1>3. Twins(c, a, b) /\ a.mark = l.mark /\ a.run = l.run /\ b.mark = w.mark /\ b.run = w.run /\ a.state = s
  BY <1>1, <1>2, StateTwins
<1>4. Only(a, d) /\ Only(b, d)
  BY <1>3 DEF Only
<1>5. Twins(c, m, k) /\ Same(m, a) /\ Quiet(m) /\ Quiet(k)
  BY <1>1, <1>2, <1>3, <1>4, DataTwins DEF Quiet
<1>6. QED
  BY <1>3, <1>5 DEF QuietTwins, Same, Total

(* What is marked where the state is about a datum. *)
LEMMA PeersMarked ==
  ASSUME NEW c, NEW l, NEW w, Peers(c, l, w), NEW d \in Data \ {"body"}, GoesOn(l.state, d)
  PROVE  /\ Reading(c) /\ Twins(c, l, w)
         /\ Only(l, d) /\ Only(w, d) /\ l.mark[d] # 0 /\ w.mark[d] # 0
<1>1. w.state = l.state
  BY DEF Peers, Twins, RunsWith, Same, Total
<1>2. Marks(l.state, l.mark) /\ Marks(w.state, w.mark) /\ Exact(l) /\ Exact(w)
  BY DEF Peers, Ready
<1>3. l.mark[d] # 0 /\ w.mark[d] # 0
  BY <1>1, <1>2 DEF Exact
<1>4. Only(l, d) /\ Only(w, d)
  BY <1>1, <1>2 DEF Marks, Only, GoesOn, Data, UrlStates
<1>5. QED
  BY <1>3, <1>4 DEF Peers

(* The URL goes on, and ends. *)
LEMMA req_urlTwins ==
  ASSUME NEW c, NEW l, NEW w, Peers(c, l, w), l.state \in UrlStates, NEW ch
  PROVE  Between(c, req_url(l, ch), req_url(w, ch))
<1>1. "url" \in Data /\ "url" # "body" /\ GoesOn(l.state, "url")
  BY DEF Data, GoesOn
<1>2. /\ Reading(c) /\ Twins(c, l, w) /\ Only(l, "url") /\ Only(w, "url")
      /\ l.mark["url"] # 0 /\ w.mark["url"] # 0
  BY <1>1, PeersMarked
<1>3. Between(c, UrlGoesOn(l, ch), UrlGoesOn(w, ch))
  BY <1>2, UrlTwins
<1>4. w.state = l.state /\ l.run = 0 /\ w.run = 0
  <2>1. w.state = l.state
    BY <1>2 DEF Twins, Same
  <2>2. QED
    BY <2>1 DEF Peers, Ready, Lengths, UrlStates
<1> DEFINE early == l.state \in {"req_schema", "req_schema_slash", "req_schema_slash_slash",
                                 "req_server_start"}
<1>5. CASE early
  BY <1>3, <1>4, <1>5 DEF req_url
<1>6. CASE ~early /\ ch = "SP"
  <2>1. "req_http_start" \in AnyState /\ "req_http_start" \notin Texting
    BY DEF AnyState, State, LineStates, Texting, UrlStates
  <2>2. PICK m : m = CALLBACK_DATA(UPDATE_STATE(l, "req_http_start"), "url")
    OBVIOUS
  <2>3. PICK k : k = CALLBACK_DATA(UPDATE_STATE(w, "req_http_start"), "url")
    OBVIOUS
  <2>4. QuietTwins(c, m, k) /\ m.state = "req_http_start"
    BY <1>1, <1>2, <1>4, <2>1, <2>2, <2>3, EndsQuiet
  <2>5. req_url(l, ch) = m /\ req_url(w, ch) = k
    BY <1>4, <1>6, <2>2, <2>3 DEF req_url
  <2>6. QED
    BY <2>1, <2>4, <2>5, Rests
<1>7. CASE ~early /\ ch \in {"CR", "LF"}
  <2>1. PICK s \in {"req_line_almost_done", "header_field_start"} :
          s = IF ch = "CR" THEN "req_line_almost_done" ELSE "header_field_start"
    OBVIOUS
  <2>2. s \in AnyState /\ s \notin Texting
    BY DEF AnyState, State, LineStates, HeaderStates, Texting, UrlStates
  <2>3. PICK a : a = [l EXCEPT !.http_major = 0, !.http_minor = 9, !.state = s]
    OBVIOUS
  <2>4. PICK b : b = [w EXCEPT !.http_major = 0, !.http_minor = 9, !.state = s]
    OBVIOUS
  <2>5. l \in Parser /\ w \in Parser /\ Same(l, w)
    BY <1>2, TwinFields DEF Twins, RunsWith
  <2>6. a \in Parser /\ Untouched(a, l) /\ a.state = s
    BY <2>2, <2>3, <2>5 DEF Parser, Untouched
  <2>7. b \in Parser /\ Untouched(b, w)
    BY <2>2, <2>4, <2>5 DEF Parser, Untouched
  <2>8. Same(a, b)
    BY <2>3, <2>4, <2>5 DEF Parser, Same, Total
  <2>9. Twins(c, a, b) /\ Only(a, "url") /\ Only(b, "url")
    BY <1>1, <1>2, <2>6, <2>7, <2>8, Changed, MarksStay
  <2>10. PICK m : m = CALLBACK_DATA(a, "url")
    OBVIOUS
  <2>11. PICK k : k = CALLBACK_DATA(b, "url")
    OBVIOUS
  <2>12. /\ Twins(c, m, k) /\ Same(m, a) /\ Unmarking(m) /\ Unmarking(k)
         /\ m.run = a.run /\ k.run = b.run
    BY <1>1, <1>2, <2>9, <2>10, <2>11, DataTwins
  <2>13. QuietTwins(c, m, k) /\ m.state \notin Texting
    BY <1>2, <1>4, <2>2, <2>6, <2>7, <2>12 DEF QuietTwins, Quiet, Untouched, Same
  <2>14. req_url(l, ch) = m
    BY <1>7, <2>1, <2>3, <2>10 DEF req_url
  <2>15. req_url(w, ch) = k
    BY <1>4, <1>7, <2>1, <2>4, <2>11 DEF req_url
  <2>16. QED
    BY <2>13, <2>14, <2>15, Rests
<1>8. CASE ~early /\ ch \notin {"SP", "CR", "LF"}
  BY <1>3, <1>4, <1>8 DEF req_url
<1>9. QED
  BY <1>5, <1>6, <1>7, <1>8

(* The version starts, *)
LEMMA req_http_startTwins ==
  ASSUME NEW c, NEW l, NEW w, QuietTwins(c, l, w), l.state = "req_http_start", NEW ch
  PROVE  Between(c, req_http_start(l, ch), req_http_start(w, ch))
<1>1. w.method = l.method
  BY DEF QuietTwins, Twins, RunsWith, Same, Total
<1>2. "req_http_HT" \in AnyState \ Texting /\ "req_http_HTTP" \in AnyState \ Texting
  BY DEF AnyState, State, LineStates, Texting, UrlStates
<1>3. Between(c, l, w)
  BY Rests DEF Texting, UrlStates
<1>4. Between(c, SET_ERRNO(l, "INVALID_CONSTANT"), SET_ERRNO(w, "INVALID_CONSTANT"))
  BY Fails DEF Error
<1>5. QED
  BY <1>1, <1>2, <1>3, <1>4, Moves DEF req_http_start

(* is that of HTTP, *)
LEMMA req_http_nameTwins ==
  ASSUME NEW c, NEW l, NEW w, QuietTwins(c, l, w), NEW ch
  PROVE  Between(c, req_http_name(l, ch), req_http_name(w, ch))
<1>1. w.state = l.state
  BY DEF QuietTwins, Twins, RunsWith, Same, Total
<1>2. "req_http_major" \in AnyState \ Texting /\ "req_http_HTTP" \in AnyState \ Texting
  BY DEF AnyState, State, LineStates, Texting, UrlStates
<1>3. Between(c, SET_ERRNO(l, "STRICT"), SET_ERRNO(w, "STRICT"))
  BY Fails DEF Error
<1>4. QED
  BY <1>1, <1>2, <1>3, Moves DEF req_http_name, STRICT_CHECK

(* and has two numbers. *)
LEMMA req_http_versionTwins ==
  ASSUME NEW c, NEW l, NEW w, QuietTwins(c, l, w), NEW ch
  PROVE  Between(c, req_http_version(l, ch), req_http_version(w, ch))
<1>0. l \in Parser /\ w \in Parser /\ Same(l, w)
  BY TwinFields DEF Twins, RunsWith, QuietTwins
<1>1. w.state = l.state
  BY <1>0 DEF Same, Total
<1>2. \A s \in {"req_http_minor", "req_line_almost_done", "header_field_start",
               "req_http_dot", "req_http_end"} : s \in AnyState \ Texting
  BY DEF AnyState, State, LineStates, HeaderStates, Texting, UrlStates
<1>3. CASE l.state = "req_http_major" /\ ch \in Num
  <2>1. PICK n \in Nat : n = Number[ch]
    BY <1>3, Digits
  <2>2. PICK m : m = [l EXCEPT !.http_major = n, !.state = "req_http_dot"]
    OBVIOUS
  <2>3. PICK k : k = [w EXCEPT !.http_major = n, !.state = "req_http_dot"]
    OBVIOUS
  <2>4. m \in Parser /\ Untouched(m, l) /\ m.state = "req_http_dot"
    BY <1>0, <1>2, <2>2 DEF Parser, Untouched
  <2>5. k \in Parser /\ Untouched(k, w)
    BY <1>0, <1>2, <2>3 DEF Parser, Untouched
  <2>6. Same(m, k)
    BY <1>0, <2>2, <2>3 DEF Parser, Same, Total
  <2>7. req_http_version(l, ch) = m /\ req_http_version(w, ch) = k
    BY <1>1, <1>3, <2>1, <2>2, <2>3 DEF req_http_version
  <2>8. QED
    BY <1>2, <2>4, <2>5, <2>6, <2>7, QuietChanged, Rests
<1>4. CASE l.state = "req_http_minor" /\ ch \in Num
  <2>1. PICK n \in Nat : n = Number[ch]
    BY <1>4, Digits
  <2>2. PICK m : m = [l EXCEPT !.http_minor = n, !.state = "req_http_end"]
    OBVIOUS
  <2>3. PICK k : k = [w EXCEPT !.http_minor = n, !.state = "req_http_end"]
    OBVIOUS
  <2>4. m \in Parser /\ Untouched(m, l) /\ m.state = "req_http_end"
    BY <1>0, <1>2, <2>2 DEF Parser, Untouched
  <2>5. k \in Parser /\ Untouched(k, w)
    BY <1>0, <1>2, <2>3 DEF Parser, Untouched
  <2>6. Same(m, k)
    BY <1>0, <2>2, <2>3 DEF Parser, Same, Total
  <2>7. req_http_version(l, ch) = m /\ req_http_version(w, ch) = k
    BY <1>1, <1>4, <2>1, <2>2, <2>3 DEF req_http_version
  <2>8. QED
    BY <1>2, <2>4, <2>5, <2>6, <2>7, QuietChanged, Rests
<1>5. CASE /\ ~(l.state = "req_http_major" /\ ch \in Num)
           /\ ~(l.state = "req_http_minor" /\ ch \in Num)
  <2>1. CASE \E s \in {"req_http_minor", "req_line_almost_done", "header_field_start"} :
               /\ req_http_version(l, ch) = UPDATE_STATE(l, s)
               /\ req_http_version(w, ch) = UPDATE_STATE(w, s)
    BY <1>2, <2>1, Moves
  <2>2. CASE /\ req_http_version(l, ch) = SET_ERRNO(l, "INVALID_VERSION")
             /\ req_http_version(w, ch) = SET_ERRNO(w, "INVALID_VERSION")
    BY <2>2, Fails DEF Error
  <2>3. QED
    BY <1>1, <1>5, <2>1, <2>2 DEF req_http_version
<1>6. QED
  BY <1>3, <1>4, <1>5

(* The request line ends. *)
LEMMA req_line_almost_doneTwins ==
  ASSUME NEW c, NEW l, NEW w, QuietTwins(c, l, w), NEW ch
  PROVE  Between(c, req_line_almost_done(l, ch), req_line_almost_done(w, ch))
<1>1. "header_field_start" \in AnyState \ Texting
  BY DEF AnyState, State, HeaderStates, Texting, UrlStates
<1>2. Between(c, SET_ERRNO(l, "LF_EXPECTED"), SET_ERRNO(w, "LF_EXPECTED"))
  BY Fails DEF Error
<1>3. QED
  BY <1>1, <1>2, Moves DEF req_line_almost_done

(* The end of a message, for both. *)
LEMMA message_completeTwins ==
  ASSUME NEW c, NEW l, NEW w, QuietTwins(c, l, w),
         NEW m, m = message_complete(l), NEW k, k = message_complete(w)
  PROVE  QuietTwins(c, m, k) /\ m.state \notin Texting /\ m.upgrade = l.upgrade
<1>1. Same(l, w)
  BY DEF QuietTwins, Twins, RunsWith
<1>2. PICK s \in {"start_req", "dead"} : s = NEW_MESSAGE(l) /\ s = NEW_MESSAGE(w)
  BY <1>1 DEF NEW_MESSAGE, http_should_keep_alive, Same, Total
<1>3. s \in AnyState /\ s \notin Texting
  BY DEF AnyState, State, LineStates, Texting, UrlStates
<1>4. PICK a : a = UPDATE_STATE(l, s)
  OBVIOUS
<1>5. PICK b : b = UPDATE_STATE(w, s)
  OBVIOUS
<1>6. QuietTwins(c, a, b) /\ a.state = s
  BY <1>3, <1>4, <1>5, QuietMoves
<1>7. a.upgrade = l.upgrade
  <2>1. l \in Parser
    BY TwinFields DEF QuietTwins
  <2>2. QED
    BY <1>4, <2>1 DEF UPDATE_STATE, Parser
<1>8. m = CALLBACK_NOTIFY(a, "message_complete") /\ k = CALLBACK_NOTIFY(b, "message_complete")
  BY <1>2, <1>4, <1>5 DEF message_complete
<1>9. QuietTwins(c, m, k) /\ m.state = a.state /\ m.upgrade = a.upgrade
  BY <1>6, <1>8, QuietNotify DEF NotifiedState
<1>10. QED
  BY <1>3, <1>6, <1>7, <1>9

(* A message without a body ends, or one whose body is complete. *)
LEMMA message_doneTwins ==
  ASSUME NEW c, NEW l, NEW w, QuietTwins(c, l, w)
  PROVE  Between(c, message_done(l), message_done(w))
<1>1. l.upgrade \in BOOLEAN /\ w.upgrade = l.upgrade
  BY TwinFields, Fields DEF QuietTwins, Twins, RunsWith, Same, Total
<1>2. PICK v \in BOOLEAN : v = l.upgrade
  BY <1>1
<1>3. PICK m : m = message_complete(l)
  OBVIOUS
<1>4. PICK k : k = message_complete(w)
  OBVIOUS
<1>5. QuietTwins(c, m, k) /\ m.state \notin Texting
  BY <1>3, <1>4, message_completeTwins
<1>6. Between(c, [m EXCEPT !.done = v], [k EXCEPT !.done = v])
  BY <1>5, EndBetween DEF QuietTwins
<1>7. message_done(l) = [m EXCEPT !.done = v] /\ message_done(w) = [k EXCEPT !.done = v]
  BY <1>1, <1>2, <1>3, <1>4 DEF message_done
<1>8. QED
  BY <1>6, <1>7

(* After the headers: what body follows. *)
LEMMA headers_doneTwins ==
  ASSUME NEW c, NEW l, NEW w, QuietTwins(c, l, w)
  PROVE  Between(c, headers_done(l), headers_done(w))
<1>0. l \in Parser /\ w \in Parser /\ Same(l, w)
  BY TwinFields DEF Twins, RunsWith, QuietTwins
<1>a. PICK n \in Nat : n = 0
  OBVIOUS
<1>1. PICK m : m = [l EXCEPT !.nread = 0] /\ m = [l EXCEPT !.nread = n]
  BY <1>a
<1>2. PICK k : k = [w EXCEPT !.nread = 0] /\ k = [w EXCEPT !.nread = n]
  BY <1>a
<1>3. m \in Parser /\ Untouched(m, l)
  BY <1>0, <1>a, <1>1 DEF Parser, Untouched
<1>4. k \in Parser /\ Untouched(k, w)
  BY <1>0, <1>a, <1>2 DEF Parser, Untouched
<1>5. Same(m, k)
  BY <1>0, <1>a, <1>1, <1>2 DEF QuietTwins, Quiet, Parser, Same, Total
<1>6. QuietTwins(c, m, k)
  BY <1>3, <1>4, <1>5, QuietChanged
<1>7. /\ hasBody(k) = hasBody(m) /\ k.upgrade = m.upgrade /\ k.method = m.method
      /\ k.flags = m.flags
  BY <1>5 DEF Same, Total, hasBody
<1>8. CASE m.upgrade /\ (m.method = "CONNECT" \/ ~hasBody(m))
  <2>1. PICK mm : mm = message_complete(m)
    OBVIOUS
  <2>2. PICK kk : kk = message_complete(k)
    OBVIOUS
  <2>3. QuietTwins(c, mm, kk) /\ mm.state \notin Texting
    BY <1>6, <2>1, <2>2, message_completeTwins
  <2>4. Between(c, [mm EXCEPT !.done = TRUE], [kk EXCEPT !.done = TRUE])
    BY <2>3, EndBetween DEF QuietTwins
  <2>5. /\ headers_done(l) = [mm EXCEPT !.done = TRUE]
        /\ headers_done(w) = [kk EXCEPT !.done = TRUE]
    BY <1>1, <1>2, <1>7, <1>8, <2>1, <2>2 DEF headers_done
  <2>6. QED
    BY <2>4, <2>5
<1>9. CASE ~(m.upgrade /\ (m.method = "CONNECT" \/ ~hasBody(m))) /\ "CHUNKED" \in m.flags
  <2>1. "chunk_size_start" \in AnyState \ Texting
    BY DEF AnyState, State, ChunkStates, Texting, UrlStates
  <2>2. /\ headers_done(l) = UPDATE_STATE(m, "chunk_size_start")
        /\ headers_done(w) = UPDATE_STATE(k, "chunk_size_start")
    BY <1>1, <1>2, <1>7, <1>9 DEF headers_done
  <2>3. QED
    BY <1>6, <2>1, <2>2, Moves
<1>10. CASE /\ ~(m.upgrade /\ (m.method = "CONNECT" \/ ~hasBody(m)))
             /\ "CHUNKED" \notin m.flags /\ hasBody(m)
  <2>1. "body_identity" \in AnyState \ Texting
    BY DEF AnyState, State, Texting, UrlStates
  <2>2. /\ headers_done(l) = UPDATE_STATE(m, "body_identity")
        /\ headers_done(w) = UPDATE_STATE(k, "body_identity")
    BY <1>1, <1>2, <1>7, <1>10 DEF headers_done
  <2>3. QED
    BY <1>6, <2>1, <2>2, Moves
<1>11. CASE /\ ~(m.upgrade /\ (m.method = "CONNECT" \/ ~hasBody(m)))
             /\ "CHUNKED" \notin m.flags /\ ~hasBody(m)
  <2>1. headers_done(l) = message_complete(m) /\ headers_done(w) = message_complete(k)
    BY <1>1, <1>2, <1>7, <1>11 DEF headers_done
  <2>2. QED
    BY <1>6, <2>1, message_completeTwins, Rests
<1>12. QED
  BY <1>8, <1>9, <1>10, <1>11

(* The headers end. *)
LEMMA headers_almost_doneTwins ==
  ASSUME NEW c, NEW l, NEW w, QuietTwins(c, l, w), NEW ch
  PROVE  Between(c, headers_almost_done(l, ch), headers_almost_done(w, ch))
<1>0. l \in Parser /\ w \in Parser /\ Same(l, w)
  BY TwinFields DEF Twins, RunsWith, QuietTwins
<1>1. l.flags = w.flags /\ l.method = w.method
  BY <1>0 DEF Same, Total
<1>2. CASE ch # "LF"
  <2>1. Between(c, SET_ERRNO(l, "STRICT"), SET_ERRNO(w, "STRICT"))
    BY Fails DEF Error
  <2>2. QED
    BY <1>2, <2>1 DEF headers_almost_done, STRICT_CHECK
<1>3. CASE ch = "LF" /\ "TRAILING" \in l.flags
  <2>1. PICK a : a = UPDATE_STATE(l, "message_done")
    OBVIOUS
  <2>2. PICK b : b = UPDATE_STATE(w, "message_done")
    OBVIOUS
  <2>3. QuietTwins(c, a, b)
    BY <2>1, <2>2, QuietMoves DEF AnyState
  <2>4. PICK m : m = CALLBACK_NOTIFY(a, "chunk_complete")
    OBVIOUS
  <2>5. PICK k : k = CALLBACK_NOTIFY(b, "chunk_complete")
    OBVIOUS
  <2>6. QuietTwins(c, m, k)
    BY <2>3, <2>4, <2>5, QuietNotify DEF NotifiedState
  <2>7. headers_almost_done(l, ch) = message_done(m) /\ headers_almost_done(w, ch) = message_done(k)
    BY <1>1, <1>3, <2>1, <2>2, <2>4, <2>5 DEF headers_almost_done, STRICT_CHECK
  <2>8. QED
    BY <2>6, <2>7, message_doneTwins
<1>4. CASE ch = "LF" /\ "TRAILING" \notin l.flags /\ {"CHUNKED", "CONTENTLENGTH"} \subseteq l.flags
  <2>1. Between(c, SET_ERRNO(l, "UNEXPECTED_CONTENT_LENGTH"),
                   SET_ERRNO(w, "UNEXPECTED_CONTENT_LENGTH"))
    BY Fails DEF Error
  <2>2. QED
    BY <1>1, <1>4, <2>1 DEF headers_almost_done, STRICT_CHECK
<1>5. CASE /\ ch = "LF" /\ "TRAILING" \notin l.flags
           /\ ~({"CHUNKED", "CONTENTLENGTH"} \subseteq l.flags)
  <2>1. PICK u \in BOOLEAN : u = (\/ {"UPGRADE", "CONNECTION_UPGRADE"} \subseteq l.flags
                                  \/ l.method = "CONNECT")
    OBVIOUS
  <2>2. PICK a : a = [l EXCEPT !.state = "headers_done", !.upgrade = u]
    OBVIOUS
  <2>3. PICK b : b = [w EXCEPT !.state = "headers_done", !.upgrade = u]
    OBVIOUS
  <2>4. a \in Parser /\ Untouched(a, l)
    BY <1>0, <2>2 DEF Parser, Untouched, AnyState
  <2>5. b \in Parser /\ Untouched(b, w)
    BY <1>0, <2>3 DEF Parser, Untouched, AnyState
  <2>6. Same(a, b)
    BY <1>0, <2>2, <2>3 DEF Parser, Same, Total
  <2>7. QuietTwins(c, a, b)
    BY <2>4, <2>5, <2>6, QuietChanged
  <2>8. PICK m : m = CALLBACK_NOTIFY(a, "headers_complete")
    OBVIOUS
  <2>9. PICK k : k = CALLBACK_NOTIFY(b, "headers_complete")
    OBVIOUS
  <2>10. QuietTwins(c, m, k)
    BY <2>7, <2>8, <2>9, QuietNotify DEF NotifiedState
  <2>11. headers_almost_done(l, ch) = headers_done(m)
    BY <1>5, <2>1, <2>2, <2>8 DEF headers_almost_done, STRICT_CHECK
  <2>12. headers_almost_done(w, ch) = headers_done(k)
    BY <1>1, <1>5, <2>1, <2>3, <2>9 DEF headers_almost_done, STRICT_CHECK
  <2>13. QED
    BY <2>10, <2>11, <2>12, headers_doneTwins
<1>6. QED
  BY <1>2, <1>3, <1>4, <1>5

-----------------------------------------------------------------------------
(* Headers *)

(* A datum goes on in both, with the same change of the fields. *)
LEMMA MarkedChanged ==
  ASSUME NEW c, Reading(c), NEW l, NEW w, Twins(c, l, w), NEW d \in Data, Only(l, d), Only(w, d),
         l.mark[d] # 0, w.mark[d] # 0,
         NEW m \in Parser, NEW k \in Parser, Untouched(m, l), Untouched(k, w), Same(m, k),
         IF d = "body" THEN m.state \notin Texting ELSE GoesOn(m.state, d)
  PROVE  Between(c, m, k)
<1>1. Twins(c, m, k) /\ Only(m, d) /\ Only(k, d)
  BY Changed, MarksStay
<1>2. m.mark[d] # 0 /\ k.mark[d] # 0
  BY DEF Untouched
<1>3. QED
  BY <1>1, <1>2, MarkedBetween

(* The name of a header starts. *)
LEMMA header_field_startTwins ==
  ASSUME NEW c, NEW l, NEW w, QuietTwins(c, l, w), NEW ch
  PROVE  Between(c, header_field_start(l, ch), header_field_start(w, ch))
<1>0. "CR" \notin Token /\ "LF" \notin Token
  BY DEF Token, AlphaNum, Alpha, Num, Number, Words, Mark
<1>1. CASE ch = "CR"
  <2>1. "headers_almost_done" \in AnyState \ Texting
    BY DEF AnyState, State, HeaderStates, Texting, UrlStates
  <2>2. QED
    BY <1>0, <1>1, <2>1, Moves DEF header_field_start
<1>2. CASE ch = "LF"
  <2>1. Between(c, headers_almost_done(l, ch), headers_almost_done(w, ch))
    BY headers_almost_doneTwins
  <2>2. QED
    BY <1>0, <1>2, <2>1 DEF header_field_start
<1>3. CASE ch \notin {"CR", "LF"} /\ ch \in Token
  <2>1. PICK h : h = CASE ch = "con"       -> "h_CON"
                       [] ch = "transfer-" -> "h_matching_transfer_encoding"
                       [] ch = "up"        -> "h_matching_upgrade"
                       [] ch = "proxy-"    -> "h_matching_proxy_connection"
                       [] OTHER            -> "h_general"
    OBVIOUS
  <2>2. h \in HeaderState
    BY <2>1 DEF FieldStates, HeaderState
  <2>3. "header_field" \in Data /\ "header_field" # "body" /\ "header_field" \in AnyState
        /\ GoesOn("header_field", "header_field")
    BY DEF Data, AnyState, State, HeaderStates, GoesOn
  <2>4. Reading(c) /\ Twins(c, l, w) /\ Only(l, "header_field") /\ Only(w, "header_field")
    BY DEF QuietTwins, Quiet, Unmarking, Only
  <2>5. PICK a : a = MARK(l, "header_field")
    OBVIOUS
  <2>6. PICK b : b = MARK(w, "header_field")
    OBVIOUS
  <2>7. /\ Twins(c, a, b) /\ Only(a, "header_field") /\ Only(b, "header_field")
        /\ a.mark["header_field"] # 0 /\ b.mark["header_field"] # 0
    BY <2>3, <2>4, <2>5, <2>6, MarkTwins
  <2>8. a \in Parser /\ b \in Parser /\ Same(a, b)
    BY <2>7, TwinFields DEF Twins, RunsWith
  <2>9. PICK m : m = [a EXCEPT !.state = "header_field", !.header_state = h]
    OBVIOUS
  <2>10. PICK k : k = [b EXCEPT !.state = "header_field", !.header_state = h]
    OBVIOUS
  <2>11. m \in Parser /\ Untouched(m, a) /\ m.state = "header_field"
    BY <2>2, <2>3, <2>8, <2>9 DEF Parser, Untouched
  <2>12. k \in Parser /\ Untouched(k, b)
    BY <2>2, <2>3, <2>8, <2>10 DEF Parser, Untouched
  <2>13. Same(m, k)
    BY <2>8, <2>9, <2>10 DEF Parser, Same, Total
  <2>14. Between(c, m, k)
    BY <2>3, <2>4, <2>7, <2>11, <2>12, <2>13, MarkedChanged
  <2>15. header_field_start(l, ch) = m /\ header_field_start(w, ch) = k
    BY <1>3, <2>1, <2>5, <2>6, <2>9, <2>10 DEF header_field_start
  <2>16. QED
    BY <2>14, <2>15
<1>4. CASE ch \notin {"CR", "LF"} /\ ch \notin Token
  <2>1. Between(c, SET_ERRNO(l, "INVALID_HEADER_TOKEN"), SET_ERRNO(w, "INVALID_HEADER_TOKEN"))
    BY Fails DEF Error
  <2>2. QED
    BY <1>4, <2>1 DEF header_field_start
<1>5. QED
  BY <1>1, <1>2, <1>3, <1>4

(* What RunEnds makes of a parser, if the run fits. *)
LEMMA RunFits ==
  ASSUME NEW text, NEW l, Running(l, text), l.run # 0, NEW m, m = RunEnds(l), m.errno = "OK"
  PROVE  /\ Running(m, text) /\ Same(m, l) /\ m.run = 0 /\ m.mark = l.mark /\ m.p = l.p
         /\ m.data = l.data /\ m.callbacks = l.callbacks /\ m.nread = Total(l)
<1>0. l \in Parser /\ l.run \in Nat /\ l.nread \in Nat /\ l.errno = "OK" /\ ~l.done
      /\ l.done \in BOOLEAN
  BY Fields DEF Running, Sane, Stopped
<1>1. PICK n \in Nat : n = l.nread + (l.run - 1)
  BY <1>0
<1>2. /\ m.run = 0 /\ m.nread = l.nread + (l.run - 1)
      /\ m.errno = IF m.nread > MaxHeaderSize THEN "HEADER_OVERFLOW" ELSE "OK"
      /\ Stopped(m) \/ Running(m, text)
      /\ m.mark = l.mark /\ ~m.done /\ m.p = l.p /\ m.data = l.data
  <2>1. Running(l, text) /\ l.run # 0 /\ m = RunEnds(l)
    OBVIOUS
  <2>2. QED
    BY ONLY <2>1, RunsEnd
<1>3. PICK a : a = [l EXCEPT !.run = 0]
  OBVIOUS
<1>4. a \in Parser /\ a.nread = l.nread
  BY <1>0, <1>3 DEF Parser
<1>5. PICK k : k = [a EXCEPT !.nread = n]
  OBVIOUS
<1>6. k \in Parser /\ k.nread = n
  BY <1>4, <1>5 DEF Parser
<1>7. m = k
  <2>1. k = [a EXCEPT !.nread = @ + (l.run - 1)]
    BY <1>1, <1>4, <1>5
  <2>2. ~(k.nread > MaxHeaderSize)
    BY <1>1, <1>2, <1>6
  <2>3. RunEnds(l) = COUNT_HEADER_SIZE(a, l.run - 1)
    BY <1>3 DEF RunEnds
  <2>4. QED
    BY <2>1, <2>2, <2>3 DEF COUNT_HEADER_SIZE
<1>8. m.callbacks = l.callbacks
  BY <1>0, <1>3, <1>4, <1>5, <1>7 DEF Parser
<1>9. /\ m.state = l.state /\ m.header_state = l.header_state /\ m.index = l.index
      /\ m.flags = l.flags /\ m.content_length = l.content_length /\ m.method = l.method
      /\ m.http_major = l.http_major /\ m.http_minor = l.http_minor
      /\ m.upgrade = l.upgrade /\ m.errno = l.errno /\ m.done = l.done
  BY <1>0, <1>3, <1>4, <1>5, <1>7 DEF Parser
<1>10. Total(m) = Total(l) /\ m.nread = Total(l)
  BY <1>0, <1>2 DEF Total
<1>11. Same(m, l)
  BY <1>9, <1>10 DEF Same
<1>12. Running(m, text)
  BY <1>0, <1>2, <1>9 DEF Stopped
<1>13. QED
  BY <1>2, <1>8, <1>10, <1>11, <1>12

(* The end of a run in both: it is too long for both, or counted in both. *)
LEMMA RunEndsTwins ==
  ASSUME NEW c, Reading(c), NEW l, NEW w, Twins(c, l, w), l.run # 0, w.run # 0,
         NEW m, m = RunEnds(l), NEW k, k = RunEnds(w)
  PROVE  /\ m.errno = k.errno
         /\ m.errno # "OK" => Between(c, m, k)
         /\ m.errno = "OK" =>
              /\ Twins(c, m, k) /\ m.run = 0 /\ k.run = 0
              /\ m.mark = l.mark /\ k.mark = w.mark /\ m.state = l.state
<1>1. /\ Running(l, c.text) /\ Running(w, c.whole) /\ Same(l, w)
      /\ Placed(l, c.text, c.i) /\ Placed(w, c.whole, c.j)
  BY TwinFields DEF Twins
<1>2. /\ m.nread = l.nread + (l.run - 1)
      /\ m.errno = IF m.nread > MaxHeaderSize THEN "HEADER_OVERFLOW" ELSE "OK"
  <2>1. Running(l, c.text) /\ l.run # 0 /\ m = RunEnds(l)
    BY <1>1
  <2>2. QED
    BY ONLY <2>1, RunsEnd
<1>3. /\ k.nread = w.nread + (w.run - 1)
      /\ k.errno = IF k.nread > MaxHeaderSize THEN "HEADER_OVERFLOW" ELSE "OK"
  <2>1. Running(w, c.whole) /\ w.run # 0 /\ k = RunEnds(w)
    BY <1>1
  <2>2. QED
    BY ONLY <2>1, RunsEnd
<1>4. m.nread = k.nread /\ m.errno = k.errno
  BY <1>1, <1>2, <1>3 DEF Same, Total
<1>5. CASE m.errno # "OK"
  BY <1>4, <1>5 DEF Between, Outcome
<1>6. CASE m.errno = "OK"
  <2>1. /\ Running(m, c.text) /\ Same(m, l) /\ m.run = 0 /\ m.mark = l.mark /\ m.p = l.p
        /\ m.data = l.data /\ m.callbacks = l.callbacks
    BY <1>1, <1>6, RunFits
  <2>2. /\ Running(k, c.whole) /\ Same(k, w) /\ k.run = 0 /\ k.mark = w.mark /\ k.p = w.p
        /\ k.data = w.data /\ k.callbacks = w.callbacks
    <3>1. Running(w, c.whole) /\ k.errno = "OK"
      BY <1>1, <1>4, <1>6
    <3>2. QED
      BY <3>1, RunFits
  <2>3. Same(m, k) /\ m.state = l.state
    <3>1. Same(m, k)
      BY <1>1, <2>1, <2>2, SameAs
    <3>2. QED
      BY <2>1, <3>1 DEF Same
  <2>4. Placed(m, c.text, c.i) /\ Placed(k, c.whole, c.j)
    BY <1>1, <2>1, <2>2 DEF Placed
  <2>5. PICK x \in Seq(Notice) : Heard(x, c.before, l, c.i - 1) /\ Heard(x, <<>>, w, c.j - 1)
    BY DEF Twins, HeardAlike
  <2>6. Heard(x, c.before, m, c.i - 1) /\ Heard(x, <<>>, k, c.j - 1)
    BY <2>1, <2>2, <2>5 DEF Heard, Unmarking, Only
  <2>7. QED
    BY <1>4, <1>6, <2>1, <2>2, <2>3, <2>4, <2>6 DEF Twins, RunsWith, HeardAlike
<1>7. QED
  BY <1>5, <1>6

(* It goes on, and ends, once its run has taken the symbol. *)
FieldTaken(l, ch) == IF ch \in Token THEN FieldRun(l, ch) ELSE FieldEnds(RunEnds(l), ch)

LEMMA header_fieldTwins ==
  ASSUME NEW c, NEW l, NEW w, Peers(c, l, w), l.state = "header_field", NEW ch,
         l.run # 0, w.run # 0
  PROVE  Between(c, FieldTaken(l, ch), FieldTaken(w, ch))
<1>0. ":" \notin Token
  BY DEF Token, AlphaNum, Alpha, Num, Number, Words, Mark
<1>1. "header_field" \in Data /\ "header_field" # "body" /\ GoesOn(l.state, "header_field")
  BY DEF Data, GoesOn
<1>2. /\ Reading(c) /\ Twins(c, l, w) /\ Only(l, "header_field") /\ Only(w, "header_field")
      /\ l.mark["header_field"] # 0 /\ w.mark["header_field"] # 0
  BY <1>1, PeersMarked
<1>3. l \in Parser /\ w \in Parser /\ Same(l, w)
  BY <1>2, TwinFields DEF Twins, RunsWith
<1>4. CASE ch \in Token
  <2>1. PICK h : h = FieldMatched(l.header_state, ch) /\ h = FieldMatched(w.header_state, ch)
    BY <1>3 DEF Same, Total
  <2>2. h \in HeaderState
    BY <2>1 DEF FieldMatched, FieldStates, HeaderState
  <2>3. PICK m : m = [l EXCEPT !.header_state = h]
    OBVIOUS
  <2>4. PICK k : k = [w EXCEPT !.header_state = h]
    OBVIOUS
  <2>5. m \in Parser /\ Untouched(m, l) /\ m.state = "header_field"
    BY <1>3, <2>2, <2>3 DEF Parser, Untouched
  <2>6. k \in Parser /\ Untouched(k, w)
    BY <1>3, <2>2, <2>4 DEF Parser, Untouched
  <2>7. Same(m, k)
    BY <1>3, <2>3, <2>4 DEF Parser, Same, Total
  <2>8. Between(c, m, k)
    BY <1>1, <1>2, <2>5, <2>6, <2>7, MarkedChanged
  <2>9. FieldTaken(l, ch) = m /\ FieldTaken(w, ch) = k
    BY <1>4, <2>1, <2>3, <2>4 DEF FieldTaken, FieldRun
  <2>10. QED
    BY <2>8, <2>9
<1>5. CASE ch \notin Token
  <2>1. PICK a : a = RunEnds(l)
    OBVIOUS
  <2>2. PICK b : b = RunEnds(w)
    OBVIOUS
  <2>3. FieldTaken(l, ch) = FieldEnds(a, ch) /\ FieldTaken(w, ch) = FieldEnds(b, ch)
    BY <1>5, <2>1, <2>2 DEF FieldTaken
  <2>4. /\ a.errno = b.errno
        /\ a.errno # "OK" => Between(c, a, b)
        /\ a.errno = "OK" => /\ Twins(c, a, b) /\ a.run = 0 /\ b.run = 0
                             /\ a.mark = l.mark /\ b.mark = w.mark /\ a.state = l.state
    BY <1>2, <2>1, <2>2, RunEndsTwins
  <2>5. CASE a.errno # "OK"
    <3>1. FieldEnds(a, ch) = a /\ FieldEnds(b, ch) = b
      BY <2>4, <2>5 DEF FieldEnds
    <3>2. QED
      BY <2>3, <2>4, <2>5, <3>1
  <2>6. CASE a.errno = "OK" /\ ch = ":"
    <3>1. "header_value_discard_ws" \in AnyState /\ "header_value_discard_ws" \notin Texting
      BY DEF AnyState, State, HeaderStates, Texting, UrlStates
    <3>2. PICK m : m = CALLBACK_DATA(UPDATE_STATE(a, "header_value_discard_ws"), "header_field")
      OBVIOUS
    <3>3. PICK k : k = CALLBACK_DATA(UPDATE_STATE(b, "header_value_discard_ws"), "header_field")
      OBVIOUS
    <3>4. Only(a, "header_field") /\ Only(b, "header_field")
      BY <1>2, <2>4, <2>6 DEF Only
    <3>5. QuietTwins(c, m, k) /\ m.state = "header_value_discard_ws"
      BY <1>1, <1>2, <2>4, <2>6, <3>1, <3>2, <3>3, <3>4, EndsQuiet
    <3>6. FieldEnds(a, ch) = m /\ FieldEnds(b, ch) = k
      BY <2>4, <2>6, <3>2, <3>3 DEF FieldEnds
    <3>7. QED
      BY <2>3, <3>1, <3>5, <3>6, Rests
  <2>7. CASE a.errno = "OK" /\ ch # ":"
    <3>1. Between(c, SET_ERRNO(a, "INVALID_HEADER_TOKEN"), SET_ERRNO(b, "INVALID_HEADER_TOKEN"))
      BY <2>4, <2>7, ErrorBetween DEF Error
    <3>2. /\ FieldEnds(a, ch) = SET_ERRNO(a, "INVALID_HEADER_TOKEN")
          /\ FieldEnds(b, ch) = SET_ERRNO(b, "INVALID_HEADER_TOKEN")
      BY <2>4, <2>7 DEF FieldEnds
    <3>3. QED
      BY <2>3, <3>1, <3>2
  <2>8. QED
    BY <2>5, <2>6, <2>7
<1>6. QED
  BY <1>4, <1>5

(* The kind of the header changes in both while its value is marked. *)
LEMMA KindTwins ==
  ASSUME NEW c, Reading(c), NEW l, NEW w, Twins(c, l, w),
         Only(l, "header_value"), Only(w, "header_value"),
         l.mark["header_value"] # 0, w.mark["header_value"] # 0, l.state = "header_value",
         NEW h \in HeaderState
  PROVE  Between(c, [l EXCEPT !.header_state = h], [w EXCEPT !.header_state = h])
<1>1. l \in Parser /\ w \in Parser /\ Same(l, w)
  BY TwinFields DEF Twins, RunsWith
<1>2. PICK m : m = [l EXCEPT !.header_state = h]
  OBVIOUS
<1>3. PICK k : k = [w EXCEPT !.header_state = h]
  OBVIOUS
<1>4. m \in Parser /\ Untouched(m, l) /\ m.state = "header_value"
  BY <1>1, <1>2 DEF Parser, Untouched
<1>5. k \in Parser /\ Untouched(k, w)
  BY <1>1, <1>3 DEF Parser, Untouched
<1>6. Same(m, k)
  BY <1>1, <1>2, <1>3 DEF Parser, Same, Total
<1>7. "header_value" \in Data /\ "header_value" # "body" /\ GoesOn(m.state, "header_value")
  BY <1>4 DEF Data, GoesOn
<1>8. Between(c, m, k)
  BY <1>4, <1>5, <1>6, <1>7, MarkedChanged
<1>9. QED
  BY <1>2, <1>3, <1>8

(* The first symbol of a Content-Length. *)
LEMMA ContentLengthStartsTwins ==
  ASSUME NEW c, Reading(c), NEW l, NEW w, Twins(c, l, w),
         Only(l, "header_value"), Only(w, "header_value"),
         l.mark["header_value"] # 0, w.mark["header_value"] # 0, l.state = "header_value", NEW ch
  PROVE  Between(c, ContentLengthStarts(l, ch), ContentLengthStarts(w, ch))
<1>1. l \in Parser /\ w \in Parser /\ Same(l, w) /\ w.flags = l.flags
  BY TwinFields DEF Twins, RunsWith, Same, Total
<1>2. CASE ch \notin Num
  <2>1. Between(c, SET_ERRNO(l, "INVALID_CONTENT_LENGTH"), SET_ERRNO(w, "INVALID_CONTENT_LENGTH"))
    BY ErrorBetween DEF Error
  <2>2. QED
    BY <1>2, <2>1 DEF ContentLengthStarts
<1>3. CASE ch \in Num /\ "CONTENTLENGTH" \in l.flags
  <2>1. Between(c, SET_ERRNO(l, "UNEXPECTED_CONTENT_LENGTH"),
                   SET_ERRNO(w, "UNEXPECTED_CONTENT_LENGTH"))
    BY ErrorBetween DEF Error
  <2>2. QED
    BY <1>1, <1>3, <2>1 DEF ContentLengthStarts
<1>4. CASE ch \in Num /\ "CONTENTLENGTH" \notin l.flags
  <2>1. PICK n \in 0 .. MaxLength : n = Number[ch]
    BY <1>4, Digits, ParserConstants
  <2>2. PICK f \in SUBSET Flag : f = l.flags \cup {"CONTENTLENGTH"}
    BY <1>1, Fields DEF Flag
  <2>3. PICK m : m = [l EXCEPT !.flags = f, !.content_length = n,
                               !.header_state = "h_content_length_num"]
    OBVIOUS
  <2>4. PICK k : k = [w EXCEPT !.flags = f, !.content_length = n,
                               !.header_state = "h_content_length_num"]
    OBVIOUS
  <2>5. m \in Parser /\ Untouched(m, l) /\ m.state = "header_value"
    BY <1>1, <2>3 DEF Parser, Untouched, HeaderState
  <2>6. k \in Parser /\ Untouched(k, w)
    BY <1>1, <2>4 DEF Parser, Untouched, HeaderState
  <2>7. Same(m, k)
    BY <1>1, <2>3, <2>4 DEF Parser, Same, Total
  <2>8. "header_value" \in Data /\ "header_value" # "body" /\ GoesOn(m.state, "header_value")
    BY <2>5 DEF Data, GoesOn
  <2>9. Between(c, m, k)
    BY <2>5, <2>6, <2>7, <2>8, MarkedChanged
  <2>10. ContentLengthStarts(l, ch) = m
    BY <1>4, <2>1, <2>2, <2>3 DEF ContentLengthStarts
  <2>11. ContentLengthStarts(w, ch) = k
    BY <1>1, <1>4, <2>1, <2>2, <2>4 DEF ContentLengthStarts
  <2>12. QED
    BY <2>9, <2>10, <2>11
<1>5. QED
  BY <1>2, <1>3, <1>4

(* The value of a header starts. *)
LEMMA header_value_startTwins ==
  ASSUME NEW c, NEW l, NEW w, QuietTwins(c, l, w), NEW ch
  PROVE  Between(c, header_value_start(l, ch), header_value_start(w, ch))
<1>1. "header_value" \in Data /\ "header_value" # "body" /\ "header_value" \in AnyState
      /\ GoesOn("header_value", "header_value")
  BY DEF Data, AnyState, State, HeaderStates, GoesOn
<1>2. Reading(c) /\ Twins(c, l, w) /\ Only(l, "header_value") /\ Only(w, "header_value")
  BY DEF QuietTwins, Quiet, Unmarking, Only
<1>3. PICK a : a = MARK(l, "header_value")
  OBVIOUS
<1>4. PICK b : b = MARK(w, "header_value")
  OBVIOUS
<1>5. /\ Twins(c, a, b) /\ Only(a, "header_value") /\ Only(b, "header_value")
      /\ a.mark["header_value"] # 0 /\ b.mark["header_value"] # 0
  BY <1>1, <1>2, <1>3, <1>4, MarkTwins
<1>6. a \in Parser /\ b \in Parser /\ Same(a, b)
  BY <1>5, TwinFields DEF Twins, RunsWith
<1>7. PICK m : m = [a EXCEPT !.state = "header_value", !.skipping = FALSE]
  OBVIOUS
<1>8. PICK k : k = [b EXCEPT !.state = "header_value", !.skipping = FALSE]
  OBVIOUS
<1>9. m \in Parser /\ Untouched(m, a) /\ m.state = "header_value"
  BY <1>1, <1>6, <1>7 DEF Parser, Untouched
<1>10. k \in Parser /\ Untouched(k, b)
  BY <1>1, <1>6, <1>8 DEF Parser, Untouched
<1>11. Same(m, k)
  BY <1>6, <1>7, <1>8 DEF Parser, Same, Total
<1>12. /\ Twins(c, m, k) /\ Only(m, "header_value") /\ Only(k, "header_value")
       /\ m.mark["header_value"] # 0 /\ k.mark["header_value"] # 0
  <2>1. Twins(c, m, k) /\ Only(m, "header_value") /\ Only(k, "header_value")
    BY <1>1, <1>5, <1>9, <1>10, <1>11, Changed, MarksStay
  <2>2. QED
    BY <1>5, <1>9, <1>10, <2>1 DEF Untouched
<1>13. k.header_state = m.header_state /\ k.flags = m.flags
  BY <1>11 DEF Same, Total
<1> DEFINE hs      == m.header_state
           upgrade(x) == [x EXCEPT !.flags = @ \cup {"UPGRADE"}, !.header_state = "h_general"]
           chunked(x) == [x EXCEPT !.header_state = "h_matching_transfer_encoding_chunked"]
           tokens(x)  == [x EXCEPT !.header_state = ConnectionToken(ch)]
           other(x)   == [x EXCEPT !.header_state = "h_general"]
<1>14. header_value_start(l, ch) =
         CASE hs = "h_upgrade" -> upgrade(m)
           [] hs = "h_transfer_encoding" /\ ch = "chu" -> chunked(m)
           [] hs = "h_content_length" -> ContentLengthStarts(m, ch)
           [] hs = "h_connection"     -> tokens(m)
           [] hs \in {"h_content_length_ws", "h_matching_connection_token_start"} -> m
           [] OTHER -> other(m)
  BY <1>3, <1>7 DEF header_value_start
<1>15. header_value_start(w, ch) =
         CASE hs = "h_upgrade" -> upgrade(k)
           [] hs = "h_transfer_encoding" /\ ch = "chu" -> chunked(k)
           [] hs = "h_content_length" -> ContentLengthStarts(k, ch)
           [] hs = "h_connection"     -> tokens(k)
           [] hs \in {"h_content_length_ws", "h_matching_connection_token_start"} -> k
           [] OTHER -> other(k)
  BY <1>4, <1>8, <1>13 DEF header_value_start
<1>16. Between(c, upgrade(m), upgrade(k))
  <2>1. PICK f \in SUBSET Flag : f = m.flags \cup {"UPGRADE"}
    BY <1>9, Fields DEF Flag
  <2>2. PICK mm : mm = [m EXCEPT !.flags = f, !.header_state = "h_general"]
    OBVIOUS
  <2>3. PICK kk : kk = [k EXCEPT !.flags = f, !.header_state = "h_general"]
    OBVIOUS
  <2>4. "h_general" \in HeaderState
    BY DEF HeaderState, FieldStates
  <2>5. mm \in Parser /\ Untouched(mm, m) /\ mm.state = "header_value"
    BY <1>9, <2>2, <2>4 DEF Parser, Untouched
  <2>6. kk \in Parser /\ Untouched(kk, k)
    BY <1>10, <2>3, <2>4 DEF Parser, Untouched
  <2>7. Same(mm, kk)
    BY <1>9, <1>10, <1>11, <2>2, <2>3 DEF Parser, Same, Total
  <2>8. Between(c, mm, kk)
    BY <1>1, <1>2, <1>12, <2>5, <2>6, <2>7, MarkedChanged
  <2>9. upgrade(m) = mm /\ upgrade(k) = kk
    BY <1>13, <2>1, <2>2, <2>3
  <2>10. QED
    BY <2>8, <2>9
<1>17. Between(c, chunked(m), chunked(k)) /\ Between(c, other(m), other(k))
  BY <1>2, <1>9, <1>12, KindTwins DEF HeaderState, FieldStates
<1>18. Between(c, tokens(m), tokens(k))
  BY <1>2, <1>9, <1>12, KindTwins, Tokens
<1>19. Between(c, ContentLengthStarts(m, ch), ContentLengthStarts(k, ch))
  BY <1>2, <1>9, <1>12, ContentLengthStartsTwins
<1>20. Between(c, m, k)
  BY <1>1, <1>2, <1>9, <1>12, MarkedBetween
<1> HIDE DEF upgrade, chunked, tokens, other, hs
<1>21. \E x \in {<<upgrade(m), upgrade(k)>>, <<chunked(m), chunked(k)>>,
                 <<ContentLengthStarts(m, ch), ContentLengthStarts(k, ch)>>,
                 <<tokens(m), tokens(k)>>, <<m, k>>, <<other(m), other(k)>>} :
          header_value_start(l, ch) = x[1] /\ header_value_start(w, ch) = x[2]
  BY <1>14, <1>15
<1>22. QED
  BY <1>16, <1>17, <1>18, <1>19, <1>20, <1>21

(* What a header turns out to have said, it has said to both. *)
LEMMA SaidFields ==
  ASSUME NEW l \in Parser, NEW m, m = HeaderSaid(l)
  PROVE  m \in Parser /\ Untouched(m, l) /\ m.state = l.state /\ m.header_state = l.header_state
<1>1. SaidBy(l.header_state) \subseteq Flag
  BY DEF SaidBy, Flag
<1>2. PICK f \in SUBSET Flag : f = l.flags \cup SaidBy(l.header_state)
  BY <1>1, Fields
<1>3. m = [l EXCEPT !.flags = f]
  BY <1>2 DEF HeaderSaid
<1>4. QED
  BY <1>3 DEF Parser, Untouched

(* It has said the same to both, *)
LEMMA SaidSame ==
  ASSUME NEW l \in Parser, NEW w \in Parser, Same(l, w),
         NEW m, m = HeaderSaid(l), NEW k, k = HeaderSaid(w)
  PROVE  Same(m, k)
<1>1. w.header_state = l.header_state /\ w.flags = l.flags
  BY DEF Same, Total
<1>2. PICK f : f = l.flags \cup SaidBy(l.header_state)
  OBVIOUS
<1>3. m = [l EXCEPT !.flags = f] /\ k = [w EXCEPT !.flags = f]
  BY <1>1, <1>2 DEF HeaderSaid
<1>4. QED
  BY <1>3 DEF Parser, Same, Total

(* whatever the header is. *)
LEMMA QuietSaid ==
  ASSUME NEW c, NEW l, NEW w, QuietTwins(c, l, w),
         NEW m, m = HeaderSaid(l), NEW k, k = HeaderSaid(w)
  PROVE  QuietTwins(c, m, k)
<1>1. l \in Parser /\ w \in Parser /\ Same(l, w)
  BY TwinFields DEF Twins, RunsWith, QuietTwins
<1>2. QED
  BY <1>1, SaidFields, SaidSame, QuietChanged

(* After the line of a header: another, or the value goes on. *)
LEMMA header_value_lwsTwins ==
  ASSUME NEW c, NEW l, NEW w, QuietTwins(c, l, w), NEW ch
  PROVE  Between(c, header_value_lws(l, ch), header_value_lws(w, ch))
<1>0. l \in Parser /\ w \in Parser /\ Same(l, w) /\ w.header_state = l.header_state
  BY TwinFields DEF Twins, RunsWith, QuietTwins, Same, Total
<1>1. CASE ch \in {"SP", "TAB"}
  <2>1. PICK h : h = IF l.header_state = "h_content_length_num" THEN "h_content_length_ws"
                     ELSE l.header_state
    OBVIOUS
  <2>2. h \in HeaderState
    BY <1>0, <2>1, Fields DEF HeaderState
  <2>3. PICK m : m = [l EXCEPT !.header_state = h]
    OBVIOUS
  <2>4. PICK k : k = [w EXCEPT !.header_state = h]
    OBVIOUS
  <2>5. m \in Parser /\ Untouched(m, l)
    BY <1>0, <2>2, <2>3 DEF Parser, Untouched
  <2>6. k \in Parser /\ Untouched(k, w)
    BY <1>0, <2>2, <2>4 DEF Parser, Untouched
  <2>7. Same(m, k)
    BY <1>0, <2>3, <2>4 DEF Parser, Same, Total
  <2>8. QuietTwins(c, m, k)
    BY <2>5, <2>6, <2>7, QuietChanged
  <2>9. header_value_lws(l, ch) = header_value_start(m, ch)
    BY <1>1, <2>1, <2>3 DEF header_value_lws
  <2>10. header_value_lws(w, ch) = header_value_start(k, ch)
    BY <1>0, <1>1, <2>1, <2>4 DEF header_value_lws
  <2>11. QED
    BY <2>8, <2>9, <2>10, header_value_startTwins
<1>2. CASE ch \notin {"SP", "TAB"}
  <2>1. PICK a : a = HeaderSaid(l)
    OBVIOUS
  <2>2. PICK b : b = HeaderSaid(w)
    OBVIOUS
  <2>3. QuietTwins(c, a, b)
    BY <2>1, <2>2, QuietSaid
  <2>4. PICK m : m = UPDATE_STATE(a, "header_field_start")
    OBVIOUS
  <2>5. PICK k : k = UPDATE_STATE(b, "header_field_start")
    OBVIOUS
  <2>6. QuietTwins(c, m, k)
    BY <2>3, <2>4, <2>5, QuietMoves DEF AnyState, State, HeaderStates
  <2>7. /\ header_value_lws(l, ch) = header_field_start(m, ch)
        /\ header_value_lws(w, ch) = header_field_start(k, ch)
    BY <1>2, <2>1, <2>2, <2>4, <2>5 DEF header_value_lws
  <2>8. QED
    BY <2>6, <2>7, header_field_startTwins
<1>3. QED
  BY <1>1, <1>2

(* The line of a header ends. *)
LEMMA header_almost_doneTwins ==
  ASSUME NEW c, NEW l, NEW w, QuietTwins(c, l, w), NEW ch
  PROVE  Between(c, header_almost_done(l, ch), header_almost_done(w, ch))
<1>1. "header_value_lws" \in AnyState \ Texting
  BY DEF AnyState, State, HeaderStates, Texting, UrlStates
<1>2. Between(c, SET_ERRNO(l, "LF_EXPECTED"), SET_ERRNO(w, "LF_EXPECTED"))
  BY Fails DEF Error
<1>3. QED
  BY <1>1, <1>2, Moves DEF header_almost_done

(* One digit more in both: the same error, or the same length. *)
LEMMA DigitTwins ==
  ASSUME NEW c, NEW l, NEW w, Twins(c, l, w),
         NEW base \in {10, 16}, NEW digit \in 0 .. 10, digit < base,
         NEW m, m = OneDigitMore(l, base, digit), NEW k, k = OneDigitMore(w, base, digit)
  PROVE  \/ Between(c, m, k)
         \/ /\ m \in Parser /\ k \in Parser /\ Untouched(m, l) /\ Untouched(k, w)
            /\ Same(m, k) /\ m.state = l.state
<1>1. l \in Parser /\ w \in Parser /\ Same(l, w) /\ w.content_length = l.content_length
  BY TwinFields DEF Twins, RunsWith, Same, Total
<1>2. CASE (MaxLength - base) \div base < l.content_length
  <2>1. Between(c, SET_ERRNO(l, "INVALID_CONTENT_LENGTH"), SET_ERRNO(w, "INVALID_CONTENT_LENGTH"))
    BY ErrorBetween DEF Error
  <2>2. QED
    BY <1>1, <1>2, <2>1 DEF OneDigitMore
<1>3. CASE ~((MaxLength - base) \div base < l.content_length)
  <2>1. l.content_length \in 0 .. MaxLength
    BY <1>1, Fields
  <2>2. PICK n \in 0 .. MaxLength : n = base * l.content_length + digit
    BY <1>3, <2>1, DigitFits
  <2>3. m = [l EXCEPT !.content_length = n]
    BY <1>3, <2>2 DEF OneDigitMore
  <2>4. k = [w EXCEPT !.content_length = n]
    BY <1>1, <1>3, <2>2 DEF OneDigitMore
  <2>5. m \in Parser /\ Untouched(m, l) /\ m.state = l.state
    BY <1>1, <2>3 DEF Parser, Untouched
  <2>6. k \in Parser /\ Untouched(k, w)
    BY <1>1, <2>4 DEF Parser, Untouched
  <2>7. Same(m, k)
    BY <1>1, <2>3, <2>4 DEF Parser, Same, Total
  <2>8. QED
    BY <2>5, <2>6, <2>7
<1>4. QED
  BY <1>2, <1>3

(* One symbol more of a Content-Length. *)
LEMMA ContentLengthGoesOnTwins ==
  ASSUME NEW c, Reading(c), NEW l, NEW w, Twins(c, l, w),
         Only(l, "header_value"), Only(w, "header_value"),
         l.mark["header_value"] # 0, w.mark["header_value"] # 0, l.state = "header_value", NEW ch
  PROVE  Between(c, ContentLengthGoesOn(l, ch), ContentLengthGoesOn(w, ch))
<1>0. "SP" \notin Num
  BY DEF Num, Number
<1>1. w.header_state = l.header_state
  BY DEF Twins, RunsWith, Same, Total
<1>2. CASE ch = "SP"
  <2>1. "h_content_length_ws" \in HeaderState
    BY DEF HeaderState
  <2>2. Between(c, [l EXCEPT !.header_state = "h_content_length_ws"],
                   [w EXCEPT !.header_state = "h_content_length_ws"])
    BY <2>1, KindTwins
  <2>3. QED
    BY <1>0, <1>2, <2>2 DEF ContentLengthGoesOn
<1>3. CASE ch # "SP" /\ ch \in Num /\ l.header_state = "h_content_length_num"
  <2>1. PICK digit \in 0 .. 10 : digit = Number[ch] /\ digit < 10
    BY <1>3, Digits
  <2>2. PICK m : m = OneDigitMore(l, 10, digit)
    OBVIOUS
  <2>3. PICK k : k = OneDigitMore(w, 10, digit)
    OBVIOUS
  <2>4. ContentLengthGoesOn(l, ch) = m /\ ContentLengthGoesOn(w, ch) = k
    BY <1>1, <1>3, <2>1, <2>2, <2>3 DEF ContentLengthGoesOn
  <2>5. \/ Between(c, m, k)
        \/ /\ m \in Parser /\ k \in Parser /\ Untouched(m, l) /\ Untouched(k, w)
           /\ Same(m, k) /\ m.state = l.state
    BY <2>1, <2>2, <2>3, DigitTwins
  <2>6. "header_value" \in Data /\ "header_value" # "body" /\ GoesOn(l.state, "header_value")
    BY DEF Data, GoesOn
  <2>7. QED
    BY <2>4, <2>5, <2>6, MarkedChanged
<1>4. CASE ch # "SP" /\ ~(ch \in Num /\ l.header_state = "h_content_length_num")
  <2>1. Between(c, SET_ERRNO(l, "INVALID_CONTENT_LENGTH"), SET_ERRNO(w, "INVALID_CONTENT_LENGTH"))
    BY ErrorBetween DEF Error
  <2>2. QED
    BY <1>1, <1>4, <2>1 DEF ContentLengthGoesOn
<1>5. QED
  BY <1>2, <1>3, <1>4

(* One symbol more of a value: what it says it says to both. *)
LEMMA ValueGoesOnTwins ==
  ASSUME NEW c, Reading(c), NEW l, NEW w, Twins(c, l, w),
         Only(l, "header_value"), Only(w, "header_value"),
         l.mark["header_value"] # 0, w.mark["header_value"] # 0, l.state = "header_value", NEW ch,
         NEW u \in BOOLEAN, NEW v \in BOOLEAN
  PROVE  Between(c, [ValueGoesOn(l, ch) EXCEPT !.skipping = u],
                    [ValueGoesOn(w, ch) EXCEPT !.skipping = v])
<1>1. l \in Parser /\ w \in Parser /\ Same(l, w) /\ w.header_state = l.header_state
  BY TwinFields DEF Twins, RunsWith, Same, Total
<1> DEFINE said == ch = "," /\ l.header_state # "h_transfer_encoding_chunked"
<1>2. PICK a : a = IF said THEN HeaderSaid(l) ELSE l
  OBVIOUS
<1>3. PICK b : b = IF said THEN HeaderSaid(w) ELSE w
  OBVIOUS
<1>4. a \in Parser /\ Untouched(a, l) /\ a.state = l.state /\ a.header_state = l.header_state
  BY <1>1, <1>2, SaidFields DEF Untouched
<1>5. b \in Parser /\ Untouched(b, w)
  BY <1>1, <1>3, SaidFields DEF Untouched
<1>6. Same(a, b) /\ b.header_state = a.header_state
  <2>1. Same(a, b)
    BY <1>1, <1>2, <1>3, SaidSame
  <2>2. QED
    BY <2>1 DEF Same, Total
<1>7. PICK h \in HeaderState : h = ValueMatched(a.header_state, ch)
  BY <1>1, <1>4, ValuesMatched, Fields
<1>8. PICK m : m = [a EXCEPT !.header_state = h, !.skipping = u]
  OBVIOUS
<1>9. PICK k : k = [b EXCEPT !.header_state = h, !.skipping = v]
  OBVIOUS
<1>10. m \in Parser /\ Untouched(m, l) /\ m.state = "header_value"
  BY <1>4, <1>8 DEF Parser, Untouched
<1>11. k \in Parser /\ Untouched(k, w)
  BY <1>5, <1>9 DEF Parser, Untouched
<1>12. Same(m, k)
  BY <1>4, <1>5, <1>6, <1>8, <1>9 DEF Parser, Same, Total
<1>13. "header_value" \in Data /\ "header_value" # "body" /\ GoesOn(m.state, "header_value")
  BY <1>10 DEF Data, GoesOn
<1>14. Between(c, m, k)
  BY <1>10, <1>11, <1>12, <1>13, MarkedChanged
<1>15. [ValueGoesOn(l, ch) EXCEPT !.skipping = u] = m
  <2>1. ValueGoesOn(l, ch) = [a EXCEPT !.header_state = h]
    BY <1>2, <1>7 DEF ValueGoesOn
  <2>2. QED
    BY <1>8, <2>1
<1>16. [ValueGoesOn(w, ch) EXCEPT !.skipping = v] = k
  <2>1. ValueGoesOn(w, ch) = [b EXCEPT !.header_state = h]
    BY <1>1, <1>3, <1>6, <1>7 DEF ValueGoesOn
  <2>2. QED
    BY <1>9, <2>1
<1>17. QED
  BY <1>14, <1>15, <1>16

(* One symbol more of a run of a value.  Control characters are left out:  *)
(* in the middle of a value the code skips them unseen.                    *)
LEMMA ValueRunTwins ==
  ASSUME NEW c, Reading(c), NEW l, NEW w, Twins(c, l, w),
         Only(l, "header_value"), Only(w, "header_value"),
         l.mark["header_value"] # 0, w.mark["header_value"] # 0, l.state = "header_value",
         NEW ch, ch # "ctl"
  PROVE  Between(c, ValueRun(l, ch), ValueRun(w, ch))
<1>1. w.header_state = l.header_state
  BY DEF Twins, Same
<1>2. CASE l.header_state \in {"h_content_length_num", "h_content_length_ws"}
  <2>1. /\ ValueRun(l, ch) = ContentLengthGoesOn(l, ch)
        /\ ValueRun(w, ch) = ContentLengthGoesOn(w, ch)
    BY <1>1, <1>2 DEF ValueRun
  <2>2. QED
    BY <2>1, ContentLengthGoesOnTwins
<1>3. CASE l.header_state \notin {"h_content_length_num", "h_content_length_ws"}
  <2>1. PICK v \in BOOLEAN : /\ v = (l.header_state = "h_general")
                             /\ v = (w.header_state = "h_general")
    BY <1>1
  <2>2. /\ ValueRun(l, ch) = [ValueGoesOn(l, ch) EXCEPT !.skipping = v]
        /\ ValueRun(w, ch) = [ValueGoesOn(w, ch) EXCEPT !.skipping = v]
    BY <1>1, <1>3, <2>1 DEF ValueRun
  <2>3. Between(c, [ValueGoesOn(l, ch) EXCEPT !.skipping = v],
                   [ValueGoesOn(w, ch) EXCEPT !.skipping = v])
    BY ValueGoesOnTwins
  <2>4. QED
    BY <2>2, <2>3
<1>4. QED
  BY <1>2, <1>3

(* The end of a value, and of its run. *)
LEMMA ValueEndsTwins ==
  ASSUME NEW c, Reading(c), NEW l, NEW w, Twins(c, l, w),
         Only(l, "header_value"), Only(w, "header_value"), l.run # 0, w.run # 0, NEW ch
  PROVE  Between(c, ValueEnds(l, ch), ValueEnds(w, ch))
<1>1. "header_value" \in Data
  BY DEF Data
<1>2. "header_almost_done" \in AnyState /\ "header_almost_done" \notin Texting
  BY DEF AnyState, State, HeaderStates, Texting, UrlStates
<1>3. PICK a : a = UPDATE_STATE(l, "header_almost_done")
  OBVIOUS
<1>4. PICK b : b = UPDATE_STATE(w, "header_almost_done")
  OBVIOUS
<1>5. /\ Twins(c, a, b) /\ a.mark = l.mark /\ a.run = l.run /\ b.mark = w.mark /\ b.run = w.run
      /\ a.state = "header_almost_done"
  BY <1>2, <1>3, <1>4, StateTwins
<1>6. Only(a, "header_value") /\ Only(b, "header_value")
  BY <1>5 DEF Only
<1>7. CASE ch = "CR"
  <2>1. PICK m : m = CALLBACK_DATA(a, "header_value")
    OBVIOUS
  <2>2. PICK k : k = CALLBACK_DATA(b, "header_value")
    OBVIOUS
  <2>3. Twins(c, m, k) /\ Same(m, a) /\ Unmarking(m) /\ Unmarking(k)
        /\ m.run = a.run /\ k.run = b.run
    BY <1>1, <1>5, <1>6, <2>1, <2>2, DataTwins
  <2>4. PICK mm : mm = RunEnds(m)
    OBVIOUS
  <2>5. PICK kk : kk = RunEnds(k)
    OBVIOUS
  <2>6. ValueEnds(l, ch) = mm /\ ValueEnds(w, ch) = kk
    BY <1>3, <1>4, <1>7, <2>1, <2>2, <2>4, <2>5 DEF ValueEnds
  <2>7. m.run # 0 /\ k.run # 0
    BY <1>5, <2>3
  <2>8. /\ mm.errno # "OK" => Between(c, mm, kk)
        /\ mm.errno = "OK" =>
             /\ Twins(c, mm, kk) /\ mm.run = 0 /\ kk.run = 0
             /\ mm.mark = m.mark /\ kk.mark = k.mark /\ mm.state = m.state
    BY <2>3, <2>4, <2>5, <2>7, RunEndsTwins
  <2>9. mm.errno = "OK" => QuietTwins(c, mm, kk) /\ mm.state \notin Texting
    BY <1>2, <1>5, <2>3, <2>8 DEF QuietTwins, Quiet, Unmarking, Same
  <2>10. mm.errno = "OK" => Between(c, mm, kk)
    BY <2>9, Rests
  <2>11. QED
    BY <2>6, <2>8, <2>10
<1>8. CASE ch # "CR"
  <2>1. PICK m : m = RunEnds(a)
    OBVIOUS
  <2>2. PICK k : k = RunEnds(b)
    OBVIOUS
  <2>3. a.run # 0 /\ b.run # 0
    BY <1>5
  <2>4. /\ m.errno = k.errno
        /\ m.errno # "OK" => Between(c, m, k)
        /\ m.errno = "OK" =>
             /\ Twins(c, m, k) /\ m.run = 0 /\ k.run = 0
             /\ m.mark = a.mark /\ k.mark = b.mark /\ m.state = a.state
    BY <1>5, <2>1, <2>2, <2>3, RunEndsTwins
  <2>5. CASE m.errno # "OK"
    <3>1. ValueEnds(l, ch) = m /\ ValueEnds(w, ch) = k
      BY <1>3, <1>4, <1>8, <2>1, <2>2, <2>4, <2>5 DEF ValueEnds
    <3>2. QED
      BY <2>4, <2>5, <3>1
  <2>6. CASE m.errno = "OK"
    <3>1. PICK mm : mm = CALLBACK_DATA(m, "header_value")
      OBVIOUS
    <3>2. PICK kk : kk = CALLBACK_DATA(k, "header_value")
      OBVIOUS
    <3>3. Only(m, "header_value") /\ Only(k, "header_value")
      BY <1>6, <2>4, <2>6 DEF Only
    <3>4. Twins(c, mm, kk) /\ Same(mm, m) /\ Unmarking(mm) /\ Unmarking(kk)
          /\ mm.run = m.run /\ kk.run = k.run
      BY <1>1, <2>4, <2>6, <3>1, <3>2, <3>3, DataTwins
    <3>5. QuietTwins(c, mm, kk)
      BY <2>4, <2>6, <3>4 DEF QuietTwins, Quiet
    <3>6. /\ ValueEnds(l, ch) = header_almost_done(mm, ch)
          /\ ValueEnds(w, ch) = header_almost_done(kk, ch)
      BY <1>3, <1>4, <1>8, <2>1, <2>2, <2>4, <2>6, <3>1, <3>2 DEF ValueEnds
    <3>7. QED
      BY <3>5, <3>6, header_almost_doneTwins
  <2>7. QED
    BY <2>5, <2>6
<1>9. QED
  BY <1>7, <1>8

(* The value of a header goes on, and ends, once its run has taken the     *)
(* symbol.                                                                 *)
ValueTaken(l, ch) == IF ch \in {"CR", "LF"} THEN ValueEnds(l, ch) ELSE ValueRun(l, ch)

LEMMA header_valueTwins ==
  ASSUME NEW c, NEW l, NEW w, Peers(c, l, w), l.state = "header_value", NEW ch, ch # "ctl",
         l.run # 0, w.run # 0
  PROVE  Between(c, ValueTaken(l, ch), ValueTaken(w, ch))
<1>1. "header_value" \in Data /\ "header_value" # "body" /\ GoesOn(l.state, "header_value")
  BY DEF Data, GoesOn
<1>2. /\ Reading(c) /\ Twins(c, l, w) /\ Only(l, "header_value") /\ Only(w, "header_value")
      /\ l.mark["header_value"] # 0 /\ w.mark["header_value"] # 0
  BY <1>1, PeersMarked
<1>3. CASE ch \in {"CR", "LF"}
  BY <1>2, <1>3, ValueEndsTwins DEF ValueTaken
<1>4. CASE ch \notin {"CR", "LF"}
  BY <1>2, <1>4, ValueRunTwins DEF ValueTaken
<1>5. QED
  BY <1>3, <1>4

(* A value that has not started in its line, *)
LEMMA header_value_discard_ws_almost_doneTwins ==
  ASSUME NEW c, NEW l, NEW w, QuietTwins(c, l, w), NEW ch
  PROVE  Between(c, header_value_discard_ws_almost_done(l, ch),
                    header_value_discard_ws_almost_done(w, ch))
<1>1. "header_value_discard_lws" \in AnyState \ Texting
  BY DEF AnyState, State, HeaderStates, Texting, UrlStates
<1>2. Between(c, SET_ERRNO(l, "STRICT"), SET_ERRNO(w, "STRICT"))
  BY Fails DEF Error
<1>3. QED
  BY <1>1, <1>2, Moves DEF header_value_discard_ws_almost_done, STRICT_CHECK

(* or in the line after it. *)
LEMMA header_value_discard_lwsTwins ==
  ASSUME NEW c, NEW l, NEW w, QuietTwins(c, l, w), NEW ch
  PROVE  Between(c, header_value_discard_lws(l, ch), header_value_discard_lws(w, ch))
<1>1. w.header_state = l.header_state
  BY DEF Twins, RunsWith, QuietTwins, Same, Total
<1>2. CASE ch \in {"SP", "TAB"}
  <2>1. "header_value_discard_ws" \in AnyState \ Texting
    BY DEF AnyState, State, HeaderStates, Texting, UrlStates
  <2>2. QED
    BY <1>2, <2>1, Moves DEF header_value_discard_lws
<1>3. CASE ch \notin {"SP", "TAB"} /\ l.header_state = "h_content_length"
  <2>1. Between(c, SET_ERRNO(l, "INVALID_CONTENT_LENGTH"), SET_ERRNO(w, "INVALID_CONTENT_LENGTH"))
    BY Fails DEF Error
  <2>2. QED
    BY <1>1, <1>3, <2>1 DEF header_value_discard_lws
<1>4. CASE ch \notin {"SP", "TAB"} /\ l.header_state # "h_content_length"
  <2>1. PICK a : a = HeaderSaid(l)
    OBVIOUS
  <2>2. PICK b : b = HeaderSaid(w)
    OBVIOUS
  <2>3. QuietTwins(c, a, b)
    BY <2>1, <2>2, QuietSaid
  <2>4. PICK m : m = UPDATE_STATE(a, "header_field_start")
    OBVIOUS
  <2>5. PICK k : k = UPDATE_STATE(b, "header_field_start")
    OBVIOUS
  <2>6. QuietTwins(c, m, k)
    BY <2>3, <2>4, <2>5, QuietMoves DEF AnyState, State, HeaderStates
  <2>7. "header_value" \in Data /\ Reading(c) /\ Twins(c, m, k)
        /\ Only(m, "header_value") /\ Only(k, "header_value") /\ m.run = 0 /\ k.run = 0
    BY <2>6 DEF QuietTwins, Quiet, Unmarking, Only, Data
  <2>8. PICK mm : mm = MARK(m, "header_value")
    OBVIOUS
  <2>9. PICK kk : kk = MARK(k, "header_value")
    OBVIOUS
  <2>10. /\ Twins(c, mm, kk) /\ Only(mm, "header_value") /\ Only(kk, "header_value")
         /\ mm.run = m.run /\ kk.run = k.run
    BY <2>7, <2>8, <2>9, MarkTwins
  <2>11. PICK ma : ma = CALLBACK_DATA(mm, "header_value")
    OBVIOUS
  <2>12. PICK ka : ka = CALLBACK_DATA(kk, "header_value")
    OBVIOUS
  <2>13. Twins(c, ma, ka) /\ Unmarking(ma) /\ Unmarking(ka) /\ ma.run = mm.run /\ ka.run = kk.run
    BY <2>7, <2>10, <2>11, <2>12, DataTwins
  <2>17. QuietTwins(c, ma, ka)
    BY <2>7, <2>10, <2>13 DEF QuietTwins, Quiet
  <2>14. header_value_discard_lws(l, ch) = header_field_start(ma, ch)
    BY <1>4, <2>1, <2>4, <2>8, <2>11 DEF header_value_discard_lws
  <2>15. header_value_discard_lws(w, ch) = header_field_start(ka, ch)
    BY <1>1, <1>4, <2>2, <2>5, <2>9, <2>12 DEF header_value_discard_lws
  <2>16. QED
    BY <2>14, <2>15, <2>17, header_field_startTwins
<1>5. QED
  BY <1>2, <1>3, <1>4

(* Space before a value. *)
LEMMA header_value_discard_wsTwins ==
  ASSUME NEW c, NEW l, NEW w, QuietTwins(c, l, w), NEW ch, l.state = "header_value_discard_ws"
  PROVE  Between(c, header_value_discard_ws(l, ch), header_value_discard_ws(w, ch))
<1>1. /\ "header_value_discard_ws_almost_done" \in AnyState \ Texting
      /\ "header_value_discard_lws" \in AnyState \ Texting
  BY DEF AnyState, State, HeaderStates, Texting, UrlStates
<1>2. Between(c, l, w)
  BY Rests DEF Texting, UrlStates
<1>3. Between(c, header_value_start(l, ch), header_value_start(w, ch))
  BY header_value_startTwins
<1>4. QED
  BY <1>1, <1>2, <1>3, Moves DEF header_value_discard_ws

(* Only a body is under way in the states of one. *)
LEMMA PeersInBody ==
  ASSUME NEW c, NEW l, NEW w, Peers(c, l, w),
         l.state \in {"body_identity", "chunk_data", "chunk_data_almost_done"}
  PROVE  Reading(c) /\ Twins(c, l, w) /\ Only(l, "body") /\ Only(w, "body") /\ "body" \in Data
         /\ l.run = 0 /\ w.run = 0
<1>1. w.state = l.state
  BY DEF Peers, Twins, RunsWith, Same, Total
<1>2. /\ Marks(l.state, l.mark) /\ Marks(w.state, w.mark)
      /\ Lengths(l.state, l) /\ Lengths(w.state, w)
  BY DEF Peers, Ready
<1>3. QED
  BY <1>1, <1>2 DEF Marks, Lengths, Only, Data, UrlStates, Peers

(* A symbol less is left of the body, and it is marked. *)
SymbolOfBody(l) == MARK([l EXCEPT !.content_length = @ - 1], "body")

(* Both take one symbol of the body. *)
LEMMA BodyTwins ==
  ASSUME NEW c, NEW l, NEW w, Peers(c, l, w), l.state \in {"body_identity", "chunk_data"},
         NEW m, m = SymbolOfBody(l), NEW k, k = SymbolOfBody(w)
  PROVE  /\ Reading(c) /\ Twins(c, m, k) /\ Only(m, "body") /\ Only(k, "body") /\ "body" \in Data
         /\ m.mark["body"] # 0 /\ k.mark["body"] # 0
         /\ m.state = l.state /\ m.run = 0 /\ k.run = 0
<1>1. Reading(c) /\ Twins(c, l, w) /\ Only(l, "body") /\ Only(w, "body") /\ "body" \in Data
      /\ l.run = 0 /\ w.run = 0
  BY PeersInBody
<1>2. l \in Parser /\ w \in Parser /\ Same(l, w) /\ w.content_length = l.content_length
  BY <1>1, TwinFields DEF Twins, RunsWith, Same, Total
<1>3. l.content_length \in 0 .. MaxLength /\ l.content_length # 0
  BY <1>2, Fields DEF Peers, Ready, Lengths
<1>4. PICK n \in 0 .. MaxLength : n = l.content_length - 1
  BY <1>3, ParserConstants
<1>5. PICK a : a = [l EXCEPT !.content_length = n]
  OBVIOUS
<1>6. PICK b : b = [w EXCEPT !.content_length = n]
  OBVIOUS
<1>7. a \in Parser /\ Untouched(a, l) /\ a.state = l.state
  BY <1>2, <1>5 DEF Parser, Untouched
<1>8. b \in Parser /\ Untouched(b, w)
  BY <1>2, <1>6 DEF Parser, Untouched
<1>9. Same(a, b)
  BY <1>2, <1>5, <1>6 DEF Parser, Same, Total
<1>10. Twins(c, a, b) /\ Only(a, "body") /\ Only(b, "body")
  BY <1>1, <1>7, <1>8, <1>9, Changed, MarksStay
<1>11. m = MARK(a, "body") /\ k = MARK(b, "body")
  BY <1>2, <1>4, <1>5, <1>6 DEF SymbolOfBody
<1>12. /\ Twins(c, m, k) /\ Same(m, a) /\ m.run = a.run /\ k.run = b.run
       /\ Only(m, "body") /\ Only(k, "body") /\ m.mark["body"] # 0 /\ k.mark["body"] # 0
  BY <1>1, <1>10, <1>11, MarkTwins
<1>13. QED
  BY <1>1, <1>7, <1>8, <1>12 DEF Same, Untouched

(* A datum that ends with the symbol. *)
LEMMA EndsWithSymbol ==
  ASSUME NEW c, Reading(c), NEW l, NEW w, Twins(c, l, w), NEW d \in Data, Only(l, d), Only(w, d),
         l.mark[d] # 0, w.mark[d] # 0, l.run = 0, w.run = 0,
         NEW m, m = CALLBACK_DATA_(l, d, l.p), NEW k, k = CALLBACK_DATA_(w, d, w.p)
  PROVE  QuietTwins(c, m, k) /\ m.state = l.state
<1>1. /\ c.i \in Int /\ c.j \in Int /\ c.i <= Len(c.text) /\ c.j <= Len(c.whole)
      /\ c.before \in Seq(Notice) /\ <<>> \in Seq(Notice)
  BY DEF Reading
<1>2. m = CALLBACK_DATA_(l, d, c.i) /\ k = CALLBACK_DATA_(w, d, c.j)
  BY DEF Twins, RunsWith, Placed
<1>3. Placed(m, c.text, c.i) /\ Same(m, l) /\ Quiet(m)
  BY <1>1, <1>2, DataFields DEF Quiet, Twins, RunsWith
<1>4. Placed(k, c.whole, c.j) /\ Same(k, w) /\ Quiet(k)
  BY <1>1, <1>2, DataFields DEF Quiet, Twins, RunsWith
<1>5. PICK x \in Seq(Notice) : Heard(x, c.before, l, c.i) /\ Heard(x, <<>>, w, c.j)
  BY MarkedHeard DEF HeardAlike
<1>6. Heard(x, c.before, m, c.i - 1) /\ Heard(x, <<>>, k, c.j - 1)
  BY <1>1, <1>2, <1>5, HandedHeard DEF Twins, RunsWith, Placed
<1>7. Same(m, k)
  BY <1>3, <1>4, SameAs DEF Twins, RunsWith
<1>8. Twins(c, m, k) /\ m.state = l.state
  BY <1>3, <1>4, <1>6, <1>7 DEF Twins, RunsWith, HeardAlike, Quiet, Same
<1>9. QED
  BY <1>3, <1>4, <1>8 DEF QuietTwins

(* A body of a known length goes on, and ends. *)
LEMMA body_identityTwins ==
  ASSUME NEW c, NEW l, NEW w, Peers(c, l, w), l.state = "body_identity"
  PROVE  Between(c, body_identity(l), body_identity(w))
<1>1. PICK m : m = SymbolOfBody(l)
  OBVIOUS
<1>2. PICK k : k = SymbolOfBody(w)
  OBVIOUS
<1>3. /\ Reading(c) /\ Twins(c, m, k) /\ Only(m, "body") /\ Only(k, "body") /\ "body" \in Data
      /\ m.mark["body"] # 0 /\ k.mark["body"] # 0 /\ m.state = "body_identity"
      /\ m.run = 0 /\ k.run = 0
  BY <1>1, <1>2, BodyTwins
<1>4. k.content_length = m.content_length
  BY <1>3 DEF Twins, RunsWith, Same, Total
<1>5. CASE m.content_length > 0
  <2>1. body_identity(l) = m /\ body_identity(w) = k
    BY <1>1, <1>2, <1>4, <1>5 DEF body_identity, SymbolOfBody
  <2>2. m.state \notin Texting
    BY <1>3 DEF Texting, UrlStates
  <2>3. QED
    BY <1>3, <2>1, <2>2, MarkedBetween
<1>6. CASE ~(m.content_length > 0)
  <2>1. PICK a : a = UPDATE_STATE(m, "message_done")
    OBVIOUS
  <2>2. PICK b : b = UPDATE_STATE(k, "message_done")
    OBVIOUS
  <2>3. Twins(c, a, b) /\ a.mark = m.mark /\ a.run = m.run /\ b.mark = k.mark /\ b.run = k.run
    BY <1>3, <2>1, <2>2, StateTwins DEF AnyState
  <2>4. Only(a, "body") /\ Only(b, "body") /\ a.mark["body"] # 0 /\ b.mark["body"] # 0
    BY <1>3, <2>3 DEF Only
  <2>5. a.p = m.p /\ b.p = k.p
    BY <1>3, <2>3 DEF Twins, RunsWith, Placed
  <2>6. PICK ma : ma = CALLBACK_DATA_(a, "body", a.p)
    OBVIOUS
  <2>7. PICK ka : ka = CALLBACK_DATA_(b, "body", b.p)
    OBVIOUS
  <2>8. QuietTwins(c, ma, ka)
    BY <1>3, <2>3, <2>4, <2>6, <2>7, EndsWithSymbol
  <2>9. body_identity(l) = message_done(ma)
    BY <1>1, <1>6, <2>1, <2>5, <2>6 DEF body_identity, SymbolOfBody
  <2>10. body_identity(w) = message_done(ka)
    BY <1>2, <1>4, <1>6, <2>2, <2>5, <2>7 DEF body_identity, SymbolOfBody
  <2>11. QED
    BY <2>8, <2>9, <2>10, message_doneTwins
<1>7. QED
  BY <1>5, <1>6

(* The first digit of the length of a chunk. *)
LEMMA chunk_size_startTwins ==
  ASSUME NEW c, NEW l, NEW w, QuietTwins(c, l, w), NEW ch
  PROVE  Between(c, chunk_size_start(l, ch), chunk_size_start(w, ch))
<1>0. l \in Parser /\ w \in Parser /\ Same(l, w)
  BY TwinFields DEF Twins, RunsWith, QuietTwins
<1>1. CASE ch \notin Hex
  <2>1. Between(c, SET_ERRNO(l, "INVALID_CHUNK_SIZE"), SET_ERRNO(w, "INVALID_CHUNK_SIZE"))
    BY Fails DEF Error
  <2>2. QED
    BY <1>1, <2>1 DEF chunk_size_start
<1>2. CASE ch \in Hex
  <2>1. unhex(ch) \in 0 .. 10
    BY <1>2, Digits DEF unhex, Hex
  <2>2. PICK n \in 0 .. MaxLength : n = unhex(ch)
    BY <2>1, ParserConstants
  <2>3. PICK a : a = [l EXCEPT !.content_length = n]
    OBVIOUS
  <2>4. PICK b : b = [w EXCEPT !.content_length = n]
    OBVIOUS
  <2>5. a \in Parser /\ Untouched(a, l)
    BY <1>0, <2>3 DEF Parser, Untouched
  <2>6. b \in Parser /\ Untouched(b, w)
    BY <1>0, <2>4 DEF Parser, Untouched
  <2>7. Same(a, b)
    BY <1>0, <2>3, <2>4 DEF Parser, Same, Total
  <2>8. QuietTwins(c, a, b)
    BY <2>5, <2>6, <2>7, QuietChanged
  <2>9. "chunk_size" \in AnyState \ Texting
    BY DEF AnyState, State, ChunkStates, Texting, UrlStates
  <2>10. /\ chunk_size_start(l, ch) = UPDATE_STATE(a, "chunk_size")
         /\ chunk_size_start(w, ch) = UPDATE_STATE(b, "chunk_size")
    BY <1>2, <2>2, <2>3, <2>4 DEF chunk_size_start
  <2>11. QED
    BY <2>8, <2>9, <2>10, Moves
<1>3. QED
  BY <1>1, <1>2

(* The length of a chunk goes on, and ends. *)
LEMMA chunk_sizeTwins ==
  ASSUME NEW c, NEW l, NEW w, QuietTwins(c, l, w), NEW ch, l.state = "chunk_size"
  PROVE  Between(c, chunk_size(l, ch), chunk_size(w, ch))
<1>0. ch \in Hex => ch \notin {"CR", ";", "SP"}
  BY DEF Hex, Num, Number
<1>1. /\ "chunk_size_almost_done" \in AnyState \ Texting
      /\ "chunk_parameters" \in AnyState \ Texting
  BY DEF AnyState, State, ChunkStates, Texting, UrlStates
<1>2. CASE ch = "CR"
  BY <1>0, <1>1, <1>2, Moves DEF chunk_size
<1>3. CASE ch \in {";", "SP"}
  BY <1>0, <1>1, <1>3, Moves DEF chunk_size
<1>4. CASE ch \in Hex
  <2>1. PICK digit \in 0 .. 10 : digit = unhex(ch) /\ digit < 16
    BY <1>4, Digits DEF unhex, Hex
  <2>2. PICK m : m = OneDigitMore(l, 16, digit)
    OBVIOUS
  <2>3. PICK k : k = OneDigitMore(w, 16, digit)
    OBVIOUS
  <2>4. chunk_size(l, ch) = m /\ chunk_size(w, ch) = k
    BY <1>0, <1>4, <2>1, <2>2, <2>3 DEF chunk_size
  <2>5. \/ Between(c, m, k)
        \/ /\ m \in Parser /\ k \in Parser /\ Untouched(m, l) /\ Untouched(k, w)
           /\ Same(m, k) /\ m.state = l.state
    BY <2>1, <2>2, <2>3, DigitTwins DEF QuietTwins
  <2>6. l.state \notin Texting
    BY DEF Texting, UrlStates
  <2>7. QED
    BY <2>4, <2>5, <2>6, QuietChanged, Rests
<1>5. CASE ch \notin {"CR", ";", "SP"} /\ ch \notin Hex
  <2>1. Between(c, SET_ERRNO(l, "INVALID_CHUNK_SIZE"), SET_ERRNO(w, "INVALID_CHUNK_SIZE"))
    BY Fails DEF Error
  <2>2. QED
    BY <1>5, <2>1 DEF chunk_size
<1>6. QED
  BY <1>2, <1>3, <1>4, <1>5

(* What follows it in its line is skipped. *)
LEMMA chunk_parametersTwins ==
  ASSUME NEW c, NEW l, NEW w, QuietTwins(c, l, w), NEW ch, l.state = "chunk_parameters"
  PROVE  Between(c, chunk_parameters(l, ch), chunk_parameters(w, ch))
<1>1. "chunk_size_almost_done" \in AnyState \ Texting
  BY DEF AnyState, State, ChunkStates, Texting, UrlStates
<1>2. Between(c, l, w)
  BY Rests DEF Texting, UrlStates
<1>3. QED
  BY <1>1, <1>2, Moves DEF chunk_parameters

(* The chunk starts, or it was the last one. *)
LEMMA chunk_size_almost_doneTwins ==
  ASSUME NEW c, NEW l, NEW w, QuietTwins(c, l, w), NEW ch
  PROVE  Between(c, chunk_size_almost_done(l, ch), chunk_size_almost_done(w, ch))
<1>0. l \in Parser /\ w \in Parser /\ Same(l, w) /\ w.flags = l.flags
      /\ w.content_length = l.content_length
  BY TwinFields DEF Twins, RunsWith, QuietTwins, Same, Total
<1>1. PICK n \in Nat : n = 0
  OBVIOUS
<1>2. PICK f \in SUBSET Flag :
        f = IF l.content_length = 0 THEN l.flags \cup {"TRAILING"} ELSE l.flags
  BY <1>0, Fields DEF Flag
<1>3. PICK s : s = IF l.content_length = 0 THEN "header_field_start" ELSE "chunk_data"
  OBVIOUS
<1>4. s \in AnyState /\ s \notin Texting
  BY <1>3 DEF AnyState, State, HeaderStates, ChunkStates, Texting, UrlStates
<1>9. l.run = 0 /\ w.run = 0
  BY DEF QuietTwins, Quiet
<1>5. CASE ch # "LF"
  <2>1. Between(c, SET_ERRNO(l, "STRICT"), SET_ERRNO(w, "STRICT"))
    BY Fails DEF Error
  <2>2. QED
    BY <1>5, <2>1 DEF chunk_size_almost_done, STRICT_CHECK
<1>6. CASE ch = "LF"
  <2>1. PICK a : a = IF l.content_length = 0
                     THEN [l EXCEPT !.nread = n, !.flags = f, !.state = s]
                     ELSE [l EXCEPT !.nread = n, !.state = s]
    OBVIOUS
  <2>2. PICK b : b = IF l.content_length = 0
                     THEN [w EXCEPT !.nread = n, !.flags = f, !.state = s]
                     ELSE [w EXCEPT !.nread = n, !.state = s]
    OBVIOUS
  <2>3. a \in Parser /\ Untouched(a, l) /\ a.state = s
    BY <1>0, <1>1, <1>4, <2>1 DEF Parser, Untouched
  <2>4. b \in Parser /\ Untouched(b, w)
    BY <1>0, <1>1, <1>4, <2>2 DEF Parser, Untouched
  <2>5. Same(a, b)
    BY <1>0, <1>9, <2>1, <2>2 DEF Parser, Same, Total
  <2>6. QuietTwins(c, a, b)
    BY <2>3, <2>4, <2>5, QuietChanged
  <2>7. PICK m : m = CALLBACK_NOTIFY(a, "chunk_header")
    OBVIOUS
  <2>8. PICK k : k = CALLBACK_NOTIFY(b, "chunk_header")
    OBVIOUS
  <2>9. QuietTwins(c, m, k) /\ m.state = s
    BY <2>3, <2>6, <2>7, <2>8, QuietNotify DEF NotifiedState
  <2>10. chunk_size_almost_done(l, ch) = m
    BY <1>1, <1>2, <1>3, <1>6, <2>1, <2>7 DEF chunk_size_almost_done, STRICT_CHECK
  <2>11. chunk_size_almost_done(w, ch) = k
    BY <1>0, <1>1, <1>2, <1>3, <1>6, <2>2, <2>8 DEF chunk_size_almost_done, STRICT_CHECK
  <2>12. QED
    BY <1>4, <2>9, <2>10, <2>11, Rests
<1>7. QED
  BY <1>5, <1>6

(* The chunk goes on, and ends. *)
LEMMA chunk_dataTwins ==
  ASSUME NEW c, NEW l, NEW w, Peers(c, l, w), l.state = "chunk_data"
  PROVE  Between(c, chunk_data(l), chunk_data(w))
<1>1. PICK m : m = SymbolOfBody(l)
  OBVIOUS
<1>2. PICK k : k = SymbolOfBody(w)
  OBVIOUS
<1>3. /\ Reading(c) /\ Twins(c, m, k) /\ Only(m, "body") /\ Only(k, "body") /\ "body" \in Data
      /\ m.mark["body"] # 0 /\ k.mark["body"] # 0 /\ m.state = "chunk_data"
  BY <1>1, <1>2, BodyTwins
<1>4. k.content_length = m.content_length
  BY <1>3 DEF Twins, RunsWith, Same, Total
<1>5. CASE m.content_length # 0
  <2>1. chunk_data(l) = m /\ chunk_data(w) = k
    BY <1>1, <1>2, <1>4, <1>5 DEF chunk_data, SymbolOfBody
  <2>2. m.state \notin Texting
    BY <1>3 DEF Texting, UrlStates
  <2>3. QED
    BY <1>3, <2>1, <2>2, MarkedBetween
<1>6. CASE m.content_length = 0
  <2>1. PICK a : a = UPDATE_STATE(m, "chunk_data_almost_done")
    OBVIOUS
  <2>2. PICK b : b = UPDATE_STATE(k, "chunk_data_almost_done")
    OBVIOUS
  <2>3. "chunk_data_almost_done" \in AnyState /\ "chunk_data_almost_done" \notin Texting
    BY DEF AnyState, State, ChunkStates, Texting, UrlStates
  <2>4. Twins(c, a, b) /\ a.mark = m.mark /\ a.run = m.run /\ b.mark = k.mark /\ b.run = k.run /\ a.state = "chunk_data_almost_done"
    BY <1>3, <2>1, <2>2, <2>3, StateTwins
  <2>5. Only(a, "body") /\ Only(b, "body") /\ a.mark["body"] # 0 /\ b.mark["body"] # 0
    BY <1>3, <2>4 DEF Only
  <2>6. Between(c, a, b)
    BY <1>3, <2>3, <2>4, <2>5, MarkedBetween
  <2>7. chunk_data(l) = a /\ chunk_data(w) = b
    BY <1>1, <1>2, <1>4, <1>6, <2>1, <2>2 DEF chunk_data, SymbolOfBody
  <2>8. QED
    BY <2>6, <2>7
<1>7. QED
  BY <1>5, <1>6

(* The line after the chunk, *)
LEMMA chunk_data_almost_doneTwins ==
  ASSUME NEW c, NEW l, NEW w, Peers(c, l, w), l.state = "chunk_data_almost_done", NEW ch
  PROVE  Between(c, chunk_data_almost_done(l, ch), chunk_data_almost_done(w, ch))
<1>1. Reading(c) /\ Twins(c, l, w) /\ Only(l, "body") /\ Only(w, "body") /\ "body" \in Data
      /\ l.run = 0 /\ w.run = 0
  BY PeersInBody
<1>2. "chunk_data_done" \in AnyState /\ "chunk_data_done" \notin Texting
  BY DEF AnyState, State, ChunkStates, Texting, UrlStates
<1>3. CASE ch # "CR"
  <2>1. Between(c, SET_ERRNO(l, "STRICT"), SET_ERRNO(w, "STRICT"))
    BY <1>1, ErrorBetween DEF Error
  <2>2. QED
    BY <1>3, <2>1 DEF chunk_data_almost_done, STRICT_CHECK
<1>4. CASE ch = "CR"
  <2>1. PICK m : m = CALLBACK_DATA(UPDATE_STATE(l, "chunk_data_done"), "body")
    OBVIOUS
  <2>2. PICK k : k = CALLBACK_DATA(UPDATE_STATE(w, "chunk_data_done"), "body")
    OBVIOUS
  <2>3. QuietTwins(c, m, k) /\ m.state = "chunk_data_done"
    BY <1>1, <1>2, <2>1, <2>2, EndsQuiet
  <2>4. chunk_data_almost_done(l, ch) = m /\ chunk_data_almost_done(w, ch) = k
    BY <1>4, <2>1, <2>2 DEF chunk_data_almost_done, STRICT_CHECK
  <2>5. QED
    BY <1>2, <2>3, <2>4, Rests
<1>5. QED
  BY <1>3, <1>4

(* and its end. *)
LEMMA chunk_data_doneTwins ==
  ASSUME NEW c, NEW l, NEW w, QuietTwins(c, l, w), NEW ch
  PROVE  Between(c, chunk_data_done(l, ch), chunk_data_done(w, ch))
<1>0. l \in Parser /\ w \in Parser /\ Same(l, w)
  BY TwinFields DEF Twins, RunsWith, QuietTwins
<1>1. PICK n \in Nat : n = 0
  OBVIOUS
<1>2. "chunk_size_start" \in AnyState /\ "chunk_size_start" \notin Texting
  BY DEF AnyState, State, ChunkStates, Texting, UrlStates
<1>9. l.run = 0 /\ w.run = 0
  BY DEF QuietTwins, Quiet
<1>3. CASE ch # "LF"
  <2>1. Between(c, SET_ERRNO(l, "STRICT"), SET_ERRNO(w, "STRICT"))
    BY Fails DEF Error
  <2>2. QED
    BY <1>3, <2>1 DEF chunk_data_done, STRICT_CHECK
<1>4. CASE ch = "LF"
  <2>1. PICK a : a = [l EXCEPT !.nread = n, !.state = "chunk_size_start"]
    OBVIOUS
  <2>2. PICK b : b = [w EXCEPT !.nread = n, !.state = "chunk_size_start"]
    OBVIOUS
  <2>3. a \in Parser /\ Untouched(a, l) /\ a.state = "chunk_size_start"
    BY <1>0, <1>1, <1>2, <2>1 DEF Parser, Untouched
  <2>4. b \in Parser /\ Untouched(b, w)
    BY <1>0, <1>1, <1>2, <2>2 DEF Parser, Untouched
  <2>5. Same(a, b)
    BY <1>0, <1>9, <2>1, <2>2 DEF Parser, Same, Total
  <2>6. QuietTwins(c, a, b)
    BY <2>3, <2>4, <2>5, QuietChanged
  <2>7. PICK m : m = CALLBACK_NOTIFY(a, "chunk_complete")
    OBVIOUS
  <2>8. PICK k : k = CALLBACK_NOTIFY(b, "chunk_complete")
    OBVIOUS
  <2>9. QuietTwins(c, m, k) /\ m.state = "chunk_size_start"
    BY <2>3, <2>6, <2>7, <2>8, QuietNotify DEF NotifiedState
  <2>10. chunk_data_done(l, ch) = m /\ chunk_data_done(w, ch) = k
    BY <1>1, <1>4, <2>1, <2>2, <2>7, <2>8 DEF chunk_data_done, STRICT_CHECK
  <2>11. QED
    BY <1>2, <2>9, <2>10, Rests
<1>5. QED
  BY <1>3, <1>4

-----------------------------------------------------------------------------

(* Every symbol, in every state without runs: both make the same of it. *)
LEMMA execute_symbolTwins ==
  ASSUME NEW c, NEW l, NEW w, Peers(c, l, w), NEW ch,
         l.state \notin {"header_field", "header_value"}
  PROVE  Between(c, execute_symbol(l, ch), execute_symbol(w, ch))
<1>0. w.state = l.state /\ Lengths(l.state, l)
  BY DEF Peers, Twins, RunsWith, Same, Total, Ready
<1>q. l.state \notin UrlStates \cup {"header_field", "header_value", "body_identity",
                                     "chunk_data", "chunk_data_almost_done"} => QuietTwins(c, l, w)
  BY PeersQuiet
<1>1. CASE l.state = "dead"
  BY <1>0, <1>q, <1>1, deadTwins DEF execute_symbol, UrlStates
<1>2. CASE l.state = "start_req"
  BY <1>0, <1>q, <1>2, start_reqTwins DEF execute_symbol, UrlStates
<1>3. CASE l.state = "req_method"
  BY <1>0, <1>q, <1>3, req_methodTwins DEF execute_symbol, UrlStates
<1>4. CASE l.state = "req_spaces_before_url"
  BY <1>0, <1>q, <1>4, req_spaces_before_urlTwins DEF execute_symbol, UrlStates
<1>5. CASE l.state \in UrlStates
  BY <1>0, <1>5, req_urlTwins DEF execute_symbol, UrlStates
<1>6. CASE l.state = "req_http_start"
  BY <1>0, <1>q, <1>6, req_http_startTwins DEF execute_symbol, UrlStates
<1>7. CASE l.state \in {"req_http_HT", "req_http_HTTP"}
  BY <1>0, <1>q, <1>7, req_http_nameTwins DEF execute_symbol, UrlStates
<1>8. CASE l.state \in {"req_http_major", "req_http_dot", "req_http_minor", "req_http_end"}
  BY <1>0, <1>q, <1>8, req_http_versionTwins DEF execute_symbol, UrlStates
<1>9. CASE l.state = "req_line_almost_done"
  BY <1>0, <1>q, <1>9, req_line_almost_doneTwins DEF execute_symbol, UrlStates
<1>10. CASE l.state = "header_field_start"
  BY <1>0, <1>q, <1>10, header_field_startTwins DEF execute_symbol, UrlStates
<1>12. CASE l.state = "header_value_discard_ws"
  BY <1>0, <1>q, <1>12, header_value_discard_wsTwins DEF execute_symbol, UrlStates
<1>13. CASE l.state = "header_value_discard_ws_almost_done"
  BY <1>0, <1>q, <1>13, header_value_discard_ws_almost_doneTwins DEF execute_symbol, UrlStates
<1>14. CASE l.state = "header_value_discard_lws"
  BY <1>0, <1>q, <1>14, header_value_discard_lwsTwins DEF execute_symbol, UrlStates
<1>16. CASE l.state = "header_almost_done"
  BY <1>0, <1>q, <1>16, header_almost_doneTwins DEF execute_symbol, UrlStates
<1>17. CASE l.state = "header_value_lws"
  BY <1>0, <1>q, <1>17, header_value_lwsTwins DEF execute_symbol, UrlStates
<1>18. CASE l.state = "headers_almost_done"
  BY <1>0, <1>q, <1>18, headers_almost_doneTwins DEF execute_symbol, UrlStates
<1>19. CASE l.state = "body_identity"
  BY <1>0, <1>19, body_identityTwins DEF execute_symbol, UrlStates
<1>20. CASE l.state = "chunk_size_start"
  BY <1>0, <1>q, <1>20, chunk_size_startTwins DEF execute_symbol, UrlStates
<1>21. CASE l.state = "chunk_size"
  BY <1>0, <1>q, <1>21, chunk_sizeTwins DEF execute_symbol, UrlStates
<1>22. CASE l.state = "chunk_parameters"
  BY <1>0, <1>q, <1>22, chunk_parametersTwins DEF execute_symbol, UrlStates
<1>23. CASE l.state = "chunk_size_almost_done"
  BY <1>0, <1>q, <1>23, chunk_size_almost_doneTwins DEF execute_symbol, UrlStates
<1>24. CASE l.state = "chunk_data"
  BY <1>0, <1>24, chunk_dataTwins DEF execute_symbol, UrlStates
<1>25. CASE l.state = "chunk_data_almost_done"
  BY <1>0, <1>25, chunk_data_almost_doneTwins DEF execute_symbol, UrlStates
<1>26. CASE l.state = "chunk_data_done"
  BY <1>0, <1>q, <1>26, chunk_data_doneTwins DEF execute_symbol, UrlStates
<1>27. QED
  <2>1. l.state \in State
    BY <1>0 DEF Lengths
  <2>2. QED
    BY <2>1, <1>1, <1>2, <1>3, <1>4, <1>5, <1>6, <1>7, <1>8, <1>9, <1>10, <1>12, <1>13,
       <1>14, <1>16, <1>17, <1>18, <1>19, <1>20, <1>21, <1>22, <1>23, <1>24, <1>25, <1>26
       DEF State, LineStates, HeaderStates, ChunkStates

(* Between of two parsers after i and j symbols; b are the callbacks before the call. *)
Alike(b, i, j, l, w) ==
  /\ l.errno # "OK" => Outcome(l, w)
  /\ l.errno = "OK" =>
       /\ Same(l, w) /\ RunsWith(l, w)
       /\ Exact(l) /\ Exact(w)
       /\ \A d \in Data : l.mark[d] <= i + 1 /\ w.mark[d] <= j + 1
       /\ l.done => Quiet(l) /\ Quiet(w)
       /\ \E x \in Seq(Notice) : Heard(x, b, l, i) /\ Heard(x, <<>>, w, j)

(* A parser takes the next symbol up. *)
LEMMA TakesUp ==
  ASSUME NEW text, NEW l, Good(l, text), ~Stopped(l), NEW i \in 1 .. Len(text),
         NEW m, m = [l EXCEPT !.p = i]
  PROVE  /\ Ready(m, text) /\ m.p = i /\ Same(m, l)
         /\ m.mark = l.mark /\ m.run = l.run /\ m.callbacks = l.callbacks /\ m.data = l.data
<1>1. l \in Parser /\ i \in Nat
  BY DEF Good, Sane
<1>2. /\ m \in Parser /\ m.p = i /\ m.data = l.data /\ m.mark = l.mark /\ m.run = l.run /\ m.state = l.state
      /\ m.content_length = l.content_length /\ m.flags = l.flags
      /\ m.header_state = l.header_state /\ m.index = l.index /\ m.method = l.method
      /\ m.done = l.done /\ m.upgrade = l.upgrade /\ m.errno = l.errno /\ m.callbacks = l.callbacks
  BY <1>1 DEF Parser
<1>3. Same(m, l)
  BY <1>1 DEF Parser, Same, Total
<1>4. Sane(m, text) /\ ~Stopped(m)
  BY <1>2 DEF Good, Sane, Stopped
<1>5. Lengths(m.state, m) /\ Marks(m.state, m.mark)
  BY <1>2 DEF Good, Lengths
<1>6. QED
  BY <1>2, <1>3, <1>4, <1>5 DEF Ready, Running

(* It counts it in its header, if there is room. *)
LEMMA CountsIt ==
  ASSUME NEW text, NEW l, Ready(l, text), NEW m, m = Counted(l)
  PROVE  IF PARSING_HEADER(l.state) /\ l.run = 0 /\ l.nread + 1 > MaxHeaderSize
         THEN m.errno = "HEADER_OVERFLOW"
         ELSE /\ Ready(m, text) /\ Untouched(m, l) /\ m.state = l.state
              /\ m.nread = l.nread + IF PARSING_HEADER(l.state) /\ l.run = 0 THEN 1 ELSE 0
<1>1. l \in Parser /\ l.nread \in Nat /\ Running(l, text) /\ l.errno = "OK" /\ ~l.done
      /\ l.nread <= MaxHeaderSize
  BY Fields DEF Ready, Running, Sane, Stopped
<1>2. CASE ~(PARSING_HEADER(l.state) /\ l.run = 0)
  BY <1>1, <1>2 DEF Counted, Untouched
<1>3. CASE PARSING_HEADER(l.state) /\ l.run = 0
  <2>1. m = COUNT_HEADER_SIZE(l, 1) /\ 1 \in Nat
    BY <1>3 DEF Counted
  <2>2. /\ m.errno = IF l.nread + 1 > MaxHeaderSize THEN "HEADER_OVERFLOW" ELSE "OK"
        /\ Stopped(m) \/ Running(m, text)
        /\ m.nread = l.nread + 1 /\ ~m.done
        /\ m.state = l.state /\ m.mark = l.mark /\ m.run = l.run /\ m.index = l.index
        /\ m.content_length = l.content_length
        /\ m.flags = l.flags /\ m.header_state = l.header_state
        /\ m.p = l.p /\ m.data = l.data /\ m.upgrade = l.upgrade /\ m.method = l.method
    <3>1. Running(l, text) /\ 1 \in Nat /\ m = COUNT_HEADER_SIZE(l, 1)
      BY <1>1, <2>1
    <3>2. QED
      BY ONLY <3>1, Counts
  <2>3. CASE l.nread + 1 > MaxHeaderSize
    BY <1>3, <2>2, <2>3
  <2>4. CASE ~(l.nread + 1 > MaxHeaderSize)
    <3>1. m = [l EXCEPT !.nread = l.nread + 1]
      BY <1>1, <2>1, <2>2, <2>4 DEF COUNT_HEADER_SIZE
    <3>2. m.callbacks = l.callbacks /\ m.done = l.done
      BY <1>1, <3>1 DEF Parser
    <3>3. Running(m, text)
      BY <2>2, <2>4 DEF Stopped
    <3>4. Lengths(m.state, m) /\ Marks(m.state, m.mark)
      BY <2>2 DEF Ready, Lengths
    <3>5. Ready(m, text)
      BY <3>3, <3>4 DEF Ready
    <3>8. m.errno = l.errno /\ m.nread <= MaxHeaderSize
      BY <1>1, <2>2, <2>4, ParserConstants
    <3>6. Untouched(m, l)
      BY <3>8, <2>2, <3>2 DEF Untouched
    <3>7. QED
      BY <1>3, <2>2, <2>4, <3>5, <3>6
  <2>5. QED
    BY <2>3, <2>4
<1>4. QED
  BY <1>2, <1>3

(* Counting changes nothing else. *)
LEMMA CountedSame ==
  ASSUME NEW l \in Parser, NEW m, m = Counted(l), m.errno = l.errno
  PROVE  /\ m.state = l.state /\ m.header_state = l.header_state /\ m.index = l.index
         /\ m.flags = l.flags /\ m.content_length = l.content_length /\ m.method = l.method
         /\ m.http_major = l.http_major /\ m.http_minor = l.http_minor
         /\ m.upgrade = l.upgrade /\ m.done = l.done /\ m.run = l.run
<1>1. PICK k : k = [l EXCEPT !.nread = @ + 1]
  OBVIOUS
<1>2. PICK e : e = SET_ERRNO(k, "HEADER_OVERFLOW")
  OBVIOUS
<1>3. m \in {l, k, e}
  BY <1>1, <1>2 DEF Counted, COUNT_HEADER_SIZE
<1>4. QED
  BY <1>1, <1>2, <1>3 DEF SET_ERRNO, Parser

(* Outside of runs both count it, or neither has room. *)
LEMMA CountsTwins ==
  ASSUME NEW c, NEW l, NEW w, Peers(c, l, w), l.state \notin {"header_field", "header_value"},
         NEW m, m = Counted(l), NEW k, k = Counted(w)
  PROVE  /\ m.errno = k.errno
         /\ m.errno = "OK" => Peers(c, m, k) /\ m.state = l.state
<1>1. /\ Reading(c) /\ Twins(c, l, w) /\ Ready(l, c.text) /\ Ready(w, c.whole)
      /\ Exact(l) /\ Exact(w) /\ Same(l, w)
  BY DEF Peers, Twins
<1>2. l.run = 0 /\ w.run = 0 /\ w.state = l.state
  BY <1>1 DEF Ready, Lengths, Same
<1>3. /\ l \in Parser /\ w \in Parser /\ w.nread = l.nread /\ l.nread \in Nat
      /\ l.errno = "OK" /\ w.errno = "OK"
  <2>1. l \in Parser /\ w \in Parser /\ l.errno = "OK" /\ w.errno = "OK"
    BY <1>1 DEF Ready, Running, Sane, Stopped
  <2>2. l.nread \in Nat /\ w.nread \in Nat
    BY <2>1, Fields
  <2>3. w.nread = l.nread
    BY <1>1, <1>2, <2>2 DEF Same, Total
  <2>4. QED
    BY <2>1, <2>2, <2>3
<1> DEFINE full == PARSING_HEADER(l.state) /\ l.nread + 1 > MaxHeaderSize
<1>4. IF full THEN m.errno = "HEADER_OVERFLOW"
      ELSE /\ Ready(m, c.text) /\ Untouched(m, l) /\ m.state = l.state
           /\ m.nread = l.nread + IF PARSING_HEADER(l.state) THEN 1 ELSE 0
  BY <1>1, <1>2, CountsIt
<1>5. IF full THEN k.errno = "HEADER_OVERFLOW"
      ELSE /\ Ready(k, c.whole) /\ Untouched(k, w) /\ k.state = l.state
           /\ k.nread = l.nread + IF PARSING_HEADER(l.state) THEN 1 ELSE 0
  BY <1>1, <1>2, <1>3, CountsIt
<1>6. CASE full
  BY <1>4, <1>5, <1>6
<1>7. CASE ~full
  <2>1. m \in Parser /\ k \in Parser /\ Untouched(m, l) /\ Untouched(k, w)
    BY <1>4, <1>5, <1>7 DEF Ready, Running, Sane
  <2>2. m.errno = "OK" /\ k.errno = "OK" /\ m.nread = k.nread
    BY <1>3, <1>4, <1>5, <1>7, <2>1 DEF Untouched
  <2>3. Same(m, k)
    <3>1. /\ m.state = l.state /\ m.header_state = l.header_state /\ m.index = l.index
          /\ m.flags = l.flags /\ m.content_length = l.content_length /\ m.method = l.method
          /\ m.http_major = l.http_major /\ m.http_minor = l.http_minor
          /\ m.upgrade = l.upgrade /\ m.done = l.done /\ m.run = l.run
      BY <1>3, <2>2, CountedSame
    <3>2. /\ k.state = w.state /\ k.header_state = w.header_state /\ k.index = w.index
          /\ k.flags = w.flags /\ k.content_length = w.content_length /\ k.method = w.method
          /\ k.http_major = w.http_major /\ k.http_minor = w.http_minor
          /\ k.upgrade = w.upgrade /\ k.done = w.done /\ k.run = w.run
      BY <1>3, <2>2, CountedSame
    <3>3. QED
      BY <1>1, <1>2, <2>2, <3>1, <3>2 DEF Same, Total
  <2>4. Twins(c, m, k)
    BY <1>1, <2>1, <2>3, Changed
  <2>5. Exact(m) /\ Exact(k)
    BY <1>1, <1>2, <1>4, <1>5, <1>7, <2>1 DEF Exact, Untouched
  <2>6. QED
    BY <1>1, <1>4, <1>5, <1>7, <2>2, <2>4, <2>5 DEF Peers
<1>8. QED
  BY <1>6, <1>7

(* In a run only the first symbol is counted at once.  If there is no room *)
(* for it where a fragment starts in the middle of a run, the whole is     *)
(* in a run that is too long.                                              *)
LEMMA RunTakesTwins ==
  ASSUME NEW c, NEW l, NEW w, Peers(c, l, w), l.state \in {"header_field", "header_value"},
         NEW m, m = Counted(l), NEW k, k = Counted(w),
         NEW mm, mm = RunGoesOn(m), NEW kk, kk = RunGoesOn(k)
  PROVE  /\ m.errno # "OK" =>
              /\ m.errno = "HEADER_OVERFLOW"
              /\ k.errno # "OK" \/ (/\ Running(kk, c.whole) /\ kk.run # 0 /\ kk.state = l.state
                                    /\ k.errno = "OK" /\ Total(kk) > MaxHeaderSize)
         /\ m.errno = "OK" => /\ k.errno = "OK" /\ Peers(c, mm, kk)
                              /\ mm.run # 0 /\ kk.run # 0 /\ mm.state = l.state
<1>1. /\ Reading(c) /\ Twins(c, l, w) /\ Ready(l, c.text) /\ Ready(w, c.whole)
      /\ Exact(l) /\ Exact(w) /\ Same(l, w) /\ RunsWith(l, w)
  BY DEF Peers, Twins
<1>2. /\ l \in Parser /\ w \in Parser /\ l.errno = "OK" /\ w.errno = "OK"
      /\ w.state = l.state /\ PARSING_HEADER(l.state)
  BY <1>1 DEF Ready, Running, Sane, Stopped, Same, PARSING_HEADER, BodyStates
<1>3. /\ l.nread \in Nat /\ w.nread \in Nat /\ l.run \in Nat /\ w.run \in Nat
      /\ Total(l) = Total(w)
  BY <1>1, <1>2, Fields DEF Same
<1>4. IF l.run = 0 /\ l.nread + 1 > MaxHeaderSize THEN m.errno = "HEADER_OVERFLOW"
      ELSE /\ Ready(m, c.text) /\ Untouched(m, l) /\ m.state = l.state
           /\ m.nread = l.nread + IF l.run = 0 THEN 1 ELSE 0
  BY <1>1, <1>2, CountsIt
<1>5. IF w.run = 0 /\ w.nread + 1 > MaxHeaderSize THEN k.errno = "HEADER_OVERFLOW"
      ELSE /\ Ready(k, c.whole) /\ Untouched(k, w) /\ k.state = l.state
           /\ k.nread = w.nread + IF w.run = 0 THEN 1 ELSE 0
  BY <1>1, <1>2, CountsIt
<1>6. CASE k.errno # "OK"
  <2>1. w.run = 0 /\ w.nread + 1 > MaxHeaderSize
    BY <1>2, <1>5, <1>6 DEF Untouched
  <2>2. l.run = 0 /\ l.nread = w.nread
    BY <1>1, <1>3, <2>1 DEF RunsWith, Total
  <2>3. m.errno = "HEADER_OVERFLOW"
    BY <1>4, <2>1, <2>2
  <2>4. QED
    BY <1>6, <2>3
<1>7. CASE k.errno = "OK"
  <2>1. /\ Ready(k, c.whole) /\ Untouched(k, w) /\ k.state = l.state
        /\ k.nread = w.nread + IF w.run = 0 THEN 1 ELSE 0
    BY <1>5, <1>7
  <2>2. Running(k, c.whole) /\ k.run = w.run
    BY <2>1 DEF Ready, Untouched
  <2>3. /\ Running(kk, c.whole) /\ kk.run = k.run + 1 /\ kk.run # 0
        /\ kk.state = k.state /\ kk.mark = k.mark /\ kk.index = k.index
        /\ kk.content_length = k.content_length /\ kk.nread = k.nread
        /\ kk.flags = k.flags /\ kk.header_state = k.header_state
        /\ kk.p = k.p /\ kk.data = k.data /\ kk.upgrade = k.upgrade /\ kk.method = k.method
    BY ONLY <2>2, kk = RunGoesOn(k), RunGoes
  <2>4. Total(kk) = Total(w) + 1
    BY <1>3, <2>1, <2>2, <2>3 DEF Total
  <2>5. CASE m.errno # "OK"
    <3>1. l.run = 0 /\ l.nread + 1 > MaxHeaderSize
      BY <1>2, <1>4, <2>5 DEF Untouched
    <3>2. Total(l) = l.nread
      BY <1>3, <3>1 DEF Total
    <3>3. Total(kk) > MaxHeaderSize
      BY <1>3, <2>4, <3>1, <3>2
    <3>4. m.errno = "HEADER_OVERFLOW"
      BY <1>4, <3>1
    <3>5. QED
      BY <1>7, <2>1, <2>3, <2>5, <3>3, <3>4
  <2>6. CASE m.errno = "OK"
    <3>1. /\ Ready(m, c.text) /\ Untouched(m, l) /\ m.state = l.state
          /\ m.nread = l.nread + IF l.run = 0 THEN 1 ELSE 0
      BY <1>4, <2>6
    <3>2. Running(m, c.text) /\ m.run = l.run
      BY <3>1 DEF Ready, Untouched
    <3>3. /\ Running(mm, c.text) /\ mm.run = m.run + 1 /\ mm.run # 0
          /\ mm.state = m.state /\ mm.mark = m.mark /\ mm.index = m.index
          /\ mm.content_length = m.content_length /\ mm.nread = m.nread
          /\ mm.flags = m.flags /\ mm.header_state = m.header_state
          /\ mm.p = m.p /\ mm.data = m.data /\ mm.upgrade = m.upgrade /\ mm.method = m.method
      BY ONLY <3>2, mm = RunGoesOn(m), RunGoes
    <3>4. Total(mm) = Total(kk)
      BY <1>3, <2>4, <3>1, <3>2, <3>3 DEF Total
    <3>5. m \in Parser /\ k \in Parser
      BY <2>2, <3>2 DEF Running, Sane
    <3>6. /\ mm.http_major = m.http_major /\ mm.http_minor = m.http_minor
          /\ mm.errno = m.errno /\ mm.done = m.done /\ mm.callbacks = m.callbacks
          /\ kk.http_major = k.http_major /\ kk.http_minor = k.http_minor
          /\ kk.errno = k.errno /\ kk.done = k.done /\ kk.callbacks = k.callbacks
      BY <3>5 DEF RunGoesOn, Parser
    <3>7. /\ m.state = l.state /\ m.header_state = l.header_state /\ m.index = l.index
          /\ m.flags = l.flags /\ m.content_length = l.content_length /\ m.method = l.method
          /\ m.http_major = l.http_major /\ m.http_minor = l.http_minor
          /\ m.upgrade = l.upgrade /\ m.done = l.done /\ m.run = l.run
      BY <1>2, <2>6, CountedSame
    <3>8. /\ k.state = w.state /\ k.header_state = w.header_state /\ k.index = w.index
          /\ k.flags = w.flags /\ k.content_length = w.content_length /\ k.method = w.method
          /\ k.http_major = w.http_major /\ k.http_minor = w.http_minor
          /\ k.upgrade = w.upgrade /\ k.done = w.done /\ k.run = w.run
      BY <1>2, <1>7, CountedSame
    <3>9. Same(mm, kk)
      BY <1>1, <1>7, <2>3, <2>6, <3>3, <3>4, <3>6, <3>7, <3>8 DEF Same
    <3>10. /\ mm.mark = l.mark /\ mm.callbacks = l.callbacks /\ mm.p = l.p /\ mm.data = l.data
           /\ kk.mark = w.mark /\ kk.callbacks = w.callbacks /\ kk.p = w.p /\ kk.data = w.data
      BY <2>1, <2>3, <3>1, <3>3, <3>6 DEF Untouched
    <3>11. Placed(mm, c.text, c.i) /\ Placed(kk, c.whole, c.j)
      BY <1>1, <2>3, <3>3, <3>10 DEF Twins, Placed
    <3>12. HeardAlike(c, mm, kk, c.i - 1, c.j - 1)
      <4>1. PICK x \in Seq(Notice) : Heard(x, c.before, l, c.i - 1) /\ Heard(x, <<>>, w, c.j - 1)
        BY <1>1 DEF Twins, HeardAlike
      <4>2. Heard(x, c.before, mm, c.i - 1) /\ Heard(x, <<>>, kk, c.j - 1)
        BY <3>10, <4>1 DEF Heard, Unmarking, Only
      <4>3. QED
        BY <4>2 DEF HeardAlike
    <3>13. Twins(c, mm, kk)
      BY <2>3, <3>9, <3>11, <3>12 DEF Twins, RunsWith
    <3>14. Exact(mm) /\ Exact(kk)
      BY <1>1, <1>2, <2>1, <2>3, <3>1, <3>3, <3>10 DEF Exact
    <3>15. Ready(mm, c.text)
      <4>1. Lengths(mm.state, mm) /\ Marks(mm.state, mm.mark)
        BY <3>1, <3>3 DEF Ready, Lengths
      <4>2. QED
        BY <3>3, <4>1 DEF Ready
    <3>16. Ready(kk, c.whole)
      <4>1. Lengths(kk.state, kk) /\ Marks(kk.state, kk.mark)
        BY <2>1, <2>3 DEF Ready, Lengths
      <4>2. QED
        BY <2>3, <4>1 DEF Ready
    <3>17. QED
      BY <1>1, <1>7, <2>3, <2>6, <3>1, <3>3, <3>13, <3>14, <3>15, <3>16 DEF Peers
  <2>7. QED
    BY <2>5, <2>6
<1>8. QED
  BY <1>6, <1>7

(* Handing over leaves the count and the run. *)
LEMMA RunPassedOn ==
  ASSUME NEW text, NEW l, Running(l, text), NEW m, m = CALLBACK_DATA(l, "header_value")
  PROVE  Running(m, text) /\ m.run = l.run /\ m.nread = l.nread
<1>1. l.p \in Nat /\ l.p <= Len(l.data)
  BY Fields DEF Running, Sane
<1>2. PICK e \in Int : e = l.p - 1
  BY <1>1
<1>3. "header_value" \in Data
  BY DEF Data
<1>4. m = CALLBACK_DATA_(l, "header_value", e) /\ e <= Len(l.data)
  BY <1>1, <1>2 DEF CALLBACK_DATA
<1>5. Running(m, text) /\ m.run = l.run /\ m.nread = l.nread
      /\ m.mark = [l.mark EXCEPT !["header_value"] = 0]
  BY <1>3, <1>4, HandedOver
<1>6. QED
  BY <1>5

(* An error, or the count and the run stay. *)
LEMMA ValueRunStays ==
  ASSUME NEW l \in Parser, NEW ch, NEW m, m = ValueRun(l, ch)
  PROVE  \/ m.errno # "OK"
         \/ m.state = l.state /\ m.nread = l.nread /\ m.run = l.run /\ m.done = l.done
<1>1. \A e \in Error \ {"OK"} : SET_ERRNO(l, e).errno # "OK"
  BY DEF SET_ERRNO, Parser
<1>2. "INVALID_HEADER_TOKEN" \in Error \ {"OK"} /\ "INVALID_CONTENT_LENGTH" \in Error \ {"OK"}
  BY DEF Error
<1>3. CASE ch = "ctl" /\ ~l.skipping
  BY <1>1, <1>2, <1>3 DEF ValueRun
<1>4. CASE ~(ch = "ctl" /\ ~l.skipping)
           /\ l.header_state \in {"h_content_length_num", "h_content_length_ws"}
  <2>1. m = ContentLengthGoesOn(l, ch)
    BY <1>4 DEF ValueRun
  <2>2. \A v : LET k == [l EXCEPT !.content_length = v] IN
               k.state = l.state /\ k.nread = l.nread /\ k.run = l.run /\ k.done = l.done
    BY DEF Parser
  <2>3. \A v : LET k == [l EXCEPT !.header_state = v] IN
               k.state = l.state /\ k.nread = l.nread /\ k.run = l.run /\ k.done = l.done
    BY DEF Parser
  <2>4. \/ m = SET_ERRNO(l, "INVALID_CONTENT_LENGTH")
        \/ \E v : m = [l EXCEPT !.content_length = v]
        \/ \E v : m = [l EXCEPT !.header_state = v]
    BY <2>1 DEF ContentLengthGoesOn, OneDigitMore
  <2>5. CASE m = SET_ERRNO(l, "INVALID_CONTENT_LENGTH")
    BY <1>1, <1>2, <2>5
  <2>6. CASE \E v : m = [l EXCEPT !.content_length = v]
    BY <2>2, <2>6
  <2>7. CASE \E v : m = [l EXCEPT !.header_state = v]
    BY <2>3, <2>7
  <2>8. QED
    BY <2>4, <2>5, <2>6, <2>7
<1>5. CASE ~(ch = "ctl" /\ ~l.skipping)
           /\ l.header_state \notin {"h_content_length_num", "h_content_length_ws"}
  <2>1. PICK a : a = IF ch = "," /\ l.header_state # "h_transfer_encoding_chunked"
                     THEN HeaderSaid(l) ELSE l
    OBVIOUS
  <2>2. /\ a \in Parser /\ a.state = l.state /\ a.nread = l.nread /\ a.run = l.run
        /\ a.done = l.done
    <3>1. PICK f : f = l.flags \cup SaidBy(l.header_state)
      OBVIOUS
    <3>2. PICK k : k = [l EXCEPT !.flags = f]
      OBVIOUS
    <3>3. k.state = l.state /\ k.nread = l.nread /\ k.run = l.run /\ k.done = l.done
      BY <3>2 DEF Parser
    <3>4. HeaderSaid(l) = k
      BY <3>1, <3>2 DEF HeaderSaid
    <3>5. HeaderSaid(l) \in Parser
      BY SaidFields
    <3>6. QED
      BY <2>1, <3>3, <3>4, <3>5
  <2>3. PICK h : h = ValueMatched(a.header_state, ch)
    OBVIOUS
  <2>4. PICK v : v = (l.header_state = "h_general")
    OBVIOUS
  <2>5. PICK b : b = [a EXCEPT !.header_state = h]
    OBVIOUS
  <2>6. PICK k : k = [b EXCEPT !.skipping = v]
    OBVIOUS
  <2>7. m = k
    <3>1. ValueGoesOn(l, ch) = b
      BY <2>1, <2>3, <2>5 DEF ValueGoesOn
    <3>2. QED
      BY <1>5, <2>4, <2>6, <3>1 DEF ValueRun
  <2>8. k.state = a.state /\ k.nread = a.nread /\ k.run = a.run /\ k.done = a.done
    BY <2>2, <2>5, <2>6 DEF Parser
  <2>9. QED
    BY <2>2, <2>7, <2>8
<1>6. QED
  BY <1>3, <1>4, <1>5

(* A run that is too long is one until it ends, and then it is an error. *)
LEMMA TooLong ==
  ASSUME NEW text, NEW l, Running(l, text), l.run # 0, Total(l) > MaxHeaderSize, NEW ch
  PROVE  /\ RunEnds(l).errno = "HEADER_OVERFLOW"
         /\ l.state = "header_field" => Doomed(FieldTaken(l, ch))
         /\ l.state = "header_value" => Doomed(ValueTaken(l, ch))
<1>0. /\ l \in Parser /\ l.run \in Nat /\ l.nread \in Nat /\ l.errno = "OK" /\ ~l.done
      /\ l.header_state \in HeaderState
  BY Fields DEF Running, Sane, Stopped
<1>1. ASSUME NEW k, Running(k, text), k.run = l.run, k.nread = l.nread
      PROVE  RunEnds(k).errno = "HEADER_OVERFLOW"
  <2>1. PICK m : m = RunEnds(k)
    OBVIOUS
  <2>2. /\ m.nread = k.nread + (k.run - 1)
        /\ m.errno = IF m.nread > MaxHeaderSize THEN "HEADER_OVERFLOW" ELSE "OK"
    <3>1. Running(k, text) /\ k.run # 0 /\ m = RunEnds(k)
      BY <1>1, <2>1
    <3>2. QED
      BY ONLY <3>1, RunsEnd
  <2>3. m.nread > MaxHeaderSize
    BY <1>0, <1>1, <2>2 DEF Total
  <2>4. QED
    BY <2>1, <2>2, <2>3
<1>2. RunEnds(l).errno = "HEADER_OVERFLOW"
  BY <1>1
<1>3. ASSUME l.state = "header_field" PROVE Doomed(FieldTaken(l, ch))
  <2>1. CASE ch \in Token
    <3>1. PICK h : h = FieldMatched(l.header_state, ch)
      OBVIOUS
    <3>2. PICK m : m = [l EXCEPT !.header_state = h]
      OBVIOUS
    <3>3. m.state = l.state /\ m.nread = l.nread /\ m.run = l.run /\ m.done = l.done
      BY <1>0, <3>2 DEF Parser
    <3>4. FieldTaken(l, ch) = m
      BY <2>1, <3>1, <3>2 DEF FieldTaken, FieldRun
    <3>5. QED
      BY <1>0, <1>3, <3>3, <3>4 DEF Doomed, Total
  <2>2. CASE ch \notin Token
    <3>1. FieldTaken(l, ch) = RunEnds(l)
      BY <1>2, <2>2 DEF FieldTaken, FieldEnds
    <3>2. QED
      BY <1>2, <3>1 DEF Doomed
  <2>3. QED
    BY <2>1, <2>2
<1>4. ASSUME l.state = "header_value" PROVE Doomed(ValueTaken(l, ch))
  <2>1. PICK a : a = UPDATE_STATE(l, "header_almost_done")
    OBVIOUS
  <2>2. Running(a, text) /\ a.run = l.run /\ a.nread = l.nread /\ a.mark = l.mark
    <3>1. "header_almost_done" \in AnyState
      BY DEF AnyState, State, HeaderStates
    <3>2. /\ a \in Parser /\ a.run = l.run /\ a.nread = l.nread /\ a.mark = l.mark /\ a.p = l.p
          /\ a.data = l.data /\ a.errno = l.errno /\ a.done = l.done
      BY <1>0, <2>1, <3>1 DEF UPDATE_STATE, Parser
    <3>3. QED
      BY <3>2, Follows
  <2>3. CASE ch = "CR"
    <3>1. PICK m : m = CALLBACK_DATA(a, "header_value")
      OBVIOUS
    <3>2. Running(m, text) /\ m.run = a.run /\ m.nread = a.nread
      BY <2>2, <3>1, RunPassedOn
    <3>3. ValueTaken(l, ch) = RunEnds(m)
      BY <2>1, <2>3, <3>1 DEF ValueTaken, ValueEnds
    <3>4. QED
      BY <1>1, <2>2, <3>2, <3>3 DEF Doomed
  <2>4. CASE ch = "LF"
    <3>1. RunEnds(a).errno = "HEADER_OVERFLOW"
      BY <1>1, <2>2
    <3>2. ValueTaken(l, ch) = RunEnds(a)
      BY <2>1, <2>4, <3>1 DEF ValueTaken, ValueEnds
    <3>3. QED
      BY <3>1, <3>2 DEF Doomed
  <2>5. CASE ch \notin {"CR", "LF"}
    <3>1. ValueTaken(l, ch) = ValueRun(l, ch)
      BY <2>5 DEF ValueTaken
    <3>2. PICK m : m = ValueRun(l, ch)
      OBVIOUS
    <3>3. \/ m.errno # "OK"
          \/ m.state = l.state /\ m.nread = l.nread /\ m.run = l.run /\ m.done = l.done
      BY <1>0, <3>2, ValueRunStays
    <3>4. QED
      BY <1>0, <1>4, <3>1, <3>2, <3>3 DEF Doomed, Total
  <2>6. QED
    BY <2>3, <2>4, <2>5
<1>5. QED
  BY <1>2, <1>3, <1>4

(* A run that is too long stays one, or becomes an error. *)
LEMMA DoomedStays ==
  ASSUME NEW text, NEW w, Good(w, text), Doomed(w), NEW i \in 1 .. Len(text)
  PROVE  Doomed(Consume(w, i))
<1>1. CASE Stopped(w)
  BY <1>1 DEF Consume
<1>2. CASE ~Stopped(w)
  <2>1. /\ w.state \in {"header_field", "header_value"} /\ Total(w) > MaxHeaderSize
        /\ w \in Parser /\ w.nread <= MaxHeaderSize /\ w.errno = "OK"
    BY <1>2 DEF Good, Sane, Stopped, Doomed
  <2>2. w.run \in Nat /\ w.nread \in Nat /\ w.run # 0
    BY <2>1, Fields, ParserConstants DEF Total
  <2>3. PICK m : m = [w EXCEPT !.p = i]
    OBVIOUS
  <2>4. Ready(m, text) /\ m.run = w.run
    BY <1>2, <2>3, TakesUp
  <2>5. m.nread = w.nread /\ m.state = w.state
    BY <2>1, <2>3 DEF Parser
  <2>6. Counted(m) = m
    BY <2>2, <2>4 DEF Counted
  <2>7. ~Stopped(m) /\ Running(m, text)
    BY <2>4 DEF Ready, Running
  <2>8. PICK k : k = RunGoesOn(m)
    OBVIOUS
  <2>9. /\ Running(k, text) /\ k.run = m.run + 1 /\ k.run # 0
        /\ k.state = m.state /\ k.nread = m.nread
    BY ONLY <2>7, <2>8, RunGoes
  <2>10. Total(k) > MaxHeaderSize
    BY <2>1, <2>2, <2>4, <2>5, <2>9, ParserConstants DEF Total
  <2>11. PICK ch : ch = m.data[m.p]
    OBVIOUS
  <2>12. Consume(w, i) = execute_symbol(m, ch)
    BY <1>2, <2>3, <2>6, <2>7, <2>11 DEF Consume, Executed
  <2>13. CASE w.state = "header_field"
    <3>1. execute_symbol(m, ch) = FieldTaken(k, ch)
      BY <2>5, <2>8, <2>13 DEF execute_symbol, header_field, FieldTaken, UrlStates
    <3>2. QED
      BY <2>5, <2>9, <2>10, <2>12, <2>13, <3>1, TooLong
  <2>14. CASE w.state = "header_value"
    <3>1. execute_symbol(m, ch) = ValueTaken(k, ch)
      BY <2>5, <2>8, <2>14 DEF execute_symbol, header_value, ValueTaken, UrlStates
    <3>2. QED
      BY <2>5, <2>9, <2>10, <2>12, <2>14, <3>1, TooLong
  <2>15. QED
    BY <2>1, <2>13, <2>14
<1>3. QED
  BY <1>1, <1>2

(* At the end of a fragment it is an error. *)
LEMMA DoomedEnds ==
  ASSUME NEW text, NEW w, Good(w, text), Doomed(w)
  PROVE  Leftover(w).errno # "OK"
<1>1. CASE w.errno # "OK"
  BY <1>1 DEF Leftover, Stopped
<1>2. CASE w.errno = "OK"
  <2>1. ~Stopped(w) /\ Total(w) > MaxHeaderSize /\ w \in Parser /\ w.nread <= MaxHeaderSize
    BY <1>2 DEF Good, Sane, Stopped, Doomed
  <2>2. w.run # 0
    BY <2>1, Fields, ParserConstants DEF Total
  <2>3. Running(w, text)
    BY <2>1 DEF Good, Running
  <2>4. RunEnds(w).errno = "HEADER_OVERFLOW"
    BY <2>1, <2>2, <2>3, TooLong
  <2>5. Leftover(w) = RunEnds(w)
    BY <2>1, <2>2, <2>4 DEF Leftover, Stopped
  <2>6. QED
    BY <2>4, <2>5
<1>3. QED
  BY <1>1, <1>2

(* One that has stopped with an error stays as it is. *)
LEMMA OutcomeStays ==
  ASSUME NEW l, l.errno # "OK", NEW i, NEW w, NEW whole, Good(w, whole), Outcome(l, w),
         NEW j \in 1 .. Len(whole)
  PROVE  Consume(l, i) = l /\ Outcome(l, Consume(w, j))
<1>1. Consume(l, i) = l
  BY DEF Consume, Stopped
<1>2. CASE w.errno = l.errno
  <2>1. Consume(w, j) = w
    BY <1>2 DEF Consume, Stopped
  <2>2. QED
    BY <1>1, <2>1
<1>3. CASE w.errno # l.errno
  BY <1>1, <1>3, DoomedStays DEF Outcome
<1>4. QED
  BY <1>2, <1>3

(* Two that go on stand before the next symbol. *)
LEMMA BeforeSymbol ==
  ASSUME NEW b \in Seq(Notice), NEW text \in Seq(Symbol), NEW whole \in Seq(Symbol),
         NEW i \in 1 .. Len(text), NEW j \in 1 .. Len(whole), text[i] = whole[j],
         NEW l, NEW w, Good(l, text), Good(w, whole), Alike(b, i - 1, j - 1, l, w),
         ~Stopped(l),
         NEW c, c = [before |-> b, text |-> text, whole |-> whole, i |-> i, j |-> j],
         NEW m, m = [l EXCEPT !.p = i], NEW k, k = [w EXCEPT !.p = j]
  PROVE  Peers(c, m, k) /\ ~Stopped(w) /\ m.state = l.state
<1>0. l.errno = "OK" /\ i \in Nat \ {0} /\ j \in Nat \ {0}
  BY DEF Stopped
<1>1. Same(l, w) /\ RunsWith(l, w) /\ Exact(l) /\ Exact(w)
  BY <1>0 DEF Alike
<1>2. ~Stopped(w)
  BY <1>1 DEF Same, Stopped
<1>3. Reading(c) /\ c.before = b /\ c.text = text /\ c.whole = whole /\ c.i = i /\ c.j = j
  BY DEF Reading
<1>4. /\ Ready(m, text) /\ m.p = i /\ Same(m, l)
      /\ m.mark = l.mark /\ m.run = l.run /\ m.callbacks = l.callbacks /\ m.data = l.data
  BY TakesUp
<1>5. /\ Ready(k, whole) /\ k.p = j /\ Same(k, w)
      /\ k.mark = w.mark /\ k.run = w.run /\ k.callbacks = w.callbacks /\ k.data = w.data
  BY <1>2, TakesUp
<1>6. Same(m, k) /\ RunsWith(m, k)
  <2>1. Same(m, k)
    BY <1>1, <1>4, <1>5, SameAs
  <2>2. QED
    BY <1>1, <1>4, <1>5, <2>1 DEF RunsWith
<1>7. PICK x \in Seq(Notice) : Heard(x, b, l, i - 1) /\ Heard(x, <<>>, w, j - 1)
  BY <1>0 DEF Alike
<1>8. Heard(x, b, m, i - 1) /\ Heard(x, <<>>, k, j - 1)
  BY <1>4, <1>5, <1>7 DEF Heard, Unmarking, Only
<1>9. Placed(m, text, i) /\ Placed(k, whole, j)
  <2>1. \A d \in Data : l.mark[d] <= i - 1 + 1 /\ w.mark[d] <= j - 1 + 1
    BY <1>0 DEF Alike
  <2>2. \A d \in Data : m.mark[d] <= i /\ k.mark[d] <= j
    BY <1>0, <1>4, <1>5, <2>1
  <2>3. QED
    BY <1>4, <1>5, <2>2 DEF Placed, Ready
<1>10. Twins(c, m, k)
  BY <1>3, <1>6, <1>8, <1>9 DEF Twins, HeardAlike
<1>11. m.state = l.state /\ k.state = w.state
  BY <1>4, <1>5 DEF Same
<1>12. Exact(m) /\ Exact(k)
  BY <1>1, <1>4, <1>5, <1>11 DEF Exact
<1>13. QED
  BY <1>2, <1>3, <1>4, <1>5, <1>10, <1>11, <1>12 DEF Peers

(* What peers are looking at is the symbol. *)
LEMMA PeersRead ==
  ASSUME NEW c, NEW l, NEW w, Peers(c, l, w)
  PROVE  l.data[l.p] = c.text[c.i] /\ w.data[w.p] = c.text[c.i] /\ ~Stopped(l) /\ ~Stopped(w)
<1>1. Placed(l, c.text, c.i) /\ Placed(w, c.whole, c.j) /\ Reading(c)
  BY DEF Peers, Twins
<1>2. l.data = c.text /\ w.data = c.whole /\ l.p = c.i /\ w.p = c.j /\ ~Stopped(l) /\ ~Stopped(w)
  BY <1>1 DEF Placed, Running, Sane
<1>3. QED
  BY <1>1, <1>2 DEF Reading

(* A symbol that both take leaves them between symbols. *)
LEMMA ExecutedTwins ==
  ASSUME NEW c, NEW l, NEW w, Peers(c, l, w), c.text[c.i] # "ctl"
  PROVE  Between(c, Executed(Counted(l)), Executed(Counted(w)))
<1>1. PICK m : m = Counted(l)
  OBVIOUS
<1>2. PICK k : k = Counted(w)
  OBVIOUS
<1>3. PICK ch : ch = c.text[c.i]
  OBVIOUS
<1>4. \A a : a.errno # "OK" => Executed(a) = a
  BY DEF Executed, Stopped
<1>5. CASE l.state \notin {"header_field", "header_value"}
  <2>1. /\ m.errno = k.errno
        /\ m.errno = "OK" => Peers(c, m, k) /\ m.state = l.state
    BY <1>1, <1>2, <1>5, CountsTwins
  <2>2. CASE m.errno # "OK"
    <3>1. Executed(m) = m /\ Executed(k) = k
      BY <1>4, <2>1, <2>2
    <3>2. Between(c, m, k)
      BY <2>1, <2>2 DEF Between, Outcome
    <3>3. QED
      BY <1>1, <1>2, <3>1, <3>2
  <2>3. CASE m.errno = "OK"
    <3>1. Peers(c, m, k) /\ m.state \notin {"header_field", "header_value"}
      BY <1>5, <2>1, <2>3
    <3>2. m.data[m.p] = ch /\ k.data[k.p] = ch /\ ~Stopped(m) /\ ~Stopped(k)
      BY <1>3, <3>1, PeersRead
    <3>3. Executed(m) = execute_symbol(m, ch) /\ Executed(k) = execute_symbol(k, ch)
      BY <3>2 DEF Executed
    <3>4. Between(c, execute_symbol(m, ch), execute_symbol(k, ch))
      BY <3>1, execute_symbolTwins
    <3>5. QED
      BY <1>1, <1>2, <3>3, <3>4
  <2>4. QED
    BY <2>2, <2>3
<1>6. CASE l.state \in {"header_field", "header_value"}
  <2>1. PICK mm : mm = RunGoesOn(m)
    OBVIOUS
  <2>2. PICK kk : kk = RunGoesOn(k)
    OBVIOUS
  <2>3. /\ m.errno # "OK" =>
             /\ m.errno = "HEADER_OVERFLOW"
             /\ k.errno # "OK" \/ (/\ Running(kk, c.whole) /\ kk.run # 0 /\ kk.state = l.state
                                   /\ k.errno = "OK" /\ Total(kk) > MaxHeaderSize)
        /\ m.errno = "OK" => /\ k.errno = "OK" /\ Peers(c, mm, kk)
                             /\ mm.run # 0 /\ kk.run # 0 /\ mm.state = l.state
    BY <1>1, <1>2, <1>6, <2>1, <2>2, RunTakesTwins
  <2>4. /\ Ready(l, c.text) /\ Ready(w, c.whole) /\ w.state = l.state
        /\ l \in Parser /\ w \in Parser /\ l.errno = "OK" /\ w.errno = "OK"
    BY DEF Peers, Twins, Same, Ready, Running, Sane, Stopped
  <2>5. ASSUME NEW a, NEW z, z \in {l, w}, a = Counted(z), a.errno = "OK"
        PROVE  /\ l.state = "header_field" => Executed(a) = FieldTaken(RunGoesOn(a), ch)
               /\ l.state = "header_value" => Executed(a) = ValueTaken(RunGoesOn(a), ch)
    <3>1. z \in Parser /\ z.errno = "OK" /\ z.state = l.state /\ ~z.done
      BY <2>4, <2>5 DEF Ready, Running, Stopped
    <3>2. a.state = l.state /\ ~Stopped(a)
      BY <2>5, <3>1, CountedSame DEF Stopped
    <3>3. a.data = z.data /\ a.p = z.p
      <4>1. IF PARSING_HEADER(z.state) /\ z.run = 0 /\ z.nread + 1 > MaxHeaderSize
            THEN a.errno = "HEADER_OVERFLOW" ELSE Untouched(a, z)
        BY <2>4, <2>5, CountsIt
      <4>2. QED
        BY <2>5, <4>1 DEF Untouched
    <3>4. a.data[a.p] = ch
      BY <1>3, <2>5, <3>3, PeersRead
    <3>5. Executed(a) = execute_symbol(a, ch)
      BY <3>2, <3>4 DEF Executed
    <3>6. /\ l.state = "header_field" => execute_symbol(a, ch) = header_field(a, ch)
          /\ l.state = "header_value" => execute_symbol(a, ch) = header_value(a, ch)
      BY <3>2 DEF execute_symbol, UrlStates
    <3>7. QED
      BY <3>5, <3>6 DEF header_field, header_value, FieldTaken, ValueTaken
  <2>6. CASE m.errno = "OK"
    <3>1. /\ k.errno = "OK" /\ Peers(c, mm, kk)
          /\ mm.run # 0 /\ kk.run # 0 /\ mm.state = l.state
      BY <2>3, <2>6
    <3>2. CASE l.state = "header_field"
      <4>1. Executed(m) = FieldTaken(mm, ch) /\ Executed(k) = FieldTaken(kk, ch)
        BY <1>1, <1>2, <2>1, <2>2, <2>5, <2>6, <3>1, <3>2
      <4>2. Between(c, FieldTaken(mm, ch), FieldTaken(kk, ch))
        BY <3>1, <3>2, header_fieldTwins
      <4>3. QED
        BY <1>1, <1>2, <4>1, <4>2
    <3>3. CASE l.state = "header_value"
      <4>1. Executed(m) = ValueTaken(mm, ch) /\ Executed(k) = ValueTaken(kk, ch)
        BY <1>1, <1>2, <2>1, <2>2, <2>5, <2>6, <3>1, <3>3
      <4>2. Between(c, ValueTaken(mm, ch), ValueTaken(kk, ch))
        BY <1>3, <3>1, <3>3, header_valueTwins
      <4>3. QED
        BY <1>1, <1>2, <4>1, <4>2
    <3>4. QED
      BY <1>6, <3>2, <3>3
  <2>7. CASE m.errno # "OK"
    <3>1. Executed(m) = m /\ m.errno = "HEADER_OVERFLOW"
      BY <1>4, <2>3, <2>7
    <3>2. Doomed(Executed(k))
      <4>1. CASE k.errno # "OK"
        BY <1>4, <4>1 DEF Doomed
      <4>2. CASE k.errno = "OK"
        <5>1. /\ Running(kk, c.whole) /\ kk.run # 0 /\ kk.state = l.state
              /\ Total(kk) > MaxHeaderSize
          BY <2>3, <2>7, <4>2
        <5>2. /\ l.state = "header_field" => Doomed(FieldTaken(kk, ch))
              /\ l.state = "header_value" => Doomed(ValueTaken(kk, ch))
          BY <5>1, TooLong
        <5>3. /\ l.state = "header_field" => Executed(k) = FieldTaken(kk, ch)
              /\ l.state = "header_value" => Executed(k) = ValueTaken(kk, ch)
          BY <1>2, <2>2, <2>5, <4>2
        <5>4. QED
          BY <1>6, <5>2, <5>3
      <4>3. QED
        BY <4>1, <4>2
    <3>3. Between(c, Executed(m), Executed(k))
      BY <3>1, <3>2 DEF Between, Outcome
    <3>4. QED
      BY <1>1, <1>2, <3>3
  <2>8. QED
    BY <2>6, <2>7
<1>7. QED
  BY <1>5, <1>6

(* A symbol that both take leaves them alike. *)
LEMMA ConsumeTwins ==
  ASSUME NEW b \in Seq(Notice), NEW text \in Seq(Symbol), NEW whole \in Seq(Symbol),
         NEW i \in 1 .. Len(text), NEW j \in 1 .. Len(whole), text[i] = whole[j], text[i] # "ctl",
         NEW l, NEW w, Good(l, text), Good(w, whole), Alike(b, i - 1, j - 1, l, w)
  PROVE  Alike(b, i, j, Consume(l, i), Consume(w, j))
<1>0. i \in Nat \ {0} /\ j \in Nat \ {0}
  OBVIOUS
<1>1. CASE l.errno # "OK"
  <2>1. Outcome(l, w)
    BY <1>1 DEF Alike
  <2>2. Consume(l, i) = l /\ Outcome(l, Consume(w, j))
    BY <1>1, <2>1, OutcomeStays
  <2>3. QED
    BY <1>1, <2>2 DEF Alike
<1>2. CASE l.errno = "OK" /\ Stopped(l)
  <2>1. Same(l, w) /\ l.done /\ Quiet(l) /\ Quiet(w) /\ Exact(l) /\ Exact(w) /\ RunsWith(l, w)
    BY <1>2 DEF Alike, Stopped
  <2>2. Consume(l, i) = l /\ Consume(w, j) = w
    BY <1>2, <2>1 DEF Consume, Same, Stopped
  <2>3. PICK x \in Seq(Notice) : Heard(x, b, l, i - 1) /\ Heard(x, <<>>, w, j - 1)
    BY <1>2 DEF Alike
  <2>4. Heard(x, b, l, i) /\ Heard(x, <<>>, w, j)
    BY <2>1, <2>3 DEF Heard, Quiet, Unmarking
  <2>5. \A d \in Data : l.mark[d] <= i + 1 /\ w.mark[d] <= j + 1
    BY <1>0, <2>1 DEF Quiet, Unmarking
  <2>6. Alike(b, i, j, l, w)
    BY <1>2, <2>1, <2>4, <2>5 DEF Alike
  <2>7. QED
    BY <2>2, <2>6
<1>3. CASE ~Stopped(l)
  <2>1. PICK c : c = [before |-> b, text |-> text, whole |-> whole, i |-> i, j |-> j]
    OBVIOUS
  <2>2. PICK m : m = [l EXCEPT !.p = i]
    OBVIOUS
  <2>3. PICK k : k = [w EXCEPT !.p = j]
    OBVIOUS
  <2>4. Peers(c, m, k) /\ ~Stopped(w)
    BY <1>3, <2>1, <2>2, <2>3, BeforeSymbol, SMTT(30)
  <2>5. c.before = b /\ c.text = text /\ c.whole = whole /\ c.i = i /\ c.j = j
    BY <2>1
  <2>6. Between(c, Executed(Counted(m)), Executed(Counted(k)))
    BY <2>4, <2>5, ExecutedTwins
  <2>7. Consume(l, i) = Executed(Counted(m)) /\ Consume(w, j) = Executed(Counted(k))
    BY <1>3, <2>2, <2>3, <2>4 DEF Consume
  <2>8. Between(c, Consume(l, i), Consume(w, j))
    BY <2>6, <2>7
  <2>9. QED
    BY <2>5, <2>8 DEF Between, HeardAlike, Alike
<1>4. QED
  BY <1>1, <1>2, <1>3

(* From one fragment to the next *)

(* One of the four callbacks at the end of a fragment. *)
LEMMA LeftoverStep ==
  ASSUME NEW text \in Seq(Symbol), NEW n, n = Len(text), NEW l, Running(l, text), NEW d \in Data,
         NEW x, NEW b \in Seq(Notice), Heard(x, b, l, n), NEW m, m = CALLBACK_DATA_(l, d, n)
  PROVE  /\ Running(m, text) /\ m.p = l.p /\ Same(m, l) /\ m.run = l.run
         /\ Heard(x, b, m, n) /\ m.mark[d] = 0
         /\ \A f \in Data : l.mark[f] = 0 => m.mark[f] = 0
<1>1. CASE l.mark[d] = 0
  <2>1. m = l
    BY <1>1 DEF CALLBACK_DATA_
  <2>2. QED
    BY <1>1, <2>1 DEF Same, Total
<1>2. CASE l.mark[d] # 0
  <2>1. Only(l, d)
    BY <1>2 DEF Heard
  <2>2. n \in Int /\ n <= Len(text)
    OBVIOUS
  <2>3. Running(m, text) /\ m.p = l.p /\ Same(m, l) /\ Unmarking(m) /\ m.run = l.run
    BY <2>1, <2>2, HandedFields
  <2>4. Heard(x, b, m, n)
    BY <2>1, <2>2, HandedHeard
  <2>5. QED
    BY <2>3, <2>4 DEF Unmarking
<1>3. QED
  BY <1>1, <1>2

(* At the end of a fragment what is marked is said, and nothing is pending. *)
LEMMA PassedHeard ==
  ASSUME NEW text \in Seq(Symbol), NEW l, Running(l, text), NEW m, m = PassedOn(l),
         NEW x, NEW b \in Seq(Notice), Heard(x, b, l, Len(text))
  PROVE  m.p = l.p /\ Same(m, l) /\ m.run = l.run /\ x = JoinAll(b, m.callbacks)
<1>1. PICK n : n = Len(text)
  OBVIOUS
<1>2. Running(l, text) /\ Heard(x, b, l, n) /\ l.data = text
  BY <1>1 DEF Running, Sane
<1>3. PICK f : f = CALLBACK_DATA_(l, "header_field", n)
  OBVIOUS
<1>4. PICK v : v = CALLBACK_DATA_(f, "header_value", n)
  OBVIOUS
<1>5. PICK u : u = CALLBACK_DATA_(v, "url", n)
  OBVIOUS
<1>6. PICK k : k = CALLBACK_DATA_(u, "body", n)
  OBVIOUS
<1>7. m = k
  BY <1>1, <1>2, <1>3, <1>4, <1>5, <1>6 DEF PassedOn
<1>8. /\ "header_field" \in Data /\ "header_value" \in Data
      /\ "url" \in Data /\ "body" \in Data
  BY DEF Data
<1>9. /\ Running(f, text) /\ f.p = l.p /\ Same(f, l) /\ f.run = l.run /\ Heard(x, b, f, n)
      /\ f.mark["header_field"] = 0
  BY <1>1, <1>2, <1>3, <1>8, LeftoverStep
<1>10. /\ Running(v, text) /\ v.p = f.p /\ Same(v, f) /\ v.run = f.run /\ Heard(x, b, v, n)
       /\ v.mark["header_value"] = 0 /\ \A d \in Data : f.mark[d] = 0 => v.mark[d] = 0
  BY <1>1, <1>4, <1>8, <1>9, LeftoverStep
<1>11. /\ Running(u, text) /\ u.p = v.p /\ Same(u, v) /\ u.run = v.run /\ Heard(x, b, u, n)
       /\ u.mark["url"] = 0 /\ \A d \in Data : v.mark[d] = 0 => u.mark[d] = 0
  BY <1>1, <1>5, <1>8, <1>10, LeftoverStep
<1>12. /\ k.p = u.p /\ Same(k, u) /\ k.run = u.run /\ Heard(x, b, k, n)
       /\ k.mark["body"] = 0 /\ \A d \in Data : u.mark[d] = 0 => k.mark[d] = 0
  BY <1>1, <1>6, <1>8, <1>11, LeftoverStep
<1>13. Same(k, l)
  BY <1>9, <1>10, <1>11, <1>12, SameAs
<1>14. Unmarking(k)
  <2>1. \A d \in Data : d \in {"header_field", "header_value", "url", "body"}
    BY DEF Data
  <2>2. QED
    BY <1>8, <1>9, <1>10, <1>11, <1>12, <2>1 DEF Unmarking
<1>15. x = JoinAll(b, k.callbacks)
  BY <1>12, <1>14 DEF Heard
<1>16. QED
  BY <1>7, <1>9, <1>10, <1>11, <1>12, <1>13, <1>15

(* The end of a fragment says what it is in, and nothing is pending; only  *)
(* a run that has become too long is an error now.                         *)
LEMMA LeftoverHeard ==
  ASSUME NEW text \in Seq(Symbol), NEW l, Good(l, text), NEW m, m = Leftover(l),
         NEW x, NEW b \in Seq(Notice),
         l.errno = "OK" => Heard(x, b, l, Len(text)) /\ (l.done => Quiet(l))
  PROVE  /\ m.errno = "OK" => /\ l.errno = "OK" /\ Same(m, l) /\ m.run = 0 /\ m.p = l.p
                             /\ x = JoinAll(b, m.callbacks)
         /\ m.errno # "OK" =>
              \/ m.errno = l.errno
              \/ m.errno = "HEADER_OVERFLOW" /\ Doomed(l)
<1>1. CASE Stopped(l)
  <2>1. m = l
    BY <1>1 DEF Leftover
  <2>2. l.errno = "OK" => Quiet(l) /\ Heard(x, b, l, Len(text))
    BY <1>1 DEF Stopped
  <2>3. QED
    BY <2>1, <2>2 DEF Same, Total, Heard, Quiet
<1>2. CASE ~Stopped(l)
  <2>1. /\ Running(l, text) /\ Heard(x, b, l, Len(text)) /\ l.errno = "OK" /\ ~l.done
        /\ l \in Parser /\ Lengths(l.state, l)
    BY <1>2 DEF Good, Running, Sane, Stopped
  <2>2. CASE l.run = 0
    <3>1. m = PassedOn(l)
      BY <1>2, <2>2 DEF Leftover
    <3>2. m.p = l.p /\ Same(m, l) /\ m.run = l.run /\ x = JoinAll(b, m.callbacks)
      BY <2>1, <3>1, PassedHeard
    <3>3. m.errno = "OK"
      BY <2>1, <3>2 DEF Same
    <3>4. QED
      BY <2>1, <2>2, <3>2, <3>3
  <2>3. CASE l.run # 0
    <3>1. PICK k : k = RunEnds(l)
      OBVIOUS
    <3>2. CASE k.errno = "OK"
      <4>1. /\ Running(k, text) /\ Same(k, l) /\ k.run = 0 /\ k.mark = l.mark /\ k.p = l.p
            /\ k.data = l.data /\ k.callbacks = l.callbacks
        <5>1. Running(l, text) /\ l.run # 0 /\ k = RunEnds(l) /\ k.errno = "OK"
          BY <2>1, <2>3, <3>1, <3>2
        <5>2. QED
          BY ONLY <5>1, RunFits
      <4>2. m = PassedOn(k)
        <5>1. ~Stopped(k)
          BY <4>1 DEF Running
        <5>2. QED
          BY <1>2, <2>3, <3>1, <5>1 DEF Leftover
      <4>3. Heard(x, b, k, Len(text))
        BY <2>1, <4>1 DEF Heard, Unmarking, Only
      <4>4. m.p = k.p /\ Same(m, k) /\ m.run = k.run /\ x = JoinAll(b, m.callbacks)
        BY <4>1, <4>2, <4>3, PassedHeard
      <4>5. Same(m, l)
        BY <4>1, <4>4, SameAs
      <4>6. m.errno = "OK"
        BY <2>1, <4>5 DEF Same
      <4>7. QED
        BY <2>1, <4>1, <4>4, <4>5, <4>6
    <3>3. CASE k.errno # "OK"
      <4>1. m = k
        BY <1>2, <2>3, <3>1, <3>3 DEF Leftover, Stopped
      <4>2. /\ k.nread = l.nread + (l.run - 1)
            /\ k.errno = IF k.nread > MaxHeaderSize THEN "HEADER_OVERFLOW" ELSE "OK"
        <5>1. Running(l, text) /\ l.run # 0 /\ k = RunEnds(l)
          BY <2>1, <2>3, <3>1
        <5>2. QED
          BY ONLY <5>1, RunsEnd, ZenonT(60)
      <4>3. k.errno = "HEADER_OVERFLOW" /\ Total(l) > MaxHeaderSize
        BY <2>3, <3>3, <4>2 DEF Total
      <4>4. l.state \in {"header_field", "header_value"}
        BY <2>1, <2>3 DEF Lengths
      <4>5. Doomed(l)
        BY <2>1, <4>3, <4>4 DEF Doomed
      <4>6. QED
        BY <3>3, <4>1, <4>3, <4>5
    <3>4. QED
      BY <3>2, <3>3
  <2>4. QED
    BY <2>2, <2>3
<1>3. QED
  BY <1>1, <1>2

(* What has been said is one thing. *)
LEMMA HeardOnce ==
  ASSUME NEW x, NEW y, NEW b, NEW l, NEW e, Heard(x, b, l, e), Heard(y, b, l, e)
  PROVE  x = y
BY DEF Heard, Quiet, Unmarking

(* A call returns all that counts, and nothing else of the parser is left. *)
LEMMA ReturnedAlike ==
  ASSUME NEW m \in Parser, NEW k \in Parser, Same(m, k), m.run = 0, k.run = 0
  PROVE  Returned(m).parser = Returned(k).parser
<1>1. NoMark \in [Data -> Nat]
  BY DEF NoMark
<1>2. <<>> \in Seq(Symbol) /\ <<>> \in Seq(Notice)
  OBVIOUS
<1>3. PICK q \in Parser :
        q = [m EXCEPT !.data = <<>>, !.p = 0, !.mark = NoMark, !.callbacks = <<>>,
                      !.done = FALSE, !.skipping = FALSE, !.run = 0]
  BY <1>1, <1>2, ZenonT(60) DEF Parser
<1>4. PICK r \in Parser :
        r = [k EXCEPT !.data = <<>>, !.p = 0, !.mark = NoMark, !.callbacks = <<>>,
                      !.done = FALSE, !.skipping = FALSE, !.run = 0]
  BY <1>1, <1>2, ZenonT(60) DEF Parser
<1>5. Returned(m).parser = q /\ Returned(k).parser = r
  BY <1>3, <1>4 DEF Returned
<1>6. /\ q.data = r.data /\ q.p = r.p /\ q.mark = r.mark /\ q.run = r.run /\ q.callbacks = r.callbacks
      /\ q.done = r.done /\ q.skipping = r.skipping
  BY <1>3, <1>4 DEF Parser
<1>7. /\ q.state = r.state /\ q.header_state = r.header_state /\ q.index = r.index
      /\ q.flags = r.flags /\ q.content_length = r.content_length /\ q.method = r.method
      /\ q.http_major = r.http_major /\ q.http_minor = r.http_minor
      /\ q.upgrade = r.upgrade /\ q.nread = r.nread /\ q.errno = r.errno
  <2>1. m.nread = k.nread
    BY Fields DEF Same, Total
  <2>2. QED
    BY <1>3, <1>4, <2>1 DEF Parser, Same
<1>8. q = r
  <2> DEFINE names ==
               {"state", "header_state", "index", "flags", "content_length", "method",
                "http_major", "http_minor", "upgrade", "nread", "errno", "data", "p", "mark",
                "callbacks", "done", "skipping", "run"}
  <2>1. \A a \in Parser : a = [f \in names |-> a[f]]
    BY DEF Parser
  <2>2. \A f \in names : q[f] = r[f]
    BY <1>6, <1>7
  <2>3. [f \in names |-> q[f]] = [f \in names |-> r[f]]
    BY <2>2
  <2> HIDE DEF names
  <2>4. QED
    BY <2>1, <2>3
<1>9. QED
  BY <1>5, <1>8

(* A parser between two fragments, with what has been notified (b), and    *)
(* the parser that reads the whole input, after a of its symbols.          *)
Continues(b, l, w, a) ==
  /\ b \in Seq(Notice) /\ l.callbacks = <<>> /\ l.run = 0
  /\ ~Stopped(w) /\ Same(l, w) /\ Exact(w)
  /\ \A d \in Data : w.mark[d] <= a + 1
  /\ Heard(b, <<>>, w, a)

(* The parser before the first symbol of a fragment is the one that        *)
(* returned from the last, but for its marks.                              *)
LEMMA FirstFields ==
  ASSUME NEW l \in Parser, NEW text \in Seq(Symbol), NEW m, m = First(l, text)
  PROVE  /\ Same(m, l) /\ m.data = text /\ m.callbacks = l.callbacks /\ m.run = l.run
         /\ m.mark \in [Data -> Nat] /\ Exact(m) /\ Marks(m.state, m.mark)
         /\ \A d \in Data : m.mark[d] \in {0, 1}
                            /\ (m.mark[d] # 0 => \A c \in Data : c # d => m.mark[c] = 0)
<1>1. PICK marks : marks = [d \in Data |-> IF GoesOn(l.state, d) THEN 1 ELSE 0]
  OBVIOUS
<1>2. m = [l EXCEPT !.data = text, !.mark = marks]
  BY <1>1 DEF First
<1>3. m.mark = marks /\ m.data = text /\ m.callbacks = l.callbacks /\ m.state = l.state
      /\ m.run = l.run
  BY <1>2 DEF Parser
<1>4. Same(m, l)
  BY <1>2 DEF Parser, Same, Total
<1>5. marks \in [Data -> Nat] /\ \A d \in Data : marks[d] = IF GoesOn(l.state, d) THEN 1 ELSE 0
  BY <1>1
<1>6. Exact(m)
  BY <1>3, <1>5 DEF Exact
<1>7. Marks(m.state, m.mark)
  BY <1>3, <1>5 DEF Marks, GoesOn, Data
<1>8. \A c, d \in Data : m.mark[c] # 0 /\ m.mark[d] # 0 => c = d
  BY <1>7, MarksApart
<1>9. QED
  BY <1>3, <1>4, <1>5, <1>6, <1>7, <1>8

(* At the first symbol of a fragment nothing of it has been said.          *)
LEMMA StartsAlike ==
  ASSUME NEW b, NEW l, NEW w, NEW a \in Nat, Continues(b, l, w, a),
         l \in Parser, NEW text \in Seq(Symbol)
  PROVE  Alike(b, 0, a, First(l, text), w)
<1>1. PICK m : m = First(l, text)
  OBVIOUS
<1>2. /\ Same(m, l) /\ m.data = text /\ m.callbacks = <<>> /\ Exact(m) /\ m.run = 0
      /\ \A d \in Data : m.mark[d] \in {0, 1} /\ (m.mark[d] # 0 => Only(m, d))
  BY <1>1, FirstFields DEF Continues, Only
<1>3. Same(m, w)
  BY <1>2, SameAs DEF Continues
<1>4. JoinAll(b, m.callbacks) = b
  <2>1. <<>> \in Seq(Notice)
    OBVIOUS
  <2>2. QED
    BY <1>2, <2>1, JoinAllOfNotices DEF Continues
<1>5. SubSeq(text, 1, 0) = <<>>
  OBVIOUS
<1>6. Heard(b, b, m, 0)
  <2>1. ASSUME NEW d \in Data, m.mark[d] # 0
        PROVE  /\ Only(m, d)
               /\ b = Join(JoinAll(b, m.callbacks), PieceOf(d, SubSeq(m.data, m.mark[d], 0)))
    <3>1. m.mark[d] = 1
      BY <1>2, <2>1
    <3>2. SubSeq(m.data, m.mark[d], 0) = <<>>
      BY <1>2, <1>5, <3>1
    <3>3. QED
      BY <1>2, <1>4, <2>1, <3>2, JoinNothing
  <2>2. QED
    BY <1>4, <2>1 DEF Heard
<1>7. \A d \in Data : m.mark[d] <= 0 + 1
  BY <1>2
<1>8. ~m.done
  BY <1>3 DEF Continues, Stopped, Same, Total
<1>9. m.errno = "OK" /\ \A d \in Data : w.mark[d] <= a + 1
  BY <1>3 DEF Continues, Stopped, Same
<1>10. QED
  BY <1>1, <1>2, <1>3, <1>6, <1>7, <1>8, <1>9 DEF Alike, Continues, RunsWith

(* Symbol after symbol, a fragment is taken like its place in the whole.   *)
LEMMA RunTwins ==
  ASSUME NEW b, NEW l, Waiting(l), NEW text \in Seq(Symbol), text # <<>>,
         NEW v, Waiting(v), NEW whole \in Seq(Symbol), whole # <<>>,
         NEW n \in Nat, n <= Len(text), NEW a \in Nat, a + n <= Len(whole),
         \A i \in 1 .. n : text[i] = whole[a + i] /\ text[i] # "ctl",
         Continues(b, l, Execution(v, whole)[a], a)
  PROVE  Alike(b, n, a + n, Execution(l, text)[n], Execution(v, whole)[a + n])
<1>1. PICK run : run = Execution(l, text)
  OBVIOUS
<1>2. PICK all : all = Execution(v, whole)
  OBVIOUS
<1>3. Len(text) \in Nat /\ n <= Len(text)
  OBVIOUS
<1>4. run[0] = First(l, text) /\ \A i \in 1 .. n : run[i] = Consume(run[i - 1], i)
  BY <1>1, <1>3, Executions
<1>5. \A j \in 1 .. Len(whole) : all[j] = Consume(all[j - 1], j)
  BY <1>2, Executions
<1>6. \A i \in 0 .. n : Good(run[i], text)
  BY <1>1, <1>3, ExecutionGood
<1>7. \A j \in 0 .. Len(whole) : Good(all[j], whole)
  BY <1>2, ExecutionGood
<1> DEFINE S == {k \in Nat : k <= n => Alike(b, k, a + k, run[k], all[a + k])}
<1>8. 0 \in S
  <2>1. l \in Parser /\ Continues(b, l, all[a], a)
    BY <1>2 DEF Waiting, Resting
  <2>2. Alike(b, 0, a, run[0], all[a])
    BY <1>4, <2>1, StartsAlike
  <2>3. QED
    BY <2>2
<1>9. ASSUME NEW k \in Nat, k \in S
      PROVE  k + 1 \in S
  <2> SUFFICES ASSUME k + 1 <= n PROVE Alike(b, k + 1, a + (k + 1), run[k + 1], all[a + (k + 1)])
    OBVIOUS
  <2>1. PICK i \in 1 .. n : i = k + 1 /\ i \in 1 .. Len(text) /\ i - 1 \in 0 .. n
    BY <1>3
  <2>2. Len(whole) \in Nat
    OBVIOUS
  <2>3. PICK j \in 1 .. Len(whole) : j = a + (k + 1)
    BY <1>3, <2>2
  <2>4. Alike(b, i - 1, j - 1, run[i - 1], all[j - 1])
    <3>1. i - 1 = k /\ j - 1 = a + k
      BY <2>1, <2>3
    <3>2. Alike(b, k, a + k, run[k], all[a + k])
      BY <1>9
    <3>3. QED
      BY <3>1, <3>2
  <2>5. text[i] = whole[j] /\ text[i] # "ctl"
    BY <2>1, <2>3
  <2>6. Good(run[i - 1], text) /\ Good(all[j - 1], whole)
    <3>1. i - 1 \in 0 .. n /\ j - 1 \in 0 .. Len(whole)
      BY <2>1, <2>2
    <3>2. QED
      BY <1>6, <1>7, <3>1
  <2>7. run[i] = Consume(run[i - 1], i) /\ all[j] = Consume(all[j - 1], j)
    BY <1>4, <1>5
  <2>8. b \in Seq(Notice)
    BY DEF Continues
  <2>9. Alike(b, i, j, run[i], all[j])
    <3>1. PICK x : x = run[i - 1]
      OBVIOUS
    <3>2. PICK y : y = all[j - 1]
      OBVIOUS
    <3>3. Good(x, text) /\ Good(y, whole) /\ Alike(b, i - 1, j - 1, x, y)
      BY <2>4, <2>6, <3>1, <3>2
    <3>4. i \in 1 .. Len(text)
      BY <2>1
    <3>5. Alike(b, i, j, Consume(x, i), Consume(y, j))
      BY <2>5, <2>8, <3>3, <3>4, ConsumeTwins
    <3>6. QED
      BY <2>7, <3>1, <3>2, <3>5
  <2>10. QED
    BY <2>1, <2>3, <2>9
<1>10. Nat \subseteq S
  <2> HIDE DEF S
  <2>1. QED
    BY <1>8, <1>9, AllNumbers
<1>11. QED
  BY <1>1, <1>2, <1>3, <1>10

(* A fragment and its place in the whole, after a symbols, with a parser   *)
(* for each.                                                               *)
CutFrom(b, l, text, v, whole, a) ==
  /\ Waiting(l) /\ text \in Seq(Symbol) /\ text # <<>>
  /\ Waiting(v) /\ whole \in Seq(Symbol) /\ whole # <<>>
  /\ a \in Nat /\ a + Len(text) <= Len(whole)
  /\ \A i \in 1 .. Len(text) : text[i] = whole[a + i] /\ text[i] # "ctl"
  /\ Continues(b, l, Execution(v, whole)[a], a)

(* At its end, a call has said of the fragment what its place in the whole *)
(* says, and the next one continues it.                                    *)
SaysTheSame(b, out, z, e) ==
  /\ out.parser.errno # "OK" => Outcome(out.parser, z)
  /\ out.parser.errno = "OK" =>
       /\ \E m \in Parser : Same(m, z) /\ m.run = 0 /\ out.parser = Returned(m).parser
       /\ JoinAll(b, out.callbacks) \in Seq(Notice)
       /\ Heard(JoinAll(b, out.callbacks), <<>>, z, e)
  /\ out.complete /\ ~out.parser.upgrade => Continues(JoinAll(b, out.callbacks), out.parser, z, e)

(* The call with the fragment and the call with the whole. *)
LEMMA CallTwins ==
  ASSUME NEW b, NEW l, NEW text, NEW v, NEW whole, NEW a, CutFrom(b, l, text, v, whole, a)
  PROVE  SaysTheSame(b, http_parser_execute(l, text), Execution(v, whole)[a + Len(text)],
                     a + Len(text))
<1>0. /\ Waiting(l) /\ text \in Seq(Symbol) /\ text # <<>>
      /\ Waiting(v) /\ whole \in Seq(Symbol) /\ whole # <<>>
      /\ a \in Nat /\ a + Len(text) <= Len(whole)
      /\ \A i \in 1 .. Len(text) : text[i] = whole[a + i] /\ text[i] # "ctl"
      /\ Continues(b, l, Execution(v, whole)[a], a)
  BY DEF CutFrom
<1>o. PICK out : out = http_parser_execute(l, text)
  OBVIOUS
<1>z. PICK z : z = Execution(v, whole)[a + Len(text)]
  OBVIOUS
<1>1. PICK n \in Nat : n = Len(text)
  BY <1>0
<1>2. PICK e \in Nat : e = a + n
  BY <1>0
<1>3. PICK k : k = Execution(l, text)[n]
  OBVIOUS
<1>4. Alike(b, n, e, k, z)
  <2>1. /\ n \in Nat /\ n <= Len(text) /\ a + n <= Len(whole)
        /\ \A i \in 1 .. n : text[i] = whole[a + i] /\ text[i] # "ctl"
    BY <1>0, <1>1
  <2>2. Alike(b, n, a + n, Execution(l, text)[n], Execution(v, whole)[a + n])
    BY <1>0, <2>1, RunTwins
  <2>3. QED
    BY <1>1, <1>2, <1>3, <1>z, <2>2
<1>5. Good(k, text)
  BY <1>0, <1>1, <1>3, ExecutionGood
<1>6. PICK m : m = Leftover(k)
  OBVIOUS
<1>7. m \in Parser /\ (m.done => m.upgrade)
  BY <1>5, <1>6, LeftoverGood DEF Sane
<1>8. PICK x \in Seq(Notice) : k.errno = "OK" => Heard(x, b, k, n) /\ Heard(x, <<>>, z, e)
  <2>1. <<>> \in Seq(Notice)
    OBVIOUS
  <2>2. QED
    BY <1>4, <2>1 DEF Alike
<1>9. /\ m.errno = "OK" => /\ k.errno = "OK" /\ Same(m, k) /\ m.run = 0 /\ m.p = k.p
                          /\ x = JoinAll(b, m.callbacks)
      /\ m.errno # "OK" =>
           \/ m.errno = k.errno
           \/ m.errno = "HEADER_OVERFLOW" /\ Doomed(k)
  <2>1. k.errno = "OK" => Heard(x, b, k, Len(text)) /\ (k.done => Quiet(k))
    BY <1>1, <1>4, <1>8 DEF Alike
  <2>2. b \in Seq(Notice)
    BY <1>0 DEF Continues
  <2>3. text \in Seq(Symbol) /\ Good(k, text) /\ m = Leftover(k)
    BY <1>0, <1>5, <1>6
  <2>4. CASE k.errno = "OK"
    BY <2>1, <2>2, <2>3, <2>4, LeftoverHeard
  <2>5. CASE k.errno # "OK"
    <3>1. m = k
      BY <2>3, <2>5 DEF Leftover, Stopped
    <3>2. QED
      BY <2>5, <3>1
  <2>6. QED
    BY <2>4, <2>5
<1>10. /\ m.errno = "OK" => Same(m, z)
       /\ m.errno # "OK" => Outcome(m, z)
  <2>1. CASE m.errno = "OK"
    BY <1>4, <1>9, <2>1, SameAs DEF Alike
  <2>2. CASE m.errno # "OK" /\ k.errno # "OK"
    BY <1>4, <1>9, <2>2 DEF Alike, Outcome, Doomed
  <2>3. CASE m.errno # "OK" /\ k.errno = "OK"
    BY <1>4, <1>9, <2>3 DEF Alike, Outcome, Doomed, Same
  <2>4. QED
    BY <2>1, <2>2, <2>3
<1>11. out = Returned(m)
  BY <1>o, <1>1, <1>3, <1>6 DEF http_parser_execute
<1>12. PICK q : q = [m EXCEPT !.data = <<>>, !.p = 0, !.mark = NoMark, !.callbacks = <<>>,
                              !.done = FALSE, !.skipping = FALSE, !.run = 0]
  OBVIOUS
<1>13. /\ out.parser = q /\ out.callbacks = m.callbacks
       /\ out.complete = (m.errno = "OK" /\ (m.done => m.p = Len(m.data)))
  BY <1>11, <1>12 DEF Returned
<1>14. /\ q.callbacks = <<>> /\ q.done = FALSE /\ q.run = 0
       /\ q.state = m.state /\ q.header_state = m.header_state /\ q.index = m.index
       /\ q.flags = m.flags /\ q.content_length = m.content_length /\ q.method = m.method
       /\ q.http_major = m.http_major /\ q.http_minor = m.http_minor
       /\ q.upgrade = m.upgrade /\ q.nread = m.nread /\ q.errno = m.errno
  BY <1>7, <1>12 DEF Parser
<1>15. ASSUME out.parser.errno = "OK"
       PROVE  /\ k.errno = "OK" /\ m.errno = "OK" /\ x = JoinAll(b, out.callbacks)
              /\ Heard(x, <<>>, z, e)
  <2>1. m.errno = "OK"
    BY <1>13, <1>14, <1>15
  <2>2. k.errno = "OK"
    BY <1>9, <2>1
  <2>3. QED
    BY <1>8, <1>9, <1>13, <2>1, <2>2
<1>16. ASSUME out.complete, ~out.parser.upgrade
       PROVE  Continues(JoinAll(b, out.callbacks), out.parser, z, e)
  <2>1. m.errno = "OK" /\ ~m.done
    BY <1>7, <1>13, <1>14, <1>16
  <2>2. out.parser.errno = "OK"
    BY <1>13, <1>14, <2>1
  <2>3. m.done \in BOOLEAN
    BY <1>7, Fields
  <2>4. Same(q, m)
    BY <1>9, <1>14, <2>1, <2>3 DEF Same, Total
  <2>5. Same(q, z)
    BY <1>10, <2>1, <2>4, SameAs
  <2>6. ~Stopped(z)
    BY <1>10, <2>1 DEF Stopped, Same, Total
  <2>7. Exact(z) /\ \A d \in Data : z.mark[d] <= e + 1
    BY <1>4, <1>15, <2>2 DEF Alike
  <2>8. QED
    BY <1>13, <1>14, <1>15, <2>2, <2>5, <2>6, <2>7 DEF Continues
<1>17. out.parser.errno = m.errno
  BY <1>13, <1>14
<1>18. out.parser.errno # "OK" => Outcome(out.parser, z)
  BY <1>10, <1>17 DEF Outcome
<1>19. out.parser.errno = "OK" => Same(m, z) /\ m.run = 0
  BY <1>9, <1>10, <1>17
<1>20. SaysTheSame(b, out, z, e)
  BY <1>7, <1>8, <1>11, <1>15, <1>16, <1>18, <1>19 DEF SaysTheSame
<1>21. QED
  BY <1>1, <1>2, <1>20, <1>o, <1>z

-----------------------------------------------------------------------------

(* It continues what has not begun. *)
LEMMA BeginsAlike ==
  ASSUME NEW whole \in Seq(Symbol)
  PROVE  Continues(<<>>, http_parser_init, Execution(http_parser_init, whole)[0], 0)
<1>1. PICK l : l = http_parser_init
  OBVIOUS
<1>2. l \in Parser /\ l.state = "start_req" /\ l.callbacks = <<>> /\ ~Stopped(l) /\ l.run = 0
  BY <1>1, Begins DEF Waiting, Resting, Stopped
<1>3. PICK w : w = First(l, whole)
  OBVIOUS
<1>4. Execution(l, whole)[0] = w
  BY <1>3, Executions
<1>5. /\ Same(w, l) /\ w.data = whole /\ w.callbacks = <<>> /\ Exact(w) /\ w.run = 0
      /\ \A d \in Data : w.mark[d] \in {0, 1}
  BY <1>2, <1>3, FirstFields
<1>6. Quiet(w)
  <2>1. w = [l EXCEPT !.data = whole,
                      !.mark = [d \in Data |-> IF GoesOn(l.state, d) THEN 1 ELSE 0]]
    BY <1>3 DEF First
  <2>2. w.mark = [d \in Data |-> IF GoesOn(l.state, d) THEN 1 ELSE 0]
    BY <1>2, <2>1 DEF Parser
  <2>3. QED
    BY <1>2, <1>5, <2>2, Begins DEF Quiet, Unmarking
<1>7. <<>> \in Seq(Notice)
  OBVIOUS
<1>8. Heard(<<>>, <<>>, w, 0)
  BY <1>5, <1>6, <1>7, JoinAllOfNotices DEF Heard, Quiet, Unmarking
<1>9. ~Stopped(w)
  BY <1>2, <1>5 DEF Same, Total, Stopped
<1>10. Same(l, w) /\ \A d \in Data : w.mark[d] <= 0 + 1
  BY <1>5, SameAs
<1>11. QED
  BY <1>1, <1>2, <1>4, <1>5, <1>7, <1>8, <1>9, <1>10 DEF Continues

(* Nothing read, nothing changed. *)
LEMMA NothingRead ==
  LET out == http_parser_execute(http_parser_init, <<>>) IN
  out.parser = http_parser_init /\ out.callbacks = <<>>
<1>1. PICK l : l = http_parser_init
  OBVIOUS
<1>2. l \in Parser /\ l.state = "start_req" /\ l.callbacks = <<>> /\ ~Stopped(l) /\ l.run = 0
  BY <1>1, Begins DEF Waiting, Resting, Stopped
<1>3. PICK marks : marks = [d \in Data |-> IF GoesOn(l.state, d) THEN 1 ELSE 0]
  OBVIOUS
<1>4. PICK m : m = [l EXCEPT !.data = <<>>, !.mark = marks]
  OBVIOUS
<1>5. <<>> \in Seq(Symbol) /\ Len(<<>>) = 0
  OBVIOUS
<1>6. Execution(l, <<>>)[0] = m
  <2>1. Execution(l, <<>>)[0] = First(l, <<>>)
    BY <1>5, Executions
  <2>2. First(l, <<>>) = m
    BY <1>3, <1>4 DEF First
  <2>3. QED
    BY <2>1, <2>2
<1>7. marks = NoMark
  BY <1>2, <1>3, Begins DEF NoMark
<1>8. m = l
  <2>1. l.data = <<>> /\ l.mark = NoMark
    BY <1>1 DEF http_parser_init
  <2>2. QED
    BY <1>2, <1>4, <1>7, <2>1 DEF Parser
<1>9. \A d \in Data : l.mark[d] = 0
  BY <1>1 DEF http_parser_init, NoMark
<1>10. \A d \in Data : CALLBACK_DATA_(l, d, 0) = l
  BY <1>9 DEF CALLBACK_DATA_
<1>11. Leftover(l) = l
  <2>1. /\ "header_field" \in Data /\ "header_value" \in Data
        /\ "url" \in Data /\ "body" \in Data
    BY DEF Data
  <2>2. Len(l.data) = 0
    BY <1>1, <1>5 DEF http_parser_init
  <2>3. QED
    BY <1>2, <1>10, <2>1, <2>2 DEF Leftover, PassedOn
<1>12. Returned(l).parser = l /\ Returned(l).callbacks = <<>>
  <2>1. /\ l.data = <<>> /\ l.p = 0 /\ l.mark = NoMark /\ l.callbacks = <<>> /\ l.done = FALSE
        /\ l.skipping = FALSE /\ l.run = 0
    BY <1>1 DEF http_parser_init
  <2>2. [l EXCEPT !.data = <<>>, !.p = 0, !.mark = NoMark, !.callbacks = <<>>,
                  !.done = FALSE, !.skipping = FALSE, !.run = 0] = l
    BY <1>2, <2>1 DEF Parser
  <2>3. QED
    BY <2>1, <2>2 DEF Returned
<1>13. http_parser_execute(l, <<>>) = Returned(l)
  BY <1>5, <1>6, <1>8, <1>11 DEF http_parser_execute
<1>14. QED
  BY <1>1, <1>12, <1>13

(* What of a text is a part of it. *)
Part(s, a, n) == SubSeq(s, a + 1, a + n)

(* It is text, with these symbols. *)
LEMMA PartOf ==
  ASSUME NEW s \in Seq(Symbol), NEW a \in Nat, NEW n \in Nat, n # 0, a + n <= Len(s)
  PROVE  /\ Part(s, a, n) \in Seq(Symbol) /\ Part(s, a, n) # <<>> /\ Len(Part(s, a, n)) = n
         /\ \A i \in 1 .. n : Part(s, a, n)[i] = s[a + i]
<1>1. a + 1 \in Nat \ {0} /\ a + n \in Int
  OBVIOUS
<1>2. PICK t : t = SubSeq(s, a + 1, a + n)
  OBVIOUS
<1>3. t \in Seq(Symbol)
  BY <1>1, <1>2, Piece
<1>4. Len(t) = n
  BY <1>1, <1>2
<1>5. t # <<>>
  BY <1>3, <1>4
<1>6. ASSUME NEW i \in 1 .. n
      PROVE  t[i] = s[a + i]
  <2>1. PICK k \in Nat \ {0} : k = a + 1
    BY <1>1
  <2>2. PICK m \in Int : m = a + n /\ m <= Len(s)
    BY <1>1
  <2>3. t[i] = s[k + i - 1]
    BY <1>2, <1>4, <2>1, <2>2, SubSeqProperties
  <2>4. QED
    BY <2>1, <2>3
<1>7. QED
  BY <1>2, <1>3, <1>4, <1>5, <1>6 DEF Part

(* While the connection is open, what has been notified and the parser     *)
(* are those of one call with the whole input, as far as it has arrived.   *)
Alone == Execution(http_parser_init, input)

(* The invariant: the property itself, and that the next fragment          *)
(* continues the call with the whole input.                                *)
FInv ==
  /\ FragmentsDoNotMatter
  /\ ~ControlCharacter /\ socket = "open" /\ input # <<>> =>
       Continues(notified, parser, Alone[arrived], arrived)

(* It holds initially. *)
LEMMA InitAlike == Init => FInv
<1> SUFFICES ASSUME Init PROVE FInv
  OBVIOUS
<1>1. input \in Seq(Symbol)
  BY ServerConstants DEF Init
<1>2. arrived = 0 /\ parser = http_parser_init /\ notified = <<>>
  BY DEF Init
<1>3. Continues(notified, parser, Alone[arrived], arrived)
  BY <1>1, <1>2, BeginsAlike DEF Alone
<1>4. SubSeq(input, 1, arrived) = <<>>
  BY <1>1, <1>2
<1>5. <<>> = JoinAll(<<>>, <<>>)
  <2>1. <<>> \in Seq(Notice)
    OBVIOUS
  <2>2. QED
    BY <2>1, JoinAllOfNotices
<1>6. FragmentsDoNotMatter
  BY <1>2, <1>4, <1>5, NothingRead DEF FragmentsDoNotMatter
<1>7. QED
  BY <1>3, <1>6 DEF FInv

(* A call that accepts a fragment has left no run that is too long.        *)
LEMMA NotDoomed ==
  ASSUME NEW r, Resting(r), r.errno = "OK", NEW z,
         \E m \in Parser : Same(m, z) /\ m.run = 0 /\ r = Returned(m).parser
  PROVE  z.errno = "OK" /\ ~Doomed(z)
<1>1. PICK m \in Parser : Same(m, z) /\ m.run = 0 /\ r = Returned(m).parser
  OBVIOUS
<1>2. r.nread = m.nread /\ r.errno = m.errno
  BY <1>1 DEF Returned, Parser
<1>3. Total(m) = m.nread /\ m.nread \in Nat
  BY <1>1, Fields DEF Total
<1>4. m.nread <= MaxHeaderSize
  BY <1>2 DEF Resting
<1>5. z.errno = "OK" /\ Total(z) = m.nread
  BY <1>1, <1>2, <1>3 DEF Same
<1>6. QED
  BY <1>3, <1>4, <1>5, ParserConstants DEF Doomed

(* A fragment keeps it: the calls with the fragments and the call with all *)
(* that has arrived are both compared with the call with the whole input.  *)
LEMMA ReadyReadAlike ==
  ASSUME IInv, FInv, NEW n \in 1 .. Len(input), ReadyRead(n)
  PROVE  FInv'
<1>1. /\ input' = input /\ arrived' = arrived + n /\ socket = "open"
      /\ n <= Len(input) - arrived
  BY DEF ReadyRead
<1>2. /\ input \in Seq(Symbol) /\ arrived \in 0 .. Len(input) /\ Len(input) \in Nat
      /\ Waiting(parser)
  BY <1>1 DEF IInv
<1>3. ControlCharacter' <=> ControlCharacter
  BY <1>1 DEF ControlCharacter
<1> SUFFICES ASSUME ~ControlCharacter PROVE FInv'
  BY <1>3 DEF FInv, FragmentsDoNotMatter
<1>4. PICK e \in Nat : /\ e = arrived + n /\ e # 0 /\ e <= Len(input)
                      /\ n \in Nat /\ n # 0 /\ arrived \in Nat
  BY <1>1, <1>2
<1>5. input # <<>>
  BY <1>2, <1>4
<1>6. PICK text : text = Part(input, arrived, n)
  OBVIOUS
<1>7. PICK head : head = Part(input, 0, e)
  OBVIOUS
<1>8. /\ text \in Seq(Symbol) /\ text # <<>> /\ Len(text) = n
      /\ \A i \in 1 .. n : text[i] = input[arrived + i]
  <2>1. /\ input \in Seq(Symbol) /\ arrived \in Nat
        /\ n \in Nat /\ n # 0 /\ arrived + n <= Len(input)
    BY <1>2, <1>4
  <2>2. QED
    BY <1>6, <2>1, PartOf
<1>9. /\ head \in Seq(Symbol) /\ head # <<>> /\ Len(head) = e
      /\ \A i \in 1 .. e : head[i] = input[0 + i]
  <2>1. input \in Seq(Symbol) /\ 0 \in Nat /\ e \in Nat /\ e # 0 /\ 0 + e <= Len(input)
    BY <1>2, <1>4
  <2>2. QED
    BY <1>7, <2>1, PartOf
<1>10. \A i \in 1 .. Len(input) : input[i] # "ctl"
  BY <1>2 DEF ControlCharacter
<1>11. \A i \in 1 .. n : text[i] # "ctl"
  <2> TAKE i \in 1 .. n
  <2>1. arrived + i \in 1 .. Len(input)
    BY <1>2, <1>4
  <2>2. QED
    BY <1>8, <1>10, <2>1
<1>12. \A i \in 1 .. e : head[i] # "ctl"
  BY <1>2, <1>4, <1>9, <1>10
<1>13. PICK v : v = http_parser_init
  OBVIOUS
<1>14. Waiting(v)
  BY <1>13, Begins
<1>15. PICK z : z = Alone[e]
  OBVIOUS
<1>16. PICK out : out = http_parser_execute(parser, text)
  OBVIOUS
<1>17. PICK whole : whole = http_parser_execute(v, head)
  OBVIOUS
<1>18. Continues(notified, parser, Execution(v, input)[arrived], arrived)
  BY <1>1, <1>5, <1>13 DEF FInv, Alone
<1>19. SaysTheSame(notified, out, z, e)
  <2>1. e = arrived + Len(text) /\ Waiting(parser) /\ input \in Seq(Symbol)
    BY <1>2, <1>4, <1>8
  <2>2. arrived \in Nat /\ arrived + Len(text) <= Len(input)
    BY <1>4, <2>1
  <2>3. \A i \in 1 .. Len(text) : text[i] = input[arrived + i] /\ text[i] # "ctl"
    BY <1>8, <1>11
  <2>4. CutFrom(notified, parser, text, v, input, arrived)
    BY <1>5, <1>8, <1>14, <1>18, <2>1, <2>2, <2>3 DEF CutFrom
  <2>5. z = Execution(v, input)[arrived + Len(text)]
    BY <1>13, <1>15, <2>1 DEF Alone
  <2>6. QED
    BY <1>16, <2>1, <2>4, <2>5, CallTwins
<1>20. SaysTheSame(<<>>, whole, z, e)
  <2>1. e = 0 + Len(head) /\ input \in Seq(Symbol)
    BY <1>2, <1>4, <1>9
  <2>2. 0 \in Nat /\ 0 + Len(head) <= Len(input)
    BY <1>4, <2>1
  <2>3. \A i \in 1 .. Len(head) : head[i] = input[0 + i] /\ head[i] # "ctl"
    BY <1>9, <1>12
  <2>4. Continues(<<>>, v, Execution(v, input)[0], 0)
    BY <1>2, <1>13, BeginsAlike
  <2>5. CutFrom(<<>>, v, head, v, input, 0)
    BY <1>5, <1>9, <1>14, <2>1, <2>2, <2>3, <2>4 DEF CutFrom
  <2>6. z = Execution(v, input)[0 + Len(head)]
    BY <1>13, <1>15, <2>1 DEF Alone
  <2>7. QED
    BY <1>17, <2>1, <2>5, <2>6, CallTwins
<1>28. Resting(out.parser) /\ Resting(whole.parser)
  BY <1>2, <1>8, <1>9, <1>14, <1>16, <1>17, http_parser_executeRests
<1>29. /\ out.parser.errno = "OK" => z.errno = "OK" /\ ~Doomed(z)
       /\ whole.parser.errno = "OK" => z.errno = "OK" /\ ~Doomed(z)
  BY <1>19, <1>20, <1>28, NotDoomed DEF SaysTheSame
<1>21. ASSUME out.parser.errno = "OK"
       PROVE  /\ out.parser = whole.parser
              /\ JoinAll(notified, out.callbacks) = JoinAll(<<>>, whole.callbacks)
  <2>1. PICK m \in Parser : Same(m, z) /\ m.run = 0 /\ out.parser = Returned(m).parser
    BY <1>19, <1>21 DEF SaysTheSame
  <2>2. whole.parser.errno = "OK"
    BY <1>20, <1>21, <1>29 DEF SaysTheSame, Outcome
  <2>3. PICK k \in Parser : Same(k, z) /\ k.run = 0 /\ whole.parser = Returned(k).parser
    BY <1>20, <2>2 DEF SaysTheSame
  <2>4. Same(m, k)
    BY <2>1, <2>3, SameAs
  <2>5. out.parser = whole.parser
    BY <2>1, <2>3, <2>4, ReturnedAlike
  <2>6. JoinAll(notified, out.callbacks) = JoinAll(<<>>, whole.callbacks)
    BY <1>19, <1>20, <1>21, <2>2, HeardOnce DEF SaysTheSame
  <2>7. QED
    BY <2>5, <2>6
<1>22. ASSUME out.parser.errno # "OK"
       PROVE  /\ whole.parser.errno # "OK"
              /\ whole.parser.errno = out.parser.errno \/ out.parser.errno = "HEADER_OVERFLOW"
  <2>1. Outcome(out.parser, z)
    BY <1>19, <1>22 DEF SaysTheSame
  <2>2. whole.parser.errno # "OK"
    BY <1>22, <1>29, <2>1 DEF Outcome
  <2>3. ASSUME out.parser.errno # "HEADER_OVERFLOW"
        PROVE  whole.parser.errno = out.parser.errno
    <3>1. z.errno = out.parser.errno
      BY <2>1, <2>3 DEF Outcome
    <3>2. PICK k : k = Execution(v, head)[e]
      OBVIOUS
    <3>3. Alike(<<>>, e, 0 + e, z, k)
      <4>1. Waiting(v) /\ input \in Seq(Symbol) /\ input # <<>>
        BY <1>2, <1>5, <1>14
      <4>2. head \in Seq(Symbol) /\ head # <<>>
        BY <1>9
      <4>3. e \in Nat /\ e <= Len(input) /\ 0 \in Nat /\ 0 + e <= Len(head)
        BY <1>4, <1>9
      <4>4. \A i \in 1 .. e : input[i] = head[0 + i] /\ input[i] # "ctl"
        BY <1>2, <1>4, <1>9, <1>10
      <4>5. Continues(<<>>, v, Execution(v, head)[0], 0)
        BY <1>9, <1>13, BeginsAlike
      <4>6. Alike(<<>>, e, 0 + e, Execution(v, input)[e], Execution(v, head)[0 + e])
        BY <4>1, <4>2, <4>3, <4>4, <4>5, RunTwins
      <4>7. QED
        BY <1>4, <1>13, <1>15, <3>2, <4>6 DEF Alone
    <3>4. k.errno = z.errno
      BY <1>22, <2>3, <3>1, <3>3 DEF Alike, Outcome
    <3>5. Leftover(k) = k
      BY <1>22, <3>1, <3>4 DEF Leftover, Stopped
    <3>6. whole = Returned(k)
      BY <1>9, <1>17, <3>2, <3>5 DEF http_parser_execute
    <3>7. k \in Parser
      <4>1. e \in 0 .. Len(head)
        BY <1>4, <1>9
      <4>2. Good(k, head)
        BY <1>9, <1>14, <3>2, <4>1, ExecutionGood
      <4>3. QED
        BY <4>2 DEF Good, Sane
    <3>8. whole.parser.errno = k.errno
      BY <3>6, <3>7 DEF Returned, Parser
    <3>9. QED
      BY <3>1, <3>4, <3>8
  <2>4. QED
    BY <2>2, <2>3
<1>23. handleReadyRead(text)
  BY <1>6 DEF ReadyRead, Part
<1>24. /\ parser' = out.parser /\ notified' = JoinAll(notified, out.callbacks)
       /\ socket' = "open" => out.complete /\ ~out.parser.upgrade
  BY <1>16, <1>23 DEF handleReadyRead
<1>25. FragmentsDoNotMatter'
  <2>1. SubSeq(input, 1, arrived)' = head
    BY <1>1, <1>4, <1>7 DEF Part
  <2>2. QED
    <3>1. /\ parser'.errno = "OK" =>
               parser' = whole.parser /\ notified' = JoinAll(<<>>, whole.callbacks)
          /\ parser'.errno # "OK" =>
               \/ whole.parser.errno = parser'.errno
               \/ whole.parser.errno # "OK" /\ parser'.errno = "HEADER_OVERFLOW"
      BY <1>21, <1>22, <1>24
    <3>2. QED
      BY <1>13, <1>17, <2>1, <3>1 DEF FragmentsDoNotMatter
<1>26. socket' = "open" => Continues(notified', parser', Alone'[arrived'], arrived')
  <2>1. Alone'[arrived'] = z /\ arrived' = e
    BY <1>1, <1>4, <1>15 DEF Alone
  <2>2. QED
    BY <1>19, <1>24, <2>1 DEF SaysTheSame
<1>27. QED
  BY <1>25, <1>26 DEF FInv

(* Every step keeps it, together with IInv. *)
LEMMA NextAlike == IInv /\ FInv /\ [Next]_vars => FInv'
<1> SUFFICES ASSUME IInv, FInv, [Next]_vars PROVE FInv'
  OBVIOUS
<1>1. CASE \E n \in 1 .. Len(input) : ReadyRead(n)
  BY <1>1, ReadyReadAlike
<1>2. CASE disconnected
  BY <1>2 DEF disconnected, FInv, FragmentsDoNotMatter, ControlCharacter
<1>3. CASE UNCHANGED vars
  BY <1>3 DEF vars, FInv, FragmentsDoNotMatter, ControlCharacter, Alone
<1>4. QED
  BY <1>1, <1>2, <1>3 DEF Next

-----------------------------------------------------------------------------

(* The variables keep their types: no length of a body is beyond           *)
(* ULLONG_MAX, no header is accepted that is longer than max_header_size,  *)
(* whose count may pass the limit only with an error (http_parser.c        *)
(* 52-56, 144-161, 1552, 1972), and the request is in a state that its     *)
(* callbacks know.                                                         *)
THEOREM TypeCorrect == Spec => []TypeOK
<1>1. Spec => []IInv
  BY InitInv, NextInv, PTL DEF Spec
<1>2. QED
  BY <1>1, IInvTypes, PTL

(* What http_parser.c asserts holds at every symbol of what is still to    *)
(* come (lines 1361, 1524, 1881, 1930-2067): none of its assertions can    *)
(* end the server.                                                         *)
THEOREM AssertionsKept == Spec => []AssertionsHold
<1>1. Spec => []IInv
  BY InitInv, NextInv, PTL DEF Spec
<1>2. QED
  BY <1>1, IInvAsserts, PTL

(* However the input is cut into fragments, of any number and any length,  *)
(* http_parser_execute (http_parser.c 622-2085) accepts what it would      *)
(* accept if all that has arrived had come at once, in the same state and  *)
(* with the same count, and has notified the same URLs, headers and        *)
(* bodies; it refuses what it would refuse, with the same error, except    *)
(* that it may find a header too long before it finds what else is wrong   *)
(* with it; an input with control characters is the exception.             *)
THEOREM FragmentsAlike == Spec => []FragmentsDoNotMatter
<1>1. IInv /\ FInv /\ [Next]_vars => (IInv /\ FInv)'
  BY NextInv, NextAlike
<1>2. Init => IInv /\ FInv
  BY InitInv, InitAlike
<1>3. FInv => FragmentsDoNotMatter
  BY DEF FInv
<1>4. QED
  BY <1>1, <1>2, <1>3, PTL DEF Spec
=============================================================================
