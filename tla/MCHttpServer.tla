---------------------------- MODULE MCHttpServer ----------------------------
(***************************************************************************)
(* Instances of HttpServer for TLC.                                        *)
(***************************************************************************)
EXTENDS HttpServer

Path(path) == [EmptyFields EXCEPT !.path = path]
Root == Path(<<"/">>)

Message(m, url, headers, coding, body) ==
  [method |-> m, url |-> url, minor |-> "1", headers |-> headers,
   coding |-> coding, body |-> body]

Header(name, value) == [name |-> name, value |-> value]
Host(value) == Header(<<"ho", "st">>, value)
Connection(value) == Header(<<"con", "nection">>, value)
Upgrade == Header(<<"up", "grade">>, <<"x">>)

Get == Message("GET", Root, <<>>, "none", <<>>)
Post == Message("POST", Root, <<Host(<<"x">>)>>, "length", <<<<"x", "a">>>>)
Chunked == Message("POST", Root, <<>>, "chunked", <<<<"x">>, <<"a", "x">>>>)
Absolute ==
  Message("PUT", [EmptyFields EXCEPT !.schema = <<"a">>, !.userinfo = <<"a">>, !.host = <<"x">>,
                                     !.port = <<"8", "0">>, !.path = <<"/", "x">>,
                                     !.query = <<"a">>, !.fragment = <<"x">>],
          <<>>, "none", <<>>)
Closing == Message("GET", Root, <<Connection(<<"clo", "se">>)>>, "none", <<>>)
Old(headers) == [Message("GET", Root, headers, "none", <<>>) EXCEPT !.minor = "0"]
Malformed(text) == [raw |-> text, malformed |-> TRUE]
Unusual(text) == [raw |-> text, malformed |-> FALSE]

GetLine == Line(<<"G", "ET", "SP", "/", "SP", "HT", "TP", "/", "1", ".", "1">>)
Length(digits) == Line(<<"con", "tent-length", ":">> \o digits)
InChunks == Line(<<"transfer-", "encoding", ":", "chu", "nked">>)

WellFormed ==
  {<<Post, Get>>, <<Chunked, Get>>, <<Absolute>>, <<Closing, Get>>,
   <<Old(<<>>), Get>>, <<Old(<<Connection(<<"kee", "p-alive">>)>>), Get>>,
   <<Message("POST", Path(<<"*">>), <<Host(<<"x", ":", "8">>)>>, "none", <<>>)>>,
   <<Message("SOURCE", Root, <<>>, "none", <<>>)>>,
   <<Message("GET", Root, <<Connection(<<"up", "grade">>), Upgrade>>, "none", <<>>), Get>>,
   <<Message("CONNECT", Path(<<"x">>), <<>>, "none", <<>>)>>}

(* Two lengths, a length and chunks, lengths that are too large or not a   *)
(* number, which is found only when the header is too long already, a body *)
(* there is no room for, a header that is too long, and symbols out of     *)
(* place.                                                                  *)
Broken ==
  {<<Malformed(text)>> : text \in
     {GetLine \o Length(<<"1">>) \o Length(<<"2">>),
      GetLine \o Length(<<"1">>) \o InChunks \o Line(<<>>),
      GetLine \o Length(<<"1", "2", "0">>),
      GetLine \o Length(Append([i \in 1 .. 16 |-> "0"], "x")),
      GetLine \o Length(<<"9", "9">>) \o Line(<<>>) \o <<"x", "a">>,
      GetLine \o InChunks \o Line(<<>>) \o Line(<<"7", "0", "0">>),
      GetLine \o Length(<<>>) \o Line(<<>>),
      GetLine \o Line([i \in 1 .. 30 |-> "x"]),
      Line(<<"G", "ET", "SP", "x", ":", "/", "x", "SP">>),
      Line(<<"G", "ET", "SP", "/", "SP", "ICE", "/">>),
      Line(<<"P", "ET">>)}}

(* Folded lines, empty values and names that end early in an HTTP/0.9      *)
(* request, a control character, and chunks with parameters and a trailer. *)
Odd ==
  {<<Unusual(text)>> : text \in
     {<<"G", "ET", "SP", "/", "LF">> \o Line(<<"x", ":">>) \o Line(<<"con", "nection", ":", "TAB">>)
        \o Line(<<"TAB", "x", ",", "SP", "clo", "se">>) \o Line(<<"proxy-", "connection", ":", "up">>)
        \o <<"up", "con", ":", "LF", "SP", "x", "LF", "LF">>,
      GetLine \o Line(<<"x", ":", "x", "x", "ctl">>) \o Line(<<>>),
      GetLine \o Line(<<"transfer-", "encoding", ":", "chu", "nked", "SP">>) \o Line(<<>>)
        \o Line(<<"1", ";", "x">>) \o Line(<<"x">>) \o Line(<<"0">>)
        \o Line(<<"x", ":", "a">>) \o Line(<<>>)}}

Talks == WellFormed \cup Broken \cup Odd \cup {<<Get, Unusual(Line(<<>>)), Get>>}

Router == <<[methods |-> {"GET", "POST", "PUT"}, path |-> <<"/">>]>>
=============================================================================
