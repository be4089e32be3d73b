------------------------------- MODULE HttpUrl -------------------------------
(***************************************************************************)
(* http_parser's URL machine: the character classes, parse_url_char (one   *)
(* step, which HttpParser takes as well), and http_parser_parse_url, which *)
(* cuts a whole URL into its fields.                                       *)
(*                                                                         *)
(* A string is a sequence of symbols.  A symbol stands for a character, or *)
(* for a piece of a word that the parser knows ("con", "nection"), so that *)
(* input can be cut within words as well; control characters other than    *)
(* CR, LF and TAB are "ctl", case is left out.  The build is strict.        *)
(***************************************************************************)
EXTENDS Naturals, Sequences

Number == [d \in {"0", "1", "2", "3", "4", "5", "6", "7", "8", "9"} |->
             CASE d = "0" -> 0 [] d = "1" -> 1 [] d = "2" -> 2 [] d = "3" -> 3
               [] d = "4" -> 4 [] d = "5" -> 5 [] d = "6" -> 6 [] d = "7" -> 7
               [] d = "8" -> 8 [] d = "9" -> 9]

(* IS_NUM, and the letters: x stands for those that are no hex digits. *)
Num == DOMAIN Number

(* The pieces of methods, header names and header values. *)
Words == {"G", "ET", "P", "OST", "UT", "C", "ONNECT", "S", "OURCE", "HT", "TP", "ICE",
          "con", "nection", "up", "grade", "encoding", "connection",
          "chu", "nked", "kee", "clo", "se", "ho", "st"}
Alpha == {"a", "x"} \cup Words
AlphaNum == Alpha \cup Num
Hex == Num \cup {"a"}

Mark == {"-", "_", ".", "~", "*"}
UserInfoChar == AlphaNum \cup Mark \cup {"%", ":", ",", ";"}
HostChar == AlphaNum \cup {".", "-"}

(* tokens: what a header name is made of. *)
Token == AlphaNum \cup Mark \cup {"%", "#", "tent-length", "transfer-", "proxy-", "p-alive"}

Separator == {"/", ":", "?", "@", "[", "]", ",", ";"}
UrlChar == (Token \cup Separator) \ {"?", "#"}
Blank == {"SP", "TAB", "CR", "LF"}
Symbol == Token \cup Separator \cup Blank \cup {"ctl"}

-----------------------------------------------------------------------------

(* One character of a URL; "dead" is an error. *)
parse_url_char(s, ch) ==
  CASE s = "req_spaces_before_url" /\ ch \in {"/", "*"}      -> "req_path"
    [] s = "req_spaces_before_url" /\ ch \in Alpha           -> "req_schema"
    [] s = "req_schema" /\ ch \in Alpha                      -> "req_schema"
    [] s = "req_schema" /\ ch = ":"                          -> "req_schema_slash"
    [] s = "req_schema_slash" /\ ch = "/"                    -> "req_schema_slash_slash"
    [] s = "req_schema_slash_slash" /\ ch = "/"              -> "req_server_start"
    [] s \in {"req_server_with_at", "req_server_start", "req_server"} ->
         CASE ch = "/" -> "req_path"
           [] ch = "?" -> "req_query_string_start"
           [] ch = "@" /\ s # "req_server_with_at" -> "req_server_with_at"
           [] ch \in UserInfoChar \cup {"[", "]"} -> "req_server"
           [] OTHER    -> "dead"
    [] s = "req_path" /\ ch \in UrlChar                      -> "req_path"
    [] s = "req_path" /\ ch = "?"                            -> "req_query_string_start"
    [] s \in {"req_query_string_start", "req_query_string"} /\ ch \in UrlChar \cup {"?"}
                                                             -> "req_query_string"
    [] s \in {"req_path", "req_query_string_start", "req_query_string"} /\ ch = "#"
                                                             -> "req_fragment_start"
    [] s = "req_fragment_start" /\ ch = "#"                  -> "req_fragment_start"
    [] s = "req_fragment_start" /\ ch \in UrlChar \cup {"?"} -> "req_fragment"
    [] s = "req_fragment" /\ ch \in UrlChar \cup {"?", "#"}  -> "req_fragment"
    [] OTHER -> "dead"

(* One character of what stands between "//" and the path. *)
http_parse_host_char(s, ch) ==
  CASE s \in {"userinfo", "userinfo_start"} /\ ch = "@"            -> "host_start"
    [] s \in {"userinfo", "userinfo_start"} /\ ch \in UserInfoChar -> "userinfo"
    [] s = "host_start" /\ ch = "["                                -> "host_v6_start"
    [] s \in {"host_start", "host"} /\ ch \in HostChar             -> "host"
    [] s \in {"host", "host_v6_end"} /\ ch = ":"                   -> "host_port_start"
    [] s \in {"host_v6", "host_v6_zone"} /\ ch = "]"               -> "host_v6_end"
    [] s \in {"host_v6", "host_v6_start"} /\ ch \in Hex \cup {":", "."} -> "host_v6"
    [] s = "host_v6" /\ ch = "%"                                   -> "host_v6_zone_start"
    [] s \in {"host_v6_zone", "host_v6_zone_start"}
         /\ ch \in AlphaNum \cup {"%", ".", "-", "_", "~"}         -> "host_v6_zone"
    [] s \in {"host_port", "host_port_start"} /\ ch \in Num        -> "host_port"
    [] OTHER -> "host_dead"

(* The field of the URL that a character belongs to after which the host   *)
(* machine is in a given state; a zone belongs to the host.                *)
HostField(s) ==
  CASE s \in {"host", "host_v6", "host_v6_zone_start", "host_v6_zone"} -> "host"
    [] s = "host_port" -> "port"
    [] s = "userinfo"  -> "userinfo"
    [] OTHER           -> "none"

EmptyFields == [f \in {"schema", "host", "port", "path", "query", "fragment", "userinfo"} |-> <<>>]

Put(fields, f, ch) == IF f = "none" THEN fields ELSE [fields EXCEPT ![f] = Append(@, ch)]

(* The host field is cut into user information, host and port. *)
http_parse_host(fields, found_at) ==
  LET buf == fields.host
      run[i \in 0 .. Len(buf)] ==
        IF i = 0
        THEN [s      |-> IF found_at THEN "userinfo_start" ELSE "host_start",
              fields |-> [fields EXCEPT !.host = <<>>]]
        ELSE LET last == run[i - 1]
                 new  == http_parse_host_char(last.s, buf[i])
             IN  [s |-> new, fields |-> Put(last.fields, HostField(new), buf[i])]
      end == run[Len(buf)]
  IN  [fields |-> end.fields, failed |-> end.s \notin {"host", "host_v6_end", "host_port"}]

(* The field of the URL that a character belongs to after which the URL    *)
(* machine is in a given state.                                            *)
UrlField(s) ==
  CASE s = "req_schema"       -> "schema"
    [] s \in {"req_server", "req_server_with_at"} -> "host"
    [] s = "req_path"         -> "path"
    [] s = "req_query_string" -> "query"
    [] s = "req_fragment"     -> "fragment"
    [] OTHER                  -> "none"

(* The value of a port; it is not read on once it exceeds 16 bits. *)
PortValue(digits) ==
  LET v[i \in 0 .. Len(digits)] ==
        IF i = 0 THEN 0
        ELSE IF v[i - 1] > 65535 THEN v[i - 1] ELSE 10 * v[i - 1] + Number[digits[i]]
  IN  v[Len(digits)]

(***************************************************************************)
(* http_parser_parse_url.  A field is set if it has characters, because a  *)
(* field starts with its first character.                                  *)
(***************************************************************************)
http_parser_parse_url(buf, is_connect) ==
  LET run[i \in 0 .. Len(buf)] ==
        IF i = 0
        THEN [s        |-> IF is_connect THEN "req_server_start" ELSE "req_spaces_before_url",
              fields   |-> EmptyFields,
              found_at |-> FALSE]
        ELSE LET last == run[i - 1]
                 new  == parse_url_char(last.s, buf[i])
             IN  [s        |-> new,
                  fields   |-> Put(last.fields, UrlField(new), buf[i]),
                  found_at |-> last.found_at \/ new = "req_server_with_at"]
      end  == run[Len(buf)]
      host == IF end.fields.host = <<>> THEN [fields |-> end.fields, failed |-> FALSE]
              ELSE http_parse_host(end.fields, end.found_at)
      set  == {f \in DOMAIN host.fields : host.fields[f] # <<>>}
  IN  [fields |-> host.fields,
       failed |-> \/ buf = <<>>
                  \/ end.s = "dead"
                  \/ end.fields.schema # <<>> /\ end.fields.host = <<>>
                  \/ host.failed
                  \/ is_connect /\ set # {"host", "port"}
                  \/ PortValue(host.fields.port) > 65535]
=============================================================================
