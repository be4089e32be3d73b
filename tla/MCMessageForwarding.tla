------------------------ MODULE MCMessageForwarding -------------------------
(***************************************************************************)
(* Instances of MessageForwarding for TLC: a public method that two        *)
(* modules offer and an administrators' method that one does.              *)
(***************************************************************************)
EXTENDS MessageForwarding

CONSTANTS ListAPIMethod, open, reserved, h1, h2, w1, w2, m1, m2

Scopes ==
  [m \in {ListAPIMethod, open, reserved} |-> IF m = reserved THEN "Admin" ELSE "Public"]

ModuleMethods == [m \in Module |-> IF m = m1 THEN {open, reserved} ELSE {open}]

Channels == [r \in WsRequest |-> IF r = w1 THEN "Admin" ELSE "Client"]

Query(methods, counter, minEvent) ==
  [methods |-> methods, counter |-> counter, minEvent |-> minEvent, valid |-> TRUE]

(* Over HTTP come subscriptions, requests without methods and ones that    *)
(* are no messages; WebSocket clients ask for two methods or for one they  *)
(* may not use, subscribe, or name a minimum.                              *)
HttpQueries ==
  [r \in Request |->
     CASE r = h1 -> {Query({open}, 0, 0), Query({open}, 1, 0), Query({}, 0, 0)}
       [] r = h2 -> {Query({open}, 0, 0), Query({reserved}, 0, 0), Malformed}
       [] OTHER  -> {Query({open}, 0, 0)}]

WsQueries ==
  [r \in Request |->
     IF r = w1 THEN {Query({open}, 0, 0), Query({ListAPIMethod, reserved}, 0, 0)}
     ELSE {Query({reserved}, 0, 0), Query({open}, 1, 0), Query({open}, 0, 1)}]
=============================================================================
