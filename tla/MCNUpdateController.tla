------------------------ MODULE MCNUpdateController ------------------------
(***************************************************************************)
(* An instance of NUpdateController for TLC: three downloads at a time     *)
(* leave one number more than the two ids can use.                         *)
(***************************************************************************)
EXTENDS NUpdateController

Replies == 1 .. 3
=============================================================================
