------------------------- MODULE MCNWebSocketServer -------------------------
(***************************************************************************)
(* Instances of NWebSocketServer for TLC: a few peers and few milliseconds.*)
(***************************************************************************)
EXTENDS NWebSocketServer, TLC

Clock == 1 .. 4

Symmetry == Permutations(Peer)
=============================================================================
