-------------------------- MODULE MCServiceManager --------------------------
(***************************************************************************)
(* Instances of ServiceManager for TLC.  Three modules in the shape of the *)
(* deployed ones: a block module, a transaction module that needs it (and  *)
(* that the block module needs in the cyclic instance), and a connector    *)
(* that needs the transaction role and offers none.                        *)
(***************************************************************************)
EXTENDS ServiceManager, TLC

CONSTANTS block, transaction, connector, rBlock, rTransaction

Offers ==
  [m \in Module |-> IF m = block THEN {rBlock}
                    ELSE IF m = transaction THEN {rTransaction} ELSE {}]

(* connector -> transaction -> block *)
ChainDependencies ==
  [m \in Module |-> IF m = connector THEN {rTransaction}
                    ELSE IF m = transaction THEN {rBlock} ELSE {}]

(* connector -> transaction <-> block *)
CyclicDependencies ==
  [m \in Module |-> IF m = connector THEN {rTransaction}
                    ELSE IF m = transaction THEN {rBlock} ELSE {rTransaction}]

Symmetry == Permutations(Conn) \cup Permutations(MessageID)
=============================================================================
