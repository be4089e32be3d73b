----------------------------- MODULE Forwarding -----------------------------
(***************************************************************************)
(* What the system promises a client that asks for methods of modules,     *)
(* without processes, queues, entries or reconnections.                    *)
(*                                                                         *)
(* A method that is asked for runs once at most, well or not, or is        *)
(* refused without running, and is then answered.  Data comes only from a  *)
(* method that ran well.  Nothing is answered twice, and what is under way *)
(* is lost only if a connection was.                                       *)
(***************************************************************************)

CONSTANT Id       \* a request and one of its methods

VARIABLES
  fate,           \* what has become of each
  failed          \* a connection was lost

vars == <<fate, failed>>

Init ==
  /\ fate = [id \in Id |-> "unasked"]
  /\ failed = FALSE

(* A request: methods are refused at once, or their requests are under way *)
(* or, after a failure, lost.                                              *)
Ask(refused, asked, outcome) ==
  /\ \A id \in refused \cup asked : fate[id] = "unasked"
  /\ outcome = "asked" \/ (outcome = "lost" /\ failed)
  /\ fate' = [id \in Id |-> IF id \in refused THEN "refused"
                            ELSE IF id \in asked THEN outcome ELSE fate[id]]
  /\ UNCHANGED failed

(* It runs, well or not, or is refused without running. *)
Run(id, outcome) ==
  /\ fate[id] = "asked"
  /\ fate' = [fate EXCEPT ![id] = outcome]
  /\ UNCHANGED failed

Answer(id) ==
  /\ fate[id] \in {"succeeded", "failed"}
  /\ fate' = [fate EXCEPT ![id] = IF fate[id] = "succeeded" THEN "served" ELSE "refused"]
  /\ UNCHANGED failed

(* The connection is lost, or found to have been. *)
Lose(ids) ==
  /\ \A id \in ids : fate[id] \in {"asked", "succeeded", "failed"}
  /\ fate' = [id \in Id |-> IF id \in ids THEN "lost" ELSE fate[id]]
  /\ failed' = TRUE

Next ==
  \/ \E refused, asked \in SUBSET {id \in Id : fate[id] = "unasked"} :
       \E outcome \in {"asked", "lost"} : Ask(refused, asked, outcome)
  \/ \E id \in Id : \E outcome \in {"succeeded", "failed"} : Run(id, outcome)
  \/ \E id \in Id : Answer(id)
  \/ \E ids \in SUBSET Id : Lose(ids)

Spec == Init /\ [][Next]_vars
=============================================================================
