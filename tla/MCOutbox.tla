------------------------------ MODULE MCOutbox ------------------------------
(* Instances of Outbox for TLC: one single-segment message between two     *)
(* two-segment ones.                                                       *)
EXTENDS Outbox

MCParts == [m \in Messages |-> IF m = 2 THEN 1 ELSE 2]
=============================================================================
