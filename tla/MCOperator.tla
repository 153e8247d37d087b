----------------------------- MODULE MCOperator -----------------------------
(* A small instance of Operator. *)
EXTENDS Operator

CONSTANTS p1, s1, s2, right

MCPairs == {p1}
MCSessions == {s1, s2}
MCPasswords == {right, NoPass}
=============================================================================
