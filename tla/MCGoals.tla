------------------------------- MODULE MCGoals -------------------------------
(* Goals for TLC: model values from the configuration, and the todo lists   *)
(* the model may leave.                                                     *)
EXTENDS Goals

CONSTANTS f1, f2, g1, g2, r1, r2, s1, s2
AnyTodos == BOOLEAN
NoTodos == {FALSE}
=============================================================================
