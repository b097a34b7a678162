------------------------------ MODULE MCTodoSync ------------------------------
(* One to-do, one initiative, two overlapping sync cycles. *)
EXTENDS TodoSync

CONSTANTS k1, g1, y1, y2

MCCards == {k1}
MCInitiatives == {g1}
MCSyncs == {y1, y2}
=============================================================================
