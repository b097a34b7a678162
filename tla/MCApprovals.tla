---------------------------- MODULE MCApprovals -----------------------------
(* A small instance of Approvals. Rows meet only in the poll's batch and the *)
(* clicks on one row never touch another, so one row with two concurrent     *)
(* interactions, a stranger beside the operator and several faults reaches   *)
(* every race; the cfg says whether the item type is high-consequence.       *)
EXTENDS Approvals

CONSTANTS r1, i1, i2, op, stranger

MCRows == {r1}
MCNone == {}
MCUsers == {op, stranger}
MCInteractions == {i1, i2}
=============================================================================
