---------------------------- MODULE MCSourcingRun ---------------------------
(* Two in-list firms, interchangeable (no liveness is checked, so symmetry   *)
(* is sound), one outside the list, and two cards to aim for: a round plans  *)
(* up to three briefs, so it can pass the target, and half may explore.      *)
EXTENDS SourcingRun, TLC

CONSTANTS a1, a2, b1

MCFirms == {a1, a2, b1}
MCOutOfList == {b1}

Symmetry == Permutations({a1, a2}) 
=============================================================================
