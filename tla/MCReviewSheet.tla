---------------------------- MODULE MCReviewSheet ----------------------------
(* Three candidates of two segments, one never rated and ranked last; a window *)
(* of two rows, two to a card; corrections of the name with the confidence, or *)
(* of the address.                                                             *)
EXTENDS ReviewSheet

CONSTANTS r1, r2, r3, h1, h2

MCRows == {r1, r2, r3}
MCHands == {h1, h2}
MCFit == [r \in MCRows |-> CASE r = r1 -> 3 [] r = r2 -> 2 [] r = r3 -> 1]
MCSegment == [r \in MCRows |-> IF r = r3 THEN 2 ELSE 1]
MCScored == {1}
MCModals == {{"name", "confidence"}, {"address"}}
=============================================================================
