------------------------- MODULE MCOutreachPipeline -------------------------
(* Two firms competing for the one cold slot a third already holds, with two *)
(* decisions in progress at once. The two firms and the two decision slots   *)
(* are interchangeable and no property of these runs is a liveness property, *)
(* so both sets are symmetric.                                               *)
EXTENDS OutreachPipeline, TLC

CONSTANTS f0, f1, f2, d1, d2

MCFirms == {f0, f1, f2}
MCSeeded == {f0}
MCNone == {}
MCDecisions == {d1, d2}

Symmetry == Permutations({f1, f2}) \cup Permutations(MCDecisions)
=============================================================================
