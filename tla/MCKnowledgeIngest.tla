-------------------------- MODULE MCKnowledgeIngest --------------------------
(* Two notes and a message, two cycles of the poller and a gateway request. *)
EXTENDS KnowledgeIngest, TLC

CONSTANTS n1, n2, x1, x2, p1, p2, r1

MCNotes == {n1, n2}
MCTexts == {x1, x2}
MCPollers == {p1, p2}
MCRequests == {r1}

Symmetry == Permutations(MCNotes) \cup Permutations(MCTexts) \cup Permutations(MCPollers)
=============================================================================
