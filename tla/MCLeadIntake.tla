----------------------------- MODULE MCLeadIntake -----------------------------
(* Two leads, one of them delivered twice, perhaps of the same firm; two workers. *)
EXTENDS LeadIntake

CONSTANTS l1, l2, f1, w1, w2

MCLeads == {l1, l2}
MCFirms == {f1}
MCWorkers == {w1, w2}
MCHosts == [l \in MCLeads |-> IF l = l1 THEN {f1} ELSE {f1, None}]
MCMaxPosts == [l \in MCLeads |-> IF l = l1 THEN 2 ELSE 1]
=============================================================================
