---------------------------- MODULE MCContentPoll ----------------------------
(* Two cycles over a feed of three items, one of them without text. *)
EXTENDS ContentPoll

CONSTANTS s1, t1, c1, c2

MCSources == {s1}
MCHome == [i \in 1..N |-> s1]
MCTopics == {t1}
MCRelevance == [i \in 1..N |-> [t \in MCTopics |-> IF i = 1 THEN 2 ELSE 1]]
MCHostile == {3}
MCUnreadable == {2}
MCCycles == {c1, c2}
=============================================================================
