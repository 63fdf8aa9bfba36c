-------------------------- MODULE MCEvacuationPlan --------------------------
(***************************************************************************)
(* Three nodes, three guests: the first node has a big and a small one,    *)
(* the second a small one, the third is nearly full and hosts nothing.     *)
(***************************************************************************)
EXTENDS EvacuationPlan

CONSTANTS n1, n2, n3, g1, g2, g3

MCMem     == [g \in Guests |-> IF g = g1 THEN 2 ELSE 1]
MCHome    == [g \in Guests |-> IF g = g3 THEN n2 ELSE n1]
MCSize    == [n \in Nodes |-> IF n = n2 THEN 5 ELSE 4]
MCReserve == [n \in Nodes |-> 1]
MCUsed0   == [n \in Nodes |-> CASE n = n1 -> 3 [] n = n2 -> 1 [] n = n3 -> 2]
MCLegal   == [g \in Guests |-> IF g = g2 THEN {n1, n2} ELSE Nodes]

\* The cache may be of any age unless guests are migrated back.
Careful == {[back |-> FALSE, fresh |-> FALSE], [back |-> TRUE, fresh |-> TRUE]}
Hasty   == {[back |-> TRUE, fresh |-> FALSE]}
=============================================================================
