--------------------------- MODULE MCHostUpgrade ---------------------------
(***************************************************************************)
(* Instances of HostUpgrade for TLC: two nodes; the first is home to a     *)
(* guest of ours and to one of the HA manager, the second to one of ours.  *)
(***************************************************************************)
EXTENDS HostUpgrade

CONSTANTS n1, n2, g1, g2, g3

MCHome == [g \in Guests |-> IF g = g3 THEN n2 ELSE n1]
Option(mode, back, hosts) ==
  [ mode |-> mode, back |-> back, ceph |-> TRUE, exclude |-> {},
    manual |-> [n \in Nodes |-> IF n = n1 THEN n2 ELSE NoNode], hosts |-> hosts ]

Back == {Option("auto", TRUE, <<n1, n2>>)}
One  == {Option("auto", TRUE, <<n1>>)}
Two  == {Option("auto", TRUE, <<n1>>), Option("auto", TRUE, <<n2>>)}
\* Every mode, with and without migrating back, and an excluded target.
Sweeps ==
  Back \cup {Option("auto", FALSE, <<n2, n1>>), Option("manual", TRUE, <<n1, n2>>),
             Option("in_place", TRUE, <<n1, n2>>),
             [Option("auto", TRUE, <<n1, n2>>) EXCEPT !.exclude = {n2}]}
=============================================================================
