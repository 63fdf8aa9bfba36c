------------------------------ MODULE MCRoster ------------------------------
(* Instances of Roster for TLC. *)
EXTENDS Roster
CONSTANTS c1, c2, c3, r1, r2, r3
=============================================================================
