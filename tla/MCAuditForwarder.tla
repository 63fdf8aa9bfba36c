------------------------- MODULE MCAuditForwarder -------------------------
EXTENDS AuditForwarder, TLC
CONSTANTS p1, p2, p3
\* Requests are interchangeable: only their names tell them apart.
PutSymmetry == Permutations(Puts)
=============================================================================
