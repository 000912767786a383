------------------------------ MODULE MCKeySync ------------------------------
(* Small instances of KeySync.                                              *)
EXTENDS KeySync, TLC

CONSTANTS m1, m2, u1, u2, g1, g2, g3

GrantSymmetry == Permutations(Grant)
Symmetry == Permutations(Grant) \cup Permutations(Node)
=============================================================================
