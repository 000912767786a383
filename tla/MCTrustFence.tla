----------------------------- MODULE MCTrustFence -----------------------------
(* Small instances of TrustFence.                                            *)
EXTENDS TrustFence, TLC

CONSTANTS n1, n2, u1, u2, u3, u4

\* Nodes and ids are interchangeable where the instance treats them alike.
Symmetry == Permutations(Node) \cup Permutations(Id)
=============================================================================
