--------------------------- MODULE MCLocalPreflight ---------------------------
(* Two roots: Local on both, legacy and a manual Local run on the first.      *)
EXTENDS LocalPreflight

Deployments ==
    {[mode |-> "local", root |-> "r1", init |-> TRUE],
     [mode |-> "local", root |-> "r1", init |-> FALSE],
     [mode |-> "legacy", root |-> "r1", init |-> FALSE],
     [mode |-> "local", root |-> "r2", init |-> TRUE]}
=============================================================================
