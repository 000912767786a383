------------------------------ MODULE MCSessions ------------------------------
(* Small instances of Sessions.                                              *)
EXTENDS Sessions, TLC

CONSTANTS n1, n2, l1, l2

\* The nodes' clocks are as far apart as the retention allows.
Apart == (n1 :> 0) @@ (n2 :> Retention)
=============================================================================
