------------------------------ MODULE MCSyncLock ------------------------------
(* Small instances of SyncLock.                                              *)
EXTENDS SyncLock

CONSTANTS a, b, c

\* Three processes under flock, and a Windows agent on its own.
Sound == {[windows |-> FALSE, procs |-> {a, b, c}], [windows |-> TRUE, procs |-> {a}]}
=============================================================================
