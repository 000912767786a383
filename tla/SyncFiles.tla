------------------------------ MODULE SyncFiles ------------------------------
(***************************************************************************)
(* The two files an agent's key synchronization replaces, each known by    *)
(* the generation it holds, and what every synchronization owes them.      *)
(***************************************************************************)
EXTENDS Naturals

VARIABLES file, state   \* generations of authorized_keys and of the state file

\* The state file claims no generation that is not installed.
ClaimIsInstalled == state <= file

\* Two synchronizations never make the installed keys go back to an earlier
\* snapshot, nor the state file run ahead of them: a process that passed the
\* generation check of syncAuthorizedKeys is still entitled to write when it
\* writes, and one that dies between the two renames leaves the claim true.
SyncNeverRollsBack == [][file' >= file /\ ClaimIsInstalled']_<<file, state>>
=============================================================================
