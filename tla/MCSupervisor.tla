----------------------------- MODULE MCSupervisor -----------------------------
(* A small instance of Supervisor.                                           *)
EXTENDS Supervisor

\* A right clock, and one that is fast beyond the window.
Clocks == {0, 2}
=============================================================================
