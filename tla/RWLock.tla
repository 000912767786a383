------------------------------- MODULE RWLock -------------------------------
(***************************************************************************)
(* What the store expects of its cancellable read-write mutex (Store.mu    *)
(* and rhizaSQL.trustMu): any number of readers or a single writer, and a  *)
(* release ends exactly one holding.  Waiting and cancellation are not     *)
(* visible here.                                                           *)
(***************************************************************************)
CONSTANT Proc

VARIABLES reading, writing   \* the processes that hold the lock

Init == reading = {} /\ writing = {}

AcquireRead(p) ==
    /\ writing = {} /\ p \notin reading
    /\ reading' = reading \cup {p}
    /\ UNCHANGED writing

ReleaseRead(p) ==
    /\ p \in reading
    /\ reading' = reading \ {p}
    /\ UNCHANGED writing

AcquireWrite(p) ==
    /\ reading = {} /\ writing = {}
    /\ writing' = {p}
    /\ UNCHANGED reading

ReleaseWrite(p) ==
    /\ writing = {p}
    /\ writing' = {}
    /\ UNCHANGED reading

Next == \E p \in Proc : AcquireRead(p) \/ ReleaseRead(p) \/ AcquireWrite(p) \/ ReleaseWrite(p)

Spec == Init /\ [][Next]_<<reading, writing>>
=============================================================================
