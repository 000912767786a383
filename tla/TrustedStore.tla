----------------------------- MODULE TrustedStore -----------------------------
(***************************************************************************)
(* What the trust fence promises the store's clients, with no anchor,      *)
(* database, version or crash in sight: one store, in which writes are     *)
(* decided one after the other and for good, and whose reads see all of    *)
(* the decided writes and nothing else.                                    *)
(*                                                                         *)
(* Only what clients can tell apart is here.  Operations that fail leave   *)
(* no trace, except a write that stays in doubt.                           *)
(***************************************************************************)
CONSTANTS
    WriteId,  \* ids of writes; one of them may be the migration of the schema
    None,
    Reader    \* those who may hold the answer of a read

VARIABLES
    settled,  \* writes that took effect
    doubt,    \* the write that has begun and is not decided, or None
    told,     \* writes some client knows to have taken effect
    answer    \* the rows each reader is about to return

vars == <<settled, doubt, told, answer>>

Init ==
    /\ settled = {} /\ doubt = None /\ told = {}
    /\ answer = [r \in Reader |-> {}]

\* Answers are returned, or lost with their process, at any time.
Return == \E gone \in SUBSET Reader :
    answer' = [r \in Reader |-> IF r \in gone THEN {} ELSE answer[r]]

\* One write at a time, and none that was decided before.
Begin(w) ==
    /\ doubt = None /\ w \notin settled
    /\ doubt' = w
    /\ UNCHANGED <<settled, told>>

\* The write in doubt takes effect, and its client may learn of it.
Accept ==
    /\ doubt # None
    /\ doubt' = None
    /\ settled' = settled \cup {doubt}
    /\ told' \in {told, told \cup {doubt}}

\* It never will.
Reject ==
    /\ doubt # None
    /\ doubt' = None
    /\ UNCHANGED <<settled, told>>

\* A read is answered while no write is in doubt.  It sees everything that took
\* effect; the migration of the schema has no rows.
Respond(r) == \E schema \in settled \cup {None} :
    LET seen == settled \ {schema} IN
    /\ doubt = None /\ told \subseteq seen
    /\ answer' = [answer EXCEPT ![r] = seen]
    /\ told' = seen
    /\ UNCHANGED <<settled, doubt>>

Next ==
    \/ ((\E w \in WriteId : Begin(w)) \/ Accept \/ Reject \/ UNCHANGED <<settled, doubt, told>>)
       /\ Return
    \/ \E r \in Reader : Respond(r)

Spec == Init /\ [][Next]_vars
=============================================================================
