------------------------------ MODULE CtxRWMutex ------------------------------
(***************************************************************************)
(* ctxRWMutex: a read-write mutex whose acquisition honours context        *)
(* cancellation.  Waiters sleep on a broadcast channel; waiting writers    *)
(* keep new readers out.                                                   *)
(*                                                                         *)
(* Each section under the inner mutex mu is one step.  Between two of them *)
(* a goroutine may be anywhere: woken but not yet in the next section, or  *)
(* cancelled but still counted as a waiting writer.  A channel is modelled *)
(* by what its waiter can observe: whether the one it captured is closed.  *)
(***************************************************************************)
EXTENDS Integers, FiniteSets

CONSTANTS
    Proc,      \* goroutines that use the mutex
    CanRead,   \* those that call RLock
    CanWrite   \* those that call Lock

ASSUME ProcAssumption == IsFiniteSet(Proc) /\ CanRead \subseteq Proc /\ CanWrite \subseteq Proc

VARIABLES
    readers, writer, wwaiting,   \* the fields of the struct
    closed,                      \* processes whose captured channel is closed
    pc

vars == <<readers, writer, wwaiting, closed, pc>>

ReaderPC == {"r_try", "r_wait", "reading"}
QueuedPC == {"w_wait", "w_retry", "w_cancel"}   \* counted in wwaiting
PC == {"idle", "w_try", "writing"} \cup ReaderPC \cup QueuedPC

Waiting(p) == pc[p] \in {"r_wait", "w_wait"}
At(label)  == {p \in Proc : pc[p] = label}
Queued     == {p \in Proc : pc[p] \in QueuedPC}

TypeOK ==
    /\ readers \in Nat /\ wwaiting \in Nat /\ writer \in BOOLEAN
    /\ closed \subseteq Proc
    /\ pc \in [Proc -> PC]

Init ==
    /\ readers = 0 /\ wwaiting = 0 /\ writer = FALSE
    /\ closed = {}
    /\ pc = [p \in Proc |-> "idle"]

-----------------------------------------------------------------------------

Goto(p, label) == pc' = [pc EXCEPT ![p] = label]

\* close(m.notify) and a new channel: everyone asleep now is on the old one.
Broadcast == closed' = closed \cup {p \in Proc : Waiting(p)}

\* ch := m.notify, the channel that is open now.
Capture(p) == closed' = closed \ {p}

\* A caller enters RLock or Lock.
Call(p) ==
    /\ pc[p] = "idle"
    /\ \/ p \in CanRead /\ Goto(p, "r_try")
       \/ p \in CanWrite /\ Goto(p, "w_try")
    /\ UNCHANGED <<readers, writer, wwaiting, closed>>

\* Mutant: only a writer that holds the lock keeps new readers out.
RLockBarging(p) ==
    /\ pc[p] = "r_try"
    /\ \/ ~writer /\ readers' = readers + 1 /\ Goto(p, "reading") /\ UNCHANGED closed
       \/ writer /\ Capture(p) /\ Goto(p, "r_wait") /\ UNCHANGED readers
    /\ UNCHANGED <<writer, wwaiting>>

RLock(p) ==
    /\ pc[p] = "r_try"
    /\ \/ /\ ~writer /\ wwaiting = 0
          /\ readers' = readers + 1
          /\ Goto(p, "reading")
          /\ UNCHANGED closed
       \/ /\ writer \/ wwaiting # 0
          /\ Capture(p)
          /\ Goto(p, "r_wait")
          /\ UNCHANGED readers
    /\ UNCHANGED <<writer, wwaiting>>

RUnlock(p) ==
    /\ pc[p] = "reading"
    /\ readers' = readers - 1
    /\ IF readers' = 0 THEN Broadcast ELSE UNCHANGED closed
    /\ Goto(p, "idle")
    /\ UNCHANGED <<writer, wwaiting>>

\* Mutant: a writer that finds only readers does not wait for them.
LockOverReaders(p) ==
    /\ pc[p] = "w_try" /\ ~writer
    /\ writer' = TRUE
    /\ Goto(p, "writing")
    /\ UNCHANGED <<readers, wwaiting, closed>>

\* The first section of Lock: it ignores writers that already wait.
Lock(p) ==
    /\ pc[p] = "w_try"
    /\ \/ /\ ~writer /\ readers = 0
          /\ writer' = TRUE
          /\ Goto(p, "writing")
          /\ UNCHANGED <<wwaiting, closed>>
       \/ /\ writer \/ readers # 0
          /\ wwaiting' = wwaiting + 1
          /\ Capture(p)
          /\ Goto(p, "w_wait")
          /\ UNCHANGED writer
    /\ UNCHANGED readers

\* Mutant: a writer that gets in after waiting stays counted as waiting.
LockAgainCounted(p) ==
    /\ pc[p] = "w_retry"
    /\ ~writer /\ readers = 0
    /\ writer' = TRUE
    /\ Goto(p, "writing")
    /\ UNCHANGED <<readers, wwaiting, closed>>

\* The section after a wake-up of Lock.
LockAgain(p) ==
    /\ pc[p] = "w_retry"
    /\ \/ /\ ~writer /\ readers = 0
          /\ writer' = TRUE
          /\ wwaiting' = wwaiting - 1
          /\ Goto(p, "writing")
          /\ UNCHANGED closed
       \/ /\ writer \/ readers # 0
          /\ Capture(p)
          /\ Goto(p, "w_wait")
          /\ UNCHANGED <<writer, wwaiting>>
    /\ UNCHANGED readers

Unlock(p) ==
    /\ pc[p] = "writing"
    /\ writer' = FALSE
    /\ Broadcast
    /\ Goto(p, "idle")
    /\ UNCHANGED <<readers, wwaiting>>


\* The select: the captured channel is closed, or the context is done.
Wake(p) ==
    /\ Waiting(p) /\ p \in closed
    /\ Goto(p, IF pc[p] = "r_wait" THEN "r_try" ELSE "w_retry")
    /\ UNCHANGED <<readers, writer, wwaiting, closed>>


Done(p) ==
    /\ Waiting(p)
    /\ Goto(p, IF pc[p] = "r_wait" THEN "idle" ELSE "w_cancel")
    /\ UNCHANGED <<readers, writer, wwaiting, closed>>

\* Mutant: a cancelled writer leaves without waking the readers it kept out.
CancelSilent(p) ==
    /\ pc[p] = "w_cancel"
    /\ wwaiting' = wwaiting - 1
    /\ Goto(p, "idle")
    /\ UNCHANGED <<readers, writer, closed>>

\* A cancelled writer leaves the queue; the last one out wakes the readers
\* that waited for it alone.
Cancel(p) ==
    /\ pc[p] = "w_cancel"
    /\ wwaiting' = wwaiting - 1
    /\ IF wwaiting' = 0 THEN Broadcast ELSE UNCHANGED closed
    /\ Goto(p, "idle")
    /\ UNCHANGED <<readers, writer>>

-----------------------------------------------------------------------------

\* What the runtime and the critical sections of the callers will finish.
Progress(p) ==
    \/ RLock(p) \/ RUnlock(p) \/ Lock(p) \/ LockAgain(p) \/ Unlock(p)
    \/ Wake(p) \/ Cancel(p)

Next == \E p \in Proc : Call(p) \/ Progress(p) \/ Done(p)

Spec == Init /\ [][Next]_vars

\* Goroutines are scheduled and every holder releases; callers need not come
\* and contexts need not expire.
FairSpec == Spec /\ \A p \in Proc : WF_vars(Progress(p))

-----------------------------------------------------------------------------
(* Properties                                                              *)

\* The fields count what they stand for: a cancelled or woken waiter, wherever
\* it is between two sections, is counted exactly once, and a held lock has
\* exactly the holders the fields say.
Counted ==
    /\ readers = Cardinality(At("reading"))
    /\ wwaiting = Cardinality(Queued)
    /\ writer <=> At("writing") # {}

\* No lost wake-up: whoever sleeps on an open channel still has somebody to
\* wait for, an owner or, for a reader, a queued writer.
SleepersHaveCause ==
    \A p \in Proc \ closed :
        /\ pc[p] = "r_wait" => writer \/ wwaiting # 0
        /\ pc[p] = "w_wait" => writer \/ readers # 0

\* The mutex implements the abstract lock: any number of readers, or one writer.
Holding == INSTANCE RWLock WITH reading <- At("reading"), writing <- At("writing")
ImplementsRWLock == Holding!Spec

\* A sleeper does not sleep forever while no writer holds the lock: it leaves
\* its wait, or a writer got in.
QueueMoves ==
    \A p \in Proc : Waiting(p) ~> (~Waiting(p) \/ At("writing") # {})

\* Readers, however many and however often they come, do not starve the
\* writers: while a writer waits, new readers are kept out until some writer
\* gets in or the waiting one gives up.
WriterNotStarved ==
    \A p \in CanWrite : pc[p] = "w_wait" ~> pc[p] = "w_cancel" \/ At("writing") # {}

\* Nobody starves: a sleeper moves on unless a writer gets in, and a waiting
\* writer is not overtaken by readers for ever.
NobodyStarves == QueueMoves /\ WriterNotStarved
=============================================================================
