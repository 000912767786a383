--------------------------- MODULE LockProofs ---------------------------
(***************************************************************************)
(* Proofs about the program's two locks: ctxRWMutex for any finite set of  *)
(* goroutines, and the lock around the agent's key synchronization for any *)
(* number of processes, generations and faults.                            *)
(*                                                                         *)
(* For the mutex the inductive invariant adds to the counters the mutual   *)
(* exclusion they are meant to enforce; the refinement of RWLock follows   *)
(* from it.  For the synchronization, what keeps the files right is that   *)
(* one process at a time is between acquisition and release, and that what *)
(* it fetched is at least as new as the file it is about to replace.       *)
(***************************************************************************)
EXTENDS CtxRWMutex, SyncFiles, FiniteSetTheorems, TLAPS

\* Who holds the lock in write mode holds it alone.
Exclusive ==
    \A p, q \in Proc : pc[p] = "writing" /\ pc[q] \in {"writing", "reading"} => p = q

IInv == TypeOK /\ Counted /\ Exclusive /\ SleepersHaveCause

One(b) == IF b THEN 1 ELSE 0

-----------------------------------------------------------------------------
(* Counting goroutines by where they are                                   *)

\* The sets the counters stand for are finite.
LEMMA FiniteParts ==
    /\ \A k : IsFiniteSet(At(k)) /\ Cardinality(At(k)) \in Nat
    /\ IsFiniteSet(Queued) /\ Cardinality(Queued) \in Nat
<1>1. \A k : At(k) \in SUBSET Proc
  BY DEF At
<1>2. Queued \in SUBSET Proc
  BY DEF Queued
<1> QED
  BY <1>1, <1>2, FS_Subset, FS_CardinalityType, ProcAssumption

\* What a goroutine's move does to the size of a set it may leave or enter.
LEMMA CountMove ==
    ASSUME NEW S, NEW T, NEW p, IsFiniteSet(S),
           \/ T = S \cup {p}
           \/ T = S \ {p}
    PROVE  Cardinality(T) = Cardinality(S) + One(p \in T) - One(p \in S)
<1>1. Cardinality(S) \in Nat
  BY FS_CardinalityType
<1>2. CASE T = S \cup {p}
  BY <1>1, <1>2, FS_AddElement DEF One
<1>3. CASE T = S \ {p}
  BY <1>1, <1>3, FS_RemoveElement DEF One
<1> QED
  BY <1>2, <1>3

\* Goto(p, l) changes the two counted sets by p alone.
LEMMA GotoCounts ==
    ASSUME TypeOK, NEW p \in Proc, NEW l \in PC, Goto(p, l)
    PROVE  /\ pc' \in [Proc -> PC]
           /\ pc'[p] = l /\ \A q \in Proc \ {p} : pc'[q] = pc[q]
           /\ Cardinality(At("reading")') = Cardinality(At("reading"))
                  + One(l = "reading") - One(pc[p] = "reading")
           /\ Cardinality(Queued') = Cardinality(Queued)
                  + One(l \in QueuedPC) - One(pc[p] \in QueuedPC)
<1>1. pc' \in [Proc -> PC] /\ pc'[p] = l /\ \A q \in Proc \ {p} : pc'[q] = pc[q]
  BY DEF TypeOK, Goto
<1>2. At("reading")' = IF l = "reading" THEN At("reading") \cup {p} ELSE At("reading") \ {p}
  BY <1>1 DEF At
<1>3. Queued' = IF l \in QueuedPC THEN Queued \cup {p} ELSE Queued \ {p}
  BY <1>1 DEF Queued
<1>4. /\ p \in At("reading")' <=> l = "reading"
      /\ p \in At("reading") <=> pc[p] = "reading"
      /\ p \in Queued' <=> l \in QueuedPC
      /\ p \in Queued <=> pc[p] \in QueuedPC
  BY <1>1 DEF At, Queued
<1>5. Cardinality(At("reading")') = Cardinality(At("reading"))
          + One(p \in At("reading")') - One(p \in At("reading"))
  BY <1>2, CountMove, FiniteParts
<1>6. Cardinality(Queued') = Cardinality(Queued) + One(p \in Queued') - One(p \in Queued)
  BY <1>3, CountMove, FiniteParts
<1> QED
  BY <1>1, <1>4, <1>5, <1>6 DEF One

\* The counters are zero exactly when nobody is there to be counted.
LEMMA ZeroMeansNobody ==
    ASSUME Counted
    PROVE  /\ readers = 0 <=> At("reading") = {}
           /\ readers \in Nat /\ wwaiting \in Nat
           /\ \A p \in At("reading") : readers > 0
           /\ \A p \in Queued : wwaiting > 0
BY FiniteParts, FS_EmptySet DEF Counted

-----------------------------------------------------------------------------
(* The inductive invariant                                                 *)

\* A goroutine moves to l and the fields change as the counters require.
Accounts(p, l) ==
    /\ l \in PC /\ Goto(p, l)
    /\ readers' = readers + One(l = "reading") - One(pc[p] = "reading")
    /\ wwaiting' = wwaiting + One(l \in QueuedPC) - One(pc[p] \in QueuedPC)
    /\ l = "writing" => writer' /\ readers = 0 /\ ~writer
    /\ l # "writing" /\ pc[p] = "writing" => ~writer'
    /\ l # "writing" /\ pc[p] # "writing" => writer' = writer
    /\ l = "reading" => ~writer
    /\ writer' \in BOOLEAN /\ closed' \subseteq Proc

\* Such a move keeps the types, the counters and mutual exclusion.
LEMMA CountedStep ==
    ASSUME IInv, NEW p \in Proc, NEW l, Accounts(p, l)
    PROVE  TypeOK' /\ Counted' /\ Exclusive'
<1> USE DEF IInv, Accounts
<1>1. /\ pc' \in [Proc -> PC]
      /\ pc'[p] = l /\ \A q \in Proc \ {p} : pc'[q] = pc[q]
      /\ Cardinality(At("reading")') = readers + One(l = "reading") - One(pc[p] = "reading")
      /\ Cardinality(Queued') = wwaiting + One(l \in QueuedPC) - One(pc[p] \in QueuedPC)
  BY GotoCounts DEF Counted
<1>2. readers' \in Nat /\ wwaiting' \in Nat
  BY <1>1, ZeroMeansNobody DEF One, At, Queued
<1>3. writer' \in BOOLEAN
  BY DEF TypeOK
<1>4. Exclusive'
  <2>1. readers = 0 => \A q \in Proc : pc[q] # "reading"
    BY ZeroMeansNobody DEF At
  <2>2. ~writer => \A q \in Proc : pc[q] # "writing"
    BY DEF Counted, At
  <2> QED
    BY <1>1, <2>1, <2>2 DEF Exclusive
<1>5. writer' <=> At("writing")' # {}
  <2>1. CASE l = "writing"
    BY <1>1, <2>1 DEF At
  <2>2. CASE l # "writing" /\ pc[p] = "writing"
    BY <1>1, <2>2 DEF At, Exclusive
  <2>3. CASE l # "writing" /\ pc[p] # "writing"
    BY <1>1, <2>3 DEF At, Counted
  <2> QED
    BY <2>1, <2>2, <2>3
<1> QED
  BY <1>1, <1>2, <1>3, <1>4, <1>5 DEF TypeOK, Counted

\* The invariant holds initially.
LEMMA InitIInv == Init => IInv
<1> SUFFICES ASSUME Init PROVE IInv
  OBVIOUS
<1>1. At("reading") = {} /\ At("writing") = {} /\ Queued = {}
  BY DEF Init, At, Queued, QueuedPC
<1>2. Counted
  BY <1>1, FS_EmptySet DEF Init, Counted
<1> QED
  BY <1>2 DEF Init, IInv, TypeOK, Exclusive, SleepersHaveCause, PC

\* Every section of the mutex preserves it.
LEMMA NextIInv == IInv /\ [Next]_vars => IInv'
<1> USE DEF IInv
<1>1. ASSUME IInv, NEW p \in Proc, Call(p) PROVE IInv'
  <2>1. Accounts(p, "r_try") \/ Accounts(p, "w_try")
    BY <1>1 DEF Call, Accounts, TypeOK, One, PC, ReaderPC, QueuedPC
  <2>2. TypeOK' /\ Counted' /\ Exclusive'
    BY <1>1, <2>1, CountedStep
  <2>3. SleepersHaveCause'
    BY <1>1 DEF Call, Goto, SleepersHaveCause, TypeOK
  <2> QED
    BY <2>2, <2>3
<1>2. ASSUME IInv, NEW p \in Proc, RLock(p) PROVE IInv'
  <2>1. TypeOK' /\ Counted' /\ Exclusive'
    <3>1. Accounts(p, "reading") \/ Accounts(p, "r_wait")
      BY <1>2 DEF RLock, Capture, Accounts, TypeOK, One, PC, ReaderPC, QueuedPC
    <3> QED
      BY <1>2, <3>1, CountedStep
  <2>2. SleepersHaveCause'
    BY <1>2 DEF RLock, Goto, Capture, SleepersHaveCause, TypeOK
  <2> QED
    BY <2>1, <2>2
<1>3. ASSUME IInv, NEW p \in Proc, RUnlock(p) PROVE IInv'
  <2>1. TypeOK' /\ Counted' /\ Exclusive'
    <3>1. Accounts(p, "idle")
      BY <1>3 DEF RUnlock, Broadcast, Accounts, TypeOK, One, PC, ReaderPC, QueuedPC
    <3> QED
      BY <1>3, <3>1, CountedStep
  <2>2. SleepersHaveCause'
    BY <1>3 DEF RUnlock, Broadcast, Waiting, Goto, SleepersHaveCause, TypeOK
  <2> QED
    BY <2>1, <2>2
<1>4. ASSUME IInv, NEW p \in Proc, Lock(p) PROVE IInv'
  <2>1. TypeOK' /\ Counted' /\ Exclusive'
    <3>1. CASE ~writer /\ readers = 0
      <4>1. /\ Goto(p, "writing") /\ readers' = readers /\ wwaiting' = wwaiting
            /\ closed' = closed /\ writer' = TRUE
        BY <1>4, <3>1, Zenon DEF Lock
      <4>2. writer' /\ writer' \in BOOLEAN
        BY <4>1, Zenon
      <4>3. pc[p] = "w_try" /\ TypeOK
        BY <1>4 DEF Lock
      <4>4. Accounts(p, "writing")
        BY <3>1, <4>1, <4>2, <4>3 DEF Accounts, TypeOK, One, PC, ReaderPC, QueuedPC
      <4> QED
        BY <1>4, <4>4, CountedStep
    <3>2. CASE writer \/ readers # 0
      <4>1. Accounts(p, "w_wait")
        BY <1>4, <3>2 DEF Lock, Capture, Accounts, TypeOK, One, PC, ReaderPC, QueuedPC
      <4> QED
        BY <1>4, <4>1, CountedStep
    <3> QED
      BY <3>1, <3>2
  <2>2. SleepersHaveCause'
    BY <1>4 DEF Lock, Goto, Capture, SleepersHaveCause, TypeOK
  <2> QED
    BY <2>1, <2>2
<1>5. ASSUME IInv, NEW p \in Proc, LockAgain(p) PROVE IInv'
  <2>1. TypeOK' /\ Counted' /\ Exclusive'
    <3>1. CASE ~writer /\ readers = 0
      <4>1. /\ Goto(p, "writing") /\ readers' = readers /\ wwaiting' = wwaiting - 1
            /\ closed' = closed /\ writer' = TRUE
        BY <1>5, <3>1, Zenon DEF LockAgain
      <4>2. writer' /\ writer' \in BOOLEAN
        BY <4>1, Zenon
      <4>3. pc[p] = "w_retry" /\ TypeOK
        BY <1>5 DEF LockAgain
      <4>4. Accounts(p, "writing")
        BY <3>1, <4>1, <4>2, <4>3 DEF Accounts, TypeOK, One, PC, ReaderPC, QueuedPC
      <4> QED
        BY <1>5, <4>4, CountedStep
    <3>2. CASE writer \/ readers # 0
      <4>1. Accounts(p, "w_wait")
        BY <1>5, <3>2 DEF LockAgain, Capture, Accounts, TypeOK, One, PC, ReaderPC, QueuedPC
      <4> QED
        BY <1>5, <4>1, CountedStep
    <3> QED
      BY <3>1, <3>2
  <2>2. SleepersHaveCause'
    BY <1>5 DEF LockAgain, Goto, Capture, SleepersHaveCause, TypeOK
  <2> QED
    BY <2>1, <2>2
<1>6. ASSUME IInv, NEW p \in Proc, Unlock(p) PROVE IInv'
  <2>1. TypeOK' /\ Counted' /\ Exclusive'
    <3>1. ~writer' /\ writer' \in BOOLEAN
      BY <1>6, Zenon DEF Unlock
    <3>2. /\ Goto(p, "idle") /\ readers' = readers /\ wwaiting' = wwaiting
          /\ pc[p] = "writing" /\ closed' \subseteq Proc /\ TypeOK
      BY <1>6 DEF Unlock, Broadcast, TypeOK
    <3>3. Accounts(p, "idle")
      BY <3>1, <3>2 DEF Accounts, TypeOK, One, PC, ReaderPC, QueuedPC
    <3> QED
      BY <1>6, <3>3, CountedStep
  <2>2. SleepersHaveCause'
    BY <1>6 DEF Unlock, Broadcast, Waiting, Goto, SleepersHaveCause, TypeOK
  <2> QED
    BY <2>1, <2>2
<1>7. ASSUME IInv, NEW p \in Proc, Wake(p) PROVE IInv'
  <2>1. Accounts(p, "r_try") \/ Accounts(p, "w_retry")
    BY <1>7 DEF Wake, Waiting, Accounts, TypeOK, One, PC, ReaderPC, QueuedPC
  <2>2. TypeOK' /\ Counted' /\ Exclusive'
    BY <1>7, <2>1, CountedStep
  <2>3. SleepersHaveCause'
    BY <1>7 DEF Wake, Goto, SleepersHaveCause, TypeOK
  <2> QED
    BY <2>2, <2>3
<1>8. ASSUME IInv, NEW p \in Proc, Done(p) PROVE IInv'
  <2>1. Accounts(p, "idle") \/ Accounts(p, "w_cancel")
    BY <1>8 DEF Done, Waiting, Accounts, TypeOK, One, PC, ReaderPC, QueuedPC
  <2>2. TypeOK' /\ Counted' /\ Exclusive'
    BY <1>8, <2>1, CountedStep
  <2>3. SleepersHaveCause'
    BY <1>8 DEF Done, Goto, SleepersHaveCause, TypeOK
  <2> QED
    BY <2>2, <2>3
<1>9. ASSUME IInv, NEW p \in Proc, Cancel(p) PROVE IInv'
  <2>1. TypeOK' /\ Counted' /\ Exclusive'
    <3>1. Accounts(p, "idle")
      BY <1>9 DEF Cancel, Broadcast, Accounts, TypeOK, One, PC, ReaderPC, QueuedPC
    <3> QED
      BY <1>9, <3>1, CountedStep
  <2>2. SleepersHaveCause'
    BY <1>9 DEF Cancel, Broadcast, Waiting, Goto, SleepersHaveCause, TypeOK
  <2> QED
    BY <2>1, <2>2
<1>10. ASSUME IInv, UNCHANGED vars PROVE IInv'
  BY <1>10 DEF vars, TypeOK, Counted, Exclusive, SleepersHaveCause, At, Queued
<1> QED
  BY <1>1, <1>2, <1>3, <1>4, <1>5, <1>6, <1>7, <1>8, <1>9, <1>10 DEF Next, Progress

\* The invariant holds in every reachable state.
LEMMA AlwaysIInv == Spec => []IInv
BY InitIInv, NextIInv, PTL DEF Spec

-----------------------------------------------------------------------------
(* Theorems                                                                *)

\* The fields of ctxRWMutex keep their types; in particular no cancelled or
\* woken waiter drives a counter of the struct below zero.
THEOREM TypeCorrect == Spec => []TypeOK
<1>1. IInv => TypeOK
  BY DEF IInv
<1> QED
  BY <1>1, AlwaysIInv, PTL

\* readers, wwaiting and writer count exactly the goroutines that read, queue
\* for writing or write, for any number of goroutines and cancellations.
THEOREM CountersExact == Spec => []Counted
<1>1. IInv => Counted
  BY DEF IInv
<1> QED
  BY <1>1, AlwaysIInv, PTL

\* No wake-up is lost: a goroutine asleep in RLock or Lock on a channel that is
\* still open waits for somebody who will broadcast.
THEOREM NoLostWakeup == Spec => []SleepersHaveCause
<1>1. IInv => SleepersHaveCause
  BY DEF IInv
<1> QED
  BY <1>1, AlwaysIInv, PTL

\* ctxRWMutex implements the abstract read-write lock the store relies on.
THEOREM MutexIsRWLock == Spec => ImplementsRWLock
<1>1. Init => Holding!Init
  BY DEF Init, Holding!Init, At
<1>2. IInv /\ [Next]_vars => [Holding!Next]_<<At("reading"), At("writing")>>
  <2> SUFFICES ASSUME IInv, [Next]_vars
               PROVE  Holding!Next \/ UNCHANGED <<At("reading"), At("writing")>>
    OBVIOUS
  <2> USE DEF At, Goto
  <2>0. pc \in [Proc -> PC] /\ Exclusive
    BY DEF IInv, TypeOK
  <2>1. /\ ~writer => At("writing") = {}
        /\ readers = 0 => At("reading") = {}
    <3>1. Counted
      BY DEF IInv
    <3> QED
      BY <3>1, ZeroMeansNobody DEF Counted
  <2>2. ASSUME NEW p \in Proc, RLock(p) PROVE Holding!Next \/ UNCHANGED <<At("reading"), At("writing")>>
    <3>1. CASE ~writer /\ wwaiting = 0
      <4>1. Goto(p, "reading") /\ pc[p] = "r_try"
        BY <2>2, <3>1 DEF RLock
      <4>2. Holding!AcquireRead(p)
        BY <2>0, <2>1, <3>1, <4>1 DEF Holding!AcquireRead
      <4> QED
        BY <4>2 DEF Holding!Next
    <3>2. CASE writer \/ wwaiting # 0
      BY <2>0, <2>2, <3>2 DEF RLock
    <3> QED
      BY <3>1, <3>2
  <2>3. ASSUME NEW p \in Proc, RUnlock(p) PROVE Holding!Next
    <3>1. Holding!ReleaseRead(p)
      BY <2>0, <2>3 DEF RUnlock, Holding!ReleaseRead
    <3> QED
      BY <3>1 DEF Holding!Next
  <2>4. ASSUME NEW p \in Proc, Lock(p) \/ LockAgain(p)
        PROVE  Holding!Next \/ UNCHANGED <<At("reading"), At("writing")>>
    <3>1. CASE ~writer /\ readers = 0
      <4>1. Goto(p, "writing") /\ pc[p] \in {"w_try", "w_retry"}
        BY <2>4, <3>1 DEF Lock, LockAgain
      <4>2. Holding!AcquireWrite(p)
        BY <2>0, <2>1, <3>1, <4>1 DEF Holding!AcquireWrite
      <4> QED
        BY <4>2 DEF Holding!Next
    <3>2. CASE writer \/ readers # 0
      BY <2>0, <2>4, <3>2 DEF Lock, LockAgain
    <3> QED
      BY <3>1, <3>2
  <2>5. ASSUME NEW p \in Proc, Unlock(p) PROVE Holding!Next
    <3>1. Goto(p, "idle") /\ pc[p] = "writing"
      BY <2>5 DEF Unlock
    <3>2. Holding!ReleaseWrite(p)
      BY <2>0, <3>1 DEF Exclusive, Holding!ReleaseWrite
    <3> QED
      BY <3>2 DEF Holding!Next
  <2>6. ASSUME NEW p \in Proc, Call(p) \/ Wake(p) \/ Done(p) \/ Cancel(p)
        PROVE  UNCHANGED <<At("reading"), At("writing")>>
    <3>1. \E l \in {"r_try", "w_try", "w_retry", "w_cancel", "idle"} : Goto(p, l)
      BY <2>6 DEF Call, Wake, Done, Cancel
    <3>2. pc[p] \notin {"reading", "writing"}
      BY <2>6 DEF Call, Wake, Done, Cancel, Waiting
    <3> QED
      BY <2>0, <3>1, <3>2
  <2>7. CASE UNCHANGED vars
    BY <2>7 DEF vars
  <2> QED
    BY <2>2, <2>3, <2>4, <2>5, <2>6, <2>7 DEF Next, Progress
<1> QED
  BY <1>1, <1>2, AlwaysIInv, PTL DEF Spec, ImplementsRWLock, Holding!Spec

-----------------------------------------------------------------------------
(* The lock around the agent's key synchronization                         *)

CONSTANTS Agent, NoProc, Sites, MaxGen, MaxFaults

VARIABLES site, held, dir, gen, at, got, faults

L == INSTANCE SyncLock WITH Proc <- Agent, pc <- at

\* The devices the guarantee is for: any number of processes under flock, and
\* one process where the lock is a directory.
SoundSites == \A s \in Sites : s.windows => \A p, q \in s.procs : p = q

Working == {"fetch", "check", "keys", "state", "release"}

\* A process at work runs on this device and, under flock, holds the lock.
WorkersHold ==
    \A p \in Agent : at[p] # "idle" =>
        /\ p \in site.procs
        /\ ~site.windows => at[p] \in Working /\ held = p

\* What was fetched is at least as new as both files until it is written.
StillEntitled ==
    \A p \in Agent :
        /\ at[p] \in {"check", "keys", "state"} => file <= got[p]
        /\ at[p] = "state" => file = got[p]

LockInv == L!TypeOK /\ WorkersHold /\ StillEntitled /\ state <= file

-----------------------------------------------------------------------------
(* Types                                                                   *)

\* Every step keeps the types, on any device.
LEMMA LockTypeStep == ASSUME L!Parameters, L!TypeOK, [L!Next]_L!vars PROVE L!TypeOK'
<1> USE DEF L!Parameters, L!TypeOK, L!Goto
<1>1. ASSUME NEW p \in Agent, L!Sync(p) PROVE L!TypeOK'
  <2>1. CASE L!Flock(p)
    BY <2>1 DEF L!Flock
  <2>2. CASE L!Mkdir(p)
    BY <2>2 DEF L!Mkdir
  <2>3. CASE L!CheckStale(p)
    BY <2>3 DEF L!CheckStale
  <2>4. CASE L!Steal(p)
    BY <2>4 DEF L!Steal
  <2>5. CASE L!MkdirAgain(p)
    BY <2>5 DEF L!MkdirAgain
  <2>6. CASE L!WriteOwner(p)
    BY <2>6 DEF L!WriteOwner
  <2>7. CASE L!Fetch(p)
    BY <2>7 DEF L!Fetch
  <2>8. CASE L!CheckState(p)
    BY <2>8 DEF L!CheckState
  <2>9. CASE L!WriteKeys(p)
    BY <2>9 DEF L!WriteKeys
  <2>10. CASE L!WriteState(p)
    BY <2>10 DEF L!WriteState
  <2>11. CASE L!Release(p)
    BY <2>11 DEF L!Release
  <2> QED
    BY <1>1, <2>1, <2>2, <2>3, <2>4, <2>5, <2>6, <2>7, <2>8, <2>9, <2>10, <2>11 DEF L!Sync
<1>2. ASSUME NEW p \in Agent, L!Fail(p) \/ L!AcquireFails(p) PROVE L!TypeOK'
  BY <1>2 DEF L!Fail, L!AcquireFails
<1>3. ASSUME NEW p \in Agent, L!Crash(p) PROVE L!TypeOK'
  BY <1>3 DEF L!Crash
<1>4. CASE L!Publish
  BY <1>4 DEF L!Publish
<1>5. CASE L!Age
  BY <1>5 DEF L!Age
<1>6. CASE UNCHANGED L!vars
  BY <1>6 DEF L!vars
<1> QED
  BY <1>1, <1>2, <1>3, <1>4, <1>5, <1>6 DEF L!Next

\* acquireSyncLock and syncAuthorizedKeys keep every variable in its type:
\* generations never run ahead of the server's.
THEOREM SyncLockTyped == ASSUME L!Parameters PROVE L!Spec => []L!TypeOK
<1>1. L!Init => L!TypeOK
  BY DEF L!Parameters, L!Init, L!TypeOK
<1> QED
  BY <1>1, LockTypeStep, PTL DEF L!Spec

-----------------------------------------------------------------------------
(* One writer at a time                                                    *)

\* Two processes are never both between acquisition and release.
LEMMA OneAtWork ==
    ASSUME L!Parameters, SoundSites, L!TypeOK, WorkersHold, NEW p \in Agent, NEW q \in Agent,
           at[p] \in Working, at[q] \in Working
    PROVE  p = q
BY DEF SoundSites, L!Parameters, L!TypeOK, WorkersHold, Working

\* Every step keeps the inductive invariant.
LEMMA LockInvStep == ASSUME L!Parameters, SoundSites, LockInv, [L!Next]_L!vars PROVE LockInv'
<1>1. L!TypeOK'
  BY LockTypeStep DEF LockInv
<1>2. \A p, q \in Agent : at[p] \in Working /\ at[q] \in Working => p = q
  BY OneAtWork DEF LockInv
<1>3. \A p, q \in Agent : at[p] \in Working /\ at[q] # "idle" /\ ~site.windows => p = q
  BY DEF LockInv, WorkersHold, Working
<1> USE <1>1, <1>2, <1>3 DEF LockInv, L!TypeOK, L!Goto, Working, WorkersHold, StillEntitled
<1>4. ASSUME NEW p \in Agent, L!Sync(p) PROVE LockInv'
  <2>1. CASE L!Flock(p)
    BY <2>1 DEF L!Parameters, L!Flock
  <2>2. CASE L!Mkdir(p)
    BY <2>2 DEF L!Mkdir
  <2>3. CASE L!CheckStale(p)
    BY <2>3 DEF L!CheckStale
  <2>4. CASE L!Steal(p)
    BY <2>4 DEF L!Steal
  <2>5. CASE L!MkdirAgain(p)
    BY <2>5 DEF L!MkdirAgain
  <2>6. CASE L!WriteOwner(p)
    BY <2>6 DEF L!WriteOwner
  <2>7. CASE L!Fetch(p)
    BY <2>7 DEF L!Fetch
  <2>8. CASE L!CheckState(p)
    BY <2>8 DEF L!CheckState
  <2>9. CASE L!WriteKeys(p)
    BY <2>9 DEF L!WriteKeys
  <2>10. CASE L!WriteState(p)
    <3>1. state' = file' /\ file' \in Nat
      BY <2>10 DEF L!WriteState
    <3>2. WorkersHold' /\ StillEntitled'
      BY <2>10 DEF L!WriteState
    <3> QED
      BY <3>1, <3>2
  <2>11. CASE L!Release(p)
    BY <2>11 DEF L!Release
  <2> QED
    BY <1>4, <2>1, <2>2, <2>3, <2>4, <2>5, <2>6, <2>7, <2>8, <2>9, <2>10, <2>11 DEF L!Sync
<1>5. ASSUME NEW p \in Agent, L!Fail(p) \/ L!AcquireFails(p) PROVE LockInv'
  BY <1>5 DEF L!Fail, L!AcquireFails
<1>6. ASSUME NEW p \in Agent, L!Crash(p) PROVE LockInv'
  BY <1>6 DEF L!Crash
<1>7. CASE L!Publish
  BY <1>7 DEF L!Publish
<1>8. CASE L!Age
  BY <1>8 DEF L!Age
<1>9. CASE UNCHANGED L!vars
  BY <1>9 DEF L!vars
<1> QED
  BY <1>4, <1>5, <1>6, <1>7, <1>8, <1>9 DEF L!Next

\* The inductive invariant holds on every sound device.
LEMMA LockInvariance == ASSUME L!Parameters, SoundSites PROVE L!Spec => []LockInv
<1>1. L!Init => LockInv
  BY DEF L!Parameters, L!Init, LockInv, L!TypeOK, WorkersHold, StillEntitled
<1>2. LockInv /\ [L!Next]_L!vars => LockInv'
  BY LockInvStep
<1> QED
  BY <1>1, <1>2, PTL DEF L!Spec

-----------------------------------------------------------------------------
(* What the lock is for                                                    *)

\* The state file never claims a generation that authorized_keys does not have
\* (writeAuthorizedKeys before saveState, a crash between them included).
THEOREM StateClaimsInstalled == ASSUME L!Parameters, SoundSites PROVE L!Spec => []ClaimIsInstalled
<1>1. LockInv => ClaimIsInstalled
  BY DEF LockInv, ClaimIsInstalled
<1> QED
  BY <1>1, LockInvariance, PTL

\* No synchronization replaces the installed keys by older ones or claims what
\* is not installed, whatever the interleaving of processes, deaths and failures
\* around acquireSyncLock and syncAuthorizedKeys.
THEOREM NoRollback == ASSUME L!Parameters, SoundSites PROVE L!Spec => SyncNeverRollsBack
<1>1. ASSUME LockInv, [L!Next]_L!vars PROVE file' >= file
  <2> USE DEF LockInv, L!TypeOK
  <2>1. ASSUME NEW p \in Agent, L!WriteKeys(p) PROVE file' >= file
    BY <1>1, <2>1 DEF L!WriteKeys, StillEntitled
  <2>2. ASSUME file' = file PROVE file' >= file
    BY <1>1, <2>2
  <2> QED
    BY <1>1, <2>1, <2>2 DEF L!Next, L!Sync, L!Flock, L!Mkdir, L!CheckStale, L!Steal, L!MkdirAgain, L!WriteOwner,
       L!Fetch, L!CheckState, L!WriteState, L!Release, L!AcquireFails, L!Fail, L!Crash, L!Publish, L!Age,
       L!vars
<1>2. LockInv /\ LockInv' /\ [L!Next]_L!vars => [file' >= file /\ ClaimIsInstalled']_<<file, state>>
  BY <1>1 DEF LockInv, ClaimIsInstalled
<1> QED
  BY <1>2, LockInvariance, PTL DEF L!Spec, SyncNeverRollsBack
=============================================================================
