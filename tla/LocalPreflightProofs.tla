------------------------- MODULE LocalPreflightProofs -------------------------
(***************************************************************************)
(* Proofs about starting on single-node storage, for any set of roots and  *)
(* deployments and any number of Pods, seeds, crashes and writes.  A start *)
(* reads the disk, the anchor and the bucket one after the other and acts  *)
(* on what it read some steps earlier: the invariant says what each place  *)
(* in the container's course may still rely on.                            *)
(***************************************************************************)
EXTENDS LocalPreflight, TLAPS

\* Bindings are numbered by the seeds, and histories no longer than the writes.
Bounded ==
    \A r \in Root :
        /\ archive[r].binding <= seeds /\ archive[r].tip <= writes
        /\ anchor.write = "reserved" => archive[r].tip < writes

\* A root is for one mode only.
Dedicated == \A r \in Root : ~(archive[r].binding # 0 /\ archive[r].legacy)

\* Local data lies under the marker, and legacy data never does.
Marked ==
    /\ "local" \in dir.data => dir.marker # NoMarker
    /\ "legacy" \in dir.data => dir.marker = NoMarker

\* A receipt stands for a checkpoint that was downloaded whole.
Receipted ==
    receipt # NoReceipt => <<receipt.scope, receipt.root, receipt.binding>> \in verified

\* A place that writes a binding down has one.
BindingKnown ==
    proc.pc \in {"download", "after", "again", "receipt", "rename"} => proc.binding # 0

\* The checks of the data directory and of the archive's kind still hold.
StillChecked ==
    /\ proc.pc \in {"authority", "kind", "match", "settled"} => DirOK
    /\ proc.pc \in {"match", "settled", "marker", "rename"} => cfg.mode = "local"
    /\ proc.pc \in {"match", "settled", "marker", "rename", "open"} => checkArchiveMode
    /\ proc.pc \in {"marker", "rename"} => dir.marker = NoMarker /\ dir.data = {}
    /\ proc.pc = "open" => IF cfg.mode = "local"
                           THEN dir.marker # NoMarker /\ dir.marker.root = cfg.root
                           ELSE dir.marker = NoMarker

\* The archive that was matched is the one in the bucket, downloaded by this
\* Pod, and the directory is bound to no other.
StillMatched ==
    proc.pc \in {"settled", "marker", "rename", "open"} /\ cfg.mode = "local" =>
        /\ proc.binding = Here.binding /\ proc.binding # 0
        /\ <<scope, cfg.root, proc.binding>> \in verified
        /\ dir.marker # NoMarker => dir.marker.binding = proc.binding

\* No write waits from the last look at the anchor on.
StillSettled ==
    proc.pc \in {"marker", "rename", "open"} /\ cfg.mode = "local" => anchor.write = "none"

Established ==
    /\ Dedicated /\ Marked /\ Receipted
    /\ BindingKnown /\ StillChecked /\ StillMatched /\ StillSettled

IInv == TypeOK /\ Bounded /\ Established

-----------------------------------------------------------------------------
\* Every step keeps the types and the bounds.
LEMMA TypeStep == ASSUME TypeOK, Bounded, BindingKnown, [Next]_vars PROVE (TypeOK /\ Bounded)'
<1>0. cfg.root \in Root /\ Here.binding \in 0 .. seeds /\ Here.tip \in 0 .. MaxWrites
  BY LocalAssumption DEF TypeOK, Bounded, Here, Archive
<1>b. 0 \in 0 .. MaxWrites /\ 0 \in 0 .. MaxSeeds /\ MaxWrites \in Nat /\ MaxSeeds \in Nat
  BY LocalAssumption
<1> USE LocalAssumption DEF TypeOK, Bounded, BindingKnown, Archive, Mode, Preflight, Opening,
     pod, world, disk, NoReceipt, NoMarker
<1>1. CASE StartContainer
  BY <1>1 DEF StartContainer, Down
<1>2. CASE PreflightTrust
  BY <1>2 DEF PreflightTrust, Check, Goto, Exit, Down
<1>3. CASE PreflightMode
  BY <1>3 DEF PreflightMode, Check, Goto, Exit, Down
<1>4. CASE ReadBefore
  <2>1. CASE proc' = Down
    BY <1>4, <2>1 DEF ReadBefore, Down
  <2>2. CASE proc' # Down
    <3>1. proc'.pc \in Preflight \cup Opening /\ proc'.who = proc.who
          /\ proc'.tip \in 0 .. MaxWrites /\ proc'.binding \in 0 .. seeds
      BY <1>4, <1>0, <2>2 DEF ReadBefore, Exit
    <3>2. proc' \in [pc : Preflight \cup Opening \cup {"down", "up"},
                     who : {"none", "init", "main"}, tip : 0 .. MaxWrites, binding : 0 .. seeds]
      BY <1>4, <1>0, <2>2 DEF ReadBefore, Exit
    <3> QED
      BY <1>4, <3>2 DEF ReadBefore
  <2> QED
    BY <2>1, <2>2
<1>5. CASE downloadLocalRoot
  BY <1>5 DEF downloadLocalRoot, Check, Goto, Exit, Down
<1>6. CASE ReadAfter
  BY <1>6 DEF ReadAfter, Check, Goto, Exit, Down
<1>7. CASE PreflightAgain
  BY <1>7 DEF PreflightAgain, Check, Goto, Exit, Down
<1>8. CASE WriteReceipt
  BY <1>8 DEF WriteReceipt, Goto
<1>9. CASE checkLocalDataDir
  BY <1>9 DEF checkLocalDataDir, Check, Goto, Exit, Down
<1>10. CASE CheckAuthority
  BY <1>10 DEF CheckAuthority, Check, Goto, Exit, Down
<1>11. CASE CheckKind
  BY <1>11 DEF CheckKind, Check, Goto, Exit, Down
<1>12. CASE MatchReceipt
  <2>1. CASE proc' = Down
    BY <1>12, <2>1 DEF MatchReceipt, Down
  <2>2. CASE proc' # Down
    <3>1. proc'.pc \in Preflight \cup Opening /\ proc'.who = proc.who
          /\ proc'.tip \in 0 .. MaxWrites /\ proc'.binding \in 0 .. seeds
      BY <1>12, <1>0, <2>2 DEF MatchReceipt, Exit
    <3>2. proc' \in [pc : Preflight \cup Opening \cup {"down", "up"},
                     who : {"none", "init", "main"}, tip : 0 .. MaxWrites, binding : 0 .. seeds]
      BY <1>12, <1>0, <2>2 DEF MatchReceipt, Exit
    <3> QED
      BY <1>12, <3>2 DEF MatchReceipt
  <2> QED
    BY <2>1, <2>2
<1>13. CASE CheckSettled
  BY <1>13 DEF CheckSettled, Check, Goto, Exit, Down
<1>14. CASE CreateTemp
  BY <1>14 DEF CreateTemp, Goto
<1>15. CASE RenameMarker
  <2>1. [root |-> cfg.root, binding |-> proc.binding] \in [root : Root, binding : 1 .. seeds]
    BY <1>15, <1>0 DEF RenameMarker
  <2>2. dir' \in [marker : {NoMarker} \cup [root : Root, binding : 1 .. seeds],
                  temp : BOOLEAN, data : SUBSET Mode]
    BY <1>15, <2>1 DEF RenameMarker
  <2> QED
    BY <1>15, <2>2 DEF RenameMarker, Goto
<1>16. CASE Open
  <2>1. archive' \in [Root -> Archive]
    <3> DEFINE a == archive[cfg.root]
               b == a.legacy \/ cfg.mode = "legacy"
    <3>1. archive' = [archive EXCEPT ![cfg.root] = [a EXCEPT !.legacy = b]]
      BY <1>16 DEF Open
    <3>2. a \in Archive /\ b \in BOOLEAN
      BY <1>0 DEF Archive
    <3> HIDE DEF a, b
    <3>3. [a EXCEPT !.legacy = b] \in Archive
      BY <3>2 DEF Archive
    <3> QED
      BY <3>1, <3>3, <1>0 DEF Archive
  <2>2. \A r \in Root : archive'[r].binding = archive[r].binding /\ archive'[r].tip = archive[r].tip
    BY <1>16, <1>0 DEF Open
  <2>3. dir' \in [marker : {NoMarker} \cup [root : Root, binding : 1 .. seeds],
                  temp : BOOLEAN, data : SUBSET Mode]
    BY <1>16, <1>0 DEF Open
  <2>4. initDone' \in BOOLEAN
    BY <1>16 DEF Open
  <2>5. proc' \in [pc : Preflight \cup Opening \cup {"down", "up"}, who : {"none", "init", "main"},
                   tip : 0 .. MaxWrites, binding : 0 .. seeds]
    BY <1>16 DEF Open, Goto, Exit, Down
  <2> QED
    BY <1>16, <2>1, <2>2, <2>3, <2>4, <2>5 DEF Open
<1>17. CASE Reserve
  BY <1>17 DEF Reserve
<1>18. CASE Commit
  BY <1>18 DEF Commit
<1>19. CASE Finalize
  BY <1>19 DEF Finalize
<1>20. CASE Crash
  BY <1>20 DEF Crash, Exit, Down
<1>21. ASSUME NEW c \in Configs, NEW k \in BOOLEAN, NEW s \in BOOLEAN, NewPod(c, k, s)
      PROVE  (TypeOK /\ Bounded)'
  <2>1. dir' \in [marker : {NoMarker} \cup [root : Root, binding : 1 .. seeds],
                  temp : BOOLEAN, data : SUBSET Mode]
    BY <1>21 DEF NewPod, EmptyDir
  <2>2. scope' \in 1 .. MaxPods /\ scope' = scope + 1 /\ pods' = scope' /\ cfg' \in Configs
    BY <1>21 DEF NewPod
  <2>3. receipt' \in {NoReceipt} \cup [root : Root, scope : 1 .. scope', binding : 1 .. seeds,
                                       tip : 0 .. MaxWrites]
    BY <1>21, <2>2 DEF NewPod
  <2>4. initDone' \in BOOLEAN /\ UNCHANGED <<anchor, archive, seeds, crashes, writes>>
    BY <1>21 DEF NewPod
  <2>5. proc' \in [pc : Preflight \cup Opening \cup {"down", "up"}, who : {"none", "init", "main"},
                   tip : 0 .. MaxWrites, binding : 0 .. seeds]
    BY <1>21 DEF NewPod, Exit, Down
  <2> QED
    BY <1>21, <2>1, <2>2, <2>3, <2>4, <2>5
<1>22. ASSUME NEW r \in Root, Seed(r) PROVE (TypeOK /\ Bounded)'
  <2>1. seeds' = seeds + 1 /\ seeds' \in 0 .. MaxSeeds
    BY <1>22 DEF Seed
  <2>2. archive' \in [Root -> Archive]
    <3> DEFINE a == archive[r]
    <3>1. archive' = [archive EXCEPT ![r] = [a EXCEPT !.binding = seeds', !.tip = 0]]
      BY <1>22 DEF Seed
    <3>2. a \in Archive
      BY <1>22 DEF Archive
    <3> HIDE DEF a
    <3>3. [a EXCEPT !.binding = seeds', !.tip = 0] \in Archive
      BY <1>b, <2>1, <3>2 DEF Archive
    <3> QED
      BY <3>1, <3>3 DEF Archive
  <2>3. Bounded'
    BY <1>22, <2>1 DEF Seed
  <2>4. dir' \in [marker : {NoMarker} \cup [root : Root, binding : 1 .. seeds'],
                  temp : BOOLEAN, data : SUBSET Mode]
    BY <1>22, <2>1 DEF Seed
  <2>5. receipt' \in {NoReceipt} \cup [root : Root, scope : 1 .. scope, binding : 1 .. seeds',
                                       tip : 0 .. MaxWrites]
    BY <1>22, <2>1 DEF Seed
  <2>6. proc' \in [pc : Preflight \cup Opening \cup {"down", "up"}, who : {"none", "init", "main"},
                   tip : 0 .. MaxWrites, binding : 0 .. seeds']
    BY <1>22, <2>1 DEF Seed
  <2> QED
    BY <1>22, <2>1, <2>2, <2>3, <2>4, <2>5, <2>6 DEF Seed
<1>23. ASSUME NEW r \in Root, Lose(r) PROVE (TypeOK /\ Bounded)'
  <2>1. seeds' = seeds /\ seeds' \in 0 .. MaxSeeds
    BY <1>23 DEF Lose
  <2>2. archive' \in [Root -> Archive]
    <3> DEFINE a == archive[r]
    <3>1. archive' = [archive EXCEPT ![r] = [a EXCEPT !.binding = 0, !.tip = 0, !.held = FALSE]]
      BY <1>23 DEF Lose
    <3>2. a \in Archive
      BY <1>23 DEF Archive
    <3> HIDE DEF a
    <3>3. [a EXCEPT !.binding = 0, !.tip = 0, !.held = FALSE] \in Archive
      BY <1>b, <2>1, <3>2 DEF Archive
    <3> QED
      BY <3>1, <3>3 DEF Archive
  <2>3. Bounded'
    BY <1>23, <2>1 DEF Lose
  <2>4. dir' \in [marker : {NoMarker} \cup [root : Root, binding : 1 .. seeds'],
                  temp : BOOLEAN, data : SUBSET Mode]
    BY <1>23, <2>1 DEF Lose
  <2>5. receipt' \in {NoReceipt} \cup [root : Root, scope : 1 .. scope, binding : 1 .. seeds',
                                       tip : 0 .. MaxWrites]
    BY <1>23, <2>1 DEF Lose
  <2>6. proc' \in [pc : Preflight \cup Opening \cup {"down", "up"}, who : {"none", "init", "main"},
                   tip : 0 .. MaxWrites, binding : 0 .. seeds']
    BY <1>23, <2>1 DEF Lose
  <2> QED
    BY <1>23, <2>1, <2>2, <2>3, <2>4, <2>5, <2>6 DEF Lose
<1>24. ASSUME NEW r \in Root, Maintain(r) PROVE (TypeOK /\ Bounded)'
  <2>1. seeds' = seeds /\ seeds' \in 0 .. MaxSeeds
    BY <1>24 DEF Maintain
  <2>2. archive' \in [Root -> Archive]
    <3> DEFINE a == archive[r]
               b == ~a.held
    <3>1. archive' = [archive EXCEPT ![r] = [a EXCEPT !.held = b]]
      BY <1>24 DEF Maintain
    <3>2. a \in Archive /\ b \in BOOLEAN
      BY <1>24 DEF Archive
    <3> HIDE DEF a, b
    <3>3. [a EXCEPT !.held = b] \in Archive
      BY <1>b, <2>1, <3>2 DEF Archive
    <3> QED
      BY <3>1, <3>3 DEF Archive
  <2>3. Bounded'
    BY <1>24, <2>1 DEF Maintain
  <2>4. dir' \in [marker : {NoMarker} \cup [root : Root, binding : 1 .. seeds'],
                  temp : BOOLEAN, data : SUBSET Mode]
    BY <1>24, <2>1 DEF Maintain
  <2>5. receipt' \in {NoReceipt} \cup [root : Root, scope : 1 .. scope, binding : 1 .. seeds',
                                       tip : 0 .. MaxWrites]
    BY <1>24, <2>1 DEF Maintain
  <2>6. proc' \in [pc : Preflight \cup Opening \cup {"down", "up"}, who : {"none", "init", "main"},
                   tip : 0 .. MaxWrites, binding : 0 .. seeds']
    BY <1>24, <2>1 DEF Maintain
  <2> QED
    BY <1>24, <2>1, <2>2, <2>3, <2>4, <2>5, <2>6 DEF Maintain
<1>25. CASE UNCHANGED vars
  BY <1>25 DEF vars
<1> QED
  BY <1>1, <1>2, <1>3, <1>4, <1>5, <1>6, <1>7, <1>8, <1>9, <1>10, <1>11, <1>12, <1>13, <1>14,
     <1>15, <1>16, <1>17, <1>18, <1>19, <1>20, <1>21, <1>22, <1>23, <1>24, <1>25 DEF Next, Step

-----------------------------------------------------------------------------
(* What the checks established                                             *)

\* Every step keeps what the checks established.
LEMMA SafeStep == ASSUME IInv, [Next]_vars PROVE Established'
<1> USE LocalAssumption DEF IInv, Established, TypeOK, Dedicated, Marked, Receipted,
     BindingKnown, StillChecked, StillMatched, StillSettled, Mode, Preflight, Opening, pod,
     world, disk, NoReceipt, NoMarker, Here, DirOK, checkArchiveMode, TrustOK, Archive, Down,
     Exit, EmptyDir, Quiet, Readable, ReceiptMatches
<1>1. CASE StartContainer
  BY <1>1 DEF StartContainer
<1>2. CASE PreflightTrust
  BY <1>2 DEF PreflightTrust, Check, Goto, Exit, Down
<1>3. CASE PreflightMode
  BY <1>3 DEF PreflightMode, Check, Goto, Exit, Down
<1>4. CASE ReadBefore
  <2>1. CASE proc' = Down
    BY <1>4, <2>1 DEF ReadBefore
  <2>2. CASE proc' # Down
    <3>1. Here.binding # 0 /\ proc' = [proc EXCEPT !.pc = "download", !.tip = Here.tip,
                                                   !.binding = Here.binding]
      BY <1>4, <2>2 DEF ReadBefore
    <3>2. proc'.pc = "download" /\ proc'.binding = Here.binding
      BY <3>1
    <3> QED
      BY <1>4, <3>1, <3>2 DEF ReadBefore
  <2> QED
    BY <2>1, <2>2
<1>5. CASE downloadLocalRoot
  BY <1>5 DEF downloadLocalRoot, Check, Goto, Exit, Down
<1>6. CASE ReadAfter
  BY <1>6 DEF ReadAfter, Check, Goto, Exit, Down
<1>7. CASE PreflightAgain
  BY <1>7 DEF PreflightAgain, Check, Goto, Exit, Down
<1>8. CASE WriteReceipt
  BY <1>8 DEF WriteReceipt, Goto
<1>9. CASE checkLocalDataDir
  BY <1>9 DEF checkLocalDataDir, Check, Goto, Exit, Down
<1>10. CASE CheckAuthority
  BY <1>10 DEF CheckAuthority, Check, Goto, Exit, Down
<1>11. CASE CheckKind
  BY <1>11 DEF CheckKind, Check, Goto, Exit, Down
<1>12. CASE MatchReceipt
  <2>1. CASE proc' = Down
    BY <1>12, <2>1 DEF MatchReceipt
  <2>2. CASE proc' # Down
    <3>1. proc'.pc = "settled" /\ proc'.binding = Here.binding /\ Readable /\ ReceiptMatches
      BY <1>12, <2>2 DEF MatchReceipt
    <3>2. <<scope, cfg.root, Here.binding>> \in verified
      BY <3>1
    <3>3. StillMatched'
      BY <1>12, <3>1, <3>2 DEF MatchReceipt
    <3>4. StillChecked' /\ BindingKnown' /\ StillSettled'
      BY <1>12, <3>1 DEF MatchReceipt
    <3> QED
      BY <1>12, <3>3, <3>4 DEF MatchReceipt
  <2> QED
    BY <2>1, <2>2
<1>13. CASE CheckSettled
  <2>1. CASE proc' = Down
    BY <1>13, <2>1 DEF CheckSettled, Check
  <2>2. CASE proc' # Down
    <3>1. anchor.write = "none" /\ proc'.binding = proc.binding
          /\ proc'.pc = IF dir.marker = NoMarker THEN "marker" ELSE "open"
      BY <1>13, <2>2 DEF CheckSettled, Check, Goto
    <3>2. StillMatched' /\ StillSettled'
      BY <1>13, <3>1 DEF CheckSettled, Check
    <3>3. StillChecked' /\ BindingKnown'
      BY <1>13, <3>1 DEF CheckSettled, Check
    <3> QED
      BY <1>13, <3>2, <3>3 DEF CheckSettled, Check
  <2> QED
    BY <2>1, <2>2
<1>14. CASE CreateTemp
  BY <1>14 DEF CreateTemp, Goto
<1>15. CASE RenameMarker
  BY <1>15 DEF RenameMarker, Goto
<1>16. CASE Open
  BY <1>16 DEF Open, Goto, Exit, Down
<1>17. CASE Reserve
  BY <1>17 DEF Reserve
<1>18. CASE Commit
  BY <1>18 DEF Commit
<1>19. CASE Finalize
  BY <1>19 DEF Finalize
<1>20. CASE Crash
  BY <1>20 DEF Crash, Exit, Down
<1>21. ASSUME NEW c \in Configs, NEW k \in BOOLEAN, NEW s \in BOOLEAN, NewPod(c, k, s)
      PROVE  Established'
  BY <1>21 DEF NewPod, Exit, Down, EmptyDir, NoReceipt, NoMarker
<1>22. ASSUME NEW r \in Root, Seed(r) PROVE Established'
  BY <1>22 DEF Seed
<1>23. ASSUME NEW r \in Root, Lose(r) PROVE Established'
  BY <1>23 DEF Lose
<1>24. ASSUME NEW r \in Root, Maintain(r) PROVE Established'
  BY <1>24 DEF Maintain
<1>25. CASE UNCHANGED vars
  BY <1>25 DEF vars
<1> QED
  BY <1>1, <1>2, <1>3, <1>4, <1>5, <1>6, <1>7, <1>8, <1>9, <1>10, <1>11, <1>12, <1>13, <1>14,
     <1>15, <1>16, <1>17, <1>18, <1>19, <1>20, <1>21, <1>22, <1>23, <1>24, <1>25 DEF Next, Step

-----------------------------------------------------------------------------
(* Theorems                                                                *)

\* Every step keeps the inductive invariant.
LEMMA InvStep == ASSUME IInv, [Next]_vars PROVE IInv'
BY TypeStep, SafeStep DEF IInv, Established

\* The invariant holds of a cluster where nothing has started.
LEMMA InvInit == Init => IInv
<1> SUFFICES ASSUME Init PROVE IInv
  OBVIOUS
<1>1. PICK seeded \in {{}} \cup {{r} : r \in Root} : \E used \in SUBSET (Root \ seeded) :
         /\ archive = [r \in Root |-> [binding |-> IF r \in seeded THEN 1 ELSE 0, tip |-> 0,
                                       held |-> FALSE, legacy |-> r \in used]]
         /\ seeds = IF seeded = {} THEN 0 ELSE 1
  BY DEF Init
<1>u. PICK used \in SUBSET (Root \ seeded) :
         /\ archive = [r \in Root |-> [binding |-> IF r \in seeded THEN 1 ELSE 0, tip |-> 0,
                                       held |-> FALSE, legacy |-> r \in used]]
         /\ seeds = IF seeded = {} THEN 0 ELSE 1
  BY <1>1
<1>2. archive \in [Root -> Archive] /\ seeds \in 0 .. MaxSeeds
  BY <1>u, LocalAssumption DEF Archive
<1>3. TypeOK
  <2>1. proc \in [pc : Preflight \cup Opening \cup {"down", "up"}, who : {"none", "init", "main"},
                  tip : 0 .. MaxWrites, binding : 0 .. seeds]
    BY <1>2, LocalAssumption DEF Init, Down
  <2>2. dir \in [marker : {NoMarker} \cup [root : Root, binding : 1 .. seeds], temp : BOOLEAN,
                 data : SUBSET Mode]
    BY DEF Init, EmptyDir
  <2>3. anchor \in [mode : Mode, root : Root, write : {"none", "reserved", "committed"}]
    BY DEF Init
  <2>4. scope \in 1 .. MaxPods /\ crashes \in 0 .. MaxCrashes /\ writes \in 0 .. MaxWrites
    BY LocalAssumption DEF Init
  <2> QED
    BY <1>2, <2>1, <2>2, <2>3, <2>4 DEF Init, TypeOK
<1>4. Bounded /\ Dedicated
  <2>1. anchor.write = "none" /\ writes = 0
    BY DEF Init
  <2>2. ASSUME NEW r \in Root
        PROVE  /\ archive[r].binding <= seeds /\ archive[r].tip <= 0
               /\ ~(archive[r].binding # 0 /\ archive[r].legacy)
    <3> DEFINE b == r \in used
    <3>1. archive[r] = [binding |-> IF r \in seeded THEN 1 ELSE 0, tip |-> 0,
                        held |-> FALSE, legacy |-> b]
      BY <1>u, <2>2
    <3> HIDE DEF b
    <3>2. archive[r].binding = (IF r \in seeded THEN 1 ELSE 0) /\ archive[r].tip = 0
      BY <3>1
    <3>3. archive[r].legacy = b
      BY <3>1
    <3>4. r \in seeded => seeds = 1 /\ r \notin used
      BY <1>u
    <3>5. seeds \in {0, 1}
      BY <1>u
    <3>6. archive[r].binding <= seeds /\ archive[r].tip <= 0
      BY <3>2, <3>4, <3>5
    <3>7. archive[r].binding # 0 => r \in seeded
      BY <3>2
    <3>8. archive[r].legacy => r \in used
      BY <3>3, Zenon DEF b
    <3> QED
      BY <3>4, <3>6, <3>7, <3>8
  <2> QED
    BY <2>1, <2>2 DEF Bounded, Dedicated
<1>5. Marked /\ Receipted
  BY DEF Init, Marked, Receipted, EmptyDir
<1>6. BindingKnown /\ StillChecked /\ StillMatched /\ StillSettled
  BY DEF Init, Down, BindingKnown, StillChecked, StillMatched, StillSettled
<1> QED
  BY <1>3, <1>4, <1>5, <1>6 DEF IInv, Established

\* The invariant holds throughout.
LEMMA Invariance == Spec => []IInv
<1>1. IInv /\ [Next]_vars => IInv'
  BY InvStep
<1> QED
  BY <1>1, InvInit, PTL DEF Spec

\* No data directory and no object-store root ever holds Local and legacy
\* storage, and Local data lies under its marker, through crashes between any
\* two steps of a start, new deployments on kept volumes and archives seeded or
\* lost meanwhile (checkLocalDataDir, checkArchiveMode).
THEOREM OneModeEverywhere == Spec => []ModesNeverMix
<1>1. IInv => ModesNeverMix
  BY DEF IInv, Established, Dedicated, Marked, ModesNeverMix, Mode
<1> QED
  BY <1>1, Invariance, PTL

\* The SDK is opened on Local storage only where this Pod's own preflight
\* downloaded this very archive, the directory is bound to it and no write is
\* outstanding: what LocalPreflightFromEnv and prepareLocalOpen checked several
\* reads earlier is still so at the open.
THEOREM OpenIsVerified == Spec => OpensWhatWasVerified
<1>1. ASSUME IInv, Open, cfg.mode = "local"
      PROVE  /\ <<scope, cfg.root, Here.binding>> \in verified
             /\ dir.marker = [root |-> cfg.root, binding |-> Here.binding]
             /\ anchor.write = "none"
  <2>1. proc.pc = "open"
    BY <1>1 DEF Open
  <2>2. dir.marker \in [root : Root, binding : 1 .. seeds]
    BY <1>1, <2>1 DEF IInv, Established, StillChecked, TypeOK
  <2> QED
    BY <1>1, <2>1, <2>2 DEF IInv, Established, StillChecked, StillMatched, StillSettled
<1>2. IInv => [Open /\ cfg.mode = "local"
                 => /\ <<scope, cfg.root, Here.binding>> \in verified
                    /\ dir.marker = [root |-> cfg.root, binding |-> Here.binding]
                    /\ anchor.write = "none"]_vars
  BY <1>1
<1> QED
  BY <1>2, Invariance, PTL DEF OpensWhatWasVerified
=============================================================================
