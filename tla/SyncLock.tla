------------------------------- MODULE SyncLock -------------------------------
(***************************************************************************)
(* The lock around the agent's key synchronization, in its two builds: a   *)
(* kernel-held flock, and on Windows a directory that a later process may  *)
(* take over when its owner.json is missing or old.  The supervisor and a  *)
(* sync-authorized-keys command run the same code on the same files.       *)
(*                                                                         *)
(* Each system call is one step.  A snapshot is its generation: KeySync    *)
(* shows that a generation names one body.  A lock grows old only while no *)
(* synchronization runs: requests time out long before maxSyncLockAge.     *)
(***************************************************************************)
EXTENDS SyncFiles

CONSTANTS
    Proc, NoProc,  \* agent processes
    Sites,         \* kinds of device: the build, and the processes that run there
    MaxGen,        \* bound on published generations
    MaxFaults      \* bound on process deaths and failed calls

Parameters ==
    /\ NoProc \notin Proc /\ Sites \subseteq [windows : BOOLEAN, procs : SUBSET Proc]
    /\ MaxGen \in Nat /\ MaxFaults \in Nat

ASSUME SyncLockAssumption == Parameters

VARIABLES
    site,     \* the device at hand; never changes
    held,     \* who has the flock
    dir,      \* the lock directory: absent, bare (no owner.json), fresh or old
    gen,      \* the generation the server answers with
    pc, got,  \* where each process is, and what it fetched
    faults

vars == <<site, held, dir, gen, file, state, pc, got, faults>>

TypeOK ==
    /\ site \in Sites
    /\ held \in Proc \cup {NoProc}
    /\ dir \in {"absent", "bare", "fresh", "old"}
    /\ gen \in 1 .. (MaxGen + 1) /\ file \in 0 .. gen /\ state \in 0 .. gen
    /\ pc \in [Proc -> {"idle", "stale", "steal", "again", "own",
                        "fetch", "check", "keys", "state", "release"}]
    /\ got \in [Proc -> 0 .. gen]
    /\ faults \in Nat

Goto(p, label) == pc' = [pc EXCEPT ![p] = label]

-----------------------------------------------------------------------------
(* acquireSyncLock                                                         *)

FlockShared(p) ==   \* mutant: the lock is not exclusive
    /\ ~site.windows /\ p \in site.procs /\ pc[p] = "idle"
    /\ held' = p
    /\ Goto(p, "fetch")
    /\ UNCHANGED <<site, dir, gen, file, state, got, faults>>

\* LOCK_EX | LOCK_NB; a process that does not get it returns an error.
Flock(p) ==
    /\ ~site.windows /\ p \in site.procs /\ pc[p] = "idle" /\ held = NoProc
    /\ held' = p
    /\ Goto(p, "fetch")
    /\ UNCHANGED <<site, dir, gen, file, state, got, faults>>

Mkdir(p) ==
    /\ site.windows /\ p \in site.procs /\ pc[p] = "idle"
    /\ IF dir = "absent" THEN dir' = "bare" /\ Goto(p, "own")
                         ELSE Goto(p, "stale") /\ UNCHANGED dir
    /\ UNCHANGED <<site, held, gen, file, state, got, faults>>

NeverStale == FALSE   \* mutant: residue of a crash is kept

\* staleSyncLock: no readable owner.json, or an old one.
Stale == dir # "fresh"

CheckStale(p) ==
    /\ pc[p] = "stale"
    /\ Goto(p, IF Stale THEN "steal" ELSE "idle")
    /\ UNCHANGED <<site, held, dir, gen, file, state, got, faults>>

Steal(p) ==
    /\ pc[p] = "steal"
    /\ dir' = "absent"
    /\ Goto(p, "again")
    /\ UNCHANGED <<site, held, gen, file, state, got, faults>>

MkdirAgain(p) ==
    /\ pc[p] = "again"
    /\ IF dir = "absent" THEN dir' = "bare" /\ Goto(p, "own")
                         ELSE Goto(p, "idle") /\ UNCHANGED dir
    /\ UNCHANGED <<site, held, gen, file, state, got, faults>>

WriteOwner(p) ==
    /\ pc[p] = "own"
    /\ IF dir = "absent" THEN Goto(p, "idle") /\ UNCHANGED dir
                         ELSE dir' = "fresh" /\ Goto(p, "fetch")
    /\ UNCHANGED <<site, held, gen, file, state, got, faults>>

\* A file operation fails: a lock without its owner.json is taken away again, and a
\* stale one that cannot be removed may have lost its owner.json.
AcquireFails(p) ==
    /\ faults < MaxFaults /\ faults' = faults + 1
    /\ \/ pc[p] = "own" /\ dir' = "absent"
       \/ pc[p] = "steal" /\ dir # "absent" /\ dir' \in {dir, "bare"}
    /\ Goto(p, "idle")
    /\ UNCHANGED <<site, held, gen, file, state, got>>

\* The release removes the directory whoever made it.
Release(p) ==
    /\ pc[p] = "release"
    /\ held' = IF held = p THEN NoProc ELSE held
    /\ dir' = "absent"
    /\ Goto(p, "idle")
    /\ got' = [got EXCEPT ![p] = 0]
    /\ UNCHANGED <<site, gen, file, state, faults>>

-----------------------------------------------------------------------------
(* syncAuthorizedKeys between acquisition and release                      *)

Fetch(p) ==
    /\ pc[p] = "fetch"
    /\ got' = [got EXCEPT ![p] = gen]
    /\ Goto(p, "check")
    /\ UNCHANGED <<site, held, dir, gen, file, state, faults>>

CheckState(p) ==
    /\ pc[p] = "check"
    /\ Goto(p, IF got[p] < state THEN "release" ELSE "keys")
    /\ UNCHANGED <<site, held, dir, gen, file, state, got, faults>>

WriteKeys(p) ==
    /\ pc[p] = "keys"
    /\ file' = got[p]
    /\ Goto(p, "state")
    /\ UNCHANGED <<site, held, dir, gen, state, got, faults>>

WriteState(p) ==
    /\ pc[p] = "state"
    /\ state' = got[p]
    /\ Goto(p, "release")
    /\ UNCHANGED <<site, held, dir, gen, file, got, faults>>

\* Loading the device, the request, a check of the answer, or a file operation
\* fails; the deferred unlock still runs.
Fail(p) ==
    /\ pc[p] \in {"fetch", "check", "keys", "state"} /\ faults < MaxFaults
    /\ faults' = faults + 1
    /\ Goto(p, "release")
    /\ UNCHANGED <<site, held, dir, gen, file, state, got>>

Sync(p) ==
    \/ Flock(p) \/ Mkdir(p) \/ CheckStale(p) \/ Steal(p) \/ MkdirAgain(p) \/ WriteOwner(p)
    \/ Fetch(p) \/ CheckState(p) \/ WriteKeys(p) \/ WriteState(p) \/ Release(p)

-----------------------------------------------------------------------------
(* The environment                                                         *)

Publish ==
    /\ gen <= MaxGen
    /\ gen' = gen + 1
    /\ UNCHANGED <<site, held, dir, file, state, pc, got, faults>>

\* A process dies: the kernel drops its flock, the directory stays.
Crash(p) ==
    /\ pc[p] # "idle" /\ faults < MaxFaults
    /\ faults' = faults + 1
    /\ held' = IF held = p THEN NoProc ELSE held
    /\ Goto(p, "idle")
    /\ got' = [got EXCEPT ![p] = 0]
    /\ UNCHANGED <<site, dir, gen, file, state>>

Age ==
    /\ dir = "fresh" /\ \A p \in Proc : pc[p] \in {"idle", "stale"}
    /\ dir' = "old"
    /\ UNCHANGED <<site, held, gen, file, state, pc, got, faults>>

Init ==
    /\ site \in Sites
    /\ held = NoProc /\ dir = "absent"
    /\ gen = 1 /\ file = 0 /\ state = 0
    /\ pc = [p \in Proc |-> "idle"] /\ got = [p \in Proc |-> 0]
    /\ faults = 0

Next == (\E p \in Proc : Sync(p) \/ AcquireFails(p) \/ Fail(p) \/ Crash(p)) \/ Publish \/ Age

Spec == Init /\ [][Next]_vars

\* Each heartbeat synchronizes again, and ten minutes pass eventually.
FairSpec == Spec /\ (\A p \in Proc : WF_vars(Sync(p))) /\ WF_vars(Age)

-----------------------------------------------------------------------------
(* Properties (besides SyncNeverRollsBack of SyncFiles)                    *)

\* A process that dies anywhere, holding the lock or half-way through taking
\* it, does not keep the others out: the newest snapshot gets installed.
CatchesUp == <>[](file = gen)
=============================================================================
