---------------------------- MODULE LocalPreflight ----------------------------
(***************************************************************************)
(* Starting the API server on single-node ("Local") storage: the init      *)
(* container's preflight and restore, the checks before every SDK open,    *)
(* the marker in the data directory, and the guards that keep Local and    *)
(* legacy storage apart through crashes, restarts, redeployments with      *)
(* another configuration and changes of the remote archive.                *)
(*                                                                         *)
(* Granularity: one step per read of the anchor, of the bucket or of the   *)
(* disk, and one per file operation a crash may separate.                  *)
(* Simplifications:                                                        *)
(*  - one Pod at a time, as the operator acknowledges; its node id, paths  *)
(*    and scope are well formed, and the trust anchor is configured;       *)
(*  - an archive is its binding and the length of its history; the SDK's   *)
(*    own checks are its own;                                              *)
(*  - writes are only here for what they leave behind (TrustFence has the  *)
(*    fence itself).                                                       *)
(***************************************************************************)
EXTENDS Naturals

CONSTANTS
    Root,       \* object-store roots (provider, bucket, prefix, cluster)
    Configs,    \* deployments: mode, root, and whether there is an init container
    MaxPods, MaxSeeds, MaxCrashes, MaxWrites   \* bounds

Mode == {"local", "legacy"}

ASSUME LocalAssumption ==
    /\ Configs \subseteq [mode : Mode, root : Root, init : BOOLEAN] /\ Configs # {}
    /\ {MaxPods, MaxSeeds} \subseteq Nat \ {0} /\ {MaxCrashes, MaxWrites} \subseteq Nat

VARIABLES
    cfg,       \* the Pod's configuration
    scope,     \* the Pod's uid
    initDone,  \* its init container has succeeded
    anchor,    \* the trust anchor: the storage it names and the write it waits for
    archive,   \* per root: Local binding (0: none), history, maintenance, legacy objects
    seeds,     \* bindings created so far
    dir,       \* DataDir: mode marker, a temporary file left in it, who wrote data
    receipt,   \* the receipt in the staging directory
    proc,      \* the running container
    verified,  \* history: <<scope, root, binding>> whose checkpoint was downloaded whole
    pods, crashes, writes

disk  == <<dir, receipt>>
world == <<anchor, archive, seeds>>
pod   == <<cfg, scope, initDone, pods>>
vars  == <<pod, world, disk, proc, verified, crashes, writes>>

NoMarker  == [root |-> "none", binding |-> 0]
NoReceipt == [root |-> "none", scope |-> 0, binding |-> 0, tip |-> 0]
Down == [pc |-> "down", who |-> "none", tip |-> 0, binding |-> 0]
EmptyDir == [marker |-> NoMarker, temp |-> FALSE, data |-> {}]

Archive == [binding : 0 .. MaxSeeds, tip : 0 .. MaxWrites, held : BOOLEAN, legacy : BOOLEAN]

Preflight == {"trust", "mode", "before", "download", "after", "again", "receipt"}
Opening == {"dir", "authority", "kind", "match", "settled", "marker", "rename", "open"}

TypeOK ==
    /\ cfg \in Configs /\ scope \in 1 .. MaxPods /\ pods = scope /\ initDone \in BOOLEAN
    /\ anchor \in [mode : Mode, root : Root, write : {"none", "reserved", "committed"}]
    /\ archive \in [Root -> Archive]
    /\ seeds \in 0 .. MaxSeeds
    /\ dir \in [marker : {NoMarker} \cup [root : Root, binding : 1 .. seeds], temp : BOOLEAN,
               data : SUBSET Mode]
    /\ receipt \in {NoReceipt} \cup [root : Root, scope : 1 .. scope, binding : 1 .. seeds,
                                     tip : 0 .. MaxWrites]
    /\ proc \in [pc : Preflight \cup Opening \cup {"down", "up"}, who : {"none", "init", "main"},
                 tip : 0 .. MaxWrites, binding : 0 .. seeds]
    /\ crashes \in 0 .. MaxCrashes /\ writes \in 0 .. MaxWrites

\* A root is empty, seeded with the SDK, or in legacy use; nothing has started.
Init ==
    /\ cfg \in Configs /\ scope = 1 /\ pods = 1 /\ initDone = FALSE
    /\ anchor \in [mode : Mode, root : Root, write : {"none"}]
    /\ \E seeded \in {{}} \cup {{r} : r \in Root} : \E used \in SUBSET (Root \ seeded) :
        /\ archive = [r \in Root |-> [binding |-> IF r \in seeded THEN 1 ELSE 0, tip |-> 0,
                                      held |-> FALSE, legacy |-> r \in used]]
        /\ seeds = IF seeded = {} THEN 0 ELSE 1
    /\ dir = EmptyDir /\ receipt = NoReceipt /\ proc = Down
    /\ verified = {}
    /\ crashes = 0 /\ writes = 0

-----------------------------------------------------------------------------
(* The container                                                           *)

Here == archive[cfg.root]
Goto(pc) == proc' = [proc EXCEPT !.pc = pc]
Exit == proc' = Down   \* the error is returned and the process ends

\* ok: on to next; otherwise the process ends, having changed nothing.
Check(at, ok, next) ==
    /\ proc.pc = at
    /\ IF ok THEN Goto(next) ELSE Exit
    /\ UNCHANGED <<pod, world, disk, verified, crashes, writes>>

\* The kubelet starts the init container until it succeeds, then the main one, again and
\* again.  A manual run, like a legacy one, is a main without an init.
StartContainer ==
    LET who == IF cfg.init /\ ~initDone THEN "init" ELSE "main" IN
    /\ proc = Down
    /\ proc' = [proc EXCEPT !.who = who, !.pc = IF who = "init" THEN "trust" ELSE "dir"]
    /\ UNCHANGED <<pod, world, disk, verified, crashes, writes>>

\* localTrustBeforeOpen
TrustOK == anchor.mode = "local" /\ anchor.root = cfg.root /\ anchor.write = "none"

\* checkArchiveMode
checkArchiveMode == IF cfg.mode = "local" THEN ~Here.legacy ELSE Here.binding = 0

\* readLocalArchive
Readable == Here.binding # 0 /\ ~Here.held

PreflightTrust == Check("trust", TrustOK, "mode")
PreflightMode  == Check("mode", checkArchiveMode, "before")

ReadBefore ==
    /\ proc.pc = "before"
    /\ IF Readable
       THEN proc' = [proc EXCEPT !.pc = "download", !.tip = Here.tip, !.binding = Here.binding]
       ELSE Exit
    /\ UNCHANGED <<pod, world, disk, verified, crashes, writes>>

\* Files of an archive that was lost or reseeded since may be gone or not; a download that
\* fails by itself ends the process like Crash.
downloadLocalRoot ==
    \E ok \in {TRUE, Here.binding = proc.binding} : Check("download", ok, "after")

ReadAfter ==
    LET same == Readable /\ Here.tip = proc.tip /\ Here.binding = proc.binding IN
    /\ Check("after", same, "again")

PreflightAgain == Check("again", TrustOK, "receipt")

\* Written aside, synced and renamed; a file left aside in staging harms nobody.
WriteReceipt ==
    /\ proc.pc = "receipt"
    /\ receipt' = [root |-> cfg.root, scope |-> scope, binding |-> proc.binding, tip |-> proc.tip]
    /\ verified' = verified \cup {<<scope, cfg.root, proc.binding>>}
    /\ Goto("dir")
    /\ UNCHANGED <<pod, world, dir, crashes, writes>>

\* checkLocalDataDir
AnyDirOK ==   \* mutant: a directory without a marker is taken as it is
    IF cfg.mode = "legacy" THEN dir.marker = NoMarker
    ELSE dir.marker # NoMarker => dir.marker.root = cfg.root

DirOK ==
    IF cfg.mode = "legacy" THEN dir.marker = NoMarker
    ELSE IF dir.marker # NoMarker THEN dir.marker.root = cfg.root
    ELSE ~dir.temp /\ dir.data = {}

checkLocalDataDir == Check("dir", DirOK, "authority")

\* localTrustBeforeOpen, or legacyLocalAuthorityGuard
CheckAuthority ==
    Check("authority", IF cfg.mode = "local" THEN TrustOK
                       ELSE ~(anchor.mode = "local" /\ anchor.root = cfg.root), "kind")

CheckKind == Check("kind", checkArchiveMode, IF cfg.mode = "local" THEN "match" ELSE "open")

\* The receipt is this Pod's, for this archive; the history may have advanced since.
WholeViewMatches ==   \* mutant: the receipt must show the history as it is
    /\ receipt # NoReceipt /\ receipt.root = cfg.root
    /\ receipt.binding = Here.binding /\ receipt.tip = Here.tip
    /\ receipt.scope = scope
    /\ dir.marker # NoMarker => dir.marker.binding = Here.binding
AnyScopeMatches ==   \* mutant: the receipt of an earlier Pod is as good
    /\ receipt # NoReceipt /\ receipt.root = cfg.root
    /\ receipt.binding = Here.binding
    /\ dir.marker # NoMarker => dir.marker.binding = Here.binding

ReceiptMatches ==
    /\ receipt # NoReceipt /\ receipt.root = cfg.root   \* validateLocalReceipt
    /\ receipt.binding = Here.binding
    /\ receipt.scope = scope                            \* validateLocalReceiptScope
    /\ dir.marker # NoMarker => dir.marker.binding = Here.binding

MatchReceipt ==
    /\ proc.pc = "match"
    /\ IF Readable /\ ReceiptMatches
       THEN proc' = [proc EXCEPT !.pc = "settled", !.binding = Here.binding]
       ELSE Exit
    /\ UNCHANGED <<pod, world, disk, verified, crashes, writes>>

CheckSettled ==
    Check("settled", TrustOK, IF dir.marker = NoMarker THEN "marker" ELSE "open")

\* writeLocalJSON in DataDir: a temporary file, then the rename.
CreateTemp ==
    /\ proc.pc = "marker"
    /\ dir' = [dir EXCEPT !.temp = TRUE]
    /\ Goto("rename")
    /\ UNCHANGED <<pod, world, receipt, verified, crashes, writes>>

RenameMarker ==
    /\ proc.pc = "rename"
    /\ dir' = [dir EXCEPT !.temp = FALSE,
                          !.marker = [root |-> cfg.root, binding |-> proc.binding]]
    /\ Goto("open")
    /\ UNCHANGED <<pod, world, receipt, verified, crashes, writes>>

\* rhiza.Open writes the data directory, and a legacy node its objects.  Init closes again
\* and ends; main goes on to serve.
Open ==
    /\ proc.pc = "open"
    /\ dir' = [dir EXCEPT !.data = @ \cup {cfg.mode}]
    /\ archive' = [archive EXCEPT ![cfg.root].legacy = @ \/ cfg.mode = "legacy"]
    /\ IF proc.who = "init"
       THEN Exit /\ initDone' = TRUE
       ELSE Goto("up") /\ UNCHANGED initDone
    /\ UNCHANGED <<cfg, scope, pods, anchor, seeds, receipt, verified, crashes, writes>>

\* A fenced write: reserved in the anchor, durable in the archive, finalized in the anchor,
\* all by the process that reserved it.
Reserve ==
    /\ proc.pc = "up" /\ TrustOK /\ writes < MaxWrites
    /\ anchor' = [anchor EXCEPT !.write = "reserved"]
    /\ writes' = writes + 1
    /\ UNCHANGED <<pod, archive, seeds, disk, proc, verified, crashes>>

Commit ==
    /\ proc.pc = "up" /\ cfg.mode = "local" /\ anchor.write = "reserved"
    /\ anchor' = [anchor EXCEPT !.write = "committed"]
    /\ archive' = [archive EXCEPT ![cfg.root].tip = @ + 1]
    /\ UNCHANGED <<pod, seeds, disk, proc, verified, crashes, writes>>

Finalize ==
    /\ proc.pc = "up" /\ cfg.mode = "local" /\ anchor.write = "committed"
    /\ anchor' = [anchor EXCEPT !.write = "none"]
    /\ UNCHANGED <<pod, archive, seeds, disk, proc, verified, crashes, writes>>

Crash ==
    /\ proc # Down /\ crashes < MaxCrashes
    /\ crashes' = crashes + 1 /\ Exit
    /\ UNCHANGED <<pod, world, disk, verified, writes>>

-----------------------------------------------------------------------------
(* The operator                                                            *)

\* A new Pod, with any configuration, on a kept or a fresh volume.
NewPod(c, keepDir, keepStage) ==
    /\ pods < MaxPods
    /\ pods' = pods + 1 /\ scope' = pods' /\ cfg' = c /\ initDone' = FALSE
    /\ Exit
    /\ dir' = IF keepDir THEN dir ELSE EmptyDir
    /\ receipt' = IF keepStage THEN receipt ELSE NoReceipt
    /\ UNCHANGED <<world, verified, crashes, writes>>

\* TERNAL_LOCAL_WRITER_GC_QUIESCENCE_ACK: the archive is left alone from the last checks to
\* the end of the process, but not necessarily while init only reads.
Quiet == proc.pc \in Preflight \cup {"down"}

\* Seeding makes a new binding, on a root without legacy objects.
Seed(r) ==
    /\ Quiet /\ seeds < MaxSeeds /\ ~archive[r].legacy
    /\ seeds' = seeds + 1
    /\ archive' = [archive EXCEPT ![r].binding = seeds', ![r].tip = 0]
    /\ UNCHANGED <<pod, anchor, disk, proc, verified, crashes, writes>>

Lose(r) ==
    /\ Quiet /\ archive[r].binding # 0
    /\ archive' = [archive EXCEPT ![r].binding = 0, ![r].tip = 0, ![r].held = FALSE]
    /\ UNCHANGED <<pod, anchor, seeds, disk, proc, verified, crashes, writes>>

Maintain(r) ==
    /\ Quiet /\ archive[r].binding # 0
    /\ archive' = [archive EXCEPT ![r].held = ~@]
    /\ UNCHANGED <<pod, anchor, seeds, disk, proc, verified, crashes, writes>>

-----------------------------------------------------------------------------

Step ==
    \/ StartContainer
    \/ PreflightTrust \/ PreflightMode \/ ReadBefore \/ downloadLocalRoot \/ ReadAfter
    \/ PreflightAgain \/ WriteReceipt
    \/ checkLocalDataDir \/ CheckAuthority \/ CheckKind \/ MatchReceipt \/ CheckSettled
    \/ CreateTemp \/ RenameMarker \/ Open

Next ==
    \/ Step \/ Reserve \/ Commit \/ Finalize \/ Crash
    \/ \E c \in Configs, keepDir, keepStage \in BOOLEAN : NewPod(c, keepDir, keepStage)
    \/ \E r \in Root : Seed(r) \/ Lose(r) \/ Maintain(r)

Spec == Init /\ [][Next]_vars

\* The kubelet and the process keep going, and a write that was begun is ended unless the
\* process is.  The operator owes nothing.
FairSpec == Spec /\ WF_vars(Step) /\ WF_vars(Commit \/ Finalize)

-----------------------------------------------------------------------------
(* Properties                                                              *)

\* "A generation root is dedicated to one mode, including after cache loss": no data
\* directory and no root ever holds both, and Local data lies under its marker
\* (checkLocalDataDir, checkArchiveMode, legacyLocalAuthorityGuard).
ModesNeverMix ==
    /\ TypeOK
    /\ \A r \in Root : ~(archive[r].binding # 0 /\ archive[r].legacy)
    /\ dir.data # Mode
    /\ "local" \in dir.data => dir.marker # NoMarker

\* The SDK is opened on Local storage only in a Pod whose own preflight downloaded and
\* checked this very archive, with the directory bound to it and no write outstanding
\* (LocalPreflightFromEnv, prepareLocalOpen).
OpensWhatWasVerified ==
    [][Open /\ cfg.mode = "local"
        => /\ <<scope, cfg.root, Here.binding>> \in verified
           /\ dir.marker = [root |-> cfg.root, binding |-> Here.binding]
           /\ anchor.write = "none"]_vars

\* Everything a start needs is in place.  Two things no restart gets past are part of it: a
\* temporary file without a marker in DataDir, and a write the anchor still waits for.
Startable ==
    /\ cfg.mode = "local" /\ cfg.init /\ anchor.mode = "local" /\ anchor.root = cfg.root
    /\ proc.pc # "up" => anchor.write = "none"
    /\ Readable /\ ~Here.legacy
    /\ IF dir.marker = NoMarker THEN dir.data = {} /\ (dir.temp => proc.pc = "rename")
                                ELSE dir.marker = [root |-> cfg.root, binding |-> Here.binding]
    /\ initDone => receipt.binding = Here.binding

\* A Pod that has what it needs comes up, however often it crashed and however far its own
\* writes moved the history since the receipt.
ComesUp == <>[]Startable => <>[](proc.pc = "up")
=============================================================================
