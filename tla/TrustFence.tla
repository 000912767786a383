------------------------------ MODULE TrustFence ------------------------------
(***************************************************************************)
(* The trust fence of the ternal store: every node keeps its replicated    *)
(* database in step with an independent record, the trust anchor, that a   *)
(* restored object-store snapshot cannot roll back.                        *)
(*                                                                         *)
(* A fenced write reserves the next epoch in the anchor (compare-and-swap  *)
(* on the resource version), executes the client's statements together    *)
(* with the update of the row trust_state, and finalizes the anchor.  A    *)
(* fenced read is bracketed by two reads of the anchor.  A starting node   *)
(* settles: it resolves the fence it finds, or reserves and completes the  *)
(* one bootstrap fence under which the schema is migrated.                 *)
(*                                                                         *)
(* Granularity: each call that leaves the process (anchor get, anchor put, *)
(* database query, database execute, request status) is one step.         *)
(* Simplifications:                                                        *)
(*  - the embedded Rhiza database is one linearizable replicated object;   *)
(*    all its queries here run at ConsistencyLinearizable;                 *)
(*  - trustMu admits one writer or many readers; readers change nothing,   *)
(*    so a serving node runs one operation at a time;                      *)
(*  - PendingEpoch is nil or Epoch + 1 (validateStructure), so a pending   *)
(*    record is one whose pid is not NoId;                                 *)
(*  - the storage binding and the recovery transition of the anchor stay   *)
(*    fixed here (see section 6 of the README).                            *)
(***************************************************************************)
EXTENDS Naturals, FiniteSets

CONSTANTS
    Node,         \* API processes, each embedding one voter of the database
    Writers,      \* nodes that receive client writes
    Readers,      \* nodes that receive client reads
    Id,           \* fresh UUIDs: request ids, which are also tokens
    NoId,         \* the empty PendingID / a missing trust_state row
    InitToken,    \* the token the deployment put into the anchor
    Starts,       \* "greenfield": nothing exists yet; "established": a restart;
                  \* "upgrade": a restart with a binary that carries a newer schema
    MaxCrashes,   \* bound on process crashes
    MaxFaults,    \* bound on calls that time out or fail
    MaxRestores   \* bound on database restores

Token == Id \cup {InitToken}

ASSUME TrustFenceAssumption ==
    /\ Writers \subseteq Node /\ Readers \subseteq Node
    /\ NoId \notin Token
    /\ InitToken \notin Id
    /\ Starts \subseteq {"greenfield", "established", "upgrade"}
    /\ MaxCrashes \in Nat /\ MaxFaults \in Nat /\ MaxRestores \in Nat

VARIABLES
    anchor,   \* trustAnchorRecord held by the ConfigMap
    legacy,   \* TRUE while the ConfigMap has the eight-key shape
    rv,       \* its resourceVersion
    put,      \* PUTs whose sender gave up; each may still be applied
    db,       \* the replicated database
    snap,     \* the object-store snapshot an operator may restore
    exec,     \* Execute requests whose sender gave up
    pc,       \* where each process is
    rec, ver, \* its local record and the resource version it was read at
    att,      \* trustStartup.attempted
    resv,     \* trustStartup.reserved
    rows,     \* result of the query of the read in progress
    floor,    \* history: what clients knew when that read checked the anchor again
    used,     \* history: UUIDs already minted
    hist,     \* history: tokens the anchor finalized
    witnessed,\* history: writes some client was told about (acknowledged or read)
    crashes, faults, restores

anchorVars == <<anchor, legacy, rv, put>>
dbVars     == <<db, snap, exec>>
localVars  == <<rec, ver, rows, floor>>
startVars  == <<att, resv>>
historyVars == <<used, hist, witnessed>>
boundVars  == <<crashes, faults, restores>>
vars == <<anchorVars, dbVars, pc, localVars, startVars, historyVars, boundVars>>

-----------------------------------------------------------------------------
(* Records                                                                 *)

Record == [epoch : Nat, token : Token, pid : Id \cup {NoId}, boot : BOOLEAN]
Pair   == [epoch : Nat, token : Token \cup {NoId}]
NoPair == [epoch |-> 0, token |-> NoId]   \* the table trust_state does not exist
Status == {"none", "committed", "rejected"}
Database == [pair : Pair, migrated : BOOLEAN, applied : SUBSET Id,
             status : [Id -> Status]]
PutRequest  == [rv : Nat, next : Record]
ExecRequest == [kind : {"create"}, id : {NoId}, base : Pair] \cup
               [kind : {"tail", "write"}, id : Id, base : Pair]

Pending(r)     == r.pid # NoId
BasePair(r)    == [epoch |-> r.epoch, token |-> r.token]
PendingPair(r) == [epoch |-> r.epoch + 1, token |-> r.pid]

\* The three records a node ever writes: a reservation, its finalization (which
\* spends Bootstrap) and the removal of a rejected reservation.
Reserve(r, id) == [r EXCEPT !.pid = id]
Finalize(r)    == [r EXCEPT !.epoch = @ + 1, !.token = r.pid, !.pid = NoId,
                            !.boot = FALSE]
Clear(r)       == [r EXCEPT !.pid = NoId]

NoRecord == [epoch |-> 0, token |-> InitToken, pid |-> NoId, boot |-> FALSE]

-----------------------------------------------------------------------------
(* The database, as the store uses it                                      *)

\* Mutant: the tail moves the trust row whatever pair it holds.
ExecutedUnguarded(d, r) ==
    IF r.kind = "create" \/ d.status[r.id] # "none" THEN {d}
    ELSE {[d EXCEPT !.pair = [epoch |-> r.base.epoch + 1, token |-> r.id],
                    !.applied = IF r.kind = "write" THEN @ \cup {r.id} ELSE @,
                    !.status[r.id] = "committed"]}

\* Every database an Execute of r may leave behind.  A request id is applied at
\* most once; a repeated one reports the recorded outcome.  The tail moves the
\* trust row only from the pair the fence was reserved on, in the same
\* transaction as the client's statements, which may also be rejected alone.
Executed(d, r) ==
    IF r.kind = "create"
    THEN {IF d.pair = NoPair THEN [d EXCEPT !.pair = r.base] ELSE d}
    ELSE IF d.status[r.id] # "none" THEN {d}
    ELSE LET accepted == [d EXCEPT !.pair = [epoch |-> r.base.epoch + 1, token |-> r.id],
                                   !.applied = IF r.kind = "write" THEN @ \cup {r.id} ELSE @,
                                   !.status[r.id] = "committed"]
             rejected == [d EXCEPT !.status[r.id] = "rejected"]
         IN  (IF d.pair = r.base THEN {accepted} ELSE {}) \cup
             (IF d.pair # r.base \/ r.kind = "write" THEN {rejected} ELSE {})

\* Whether an Execute of r that turned d into e reports MutationCommitted.
Committed(d, e, r) == IF r.kind = "create" THEN d.pair = NoPair
                                           ELSE e.status[r.id] = "committed"

-----------------------------------------------------------------------------
(* Control states                                                          *)

SettleReads == {"s_get", "s_behind", "p_verify", "p_status", "p_commit", "p_reject",
                "b_exists", "b_verify", "f_verify", "f_exists", "f_base", "f_migrate",
                "c_migrate", "u_migrate", "z_get", "z_verify", "z_migrated",
                "t_get", "t_verify"}
SettleWrites == {"b_cas", "p_final", "p_clear", "z_cas", "f_create", "f_tail"}
Settling == SettleReads \cup SettleWrites
WritePC  == {"w_verify", "w_cas", "w_exec", "w_final", "w_rejected", "w_clear"}
ReadPC   == {"r_query", "r_verify", "r_get", "r_done"}
ServePC  == {"idle"} \cup WritePC \cup ReadPC
PC       == {"down"} \cup Settling \cup ServePC

Serving(n) == pc[n] \in ServePC

TypeOK ==
    /\ anchor \in Record /\ legacy \in BOOLEAN /\ rv \in Nat
    /\ put \in SUBSET PutRequest
    /\ db \in Database /\ snap \in Database
    /\ exec \in SUBSET ExecRequest
    /\ pc \in [Node -> PC]
    /\ rec \in [Node -> Record] /\ ver \in [Node -> Nat]
    /\ att \in [Node -> Id \cup {NoId}] /\ resv \in [Node -> BOOLEAN]
    /\ rows \in [Node -> SUBSET Id] /\ floor \in [Node -> SUBSET Id]
    /\ used \in SUBSET Id /\ hist \in SUBSET Token /\ witnessed \in SUBSET Id
    /\ crashes \in Nat /\ faults \in Nat /\ restores \in Nat

-----------------------------------------------------------------------------
(* Steps a process is made of                                              *)

\* Control moves to p.  Returning from an attempt or from a client's operation
\* drops its local variables.
Goto(n, p) ==
    /\ pc' = [pc EXCEPT ![n] = p]
    /\ IF p \in {"s_get", "idle"}
       THEN /\ rec' = [rec EXCEPT ![n] = NoRecord]
            /\ ver' = [ver EXCEPT ![n] = 0]
            /\ rows' = [rows EXCEPT ![n] = {}]
            /\ floor' = [floor EXCEPT ![n] = {}]
       ELSE UNCHANGED localVars

\* anchor.get: the record and the version it carries.
Get(n, p) ==
    /\ rec' = [rec EXCEPT ![n] = anchor]
    /\ ver' = [ver EXCEPT ![n] = rv]
    /\ pc' = [pc EXCEPT ![n] = p]

\* The ConfigMap as the API server stores a PUT; put always writes the
\* composite shape.
Store(next) ==
    /\ anchor' = next
    /\ rv' = rv + 1
    /\ legacy' = FALSE
    /\ hist' = IF next.epoch > anchor.epoch THEN hist \cup {next.token} ELSE hist

\* anchor.cas of the record next: an anchor still in the legacy shape is first
\* rewritten in the composite shape, a write of its own whose version the
\* caller's write then uses; then the write is applied, or refused because the
\* version moved, or times out (and may be applied later).
Cas(n, next, ok, err) ==
    \/ /\ ver[n] = rv /\ legacy
       /\ Store(anchor)
       /\ ver' = [ver EXCEPT ![n] = rv + 1]
       /\ UNCHANGED <<pc, rec, rows, floor, put, faults>>
    \/ /\ ver[n] = rv /\ ~legacy
       /\ Store(next)
       /\ IF ok = "idle" THEN Goto(n, ok)
                         ELSE /\ rec' = [rec EXCEPT ![n] = next]
                              /\ ver' = [ver EXCEPT ![n] = rv + 1]
                              /\ pc' = [pc EXCEPT ![n] = ok]
                              /\ UNCHANGED <<rows, floor>>
       /\ UNCHANGED <<put, faults>>
    \/ /\ ver[n] # rv
       /\ Goto(n, err)
       /\ UNCHANGED <<anchor, legacy, rv, put, hist, faults>>
    \/ /\ ver[n] = rv /\ faults < MaxFaults
       /\ faults' = faults + 1
       /\ put' = put \cup {[rv |-> rv, next |-> IF legacy THEN anchor ELSE next]}
       /\ Goto(n, err)
       /\ UNCHANGED <<anchor, legacy, rv, hist>>

\* The write behind a Cas that reported success, as opposed to the rewrite of
\* the shape.
Swapped(n) == ver[n] = rv /\ ~legacy /\ rv' = rv + 1

\* db.Execute of r: committed, rejected, or an unknown outcome.
Execute(n, r, ok, rejected, unknown) ==
    \/ \E e \in Executed(db, r) :
          /\ db' = e
          /\ Goto(n, IF Committed(db, e, r) THEN ok ELSE rejected)
          /\ UNCHANGED <<exec, faults>>
    \/ /\ faults < MaxFaults
       /\ faults' = faults + 1
       /\ exec' = exec \cup {r}
       /\ Goto(n, unknown)
       /\ UNCHANGED db

\* verifyDBTrust: one query of the trust row.
Verify(n, pair, ok, err) ==
    /\ Goto(n, IF db.pair = pair THEN ok ELSE err)
    /\ UNCHANGED <<anchorVars, dbVars, startVars, historyVars, boundVars>>

-----------------------------------------------------------------------------
(* Startup: settleTrustAnchorOnce, retried until it returns nil            *)

\* A process starts with an empty trustStartup.
Open(n) ==
    /\ pc[n] = "down"
    /\ Goto(n, "s_get")
    /\ UNCHANGED <<anchorVars, dbVars, startVars, historyVars, boundVars>>

\* Reading the anchor decides what this attempt owes.
SettleGet(n) ==
    /\ pc[n] = "s_get"
    /\ \/ /\ Pending(anchor) /\ anchor.pid = att[n]       \* our own reservation
          /\ resv' = [resv EXCEPT ![n] = TRUE]
          /\ Get(n, "f_verify")
       \/ /\ Pending(anchor) /\ anchor.pid # att[n]       \* a peer's operation
          /\ Get(n, "p_verify")
          /\ UNCHANGED resv
       \/ /\ ~Pending(anchor)
          /\ Get(n, IF resv[n] THEN "t_get" ELSE "s_behind")
          /\ UNCHANGED resv
    /\ UNCHANGED <<anchorVars, dbVars, rows, floor, att, historyVars, boundVars>>

\* A peer's fence whose write is durable is converged; otherwise
\* recoverPendingTrust asks for the request's outcome.
SettlePeerFence(n) ==
    /\ pc[n] = "p_verify"
    /\ Verify(n, PendingPair(rec[n]), "c_migrate", "p_status")

\* Mutant: an unknown outcome is taken for a rejection.
RecoverStatusUnknown(n) ==
    /\ pc[n] = "p_status"
    /\ Goto(n, IF db.status[rec[n].pid] = "committed" THEN "p_commit" ELSE "p_reject")
    /\ UNCHANGED <<anchorVars, dbVars, startVars, historyVars, boundVars>>

RecoverStatus(n) ==
    /\ pc[n] = "p_status"
    /\ Goto(n, CASE db.status[rec[n].pid] = "committed" -> "p_commit"
                 [] db.status[rec[n].pid] = "rejected"  -> "p_reject"
                 [] OTHER -> "s_get")
    /\ UNCHANGED <<anchorVars, dbVars, startVars, historyVars, boundVars>>

RecoverVerify(n) ==
    \/ /\ pc[n] = "p_commit"
       /\ Verify(n, PendingPair(rec[n]), "p_final", "s_get")
    \/ /\ pc[n] = "p_reject"
       /\ Verify(n, BasePair(rec[n]), "p_clear", "s_get")

RecoverCas(n) ==
    /\ \/ pc[n] = "p_final" /\ Cas(n, Finalize(rec[n]), "idle", "s_get")
       \/ pc[n] = "p_clear" /\ Cas(n, Clear(rec[n]), "idle", "s_get")
    /\ UNCHANGED <<dbVars, startVars, used, witnessed, crashes, restores>>

\* migrationPending: the durable schema marker decides.
SettleBehind(n) ==
    /\ pc[n] = "s_behind"
    /\ Goto(n, IF db.migrated THEN "t_get"
               ELSE IF rec[n].boot THEN "b_exists" ELSE "u_migrate")
    /\ UNCHANGED <<anchorVars, dbVars, startVars, historyVars, boundVars>>

\* beginMigrationFence: an existing trust row must agree with the record; the
\* reservation id is minted once per Open and reused by every retry.
FreshAttemptIds(n) == Id \ used   \* mutant: every retry mints its own id
AttemptIds(n) == IF att[n] # NoId THEN {att[n]} ELSE Id \ used

Mint(n) ==
    \E id \in AttemptIds(n) :
        /\ att' = [att EXCEPT ![n] = id]
        /\ used' = used \cup {id}
        /\ rec' = [rec EXCEPT ![n] = Reserve(@, id)]
        /\ pc' = [pc EXCEPT ![n] = "b_cas"]
        /\ UNCHANGED <<ver, rows, floor>>

BeginFenceExists(n) ==
    /\ pc[n] = "b_exists"
    /\ \/ /\ db.pair = NoPair
          /\ Mint(n)
       \/ /\ db.pair # NoPair
          /\ Goto(n, "b_verify")
          /\ UNCHANGED <<att, used>>
    /\ UNCHANGED <<anchorVars, dbVars, resv, hist, witnessed, boundVars>>

BeginFenceVerify(n) ==
    /\ pc[n] = "b_verify"
    /\ \/ /\ db.pair = BasePair(rec[n])
          /\ Mint(n)
       \/ /\ db.pair # BasePair(rec[n])
          /\ Goto(n, "s_get")
          /\ UNCHANGED <<att, used>>
    /\ UNCHANGED <<anchorVars, dbVars, resv, hist, witnessed, boundVars>>

BeginFenceCas(n) ==
    /\ pc[n] = "b_cas"
    /\ Cas(n, rec[n], "f_verify", "s_get")
    /\ resv' = IF Swapped(n) THEN [resv EXCEPT ![n] = TRUE] ELSE resv
    /\ UNCHANGED <<dbVars, att, used, witnessed, crashes, restores>>

\* finishMigrationFence on the pending record rec[n].
FinishFenceVerify(n) ==
    /\ pc[n] = "f_verify"
    /\ Verify(n, PendingPair(rec[n]), "c_migrate", "f_exists")

PrepareExists(n) ==
    /\ pc[n] = "f_exists"
    /\ Goto(n, IF db.pair # NoPair THEN "f_base"
               ELSE IF rec[n].boot THEN "f_create" ELSE "s_get")
    /\ UNCHANGED <<anchorVars, dbVars, startVars, historyVars, boundVars>>

PrepareCreate(n) ==
    /\ pc[n] = "f_create"
    /\ Execute(n, [kind |-> "create", id |-> NoId, base |-> BasePair(rec[n])],
               "f_base", "s_get", "s_get")
    /\ UNCHANGED <<anchorVars, snap, startVars, historyVars, crashes, restores>>

PrepareVerify(n) ==
    /\ pc[n] = "f_base"
    /\ Verify(n, BasePair(rec[n]), "f_migrate", "s_get")

\* migrate: idempotent, one marker at most, and it ends by proving it.  A statement that
\* fails is CallFails; a pre-Go schema, which it refuses, is not among the initial states.
Migrate(n, p) ==
    /\ db' = [db EXCEPT !.migrated = TRUE]
    /\ Goto(n, p)
    /\ UNCHANGED <<anchorVars, snap, exec, startVars, historyVars, boundVars>>

FinishFenceMigrate(n) == pc[n] = "f_migrate" /\ Migrate(n, "f_tail")

\* completeMigrationFence: the tail runs under the reservation's own id.
CompleteFenceTail(n) ==
    /\ pc[n] = "f_tail"
    /\ Execute(n, [kind |-> "tail", id |-> rec[n].pid, base |-> BasePair(rec[n])],
               "z_get", "s_get", "s_get")
    /\ UNCHANGED <<anchorVars, snap, startVars, historyVars, crashes, restores>>

\* catchUpMigration, before convergeFence finalizes or before the last checks
\* of an established node.
CatchUpMigration(n) ==
    \/ pc[n] = "c_migrate" /\ Migrate(n, "z_get")
    \/ pc[n] = "u_migrate" /\ Migrate(n, "t_get")

\* finalizeTrustFence: the anchor is re-read, then both halves are proved.
FinalizeFenceGet(n) ==
    /\ pc[n] = "z_get"
    /\ IF anchor.epoch = rec[n].epoch /\ anchor.pid = rec[n].pid
       THEN Get(n, "z_verify") /\ UNCHANGED <<rows, floor>>
       ELSE Goto(n, "s_get")
    /\ UNCHANGED <<anchorVars, dbVars, startVars, historyVars, boundVars>>

FinalizeFenceVerify(n) ==
    /\ pc[n] = "z_verify"
    /\ Verify(n, PendingPair(rec[n]), "z_migrated", "s_get")

FinalizeFenceMigrated(n) ==
    /\ pc[n] = "z_migrated"
    /\ Goto(n, IF db.migrated THEN "z_cas" ELSE "s_get")
    /\ UNCHANGED <<anchorVars, dbVars, startVars, historyVars, boundVars>>

FinalizeFenceCas(n) ==
    /\ pc[n] = "z_cas"
    /\ Cas(n, Finalize(rec[n]), "idle", "s_get")
    /\ UNCHANGED <<dbVars, startVars, used, witnessed, crashes, restores>>

\* finishTrustStartup; the node then serves (enableTrust).
FinishStartupGet(n) ==
    /\ pc[n] = "t_get"
    /\ IF Pending(anchor) THEN Goto(n, "s_get")
                          ELSE Get(n, "t_verify") /\ UNCHANGED <<rows, floor>>
    /\ UNCHANGED <<anchorVars, dbVars, startVars, historyVars, boundVars>>

FinishStartupVerify(n) ==
    /\ pc[n] = "t_verify"
    /\ Verify(n, BasePair(rec[n]), "idle", "s_get")

-----------------------------------------------------------------------------
(* rhizaSQL.execute: a fenced write of a settled node                      *)

\* Mutant: an unresolved pending write does not stop the next one.
WriteGetPending(n) ==
    /\ pc[n] = "idle" /\ n \in Writers
    /\ Get(n, "w_verify")
    /\ UNCHANGED <<anchorVars, dbVars, rows, floor, startVars, historyVars, boundVars>>

WriteGet(n) ==
    /\ pc[n] = "idle" /\ n \in Writers
    /\ ~Pending(anchor)
    /\ Get(n, "w_verify")
    /\ UNCHANGED <<anchorVars, dbVars, rows, floor, startVars, historyVars, boundVars>>

WriteVerify(n) ==
    /\ pc[n] = "w_verify"
    /\ \/ /\ db.pair = BasePair(rec[n])
          /\ \E id \in Id \ used :
                /\ used' = used \cup {id}
                /\ rec' = [rec EXCEPT ![n] = Reserve(@, id)]
          /\ pc' = [pc EXCEPT ![n] = "w_cas"]
          /\ UNCHANGED <<ver, rows, floor>>
       \/ /\ db.pair # BasePair(rec[n])
          /\ Goto(n, "idle")
          /\ UNCHANGED used
    /\ UNCHANGED <<anchorVars, dbVars, startVars, hist, witnessed, boundVars>>

\* Mutant: a failed reservation does not stop the write.
WriteReserveIgnored(n) ==
    /\ pc[n] = "w_cas"
    /\ Cas(n, rec[n], "w_exec", "w_exec")
    /\ UNCHANGED <<dbVars, startVars, used, witnessed, crashes, restores>>

WriteReserve(n) ==
    /\ pc[n] = "w_cas"
    /\ Cas(n, rec[n], "w_exec", "idle")
    /\ UNCHANGED <<dbVars, startVars, used, witnessed, crashes, restores>>


\* An unknown outcome leaves the anchor pending.
WriteExecute(n) ==
    /\ pc[n] = "w_exec"
    /\ Execute(n, [kind |-> "write", id |-> rec[n].pid, base |-> BasePair(rec[n])],
               "w_final", "w_rejected", "idle")
    /\ UNCHANGED <<anchorVars, snap, startVars, historyVars, crashes, restores>>

\* Mutant: the client is told before the anchor is finalized.
WriteFinalizeEarly(n) ==
    /\ pc[n] = "w_final"
    /\ Cas(n, Finalize(rec[n]), "idle", "idle")
    /\ witnessed' = witnessed \cup {rec[n].pid}
    /\ UNCHANGED <<dbVars, startVars, used, crashes, restores>>

\* Only here is the client told that its write is committed.
WriteFinalize(n) ==
    /\ pc[n] = "w_final"
    /\ Cas(n, Finalize(rec[n]), "idle", "idle")
    /\ witnessed' = IF Swapped(n) THEN witnessed \cup {rec[n].pid} ELSE witnessed
    /\ UNCHANGED <<dbVars, startVars, used, crashes, restores>>

WriteRejected(n) ==
    /\ pc[n] = "w_rejected"
    /\ Verify(n, BasePair(rec[n]), "w_clear", "idle")

WriteClear(n) ==
    /\ pc[n] = "w_clear"
    /\ Cas(n, Clear(rec[n]), "idle", "idle")
    /\ UNCHANGED <<dbVars, startVars, used, witnessed, crashes, restores>>

-----------------------------------------------------------------------------
(* rhizaSQL.QueryContext: a fenced read of a settled node                  *)

ReadGet(n) ==
    /\ pc[n] = "idle" /\ n \in Readers
    /\ ~Pending(anchor)
    /\ Get(n, "r_query")
    /\ UNCHANGED <<anchorVars, dbVars, rows, floor, startVars, historyVars, boundVars>>

ReadQuery(n) ==
    /\ pc[n] = "r_query"
    /\ rows' = [rows EXCEPT ![n] = db.applied]
    /\ pc' = [pc EXCEPT ![n] = "r_verify"]
    /\ UNCHANGED <<anchorVars, dbVars, rec, ver, floor, startVars, historyVars, boundVars>>

ReadVerify(n) ==
    /\ pc[n] = "r_verify"
    /\ Verify(n, BasePair(rec[n]), "r_get", "idle")

\* The second read of the anchor must find the first one's version and pair.
ReadOnce(n) == TRUE   \* mutant: the anchor is not read again
ReadUnchanged(n) == ver[n] = rv /\ ~Pending(anchor) /\ BasePair(anchor) = BasePair(rec[n])

ReadGetAgain(n) ==
    /\ pc[n] = "r_get"
    /\ \/ /\ ReadUnchanged(n)
          /\ pc' = [pc EXCEPT ![n] = "r_done"]
          /\ floor' = [floor EXCEPT ![n] = witnessed]
          /\ witnessed' = witnessed \cup rows[n]
          /\ UNCHANGED <<rec, ver, rows>>
       \/ /\ ~ReadUnchanged(n)
          /\ Goto(n, "idle")
          /\ UNCHANGED witnessed
    /\ UNCHANGED <<anchorVars, dbVars, startVars, used, hist, boundVars>>

ReadReturn(n) ==
    /\ pc[n] = "r_done"
    /\ Goto(n, "idle")
    /\ UNCHANGED <<anchorVars, dbVars, startVars, historyVars, boundVars>>

-----------------------------------------------------------------------------
(* The environment                                                         *)

\* A call fails without having reached the other side: the attempt or the
\* client's operation returns an error, except where settling only asks whether
\* the pending pair is durable: there a failed query counts as "not proved".
AfterFailure(p) == IF p = "p_verify" THEN "p_status"
                   ELSE IF p = "f_verify" THEN "f_exists"
                   ELSE IF p \in Settling THEN "s_get" ELSE "idle"

CallFails(n) ==
    /\ pc[n] \notin {"down", "idle", "r_done"}
    /\ faults < MaxFaults
    /\ faults' = faults + 1
    /\ Goto(n, AfterFailure(pc[n]))
    /\ UNCHANGED <<anchorVars, dbVars, startVars, historyVars, crashes, restores>>

\* A process dies; its trustStartup dies with it.
Crash(n) ==
    /\ pc[n] # "down"
    /\ crashes < MaxCrashes
    /\ crashes' = crashes + 1
    /\ pc' = [pc EXCEPT ![n] = "down"]
    /\ rec' = [rec EXCEPT ![n] = NoRecord]
    /\ ver' = [ver EXCEPT ![n] = 0]
    /\ rows' = [rows EXCEPT ![n] = {}]
    /\ floor' = [floor EXCEPT ![n] = {}]
    /\ att' = [att EXCEPT ![n] = NoId]
    /\ resv' = [resv EXCEPT ![n] = FALSE]
    /\ UNCHANGED <<anchorVars, dbVars, historyVars, faults, restores>>

\* A PUT whose sender gave up reaches the API server.
LatePut ==
    \E m \in put :
        /\ put' = put \ {m}
        /\ IF m.rv = rv THEN Store(m.next) ELSE UNCHANGED <<anchor, legacy, rv, hist>>
        /\ UNCHANGED <<dbVars, pc, localVars, startVars, used, witnessed, boundVars>>

\* An Execute whose sender gave up is ordered by the database after all.
LateExecute ==
    \E r \in exec :
        /\ exec' = exec \ {r}
        /\ db' \in Executed(db, r)
        /\ UNCHANGED <<anchorVars, snap, pc, localVars, startVars, historyVars, boundVars>>

\* A backup is taken, and later restored under the cluster.
Backup ==
    /\ restores < MaxRestores
    /\ snap # db
    /\ snap' = db
    /\ UNCHANGED <<anchorVars, db, exec, pc, localVars, startVars, historyVars, boundVars>>

Restore ==
    /\ restores < MaxRestores
    /\ restores' = restores + 1
    /\ db' = snap
    /\ UNCHANGED <<anchorVars, snap, exec, pc, localVars, startVars, historyVars,
                   crashes, faults>>

-----------------------------------------------------------------------------

\* A greenfield deployment applies the anchor in the legacy shape with
\* Bootstrap set, beside an empty database; a restart finds both established, an
\* upgrade with the schema marker of the older binary.
Init ==
    /\ \E s \in Starts :
          /\ anchor = [epoch |-> 0, token |-> InitToken, pid |-> NoId,
                       boot |-> (s = "greenfield")]
          /\ legacy = (s = "greenfield")
          /\ db = [pair |-> IF s = "greenfield" THEN NoPair
                                               ELSE [epoch |-> 0, token |-> InitToken],
                   migrated |-> (s = "established"),
                   applied |-> {}, status |-> [id \in Id |-> "none"]]
    /\ rv = 1 /\ put = {} /\ exec = {} /\ snap = db
    /\ pc = [n \in Node |-> "down"]
    /\ rec = [n \in Node |-> NoRecord] /\ ver = [n \in Node |-> 0]
    /\ att = [n \in Node |-> NoId] /\ resv = [n \in Node |-> FALSE]
    /\ rows = [n \in Node |-> {}] /\ floor = [n \in Node |-> {}]
    /\ used = {} /\ hist = {InitToken} /\ witnessed = {}
    /\ crashes = 0 /\ faults = 0 /\ restores = 0

Settle(n) ==
    \/ Open(n) \/ SettleGet(n)
    \/ SettlePeerFence(n) \/ RecoverStatus(n) \/ RecoverVerify(n) \/ RecoverCas(n)
    \/ SettleBehind(n) \/ BeginFenceExists(n) \/ BeginFenceVerify(n) \/ BeginFenceCas(n)
    \/ FinishFenceVerify(n) \/ PrepareExists(n) \/ PrepareCreate(n) \/ PrepareVerify(n)
    \/ FinishFenceMigrate(n) \/ CompleteFenceTail(n) \/ CatchUpMigration(n)
    \/ FinalizeFenceGet(n) \/ FinalizeFenceVerify(n) \/ FinalizeFenceMigrated(n)
    \/ FinalizeFenceCas(n) \/ FinishStartupGet(n) \/ FinishStartupVerify(n)

Write(n) ==
    \/ WriteGet(n) \/ WriteVerify(n) \/ WriteReserve(n) \/ WriteExecute(n)
    \/ WriteFinalize(n) \/ WriteRejected(n) \/ WriteClear(n)

Read(n) == ReadGet(n) \/ ReadQuery(n) \/ ReadVerify(n) \/ ReadGetAgain(n) \/ ReadReturn(n)

Environment == LatePut \/ LateExecute \/ Backup \/ Restore

Next ==
    \/ \E n \in Node : Settle(n) \/ Write(n) \/ Read(n) \/ CallFails(n) \/ Crash(n)
    \/ Environment

Spec == Init /\ [][Next]_vars

\* Scheduling: a live process keeps retrying its settlement (the retry delay is
\* finite) and the deployment keeps starting it; nothing obliges clients to send
\* operations, operators to restore, or lost calls to arrive.
FairSpec == Spec /\ \A n \in Node : WF_vars(Settle(n))

-----------------------------------------------------------------------------
(* Properties                                                              *)

\* The anchor only moves forward: its epoch never decreases and grows by one,
\* only from a reservation and to that reservation's id; a pair is never
\* replaced within its epoch; a reservation is never replaced by another; and
\* the deployment's Bootstrap, once spent, never comes back.
AnchorAdvances ==
    [][ /\ anchor'.epoch \in {anchor.epoch, anchor.epoch + 1}
        /\ anchor'.epoch = anchor.epoch => anchor'.token = anchor.token
        /\ anchor'.epoch # anchor.epoch =>
               Pending(anchor) /\ anchor'.token = anchor.pid /\ ~Pending(anchor')
        /\ Pending(anchor) /\ Pending(anchor') => anchor'.pid = anchor.pid
        /\ anchor'.boot => anchor.boot ]_anchor

\* A read that returns holds every write some client had been told about, on
\* whatever node, up to the moment QueryContext read the anchor for the second
\* time, also when the database was restored from a backup meanwhile: the read
\* fails closed instead of returning older rows.
ReadsAreFresh == \A n \in Node : pc[n] = "r_done" => floor[n] \subseteq rows[n]

\* A database that agrees with a settled anchor holds every witnessed write.
TrustedIsComplete ==
    ~Pending(anchor) /\ db.pair = BasePair(anchor) => witnessed \subseteq db.applied

\* No row is visible in the database unless its write was finalized by the
\* anchor or is the one the anchor has pending: a write whose reservation was
\* cleared as rejected, or whose reservation never landed, leaves nothing.
NoUnanchoredRows == db.applied \subseteq hist \cup {anchor.pid}

\* The rows are those the anchor answers for, no fewer and no more.
RowsAreAnchored == TrustedIsComplete /\ NoUnanchoredRows

\* Until a restore, the database is exactly at the anchor's pair or at the pair
\* the anchor has pending: a crash, a lost answer or a competing node never
\* puts the two records further than one write apart.
PairsAgree ==
    restores = 0 => db.pair \in {NoPair, BasePair(anchor), PendingPair(anchor)}

\* A node serves, and an anchor without Bootstrap leaves its first pair, only
\* after the schema and the trust row are durable: finalizeTrustFence cannot
\* close a fence, the bootstrap's or an upgrade's, before the migration it was
\* reserved for.
ServingIsMigrated ==
    restores = 0 /\ ((\E n \in Node : Serving(n)) \/ (~anchor.boot /\ anchor.epoch > 0))
        => db.migrated /\ db.pair # NoPair

\* Seen by its clients the fence is one store, TrustedStore, on which no crash,
\* lost call, competing node or restored backup shows: the anchor's finalized ids
\* are what took effect, its reservation is the write in doubt.
Promise == INSTANCE TrustedStore WITH
    WriteId <- Id, None <- NoId, Reader <- Node,
    settled <- hist \ {InitToken}, doubt <- anchor.pid, told <- witnessed,
    answer <- [n \in Node |-> IF pc[n] = "r_done" THEN rows[n] ELSE {}]
ImplementsTrustedStore == Promise!Spec

\* While no process crashes, every node settles, whatever call of the bootstrap
\* fails or loses its answer: a reservation whose answer was lost stays the
\* process's own, so no node waits for it forever.
Settles == \A n \in Node : <>(Serving(n))
=============================================================================
