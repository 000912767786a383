# Formal models of Ternal

Ternal (`src/`) is a self-hosted SSH access control plane: API processes that
share one replicated database, an agent on every device, a command-line client.
This directory models the parts of it whose correctness depends on the order of
steps of several processes, checks the models with TLC on small instances, and
proves the central facts with TLAPS for every size.

`tlc -config X.cfg M` runs a configuration of `PROJECT.json`, `tlapm M.tla`
checks a proof module. `PROJECT.json` maps every definition to the lines it
models, every property to a mutant of the code that breaks it, and every hazard
to the properties that would catch it.

## 1. Inventory

| component | state it keeps | operations | interacts through |
| --- | --- | --- | --- |
| trust fence (`internal/store/store.go`, `rhiza_sql.go`) | local record and version, startup attempt | open, settle, bootstrap, fenced `Execute` and `Query`, recovery of a pending write | anchor (compare-and-swap), database |
| trust anchor (`trust_anchor*.go`) | ConfigMap: epoch, token, pending id, Bootstrap; resource version | get, conditional put | HTTP calls that may be lost or applied late |
| recovery anchor, anchor service | storage binding, recovery transition | begin, complete, verify | anchor, storage receipts |
| `ctxRWMutex` | readers, writer, waiting writers, broadcast channel | RLock, RUnlock, Lock, Unlock, cancellation | shared memory |
| key publication (`store.go`, `api.go`) | `authorized_keys_snapshots` and their grants | snapshot queries, publish, read back, acknowledge | database; several nodes |
| agent key synchronization (`cmd/ternal-agent`) | `authorized_keys`, state file, lock | purge, fetch, verify, replace files, acknowledge | HTTP, file system, other agent processes |
| SSH access grants, revocation | `access_grants`, device and host state | issue, expire, `DeleteDevice`, `DeleteHost` | database |
| enrollment (`EnrollDevice`, tokens, batches) | tokens, batches, hosts, devices | create, close, enroll, replay | database; agents that retry |
| heartbeat, discovery, relay admission | endpoint discovery, relay grants | touch, renew, allow | database, relay |
| agent supervisor | child process, tickers | start, heartbeat, stop | process signals, API |
| policy engine (`internal/core`) | none | match selectors, evaluate | called by the API |
| sessions, OIDC, CSRF | signed cookies, `revoked_sessions` | browser and device login, middleware, logout, cleanup | database, provider, clocks of the nodes |
| `ternalctl` | session file | login, logout, ssh, ssh-config, proxy with its waits | API, ssh, pigeons |
| local single-node storage (`local_preflight.go`) | receipt, mode marker, data directory | preflight, restore, checks before open | archive, anchor, Pods |
| web UI, configuration, operator identity, device signatures | none | rendering, parsing, signing | API |

What is hard here: several API nodes whose `Store.mu` excludes nobody on another
node; calls whose outcome the caller never learns; a database that can be
restored to an earlier state under running processes; two files that cannot be
replaced atomically; retries of requests that were already carried out; a
cancellable lock written by hand. The list, line by line, is under `hazards`.

What makes each part correct:

- trust fence: database and anchor never drift further apart than one write; no
  acknowledged write is lost and no stale row returned, after a restore either;
- mutex: exclusion, exact counters, no lost wake-up, writers not kept out;
- keys: a generation names one body, the device converges to the live keys,
  `key_installed` is true when it is set, revocation bounds every line;
- enrollment: quota and one-use hold across nodes, key, serial and host identify
  one device, a retry recovers what was committed;
- synchronization lock: one writer at a time, no lasting residue of a crash;
- device: no admission and no child for a revoked device, both for a live one,
  and no revocation reported that has neither an operator nor the device's clock
  behind it;
- sessions: no revoked session is served on any node, one login one session;
- access: a grant is decided by the policies and the device of its moment, the
  transport opens with an installed key, and every command of the client ends;
- local storage: the two storage modes never mix, and what is opened is what was
  verified in this Pod.

## 2. Modules

### TrustFence, TrustedStore (`MCTrustFence`, `TrustFenceProofs`)

State: the anchor record with its resource version and the PUTs whose sender
gave up; the database as the store sees it (trust pair, schema, applied writes,
status per request id), a snapshot that may be restored and the Execute requests
in flight; per node a program counter, the local record and version, the startup
attempt; history variables for minted ids, finalized tokens and writes some
client was told about. Each call that leaves the process is a step. The labels
follow the functions: `s_*` is `settleTrustAnchorOnce`, `p_*` the resolution of
a peer's pending record, `b_*`, `f_*` and `z_*` the beginning, completion and
finalization of the bootstrap fence, `c_*` and `u_*` `catchUpMigration`, `t_*`
`finishTrustStartup`, `w_*` `Execute`, `r_*` `Query`.
A call may fail, time out with its effect happening later or never, or lose its
process; a restore replaces the database at any moment.

The Rhiza database is one linearizable object here, because every statement the
fence depends on runs at linearizable consistency; it is external code.

`TrustedStore` is what the fence promises, without anchor, versions or crashes:
at most one write is in doubt, it is accepted or rejected once and for good, and
a read is answered while none is in doubt, with every accepted write but the
migration of the schema, which has no rows. `ImplementsTrustedStore` is the
refinement: the ids the anchor finalized are the accepted writes, its reservation
is the write in doubt, the answers are the rows of nodes past their second look
at the anchor. A write that returned an error may still be in doubt; the store
says so instead of losing or inventing it.

### CtxRWMutex, RWLock (`MCCtxRWMutex`, `LockProofs`)

`ctxRWMutex` section by section: every critical section under the inner mutex is
a step, and a goroutine may be cancelled, woken or asleep between two of them. A
captured channel is modelled by what its waiter can see, whether it is closed.
`RWLock` is the abstract lock (many readers or one writer); `ImplementsRWLock`
is the refinement.

### KeySync (`MCKeySync`, `KeySyncProofs`)

One device and one account: grants and keys change through any node; a node
verifies the device, runs the two snapshot queries, publishes, reads the
generation back and answers; the agent purges, fetches, judges rollback by its
state file, replaces the two files one after the other and acknowledges; the
acknowledgement verifies and marks as two steps. Agent crashes, abandoned
requests, revocation, host deletion and re-enrollment can fall anywhere. A body
is the set of its lines with their expiry, a digest is the body.

### Enrollment (`MCEnrollment`, `EnrollmentProofs`)

`EnrollDevice` query by query (replay check, credential, batch, serial clash)
and its transaction, whose row counts and unique columns are separate operators,
on several nodes; creation and closing of tokens and batches, expiry,
`DeleteDevice`; agents that lose the answer and come back with the same key,
through another node, or with another fingerprint. Operators create, rename and
delete hosts (`CreateHost`, `UpdateHost`, `DeleteHost`) in between, so a host need
not bear its device's serial, and may bear the serial some batch gives out next.

### SyncFiles, SyncLock (`MCSyncLock`, `LockProofs`)

`acquireSyncLock` in both builds around the file part of `syncAuthorizedKeys`,
system call by system call: flock, or `Mkdir`, the staleness check, `RemoveAll`,
`Mkdir` again and the write of `owner.json`, each of which may fail. `site` selects the build and the
processes of a device. `SyncFiles` declares the two files and what every
synchronization owes them.

### RelayAdmission, Supervisor (`MCSupervisor`, `SupervisorProofs`)

`RelayAdmission` is the server's side of one device: the heartbeat handler in
its three store calls (`verifyDevice`, `TouchDevice`, `RenewRelayAccessGrant`),
two requests in hand at once, and operators who revoke, delete, edit and enroll
between any two of them. `Supervisor` extends it with `supervise` of the agent:
the child and its exit channel, the ticker, the key synchronization with its
possible answers, 401, signals, `stopChild` with its grace period, the status
file. A request the agent stopped waiting for (`HangUp`) may go on at the server.
The device signs with its own clock, which is `drift` ahead of the nodes' and may
be set anew at any time (`ClockSet`); `verifyDevice` refuses a timestamp outside
`MaxClockSkew` either way. Time passes while the agent waits, up to `CallTime`, so
a clock is accurate when what it signs is still fresh a call later. `strayed` is
the history of a clock that was not. The clock is accurate at first; a device that
starts with a wrong one has had it set before its first `Boot`.

### Sessions (`MCSessions`, `SessionsProofs`)

A session lives in its cookie; the database keeps revocations only and drops
them after expiry and retention. The middleware (expiry, lookup, expiry again),
logout, the sweep, the browser login with its state cookie, the device flow with
its growing interval and the session file of `ternalctl` are steps on nodes
whose clocks differ by up to the retention, which is what the retention is for.

### PolicyMatch, ClientAccess (`MCClientAccess`, `ClientAccessProofs`)

`PolicyMatch` is `internal/core`: the wildcard matcher as the code does it, part
by part, beside what a wildcard means (`GlobAgrees`), selectors, principals,
accounts and expiry. `ClientAccess` uses it in the handlers for listing, ssh
commands, ssh-config, relay grants and key status, one step per store call, with
`ternalctl` on the other side: `ssh` whose ProxyCommand starts `proxy`, an
exported config, the command shown by the web UI. A time is kept as what is left
of it. The agent keeps the keys of one account (`AgentUser`).

### LocalPreflight (`MCLocalPreflight`, `LocalPreflightProofs`)

The init container (`LocalPreflightFromEnv`, `LocalRestoreFromEnv`) and the main
process (`prepareLocalOpen`) of a server on single-node storage, one step per
read of the anchor, the archive or the disk and per file operation that a crash
can separate. Pods come with any configuration and kept or fresh volumes; the
archive is reseeded, lost or held in maintenance while nobody has it open.

### How they fit together

`CtxRWMutex` is the lock `Store.mu` that KeySync and Enrollment take as given
(`MuFree`, `SomeMuFree`): one handler at a time per node, none across nodes.
TrustFence justifies that a statement or transaction of the other modules is one
step of one database, and has the fence that LocalPreflight only looks at.
SyncLock takes from KeySync that a generation names one body, and shows what
KeySync assumes: no two synchronizations overlap (for the exception see the
known limits). ClientAccess takes publication and acknowledgement from KeySync as
two steps, and Supervisor the key synchronization as one. Supervisor is the
composition of agent and server over RelayAdmission's requests.

## 3. Runs

| run | instance | shows |
| --- | --- | --- |
| `fence` | 2 nodes on a fresh, restarted or upgraded deployment, both reading and writing, 2 ids, 1 crash, 2 faults, 1 restore | the two records stay within one write, nobody serves before the schema is durable, reads hold every witnessed write, the rows are those the anchor answers for, the anchor only advances; refinement of `TrustedStore` |
| `settle` | 2 nodes, 4 ids, 2 faults, fairness | every node finishes its startup |
| `mutex` | 4 goroutines, each reads and writes, fairness | counters, wake-ups, refinement of `RWLock`; a sleeper moves on unless a writer gets in, and readers do not keep the writers out |
| `single` | 1 node, 2 grants, 1 key change, deletion and re-enrollment, 1 loss | publication is current, `key_installed` is true, files crash-consistent and never rolled back |
| `ha` | 2 nodes, 1 user with a pre-hardening line, 1 key change, revocation, 1 loss, fairness | one body per generation, revocation bounds, convergence |
| `race` | 2 nodes, 2 devices, 1 token, 1 batch of 2 whose prefix an explicit serial shares, 1 loss, 1 host created, renamed or deleted, fairness | quota, one-use, bindings, replay; a device that keeps trying is answered |
| `synclock` | 3 processes under flock, or 1 on Windows; 3 generations, 3 faults, fairness | no rollback, no false claim, no lasting residue |
| `device` | 1 device enrolled up to twice, a clock that may jump, 2 requests at the server, 2 acts of administration, 1 fault, 2 starts of the agent, 1 death of the child, fairness | no admission of a revoked device, no heartbeat undoes a revocation, truthful status and no orphan, child and admission follow the device |
| `sessions` | 2 nodes one retention apart, 2 sessions, 2 logins, 2 requests, 1 fault, fairness | no revoked session is served, logout reports only what is committed, the last login wins, polling ends |
| `access` | 1 user, 2 accounts, 1 policy of 2 contents, 3 host rows, 1 run of each kind, 1 act of administration, 1 fault, fairness | no grant on a dead device, no grant without a policy, the transport has its key, the command ends, the matcher agrees with its meaning on all texts up to 5 letters |
| `local` | 2 roots, 4 configurations, 3 Pods, 2 seedings, 2 crashes, 1 write, fairness | modes never mix, only verified archives are opened, a Pod that has what it needs comes up |
| `reenroll` (violation) | 1 node, 1 re-enrollment, fairness | the agent rejects the new host's snapshots as rollback |

Bounds. The conflicts are between two nodes, two devices or two readers and two
writers, so two of each (four goroutines, three processes) are enough for them
to meet; one crash or loss suffices to separate any two steps, and `fence` and
`settle` have two faults because a late PUT must meet a second failing call. Ids
allow a bootstrap or upgrade and a write, or two competing writes; in `settle`,
where nobody writes, a retry of each node. The clock runs just long enough for a
grant, an admission or a session to expire. In `access` one tick is 30 seconds,
so the limits of the code (300, 120 and 30 seconds) keep their proportions: 10,
4 and 1 ticks. In `device` two administrative acts allow a deletion with
re-enrollment or a revocation with an edit of the host; window and call take one
tick, the clock is right and may jump two ticks ahead, before the first start or at
any later moment. A clock that is slow, or at the edge of the window, is left to the
proof, which is for any drift. The name
operators give in `race` is the batch's second serial: a new host, or the one
enrolled first, takes it before the batch gives it out. Node, id and grant symmetry is used in safety runs only. Deadlock is not checked where the bounds
let the system come to rest; the mutex run checks it.

Fairness. `settle`: a live process keeps retrying its settlement (the retry
delay is finite) and the deployment keeps starting it; lost calls need not arrive. `mutex`: goroutines run, holders unlock
(each use is `defer`red), and nobody is obliged to call or cancel. `ha`: the
supervisor synchronizes on each heartbeat and handlers finish; users,
administrators and the clock owe nothing. `race`: handlers finish, and a device
that is not enrolled is tried again with its batch credential, strongly fair
because nodes are busy in between. `synclock`: processes retry and ten minutes
pass eventually. `device`: the supervisor's own
steps, its ticker and handlers go on; signal and exit, which compete with the ticker
in one select, do not lose to it for ever, as Go's select picks at random.
`sessions`: time passes, the poller wakes, handlers finish. `access`: the client
and the clock go on, the server and the helper owe nothing, either may hang.
`local`: the kubelet restarts what exits, and a write that was begun is ended
unless its process is.

Type correctness of TrustFence, CtxRWMutex and SyncLock is proved and not
model-checked again; elsewhere the type invariant is a conjunct of one of the invariants.

Limits of the properties. `InstalledIsTrue` excludes a device that was deleted
and enrolled again, where an acknowledgement delayed across both could meet the
same generation and body, and a grant without a line in the acknowledged
snapshot (known limits). `ServingIsMigrated` and `PairsAgree` speak of the time
before a restore, after which the store must refuse, not agree. `BatchServes`
has an exception, `SerialTaken`: if the next serial of a batch is already enrolled,
by a batch with the same prefix or by an explicit serial, or is the name of a host
an operator made or renamed, the batch refuses every device until that host is
gone, since only success advances its counter. With two
processes that retry without pause, the Windows lock can also livelock (each
steals the other's bare directory); agents retry once per heartbeat, so
`CatchesUp` is checked with one.

## 4. Findings and known limits

Run `reenroll` has a counterexample to a comment, quoted in `PROJECT.json`:
`store.go:1022-1025` promises a clean slate after deletion, but the agent's state
file outlives it.

Known limits of the code, met while modelling. The models behave this way too;
the properties above are stated so that they say what does hold.

- `store.go:1290-1293`: `Store.mu` is held "so a concurrent grant change cannot
  slip between the read and the publication", but another node's transactions do
  not take it. `PublicationIsCurrent` holds for one node and fails for two; the
  next cycle repairs it (`Converges`, run `ha`).
- `rhiza_sql.go:249`: a write whose finalization failed leaves the anchor pending,
  and running nodes refuse reads and writes until some process starts and settles
  it; `Settles` is about that start, in a run without writers.
- `store.go:1279`: the grants of a snapshot include those of a user without a
  key. If the key is registered between publication and acknowledgement, the
  grant is marked installed although the device has no line for it.
- `synclock_stale.go:13-16`: on Windows `owner.json` is written after the lock
  directory, so a second process steals a lock that is being taken, both run, and
  the older snapshot may be written last.
- `api.go:771-773`: relay grants authorize "the account this connection will
  actually use", but `cmdProxy` sends the host's default account in both
  requests, also when the command of the web UI or an older exported config logs
  in as another one.
- `local_preflight.go:166`: a write pending in the anchor makes every start on
  single-node storage refuse, also when the write is durable in the archive;
  `docs/configuration.md:299` speaks of a restart that can recover it.
- `local_preflight.go:393`: a crash between the temporary file and the rename of
  the mode marker leaves a directory that is neither empty nor marked, which is
  refused until the volume is replaced.
- `ternalctl/main.go:295`: a login that ends while a logout waits for its answer
  loses its session file to the logout; the session stays valid.
- `main.go:408`, `main.go:422` of the agent: any 401 counts as revocation. A clock
  more than five minutes off (`deviceauth.go:81-88`, `api.go:1182`), like a replaced
  endpoint identity or SSH host key, which the models leave out, makes `supervise`
  report "revoked", stop its child and exit, although the device is enrolled and
  nobody revoked it. `ReportsTruly` names the clock as the second cause.
- `store.go:986`: a host status "revoked" written by PUT on a live device lasts
  until its next heartbeat.

## 5. Proofs

All theorems hold for every choice of the constants that satisfies the named
`ASSUME` of the component module.

`LockProofs` has the proofs about the two locks. For `CtxRWMutex`, from
`ProcAssumption` (finitely many goroutines):
the inductive invariant is `TypeOK /\ Counted /\ Exclusive /\ SleepersHaveCause`:
`Counted` alone fails for `LockAgain`, which must know that the writer it turns
into a holder was counted, and exclusion needs the exact counts, because `Lock`
tests fields and not processes. Cardinality lemmas describe one process changing
its label. Theorems: `TypeCorrect`, `CountersExact`, `NoLostWakeup`,
`MutexIsRWLock` (the step simulation of `RWLock`).

`TrustFenceProofs`, from `TrustFenceAssumption`.
The invariant has a part for the anchor with the PUTs in flight, for the local
record of each node, for the database, for the startup fields, for the history
and for the bounds. Its core is `Knows(n)`: if the version a node holds is
still current, its local record is the anchor's, or that record with the
reservation it is about to put. Without it a compare-and-swap, sent or late, could install
anything. Resource versions only grow, so a PUT whose version still matches
replaces the very record it was computed from: `CasStep`. Lemmas then take one
operation each (`SettleStep`, `WriteStep`, `ReadStep`, `FaultStep`). Theorems:
`TypeCorrect` and `AnchorOnlyAdvances` (`Spec => AnchorAdvances`).

Over this invariant, `NextKind` reduces the thirty-odd actions to the few kinds of
steps that matter (a node goes back, looks, mints, reserves; the anchor takes its
next record; a request is lost, runs, runs late; backup, restore), and four more
invariants are proved kind by kind:

- `OwnInv`: who may still execute what. A write in flight is the anchor's
  reservation, on the anchor's pair, and has not run; a bootstrap id never becomes
  a write's; a node about to finalize, or a PUT in flight that does, finds the
  reservation spent, and one that clears finds that it left no row. Without this
  a late Execute could add a row to a reservation already cleared.
- `RowsInv`: there are sets X and Y of rows, those of the anchor's pair and those
  of its reservation, and every database at either pair, the current or the
  backed-up one, holds exactly them; a read whose version is still current has X or
  cannot be verified any more. X and Y are witnesses that each kind of step
  replaces: a write that runs adds its row to Y, a finalization makes Y the new X.
- `PairInv`: until a restore, the database is at the anchor's pair or its
  reservation's; whatever has an outcome ran on the migrated schema; a position
  before a finalization or a removal knows that outcome.
- `ExactInv`: `RowsInv` says the rows belong together, not that none is missing.
  A database at the anchor's pair has a row for every finalized id, except the
  deployment's token and possibly one migration (`Full`); at the reservation's
  pair, for that one too; a read about to return has them all; and an id about to
  be reserved, by a node or by a PUT in flight, was never finalized.

Theorems: `RowsAlwaysAnchored` (from the first two), `ReadsAlwaysFresh`,
`PairsAlwaysAgree`, `ServingOnlyMigrated`, and `FenceIsTrustedStore` (`Spec =>
ImplementsTrustedStore`): `NextPromise` maps each kind of step to one of the
store's. A reservation begins a write, which `ExactInv` shows to be a new one; the
anchor's next record accepts or rejects it, whoever wrote it and however late; a
verified read responds, with the rows `ExactInv` shows to be complete; all else is
invisible, or an answer returned or lost with its process.

For `SyncLock`, which `LockProofs` takes in as an instance `L` with the hypothesis
`L!Parameters`, the formula of `SyncLockAssumption`: the invariant says that a process
between acquisition and release holds the lock (`WorkersHold`), that what it
fetched is still at least as new as the file it will replace (`StillEntitled`,
the fact that two simultaneous workers would break), and that the state file is
not ahead of the keys. `StateClaimsInstalled` and `NoRollback` assume
`SoundSites`: any number of processes under flock, at most one where the lock is
a directory, the build for which section 4 shows the guarantee to fail;
`SyncLockTyped` does not. `NoRollback` states `SyncNeverRollsBack`, of which
`StateClaimsInstalled` is the half about the state file.

`SupervisorProofs`, from `SupervisorAssumption` and `RelayAssumption`. A server's part
(a request past verification found a device; the request the agent waits for is no
older than a call and, unless the clock has strayed, was signed by an accurate one;
without a usable device an operator has cut it) and an agent's part
(wherever a 401 has got to, in the answer, the tick or the status file, it began
with an operator or a strayed clock; outside the supervised region no child). The
middle fact, `Timely`, is needed because the handler also refuses timestamps outside
its window: it shows that a slow call alone does not take an accurate clock out of
it. Theorems: `RevokedStaysOut`,
`SupervisorReportsTruly`, `RevocationIsFinal`.

`SessionsProofs`, from the assumptions of `Sessions`, of which one matters:
clocks differ by at most the retention. A swept revocation is then of a session
every clock finds expired (`SweptIsExpired`), and a request that overlooked a
revocation stops at the second expiry check (`RequestsFit`). Theorems:
`RevokedIsNeverServed`, `LogoutConfirmed`, `OnlyLatestLogin` (through
`JarIsLatest`: the state cookie is the login begun last).

`EnrollmentProofs`, from the assumptions of `Enrollment`. What a handler carries
from one query to the next (`ServersFit`) says nothing about the present, since
other nodes do not share its lock; the invariant is about the tables and their
history (`BatchesFit`, `HistoryFits`, the quota as a cardinality), and the proof
shows that the row counts of the transaction reject every stale plan, and that
`CreateHost` and `UpdateHost`, which add a host or rename one, leave every device
its host (`HostsChange`). Theorems:
`TablesAlwaysHold`, `AnswersAreTrue`, `NoReenrollment`.

`KeySyncProofs`, from the assumptions of `KeySync`, in three layers. `GenInv`: the row of
a host is at least as new as every answer given for it, and the agent only works
on accepted answers not older than its file. `TimeInv`: nothing expires later
than a lifetime after now, or after the revocation. `NodeInv`, for one node: what
a handler read under `Store.mu` is still what is live, and every acknowledgement
is behind the file. Theorems: `FilesStayConsistent`, `RevocationIsBounded`,
`NoKeyRollback`, `NoEquivocation` for any number of nodes;
`OneBodyPerGeneration` when no host is deleted (`MaxReenroll = 0`; generations
start over after a deletion, and answers for a deleted host are outside
`NoEquivocation`); `PublishesWhatIsLive` and `InstalledMeansInstalled` for one
node (`OneNode`), as section 4 explains.

`ClientAccessProofs`, from `AccessAssumption` (which spells out the shape of the
rows and rules an operator may enter). `IInv` says where every request and the
client are: a request past its policy check was covered or an administrator's,
the request the client waits for is the one it sent, a dead device has no grant
worth anything. On top of it, `TimeFits` gives for each wait of the client how
long its grant still lasts at least, so that each next wait fits.
Theorems: `DeadDeviceHasNothing`, `NoGrantWithoutPolicy`, and
`FlightHasItsKey` under `LongEnough`: a key grant outlives the key wait and four
calls, a relay grant one call (300 against 120 and 30 seconds in the code).

`LocalPreflightProofs`, from `LocalAssumption`. A process of a Pod checks one thing
at a time, so the invariant (`Established`) says what each check, once passed,
still means at every later position. Shared state: a root is for one mode
(`Dedicated`), local data lies under the marker and legacy data never does
(`Marked`), a receipt stands for a checkpoint that was downloaded whole
(`Receipted`). The process: the checks of directory and archive still hold, the
archive it matched is the one in the bucket and was downloaded by this Pod, and no
write waits since its last look at the anchor (`StillChecked`, `StillMatched`,
`StillSettled`). The archive may be reseeded, lost or held up to there; from the
last checks on the operator has promised to leave it alone (`Quiet`, the
`TERNAL_LOCAL_WRITER_GC_QUIESCENCE_ACK` the code demands). Theorems:
`OneModeEverywhere` (`Spec => []ModesNeverMix`) and `OpenIsVerified` (`Spec =>
OpensWhatWasVerified`), for any number of roots, configurations, Pods, seedings
and crashes.

Only model-checked, because fairness and ENABLED are outside the prover's reach:
`Settles`, `NobodyStarves`, `Converges`, `BatchServes`, `CatchesUp`,
`FollowsTheDevice`, `LoginEnds`, `RunEnds`, `ComesUp`. And `MatcherIsGlob`, which
is an induction over texts.

## 6. Open

`RecoveryAnchor`: the recovery transition of the storage binding next to the
trust pair, composed with TrustFence's record.

## 7. Not modelled

Cryptography (signatures, hashes, TLS, OIDC tokens) is taken as perfect. HTTP
routing, JSON and configuration parsing, file modes and ownership, audit rows
and the web pages are sequential code without state of their own that these
properties depend on. The replication protocol and the object store of Rhiza,
the transport, and the kernel are external. The recovery coordinator is a library
outside the repository; `trust_anchor_composite.go`, `anchor_service.go` and
`recovery_verifier.go` validate and forward its records; they would be a
part of the anchor (section 6). In Supervisor, errors of status writes and a
SIGKILL of the agent itself are left out; in Sessions, a sweep of more than 100 rows.
