------------------------------ MODULE Enrollment ------------------------------
(***************************************************************************)
(* Manufacturing credentials and device enrollment: EnrollDevice reads its *)
(* way through the replay check, the credential, the batch and the serial  *)
(* under Store.mu of its own process, then commits one transaction; other  *)
(* API nodes run the same code on the same database, and agents retry with *)
(* the same key when an answer is lost.                                    *)
(*                                                                         *)
(* Granularity: each query and each transaction is one step.               *)
(* Simplifications:                                                        *)
(*  - a secret and its hash are the token or the batch itself;             *)
(*  - time is the set of credentials that have expired so far; the commit  *)
(*    compares expiries with the time taken before it, so it checks        *)
(*    nothing that the read did not;                                       *)
(*  - endpoint, account, port, tags and model have no influence here; a    *)
(*    host name is one that a serial may collide with, and a serial nobody *)
(*    asks for stands for any other name;                                  *)
(*  - every batch has the same device limit.                               *)
(***************************************************************************)
EXTENDS Naturals, FiniteSets

CONSTANTS
    Node,         \* API processes; each has its own Store.mu
    Key,          \* device public keys; an agent holds one
    Token,        \* one-use manufacturing tokens
    Batch, Prefix, PrefixOf,   \* batches and their serial prefixes
    HostKey,      \* SSH host-key fingerprints
    HostName,     \* names operators give hosts
    Ask,          \* what each agent may present: credential, serial, fingerprint
    Limit,        \* max_devices of a batch
    NoBatch, NoSerial, NoKey, NoNode,
    MaxLosses,    \* bound on answers the agents do not wait for
    MaxEdits      \* bound on hosts that operators create, rename or delete

Cred    == Token \cup Batch
Serial  == Prefix \X (1 .. Limit)
Request == [cred : Cred, serial : Serial \cup {NoSerial}, fp : HostKey]

ASSUME EnrollmentAssumption ==
    /\ Token \cap Batch = {}
    /\ HostName \subseteq Serial
    /\ PrefixOf \in [Batch -> Prefix]
    /\ Ask \in [Key -> SUBSET Request]
    /\ Limit \in Nat \ {0} /\ MaxLosses \in Nat /\ MaxEdits \in Nat
    /\ NoBatch \notin Batch /\ NoSerial \notin Serial /\ NoKey \notin Key /\ NoNode \notin Node

VARIABLES
    tokens,    \* manufacturing_tokens: [live, batch] per token
    batches,   \* manufacturing_batches: [status, used] per batch
    expired,   \* credentials whose expires_at has passed
    hosts,     \* the table hosts: id and name
    devices,   \* the table devices
    nextId,    \* the next host id
    srv,       \* each node's EnrollDevice
    dev,       \* each agent's enroll command
    enrolled,  \* history: committed enrollments
    losses, edits

tables == <<tokens, batches, hosts, devices, nextId>>
vars   == <<tables, expired, srv, dev, enrolled, losses, edits>>

Idle == [pc |-> "idle", key |-> NoKey, req |-> [serial |-> NoSerial], batch |-> NoBatch,
         used |-> 0, serial |-> NoSerial]
Rest == [pc |-> "idle", node |-> NoNode, serial |-> NoSerial, fp |-> NoKey]
Serials == Serial \cup {NoSerial}

TypeOK ==
    /\ tokens \in [Token -> [live : BOOLEAN, batch : Batch \cup {NoBatch}]]
    /\ batches \in [Batch -> [status : {"absent", "open", "closed"}, used : 0 .. Limit]]
    /\ expired \subseteq Cred
    /\ hosts \subseteq [id : Nat, name : Serial]
    /\ devices \subseteq [host : Nat, key : Key, fp : HostKey, serial : Serial,
                          state : {"manufactured", "revoked"}]
    /\ nextId \in Nat
    /\ \A m \in Node :
          \/ srv[m] = Idle
          \/ srv[m] \in [pc : {"replay", "token", "batch", "clash", "commit"}, key : Key,
                         req : Request, batch : Batch \cup {NoBatch}, used : 0 .. Limit,
                         serial : Serials]
    /\ dev \in [Key -> [pc : {"idle", "asking", "done"}, node : Node \cup {NoNode},
                        serial : Serials, fp : HostKey \cup {NoKey}]]
    /\ enrolled \subseteq [host : Nat, key : Key, cred : Cred, batch : Batch \cup {NoBatch},
                           serial : Serial, fp : HostKey]
    /\ losses \in Nat /\ edits \in Nat

-----------------------------------------------------------------------------
(* Administration, through any node whose Store.mu is free                 *)

SomeMuFree == \E m \in Node : srv[m].pc = "idle"

CreateManufacturingBatch(b) ==
    /\ SomeMuFree /\ batches[b].status = "absent"
    /\ batches' = [batches EXCEPT ![b].status = "open"]
    /\ UNCHANGED <<tokens, hosts, devices, nextId, expired, srv, dev, enrolled, losses, edits>>

\* The batch of a linked token must be open, unexpired and below its limit.
Usable(b) == batches[b].status = "open" /\ b \notin expired /\ batches[b].used < Limit

\* A token is issued at most once: its secret is random.
CreateManufacturingToken(t, b) ==
    /\ SomeMuFree /\ ~tokens[t].live /\ t \notin expired
    /\ \A e \in enrolled : e.cred # t
    /\ b # NoBatch => Usable(b)
    /\ tokens' = [tokens EXCEPT ![t] = [live |-> TRUE, batch |-> b]]
    /\ UNCHANGED <<batches, hosts, devices, nextId, expired, srv, dev, enrolled, losses, edits>>

CloseManufacturingBatch(b) ==
    /\ SomeMuFree /\ batches[b].status = "open"
    /\ batches' = [batches EXCEPT ![b].status = "closed"]
    /\ UNCHANGED <<tokens, hosts, devices, nextId, expired, srv, dev, enrolled, losses, edits>>

\* Time matters to credentials that are issued and not yet used up.
Expire(c) ==
    /\ c \notin expired
    /\ IF c \in Token THEN tokens[c].live ELSE batches[c].status = "open"
    /\ expired' = expired \cup {c}
    /\ UNCHANGED <<tables, srv, dev, enrolled, losses, edits>>

\* DeleteDevice keeps the record; DeleteHost removes the host with its devices.
DeleteDeviceRow(d) ==   \* mutant: the row is removed
    /\ SomeMuFree /\ d.state # "revoked"
    /\ devices' = devices \ {d}
    /\ UNCHANGED <<tokens, batches, hosts, nextId, expired, srv, dev, enrolled, losses, edits>>

DeleteDevice(d) ==
    /\ SomeMuFree /\ d.state # "revoked"
    /\ devices' = (devices \ {d}) \cup {[d EXCEPT !.state = "revoked"]}
    /\ UNCHANGED <<tokens, batches, hosts, nextId, expired, srv, dev, enrolled, losses, edits>>

\* Operators also make and rename hosts, under any name the unique column accepts.
Edit == SomeMuFree /\ edits < MaxEdits /\ edits' = edits + 1

NameFree(name) == \A h \in hosts : h.name # name

CreateHost(name) ==
    /\ Edit /\ NameFree(name)
    /\ hosts' = hosts \cup {[id |-> nextId, name |-> name]}
    /\ nextId' = nextId + 1
    /\ UNCHANGED <<tokens, batches, devices, expired, srv, dev, enrolled, losses>>

UpdateHost(h, name) ==
    /\ Edit /\ NameFree(name)
    /\ hosts' = (hosts \ {h}) \cup {[h EXCEPT !.name = name]}
    /\ UNCHANGED <<tokens, batches, devices, nextId, expired, srv, dev, enrolled, losses>>

DeleteHost(h) ==
    /\ Edit
    /\ hosts' = hosts \ {h}
    /\ devices' = {d \in devices : d.host # h.id}
    /\ UNCHANGED <<tokens, batches, nextId, expired, srv, dev, enrolled, losses>>

-----------------------------------------------------------------------------
(* The agent                                                               *)

\* enroll sends one request; the command is started again, after a failure or
\* not, by hand or by provisioning, with the same key.
Send(k, m, r) ==
    /\ dev[k].pc # "asking" /\ srv[m].pc = "idle"
    /\ srv' = [srv EXCEPT ![m] = [Idle EXCEPT !.pc = "replay", !.key = k, !.req = r]]
    /\ dev' = [dev EXCEPT ![k] = [Rest EXCEPT !.pc = "asking", !.node = m]]
    /\ UNCHANGED <<tables, expired, enrolled, losses, edits>>

\* The answer is lost or late.
GiveUp(k) ==
    /\ dev[k].pc = "asking" /\ losses < MaxLosses
    /\ losses' = losses + 1
    /\ dev' = [dev EXCEPT ![k] = Rest]
    /\ UNCHANGED <<tables, expired, srv, enrolled, edits>>

Waits(m) == dev[srv[m].key].pc = "asking" /\ dev[srv[m].key].node = m

Reply(m, d) ==
    /\ srv' = [srv EXCEPT ![m] = Idle]
    /\ dev' = IF Waits(m) THEN [dev EXCEPT ![srv[m].key] = d] ELSE dev

\* The handler answers with an error, or with the serial that the agent then
\* writes to its identity file beside the fingerprint it presented.
Refuse(m) == Reply(m, Rest)
Answer(m, serial) ==
    Reply(m, [pc |-> "done", node |-> NoNode, serial |-> serial, fp |-> srv[m].req.fp])

\* The agent hung up, so the request's context is cancelled before the next
\* query; a commit already handed over is not cancelled.
Abandon(m) ==
    /\ srv[m].pc \notin {"idle", "commit"} /\ ~Waits(m)
    /\ Refuse(m)
    /\ UNCHANGED <<tables, expired, enrolled, losses, edits>>

-----------------------------------------------------------------------------
(* EnrollDevice                                                            *)

Continue(m, p) == srv' = [srv EXCEPT ![m].pc = p] /\ UNCHANGED dev

\* Mutant: a known key is answered whatever identity it now presents.
SameAny(d, r) == TRUE

SameNever(d, r) == FALSE   \* mutant: a known key is always refused

\* The replay check compares the identity bound to the key.
SameIdentity(d, r) == d.fp = r.fp /\ (r.serial = NoSerial \/ r.serial = d.serial)

Replay(m) ==
    /\ srv[m].pc = "replay"
    /\ LET known == {d \in devices : d.key = srv[m].key} IN
       \/ known = {} /\ Continue(m, "token")
       \/ \E d \in known : IF SameIdentity(d, srv[m].req) THEN Answer(m, d.serial) ELSE Refuse(m)
    /\ UNCHANGED <<tables, expired, enrolled, losses, edits>>

\* The row the credential leads to: a token that was not consumed, or a batch.
Live(c)    == c \in Token => tokens[c].live
BatchOf(c) == IF c \in Batch THEN c ELSE tokens[c].batch

SerialGiven(m)     == srv[m].req.serial # NoSerial

\* A plain token needs an explicit serial; the other credentials lead to a batch.
ReadToken(m) ==
    /\ srv[m].pc = "token"
    /\ LET c == srv[m].req.cred
           plain == Live(c) /\ BatchOf(c) = NoBatch
           ok == c \notin expired /\ SerialGiven(m)
       IN
       \/ /\ plain /\ ok
          /\ srv' = [srv EXCEPT ![m].pc = "clash", ![m].serial = srv[m].req.serial]
          /\ UNCHANGED dev
       \/ /\ Live(c) /\ ~plain
          /\ srv' = [srv EXCEPT ![m].pc = "batch", ![m].batch = BatchOf(c)]
          /\ UNCHANGED dev
       \/ ~Live(c) /\ Refuse(m)
       \/ plain /\ ~ok /\ Refuse(m)
    /\ UNCHANGED <<tables, expired, enrolled, losses, edits>>

\* The batch gives the next serial of its prefix.
ReadBatch(m) ==
    /\ srv[m].pc = "batch"
    /\ LET b == srv[m].batch
           next == <<PrefixOf[b], batches[b].used + 1>>
           ok == /\ srv[m].req.cred \notin expired /\ Usable(b)
                 /\ srv[m].req.serial \in {NoSerial, next}
       IN
       \/ /\ ok
          /\ srv' = [srv EXCEPT ![m].pc = "clash", ![m].used = batches[b].used, ![m].serial = next]
          /\ UNCHANGED dev
       \/ ~ok /\ Refuse(m)
    /\ UNCHANGED <<tables, expired, enrolled, losses, edits>>

ReadClash(m) ==
    /\ srv[m].pc = "clash"
    /\ IF \E d \in devices : d.serial = srv[m].serial THEN Refuse(m) ELSE Continue(m, "commit")
    /\ UNCHANGED <<tables, expired, enrolled, losses, edits>>

\* The row counts the transaction expects: the batch is as it was read, ...
BatchConsumed(m) ==
    srv[m].batch # NoBatch =>
        /\ batches[srv[m].batch].status = "open"
        /\ batches[srv[m].batch].used = srv[m].used /\ srv[m].used < Limit


\* ... the token is still there, ...
TokenConsumed(m) == srv[m].req.cred \in Token => tokens[srv[m].req.cred].live


\* ... and the unique columns of hosts and devices accept the rows.
HostNameFree(m) == NameFree(srv[m].serial)
DeviceFree(m)   == \A d \in devices : d.key # srv[m].key /\ d.serial # srv[m].serial
Unique(m)       == HostNameFree(m) /\ DeviceFree(m)

ConsumeLate(b) == [b EXCEPT !.used = @ + 1,   \* mutant: one device late
                            !.status = IF b.used + 1 > Limit THEN "closed" ELSE @]

Consume(b) == [b EXCEPT !.used = @ + 1,
                        !.status = IF b.used + 1 >= Limit THEN "closed" ELSE @]

Commit(m) ==
    /\ srv[m].pc = "commit"
    /\ LET s == srv[m] IN
       \/ /\ BatchConsumed(m) /\ TokenConsumed(m) /\ Unique(m)
          /\ batches' = [b \in Batch |-> IF b = s.batch THEN Consume(batches[b]) ELSE batches[b]]
          /\ tokens' = [t \in Token |-> IF t = s.req.cred THEN [tokens[t] EXCEPT !.live = FALSE]
                                                          ELSE tokens[t]]
          /\ hosts' = hosts \cup {[id |-> nextId, name |-> s.serial]}
          /\ devices' = devices \cup {[host |-> nextId, key |-> s.key, fp |-> s.req.fp,
                                       serial |-> s.serial, state |-> "manufactured"]}
          /\ nextId' = nextId + 1
          /\ enrolled' = enrolled \cup {[host |-> nextId, key |-> s.key, cred |-> s.req.cred,
                                         batch |-> s.batch, serial |-> s.serial, fp |-> s.req.fp]}
          /\ Answer(m, s.serial)
       \/ /\ ~(BatchConsumed(m) /\ TokenConsumed(m) /\ Unique(m))
          /\ Refuse(m)
          /\ UNCHANGED <<tables, enrolled>>
    /\ UNCHANGED <<expired, losses, edits>>

-----------------------------------------------------------------------------

Init ==
    /\ tokens = [t \in Token |-> [live |-> FALSE, batch |-> NoBatch]]
    /\ batches = [b \in Batch |-> [status |-> "absent", used |-> 0]]
    /\ expired = {} /\ hosts = {} /\ devices = {} /\ nextId = 1
    /\ srv = [m \in Node |-> Idle]
    /\ dev = [k \in Key |-> Rest]
    /\ enrolled = {} /\ losses = 0 /\ edits = 0

EnrollDevice(m) ==
    Replay(m) \/ ReadToken(m) \/ ReadBatch(m) \/ ReadClash(m) \/ Commit(m)

Administer ==
    \/ \E b \in Batch : CreateManufacturingBatch(b) \/ CloseManufacturingBatch(b)
    \/ \E t \in Token, b \in Batch \cup {NoBatch} : CreateManufacturingToken(t, b)
    \/ \E c \in Cred : Expire(c)
    \/ \E d \in devices : DeleteDevice(d)
    \/ \E name \in HostName : CreateHost(name)
    \/ \E h \in hosts : DeleteHost(h) \/ \E name \in HostName : UpdateHost(h, name)

Next ==
    \/ Administer
    \/ \E k \in Key : GiveUp(k) \/ \E m \in Node, r \in Ask[k] : Send(k, m, r)
    \/ \E m \in Node : EnrollDevice(m) \/ Abandon(m)

Spec == Init /\ [][Next]_vars

\* Handlers finish and a device that is not enrolled is tried again with the
\* batch credential it was given.
FairSpec ==
    /\ Spec
    /\ \A m \in Node : WF_vars(EnrollDevice(m))
    /\ \A k \in Key : \A r \in {q \in Ask[k] : q.cred \in Batch} :
           SF_vars(dev[k].pc = "idle" /\ \E m \in Node : Send(k, m, r))

-----------------------------------------------------------------------------
(* Properties                                                              *)

\* The quota holds across nodes: a batch's counter is the number of devices it
\* enrolled, it never passes the limit, and no two of them got one serial.
QuotaHolds ==
    \A b \in Batch :
        LET mine == {e \in enrolled : e.batch = b} IN
        /\ batches[b].used = Cardinality(mine)
        /\ mine # {} /\ batches[b].used = Limit => batches[b].status = "closed"
        /\ \A d, e \in mine : d.serial = e.serial => d = e

\* A one-use token is consumed by exactly the enrollment it paid for: a refused
\* or abandoned attempt leaves it alive, a committed one never does.
OneUse ==
    \A t \in Token :
        LET mine == {e \in enrolled : e.cred = t} IN
        Cardinality(mine) <= 1 /\ (tokens[t].live => mine = {})

\* Device authentication is unambiguous: one device per key, per serial and per
\* host, none without its host, although operators make, rename and delete hosts
\* meanwhile and a host need not bear its device's serial; a name means one host.
OneBinding ==
    /\ \A c, d \in devices : c.key = d.key \/ c.serial = d.serial \/ c.host = d.host => c = d
    /\ \A d \in devices : \E h \in hosts : h.id = d.host
    /\ \A g, h \in hosts : g.name = h.name => g = h

\* What the tables hold between any two steps: the quota, the tokens' one use and
\* the devices' unambiguous binding, each across batches, nodes and deletions.
TablesHold == TypeOK /\ QuotaHolds /\ OneUse /\ OneBinding

\* An agent that was answered, at once or after lost answers and retries on
\* other nodes, holds the serial and the fingerprint that were bound to its key,
\* without which verifyDevice would turn it away.
AnswerIsTrue ==
    \A k \in Key : dev[k].pc = "done" =>
        \E e \in enrolled : e.key = k /\ e.serial = dev[k].serial /\ e.fp = dev[k].fp

\* A retry recovers the enrollment instead of buying a second one, and a revoked
\* device does not come back under its key: a key is enrolled again only after
\* its earlier host was deleted, and what was revoked stays so until then.
NoSilentReenrollment ==
    [][ \A d \in devices :
            \/ \E e \in devices' : e.key = d.key /\ e.host = d.host
                                   /\ (d.state = "revoked" => e.state = "revoked")
            \/ \A h \in hosts' : h.id # d.host ]_vars

\* The next serial of a batch is a device's, or the name of some host.
SerialTaken(b) ==
    LET next == <<PrefixOf[b], batches[b].used + 1>> IN
    (\E h \in hosts : h.name = next) \/ (\E d \in devices : d.serial = next)

\* A batch credential stays good up to its limit: a device that keeps trying
\* gets its answer, unless the batch was closed, used up or expired, the device
\* was enrolled under another host key meanwhile, or somebody took the batch's
\* next serial, by an explicit serial or by naming a host so.
BatchServes ==
    \A k \in Key : \A r \in {q \in Ask[k] : q.cred \in Batch /\ q.serial = NoSerial} :
        batches[r.cred].status = "open"
            ~> \/ dev[k].pc = "done"
               \/ batches[r.cred].status = "closed" \/ r.cred \in expired
               \/ \E d \in devices : d.key = k /\ d.fp # r.fp
               \/ SerialTaken(r.cred)
=============================================================================
