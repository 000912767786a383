---------------------------- MODULE RelayAdmission ----------------------------
(***************************************************************************)
(* What the API server keeps about one device: host, device record and the *)
(* relay admission of its endpoint.  Heartbeats verify the device, touch   *)
(* it and renew its admission in three separate store calls; operators     *)
(* revoke, delete, edit and re-enroll between them, on any node.           *)
(*                                                                         *)
(* Granularity: one step per store call; each is one transaction.          *)
(* Simplifications:                                                        *)
(*  - one device; every enrollment gets a new host id, and device and host *)
(*    ids stand for each other (Enrollment shows the binding);             *)
(*  - a signature, an endpoint and a fingerprint are right: the device     *)
(*    presents the identity it enrolled; discovery travels with the status;*)
(*  - time advances in ticks and the nodes' clocks agree; the device's is  *)
(*    off by a drift, which it signs its requests with.                    *)
(***************************************************************************)
EXTENDS Integers, FiniteSets

CONSTANTS
    MaxHosts,    \* bound on enrollments
    Slot,        \* requests the server may have in hand at once
    TTL,         \* lifetime of a relay admission
    MaxClockSkew,\* window in which a heartbeat's timestamp is accepted
    CallTime,    \* how long the device waits for an answer
    Drift,       \* how far the device's clock may be off
    Edits,       \* statuses an operator may write into a host
    MaxTime, MaxAdmin, MaxFaults   \* bounds: ticks, administration, faults

ASSUME RelayAssumption ==
    /\ MaxHosts \in Nat \ {0}
    /\ 0 \notin Slot /\ TTL \in Nat \ {0} /\ MaxClockSkew \in Nat
    /\ CallTime \in Nat /\ Drift \subseteq Int
    /\ Edits \subseteq {"manufactured", "starting", "healthy", "revoked"}
    /\ MaxTime \in Nat /\ MaxAdmin \in Nat /\ MaxFaults \in Nat

Host == 1 .. MaxHosts   \* host ids, in the order of enrollment

VARIABLES
    now,       \* the nodes' clock
    drift,     \* how far the device's clock is ahead of it
    hosts,     \* hosts.status by id, or absent
    devices,   \* devices.state by host id, or absent
    enrolled,  \* how many host ids have been given out
    relay,     \* relay_access_grants
    reqs,      \* heartbeats the server works on
    wait,      \* the request the agent waits for, or 0
    ans,       \* the answer it got
    cut,       \* history: the device was revoked or deleted at some time
    strayed,   \* history: the device's clock was off by too much at some time
    admin, faults

tables == <<hosts, devices, enrolled, relay>>
net    == <<reqs, wait, ans>>
clocks == <<now, drift, strayed>>

Idle == [pc |-> "idle", ts |-> 0, sent |-> 0, status |-> "none", host |-> 0]

Status == {"manufactured", "starting", "healthy", "revoked"}
Answer == {"none", "ok", "unauthorized", "failed"}

RelayTypeOK ==
    /\ now \in 0 .. MaxTime /\ drift \in Drift /\ strayed \in BOOLEAN
    /\ hosts \in [Host -> Status \cup {"absent"}]
    /\ devices \in [Host -> {"absent", "manufactured", "revoked"}]
    /\ enrolled \in Host
    /\ relay \subseteq [host : Host, exp : Nat]
    /\ reqs \in [Slot -> [pc : {"idle", "verify", "touch", "renew"}, ts : Int, sent : 0 .. MaxTime,
                          status : {"none", "starting", "healthy"}, host : Host \cup {0}]]
    /\ wait \in Slot \cup {0} /\ ans \in Answer
    /\ cut \in BOOLEAN
    /\ admin \in 0 .. MaxAdmin /\ faults \in 0 .. MaxFaults

\* A clock so near that whatever is signed by it is still fresh a call later.
Accurate(d) == d >= CallTime - MaxClockSkew /\ d <= MaxClockSkew

RelayInit ==
    /\ now = 0 /\ drift \in {d \in Drift : Accurate(d)} /\ strayed = FALSE
    /\ hosts = [h \in Host |-> IF h = 1 THEN "manufactured" ELSE "absent"]
    /\ devices = hosts
    /\ enrolled = 1
    /\ relay = {}
    /\ reqs = [s \in Slot |-> Idle] /\ wait = 0 /\ ans = "none"
    /\ cut = FALSE
    /\ admin = 0 /\ faults = 0

\* The EXISTS clause of both grant statements and the join of the relay's query.
LiveHostOnly(h) == hosts[h] \notin {"absent", "revoked"}   \* mutant: device state forgotten
Live(h) ==
    /\ hosts[h] \notin {"absent", "revoked"}
    /\ devices[h] \notin {"absent", "revoked"}

-----------------------------------------------------------------------------
(* Administration                                                          *)

Admin == admin < MaxAdmin /\ admin' = admin + 1

DeleteDevice(h) ==
    /\ Admin /\ devices[h] = "manufactured"
    /\ devices' = [devices EXCEPT ![h] = "revoked"]
    /\ hosts' = [hosts EXCEPT ![h] = "revoked"]
    /\ relay' = {g \in relay : g.host # h}
    /\ cut' = TRUE
    /\ UNCHANGED <<clocks, enrolled, net, faults>>

DeleteHost(h) ==
    /\ Admin /\ hosts[h] # "absent"
    /\ hosts' = [hosts EXCEPT ![h] = "absent"]
    /\ devices' = [devices EXCEPT ![h] = "absent"]
    /\ relay' = {g \in relay : g.host # h}
    /\ cut' = TRUE
    /\ UNCHANGED <<clocks, enrolled, net, faults>>

\* PUT /hosts overwrites the status column and leaves the device alone.
UpdateHost(h, status) ==
    /\ Admin /\ hosts[h] \notin {"absent", status}
    /\ hosts' = [hosts EXCEPT ![h] = status]
    /\ UNCHANGED <<clocks, devices, enrolled, relay, net, cut, faults>>

\* A serial has one device record at most, so a revoked device must be deleted
\* with its host first; the new host has a new id.
EnrollDevice ==
    /\ Admin /\ enrolled + 1 \in Host
    /\ \A g \in Host : devices[g] = "absent"
    /\ enrolled' = enrolled + 1
    /\ hosts' = [hosts EXCEPT ![enrolled'] = "manufactured"]
    /\ devices' = [devices EXCEPT ![enrolled'] = "manufactured"]
    /\ UNCHANGED <<clocks, relay, net, cut, faults>>

-----------------------------------------------------------------------------
(* The heartbeat handler                                                   *)

\* The answer reaches the agent only while it waits for this request.
Reply(s, a) ==
    /\ reqs' = [reqs EXCEPT ![s] = Idle]
    /\ IF wait = s THEN wait' = 0 /\ ans' = a ELSE UNCHANGED <<wait, ans>>

Fault == faults < MaxFaults /\ faults' = faults + 1

\* 503 or 500: the store refused or failed.
StoreFailsAs401(s) ==   \* mutant: a failed lookup is an authentication failure
    /\ reqs[s].pc # "idle" /\ Fault
    /\ Reply(s, "unauthorized")
    /\ UNCHANGED <<clocks, tables, cut, admin>>

StoreFails(s) ==
    /\ reqs[s].pc # "idle" /\ Fault
    /\ Reply(s, "failed")
    /\ UNCHANGED <<clocks, tables, cut, admin>>

Fresh(ts) == ts >= now - MaxClockSkew /\ ts <= now + MaxClockSkew

\* GetDeviceBySerial finds at most one record.
Usable(h) == devices[h] = "manufactured"

VerifyDevice(s) ==
    /\ reqs[s].pc = "verify"
    /\ IF Fresh(reqs[s].ts) /\ \E h \in Host : Usable(h)
       THEN /\ reqs' = [reqs EXCEPT ![s].pc = "touch", ![s].ts = 0,
                                       ![s].host = CHOOSE h \in Host : Usable(h)]
            /\ UNCHANGED <<wait, ans>>
       ELSE Reply(s, "unauthorized")
    /\ UNCHANGED <<clocks, tables, cut, admin, faults>>

\* Three conditional statements; fewer than three rows is an error.
TouchAnyHost(s) ==   \* mutant: the device's state is not part of the conditions
    LET h == reqs[s].host IN
    /\ reqs[s].pc = "touch"
    /\ IF hosts[h] # "absent"
       THEN /\ hosts' = [hosts EXCEPT ![h] = reqs[s].status]
            /\ IF reqs[s].status = "healthy"
               THEN reqs' = [reqs EXCEPT ![s].pc = "renew"] /\ UNCHANGED <<wait, ans>>
               ELSE Reply(s, "ok")
       ELSE Reply(s, "failed") /\ UNCHANGED hosts
    /\ UNCHANGED <<clocks, devices, enrolled, relay, cut, admin, faults>>

TouchDevice(s) ==
    LET h == reqs[s].host IN
    /\ reqs[s].pc = "touch"
    /\ IF Usable(h)
       THEN /\ hosts' = [hosts EXCEPT ![h] = reqs[s].status]
            /\ IF reqs[s].status = "healthy"
               THEN reqs' = [reqs EXCEPT ![s].pc = "renew"] /\ UNCHANGED <<wait, ans>>
               ELSE Reply(s, "ok")
       ELSE Reply(s, "failed") /\ UNCHANGED hosts
    /\ UNCHANGED <<clocks, devices, enrolled, relay, cut, admin, faults>>

RenewRelayAccessGrant(s) ==
    LET h == reqs[s].host IN
    /\ reqs[s].pc = "renew"
    /\ IF Live(h)
       THEN /\ relay' = {g \in relay : g.host # h} \cup {[host |-> h, exp |-> now + TTL]}
            /\ Reply(s, "ok")
       ELSE Reply(s, "failed") /\ UNCHANGED relay
    /\ UNCHANGED <<clocks, hosts, devices, enrolled, cut, admin, faults>>

\* A request nobody waits for any more has a cancelled context and may stop anywhere.
Abandon(s) ==
    /\ reqs[s].pc # "idle" /\ wait # s
    /\ reqs' = [reqs EXCEPT ![s] = Idle]
    /\ UNCHANGED <<clocks, tables, wait, ans, cut, admin, faults>>

\* RelayEndpointAllowed, which the relay asks before it accepts an endpoint.
RelayEndpointAllowed == \E g \in relay : g.exp > now /\ Live(g.host)
=============================================================================
