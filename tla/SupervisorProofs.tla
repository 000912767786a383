--------------------------- MODULE SupervisorProofs ---------------------------
(***************************************************************************)
(* Proofs about the heartbeat handler and the supervisor, for any number   *)
(* of enrollments, requests in hand, operators' actions, faults and ticks. *)
(* The invariant has a server's part, about the requests it works on, and  *)
(* an agent's part, about the child and about the origin of every 401.     *)
(***************************************************************************)
EXTENDS Supervisor, TLAPS

\* A request past verification has found a device, and one in hand has a status.
InHand ==
    \A s \in Slot :
        /\ reqs[s].pc # "idle" => reqs[s].status # "none"
        /\ reqs[s].pc \in {"touch", "renew"} => reqs[s].host \in Host

\* The request the agent waits for is no older than a call may take, and unless the
\* device's clock has strayed it was signed by an accurate one.
Timely ==
    \A s \in Slot : wait = s =>
        /\ reqs[s].sent <= now /\ now <= reqs[s].sent + CallTime
        /\ reqs[s].pc = "verify" => strayed \/ Accurate(reqs[s].ts - reqs[s].sent)

\* A clock that is too far off has strayed.
ClockKnown == strayed \/ Accurate(drift)

\* Without a usable device an operator has revoked or deleted it.
CutByOperator == cut \/ \E h \in Host : Usable(h)

ServerInv ==
    RelayTypeOK /\ RevokedNotAdmitted /\ InHand /\ Timely /\ ClockKnown /\ CutByOperator

\* Wherever a 401 has got to, it began with an operator or a wrong clock.
EveryRefusalIsReal ==
    ans = "unauthorized" \/ beat = "unauthorized" \/ why = "revoked"
        \/ file.service = "revoked" => cut \/ strayed

\* Outside the supervised region there is no child and no pending exit; inside
\* there is one or the other.
OneChild ==
    IF pc \in {"down", "hello", "spawn", "backoff"}
    THEN kids = 0 /\ ~exit /\ file.child # "running"
    ELSE (kids = 1 /\ ~exit) \/ (kids = 0 /\ exit)

IInv == TypeOK /\ ServerInv /\ EveryRefusalIsReal /\ OneChild

-----------------------------------------------------------------------------
(* The server's steps                                                      *)

Req == [pc : {"idle", "verify", "touch", "renew"}, ts : Int, sent : 0 .. MaxTime,
        status : {"none", "starting", "healthy"}, host : Host \cup {0}]

\* A step may bring a 401 to the agent only when the device is cut or its clock
\* has strayed.
NoFalseRefusal ==
    /\ (cut => cut') /\ (strayed => strayed')
    /\ ans' = "unauthorized" => ans = "unauthorized" \/ cut' \/ strayed'

\* A free slot is a request of its type.
LEMMA IdleType == Idle \in Req /\ Idle.pc = "idle"
BY RelayAssumption DEF Idle, Req

\* Writing one request keeps the table's type and changes nothing else.
LEMMA OneRequest ==
    ASSUME reqs \in [Slot -> Req], NEW s \in Slot, NEW r \in Req,
           reqs' = [reqs EXCEPT ![s] = r]
    PROVE  reqs' \in [Slot -> Req] /\ reqs'[s] = r /\ \A q \in Slot \ {s} : reqs'[q] = reqs[q]
OBVIOUS

\* An answer ends a request; the agent gets it only if it waits for it.
LEMMA ReplyKeeps ==
    ASSUME ServerInv, NEW s \in Slot, NEW a \in Answer, Reply(s, a), UNCHANGED clocks
    PROVE  /\ reqs' \in [Slot -> Req] /\ wait' \in Slot \cup {0} /\ ans' \in Answer
           /\ InHand' /\ Timely'
           /\ wait # s => ans' = ans
           /\ wait = s => ans' = a
<1>1. reqs \in [Slot -> Req]
  BY DEF ServerInv, RelayTypeOK, Req
<1>2. reqs' = [reqs EXCEPT ![s] = Idle]
  BY DEF Reply
<1>3. reqs' \in [Slot -> Req] /\ reqs'[s] = Idle /\ \A q \in Slot \ {s} : reqs'[q] = reqs[q]
  BY <1>1, <1>2, IdleType, OneRequest
<1>4. /\ wait' \in Slot \cup {0} /\ ans' \in Answer
      /\ wait' # 0 => wait' = wait /\ wait # s
  BY DEF Reply, ServerInv, RelayTypeOK
<1>5. InHand'
  BY <1>3, IdleType DEF ServerInv, InHand
<1>6. Timely'
  <2> SUFFICES ASSUME NEW q \in Slot, wait' = q
               PROVE  /\ reqs'[q].sent <= now' /\ now' <= reqs'[q].sent + CallTime
                      /\ reqs'[q].pc = "verify" =>
                             strayed' \/ Accurate(reqs'[q].ts - reqs'[q].sent)
    BY DEF Timely, Accurate
  <2>1. wait = q /\ reqs'[q] = reqs[q] /\ UNCHANGED <<now, strayed>>
    BY <1>3, <1>4, RelayAssumption DEF clocks
  <2> QED
    BY <2>1 DEF ServerInv, Timely
<1> QED
  BY <1>3, <1>4, <1>5, <1>6 DEF Reply

\* DeleteDevice and DeleteHost take the admissions with the device.
LEMMA CutKeeps ==
    ASSUME ServerInv, NEW h \in Host, DeleteDevice(h) \/ DeleteHost(h)
    PROVE  ServerInv' /\ NoFalseRefusal
<1> USE RelayAssumption DEF DeleteDevice, DeleteHost, Admin, ServerInv, RelayTypeOK, net, Answer, clocks
<1>1. RelayTypeOK'
  <2>1. CASE DeleteDevice(h)
    BY <2>1 DEF Status
  <2>2. CASE DeleteHost(h)
    BY <2>2 DEF Status
  <2> QED
    BY <2>1, <2>2
<1>2. RevokedNotAdmitted'
  <2> SUFFICES ASSUME NEW g \in relay' PROVE Usable(g.host)'
    BY DEF RevokedNotAdmitted
  <2>1. g \in relay /\ g.host # h /\ g.host \in Host
    OBVIOUS
  <2>2. devices'[g.host] = devices[g.host]
    BY <2>1
  <2> QED
    BY <2>1, <2>2 DEF RevokedNotAdmitted, Usable
<1>3. InHand' /\ Timely' /\ ClockKnown' /\ CutByOperator'
  BY DEF InHand, Timely, Accurate, clocks, ClockKnown, CutByOperator
<1> QED
  BY <1>1, <1>2, <1>3 DEF NoFalseRefusal

\* PUT /hosts writes a status and nothing that admission depends on.
LEMMA UpdateHostKeeps ==
    ASSUME ServerInv, NEW h \in Host, NEW status \in Edits, UpdateHost(h, status)
    PROVE  ServerInv' /\ NoFalseRefusal
<1> USE RelayAssumption DEF UpdateHost, Admin, ServerInv, RelayTypeOK, net, Answer, clocks
<1>1. RelayTypeOK'
  BY DEF Status
<1>2. RevokedNotAdmitted' /\ InHand' /\ Timely' /\ ClockKnown' /\ CutByOperator'
  BY DEF RevokedNotAdmitted, InHand, Timely, Accurate, clocks, ClockKnown, CutByOperator, Usable
<1> QED
  BY <1>1, <1>2 DEF NoFalseRefusal

\* A new enrollment finds no admission left of the old one.
LEMMA EnrollKeeps ==
    ASSUME ServerInv, EnrollDevice
    PROVE  ServerInv' /\ NoFalseRefusal
<1> USE RelayAssumption DEF EnrollDevice, Admin, ServerInv, RelayTypeOK, net, Answer, clocks
<1>1. RelayTypeOK'
  BY DEF Status
<1>2. RevokedNotAdmitted'
  BY DEF RevokedNotAdmitted, Usable
<1>3. InHand' /\ Timely' /\ ClockKnown' /\ CutByOperator'
  BY DEF InHand, Timely, Accurate, clocks, ClockKnown, CutByOperator, Usable
<1> QED
  BY <1>1, <1>2, <1>3 DEF NoFalseRefusal

\* A 401 to the waiting agent means that no usable device was found, or that its
\* timestamp is outside the window, which an accurate clock's is not within a call.
LEMMA VerifyKeeps ==
    ASSUME ServerInv, NEW s \in Slot, VerifyDevice(s)
    PROVE  ServerInv' /\ NoFalseRefusal
<1> USE RelayAssumption DEF ServerInv
<1>0. UNCHANGED <<clocks, hosts, devices, enrolled, relay, cut, admin, faults>>
  BY DEF VerifyDevice, tables
<1>1. RevokedNotAdmitted' /\ ClockKnown' /\ CutByOperator'
  BY <1>0 DEF clocks, RevokedNotAdmitted, ClockKnown, Accurate, CutByOperator, Usable
<1>2. CASE Fresh(reqs[s].ts) /\ \E h \in Host : Usable(h)
  <2> DEFINE c == CHOOSE h \in Host : Usable(h)
             r == [reqs[s] EXCEPT !.pc = "touch", !.ts = 0, !.host = c]
  <2>1. reqs' = [reqs EXCEPT ![s] = r] /\ UNCHANGED <<wait, ans>>
    BY <1>2 DEF VerifyDevice, RelayTypeOK
  <2>2. c \in Host
    BY <1>2
  <2> HIDE DEF c
  <2>3. r \in Req /\ r.pc = "touch" /\ r.host \in Host /\ r.status = reqs[s].status
        /\ r.sent = reqs[s].sent
    <3>1. reqs[s] \in Req
      BY DEF Req, RelayTypeOK
    <3>2. 0 \in Int
      OBVIOUS
    <3> QED
      BY <2>2, <3>1, <3>2 DEF Req
  <2>4. reqs' \in [Slot -> Req] /\ reqs'[s] = r /\ \A q \in Slot \ {s} : reqs'[q] = reqs[q]
    BY <2>1, <2>3, OneRequest DEF RelayTypeOK, Req
  <2>5. reqs[s].pc = "verify"
    BY DEF VerifyDevice
  <2> HIDE DEF r
  <2>6. InHand' /\ Timely'
    BY <1>0, <2>1, <2>3, <2>4, <2>5 DEF InHand, Timely, Accurate, clocks
  <2> QED
    BY <1>0, <1>1, <2>1, <2>4, <2>6 DEF RelayTypeOK, NoFalseRefusal, Req, clocks
<1>3. CASE ~(Fresh(reqs[s].ts) /\ \E h \in Host : Usable(h))
  <2>1. Reply(s, "unauthorized")
    BY <1>3 DEF VerifyDevice
  <2>2. /\ reqs' \in [Slot -> Req] /\ wait' \in Slot \cup {0} /\ ans' \in Answer
        /\ InHand' /\ Timely'
        /\ wait # s => ans' = ans
    BY <1>0, <2>1, ReplyKeeps DEF Answer
  <2>3. wait = s => cut \/ strayed
    <3>1. /\ reqs[s].ts \in Int /\ reqs[s].sent \in Int /\ now \in Int
          /\ reqs[s].pc = "verify"
      BY DEF VerifyDevice, RelayTypeOK
    <3>2. ASSUME wait = s, ~strayed PROVE Fresh(reqs[s].ts)
      BY <3>1, <3>2 DEF Timely, Accurate, Fresh
    <3> QED
      BY <1>3, <3>2 DEF CutByOperator
  <2> QED
    BY <1>0, <1>1, <2>2, <2>3 DEF RelayTypeOK, NoFalseRefusal, Req, clocks
<1> QED
  BY <1>2, <1>3

\* The touch writes the host of a usable device only.
LEMMA TouchKeeps ==
    ASSUME ServerInv, NEW s \in Slot, TouchDevice(s)
    PROVE  ServerInv' /\ NoFalseRefusal
<1> USE RelayAssumption DEF ServerInv
<1>0. UNCHANGED <<clocks, devices, enrolled, relay, cut, admin, faults>>
  BY DEF TouchDevice
<1>1. RevokedNotAdmitted' /\ ClockKnown' /\ CutByOperator'
  BY <1>0 DEF clocks, RevokedNotAdmitted, ClockKnown, Accurate, CutByOperator, Usable
<1>2. hosts' \in [Host -> Status \cup {"absent"}]
  <2>1. reqs[s].host \in Host /\ reqs[s].status \in Status
    BY DEF TouchDevice, InHand, RelayTypeOK, Status
  <2> QED
    BY <2>1 DEF TouchDevice, RelayTypeOK
<1>3. CASE Usable(reqs[s].host) /\ reqs[s].status = "healthy"
  <2> DEFINE r == [reqs[s] EXCEPT !.pc = "renew"]
  <2>1. reqs' = [reqs EXCEPT ![s] = r] /\ UNCHANGED <<wait, ans>>
    BY <1>3 DEF TouchDevice, RelayTypeOK
  <2>3. r \in Req /\ r.pc = "renew" /\ r.host = reqs[s].host /\ r.status = reqs[s].status
        /\ r.sent = reqs[s].sent
    BY DEF Req, RelayTypeOK
  <2>4. reqs' \in [Slot -> Req] /\ reqs'[s] = r /\ \A q \in Slot \ {s} : reqs'[q] = reqs[q]
    BY <2>1, <2>3, OneRequest DEF RelayTypeOK, Req
  <2>5. reqs[s].pc = "touch"
    BY DEF TouchDevice
  <2> HIDE DEF r
  <2>6. InHand' /\ Timely'
    BY <1>0, <2>1, <2>3, <2>4, <2>5 DEF InHand, Timely, Accurate, clocks
  <2> QED
    BY <1>0, <1>1, <1>2, <2>1, <2>4, <2>6 DEF RelayTypeOK, NoFalseRefusal, Req, clocks
<1>4. CASE ~(Usable(reqs[s].host) /\ reqs[s].status = "healthy")
  <2>1. PICK a \in {"ok", "failed"} : Reply(s, a)
    BY <1>4 DEF TouchDevice
  <2>2. /\ reqs' \in [Slot -> Req] /\ wait' \in Slot \cup {0} /\ ans' \in Answer
        /\ InHand' /\ Timely'
        /\ wait # s => ans' = ans
        /\ wait = s => ans' = a
    BY <1>0, <2>1, ReplyKeeps DEF Answer
  <2> QED
    BY <1>0, <1>1, <1>2, <2>2 DEF RelayTypeOK, NoFalseRefusal, Req, clocks
<1> QED
  BY <1>3, <1>4

\* A renewal admits only what is live when it runs.
LEMMA RenewKeeps ==
    ASSUME ServerInv, NEW s \in Slot, RenewRelayAccessGrant(s)
    PROVE  ServerInv' /\ NoFalseRefusal
<1> USE RelayAssumption DEF ServerInv
<1>0. UNCHANGED <<clocks, hosts, devices, enrolled, cut, admin, faults>>
  BY DEF RenewRelayAccessGrant
<1>1. ClockKnown' /\ CutByOperator'
  BY <1>0 DEF clocks, ClockKnown, Accurate, CutByOperator, Usable
<1>2. reqs[s].host \in Host
  BY DEF RenewRelayAccessGrant, InHand
<1>3. relay' \subseteq [host : Host, exp : Nat]
  BY <1>2 DEF RenewRelayAccessGrant, RelayTypeOK
<1>4. RevokedNotAdmitted'
  <2>1. Live(reqs[s].host) => Usable(reqs[s].host)
    BY <1>2 DEF Live, Usable, RelayTypeOK
  <2> QED
    BY <1>0, <2>1 DEF RenewRelayAccessGrant, RevokedNotAdmitted, Usable
<1>5. PICK a \in {"ok", "failed"} : Reply(s, a)
  BY DEF RenewRelayAccessGrant
<1>6. /\ reqs' \in [Slot -> Req] /\ wait' \in Slot \cup {0} /\ ans' \in Answer
      /\ InHand' /\ Timely'
      /\ wait # s => ans' = ans
      /\ wait = s => ans' = a
  BY <1>0, <1>5, ReplyKeeps DEF Answer
<1> QED
  BY <1>0, <1>1, <1>3, <1>4, <1>6 DEF RelayTypeOK, NoFalseRefusal, Req, clocks

\* A failing store answers 503, never 401; an abandoned request just ends.
LEMMA EndKeeps ==
    ASSUME ServerInv, NEW s \in Slot, StoreFails(s) \/ Abandon(s)
    PROVE  ServerInv' /\ NoFalseRefusal
<1> USE RelayAssumption DEF ServerInv
<1>0. UNCHANGED <<clocks, hosts, devices, enrolled, relay, cut, admin>>
  BY DEF StoreFails, Abandon, tables
<1>1. RevokedNotAdmitted' /\ ClockKnown' /\ CutByOperator' /\ faults' \in 0 .. MaxFaults
  BY <1>0 DEF clocks, RevokedNotAdmitted, ClockKnown, Accurate, CutByOperator, Usable, StoreFails, Abandon, Fault, RelayTypeOK
<1>2. Reply(s, "failed") \/ Reply(s, ans)
  BY DEF StoreFails, Abandon, Reply
<1>3. PICK a \in Answer : Reply(s, a) /\ (a = ans \/ a = "failed")
  BY <1>2 DEF Answer, RelayTypeOK
<1>4. /\ reqs' \in [Slot -> Req] /\ wait' \in Slot \cup {0} /\ ans' \in Answer
      /\ InHand' /\ Timely'
      /\ wait # s => ans' = ans
      /\ wait = s => ans' = a
  BY <1>0, <1>3, ReplyKeeps
<1> QED
  BY <1>0, <1>1, <1>3, <1>4 DEF RelayTypeOK, NoFalseRefusal, Req, clocks

\* Every step of the server keeps its part and sends no false 401.
LEMMA ServerStep ==
    ASSUME ServerInv, Server
    PROVE  ServerInv' /\ NoFalseRefusal
BY CutKeeps, UpdateHostKeeps, EnrollKeeps, VerifyKeeps, TouchKeeps, RenewKeeps, EndKeeps
   DEF Server, Handle

-----------------------------------------------------------------------------
(* The agent's steps                                                       *)

\* A new heartbeat is signed with the device's time.
LEMMA SendKeeps ==
    ASSUME ServerInv, NEW status \in {"starting", "healthy"}, Send(status), UNCHANGED server
    PROVE  ServerInv' /\ ans' = "none"
<1> USE RelayAssumption DEF ServerInv
<1>0. UNCHANGED <<clocks, hosts, devices, enrolled, relay, cut, admin, faults>>
  BY DEF server, tables, clocks
<1>1. PICK s \in Slot :
          /\ reqs' = [reqs EXCEPT ![s] = [Idle EXCEPT !.pc = "verify", !.ts = now + drift,
                                                       !.sent = now, !.status = status]]
          /\ wait' = s /\ ans' = "none"
  BY DEF Send
<1> DEFINE r == [Idle EXCEPT !.pc = "verify", !.ts = now + drift, !.sent = now,
                             !.status = status]
<1>t. now \in 0 .. MaxTime /\ drift \in Int
  BY DEF RelayTypeOK
<1>2. /\ r \in Req /\ r.pc = "verify" /\ r.ts = now + drift /\ r.sent = now
      /\ r.status = status
  <2>1. now + drift \in Int
    BY <1>t
  <2> QED
    BY <1>t, <2>1 DEF Idle, Req
<1>3. reqs' \in [Slot -> Req] /\ reqs'[s] = r /\ \A q \in Slot \ {s} : reqs'[q] = reqs[q]
  BY <1>1, <1>2, OneRequest DEF RelayTypeOK, Req
<1> HIDE DEF r
<1>4. InHand' /\ Timely'
  <2>1. InHand'
    BY <1>1, <1>2, <1>3 DEF InHand
  <2>2. r.ts - r.sent = drift /\ now <= now + CallTime
    BY <1>t, <1>2
  <2>3. Timely'
    BY <1>0, <1>1, <1>2, <1>3, <1>t, <2>2 DEF Timely, ClockKnown, Accurate, clocks
  <2> QED
    BY <2>1, <2>3
<1>5. RevokedNotAdmitted' /\ ClockKnown' /\ CutByOperator'
  BY <1>0 DEF clocks, RevokedNotAdmitted, ClockKnown, Accurate, CutByOperator, Usable
<1> QED
  BY <1>0, <1>1, <1>3, <1>4, <1>5 DEF RelayTypeOK, Req, Answer, clocks

\* A step that leaves tables, clock and requests alone keeps the server's part.
LEMMA QuietKeeps ==
    ASSUME ServerInv, UNCHANGED <<clocks, tables, cut, admin, reqs>>,
           faults' = faults \/ Fault, wait' \in {wait, 0}, ans' \in Answer
    PROVE  ServerInv'
<1> USE RelayAssumption DEF ServerInv, tables, clocks
<1>1. RelayTypeOK'
  BY DEF RelayTypeOK, Fault
<1>2. InHand' /\ Timely'
  BY DEF InHand, Timely, Accurate, clocks
<1>3. RevokedNotAdmitted' /\ ClockKnown' /\ CutByOperator'
  BY DEF RevokedNotAdmitted, ClockKnown, Accurate, clocks, CutByOperator, Usable
<1> QED
  BY <1>1, <1>2, <1>3

\* Hanging up leaves a request whose answer nobody gets.
LEMMA HangUpKeeps ==
    ASSUME ServerInv, HangUp, UNCHANGED <<clocks, tables, cut, admin>>,
           faults' = faults \/ Fault
    PROVE  ServerInv'
<1> USE RelayAssumption DEF ServerInv, tables, clocks
<1> DEFINE r == [reqs[wait] EXCEPT !.sent = 0]
<1>1. wait \in Slot /\ reqs \in [Slot -> Req]
  BY DEF HangUp, RelayTypeOK, Req
<1>2. /\ r \in Req /\ r.pc = reqs[wait].pc /\ r.host = reqs[wait].host
      /\ r.status = reqs[wait].status
  BY <1>1 DEF Req
<1>3. reqs' = [reqs EXCEPT ![wait] = r] /\ wait' = 0 /\ ans' = "failed"
  BY <1>1 DEF HangUp, Req
<1> HIDE DEF r
<1>4. /\ reqs' \in [Slot -> Req] /\ reqs'[wait] = r
      /\ \A q \in Slot \ {wait} : reqs'[q] = reqs[q]
  BY <1>1, <1>2, <1>3, OneRequest
<1>5. RelayTypeOK'
  BY <1>3, <1>4 DEF RelayTypeOK, Req, Answer, Fault
<1>6. InHand' /\ Timely'
  BY <1>1, <1>2, <1>3, <1>4 DEF InHand, Timely
<1>7. RevokedNotAdmitted' /\ ClockKnown' /\ CutByOperator'
  BY DEF RevokedNotAdmitted, ClockKnown, Accurate, CutByOperator, Usable
<1> QED
  BY <1>5, <1>6, <1>7

Flags == exit \in BOOLEAN /\ sig \in BOOLEAN /\ first \in BOOLEAN

LocalTypeOK ==
    /\ pc \in {"down", "hello", "spawn", "beat", "heard", "keys", "select", "stop", "backoff"}
    /\ kids \in 0 .. 1 /\ Flags
    /\ file \in [service : {"none", "starting", "healthy", "degraded", "stopped", "revoked"},
                 child : {"none", "running", "exited", "stopped"}]
    /\ why \in {"stopped", "revoked"} /\ beat \in Answer
    /\ boots \in 0 .. MaxBoots /\ deaths \in 0 .. MaxDeaths

AgentInv == LocalTypeOK /\ EveryRefusalIsReal /\ OneChild

\* The invariant splits into the server's part and the agent's.
LEMMA InvParts == IInv <=> ServerInv /\ AgentInv
BY DEF IInv, TypeOK, ServerInv, LocalTypeOK, Flags, AgentInv

\* A step of the server leaves the agent's part alone: cut is never undone.
LEMMA AgentUntouched ==
    ASSUME AgentInv, UNCHANGED local, NoFalseRefusal
    PROVE  AgentInv'
BY DEF AgentInv, local, LocalTypeOK, Flags, EveryRefusalIsReal, OneChild, NoFalseRefusal

\* What syncControlPlane concludes: a 401 has an operator or a wrong clock behind it.
LEMMA JudgeKeeps ==
    ASSUME ServerInv, AgentInv, pc = "keys",
           NEW a \in {"ok", "unauthorized", "failed"}, a = "unauthorized" => cut \/ strayed,
           Judge(Outcome(a)), beat' = "none" /\ first' = FALSE,
           UNCHANGED <<ans, cut, strayed, kids, exit, sig, boots, deaths>>
    PROVE  AgentInv'
<1> DEFINE o == Outcome(a)
<1>1. o = "unauthorized" => cut \/ strayed
  BY DEF AgentInv, EveryRefusalIsReal, Outcome
<1> HIDE DEF o
<1>2. Judge(o)
  BY DEF o
<1>3. CASE o = "unauthorized"
  BY <1>1, <1>2, <1>3 DEF AgentInv, Judge, LocalTypeOK, Flags, EveryRefusalIsReal, OneChild, Answer
<1>4. CASE o # "unauthorized"
  <2>1. pc' = "select" /\ UNCHANGED why
    BY <1>2, <1>4 DEF Judge
  <2>2. \/ UNCHANGED file
        \/ \E v \in {"healthy", "degraded"} : file' = [service |-> v, child |-> "running"]
    BY <1>2, <1>4 DEF Judge, Says
  <2> QED
    <3>1. LocalTypeOK'
      <4>1. Flags'
        BY Zenon DEF AgentInv, LocalTypeOK, Flags
      <4> QED
        BY <2>1, <2>2, <4>1 DEF Answer, AgentInv, LocalTypeOK
    <3>2. EveryRefusalIsReal'
      BY <2>1, <2>2 DEF Answer, AgentInv, LocalTypeOK, EveryRefusalIsReal
    <3>3. OneChild'
      BY <2>1, <2>2 DEF Answer, AgentInv, LocalTypeOK, OneChild
    <3> QED
      BY <3>1, <3>2, <3>3 DEF AgentInv
<1> QED
  BY <1>3, <1>4

\* Every branch of supervise keeps both parts.
LEMMA AgentStep ==
    ASSUME ServerInv, AgentInv, Agent
    PROVE  ServerInv' /\ AgentInv'
<1> USE SupervisorAssumption DEF Answer, local, net, server, Says, clocks
<1>t. ans \in Answer /\ wait \in Slot \cup {0} /\ now \in Nat
  BY RelayAssumption DEF ServerInv, RelayTypeOK
<1>1. CASE Timeout \/ Cancelled
  <2>1. ServerInv'
    BY <1>1, <1>t, HangUpKeeps DEF Timeout, Cancelled
  <2>2. AgentInv'
    BY <1>1 DEF Timeout, Cancelled, HangUp, AgentInv, LocalTypeOK, Flags, EveryRefusalIsReal, OneChild
  <2> QED
    BY <2>1, <2>2
<1>2. CASE Boot
  <2>1. ServerInv' /\ ans' = "none"
    BY <1>2, SendKeeps DEF Boot
  <2>2. AgentInv'
    <3>1. LocalTypeOK'
      <4>1. Flags'
        BY <1>2, Zenon DEF Boot, AgentInv, LocalTypeOK, Flags
      <4> QED
        BY <1>2, <2>1, <4>1 DEF Boot, tables, AgentInv, LocalTypeOK
    <3>2. EveryRefusalIsReal'
      BY <1>2, <2>1 DEF Boot, tables, AgentInv, LocalTypeOK, EveryRefusalIsReal
    <3>3. OneChild'
      BY <1>2, <2>1 DEF Boot, tables, AgentInv, LocalTypeOK, OneChild
    <3> QED
      BY <3>1, <3>2, <3>3 DEF AgentInv
  <2> QED
    BY <2>1, <2>2
<1>3. CASE Greeted
  <2>1. ServerInv'
    BY <1>3, <1>t, QuietKeeps DEF Greeted
  <2>2. AgentInv'
    BY <1>3 DEF Greeted, AgentInv, LocalTypeOK, Flags, EveryRefusalIsReal, OneChild
  <2> QED
    BY <2>1, <2>2
<1>4. CASE Spawn \/ SpawnFails
  <2>1. ServerInv'
    BY <1>4, <1>t, QuietKeeps DEF Spawn, SpawnFails
  <2>2. AgentInv'
    <3> USE DEF AgentInv, LocalTypeOK, Flags, EveryRefusalIsReal, OneChild
    <3>1. CASE Spawn
      <4>1. Flags'
        BY <3>1, Zenon DEF Spawn, AgentInv, LocalTypeOK, Flags
      <4> QED
        BY <3>1, <4>1 DEF Spawn
    <3>2. CASE SpawnFails
      BY <3>2 DEF SpawnFails
    <3> QED
      BY <1>4, <3>1, <3>2
  <2> QED
    BY <2>1, <2>2
<1>5. CASE Heartbeat
  <2>1. ServerInv' /\ ans' = "none"
    BY <1>5, SendKeeps DEF Heartbeat
  <2>2. AgentInv'
    BY <1>5, <2>1 DEF Heartbeat, AgentInv, LocalTypeOK, Flags, EveryRefusalIsReal, OneChild, tables
  <2> QED
    BY <2>1, <2>2
<1>6. CASE Heard
  <2>1. ServerInv'
    BY <1>6, <1>t, QuietKeeps DEF Heard
  <2>2. AgentInv'
    BY <1>6, <1>t DEF Heard, AgentInv, LocalTypeOK, Flags, EveryRefusalIsReal, OneChild
  <2> QED
    BY <2>1, <2>2
<1>7. CASE SyncKeys
  <2>1. ServerInv'
    BY <1>7, <1>t, QuietKeeps DEF SyncKeys
  <2>2. PICK a \in KeyAnswers : Judge(Outcome(a))
    BY <1>7 DEF SyncKeys
  <2>3. a \in {"ok", "unauthorized", "failed"} /\ (a = "unauthorized" => cut \/ strayed)
    BY <2>2 DEF KeyAnswers, ServerInv, CutByOperator, ClockKnown
  <2>4. AgentInv'
    BY <1>7, <2>2, <2>3, JudgeKeeps DEF SyncKeys
  <2> QED
    BY <2>1, <2>4
<1>8. CASE SyncKeysFails
  <2>1. ServerInv'
    BY <1>8, <1>t, QuietKeeps DEF SyncKeysFails
  <2>2. AgentInv'
    BY <1>8, JudgeKeeps DEF SyncKeysFails
  <2> QED
    BY <2>1, <2>2
<1>9. CASE Done \/ ChildExited \/ Ticker \/ Backoff \/ Reap \/ Kill
  <2>1. ServerInv'
    BY <1>9, <1>t, QuietKeeps DEF Done, ChildExited, Ticker, Backoff, Reap, Kill
  <2> USE DEF AgentInv, LocalTypeOK, Flags, EveryRefusalIsReal, OneChild
  <2>2. CASE Done \/ Ticker \/ Backoff
    BY <2>1, <2>2 DEF Done, Ticker, Backoff
  <2>3. CASE ChildExited
    BY <2>1, <2>3 DEF ChildExited
  <2>4. CASE Reap
    BY <2>1, <2>4 DEF Reap
  <2>5. CASE Kill
    BY <2>1, <2>5 DEF Kill
  <2> QED
    BY <1>9, <2>2, <2>3, <2>4, <2>5
<1> QED
  BY <1>1, <1>2, <1>3, <1>4, <1>5, <1>6, <1>7, <1>8, <1>9 DEF Agent

\* Time passes while the agent waits, but for no longer than a call may take.
LEMMA TickKeeps ==
    ASSUME ServerInv, AgentInv, Tick
    PROVE  ServerInv' /\ AgentInv'
<1>1. RelayTypeOK'
  BY RelayAssumption DEF Tick, ServerInv, RelayTypeOK, tables, net
<1>2. RevokedNotAdmitted' /\ InHand' /\ ClockKnown' /\ CutByOperator'
  BY RelayAssumption DEF Tick, ServerInv, tables, net, RevokedNotAdmitted, InHand, ClockKnown,
     Accurate, CutByOperator, Usable
<1>4. Timely'
  <2> SUFFICES ASSUME NEW q \in Slot, wait = q
               PROVE  /\ reqs[q].sent <= now + 1 /\ now + 1 <= reqs[q].sent + CallTime
                      /\ reqs[q].pc = "verify" => strayed \/ Accurate(reqs[q].ts - reqs[q].sent)
    BY DEF Timely, Accurate, Tick, net
  <2>1. now \in Int /\ reqs[q].sent \in Int /\ CallTime \in Int /\ q # 0
    BY RelayAssumption DEF ServerInv, RelayTypeOK
  <2> QED
    BY <2>1 DEF ServerInv, Timely, Tick
<1>3. AgentInv'
  BY DEF Tick, net, local, AgentInv, LocalTypeOK, Flags, EveryRefusalIsReal, OneChild
<1> QED
  BY <1>1, <1>2, <1>3, <1>4 DEF ServerInv

\* A clock that jumps too far has strayed; requests signed before keep their time.
LEMMA ClockSetKeeps ==
    ASSUME ServerInv, AgentInv, NEW d \in Drift, ClockSet(d)
    PROVE  ServerInv' /\ AgentInv'
<1> USE RelayAssumption DEF ClockSet, Fault, tables, net
<1>1. RelayTypeOK'
  BY DEF ServerInv, RelayTypeOK
<1>2. RevokedNotAdmitted' /\ InHand' /\ CutByOperator'
  BY DEF ServerInv, RevokedNotAdmitted, InHand, CutByOperator, Usable
<1>3. ClockKnown' /\ Timely'
  BY DEF ServerInv, ClockKnown, Timely, Accurate
<1>4. AgentInv'
  <2>1. (strayed => strayed') /\ UNCHANGED <<local, ans, cut>>
    OBVIOUS
  <2> QED
    BY <2>1, AgentUntouched DEF NoFalseRefusal
<1> QED
  BY <1>1, <1>2, <1>3, <1>4 DEF ServerInv

\* The child's death and a signal touch the agent only.
LEMMA EnvironmentKeeps ==
    ASSUME ServerInv, AgentInv, ChildDies \/ Signal
    PROVE  ServerInv' /\ AgentInv'
<1>1. ServerInv'
  BY QuietKeeps DEF ChildDies, Signal, server, net, ServerInv, RelayTypeOK
<1>2. AgentInv'
  <2> USE SupervisorAssumption DEF server, net, tables, clocks, AgentInv, LocalTypeOK, Flags,
              EveryRefusalIsReal, OneChild
  <2>1. CASE ChildDies
    BY <2>1 DEF ChildDies
  <2>2. CASE Signal
    BY <2>2 DEF Signal
  <2> QED
    BY <2>1, <2>2
<1> QED
  BY <1>1, <1>2

\* The inductive invariant holds in every reachable state.
LEMMA Invariance == Spec => []IInv
<1>1. Init => IInv
  <2> SUFFICES ASSUME Init PROVE ServerInv /\ AgentInv
    BY InvParts
  <2>1. RelayTypeOK
    <3>1. 0 \in 0 .. MaxTime /\ 0 \in 0 .. MaxAdmin /\ 0 \in 0 .. MaxFaults /\ 1 \in Host
      BY RelayAssumption DEF Host
    <3>2. hosts \in [Host -> Status \cup {"absent"}]
      BY DEF Init, RelayInit, Status
    <3>3. devices \in [Host -> {"absent", "manufactured", "revoked"}]
      BY DEF Init, RelayInit
    <3>4. reqs \in [Slot -> Req]
      BY IdleType DEF Init, RelayInit
    <3> QED
      BY <3>1, <3>2, <3>3, <3>4 DEF Init, RelayInit, RelayTypeOK, Answer, Req
  <2>2. RevokedNotAdmitted /\ InHand /\ Timely /\ CutByOperator
    BY RelayAssumption DEF Init, RelayInit, Host, RevokedNotAdmitted, InHand, Timely,
       CutByOperator, Usable, Idle
  <2>c. ClockKnown
    BY Zenon DEF Init, RelayInit, ClockKnown
  <2>3. AgentInv
    <3>1. 0 \in 0 .. MaxBoots /\ 0 \in 0 .. MaxDeaths
      BY SupervisorAssumption
    <3>2. LocalTypeOK
      <4>1. Flags
        BY Zenon DEF Init, Flags
      <4> QED
        BY <3>1, <4>1 DEF Init, LocalTypeOK, Answer
    <3>3. EveryRefusalIsReal /\ OneChild
      BY DEF Init, RelayInit, EveryRefusalIsReal, OneChild
    <3> QED
      BY <3>2, <3>3 DEF AgentInv
  <2> QED
    BY <2>1, <2>2, <2>c, <2>3 DEF ServerInv
<1>2. ASSUME IInv, [Next]_vars PROVE IInv'
  <2> SUFFICES ServerInv' /\ AgentInv'
    BY DEF IInv, TypeOK, ServerInv, LocalTypeOK, Flags, AgentInv
  <2>1. ServerInv /\ AgentInv
    BY <1>2, InvParts
  <2>2. CASE Agent
    BY <2>1, <2>2, AgentStep
  <2>3. CASE Server /\ UNCHANGED local
    BY <2>1, <2>3, ServerStep, AgentUntouched
  <2>4. CASE ChildDies \/ Signal
    BY <2>1, <2>4, EnvironmentKeeps
  <2>5. CASE Tick \/ \E d \in Drift : ClockSet(d)
    BY <2>1, <2>5, TickKeeps, ClockSetKeeps
  <2>6. CASE UNCHANGED vars
    <3>1. UNCHANGED <<clocks, tables, cut, admin, faults, reqs, wait, ans, local>>
      BY <2>6 DEF vars, server, net
    <3>2. ServerInv'
      BY <2>1, <3>1, QuietKeeps DEF ServerInv, RelayTypeOK
    <3>3. AgentInv'
      BY <2>1, <3>1, AgentUntouched DEF NoFalseRefusal, clocks
    <3> QED
      BY <3>2, <3>3
  <2> QED
    BY <1>2, <2>2, <2>3, <2>4, <2>5, <2>6 DEF Next
<1> QED
  BY <1>1, <1>2, PTL DEF Spec

-----------------------------------------------------------------------------
(* What the handler and the supervisor guarantee                           *)

\* A device that is revoked or deleted is never admitted to the relay, however
\* DeleteDevice and RenewRelayAccessGrant interleave.
THEOREM RevokedStaysOut == Spec => []RevokedNotAdmitted
<1>1. IInv => RevokedNotAdmitted
  BY DEF IInv, ServerInv
<1> QED
  BY <1>1, Invariance, PTL

\* supervise leaves no child behind, reports no child that is gone, and says
\* "revoked" only after an operator's revocation or deletion, or after its clock
\* strayed from the server's by more than the signature window allows.
THEOREM SupervisorReportsTruly == Spec => []ReportsTruly
<1>1. IInv => ReportsTruly
  BY DEF IInv, ReportsTruly, TypeOK, EveryRefusalIsReal, OneChild, RevokedIsReal, NoOrphan
<1> QED
  BY <1>1, Invariance, PTL

\* TouchDevice never changes the host of a revoked device.
THEOREM RevocationIsFinal == Spec => RevocationSticks
<1> DEFINE A == \A h \in Host : devices[h] = "revoked" /\ hosts'[h] # hosts[h] => admin' = admin + 1
<1>1. ASSUME IInv, [Next]_vars PROVE [A]_vars
  <2>1. ASSUME NEW s \in Slot, TouchDevice(s) PROVE A
    BY <1>1, <2>1 DEF TouchDevice, Usable, IInv, ServerInv, RelayTypeOK
  <2>2. ASSUME NEW h \in Host, \/ DeleteDevice(h) \/ DeleteHost(h)
                              \/ \E status \in Edits : UpdateHost(h, status)
        PROVE  A
    BY <2>2 DEF DeleteDevice, DeleteHost, UpdateHost, Admin
  <2>3. CASE EnrollDevice
    BY <2>3 DEF EnrollDevice, Admin
  <2>4. CASE Server
    BY <2>1, <2>2, <2>3, <2>4 DEF Server, Handle, VerifyDevice, RenewRelayAccessGrant, StoreFails,
       Abandon, tables
  <2>5. CASE Agent
    BY <2>5 DEF Agent, Timeout, Cancelled, Boot, Greeted, Spawn, SpawnFails, Heartbeat, Heard,
       SyncKeys, SyncKeysFails, Done, ChildExited, Ticker, Backoff, Reap, Kill, server, tables
  <2>6. CASE ChildDies \/ Signal \/ Tick \/ \E d \in Drift : ClockSet(d)
    BY <2>6 DEF ChildDies, Signal, Tick, ClockSet, server, tables
  <2> QED
    BY <1>1, <2>4, <2>5, <2>6 DEF Next
<1>2. IInv /\ [Next]_vars => [A]_vars
  BY <1>1
<1> QED
  BY <1>2, Invariance, PTL DEF Spec, RevocationSticks
=============================================================================
