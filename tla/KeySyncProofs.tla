---------------------------- MODULE KeySyncProofs ----------------------------
(***************************************************************************)
(* Proofs about key synchronization for any number of API nodes, users,    *)
(* grants, re-enrollments, crashes and lost requests.  What a publication  *)
(* binds to its generation, and what an acknowledgement may conclude, is   *)
(* proved for one node: Store.mu is a lock of one process.                 *)
(***************************************************************************)
EXTENDS KeySync, TLAPS

-----------------------------------------------------------------------------
(* Generations, the agent and its two files                                *)

\* Nothing is about a host that does not exist yet.
HostsKnown ==
    /\ agent.host <= life /\ file.host <= life
    /\ \A m \in Node : srv[m].host <= life
    /\ \A a \in served : a.host <= life /\ a.gen # 0

\* While the host exists its row is at least as new as every answer given for
\* it, and holds the body of the newest; a generation names one body.
RowIsNewest ==
    bind # "absent" =>
        /\ \A a \in served : a.host = life =>
               /\ a.gen <= row[life].gen
               /\ a.gen = row[life].gen => a.body = row[life].body
        /\ \A a, b \in served : a.host = life /\ b.host = life /\ a.gen = b.gen => a.body = b.body

\* The agent works on an answer that it accepted and that is not older than
\* the file; the file is a whole answer, or from before the first.
AgentIsCareful ==
    /\ agent.pc \in {"keys", "state", "ack", "acking"} =>
           [host |-> agent.host, gen |-> agent.gen, body |-> agent.body] \in served
    /\ agent.pc = "keys" =>
           /\ Acceptable(agent.gen, agent.body)
           /\ bind # "absent" /\ agent.host = life /\ file.host = life => file.gen <= agent.gen
    /\ agent.pc = "state" => file.gen = agent.gen /\ file.body = agent.body
    /\ file.gen # 0 => file \in served
    /\ agent.pc # "idle" => file.body \subseteq Line

GenInv == HostsKnown /\ RowIsNewest /\ AgentIsCareful /\ FileNotOlderThanState

-----------------------------------------------------------------------------
(* Lifetimes                                                               *)

\* The latest expiry that anything can have by now.
Window == (IF bind = "revoked" THEN revokedAt ELSE now) + TTL

WithinWindow ==
    /\ revokedAt <= now
    /\ \A a \in asking : a.exp <= now + TTL
    /\ \A g \in Grant : grants[g].exp <= Window
    /\ \A m \in Node : \A e \in srv[m].body : e.exp <= Window
    /\ \A e \in agent.body : e.exp <= Window
    /\ \A e \in file.body : e.exp # Forever => e.exp <= Window

TimeInv == WithinWindow /\ RevokedMeansExpired

IInv == TypeOK /\ GenInv /\ TimeInv

-----------------------------------------------------------------------------
(* Types                                                                   *)

Handler == [pc : {"idle", "asked", "verified", "entries", "grants", "published"},
            host : Life, body : SUBSET Line, grants : SUBSET Grant]
Syncer  == [pc : {"idle", "purged", "fetch", "keys", "state", "ack", "acking"},
            from : Node \cup {NoNode}, host : Life, gen : Nat, body : SUBSET Line]
GrantRow == [user : User \cup {NoUser}, host : Life, exp : 0 .. (MaxTime + TTL),
             installed : BOOLEAN]

\* The values that stand for nothing yet have their types.
LEMMA Blanks ==
    /\ 0 \in Life /\ 0 \in 0 .. MaxTime /\ 0 \in 0 .. (MaxTime + TTL)
    /\ MaxTime + TTL \in Nat /\ Forever \notin 0 .. (MaxTime + TTL)
    /\ NoGrant \in GrantRow
    /\ NoRow \in [gen : Nat, body : SUBSET Line, grants : SUBSET Grant]
    /\ Idle \in Handler /\ Idle.pc = "idle" /\ Idle.host = 0 /\ Idle.body = {}
    /\ Resting \in Syncer /\ Resting.pc = "idle" /\ Resting.host = 0 /\ Resting.body = {}
<1>1. /\ 0 \in Life /\ 0 \in 0 .. MaxTime /\ 0 \in 0 .. (MaxTime + TTL)
      /\ MaxTime + TTL \in Nat /\ Forever \notin 0 .. (MaxTime + TTL)
  BY KeySyncAssumption DEF Life, Forever
<1>2. NoGrant \in GrantRow
  BY <1>1 DEF NoGrant, GrantRow
<1> QED
  BY <1>1, <1>2 DEF NoRow, Idle, Handler, Resting, Syncer

\* One handler goes on to x.
LEMMA HandlerType ==
    ASSUME TypeOK, NEW m \in Node, NEW x \in Handler, srv' = [srv EXCEPT ![m] = x]
    PROVE  /\ srv' \in [Node -> Handler] /\ srv'[m] = x
           /\ \A n \in Node \ {m} : srv'[n] = srv[n]
BY DEF TypeOK, Handler

\* What each query of a handler makes of its record.
LEMMA VerifyStep ==
    ASSUME TypeOK, NEW m \in Node, VerifyDevice(m), bind = "active"
    PROVE  \E x \in Handler : /\ srv' = [srv EXCEPT ![m] = x]
                              /\ x.pc = "verified" /\ x.host = life /\ x.body = srv[m].body
<1> DEFINE x == [srv[m] EXCEPT !.pc = "verified", !.host = life]
<1>1. srv[m] \in Handler /\ life \in Life /\ srv \in [Node -> Handler]
  BY DEF TypeOK, Handler
<1>2. x \in Handler /\ x.pc = "verified" /\ x.host = life /\ x.body = srv[m].body
  BY <1>1 DEF Handler
<1>3. srv' = [srv EXCEPT ![m] = x]
  BY <1>1 DEF VerifyDevice
<1> QED
  BY <1>2, <1>3

\* The first snapshot query: the handler holds the lines of its host.
LEMMA EntriesStep ==
    ASSUME TypeOK, NEW m \in Node, ReadEntries(m)
    PROVE  \E x \in Handler : /\ srv' = [srv EXCEPT ![m] = x]
                              /\ x.pc = "entries" /\ x.host = srv[m].host
                              /\ x.body = Entries(srv[m].host)
<1> DEFINE b == Entries(srv[m].host)
           x == [srv[m] EXCEPT !.pc = "entries", !.body = b]
<1>1. srv[m] \in Handler /\ srv \in [Node -> Handler]
  BY DEF TypeOK, Handler
<1>2. srv' = [srv EXCEPT ![m] = x]
  BY <1>1 DEF ReadEntries
<1>3. b \in SUBSET Line
  BY DEF Entries
<1>4. x \in Handler /\ x.pc = "entries" /\ x.host = srv[m].host /\ x.body = b
  <2> HIDE DEF b
  <2> QED
    BY <1>1, <1>3 DEF Handler
<1> QED
  BY <1>2, <1>4

\* The second snapshot query: the handler holds the live grants of its host.
LEMMA GrantsStep ==
    ASSUME TypeOK, NEW m \in Node, ReadGrants(m)
    PROVE  \E x \in Handler : /\ srv' = [srv EXCEPT ![m] = x]
                              /\ x.pc = "grants" /\ x.host = srv[m].host
                              /\ x.body = srv[m].body /\ x.grants = LiveGrants(srv[m].host)
<1> DEFINE b == LiveGrants(srv[m].host)
           x == [srv[m] EXCEPT !.pc = "grants", !.grants = b]
<1>1. srv[m] \in Handler /\ srv \in [Node -> Handler]
  BY DEF TypeOK, Handler
<1>2. srv' = [srv EXCEPT ![m] = x]
  BY <1>1 DEF ReadGrants
<1>3. b \in SUBSET Grant
  BY DEF LiveGrants
<1>4. /\ x \in Handler /\ x.pc = "grants" /\ x.host = srv[m].host /\ x.body = srv[m].body
      /\ x.grants = b
  <2> HIDE DEF b
  <2> QED
    BY <1>1, <1>3 DEF Handler
<1> QED
  BY <1>2, <1>4

\* Publication replaces one row and keeps its generation only if the body is the same.
LEMMA PublishStep ==
    ASSUME TypeOK, NEW m \in Node, Publish(m)
    PROVE  /\ \E x \in Handler : /\ srv' = [srv EXCEPT ![m] = x]
                                 /\ x.pc = "published" /\ x.host = srv[m].host
                                 /\ x.body = srv[m].body
           /\ row' \in [Life -> [gen : Nat, body : SUBSET Line, grants : SUBSET Grant]]
           /\ \A h \in Life \ {srv[m].host} : row'[h] = row[h]
           /\ row'[srv[m].host].body = srv[m].body /\ row'[srv[m].host].grants = srv[m].grants
           /\ \/ /\ row'[srv[m].host].gen = row[srv[m].host].gen /\ row[srv[m].host].gen # 0
                 /\ row[srv[m].host].body = srv[m].body
              \/ row'[srv[m].host].gen = row[srv[m].host].gen + 1
<1> DEFINE x == [srv[m] EXCEPT !.pc = "published"]
           h == srv[m].host
           p == Publication(row[h], srv[m].body, srv[m].grants)
<1>1. srv[m] \in Handler /\ srv \in [Node -> Handler] /\ h \in Life
  BY DEF TypeOK, Handler
<1>2. srv' = [srv EXCEPT ![m] = x]
  BY <1>1 DEF Publish
<1>3. x \in Handler /\ x.pc = "published" /\ x.host = srv[m].host /\ x.body = srv[m].body
  BY <1>1 DEF Handler
<1>4. row[h] \in [gen : Nat, body : SUBSET Line, grants : SUBSET Grant]
  BY <1>1 DEF TypeOK
<1>5. /\ p \in [gen : Nat, body : SUBSET Line, grants : SUBSET Grant]
      /\ p.body = srv[m].body /\ p.grants = srv[m].grants
      /\ \/ p.gen = row[h].gen /\ row[h].gen # 0 /\ row[h].body = srv[m].body
         \/ p.gen = row[h].gen + 1
  BY <1>1, <1>4 DEF Publication, Handler
<1>6. row' = [row EXCEPT ![h] = p]
  BY DEF Publish
<1> HIDE DEF p, h, x
<1>7. /\ row' \in [Life -> [gen : Nat, body : SUBSET Line, grants : SUBSET Grant]]
      /\ row'[h] = p /\ \A k \in Life \ {h} : row'[k] = row[k]
  BY <1>1, <1>5, <1>6 DEF TypeOK
<1> QED
  BY <1>2, <1>3, <1>5, <1>7 DEF h

\* The answer reaches the agent as it is, or ends its cycle.
LEMMA AnsweredStep ==
    ASSUME TypeOK, NEW m \in Node, NEW gen \in Nat, NEW body \in SUBSET Line,
           Answered(m, gen, body)
    PROVE  \/ agent' = agent \/ agent' = Resting
           \/ /\ gen # 0 /\ Acceptable(gen, body) /\ agent' \in Syncer
              /\ agent'.pc = "keys" /\ agent'.host = srv[m].host /\ agent'.gen = gen
              /\ agent'.body = body
<1>1. agent \in Syncer /\ srv[m].host \in Life
  BY DEF TypeOK, Syncer
<1> DEFINE x == [agent EXCEPT !.pc = "keys", !.host = srv[m].host, !.gen = gen, !.body = body]
<1>2. /\ x \in Syncer /\ x.pc = "keys" /\ x.host = srv[m].host /\ x.gen = gen /\ x.body = body
  BY <1>1 DEF Syncer
<1>3. agent' = agent \/ agent' = Resting \/ (agent' = x /\ gen # 0 /\ Acceptable(gen, body))
  BY DEF Answered, AgentEnds
<1> HIDE DEF x
<1> QED
  BY <1>2, <1>3

\* The agent goes on to another label.
LEMMA GotoStep ==
    ASSUME TypeOK, NEW p \in {"purged", "state", "ack", "acking"}, AgentGoto(p)
    PROVE  /\ agent' \in Syncer /\ agent'.pc = p /\ agent'.host = agent.host
           /\ agent'.gen = agent.gen /\ agent'.body = agent.body
BY DEF TypeOK, Syncer, AgentGoto

\* The initial state is well formed.
LEMMA InitType == Init => TypeOK
<1> SUFFICES ASSUME Init PROVE TypeOK
  OBVIOUS
<1>1. /\ now \in 0 .. MaxTime /\ keys \subseteq User /\ asking \subseteq Request
      /\ bind \in {"active", "revoked", "absent"} /\ life \in Life /\ acks \subseteq Ack
      /\ served \subseteq [host : Life, gen : Nat, body : SUBSET Line]
      /\ revokedAt \in 0 .. MaxTime /\ losses \in Nat /\ keyChanges \in Nat
  BY Blanks DEF Init
<1>2. /\ grants \in [Grant -> GrantRow] /\ srv \in [Node -> Handler] /\ agent \in Syncer
      /\ row \in [Life -> [gen : Nat, body : SUBSET Line, grants : SUBSET Grant]]
  BY Blanks DEF Init
<1>3. state \in [gen : Nat, body : SUBSET Line]
  BY DEF Init
<1>4. file \in [host : Life, gen : Nat,
                body : SUBSET (Line \cup [user : Legacy, exp : {Forever}])]
  BY Blanks DEF Init
<1> QED
  BY <1>1, <1>2, <1>3, <1>4 DEF TypeOK, GrantRow, Handler, Syncer

\* Users and administrators.
LEMMA AdministerType == TypeOK /\ Administer => TypeOK'
<1> SUFFICES ASSUME TypeOK, Administer PROVE TypeOK'
  OBVIOUS
<1> USE DEF control, device
<1>1. CASE Tick
  BY <1>1, KeySyncAssumption DEF Tick, TypeOK
<1>2. CASE DeleteDevice
  <2>1. \A g \in Grant : grants[g] \in GrantRow
    BY DEF TypeOK, GrantRow
  <2>2. now \in 0 .. (MaxTime + TTL)
    BY KeySyncAssumption DEF TypeOK
  <2>3. \A g \in Grant : [grants[g] EXCEPT !.exp = now] \in GrantRow
    BY <2>1, <2>2 DEF GrantRow
  <2>4. grants' \in [Grant -> GrantRow]
    BY <1>2, <2>1, <2>3 DEF DeleteDevice
  <2> QED
    BY <1>2, <2>4 DEF DeleteDevice, TypeOK, GrantRow
<1>3. CASE DeleteHost
  <2>1. grants' \in [Grant -> GrantRow]
    BY <1>3, Blanks DEF DeleteHost, TypeOK, GrantRow
  <2>2. row' \in [Life -> [gen : Nat, body : SUBSET Line, grants : SUBSET Grant]]
    BY <1>3, Blanks DEF DeleteHost, TypeOK
  <2> QED
    BY <1>3, <2>1, <2>2 DEF DeleteHost, TypeOK, GrantRow
<1>4. CASE Enroll
  <2>1. life + 1 \in Life
    BY <1>4, KeySyncAssumption DEF Enroll, TypeOK, Life
  <2> QED
    BY <1>4, <2>1 DEF Enroll, TypeOK
<1>5. ASSUME NEW u \in User, RequestAccess(u) PROVE TypeOK'
  <2>1. [user |-> u, host |-> life, exp |-> now + TTL] \in Request
    BY KeySyncAssumption DEF TypeOK, Request
  <2> QED
    BY <1>5, <2>1 DEF RequestAccess, TypeOK
<1>6. ASSUME NEW u \in User, ChangeKey(u) PROVE TypeOK'
  BY <1>6 DEF ChangeKey, TypeOK
<1>7. ASSUME NEW a \in asking, IssueAccess(a) PROVE TypeOK'
  <2>1. a \in Request
    BY DEF TypeOK
  <2>2. ASSUME NEW g \in Grant, grants' = Granted(a, g) PROVE grants' \in [Grant -> GrantRow]
    <3> DEFINE x == [user |-> a.user, host |-> a.host, exp |-> a.exp, installed |-> FALSE]
    <3>1. x \in GrantRow
      BY <2>1 DEF Request, GrantRow
    <3>2. grants' = [grants EXCEPT ![g] = x]
      BY <2>2 DEF Granted
    <3> HIDE DEF x
    <3> QED
      BY <3>1, <3>2 DEF TypeOK, GrantRow
  <2>3. grants' \in [Grant -> GrantRow]
    BY <1>7, <2>2 DEF IssueAccess, TypeOK, GrantRow
  <2> QED
    BY <1>7, <2>3 DEF IssueAccess, TypeOK, GrantRow
<1> QED
  BY <1>1, <1>2, <1>3, <1>4, <1>5, <1>6, <1>7 DEF Administer

\* The agent's cycle ends or goes on.
LEMMA AckAnsweredStep ==
    ASSUME NEW a, AckAnswered(a)
    PROVE  agent' = agent \/ agent' = Resting
BY DEF AckAnswered, AgentEnds

\* The agent's own steps, and its acknowledgements on the server.
LEMMA SyncType == TypeOK /\ Sync => TypeOK'
<1> SUFFICES ASSUME TypeOK, Sync PROVE TypeOK'
  OBVIOUS
<1> USE DEF control, device
<1>0. agent \in Syncer /\ agent.gen \in Nat /\ agent.body \in SUBSET Line /\ agent.host \in Life
  BY DEF TypeOK, Syncer
<1>1. CASE PurgeLegacy
  <2>1. file' \in [host : Life, gen : Nat,
                   body : SUBSET (Line \cup [user : Legacy, exp : {Forever}])]
    BY <1>1 DEF PurgeLegacy, TypeOK
  <2>2. agent' \in Syncer
    BY <1>1, GotoStep DEF PurgeLegacy
  <2> QED
    BY <1>1, <2>1, <2>2 DEF PurgeLegacy, TypeOK, Syncer
<1>2. ASSUME NEW m \in Node, SendGet(m) PROVE TypeOK'
  <2> DEFINE x == [Idle EXCEPT !.pc = "asked"]
  <2>1. x \in Handler
    BY Blanks DEF Handler, Idle
  <2>2. srv' = [srv EXCEPT ![m] = x]
    BY <1>2 DEF SendGet
  <2> HIDE DEF x
  <2>3. srv' \in [Node -> Handler]
    BY <2>1, <2>2, HandlerType
  <2>4. agent' \in Syncer
    BY <1>0, <1>2 DEF SendGet, Syncer
  <2> QED
    BY <1>2, <2>3, <2>4 DEF SendGet, TypeOK, Syncer, Handler
<1>3. CASE WriteKeys
  <2>1. file' \in [host : Life, gen : Nat,
                   body : SUBSET (Line \cup [user : Legacy, exp : {Forever}])]
    BY <1>0, <1>3 DEF WriteKeys
  <2>2. agent' \in Syncer
    BY <1>3, GotoStep DEF WriteKeys
  <2> QED
    BY <1>3, <2>1, <2>2 DEF WriteKeys, TypeOK, Syncer
<1>4. CASE WriteState
  <2>1. state' \in [gen : Nat, body : SUBSET Line]
    BY <1>0, <1>4 DEF WriteState
  <2>2. agent' \in Syncer
    BY <1>4, GotoStep DEF WriteState
  <2> QED
    BY <1>4, <2>1, <2>2 DEF WriteState, TypeOK, Syncer
<1>5. CASE SendAck
  <2>1. [pc |-> "sent", host |-> 0, gen |-> agent.gen, body |-> agent.body] \in Ack
    BY <1>0, Blanks DEF Ack
  <2>2. agent' \in Syncer
    BY <1>5, GotoStep DEF SendAck
  <2> QED
    BY <1>5, <2>1, <2>2 DEF SendAck, TypeOK, Syncer
<1>6. ASSUME NEW a \in acks, AckVerify(a) PROVE TypeOK'
  <2>1. [a EXCEPT !.pc = "verified", !.host = life] \in Ack
    BY DEF TypeOK, Ack
  <2>2. agent' \in Syncer
    BY <1>0, <1>6, AckAnsweredStep, Blanks DEF AckVerify
  <2>3. acks' \subseteq Ack
    BY <1>6, <2>1 DEF AckVerify, TypeOK
  <2> QED
    BY <1>6, <2>2, <2>3 DEF AckVerify, TypeOK, Syncer
<1>7. ASSUME NEW a \in acks, AckApply(a) PROVE TypeOK'
  <2>1. agent' \in Syncer
    BY <1>0, <1>7, AckAnsweredStep, Blanks DEF AckApply
  <2>2. ASSUME NEW g \in Grant
        PROVE  [grants[g] EXCEPT !.installed = @ \/ g \in Acknowledged(a)] \in GrantRow
    <3>1. grants[g] \in GrantRow
      BY DEF TypeOK, GrantRow
    <3>2. (grants[g].installed \/ g \in Acknowledged(a)) \in BOOLEAN
      OBVIOUS
    <3> QED
      BY <3>1, <3>2 DEF GrantRow
  <2>3. grants' \in [Grant -> GrantRow]
    BY <1>7, <2>2 DEF AckApply
  <2>4. acks' \subseteq Ack
    BY <1>7 DEF AckApply, TypeOK
  <2> QED
    BY <1>7, <2>1, <2>3, <2>4 DEF AckApply, TypeOK, Syncer, GrantRow
<1> QED
  BY <1>1, <1>2, <1>3, <1>4, <1>5, <1>6, <1>7 DEF Sync

\* The node's handler, and the agent when it gives up or dies.
LEMMA HandleType == ASSUME NEW m \in Node PROVE TypeOK /\ Handle(m) => TypeOK'
<1> SUFFICES ASSUME TypeOK, Handle(m) PROVE TypeOK'
  OBVIOUS
<1> USE DEF control, device
<1>0. /\ agent \in Syncer /\ srv[m].body \in SUBSET Line /\ srv[m].host \in Life
      /\ Resting \in Syncer /\ Idle \in Handler
  BY Blanks DEF TypeOK, Syncer
<1>1. CASE VerifyDevice(m)
  <2>1. srv' \in [Node -> Handler]
    <3>1. CASE bind = "active"
      BY <1>1, <3>1, VerifyStep, HandlerType
    <3>2. CASE bind # "active"
      BY <1>0, <1>1, <3>2, HandlerType DEF VerifyDevice
    <3> QED
      BY <3>1, <3>2
  <2>2. agent' \in Syncer
    BY <1>0, <1>1, AnsweredStep DEF VerifyDevice
  <2> QED
    BY <1>1, <2>1, <2>2 DEF VerifyDevice, TypeOK, Syncer, Handler
<1>2. CASE ReadEntries(m)
  <2>1. srv' \in [Node -> Handler]
    BY <1>2, EntriesStep, HandlerType
  <2> QED
    BY <1>2, <2>1 DEF ReadEntries, TypeOK, Handler
<1>3. CASE ReadGrants(m)
  <2>1. srv' \in [Node -> Handler]
    BY <1>3, GrantsStep, HandlerType
  <2> QED
    BY <1>3, <2>1 DEF ReadGrants, TypeOK, Handler
<1>4. CASE Publish(m)
  <2>1. srv' \in [Node -> Handler]
    BY <1>4, PublishStep, HandlerType
  <2>2. row' \in [Life -> [gen : Nat, body : SUBSET Line, grants : SUBSET Grant]]
    BY <1>4, PublishStep
  <2> QED
    BY <1>4, <2>1, <2>2 DEF Publish, TypeOK, Handler
<1>5. CASE Answer(m)
  <2>1. srv' \in [Node -> Handler]
    BY <1>0, <1>5, HandlerType DEF Answer
  <2>2. GenerationOf(m) \in Nat
    BY <1>0 DEF GenerationOf, TypeOK
  <2>3. agent' \in Syncer
    BY <1>0, <1>5, <2>2, AnsweredStep DEF Answer
  <2>4. [host |-> srv[m].host, gen |-> GenerationOf(m), body |-> srv[m].body]
           \in [host : Life, gen : Nat, body : SUBSET Line]
    BY <1>0, <2>2
  <2>5. served' \subseteq [host : Life, gen : Nat, body : SUBSET Line]
    BY <1>5, <2>4 DEF Answer, TypeOK
  <2> QED
    BY <1>5, <2>1, <2>3, <2>5 DEF Answer, TypeOK, Syncer, Handler
<1> QED
  BY <1>1, <1>2, <1>3, <1>4, <1>5 DEF Handle

\* Every step keeps the types.
LEMMA TypeStep == TypeOK /\ [Next]_vars => TypeOK'
<1> SUFFICES ASSUME TypeOK, [Next]_vars PROVE TypeOK'
  OBVIOUS
<1>1. CASE AgentTimeout \/ AgentCrash
  <2>1. agent' \in Syncer /\ losses' \in Nat
    BY <1>1, Blanks DEF AgentTimeout, AgentCrash, AgentEnds, TypeOK
  <2> QED
    BY <1>1, <2>1 DEF AgentTimeout, AgentCrash, TypeOK, Syncer, control
<1>2. CASE UNCHANGED vars
  BY <1>2 DEF vars, control, device, TypeOK
<1> QED
  BY <1>1, <1>2, AdministerType, SyncType, HandleType DEF Next

-----------------------------------------------------------------------------
(* GenInv is inductive                                                     *)

\* No generation exists initially.
LEMMA InitGen == Init => GenInv
<1> SUFFICES ASSUME Init PROVE GenInv
  OBVIOUS
<1>1. HostsKnown
  BY Blanks DEF Init, HostsKnown
<1>2. RowIsNewest
  BY DEF Init, RowIsNewest
<1>3. AgentIsCareful
  BY Blanks DEF Init, AgentIsCareful
<1>4. FileNotOlderThanState
  BY DEF Init, FileNotOlderThanState
<1> QED
  BY <1>1, <1>2, <1>3, <1>4 DEF GenInv

\* A complete answer has no line without an expiry.
LEMMA ServedFile ==
    ASSUME TypeOK, AgentIsCareful, file.gen # 0
    PROVE  file.body \subseteq Line
BY DEF TypeOK, AgentIsCareful

\* Steps that touch neither the agent, its files, the rows nor the host.
LEMMA GenFrame ==
    ASSUME GenInv, UNCHANGED <<agent, file, state, row, bind, life, served>>,
           \A m \in Node : srv'[m].host <= life
    PROVE  GenInv'
<1>1. HostsKnown'
  BY DEF GenInv, HostsKnown
<1>2. RowIsNewest'
  BY DEF GenInv, RowIsNewest
<1>3. AgentIsCareful'
  BY DEF GenInv, AgentIsCareful, Acceptable
<1>4. FileNotOlderThanState'
  BY DEF GenInv, FileNotOlderThanState
<1> QED
  BY <1>1, <1>2, <1>3, <1>4 DEF GenInv

\* The same, but the agent's cycle may end.
LEMMA GenEnds ==
    ASSUME GenInv, TypeOK, UNCHANGED <<file, state, row, bind, life, served>>,
           \A m \in Node : srv'[m].host <= life, agent' = agent \/ agent' = Resting
    PROVE  GenInv'
<1>1. CASE agent' = agent
  BY <1>1, GenFrame
<1>2. CASE agent' = Resting
  <2>1. HostsKnown'
    BY <1>2, Blanks DEF GenInv, HostsKnown, TypeOK, Life
  <2>2. RowIsNewest'
    BY DEF GenInv, RowIsNewest
  <2>3. AgentIsCareful'
    BY <1>2, Blanks DEF GenInv, AgentIsCareful
  <2>4. FileNotOlderThanState'
    BY DEF GenInv, FileNotOlderThanState
  <2> QED
    BY <2>1, <2>2, <2>3, <2>4 DEF GenInv
<1> QED
  BY <1>1, <1>2

\* Users, administrators and the clock leave generations alone; deleting the host drops its row.
LEMMA AdministerGen == TypeOK /\ GenInv /\ Administer => GenInv'
<1> SUFFICES ASSUME TypeOK, GenInv, Administer PROVE GenInv'
  OBVIOUS
<1> USE DEF device
<1>0. \A m \in Node : srv[m].host <= life
  BY DEF GenInv, HostsKnown
<1>1. CASE Tick \/ (\E u \in User : RequestAccess(u) \/ ChangeKey(u)) \/ \E a \in asking : IssueAccess(a)
  <2>1. UNCHANGED <<agent, file, state, row, bind, life, served, srv>>
    BY <1>1 DEF Tick, RequestAccess, ChangeKey, IssueAccess
  <2> QED
    BY <1>0, <2>1, GenFrame
<1>2. CASE DeleteDevice
  <2>1. UNCHANGED <<agent, file, state, row, life, served, srv>> /\ bind # "absent"
    BY <1>2 DEF DeleteDevice
  <2>2. HostsKnown' /\ FileNotOlderThanState'
    BY <2>1 DEF GenInv, HostsKnown, FileNotOlderThanState
  <2>3. RowIsNewest'
    BY <2>1 DEF GenInv, RowIsNewest
  <2>4. AgentIsCareful'
    BY <2>1 DEF GenInv, AgentIsCareful, Acceptable
  <2> QED
    BY <2>2, <2>3, <2>4 DEF GenInv
<1>3. CASE DeleteHost
  <2>1. UNCHANGED <<agent, file, state, life, served, srv>> /\ bind' = "absent"
    BY <1>3 DEF DeleteHost
  <2>2. HostsKnown' /\ FileNotOlderThanState' /\ RowIsNewest'
    BY <2>1 DEF GenInv, HostsKnown, FileNotOlderThanState, RowIsNewest
  <2>3. AgentIsCareful'
    BY <2>1 DEF GenInv, AgentIsCareful, Acceptable
  <2> QED
    BY <2>2, <2>3 DEF GenInv
<1>4. CASE Enroll
  <2>1. UNCHANGED <<agent, file, state, row, served, srv>> /\ life' = life + 1
    BY <1>4 DEF Enroll
  <2>2. /\ life \in Nat /\ agent.host \in Nat /\ file.host \in Nat
        /\ \A m \in Node : srv[m].host \in Nat
        /\ \A a \in served : a.host \in Nat
    BY DEF TypeOK, Life
  <2>3. HostsKnown'
    BY <2>1, <2>2 DEF GenInv, HostsKnown
  <2>4. RowIsNewest'
    <3>1. \A a \in served : a.host # life + 1
      BY <2>2 DEF GenInv, HostsKnown
    <3> QED
      BY <2>1, <3>1 DEF RowIsNewest
  <2>5. AgentIsCareful'
    <3>1. agent.host # life + 1
      BY <2>2 DEF GenInv, HostsKnown
    <3> QED
      BY <2>1, <3>1 DEF GenInv, AgentIsCareful, Acceptable
  <2>6. FileNotOlderThanState'
    BY <2>1 DEF GenInv, FileNotOlderThanState
  <2> QED
    BY <2>3, <2>4, <2>5, <2>6 DEF GenInv
<1> QED
  BY <1>1, <1>2, <1>3, <1>4 DEF Administer

\* The agent installs what it judged not to be a rollback, file by file.
LEMMA SyncGen == TypeOK /\ GenInv /\ Sync => GenInv'
<1> SUFFICES ASSUME TypeOK, GenInv, Sync PROVE GenInv'
  OBVIOUS
<1> USE DEF control
<1>0. /\ \A m \in Node : srv[m].host <= life
      /\ HostsKnown /\ RowIsNewest /\ AgentIsCareful /\ FileNotOlderThanState
  BY DEF GenInv, HostsKnown
<1>1. CASE PurgeLegacy
  <2>1. /\ UNCHANGED <<state, row, bind, life, served, srv>> /\ agent.pc = "idle"
        /\ agent'.pc = "purged" /\ agent'.host = agent.host
        /\ file' = [file EXCEPT !.body = {e \in @ : e.exp # Forever}]
    BY <1>1, GotoStep DEF PurgeLegacy
  <2>2. file'.gen = file.gen /\ file'.host = file.host /\ file'.body = {e \in file.body : e.exp # Forever}
    BY <2>1 DEF TypeOK
  <2>3. file'.body \subseteq Line
    BY <2>2 DEF TypeOK
  <2>4. file.gen # 0 => file' = file
    <3>1. SUFFICES ASSUME file.gen # 0 PROVE file' = file
      OBVIOUS
    <3>2. \A e \in file.body : e.exp # Forever
      BY <1>0, <3>1, ServedFile, Blanks DEF Line
    <3>3. {e \in file.body : e.exp # Forever} = file.body
      BY <3>2
    <3> QED
      BY <2>1, <3>3 DEF TypeOK
  <2>5. HostsKnown'
    BY <1>0, <2>1, <2>2 DEF HostsKnown
  <2>6. RowIsNewest'
    BY <1>0, <2>1 DEF RowIsNewest
  <2>7. AgentIsCareful'
    BY <1>0, <2>1, <2>2, <2>3, <2>4 DEF AgentIsCareful
  <2>8. FileNotOlderThanState'
    BY <1>0, <2>1, <2>2, <2>4 DEF FileNotOlderThanState
  <2> QED
    BY <2>5, <2>6, <2>7, <2>8 DEF GenInv
<1>2. ASSUME NEW m \in Node, SendGet(m) PROVE GenInv'
  <2> DEFINE x == [Idle EXCEPT !.pc = "asked"]
  <2>1. x \in Handler /\ x.host = 0
    BY Blanks DEF Handler, Idle
  <2>2. srv' = [srv EXCEPT ![m] = x]
    BY <1>2 DEF SendGet
  <2> HIDE DEF x
  <2>3. \A n \in Node : srv'[n].host = 0 \/ srv'[n].host = srv[n].host
    BY <2>1, <2>2, HandlerType
  <2>4. /\ agent'.pc = "fetch" /\ agent'.host = agent.host /\ agent.pc = "purged"
        /\ UNCHANGED <<file, state, row, bind, life, served>>
    BY <1>2 DEF SendGet, TypeOK
  <2>5. HostsKnown'
    <3>0. 0 <= life
      BY DEF TypeOK, Life
    <3>1. \A n \in Node : srv'[n].host <= life
      BY <1>0, <2>3, <3>0
    <3> QED
      BY <1>0, <2>4, <3>1 DEF HostsKnown
  <2>6. RowIsNewest' /\ FileNotOlderThanState'
    BY <1>0, <2>4 DEF RowIsNewest, FileNotOlderThanState
  <2>7. AgentIsCareful'
    BY <1>0, <2>4 DEF AgentIsCareful
  <2> QED
    BY <2>5, <2>6, <2>7 DEF GenInv
<1>3. CASE WriteKeys
  <2>1. /\ UNCHANGED <<state, row, bind, life, served, srv>> /\ agent.pc = "keys"
        /\ agent'.pc = "state" /\ agent'.host = agent.host /\ agent'.gen = agent.gen
        /\ agent'.body = agent.body
        /\ file' = [host |-> agent.host, gen |-> agent.gen, body |-> agent.body]
    BY <1>3, GotoStep DEF WriteKeys
  <2>2. file'.host = agent.host /\ file'.gen = agent.gen /\ file'.body = agent.body
    BY <2>1
  <2>3. HostsKnown' /\ RowIsNewest'
    BY <1>0, <2>1, <2>2 DEF HostsKnown, RowIsNewest
  <2>4. agent.body \subseteq Line
    BY DEF TypeOK
  <2>5. AgentIsCareful'
    BY <1>0, <2>1, <2>2, <2>4 DEF AgentIsCareful
  <2>6. FileNotOlderThanState'
    BY <1>0, <2>1, <2>2 DEF AgentIsCareful, FileNotOlderThanState, Acceptable, TypeOK
  <2> QED
    BY <2>3, <2>5, <2>6 DEF GenInv
<1>4. CASE WriteState
  <2>1. /\ UNCHANGED <<file, row, bind, life, served, srv>> /\ agent.pc = "state"
        /\ agent'.pc = "ack" /\ agent'.host = agent.host /\ agent'.gen = agent.gen
        /\ agent'.body = agent.body
        /\ state'.gen = agent.gen /\ state'.body = agent.body
    BY <1>4, GotoStep DEF WriteState
  <2>2. HostsKnown' /\ RowIsNewest'
    BY <1>0, <2>1 DEF HostsKnown, RowIsNewest
  <2>3. AgentIsCareful'
    BY <1>0, <2>1 DEF AgentIsCareful
  <2>4. FileNotOlderThanState'
    BY <1>0, <2>1 DEF AgentIsCareful, FileNotOlderThanState, TypeOK
  <2> QED
    BY <2>2, <2>3, <2>4 DEF GenInv
<1>5. CASE SendAck
  <2>1. /\ UNCHANGED <<file, state, row, bind, life, served, srv>> /\ agent.pc = "ack"
        /\ agent'.pc = "acking" /\ agent'.host = agent.host /\ agent'.gen = agent.gen
        /\ agent'.body = agent.body
    BY <1>5, GotoStep DEF SendAck
  <2>2. HostsKnown' /\ RowIsNewest' /\ FileNotOlderThanState'
    BY <1>0, <2>1 DEF HostsKnown, RowIsNewest, FileNotOlderThanState
  <2>3. AgentIsCareful'
    BY <1>0, <2>1 DEF AgentIsCareful
  <2> QED
    BY <2>2, <2>3 DEF GenInv
<1>6. ASSUME NEW a \in acks, AckVerify(a) \/ AckApply(a) PROVE GenInv'
  <2>1. UNCHANGED <<file, state, row, bind, life, served, srv>>
    BY <1>6 DEF AckVerify, AckApply
  <2>2. agent' = agent \/ agent' = Resting
    BY <1>6, AckAnsweredStep DEF AckVerify, AckApply
  <2> QED
    BY <1>0, <2>1, <2>2, GenEnds
<1> QED
  BY <1>1, <1>2, <1>3, <1>4, <1>5, <1>6 DEF Sync

\* A handler publishes, reads back and answers in order of generations.
LEMMA HandleGen == ASSUME NEW m \in Node PROVE TypeOK /\ GenInv /\ Handle(m) => GenInv'
<1> SUFFICES ASSUME TypeOK, GenInv, Handle(m) PROVE GenInv'
  OBVIOUS
<1> USE DEF control, device
<1>0. /\ \A n \in Node : srv[n].host <= life
      /\ HostsKnown /\ RowIsNewest /\ AgentIsCareful /\ FileNotOlderThanState
      /\ srv[m].host \in Life /\ srv[m].body \in SUBSET Line /\ 0 <= life /\ life <= life
      /\ Resting \in Syncer /\ Idle \in Handler
  BY Blanks DEF GenInv, HostsKnown, TypeOK, Life
<1>1. CASE VerifyDevice(m)
  <2>1. \A n \in Node : srv'[n].host <= life
    <3>1. CASE bind = "active"
      BY <1>0, <1>1, <3>1, VerifyStep, HandlerType
    <3>2. CASE bind # "active"
      BY <1>0, <1>1, <3>2, HandlerType, Blanks DEF VerifyDevice
    <3> QED
      BY <3>1, <3>2
  <2>2. agent' = agent \/ agent' = Resting
    BY <1>0, <1>1, AnsweredStep DEF VerifyDevice
  <2> QED
    BY <1>1, <2>1, <2>2, GenEnds DEF VerifyDevice
<1>2. CASE ReadEntries(m)
  <2>1. \A n \in Node : srv'[n].host <= life
    BY <1>0, <1>2, EntriesStep, HandlerType
  <2> QED
    BY <1>2, <2>1, GenFrame DEF ReadEntries
<1>3. CASE ReadGrants(m)
  <2>1. \A n \in Node : srv'[n].host <= life
    BY <1>0, <1>3, GrantsStep, HandlerType
  <2> QED
    BY <1>3, <2>1, GenFrame DEF ReadGrants
<1>4. CASE Publish(m)
  <2>1. \A n \in Node : srv'[n].host <= life
    BY <1>0, <1>4, PublishStep, HandlerType
  <2>2. UNCHANGED <<agent, file, state, bind, life, served>>
    BY <1>4 DEF Publish
  <2>3. HostsKnown' /\ FileNotOlderThanState'
    BY <1>0, <2>1, <2>2 DEF HostsKnown, FileNotOlderThanState
  <2>4. AgentIsCareful'
    BY <1>0, <2>2 DEF AgentIsCareful, Acceptable
  <2>5. RowIsNewest'
    <3>1. CASE srv[m].host # life
      <4>1. row'[life] = row[life]
        BY <1>4, <3>1, PublishStep DEF TypeOK
      <4> QED
        BY <1>0, <2>2, <4>1 DEF RowIsNewest
    <3>2. CASE srv[m].host = life
      <4>1. /\ row[life].gen \in Nat /\ \A a \in served : a.gen \in Nat
            /\ \/ row'[life].gen = row[life].gen /\ row'[life].body = row[life].body
               \/ row'[life].gen = row[life].gen + 1
        BY <1>4, <3>2, PublishStep DEF TypeOK
      <4> QED
        BY <1>0, <2>2, <4>1 DEF RowIsNewest
    <3> QED
      BY <3>1, <3>2
  <2> QED
    BY <2>3, <2>4, <2>5 DEF GenInv
<1>5. CASE Answer(m)
  <2> DEFINE gen == GenerationOf(m)
             s == [host |-> srv[m].host, gen |-> gen, body |-> srv[m].body]
  <2>1. UNCHANGED <<file, state, bind, life, row>>
    BY <1>5 DEF Answer
  <2>2. gen \in Nat /\ (gen # 0 => gen = row[srv[m].host].gen /\ srv[m].body = row[srv[m].host].body)
    BY <1>0 DEF GenerationOf, TypeOK
  <2>3. s.host = srv[m].host /\ s.gen = gen /\ s.body = srv[m].body
    OBVIOUS
  <2>4. Answered(m, gen, srv[m].body) /\ served' = IF gen = 0 THEN served ELSE served \cup {s}
    BY <1>5 DEF Answer
  <2> HIDE DEF gen, s
  <2>5. \A n \in Node : srv'[n].host <= life
    BY <1>0, <1>5, HandlerType, Blanks DEF Answer
  <2>6. \/ agent' = agent \/ agent' = Resting
        \/ /\ gen # 0 /\ Acceptable(gen, srv[m].body) /\ agent' \in Syncer
           /\ agent'.pc = "keys" /\ agent'.host = srv[m].host /\ agent'.gen = gen
           /\ agent'.body = srv[m].body
    BY <1>0, <2>2, <2>4, AnsweredStep
  <2>7. HostsKnown'
    <3>1. agent'.host <= life
      BY <1>0, <2>6, Blanks DEF HostsKnown
    <3>2. \A a \in served' : a.host <= life /\ a.gen # 0
      BY <1>0, <2>3, <2>4 DEF HostsKnown
    <3> QED
      BY <1>0, <2>1, <2>5, <3>1, <3>2 DEF HostsKnown
  <2>8. RowIsNewest'
    <3>1. SUFFICES ASSUME bind # "absent" PROVE
              /\ \A a \in served' : a.host = life =>
                     /\ a.gen <= row[life].gen
                     /\ a.gen = row[life].gen => a.body = row[life].body
              /\ \A a, b \in served' : a.host = life /\ b.host = life /\ a.gen = b.gen => a.body = b.body
      BY <2>1 DEF RowIsNewest
    <3>2. row[life].gen <= row[life].gen
      BY DEF TypeOK
    <3>3. gen # 0 /\ s.host = life => s.gen = row[life].gen /\ s.body = row[life].body
      BY <2>2, <2>3
    <3>4. \A a \in served' : a.host = life =>
                 /\ a.gen <= row[life].gen
                 /\ a.gen = row[life].gen => a.body = row[life].body
      BY <1>0, <2>4, <3>1, <3>2, <3>3 DEF RowIsNewest
    <3> QED
      BY <1>0, <2>4, <3>1, <3>3, <3>4 DEF RowIsNewest
  <2>9. AgentIsCareful'
    <3>1. served \subseteq served' /\ (gen # 0 => s \in served')
      BY <2>4
    <3>2. file.gen # 0 => file \in served'
      BY <1>0, <3>1 DEF AgentIsCareful
    <3>3. CASE agent' = agent
      BY <1>0, <2>1, <3>1, <3>2, <3>3 DEF AgentIsCareful, Acceptable
    <3>4. CASE agent' = Resting
      BY <2>1, <3>2, <3>4, Blanks DEF AgentIsCareful
    <3>5. CASE /\ gen # 0 /\ Acceptable(gen, srv[m].body) /\ agent' \in Syncer
               /\ agent'.pc = "keys" /\ agent'.host = srv[m].host /\ agent'.gen = gen
               /\ agent'.body = srv[m].body /\ agent' # agent
      <4>1. [host |-> agent'.host, gen |-> agent'.gen, body |-> agent'.body] \in served'
        BY <3>1, <3>5 DEF s
      <4>2. Acceptable(agent.gen, agent.body)'
        BY <2>1, <3>5 DEF Acceptable
      <4>3. bind # "absent" /\ srv[m].host = life /\ file.host = life => file.gen <= gen
        <5>1. 0 <= gen
          BY <2>2
        <5> QED
          BY <1>0, <2>2, <3>5, <5>1 DEF AgentIsCareful, RowIsNewest
      <4>4. file.body \subseteq Line
        BY <1>0, <1>5, <2>4, <3>5 DEF AgentIsCareful, Answered, AgentEnds
      <4> QED
        BY <2>1, <3>2, <3>5, <4>1, <4>2, <4>3, <4>4 DEF AgentIsCareful
    <3> QED
      BY <2>6, <3>3, <3>4, <3>5
  <2>10. FileNotOlderThanState'
    BY <1>0, <2>1 DEF FileNotOlderThanState
  <2> QED
    BY <2>7, <2>8, <2>9, <2>10 DEF GenInv
<1> QED
  BY <1>1, <1>2, <1>3, <1>4, <1>5 DEF Handle

\* Every step keeps the order of generations.
LEMMA GenStep == TypeOK /\ GenInv /\ [Next]_vars => GenInv'
<1> SUFFICES ASSUME TypeOK, GenInv, [Next]_vars PROVE GenInv'
  OBVIOUS
<1>0. \A n \in Node : srv[n].host <= life
  BY DEF GenInv, HostsKnown
<1>1. CASE AgentTimeout \/ AgentCrash
  <2>1. UNCHANGED <<file, state, row, bind, life, served, srv>> /\ agent' = Resting
    BY <1>1 DEF AgentTimeout, AgentCrash, AgentEnds, control
  <2> QED
    BY <1>0, <2>1, GenEnds
<1>2. CASE UNCHANGED vars
  BY <1>0, <1>2, GenFrame DEF vars, control, device
<1> QED
  BY <1>1, <1>2, AdministerGen, SyncGen, HandleGen DEF Next

-----------------------------------------------------------------------------
(* TimeInv is inductive                                                    *)

\* No line and no revocation exists initially.
LEMMA InitTime == Init => TimeInv
<1> SUFFICES ASSUME Init PROVE TimeInv
  OBVIOUS
<1>1. /\ now = 0 /\ revokedAt = 0 /\ asking = {} /\ bind = "active" /\ Window = TTL
      /\ \A g \in Grant : grants[g].exp = 0
      /\ \A m \in Node : srv[m].body = {}
      /\ agent.body = {} /\ \A e \in file.body : e.exp = Forever
  BY Blanks, KeySyncAssumption DEF Init, Window, NoGrant
<1> QED
  BY <1>1, KeySyncAssumption DEF TimeInv, WithinWindow, RevokedMeansExpired

\* The numbers a proof about expiries works with.
LEMMA Numbers ==
    ASSUME TypeOK
    PROVE  /\ now \in Nat /\ TTL \in Nat /\ revokedAt \in Nat /\ Window \in Nat
           /\ \A g \in Grant : grants[g].exp \in Nat
           /\ \A a \in asking : a.exp \in Nat
           /\ \A m \in Node : \A e \in srv[m].body : e.exp \in Nat
           /\ \A e \in agent.body : e.exp \in Nat
           /\ \A e \in file.body : e.exp \in Nat
<1>0. MaxTime + TTL \in Nat /\ Forever \in Nat /\ TTL \in Nat
  BY KeySyncAssumption DEF Forever
<1>1. \A e \in Line : e.exp \in Nat
  BY <1>0 DEF Line
<1>2. now \in Nat /\ revokedAt \in Nat /\ Window \in Nat
  BY KeySyncAssumption DEF TypeOK, Window
<1>3. \A g \in Grant : grants[g].exp \in Nat
  BY <1>0 DEF TypeOK
<1>4. \A a \in asking : a.exp \in Nat
  BY <1>0 DEF TypeOK, Request
<1>5. /\ \A m \in Node : \A e \in srv[m].body : e.exp \in Nat
      /\ \A e \in agent.body : e.exp \in Nat
  BY <1>1 DEF TypeOK
<1>6. \A e \in file.body : e.exp \in Nat
  BY <1>0, <1>1 DEF TypeOK
<1> QED
  BY <1>0, <1>2, <1>3, <1>4, <1>5, <1>6

\* Steps of a node or the agent: time, requests and the binding stand still.
LEMMA TimeFrame ==
    ASSUME TimeInv, UNCHANGED <<now, revokedAt, bind, life, asking>>,
           \A g \in Grant : grants'[g].exp = grants[g].exp /\ grants'[g].host = grants[g].host,
           \A m \in Node : \A e \in srv'[m].body : e.exp <= Window,
           \A e \in agent'.body : e.exp <= Window,
           \A e \in file'.body : e.exp # Forever => e.exp <= Window
    PROVE  TimeInv'
<1>1. Window' = Window
  BY DEF Window
<1>2. WithinWindow'
  BY <1>1 DEF TimeInv, WithinWindow
<1>3. RevokedMeansExpired'
  BY DEF TimeInv, RevokedMeansExpired
<1> QED
  BY <1>2, <1>3 DEF TimeInv

\* Administrative steps: what is under way at the nodes and the agent stays,
\* and the window only grows.
LEMMA TimeGrows ==
    ASSUME TypeOK, TypeOK', TimeInv, UNCHANGED <<srv, agent, file>>,
           Window <= Window', revokedAt' <= now',
           \A a \in asking' : a.exp <= now' + TTL,
           \A g \in Grant : grants'[g].exp <= Window',
           RevokedMeansExpired'
    PROVE  TimeInv'
<1>0. now' \in Nat /\ revokedAt' \in Nat
  BY KeySyncAssumption DEF TypeOK
<1>1. Window \in Nat /\ Window' \in Nat
  BY <1>0, Numbers DEF Window
<1>2. /\ \A m \in Node : \A e \in srv'[m].body : e.exp <= Window'
      /\ \A e \in agent'.body : e.exp <= Window'
  BY <1>1, Numbers DEF TimeInv, WithinWindow
<1>3. \A e \in file'.body : e.exp # Forever => e.exp <= Window'
  BY <1>1, Numbers DEF TimeInv, WithinWindow
<1> QED
  BY <1>2, <1>3 DEF TimeInv, WithinWindow, Forever

\* Time brings every line closer to its expiry; nothing else lengthens one.
LEMMA AdministerTime == TypeOK /\ TypeOK' /\ TimeInv /\ Administer => TimeInv'
<1> SUFFICES ASSUME TypeOK, TypeOK', TimeInv, Administer PROVE TimeInv'
  OBVIOUS
<1> USE DEF device
<1>0. /\ revokedAt <= now /\ RevokedMeansExpired
      /\ \A a \in asking : a.exp <= now + TTL
      /\ \A g \in Grant : grants[g].exp <= Window
  BY DEF TimeInv, WithinWindow
<1>1. CASE Tick
  <2>1. UNCHANGED <<srv, agent, file, asking, grants, bind, life, revokedAt>> /\ now' = now + 1
    BY <1>1 DEF Tick
  <2>2. Window <= Window' /\ revokedAt' <= now'
    BY <1>0, <2>1, Numbers DEF Window
  <2>3. \A a \in asking' : a.exp <= now' + TTL
    BY <1>0, <2>1, Numbers
  <2>4. \A g \in Grant : grants'[g].exp <= Window'
    BY <1>0, <2>1, Numbers DEF Window
  <2>5. RevokedMeansExpired'
    BY <1>0, <2>1, Numbers DEF RevokedMeansExpired
  <2> QED
    BY <2>1, <2>2, <2>3, <2>4, <2>5, TimeGrows
<1>2. CASE DeleteDevice
  <2>1. /\ UNCHANGED <<srv, agent, file, asking, now, life>> /\ bind = "active"
        /\ bind' = "revoked" /\ revokedAt' = now
    BY <1>2 DEF DeleteDevice
  <2>2. \A g \in Grant :
            /\ grants'[g].host = grants[g].host
            /\ grants'[g].exp = IF grants[g].host = life /\ grants[g].exp > now THEN now ELSE grants[g].exp
    <3>1. SUFFICES ASSUME NEW g \in Grant PROVE
            /\ grants'[g].host = grants[g].host
            /\ grants'[g].exp = IF grants[g].host = life /\ grants[g].exp > now THEN now ELSE grants[g].exp
      OBVIOUS
    <3>2. grants[g] \in GrantRow
      BY DEF TypeOK, GrantRow
    <3>3. grants'[g] = IF grants[g].host = life /\ grants[g].exp > now
                       THEN [grants[g] EXCEPT !.exp = now] ELSE grants[g]
      BY <1>2 DEF DeleteDevice
    <3> QED
      BY <3>2, <3>3 DEF GrantRow
  <2>3. Window' = Window /\ now <= Window /\ revokedAt' <= now'
    BY <2>1, Numbers DEF Window
  <2>4. \A g \in Grant : grants'[g].exp <= Window'
    BY <1>0, <2>2, <2>3, Numbers
  <2>5. RevokedMeansExpired'
    BY <2>1, <2>2, Numbers DEF RevokedMeansExpired
  <2> QED
    BY <1>0, <2>1, <2>3, <2>4, <2>5, TimeGrows, Numbers
<1>3. CASE DeleteHost
  <2>1. UNCHANGED <<srv, agent, file, asking, now, revokedAt>> /\ bind' = "absent"
    BY <1>3 DEF DeleteHost
  <2>2. Window <= Window' /\ 0 <= Window'
    BY <1>0, <2>1, Numbers DEF Window
  <2>3. \A g \in Grant : grants'[g] = grants[g] \/ grants'[g].exp = 0
    BY <1>3 DEF DeleteHost, NoGrant
  <2>4. \A g \in Grant : grants'[g].exp <= Window'
    <3>1. Window' \in Nat
      BY <2>1, Numbers DEF Window
    <3> QED
      BY <1>0, <2>2, <2>3, <3>1, Numbers
  <2>5. RevokedMeansExpired'
    BY <2>1 DEF RevokedMeansExpired
  <2> QED
    BY <1>0, <2>1, <2>2, <2>4, <2>5, TimeGrows
<1>4. CASE Enroll
  <2>1. /\ UNCHANGED <<srv, agent, file, asking, now, grants, revokedAt>>
        /\ bind = "absent" /\ bind' = "active"
    BY <1>4 DEF Enroll
  <2>2. Window' = Window
    BY <2>1 DEF Window
  <2>3. RevokedMeansExpired'
    BY <2>1 DEF RevokedMeansExpired
  <2> QED
    BY <1>0, <2>1, <2>2, <2>3, TimeGrows, Numbers
<1>5. ASSUME NEW u \in User, RequestAccess(u) PROVE TimeInv'
  <2>1. /\ UNCHANGED <<srv, agent, file, now, grants, revokedAt, bind, life>>
        /\ asking' = asking \cup {[user |-> u, host |-> life, exp |-> now + TTL]}
    BY <1>5 DEF RequestAccess
  <2>2. \A a \in asking' : a.exp <= now' + TTL
    BY <1>0, <2>1, Numbers
  <2>3. Window' = Window /\ RevokedMeansExpired'
    BY <1>0, <2>1 DEF Window, RevokedMeansExpired
  <2> QED
    BY <1>0, <2>1, <2>2, <2>3, TimeGrows, Numbers
<1>6. ASSUME NEW u \in User, ChangeKey(u) PROVE TimeInv'
  <2>1. UNCHANGED <<srv, agent, file, now, grants, revokedAt, bind, life, asking>>
    BY <1>6 DEF ChangeKey
  <2>2. Window' = Window /\ RevokedMeansExpired'
    BY <1>0, <2>1 DEF Window, RevokedMeansExpired
  <2> QED
    BY <1>0, <2>1, <2>2, TimeGrows, Numbers
<1>7. ASSUME NEW a \in asking, IssueAccess(a) PROVE TimeInv'
  <2>1. UNCHANGED <<srv, agent, file, now, revokedAt, bind, life>> /\ asking' = asking \ {a}
    BY <1>7 DEF IssueAccess
  <2>2. Window' = Window
    BY <2>1 DEF Window
  <2>3. CASE UNCHANGED grants
    <3>1. RevokedMeansExpired'
      BY <1>0, <2>1, <2>3 DEF RevokedMeansExpired
    <3> QED
      BY <1>0, <2>1, <2>2, <2>3, <3>1, TimeGrows, Numbers
  <2>4. ASSUME bind = "active", NEW g \in Grant, grants' = Granted(a, g) PROVE TimeInv'
    <3>1. \A h \in Grant : grants'[h] = grants[h] \/ grants'[h].exp = a.exp
      BY <2>4 DEF Granted, TypeOK
    <3>2. a.exp <= Window
      BY <1>0, <2>4 DEF Window
    <3>3. RevokedMeansExpired'
      BY <2>1, <2>4 DEF RevokedMeansExpired
    <3> QED
      BY <1>0, <2>1, <2>2, <3>1, <3>2, <3>3, TimeGrows, Numbers
  <2> QED
    BY <1>7, <2>3, <2>4 DEF IssueAccess
<1> QED
  BY <1>1, <1>2, <1>3, <1>4, <1>5, <1>6, <1>7 DEF Administer

\* The agent installs lines it was sent and purges expired ones.
LEMMA SyncTime == TypeOK /\ TimeInv /\ Sync => TimeInv'
<1> SUFFICES ASSUME TypeOK, TimeInv, Sync PROVE TimeInv'
  OBVIOUS
<1> USE DEF control
<1>0. /\ \A m \in Node : \A e \in srv[m].body : e.exp <= Window
      /\ \A e \in agent.body : e.exp <= Window
      /\ \A e \in file.body : e.exp # Forever => e.exp <= Window
  BY DEF TimeInv, WithinWindow
<1>1. CASE PurgeLegacy
  <2>1. /\ UNCHANGED <<now, revokedAt, bind, life, asking, grants, srv>>
        /\ file'.body \subseteq file.body /\ agent'.body = agent.body
    BY <1>1, GotoStep DEF PurgeLegacy, TypeOK
  <2> QED
    BY <1>0, <2>1, TimeFrame
<1>2. ASSUME NEW m \in Node, SendGet(m) PROVE TimeInv'
  <2> DEFINE x == [Idle EXCEPT !.pc = "asked"]
  <2>1. x \in Handler /\ x.body = {}
    BY Blanks DEF Handler, Idle
  <2>2. srv' = [srv EXCEPT ![m] = x]
    BY <1>2 DEF SendGet
  <2> HIDE DEF x
  <2>3. \A n \in Node : srv'[n].body = {} \/ srv'[n].body = srv[n].body
    BY <2>1, <2>2, HandlerType
  <2>4. /\ UNCHANGED <<now, revokedAt, bind, life, asking, grants, file>>
        /\ agent'.body = agent.body
    BY <1>2 DEF SendGet, TypeOK
  <2> QED
    BY <1>0, <2>3, <2>4, TimeFrame
<1>3. CASE WriteKeys
  <2>1. /\ UNCHANGED <<now, revokedAt, bind, life, asking, grants, srv>>
        /\ file'.body = agent.body /\ agent'.body = agent.body
    BY <1>3, GotoStep DEF WriteKeys
  <2> QED
    BY <1>0, <2>1, TimeFrame
<1>4. CASE WriteState \/ SendAck
  <2>1. /\ UNCHANGED <<now, revokedAt, bind, life, asking, grants, srv, file>>
        /\ agent'.body = agent.body
    BY <1>4, GotoStep DEF WriteState, SendAck
  <2> QED
    BY <1>0, <2>1, TimeFrame
<1>5. ASSUME NEW a \in acks, AckVerify(a) \/ AckApply(a) PROVE TimeInv'
  <2>1. UNCHANGED <<now, revokedAt, bind, life, asking, file, srv>>
    BY <1>5 DEF AckVerify, AckApply
  <2>2. agent' = agent \/ agent'.body = {}
    BY <1>5, AckAnsweredStep, Blanks DEF AckVerify, AckApply
  <2>3. \A g \in Grant : grants'[g].exp = grants[g].exp /\ grants'[g].host = grants[g].host
    BY <1>5 DEF AckVerify, AckApply, TypeOK
  <2> QED
    BY <1>0, <2>1, <2>2, <2>3, TimeFrame
<1> QED
  BY <1>1, <1>2, <1>3, <1>4, <1>5 DEF Sync

\* A handler of a revoked device publishes and sends nothing live.
LEMMA HandleTime == ASSUME NEW m \in Node PROVE TypeOK /\ TimeInv /\ Handle(m) => TimeInv'
<1> SUFFICES ASSUME TypeOK, TimeInv, Handle(m) PROVE TimeInv'
  OBVIOUS
<1> USE DEF control, device
<1>0. /\ \A n \in Node : \A e \in srv[n].body : e.exp <= Window
      /\ \A e \in agent.body : e.exp <= Window
      /\ \A e \in file.body : e.exp # Forever => e.exp <= Window
      /\ srv[m].body \in SUBSET Line /\ Idle \in Handler /\ {} \in SUBSET Line /\ 0 \in Nat
  BY Blanks DEF TimeInv, WithinWindow, TypeOK
<1>1. CASE VerifyDevice(m)
  <2>1. \A n \in Node : srv'[n].body = {} \/ srv'[n].body = srv[n].body
    <3>1. CASE bind = "active"
      BY <1>1, <3>1, VerifyStep, HandlerType
    <3>2. CASE bind # "active"
      BY <1>0, <1>1, <3>2, HandlerType, Blanks DEF VerifyDevice
    <3> QED
      BY <3>1, <3>2
  <2>2. agent' = agent \/ agent' = Resting
    BY <1>0, <1>1, AnsweredStep DEF VerifyDevice
  <2> QED
    BY <1>0, <1>1, <2>1, <2>2, TimeFrame, Blanks DEF VerifyDevice
<1>2. CASE ReadEntries(m)
  <2>1. \A e \in Entries(srv[m].host) : e.exp <= Window
    BY DEF Entries, LiveGrants, TimeInv, WithinWindow
  <2>2. \A n \in Node : \A e \in srv'[n].body : e.exp <= Window
    BY <1>0, <1>2, <2>1, EntriesStep, HandlerType
  <2> QED
    BY <1>0, <1>2, <2>2, TimeFrame DEF ReadEntries
<1>3. CASE ReadGrants(m)
  <2>1. \A n \in Node : srv'[n].body = srv[n].body
    BY <1>3, GrantsStep, HandlerType
  <2> QED
    BY <1>0, <1>3, <2>1, TimeFrame DEF ReadGrants
<1>4. CASE Publish(m)
  <2>1. \A n \in Node : srv'[n].body = srv[n].body
    BY <1>4, PublishStep, HandlerType
  <2> QED
    BY <1>0, <1>4, <2>1, TimeFrame DEF Publish
<1>5. CASE Answer(m)
  <2>1. \A n \in Node : srv'[n].body = {} \/ srv'[n].body = srv[n].body
    BY <1>0, <1>5, HandlerType, Blanks DEF Answer
  <2>2. GenerationOf(m) \in Nat
    BY DEF GenerationOf, TypeOK
  <2>3. agent' = agent \/ agent' = Resting \/ agent'.body = srv[m].body
    BY <1>0, <1>5, <2>2, AnsweredStep DEF Answer
  <2> QED
    BY <1>0, <1>5, <2>1, <2>3, TimeFrame, Blanks DEF Answer
<1> QED
  BY <1>1, <1>2, <1>3, <1>4, <1>5 DEF Handle

\* Every step keeps the bounds on lifetimes.
LEMMA TimeStep == TypeOK /\ TypeOK' /\ TimeInv /\ [Next]_vars => TimeInv'
<1> SUFFICES ASSUME TypeOK, TypeOK', TimeInv, [Next]_vars PROVE TimeInv'
  OBVIOUS
<1>0. /\ \A m \in Node : \A e \in srv[m].body : e.exp <= Window
      /\ \A e \in agent.body : e.exp <= Window
      /\ \A e \in file.body : e.exp # Forever => e.exp <= Window
  BY DEF TimeInv, WithinWindow
<1>1. CASE AgentTimeout \/ AgentCrash
  <2>1. UNCHANGED <<now, revokedAt, bind, life, asking, grants, srv, file>> /\ agent' = Resting
    BY <1>1 DEF AgentTimeout, AgentCrash, AgentEnds, control
  <2> QED
    BY <1>0, <2>1, TimeFrame, Blanks
<1>2. CASE UNCHANGED vars
  BY <1>0, <1>2, TimeFrame DEF vars, control, device
<1> QED
  BY <1>1, <1>2, AdministerTime, SyncTime, HandleTime DEF Next

-----------------------------------------------------------------------------
(* What holds for any number of nodes                                      *)

\* The inductive invariant holds in every reachable state.
LEMMA Invariance == Spec => []IInv
<1>1. Init => IInv
  BY InitType, InitGen, InitTime DEF IInv
<1>2. IInv /\ [Next]_vars => IInv'
  BY TypeStep, GenStep, TimeStep DEF IInv
<1> QED
  BY <1>1, <1>2, PTL DEF Spec

\* The agent's two files stay consistent across its crashes: the state file
\* never claims more than authorized_keys holds, whatever the nodes publish,
\* lose and repeat and however often the device is enrolled again.
THEOREM FilesStayConsistent == Spec => []FilesHold
<1>1. IInv => FilesHold
  BY DEF IInv, GenInv, FilesHold
<1> QED
  BY <1>1, Invariance, PTL

\* A revocation leaves no live grant on the server and no line on the device
\* beyond one grant's lifetime, also for a request, a publication or an
\* installation that had started before it.
THEOREM RevocationIsBounded == Spec => []RevocationHolds
<1>1. IInv => RevocationHolds
  <2> SUFFICES ASSUME IInv PROVE RevokedMeansExpired /\ RevocationBound
    BY DEF RevocationHolds
  <2>1. RevokedMeansExpired
    BY DEF IInv, TimeInv
  <2>2. RevocationBound
    <3> SUFFICES ASSUME bind = "revoked", agent.pc # "idle", NEW e \in file.body
                 PROVE  e.exp <= revokedAt + TTL
      BY DEF RevocationBound
    <3>1. e \in Line
      BY DEF IInv, GenInv, AgentIsCareful
    <3>2. e.exp # Forever
      BY <3>1, Blanks DEF Line
    <3> QED
      BY <3>2 DEF IInv, TimeInv, WithinWindow, Window
  <2> QED
    BY <2>1, <2>2
<1> QED
  BY <1>1, Invariance, PTL

\* As long as a host exists, the keys installed from it are never replaced by
\* an earlier snapshot of it.
THEOREM NoKeyRollback == Spec => KeysNeverRollBack
<1> DEFINE A == bind # "absent" /\ life = file.host /\ file'.host = file.host
                  => file'.gen >= file.gen
<1>1. IInv /\ [Next]_vars => [A]_vars
  <2> SUFFICES ASSUME IInv, Next PROVE A
    OBVIOUS
  <2>0. file.gen >= file.gen
    BY DEF IInv, TypeOK
  <2>1. CASE PurgeLegacy
    <3>1. file'.gen = file.gen
      BY <2>1 DEF PurgeLegacy, IInv, TypeOK
    <3> QED
      BY <2>0, <3>1
  <2>2. CASE WriteKeys
    <3>1. /\ file'.host = agent.host /\ file'.gen = agent.gen /\ agent.pc = "keys"
          /\ file.gen \in Nat /\ agent.gen \in Nat
      BY <2>2 DEF WriteKeys, IInv, TypeOK
    <3>2. bind # "absent" /\ agent.host = life /\ file.host = life => file.gen <= agent.gen
      BY <3>1 DEF IInv, GenInv, AgentIsCareful
    <3> QED
      BY <3>1, <3>2
  <2>3. CASE ~PurgeLegacy /\ ~WriteKeys
    <3>1. file' = file
      BY <2>3 DEF Next, Administer, Sync, Handle, Tick, DeleteDevice, DeleteHost, Enroll,
                  RequestAccess, ChangeKey, IssueAccess, SendGet, WriteState, SendAck,
                  AckVerify, AckApply, AgentTimeout, AgentCrash, VerifyDevice, ReadEntries,
                  ReadGrants, Publish, Answer, control, device
    <3> QED
      BY <2>0, <3>1
  <2> QED
    BY <2>1, <2>2, <2>3
<1> QED
  BY <1>1, Invariance, PTL DEF Spec, KeysNeverRollBack

\* While a host exists, its generations name one body each, however many nodes
\* publish: no two answers about it carry one generation with different lines.
\* (Once it is deleted a handler that was still busy may start its numbering
\* again; no request that starts later is about that host.)
LivingHostNamesOneBody ==
    bind # "absent" =>
        \A a, b \in served : a.host = life /\ b.host = life /\ a.gen = b.gen => a.body = b.body

\* A living host's generations name one body each.
THEOREM NoEquivocation == Spec => []LivingHostNamesOneBody
<1>1. IInv => LivingHostNamesOneBody
  BY DEF IInv, GenInv, RowIsNewest, LivingHostNamesOneBody
<1> QED
  BY <1>1, Invariance, PTL

\* Without host deletions every generation ever answered names one body.
THEOREM OneBodyPerGeneration ==
    ASSUME MaxReenroll = 0
    PROVE  Spec => []GenerationNamesOneBody
<1> DEFINE Never == bind # "absent"
<1>1. Init => Never
  BY DEF Init
<1>2. IInv /\ Never /\ [Next]_vars => Never'
  <2> SUFFICES ASSUME IInv, Never, [Next]_vars PROVE Never'
    OBVIOUS
  <2>1. life = 0
    BY DEF IInv, TypeOK, Life
  <2>2. ~DeleteHost
    BY <2>1 DEF DeleteHost
  <2>3. bind' \in {bind, "revoked", "active"}
    BY <2>2 DEF Next, Administer, Sync, Handle, Tick, DeleteDevice, Enroll,
                RequestAccess, ChangeKey, IssueAccess, SendGet, WriteState, SendAck, PurgeLegacy,
                WriteKeys, AckVerify, AckApply, AgentTimeout, AgentCrash, VerifyDevice,
                ReadEntries, ReadGrants, Publish, Answer, control, device, vars
  <2> QED
    BY <2>3
<1>3. IInv /\ Never => GenerationNamesOneBody
  <2> SUFFICES ASSUME IInv, Never PROVE GenerationNamesOneBody
    OBVIOUS
  <2>1. life = 0 /\ \A a \in served : a.host = 0
    BY DEF IInv, TypeOK, Life
  <2> QED
    BY <2>1 DEF IInv, GenInv, RowIsNewest, GenerationNamesOneBody
<1> QED
  BY <1>1, <1>2, <1>3, Invariance, PTL DEF Spec

-----------------------------------------------------------------------------
(* One node: what is read, published and acknowledged under Store.mu       *)

\* One API process, the deployment Store.mu protects.
OneNode == \A m, n \in Node : m = n

\* Every grant in gs is one, and no line for its user ends before it does.
Covers(body, gs) ==
    \A g \in gs : /\ grants[g].user # NoUser
                  /\ \A e \in body : e.user = grants[g].user => grants[g].exp <= e.exp

\* What a handler has read about the host is what is live, while it holds
\* Store.mu: only time passes, and takes the same from both sides.
ReadsStayTrue ==
    \A m \in Node : srv[m].pc \in {"entries", "grants"} /\ srv[m].host = life =>
        /\ {e \in srv[m].body : e.exp > now} = Entries(life)
        /\ srv[m].pc = "entries" => Covers(srv[m].body, LiveGrants(life))
        /\ srv[m].pc = "grants" =>
               /\ {g \in srv[m].grants : grants[g].exp > now} = LiveGrants(life)
               /\ Covers(srv[m].body, srv[m].grants)
               /\ srv[m].grants # {} => bind # "absent"

\* On the first host, what is acknowledged was installed, and the row covers
\* the grants it names.
AcksBehindFile ==
    /\ \A a \in acks : a.host <= life
    /\ life = 0 /\ bind # "absent" =>
           /\ \A a \in acks : a.gen <= file.gen
           /\ agent.pc = "ack" => agent.gen <= file.gen
RowCovers ==
    life = 0 => /\ Covers(row[0].body, row[0].grants)
                /\ row[0].grants # {} => bind # "absent" /\ row[0].gen # 0

NodeInv == ReadsStayTrue /\ AcksBehindFile /\ RowCovers

\* Nothing is read, published or acknowledged initially.
LEMMA InitNode == Init => NodeInv
<1> SUFFICES ASSUME Init PROVE NodeInv
  OBVIOUS
<1>1. /\ \A m \in Node : srv[m].pc = "idle"
      /\ acks = {} /\ agent.pc = "idle" /\ row[0].grants = {}
  BY Blanks DEF Init, NoRow
<1> QED
  BY <1>1 DEF NodeInv, ReadsStayTrue, AcksBehindFile, RowCovers, Covers

\* A minute passes: the live entries are the earlier ones that still live.
LEMMA EntriesAge ==
    ASSUME TypeOK, Tick
    PROVE  /\ LiveGrants(life)' = {g \in LiveGrants(life) : grants[g].exp > now'}
           /\ Entries(life)' = {e \in Entries(life) : e.exp > now'}
<1>0. /\ UNCHANGED <<keys, grants, bind, life>> /\ now' = now + 1
      /\ \A g \in Grant : grants[g].exp \in Nat
      /\ now \in Nat
  BY Numbers DEF Tick
<1>1. LiveGrants(life)' = {g \in LiveGrants(life) : grants[g].exp > now'}
  BY <1>0 DEF LiveGrants
<1>2. \A e \in Line : e.exp \in Nat
  BY KeySyncAssumption DEF Line
<1>3. \A g \in LiveGrants(life) : g \in Grant
  BY DEF LiveGrants
<1>4. ASSUME NEW e \in Line
      PROVE  e \in Entries(life)' <=> e \in Entries(life) /\ e.exp > now'
  <2>1. e \in Entries(life)' <=>
            /\ e.user \in keys
            /\ \E g \in LiveGrants(life) :
                  grants[g].exp > now' /\ grants[g].user = e.user /\ grants[g].exp = e.exp
            /\ \A g \in LiveGrants(life) :
                  grants[g].exp > now' /\ grants[g].user = e.user => grants[g].exp <= e.exp
    BY <1>0, <1>1 DEF Entries
  <2>2. e \in Entries(life) <=>
            /\ e.user \in keys
            /\ \E g \in LiveGrants(life) : grants[g].user = e.user /\ grants[g].exp = e.exp
            /\ \A g \in LiveGrants(life) : grants[g].user = e.user => grants[g].exp <= e.exp
    BY DEF Entries
  <2> QED
    BY <1>0, <1>2, <1>3, <2>1, <2>2
<1>5. Entries(life)' \subseteq Line /\ Entries(life) \subseteq Line
  BY DEF Entries
<1> QED
  BY <1>1, <1>4, <1>5

\* With one node, administration waits until no publication is under way.
LEMMA Serialized ==
    ASSUME OneNode, SomeMuFree, UNCHANGED srv
    PROVE  ReadsStayTrue'
<1>1. \A m \in Node : srv'[m].pc \notin {"entries", "grants"}
  BY DEF OneNode, SomeMuFree, MuFree
<1> QED
  BY <1>1 DEF ReadsStayTrue

\* With one node, a change of grants and keys waits for the handler that has read them.
LEMMA AdministerNode == OneNode /\ IInv /\ NodeInv /\ Administer => NodeInv'
<1> SUFFICES ASSUME OneNode, IInv, NodeInv, Administer PROVE NodeInv'
  OBVIOUS
<1> USE DEF device
<1>0. TypeOK /\ ReadsStayTrue /\ AcksBehindFile /\ RowCovers
  BY DEF IInv, NodeInv
<1>1. CASE Tick
  <2>1. UNCHANGED <<keys, grants, bind, life, row, srv, acks, agent, file>> /\ now' = now + 1 /\ now \in Nat
    BY <1>0, <1>1, Numbers DEF Tick
  <2>2. AcksBehindFile' /\ RowCovers'
    BY <1>0, <2>1 DEF AcksBehindFile, RowCovers, Covers
  <2>3. ReadsStayTrue'
    <3> SUFFICES ASSUME NEW m \in Node, srv[m].pc \in {"entries", "grants"}, srv[m].host = life
                 PROVE  /\ {e \in srv[m].body : e.exp > now'} = Entries(life)'
                        /\ srv[m].pc = "entries" => Covers(srv[m].body, LiveGrants(life)')
                        /\ srv[m].pc = "grants" =>
                               /\ {g \in srv[m].grants : grants[g].exp > now'} = LiveGrants(life)'
                               /\ Covers(srv[m].body, srv[m].grants)
                               /\ srv[m].grants # {} => bind # "absent"
      BY <2>1 DEF ReadsStayTrue, Covers
    <3>1. /\ {e \in srv[m].body : e.exp > now} = Entries(life)
          /\ srv[m].pc = "entries" => Covers(srv[m].body, LiveGrants(life))
          /\ srv[m].pc = "grants" =>
                 /\ {g \in srv[m].grants : grants[g].exp > now} = LiveGrants(life)
                 /\ Covers(srv[m].body, srv[m].grants)
                 /\ srv[m].grants # {} => bind # "absent"
      BY <1>0 DEF ReadsStayTrue
    <3>2. /\ LiveGrants(life)' = {g \in LiveGrants(life) : grants[g].exp > now'}
          /\ Entries(life)' = {e \in Entries(life) : e.exp > now'}
      BY <1>0, <1>1, EntriesAge
    <3>3. \A e \in srv[m].body : e.exp > now' => e.exp > now
      BY <1>0, <2>1, Numbers
    <3>4. {e \in srv[m].body : e.exp > now'} = Entries(life)'
      BY <3>1, <3>2, <3>3
    <3>5. srv[m].pc = "entries" => Covers(srv[m].body, LiveGrants(life)')
      BY <3>1, <3>2 DEF Covers
    <3>6. \A g \in srv[m].grants : grants[g].exp > now' => grants[g].exp > now
      <4>1. \A g \in srv[m].grants : g \in Grant
        BY <1>0 DEF TypeOK
      <4> QED
        BY <1>0, <2>1, <4>1, Numbers
    <3>7. srv[m].pc = "grants" =>
              {g \in srv[m].grants : grants[g].exp > now'} = LiveGrants(life)'
      BY <3>1, <3>2, <3>6
    <3> QED
      BY <3>1, <3>4, <3>5, <3>7
  <2> QED
    BY <2>2, <2>3 DEF NodeInv
<1>2. CASE DeleteDevice
  <2>1. UNCHANGED <<now, keys, life, row, srv, acks, agent, file>> /\ SomeMuFree
        /\ bind = "active" /\ bind' = "revoked"
    BY <1>2 DEF DeleteDevice
  <2>2. AcksBehindFile'
    BY <1>0, <2>1 DEF AcksBehindFile
  <2>3. \A g \in Grant : grants'[g].user = grants[g].user /\ grants'[g].exp <= grants[g].exp
    <3>1. SUFFICES ASSUME NEW g \in Grant
                   PROVE  grants'[g].user = grants[g].user /\ grants'[g].exp <= grants[g].exp
      OBVIOUS
    <3>2. grants[g] \in GrantRow /\ now \in Nat /\ grants[g].exp \in Nat
      BY <1>0, Numbers DEF TypeOK, GrantRow
    <3>3. grants'[g] = IF grants[g].host = life /\ grants[g].exp > now
                       THEN [grants[g] EXCEPT !.exp = now] ELSE grants[g]
      BY <1>2 DEF DeleteDevice
    <3> QED
      BY <3>2, <3>3 DEF GrantRow
  <2>4. RowCovers'
    <3>1. SUFFICES ASSUME life = 0 PROVE Covers(row[0].body, row[0].grants)'
      BY <1>0, <2>1 DEF RowCovers
    <3>2. Covers(row[0].body, row[0].grants)
      BY <1>0, <3>1 DEF RowCovers
    <3>3. /\ \A g \in row[0].grants : g \in Grant
          /\ \A e \in row[0].body : e.exp \in Nat
      BY <1>0, Blanks DEF TypeOK, Line
    <3>4. \A g \in Grant : grants[g].exp \in Nat /\ grants'[g].exp \in Nat
      <4>1. TypeOK'
        BY <1>0, AdministerType
      <4>2. grants' \in [Grant -> GrantRow]
        BY <4>1 DEF TypeOK, GrantRow
      <4> QED
        BY <1>0, <4>2, Blanks, Numbers DEF GrantRow
    <3> QED
      BY <2>1, <2>3, <3>2, <3>3, <3>4 DEF Covers
  <2> QED
    BY <2>1, <2>2, <2>4, Serialized DEF NodeInv
<1>3. CASE DeleteHost
  <2>1. UNCHANGED <<life, srv, acks, agent, file>> /\ SomeMuFree /\ bind' = "absent"
    BY <1>3 DEF DeleteHost
  <2>2. AcksBehindFile'
    BY <1>0, <2>1 DEF AcksBehindFile
  <2>3. life = 0 => row'[0].grants = {}
    BY <1>0, <1>3, Blanks DEF DeleteHost, TypeOK, NoRow
  <2>4. RowCovers'
    BY <2>1, <2>3 DEF RowCovers, Covers
  <2> QED
    BY <2>1, <2>2, <2>4, Serialized DEF NodeInv
<1>4. CASE Enroll
  <2>1. UNCHANGED <<srv, acks>> /\ SomeMuFree /\ life' = life + 1 /\ life \in Nat
    BY <1>0, <1>4 DEF Enroll, TypeOK, Life
  <2>2. \A a \in acks : a.host \in Nat
    BY <1>0 DEF TypeOK, Ack, Life
  <2>3. AcksBehindFile' /\ RowCovers'
    BY <1>0, <2>1, <2>2 DEF AcksBehindFile, RowCovers
  <2> QED
    BY <2>1, <2>3, Serialized DEF NodeInv
<1>5. CASE \E u \in User : RequestAccess(u) \/ ChangeKey(u)
  <2>1. UNCHANGED <<grants, bind, life, row, srv, acks, agent, file>> /\ SomeMuFree
    BY <1>5 DEF RequestAccess, ChangeKey
  <2>2. AcksBehindFile' /\ RowCovers'
    BY <1>0, <2>1 DEF AcksBehindFile, RowCovers, Covers
  <2> QED
    BY <2>1, <2>2, Serialized DEF NodeInv
<1>6. ASSUME NEW a \in asking, IssueAccess(a) PROVE NodeInv'
  <2>1. UNCHANGED <<bind, life, row, srv, acks, agent, file>> /\ SomeMuFree
    BY <1>6 DEF IssueAccess
  <2>2. AcksBehindFile'
    BY <1>0, <2>1 DEF AcksBehindFile
  <2>3. \A g \in Grant : grants[g].user # NoUser => grants'[g] = grants[g]
    BY <1>0, <1>6 DEF IssueAccess, Granted, TypeOK
  <2>4. \A g \in row[0].grants : g \in Grant
    BY <1>0, Blanks DEF TypeOK
  <2>5. RowCovers'
    BY <1>0, <2>1, <2>3, <2>4 DEF RowCovers, Covers
  <2> QED
    BY <2>1, <2>2, <2>5, Serialized DEF NodeInv
<1> QED
  BY <1>1, <1>2, <1>3, <1>4, <1>5, <1>6 DEF Administer

\* Steps of the agent that leave the tables and the handlers alone.
LEMMA AgentNode ==
    ASSUME NodeInv, UNCHANGED <<now, keys, grants, bind, life, row, srv>>, AcksBehindFile'
    PROVE  NodeInv'
<1>1. RowCovers'
  BY DEF NodeInv, RowCovers, Covers
<1>2. Entries(life)' = Entries(life) /\ LiveGrants(life)' = LiveGrants(life)
  BY DEF Entries, LiveGrants
<1>3. ReadsStayTrue'
  BY <1>2 DEF NodeInv, ReadsStayTrue, Covers
<1> QED
  BY <1>1, <1>3 DEF NodeInv

\* With one node, the agent acknowledges only what its file holds.
LEMMA SyncNode == OneNode /\ IInv /\ NodeInv /\ Sync => NodeInv'
<1> SUFFICES ASSUME OneNode, IInv, NodeInv, Sync PROVE NodeInv'
  OBVIOUS
<1> USE DEF control
<1>0. /\ TypeOK /\ AcksBehindFile /\ RowCovers /\ ReadsStayTrue /\ AgentIsCareful /\ HostsKnown
      /\ agent.gen \in Nat /\ file.gen \in Nat /\ \A a \in acks : a.gen \in Nat /\ a.host \in Nat
      /\ 0 <= life
  BY DEF IInv, NodeInv, GenInv, TypeOK, Ack, Life
<1>1. CASE PurgeLegacy
  <2>1. /\ UNCHANGED <<now, keys, grants, bind, life, row, srv, acks>>
        /\ file'.gen = file.gen /\ agent'.pc = "purged"
    BY <1>0, <1>1, GotoStep DEF PurgeLegacy, TypeOK
  <2>2. AcksBehindFile'
    BY <1>0, <2>1 DEF AcksBehindFile
  <2> QED
    BY <2>1, <2>2, AgentNode
<1>2. ASSUME NEW m \in Node, SendGet(m) PROVE NodeInv'
  <2> DEFINE x == [Idle EXCEPT !.pc = "asked"]
  <2>1. x \in Handler /\ x.pc = "asked"
    BY Blanks DEF Handler, Idle
  <2>2. srv' = [srv EXCEPT ![m] = x]
    BY <1>2 DEF SendGet
  <2> HIDE DEF x
  <2>3. srv'[m].pc = "asked"
    BY <1>0, <2>1, <2>2, HandlerType
  <2>4. ReadsStayTrue'
    BY <2>3 DEF OneNode, ReadsStayTrue
  <2>5. UNCHANGED <<grants, bind, life, row, acks, file>> /\ agent'.pc = "fetch"
    BY <1>0, <1>2 DEF SendGet, TypeOK
  <2>6. AcksBehindFile' /\ RowCovers'
    BY <1>0, <2>5 DEF AcksBehindFile, RowCovers, Covers
  <2> QED
    BY <2>4, <2>6 DEF NodeInv
<1>3. CASE WriteKeys
  <2>1. /\ UNCHANGED <<now, keys, grants, bind, life, row, srv, acks>> /\ agent.pc = "keys"
        /\ file'.gen = agent.gen /\ agent'.pc = "state"
    BY <1>0, <1>3, GotoStep DEF WriteKeys
  <2>2. life = 0 /\ bind # "absent" => file.gen <= agent.gen
    <3>1. life = 0 => agent.host = 0 /\ file.host = 0
      BY <1>0 DEF HostsKnown, TypeOK, Life
    <3> QED
      BY <1>0, <2>1, <3>1 DEF AgentIsCareful
  <2>3. AcksBehindFile'
    BY <1>0, <2>1, <2>2 DEF AcksBehindFile
  <2> QED
    BY <2>1, <2>3, AgentNode
<1>4. CASE WriteState
  <2>1. /\ UNCHANGED <<now, keys, grants, bind, life, row, srv, acks, file>> /\ agent.pc = "state"
        /\ agent'.pc = "ack" /\ agent'.gen = agent.gen
    BY <1>0, <1>4, GotoStep DEF WriteState
  <2>2. AcksBehindFile'
    BY <1>0, <2>1 DEF AcksBehindFile, AgentIsCareful
  <2> QED
    BY <2>1, <2>2, AgentNode
<1>5. CASE SendAck
  <2>1. /\ UNCHANGED <<now, keys, grants, bind, life, row, srv, file>> /\ agent.pc = "ack"
        /\ agent'.pc = "acking"
        /\ acks' = acks \cup {[pc |-> "sent", host |-> 0, gen |-> agent.gen, body |-> agent.body]}
    BY <1>0, <1>5, GotoStep DEF SendAck
  <2>2. AcksBehindFile'
    BY <1>0, <2>1 DEF AcksBehindFile
  <2> QED
    BY <2>1, <2>2, AgentNode
<1>6. ASSUME NEW a \in acks, AckVerify(a) PROVE NodeInv'
  <2> DEFINE b == [a EXCEPT !.pc = "verified", !.host = life]
  <2>1. b.host = life /\ b.gen = a.gen /\ life <= life
    BY <1>0 DEF TypeOK, Ack, Life
  <2>2. /\ UNCHANGED <<now, keys, grants, bind, life, row, srv, file>>
        /\ acks' \subseteq acks \cup {b}
    BY <1>6 DEF AckVerify
  <2>3. agent' = agent \/ agent'.pc = "idle"
    BY <1>6, AckAnsweredStep, Blanks DEF AckVerify
  <2> HIDE DEF b
  <2>4. AcksBehindFile'
    BY <1>0, <2>1, <2>2, <2>3 DEF AcksBehindFile
  <2> QED
    BY <2>2, <2>4, AgentNode
<1>7. ASSUME NEW a \in acks, AckApply(a) PROVE NodeInv'
  <2>1. UNCHANGED <<bind, life, row, srv, file>> /\ acks' \subseteq acks /\ SomeMuFree
    BY <1>7 DEF AckApply
  <2>2. agent' = agent \/ agent'.pc = "idle"
    BY <1>7, AckAnsweredStep, Blanks DEF AckApply
  <2>3. AcksBehindFile'
    BY <1>0, <2>1, <2>2 DEF AcksBehindFile
  <2>4. \A g \in Grant : grants'[g].user = grants[g].user /\ grants'[g].exp = grants[g].exp
    BY <1>0, <1>7 DEF AckApply, TypeOK
  <2>5. \A g \in row[0].grants : g \in Grant
    BY <1>0, Blanks DEF TypeOK
  <2>6. RowCovers'
    BY <1>0, <2>1, <2>4, <2>5 DEF RowCovers, Covers
  <2> QED
    BY <2>1, <2>3, <2>6, Serialized DEF NodeInv
<1> QED
  BY <1>1, <1>2, <1>3, <1>4, <1>5, <1>6, <1>7 DEF Sync

\* With one node, the row a handler publishes and marks is the one it read.
LEMMA HandleNode ==
    ASSUME NEW m \in Node PROVE OneNode /\ IInv /\ NodeInv /\ Handle(m) => NodeInv'
<1> SUFFICES ASSUME OneNode, IInv, NodeInv, Handle(m) PROVE NodeInv'
  OBVIOUS
<1> USE DEF control, device
<1>0. /\ TypeOK /\ AcksBehindFile /\ RowCovers /\ ReadsStayTrue
      /\ srv[m].body \in SUBSET Line /\ Idle \in Handler /\ Resting \in Syncer
      /\ \A n \in Node : n = m
  BY Blanks DEF IInv, NodeInv, TypeOK, OneNode
<1>1. CASE VerifyDevice(m)
  <2>1. srv'[m].pc \in {"verified", "idle"}
    <3>1. CASE bind = "active"
      BY <1>0, <1>1, <3>1, VerifyStep, HandlerType
    <3>2. CASE bind # "active"
      BY <1>0, <1>1, <3>2, HandlerType, Blanks DEF VerifyDevice
    <3> QED
      BY <3>1, <3>2
  <2>2. ReadsStayTrue'
    BY <1>0, <2>1 DEF ReadsStayTrue
  <2>3. agent' = agent \/ agent' = Resting
    BY <1>0, <1>1, AnsweredStep DEF VerifyDevice
  <2>4. UNCHANGED <<grants, bind, life, row, acks, file>>
    BY <1>1 DEF VerifyDevice
  <2>5. AcksBehindFile' /\ RowCovers'
    BY <1>0, <2>3, <2>4, Blanks DEF AcksBehindFile, RowCovers, Covers
  <2> QED
    BY <2>2, <2>5 DEF NodeInv
<1>2. CASE ReadEntries(m)
  <2>1. /\ srv'[m].pc = "entries" /\ srv'[m].host = srv[m].host
        /\ srv'[m].body = Entries(srv[m].host)
    BY <1>0, <1>2, EntriesStep, HandlerType
  <2>2. UNCHANGED <<now, keys, grants, bind, life, row, acks, file, agent>>
    BY <1>2 DEF ReadEntries
  <2>3. AcksBehindFile' /\ RowCovers'
    BY <1>0, <2>2 DEF AcksBehindFile, RowCovers, Covers
  <2>4. Entries(life)' = Entries(life) /\ LiveGrants(life)' = LiveGrants(life)
    BY <2>2 DEF Entries, LiveGrants
  <2>5. \A e \in Entries(life) : e.exp > now
    BY DEF Entries, LiveGrants
  <2>6. {e \in Entries(life) : e.exp > now} = Entries(life)
    BY <2>5
  <2>7. Covers(Entries(life), LiveGrants(life))
    BY DEF Covers, Entries, LiveGrants
  <2>8. ReadsStayTrue'
    <3>1. SUFFICES ASSUME srv'[m].host = life'
                   PROVE  /\ {e \in srv'[m].body : e.exp > now'} = Entries(life)'
                          /\ Covers(srv[m].body, LiveGrants(life))'
      BY <1>0, <2>1 DEF ReadsStayTrue
    <3>2. srv'[m].body = Entries(life)
      BY <2>1, <2>2, <3>1
    <3> QED
      BY <2>2, <2>4, <2>6, <2>7, <3>2 DEF Covers
  <2> QED
    BY <2>3, <2>8 DEF NodeInv
<1>3. CASE ReadGrants(m)
  <2>0. srv[m].pc = "entries"
    BY <1>3 DEF ReadGrants
  <2>1. /\ srv'[m].pc = "grants" /\ srv'[m].host = srv[m].host
        /\ srv'[m].body = srv[m].body /\ srv'[m].grants = LiveGrants(srv[m].host)
    BY <1>0, <1>3, GrantsStep, HandlerType
  <2>2. UNCHANGED <<now, keys, grants, bind, life, row, acks, file, agent>>
    BY <1>3 DEF ReadGrants
  <2>3. AcksBehindFile' /\ RowCovers'
    BY <1>0, <2>2 DEF AcksBehindFile, RowCovers, Covers
  <2>4. Entries(life)' = Entries(life) /\ LiveGrants(life)' = LiveGrants(life)
    BY <2>2 DEF Entries, LiveGrants
  <2>5. /\ \A g \in LiveGrants(life) : grants[g].exp > now
        /\ LiveGrants(life) # {} => bind # "absent"
    BY DEF LiveGrants
  <2>6. ReadsStayTrue'
    <3>1. SUFFICES ASSUME srv'[m].host = life'
                   PROVE  /\ {e \in srv'[m].body : e.exp > now'} = Entries(life)'
                          /\ {g \in srv'[m].grants : grants'[g].exp > now'} = LiveGrants(life)'
                          /\ Covers(srv[m].body, srv[m].grants)'
                          /\ srv'[m].grants # {} => bind' # "absent"
      BY <1>0, <2>1 DEF ReadsStayTrue
    <3>2. srv[m].host = life /\ srv'[m].grants = LiveGrants(life)
      BY <2>1, <2>2, <3>1
    <3>3. /\ {e \in srv[m].body : e.exp > now} = Entries(life)
          /\ Covers(srv[m].body, LiveGrants(life))
      BY <1>0, <2>0, <3>2 DEF ReadsStayTrue
    <3>4. {g \in LiveGrants(life) : grants[g].exp > now} = LiveGrants(life)
      BY <2>5
    <3> QED
      BY <2>1, <2>2, <2>4, <2>5, <3>2, <3>3, <3>4 DEF Covers
  <2> QED
    BY <2>3, <2>6 DEF NodeInv
<1>4. CASE Publish(m)
  <2>0. srv[m].pc = "grants"
    BY <1>4 DEF Publish
  <2>1. srv'[m].pc = "published"
    BY <1>0, <1>4, PublishStep, HandlerType
  <2>2. ReadsStayTrue'
    BY <1>0, <2>1 DEF ReadsStayTrue
  <2>3. UNCHANGED <<grants, bind, life, acks, file, agent>>
    BY <1>4 DEF Publish
  <2>4. AcksBehindFile'
    BY <1>0, <2>3 DEF AcksBehindFile
  <2>5. RowCovers'
    <3>1. SUFFICES ASSUME life = 0 PROVE RowCovers'
      BY <2>3 DEF RowCovers
    <3>2. srv[m].host = 0
      BY <1>0, <3>1 DEF IInv, GenInv, HostsKnown, TypeOK, Life
    <3>3. row'[0].body = srv[m].body /\ row'[0].grants = srv[m].grants
      BY <1>0, <1>4, <3>2, PublishStep
    <3>4. /\ Covers(srv[m].body, srv[m].grants)
          /\ srv[m].grants # {} => bind # "absent"
      BY <1>0, <2>0, <3>1, <3>2 DEF ReadsStayTrue
    <3>5. row'[0].gen # 0
      <4>1. row[0].gen \in Nat
        BY <1>0, Blanks DEF TypeOK
      <4> QED
        BY <1>0, <1>4, <3>2, <4>1, PublishStep
    <3> QED
      BY <2>3, <3>3, <3>4, <3>5 DEF RowCovers, Covers
  <2> QED
    BY <2>2, <2>4, <2>5 DEF NodeInv
<1>5. CASE Answer(m)
  <2>1. srv'[m].pc = "idle"
    BY <1>0, <1>5, HandlerType, Blanks DEF Answer
  <2>2. ReadsStayTrue'
    BY <1>0, <2>1 DEF ReadsStayTrue
  <2>3. UNCHANGED <<grants, bind, life, row, acks, file>>
    BY <1>5 DEF Answer
  <2>4. GenerationOf(m) \in Nat
    BY <1>0 DEF GenerationOf, TypeOK
  <2>5. agent' = agent \/ agent'.pc \in {"idle", "keys"}
    BY <1>0, <1>5, <2>4, AnsweredStep, Blanks DEF Answer
  <2>6. AcksBehindFile' /\ RowCovers'
    BY <1>0, <2>3, <2>5 DEF AcksBehindFile, RowCovers, Covers
  <2> QED
    BY <2>2, <2>6 DEF NodeInv
<1> QED
  BY <1>1, <1>2, <1>3, <1>4, <1>5 DEF Handle

\* Every step keeps the invariant of the single node.
LEMMA NodeStep == OneNode /\ IInv /\ NodeInv /\ [Next]_vars => NodeInv'
<1> SUFFICES ASSUME OneNode, IInv, NodeInv, [Next]_vars PROVE NodeInv'
  OBVIOUS
<1>1. CASE AgentTimeout \/ AgentCrash
  <2>1. /\ UNCHANGED <<now, keys, grants, bind, life, row, srv, acks, file>>
        /\ agent'.pc = "idle"
    BY <1>1, Blanks DEF AgentTimeout, AgentCrash, AgentEnds, control
  <2>2. AcksBehindFile'
    BY <2>1 DEF NodeInv, AcksBehindFile
  <2> QED
    BY <2>1, <2>2, AgentNode
<1>2. CASE UNCHANGED vars
  <2>1. AcksBehindFile'
    BY <1>2 DEF NodeInv, AcksBehindFile, vars, control, device
  <2> QED
    BY <1>2, <2>1, AgentNode DEF vars, control, device
<1> QED
  BY <1>1, <1>2, AdministerNode, SyncNode, HandleNode DEF Next

\* The invariant of the single node holds in every reachable state.
LEMMA NodeInvariance ==
    ASSUME OneNode
    PROVE  Spec => []NodeInv
<1>1. IInv /\ NodeInv /\ [Next]_vars => NodeInv'
  BY NodeStep
<1> QED
  BY <1>1, InitNode, Invariance, PTL DEF Spec

\* With one API process, what a publication binds to a generation is what is
\* live at that moment, for any number of users, grants and key changes.
THEOREM PublishesWhatIsLive ==
    ASSUME OneNode
    PROVE  Spec => PublicationIsCurrent
<1> DEFINE A == row'[life] # row[life] /\ row'[life].gen # 0 =>
            /\ {e \in row'[life].body : e.exp > now} = Entries(life)
            /\ {g \in row'[life].grants : grants[g].exp > now} = LiveGrants(life)
<1>1. IInv /\ NodeInv /\ [Next]_vars => [A]_vars
  <2> SUFFICES ASSUME IInv, NodeInv, Next, row'[life] # row[life], row'[life].gen # 0
               PROVE  /\ {e \in row'[life].body : e.exp > now} = Entries(life)
                      /\ {g \in row'[life].grants : grants[g].exp > now} = LiveGrants(life)
    OBVIOUS
  <2>1. ~DeleteHost
    BY DEF DeleteHost, NoRow, IInv, TypeOK
  <2>2. PICK m \in Node : Publish(m)
    BY <2>1 DEF Next, Administer, Sync, Handle, Tick, DeleteDevice, Enroll,
                RequestAccess, ChangeKey, IssueAccess, SendGet, WriteState, SendAck, PurgeLegacy,
                WriteKeys, AckVerify, AckApply, AgentTimeout, AgentCrash, VerifyDevice,
                ReadEntries, ReadGrants, Answer, control, device
  <2>3. srv[m].host = life
    BY <2>2, PublishStep DEF IInv, TypeOK
  <2>4. /\ row'[life].body = srv[m].body /\ row'[life].grants = srv[m].grants
        /\ srv[m].pc = "grants"
    BY <2>2, <2>3, PublishStep DEF IInv, Publish
  <2> QED
    BY <2>3, <2>4 DEF NodeInv, ReadsStayTrue
<1> QED
  BY <1>1, Invariance, NodeInvariance, PTL DEF Spec, PublicationIsCurrent

\* With one API process, a grant with a line in the acknowledged snapshot is
\* marked installed only when the device's file has a line that lasts at least
\* as long, whatever acknowledgements arrive late or twice.
THEOREM InstalledMeansInstalled ==
    ASSUME OneNode
    PROVE  Spec => InstalledIsTrue
<1> DEFINE A == \A g \in Grant :
            /\ life = 0 /\ grants'[g].installed /\ ~grants[g].installed
            /\ \E e \in row[life].body : e.user = grants[g].user
            => \E e \in file.body : e.user = grants[g].user /\ e.exp >= grants[g].exp
<1>1. IInv /\ NodeInv /\ [Next]_vars => [A]_vars
  <2> SUFFICES ASSUME IInv, NodeInv, Next, NEW g \in Grant, life = 0,
                      grants'[g].installed, ~grants[g].installed,
                      NEW e \in row[life].body, e.user = grants[g].user
               PROVE  e \in file.body /\ e.exp >= grants[g].exp
    OBVIOUS
  <2>0. TypeOK
    BY DEF IInv
  <2>1. ~DeleteDevice /\ ~DeleteHost
    <3>1. ASSUME DeleteHost PROVE FALSE
      BY <3>1 DEF DeleteHost, NoGrant
    <3>2. ASSUME DeleteDevice PROVE FALSE
      <4>1. grants[g] \in GrantRow
        BY <2>0 DEF TypeOK, GrantRow
      <4>2. grants'[g] = grants[g] \/ grants'[g] = [grants[g] EXCEPT !.exp = now]
        BY <3>2 DEF DeleteDevice
      <4> QED
        BY <4>1, <4>2 DEF GrantRow
    <3> QED
      BY <3>1, <3>2
  <2>2. \A a \in asking : ~IssueAccess(a)
    BY <2>0 DEF IssueAccess, Granted, TypeOK
  <2>3. PICK a \in acks : AckApply(a)
    BY <2>1, <2>2 DEF Next, Administer, Sync, Handle, Tick, Enroll,
                RequestAccess, ChangeKey, SendGet, WriteState, SendAck, PurgeLegacy,
                WriteKeys, AckVerify, AgentTimeout, AgentCrash, VerifyDevice,
                ReadEntries, ReadGrants, Publish, Answer, control, device
  <2>4. g \in Acknowledged(a)
    BY <2>0, <2>3 DEF AckApply, TypeOK
  <2>5. a.host = 0 /\ a.gen \in Nat /\ file.gen \in Nat /\ file.host = 0 /\ row[0].gen \in Nat
    BY <2>0, Blanks DEF NodeInv, AcksBehindFile, TypeOK, Ack, Life, IInv, GenInv, HostsKnown
  <2>6. g \in row[0].grants /\ row[0].gen = a.gen
    BY <2>4, <2>5 DEF Acknowledged
  <2>7. Covers(row[0].body, row[0].grants) /\ bind # "absent"
    BY <2>6 DEF NodeInv, RowCovers
  <2>8. grants[g].exp <= e.exp
    BY <2>6, <2>7 DEF Covers
  <2>9. row[0].gen <= file.gen
    BY <2>6, <2>7 DEF NodeInv, AcksBehindFile
  <2>10. file.body = row[0].body
    <3>1. file.gen # 0
      BY <2>5, <2>6, <2>9 DEF NodeInv, RowCovers
    <3> QED
      BY <2>5, <2>7, <2>9, <3>1 DEF IInv, GenInv, AgentIsCareful, RowIsNewest
  <2> QED
    BY <2>0, <2>8, <2>10, Numbers DEF TypeOK
<1> QED
  BY <1>1, Invariance, NodeInvariance, PTL DEF Spec, InstalledIsTrue
=============================================================================
