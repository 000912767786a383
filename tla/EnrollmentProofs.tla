--------------------------- MODULE EnrollmentProofs ---------------------------
(***************************************************************************)
(* Proofs about enrollment for any number of API nodes, devices, tokens,   *)
(* batches and limits.  EnrollDevice reads in several steps under a lock   *)
(* that other nodes do not share; the proofs show that the row counts its  *)
(* transaction checks are enough, whatever happened since the reads.       *)
(***************************************************************************)
EXTENDS Enrollment, FiniteSetTheorems, TLAPS

Busy == [pc : {"replay", "token", "batch", "clash", "commit"}, key : Key, req : Request,
         batch : Batch \cup {NoBatch}, used : 0 .. Limit, serial : Serials]

\* What EnrollDevice carries from one query to the next: after the batch was
\* read, the serial is the one that follows the number of devices it had then.
Carries(x) ==
    /\ x.pc \in {"replay", "token"} => x.batch = NoBatch
    /\ x.pc = "batch" => x.batch \in Batch
    /\ x.pc \in {"clash", "commit"} =>
           /\ x.serial \in Serial
           /\ x.batch # NoBatch => x.serial = <<PrefixOf[x.batch], x.used + 1>>

ServersFit == srv \in [Node -> Busy \cup {Idle}] /\ \A m \in Node : Carries(srv[m])

\* A batch that may still be used is below its limit.
BatchesFit ==
    \A b \in Batch :
        /\ batches[b].status = "absent" => batches[b].used = 0
        /\ batches[b].status = "open" => batches[b].used < Limit

\* Host ids are given out once, serials of a batch in order, and each device
\* record comes from an enrollment.
HistoryFits ==
    /\ IsFiniteSet(enrolled)
    /\ \A e \in enrolled :
           /\ e.host < nextId
           /\ e.batch # NoBatch => e.serial[2] <= batches[e.batch].used
    /\ \A d \in devices : \E e \in enrolled :
           e.host = d.host /\ e.key = d.key /\ e.serial = d.serial /\ e.fp = d.fp
    /\ \A h \in hosts : h.id < nextId
    /\ \A g, h \in hosts : g.id = h.id => g = h

IInv ==
    /\ TypeOK /\ ServersFit /\ BatchesFit /\ HistoryFits
    /\ QuotaHolds /\ OneUse /\ OneBinding
    /\ AnswerIsTrue

\* The invariant in three parts: the tables with their history, the handlers,
\* and the agents.
TablesType ==
    /\ tokens \in [Token -> [live : BOOLEAN, batch : Batch \cup {NoBatch}]]
    /\ batches \in [Batch -> [status : {"absent", "open", "closed"}, used : 0 .. Limit]]
    /\ expired \subseteq Cred
    /\ hosts \subseteq [id : Nat, name : Serial]
    /\ devices \subseteq [host : Nat, key : Key, fp : HostKey, serial : Serial,
                          state : {"manufactured", "revoked"}]
    /\ nextId \in Nat
    /\ enrolled \subseteq [host : Nat, key : Key, cred : Cred, batch : Batch \cup {NoBatch},
                           serial : Serial, fp : HostKey]
    /\ losses \in Nat /\ edits \in Nat

TablesInv == TablesType /\ BatchesFit /\ HistoryFits /\ QuotaHolds /\ OneUse /\ OneBinding

Agent == [pc : {"idle", "asking", "done"}, node : Node \cup {NoNode}, serial : Serials,
          fp : HostKey \cup {NoKey}]

AgentsInv == dev \in [Key -> Agent] /\ AnswerIsTrue

\* The invariant in the pieces the steps below cite.
LEMMA Parts ==
    /\ IInv <=> TablesInv /\ ServersFit /\ AgentsInv
    /\ IInv' <=> TablesInv' /\ ServersFit' /\ AgentsInv'
<1>1. ServersFit => \A m \in Node : srv[m] = Idle \/ srv[m] \in Busy
  BY DEF ServersFit
<1>2. ServersFit' => \A m \in Node : srv'[m] = Idle \/ srv'[m] \in Busy
  BY DEF ServersFit
<1>3. IInv <=> TablesInv /\ ServersFit /\ AgentsInv
  BY <1>1 DEF IInv, TypeOK, TablesInv, TablesType, AgentsInv, Agent, Busy
<1>4. IInv' <=> TablesInv' /\ ServersFit' /\ AgentsInv'
  BY <1>2 DEF IInv, TypeOK, TablesInv, TablesType, AgentsInv, Agent, Busy
<1> QED
  BY <1>3, <1>4

-----------------------------------------------------------------------------
(* Handlers and agents                                                     *)

\* An idle handler and a resting agent are of their types.
LEMMA Constants ==
    /\ Idle.pc = "idle" /\ Carries(Idle)
    /\ Rest \in Agent /\ Rest.pc = "idle"
BY DEF Idle, Carries, Rest, Agent, Serials

\* A handler past its start holds a request of an agent.
LEMMA BusyHandler ==
    ASSUME ServersFit, NEW m \in Node, srv[m].pc # "idle"
    PROVE  srv[m] \in Busy /\ Carries(srv[m])
BY Constants DEF ServersFit

\* One handler goes on to x.
LEMMA HandlerMoves ==
    ASSUME ServersFit, NEW m \in Node, NEW x \in Busy \cup {Idle}, Carries(x),
           srv' = [srv EXCEPT ![m] = x]
    PROVE  ServersFit'
<1>1. /\ srv' \in [Node -> Busy \cup {Idle}] /\ srv'[m] = x
      /\ \A q \in Node \ {m} : srv'[q] = srv[q]
  BY DEF ServersFit
<1> QED
  BY <1>1 DEF ServersFit, Carries

\* Nothing an agent was told becomes false: enrollments are never forgotten.
LEMMA AgentsRest ==
    ASSUME AgentsInv, dev' = dev, enrolled \subseteq enrolled'
    PROVE  AgentsInv'
BY DEF AgentsInv, AnswerIsTrue

\* An agent is told something true, or nothing.
LEMMA AgentMoves ==
    ASSUME AgentsInv, NEW k \in Key, NEW d \in Agent, dev' = [dev EXCEPT ![k] = d],
           enrolled \subseteq enrolled',
           d.pc = "done" => \E e \in enrolled' : e.key = k /\ e.serial = d.serial /\ e.fp = d.fp
    PROVE  AgentsInv'
<1>1. dev' \in [Key -> Agent] /\ dev'[k] = d /\ \A j \in Key \ {k} : dev'[j] = dev[j]
  BY DEF AgentsInv
<1> QED
  BY <1>1 DEF AgentsInv, AnswerIsTrue

\* Answering ends the request of one node and hands the device an answer that is true.
LEMMA ReplyKeeps ==
    ASSUME ServersFit, AgentsInv, NEW m \in Node, srv[m].pc # "idle", NEW d \in Agent, Reply(m, d),
           enrolled \subseteq enrolled',
           d.pc = "done" =>
               \E e \in enrolled' : e.key = srv[m].key /\ e.serial = d.serial /\ e.fp = d.fp
    PROVE  ServersFit' /\ AgentsInv'
<1>1. srv[m].key \in Key
  BY BusyHandler DEF Busy
<1>2. ServersFit'
  BY Constants, HandlerMoves DEF Reply
<1>3. CASE Waits(m)
  BY <1>1, <1>2, <1>3, AgentMoves DEF Reply
<1>4. CASE ~Waits(m)
  BY <1>2, <1>4, AgentsRest DEF Reply
<1> QED
  BY <1>3, <1>4

\* A refusal claims nothing, so it is always true.
LEMMA RefuseKeeps ==
    ASSUME ServersFit, AgentsInv, NEW m \in Node, srv[m].pc # "idle", Refuse(m),
           enrolled \subseteq enrolled'
    PROVE  ServersFit' /\ AgentsInv'
BY Constants, ReplyKeeps DEF Refuse

\* A success answer names an enrollment that is on record.
LEMMA AnswerKeeps ==
    ASSUME ServersFit, AgentsInv, NEW m \in Node, srv[m].pc # "idle", NEW s \in Serial,
           Answer(m, s), enrolled \subseteq enrolled',
           \E e \in enrolled' : e.key = srv[m].key /\ e.serial = s /\ e.fp = srv[m].req.fp
    PROVE  ServersFit' /\ AgentsInv'
<1> DEFINE d == [pc |-> "done", node |-> NoNode, serial |-> s, fp |-> srv[m].req.fp]
<1>1. srv[m].req.fp \in HostKey
  BY BusyHandler DEF Busy, Request
<1>2. d \in Agent /\ d.serial = s /\ d.fp = srv[m].req.fp
  BY <1>1 DEF Agent, Serials
<1>3. Reply(m, d)
  BY DEF Answer
<1> HIDE DEF d
<1> QED
  BY <1>2, <1>3, ReplyKeeps

\* Steps that leave the tables and their history alone.
LEMMA TablesRest ==
    ASSUME TablesInv, UNCHANGED <<tables, enrolled>>, expired' \subseteq Cred,
           losses' \in Nat, edits' \in Nat
    PROVE  TablesInv'
BY DEF TablesInv, tables, TablesType, BatchesFit, HistoryFits, QuotaHolds, OneUse, OneBinding

-----------------------------------------------------------------------------
(* Agents' commands and the reads of EnrollDevice                          *)

\* A device sends its request to a free node.
LEMMA SendKeeps ==
    ASSUME IInv, NEW k \in Key, NEW m \in Node, NEW r \in Ask[k], Send(k, m, r)
    PROVE  IInv'
<1> DEFINE x == [Idle EXCEPT !.pc = "replay", !.key = k, !.req = r]
           d == [Rest EXCEPT !.pc = "asking", !.node = m]
<1>0. TablesInv /\ ServersFit /\ AgentsInv
  BY Parts
<1>1. r \in Request
  BY EnrollmentAssumption
<1>2. x \in Busy /\ Carries(x)
  <2>1. 0 \in 0 .. Limit
    BY EnrollmentAssumption
  <2>2. x \in Busy
    BY <1>1, <2>1 DEF Idle, Busy, Serials
  <2>3. x.pc = "replay" /\ x.batch = NoBatch
    BY DEF Idle
  <2> QED
    BY <2>2, <2>3 DEF Carries
<1>3. d \in Agent /\ d.pc = "asking"
  BY DEF Rest, Agent, Serials
<1>4. /\ srv' = [srv EXCEPT ![m] = x] /\ dev' = [dev EXCEPT ![k] = d]
      /\ UNCHANGED <<tables, expired, enrolled, losses, edits>>
  BY DEF Send
<1> HIDE DEF x, d
<1>5. ServersFit'
  BY <1>0, <1>2, <1>4, HandlerMoves
<1>6. AgentsInv'
  BY <1>0, <1>3, <1>4, AgentMoves
<1>7. TablesInv'
  BY <1>0, <1>4, TablesRest DEF TablesInv, TablesType
<1> QED
  BY <1>5, <1>6, <1>7, Parts

\* A device stops waiting; the node goes on.
LEMMA GiveUpKeeps == ASSUME IInv, NEW k \in Key, GiveUp(k) PROVE IInv'
<1>0. TablesInv /\ ServersFit /\ AgentsInv
  BY Parts
<1>1. AgentsInv'
  BY <1>0, Constants, AgentMoves DEF GiveUp
<1>2. TablesInv'
  BY <1>0, TablesRest DEF GiveUp, TablesInv, TablesType
<1>3. ServersFit'
  BY <1>0 DEF GiveUp, ServersFit, Carries
<1> QED
  BY <1>1, <1>2, <1>3, Parts

\* A step of one handler that changes no table.
LEMMA ReadOnly ==
    ASSUME IInv, ServersFit', AgentsInv', UNCHANGED <<tables, expired, enrolled, losses, edits>>
    PROVE  IInv'
BY Parts, TablesRest DEF TablesInv, TablesType

\* A node drops a request nobody waits for.
LEMMA AbandonKeeps == ASSUME IInv, NEW m \in Node, Abandon(m) PROVE IInv'
<1>1. ServersFit' /\ AgentsInv'
  BY Parts, RefuseKeeps DEF Abandon
<1> QED
  BY <1>1, ReadOnly DEF Abandon

\* Continue changes the label only.
LEMMA ContinueKeeps ==
    ASSUME ServersFit, AgentsInv, NEW m \in Node, srv[m].pc # "idle", NEW p, Continue(m, p),
           \/ srv[m].pc = "replay" /\ p = "token"
           \/ srv[m].pc = "clash" /\ p = "commit",
           enrolled' = enrolled
    PROVE  ServersFit' /\ AgentsInv'
<1> DEFINE x == [srv[m] EXCEPT !.pc = p]
<1>1. srv[m] \in Busy /\ Carries(srv[m])
  BY BusyHandler
<1>2. srv' = [srv EXCEPT ![m] = x]
  BY <1>1 DEF Continue, ServersFit, Busy
<1>3. /\ x \in Busy /\ x.pc = p /\ x.batch = srv[m].batch /\ x.serial = srv[m].serial
      /\ x.used = srv[m].used
  BY <1>1 DEF Busy
<1> HIDE DEF x
<1>4. Carries(x)
  BY <1>1, <1>3 DEF Carries
<1>5. ServersFit'
  BY <1>2, <1>3, <1>4, HandlerMoves
<1> QED
  BY <1>5, AgentsRest DEF Continue

\* A replay is answered with what was bound to the key.
LEMMA ReplayKeeps == ASSUME IInv, NEW m \in Node, Replay(m) PROVE IInv'
<1>0. TablesInv /\ ServersFit /\ AgentsInv
  BY Parts
<1>1. srv[m].pc = "replay" /\ enrolled' = enrolled
  BY DEF Replay
<1>2. CASE Continue(m, "token")
  <2>1. ServersFit' /\ AgentsInv'
    BY <1>0, <1>1, <1>2, ContinueKeeps
  <2> QED
    BY <2>1, ReadOnly DEF Replay
<1>3. CASE Refuse(m)
  <2>1. ServersFit' /\ AgentsInv'
    BY <1>0, <1>1, <1>3, RefuseKeeps
  <2> QED
    BY <2>1, ReadOnly DEF Replay
<1>4. ASSUME NEW d \in devices, d.key = srv[m].key, SameIdentity(d, srv[m].req),
             Answer(m, d.serial)
      PROVE  IInv'
  <2>1. d.serial \in Serial /\ d.fp = srv[m].req.fp
    BY <1>0, <1>4 DEF TablesInv, TablesType, SameIdentity
  <2>2. \E e \in enrolled : e.key = srv[m].key /\ e.serial = d.serial /\ e.fp = srv[m].req.fp
    BY <1>0, <1>4, <2>1 DEF TablesInv, HistoryFits
  <2>3. ServersFit' /\ AgentsInv'
    BY <1>0, <1>1, <1>4, <2>1, <2>2, AnswerKeeps
  <2> QED
    BY <2>3, ReadOnly DEF Replay
<1> QED
  BY <1>2, <1>3, <1>4 DEF Replay

\* The credential leads to a batch, or is a plain token with an explicit serial.
LEMMA ReadTokenKeeps == ASSUME IInv, NEW m \in Node, ReadToken(m) PROVE IInv'
<1>0. TablesInv /\ ServersFit /\ AgentsInv
  BY Parts
<1>1. srv[m].pc = "token" /\ enrolled' = enrolled
  BY DEF ReadToken
<1>2. srv[m] \in Busy /\ Carries(srv[m])
  BY <1>0, <1>1, BusyHandler
<1>3. CASE Refuse(m)
  <2>1. ServersFit' /\ AgentsInv'
    BY <1>0, <1>1, <1>3, RefuseKeeps
  <2> QED
    BY <2>1, ReadOnly DEF ReadToken
<1>4. ASSUME srv' = [srv EXCEPT ![m].pc = "clash", ![m].serial = srv[m].req.serial],
             UNCHANGED dev, SerialGiven(m)
      PROVE  IInv'
  <2> DEFINE x == [srv[m] EXCEPT !.pc = "clash", !.serial = srv[m].req.serial]
  <2>1. srv' = [srv EXCEPT ![m] = x]
    BY <1>2, <1>4 DEF Busy
  <2>2. srv[m].req.serial \in Serial
    BY <1>2, <1>4 DEF Busy, Request, SerialGiven
  <2>3. x \in Busy /\ x.pc = "clash" /\ x.serial = srv[m].req.serial /\ x.batch = srv[m].batch
    BY <1>2, <2>2 DEF Busy, Serials
  <2> HIDE DEF x
  <2>4. Carries(x)
    BY <1>1, <1>2, <2>2, <2>3 DEF Carries
  <2>5. ServersFit' /\ AgentsInv'
    BY <1>0, <1>1, <1>4, <2>1, <2>3, <2>4, HandlerMoves, AgentsRest
  <2> QED
    BY <2>5, ReadOnly DEF ReadToken
<1>5. ASSUME srv' = [srv EXCEPT ![m].pc = "batch", ![m].batch = BatchOf(srv[m].req.cred)],
             UNCHANGED dev, BatchOf(srv[m].req.cred) # NoBatch
      PROVE  IInv'
  <2> DEFINE b == BatchOf(srv[m].req.cred)
             x == [srv[m] EXCEPT !.pc = "batch", !.batch = b]
  <2>1. srv' = [srv EXCEPT ![m] = x]
    BY <1>2, <1>5 DEF Busy
  <2>2. b \in Batch
    BY <1>0, <1>2, <1>5 DEF BatchOf, Busy, Request, Cred, TablesInv, TablesType
  <2> HIDE DEF b
  <2>3. x \in Busy /\ x.pc = "batch" /\ x.batch = b
    BY <1>2, <2>2 DEF Busy
  <2> HIDE DEF x
  <2>4. Carries(x)
    BY <2>2, <2>3 DEF Carries
  <2>5. ServersFit' /\ AgentsInv'
    BY <1>0, <1>1, <1>5, <2>1, <2>3, <2>4, HandlerMoves, AgentsRest
  <2> QED
    BY <2>5, ReadOnly DEF ReadToken
<1> QED
  BY <1>3, <1>4, <1>5 DEF ReadToken

\* The batch's next serial is within its limit.
LEMMA ReadBatchKeeps == ASSUME IInv, NEW m \in Node, ReadBatch(m) PROVE IInv'
<1> DEFINE b == srv[m].batch
           n == <<PrefixOf[b], batches[b].used + 1>>
<1>0. TablesInv /\ ServersFit /\ AgentsInv
  BY Parts
<1>1. srv[m].pc = "batch" /\ enrolled' = enrolled
  BY DEF ReadBatch
<1>2. srv[m] \in Busy /\ b \in Batch
  BY <1>0, <1>1, BusyHandler DEF Carries
<1>3. CASE Refuse(m)
  <2>1. ServersFit' /\ AgentsInv'
    BY <1>0, <1>1, <1>3, RefuseKeeps
  <2> QED
    BY <2>1, ReadOnly DEF ReadBatch
<1>4. ASSUME srv' = [srv EXCEPT ![m].pc = "clash", ![m].used = batches[b].used, ![m].serial = n],
             UNCHANGED dev, Usable(b)
      PROVE  IInv'
  <2> DEFINE x == [srv[m] EXCEPT !.pc = "clash", !.used = batches[b].used, !.serial = n]
  <2>1. srv' = [srv EXCEPT ![m] = x]
    BY <1>2, <1>4 DEF Busy
  <2>2. batches[b].used \in 0 .. Limit /\ n \in Serial
    <3>1. batches[b].used \in 0 .. Limit /\ batches[b].used < Limit /\ PrefixOf[b] \in Prefix
      BY <1>0, <1>2, <1>4, EnrollmentAssumption DEF Usable, TablesInv, TablesType
    <3> QED
      BY <3>1, EnrollmentAssumption DEF Serial
  <2>3. /\ x \in Busy /\ x.pc = "clash" /\ x.serial = n /\ x.batch = b
        /\ x.used = batches[b].used
    <3>1. n \in Serials
      BY <2>2 DEF Serials
    <3> HIDE DEF n
    <3> QED
      BY <1>2, <2>2, <3>1 DEF Busy
  <2> HIDE DEF x
  <2>4. Carries(x)
    BY <2>2, <2>3 DEF Carries
  <2>5. ServersFit' /\ AgentsInv'
    BY <1>0, <1>1, <1>4, <2>1, <2>3, <2>4, HandlerMoves, AgentsRest
  <2> QED
    BY <2>5, ReadOnly DEF ReadBatch
<1> QED
  BY <1>3, <1>4 DEF ReadBatch

\* The serial and key lookup before the transaction changes no table.
LEMMA ReadClashKeeps == ASSUME IInv, NEW m \in Node, ReadClash(m) PROVE IInv'
<1>0. TablesInv /\ ServersFit /\ AgentsInv
  BY Parts
<1>1. srv[m].pc = "clash" /\ enrolled' = enrolled
  BY DEF ReadClash
<1>2. ServersFit' /\ AgentsInv'
  BY <1>0, <1>1, RefuseKeeps, ContinueKeeps DEF ReadClash
<1> QED
  BY <1>2, ReadOnly DEF ReadClash

-----------------------------------------------------------------------------
(* Administration                                                          *)

\* Batches are opened before their first device and closed for good.
LEMMA BatchStatusKeeps ==
    ASSUME IInv, NEW b \in Batch, CreateManufacturingBatch(b) \/ CloseManufacturingBatch(b)
    PROVE  IInv'
<1>0. TablesInv /\ ServersFit /\ AgentsInv
  BY Parts
<1>1. UNCHANGED <<tokens, hosts, devices, nextId, expired, srv, dev, enrolled, losses, edits>>
  BY DEF CreateManufacturingBatch, CloseManufacturingBatch
<1>2. PICK st \in {"open", "closed"} :
          /\ batches' = [batches EXCEPT ![b].status = st]
          /\ st = "open" => batches[b].status = "absent"
  BY DEF CreateManufacturingBatch, CloseManufacturingBatch
<1>3. /\ batches' \in [Batch -> [status : {"absent", "open", "closed"}, used : 0 .. Limit]]
      /\ batches'[b].status = st
      /\ \A c \in Batch : batches'[c].used = batches[c].used
      /\ \A c \in Batch \ {b} : batches'[c] = batches[c]
  BY <1>0, <1>2 DEF TablesInv, TablesType
<1>4. BatchesFit'
  BY <1>0, <1>2, <1>3, EnrollmentAssumption DEF TablesInv, BatchesFit
<1>5. HistoryFits'
  BY <1>0, <1>1, <1>3 DEF TablesInv, TablesType, HistoryFits
<1>6. QuotaHolds'
  <2> SUFFICES ASSUME NEW c \in Batch
               PROVE  LET mine == {e \in enrolled : e.batch = c} IN
                      /\ batches'[c].used = Cardinality(mine)
                      /\ mine # {} /\ batches'[c].used = Limit => batches'[c].status = "closed"
                      /\ \A d, e \in mine : d.serial = e.serial => d = e
    BY <1>1 DEF QuotaHolds
  <2>1. batches'[c].used = Limit => batches'[c].status = "closed"
    BY <1>3, <1>4, EnrollmentAssumption DEF BatchesFit
  <2> QED
    BY <1>0, <1>3, <2>1 DEF TablesInv, QuotaHolds
<1>7. TablesInv'
  BY <1>0, <1>1, <1>3, <1>4, <1>5, <1>6 DEF TablesInv, TablesType, OneUse, OneBinding
<1>8. ServersFit' /\ AgentsInv'
  BY <1>0, <1>1, AgentsRest DEF ServersFit, Carries
<1> QED
  BY <1>7, <1>8, Parts

\* An operator creates a token.
LEMMA CreateTokenKeeps ==
    ASSUME IInv, NEW t \in Token, NEW b \in Batch \cup {NoBatch}, CreateManufacturingToken(t, b)
    PROVE  IInv'
<1>0. TablesInv /\ ServersFit /\ AgentsInv
  BY Parts
<1>1. UNCHANGED <<batches, hosts, devices, nextId, expired, srv, dev, enrolled, losses, edits>>
  BY DEF CreateManufacturingToken
<1>2. /\ tokens' \in [Token -> [live : BOOLEAN, batch : Batch \cup {NoBatch}]]
      /\ \A u \in Token \ {t} : tokens'[u] = tokens[u]
  BY <1>0 DEF CreateManufacturingToken, TablesInv, TablesType
<1>3. OneUse'
  BY <1>0, <1>1, <1>2 DEF CreateManufacturingToken, TablesInv, OneUse
<1>4. TablesInv'
  BY <1>0, <1>1, <1>2, <1>3 DEF TablesInv, TablesType, BatchesFit, HistoryFits, QuotaHolds,
     OneBinding
<1>5. ServersFit' /\ AgentsInv'
  BY <1>0, <1>1, AgentsRest DEF ServersFit, Carries
<1> QED
  BY <1>4, <1>5, Parts

\* A credential expires.
LEMMA ExpireKeeps == ASSUME IInv, NEW c \in Cred, Expire(c) PROVE IInv'
<1>0. TablesInv /\ ServersFit /\ AgentsInv
  BY Parts
<1>1. TablesInv'
  BY <1>0, TablesRest DEF Expire, TablesInv, TablesType
<1>2. ServersFit' /\ AgentsInv'
  BY <1>0, AgentsRest DEF Expire, ServersFit, Carries
<1> QED
  BY <1>1, <1>2, Parts

\* Steps on hosts and devices that forget rows or change a device's state.
LEMMA RowsGo ==
    ASSUME IInv, UNCHANGED <<tokens, batches, nextId, expired, srv, dev, enrolled, losses>>,
           edits' \in Nat, hosts' \subseteq hosts,
           devices' \subseteq [host : Nat, key : Key, fp : HostKey, serial : Serial,
                              state : {"manufactured", "revoked"}],
           \A d \in devices' : \E c \in devices :
               c.host = d.host /\ c.key = d.key /\ c.serial = d.serial /\ c.fp = d.fp,
           OneBinding'
    PROVE  IInv'
<1>0. TablesInv /\ ServersFit /\ AgentsInv
  BY Parts
<1>1. TablesType'
  BY <1>0 DEF TablesInv, TablesType
<1>2. HistoryFits'
  BY <1>0 DEF TablesInv, HistoryFits
<1>3. BatchesFit' /\ QuotaHolds' /\ OneUse'
  BY <1>0 DEF TablesInv, BatchesFit, QuotaHolds, OneUse
<1>4. ServersFit' /\ AgentsInv'
  BY <1>0, AgentsRest DEF ServersFit, Carries
<1> QED
  BY <1>1, <1>2, <1>3, <1>4, Parts DEF TablesInv

\* DeleteDevice revokes a device and keeps its bindings.
LEMMA DeleteDeviceKeeps == ASSUME IInv, NEW d \in devices, DeleteDevice(d) PROVE IInv'
<1>0. TablesInv
  BY Parts
<1> DEFINE r == [d EXCEPT !.state = "revoked"]
<1>1. /\ r \in [host : Nat, key : Key, fp : HostKey, serial : Serial,
                state : {"manufactured", "revoked"}]
      /\ r.host = d.host /\ r.key = d.key /\ r.serial = d.serial /\ r.fp = d.fp
  BY <1>0 DEF TablesInv, TablesType
<1>2. devices' = (devices \ {d}) \cup {r} /\ hosts' = hosts
  BY DEF DeleteDevice
<1> HIDE DEF r
<1>3. OneBinding'
  BY <1>0, <1>1, <1>2 DEF TablesInv, OneBinding
<1>4. edits' \in Nat /\ devices \subseteq [host : Nat, key : Key, fp : HostKey, serial : Serial,
                                             state : {"manufactured", "revoked"}]
  BY <1>0 DEF DeleteDevice, TablesInv, TablesType
<1> QED
  BY <1>1, <1>2, <1>3, <1>4, RowsGo DEF DeleteDevice

\* DeleteHost removes a host with its devices; history keeps what was used.
LEMMA DeleteHostKeeps == ASSUME IInv, NEW h \in hosts, DeleteHost(h) PROVE IInv'
<1>0. TablesInv
  BY Parts
<1>1. hosts' = hosts \ {h} /\ devices' = {d \in devices : d.host # h.id}
  BY DEF DeleteHost
<1>2. OneBinding'
  BY <1>0, <1>1 DEF TablesInv, OneBinding
<1>3. edits' \in Nat /\ devices \subseteq [host : Nat, key : Key, fp : HostKey, serial : Serial,
                                             state : {"manufactured", "revoked"}]
  BY <1>0 DEF DeleteHost, Edit, TablesInv, TablesType
<1> QED
  BY <1>1, <1>2, <1>3, RowsGo DEF DeleteHost

\* An operator's new or renamed host: ids and names stay unique, and no device
\* loses its host.
LEMMA HostsChange ==
    ASSUME IInv, UNCHANGED <<tokens, batches, devices, expired, srv, dev, enrolled, losses>>,
           edits' \in Nat, nextId' \in Nat, nextId <= nextId',
           hosts' \subseteq [id : Nat, name : Serial],
           \A h \in hosts' : h.id < nextId',
           \A g, h \in hosts' : g.id = h.id \/ g.name = h.name => g = h,
           \A g \in hosts : \E h \in hosts' : h.id = g.id
    PROVE  IInv'
<1>0. TablesInv /\ ServersFit /\ AgentsInv
  BY Parts
<1>1. TablesType'
  BY <1>0 DEF TablesInv, TablesType
<1>2. HistoryFits'
  <2>1. \A e \in enrolled : e.host < nextId'
    BY <1>0 DEF TablesInv, TablesType, HistoryFits
  <2> QED
    BY <1>0, <2>1 DEF TablesInv, HistoryFits
<1>3. BatchesFit' /\ QuotaHolds' /\ OneUse'
  BY <1>0 DEF TablesInv, BatchesFit, QuotaHolds, OneUse
<1>4. OneBinding'
  BY <1>0 DEF TablesInv, OneBinding
<1>5. ServersFit' /\ AgentsInv'
  BY <1>0, AgentsRest DEF ServersFit, Carries
<1> QED
  BY <1>1, <1>2, <1>3, <1>4, <1>5, Parts DEF TablesInv

\* CreateHost gives a new id to a name nobody has.
LEMMA CreateHostKeeps == ASSUME IInv, NEW name \in HostName, CreateHost(name) PROVE IInv'
<1>0. TablesInv
  BY Parts
<1> DEFINE n == [id |-> nextId, name |-> name]
<1>1. nextId \in Nat /\ edits \in Nat /\ name \in Serial
  BY <1>0, EnrollmentAssumption DEF TablesInv, TablesType
<1>2. n \in [id : Nat, name : Serial] /\ n.id = nextId /\ n.name = name
  BY <1>1
<1>3. hosts' = hosts \cup {n} /\ nextId' = nextId + 1 /\ edits' = edits + 1
  BY DEF CreateHost, Edit
<1> HIDE DEF n
<1>4. /\ hosts \subseteq [id : Nat, name : Serial]
      /\ \A h \in hosts : h.id < nextId /\ h.name # name
      /\ \A g, h \in hosts : g.id = h.id \/ g.name = h.name => g = h
  BY <1>0 DEF CreateHost, NameFree, TablesInv, TablesType, HistoryFits, OneBinding
<1>5. /\ hosts' \subseteq [id : Nat, name : Serial]
      /\ \A h \in hosts' : h.id < nextId'
      /\ \A g, h \in hosts' : g.id = h.id \/ g.name = h.name => g = h
  BY <1>1, <1>2, <1>3, <1>4
<1> QED
  BY <1>1, <1>3, <1>5, HostsChange DEF CreateHost

\* UpdateHost keeps the id, and with it the device, under a name nobody has.
LEMMA UpdateHostKeeps ==
    ASSUME IInv, NEW h \in hosts, NEW name \in HostName, UpdateHost(h, name)
    PROVE  IInv'
<1>0. TablesInv
  BY Parts
<1> DEFINE n == [h EXCEPT !.name = name]
<1>1. /\ nextId \in Nat /\ edits \in Nat /\ name \in Serial /\ edits' = edits + 1
      /\ nextId' = nextId
  BY <1>0, EnrollmentAssumption DEF UpdateHost, Edit, TablesInv, TablesType
<1>2. n \in [id : Nat, name : Serial] /\ n.id = h.id /\ n.name = name
  BY <1>0, <1>1 DEF TablesInv, TablesType
<1>3. hosts' = (hosts \ {h}) \cup {n}
  BY DEF UpdateHost
<1> HIDE DEF n
<1>4. /\ hosts \subseteq [id : Nat, name : Serial]
      /\ \A g \in hosts : g.id < nextId /\ g.name # name
      /\ \A f, g \in hosts : f.id = g.id \/ f.name = g.name => f = g
  BY <1>0 DEF UpdateHost, NameFree, TablesInv, TablesType, HistoryFits, OneBinding
<1>5. /\ hosts' \subseteq [id : Nat, name : Serial]
      /\ \A g \in hosts' : g.id < nextId'
      /\ \A f, g \in hosts' : f.id = g.id \/ f.name = g.name => f = g
      /\ \A f \in hosts : \E g \in hosts' : g.id = f.id
  BY <1>1, <1>2, <1>3, <1>4
<1> QED
  BY <1>1, <1>5, HostsChange DEF UpdateHost

-----------------------------------------------------------------------------
(* The transaction                                                         *)

\* What a transaction that found all its rows changes.
Enrolls(m) ==
    /\ BatchConsumed(m) /\ TokenConsumed(m) /\ Unique(m)
    /\ batches' = [b \in Batch |-> IF b = srv[m].batch THEN Consume(batches[b]) ELSE batches[b]]
    /\ tokens' = [t \in Token |-> IF t = srv[m].req.cred THEN [tokens[t] EXCEPT !.live = FALSE]
                                                         ELSE tokens[t]]
    /\ hosts' = hosts \cup {[id |-> nextId, name |-> srv[m].serial]}
    /\ devices' = devices \cup {[host |-> nextId, key |-> srv[m].key, fp |-> srv[m].req.fp,
                                 serial |-> srv[m].serial, state |-> "manufactured"]}
    /\ nextId' = nextId + 1
    /\ enrolled' = enrolled \cup {[host |-> nextId, key |-> srv[m].key, cred |-> srv[m].req.cred,
                                   batch |-> srv[m].batch, serial |-> srv[m].serial,
                                   fp |-> srv[m].req.fp]}
    /\ UNCHANGED <<expired, losses, edits>>

\* The batch gains one device and closes with its last; other batches stay.
LEMMA BatchGains ==
    ASSUME TablesInv, ServersFit, NEW m \in Node, srv[m].pc = "commit", Enrolls(m)
    PROVE  /\ batches' \in [Batch -> [status : {"absent", "open", "closed"}, used : 0 .. Limit]]
           /\ BatchesFit'
           /\ \A b \in Batch \ {srv[m].batch} : batches'[b] = batches[b]
           /\ srv[m].batch \in Batch =>
                  /\ batches'[srv[m].batch].used = batches[srv[m].batch].used + 1
                  /\ srv[m].serial = <<PrefixOf[srv[m].batch], batches[srv[m].batch].used + 1>>
<1>1. srv[m] \in Busy /\ Carries(srv[m])
  BY BusyHandler
<1>2. \A b \in Batch \ {srv[m].batch} : batches'[b] = batches[b]
  BY DEF Enrolls
<1>3. ASSUME srv[m].batch \in Batch
      PROVE  /\ batches[srv[m].batch].used \in 0 .. Limit
             /\ batches[srv[m].batch].used < Limit
             /\ batches[srv[m].batch].used = srv[m].used
             /\ batches[srv[m].batch].status = "open"
             /\ batches'[srv[m].batch] = Consume(batches[srv[m].batch])
  BY <1>1, <1>3, EnrollmentAssumption DEF Enrolls, BatchConsumed, TablesInv, TablesType
<1>4. ASSUME NEW b \in [status : {"absent", "open", "closed"}, used : 0 .. Limit],
             b.used < Limit, b.status = "open"
      PROVE  /\ Consume(b) \in [status : {"absent", "open", "closed"}, used : 0 .. Limit]
             /\ Consume(b).used = b.used + 1
             /\ Consume(b).status = "closed" \/ (Consume(b).status = "open" /\ b.used + 1 < Limit)
  <2>1. b.used + 1 \in 0 .. Limit
    BY <1>4, EnrollmentAssumption
  <2> QED
    <3>1. b.used \in Int /\ Limit \in Int
      BY EnrollmentAssumption
    <3>2. CASE b.used + 1 >= Limit
      <4>1. Consume(b) = [b EXCEPT !.used = b.used + 1, !.status = "closed"]
        BY <3>2 DEF Consume
      <4> QED
        BY <2>1, <4>1
    <3>3. CASE ~(b.used + 1 >= Limit)
      <4>1. Consume(b) = [b EXCEPT !.used = b.used + 1, !.status = "open"]
        BY <1>4, <3>3 DEF Consume
      <4>2. b.used + 1 < Limit
        BY <3>1, <3>3
      <4> QED
        BY <2>1, <4>1, <4>2
    <3> QED
      BY <3>2, <3>3
<1>5. ASSUME srv[m].batch \in Batch
      PROVE  /\ batches'[srv[m].batch] \in [status : {"absent", "open", "closed"}, used : 0 .. Limit]
             /\ batches'[srv[m].batch].used = batches[srv[m].batch].used + 1
             /\ \/ batches'[srv[m].batch].status = "closed"
                \/ /\ batches'[srv[m].batch].status = "open"
                   /\ batches'[srv[m].batch].used < Limit
  BY <1>3, <1>4, <1>5 DEF TablesInv, TablesType
<1>6. batches' \in [Batch -> [status : {"absent", "open", "closed"}, used : 0 .. Limit]]
  <2>1. \A b \in Batch : batches'[b] \in [status : {"absent", "open", "closed"}, used : 0 .. Limit]
    BY <1>2, <1>5 DEF TablesInv, TablesType
  <2> QED
    BY <2>1 DEF Enrolls
<1>7. BatchesFit'
  BY <1>2, <1>5 DEF TablesInv, BatchesFit
<1>8. srv[m].batch \in Batch =>
          srv[m].serial = <<PrefixOf[srv[m].batch], batches[srv[m].batch].used + 1>>
  BY <1>1, <1>3, EnrollmentAssumption DEF Carries
<1> QED
  BY <1>2, <1>5, <1>6, <1>7, <1>8

\* The record of an enrollment, apart from the tables.
Entry(m) == [host |-> nextId, key |-> srv[m].key, cred |-> srv[m].req.cred, batch |-> srv[m].batch,
             serial |-> srv[m].serial, fp |-> srv[m].req.fp]

\* What a committed enrollment adds to the history is well formed, with a host id never used.
LEMMA EntryIsNew ==
    ASSUME TablesInv, ServersFit, NEW m \in Node, srv[m].pc = "commit", Enrolls(m)
    PROVE  /\ enrolled' = enrolled \cup {Entry(m)} /\ Entry(m) \notin enrolled
           /\ Entry(m) \in [host : Nat, key : Key, cred : Cred, batch : Batch \cup {NoBatch},
                            serial : Serial, fp : HostKey]
           /\ Entry(m).host = nextId /\ Entry(m).batch = srv[m].batch
           /\ Entry(m).key = srv[m].key /\ Entry(m).fp = srv[m].req.fp
           /\ Entry(m).serial = srv[m].serial /\ Entry(m).cred = srv[m].req.cred
           /\ nextId \in Nat /\ nextId' = nextId + 1
<1>1. srv[m] \in Busy /\ srv[m].serial \in Serial
  BY BusyHandler DEF Carries
<1>2. nextId \in Nat
  BY DEF TablesInv, TablesType
<1>3. /\ Entry(m) \in [host : Nat, key : Key, cred : Cred, batch : Batch \cup {NoBatch},
                       serial : Serial, fp : HostKey]
      /\ Entry(m).host = nextId /\ Entry(m).batch = srv[m].batch
      /\ Entry(m).key = srv[m].key /\ Entry(m).fp = srv[m].req.fp
      /\ Entry(m).serial = srv[m].serial /\ Entry(m).cred = srv[m].req.cred
  BY <1>1, <1>2 DEF Entry, Busy, Request
<1>4. Entry(m) \notin enrolled
  BY <1>2, <1>3 DEF TablesInv, HistoryFits
<1> QED
  BY <1>2, <1>3, <1>4 DEF Enrolls, Entry

\* A committed enrollment stays within the quota of its batch.
LEMMA QuotaKeeps ==
    ASSUME TablesInv, ServersFit, NEW m \in Node, srv[m].pc = "commit", Enrolls(m)
    PROVE  QuotaHolds'
<1> DEFINE Mine(c) == {e \in enrolled : e.batch = c}
<1>1. SUFFICES ASSUME NEW c \in Batch
               PROVE  LET mine == {e \in enrolled' : e.batch = c} IN
                      /\ batches'[c].used = Cardinality(mine)
                      /\ mine # {} /\ batches'[c].used = Limit => batches'[c].status = "closed"
                      /\ \A d, e \in mine : d.serial = e.serial => d = e
  BY DEF QuotaHolds
<1>2. batches'[c].used = Limit => batches'[c].status = "closed"
  BY BatchGains, EnrollmentAssumption DEF BatchesFit
<1>3. IsFiniteSet(Mine(c)) /\ batches[c].used = Cardinality(Mine(c))
  <2>1. Mine(c) \subseteq enrolled
    OBVIOUS
  <2> QED
    BY <2>1, FS_Subset DEF TablesInv, HistoryFits, QuotaHolds
<1>4. CASE c # srv[m].batch
  <2>1. {e \in enrolled' : e.batch = c} = Mine(c)
    BY <1>4, EntryIsNew
  <2>2. batches'[c] = batches[c]
    BY <1>4, BatchGains
  <2> QED
    BY <1>2, <2>1, <2>2 DEF TablesInv, QuotaHolds
<1>5. CASE c = srv[m].batch
  <2>1. {e \in enrolled' : e.batch = c} = Mine(c) \cup {Entry(m)} /\ Entry(m) \notin Mine(c)
    BY <1>5, EntryIsNew
  <2>2. Cardinality(Mine(c) \cup {Entry(m)}) = Cardinality(Mine(c)) + 1
    BY <1>3, <2>1, FS_AddElement
  <2>3. batches'[c].used = Cardinality({e \in enrolled' : e.batch = c})
    BY <1>3, <1>5, <2>1, <2>2, BatchGains
  <2>4. \A e \in Mine(c) : e.serial # Entry(m).serial
    <3>1. Entry(m).serial[2] = batches[c].used + 1
      BY <1>5, EntryIsNew, BatchGains
    <3>2. \A e \in Mine(c) : e.serial[2] <= batches[c].used
      BY EnrollmentAssumption DEF TablesInv, HistoryFits
    <3>3. \A e \in Mine(c) : e.serial[2] \in Nat
      BY DEF TablesInv, TablesType, Serial
    <3>4. batches[c].used \in Nat
      BY DEF TablesInv, TablesType
    <3> QED
      BY <3>1, <3>2, <3>3, <3>4
  <2>5. \A d, e \in Mine(c) : d.serial = e.serial => d = e
    BY DEF TablesInv, QuotaHolds
  <2> QED
    BY <1>2, <2>1, <2>3, <2>4, <2>5
<1> QED
  BY <1>4, <1>5

\* A committed enrollment uses up its token.
LEMMA OneUseKeeps ==
    ASSUME TablesInv, ServersFit, NEW m \in Node, srv[m].pc = "commit", Enrolls(m)
    PROVE  OneUse'
<1>1. SUFFICES ASSUME NEW t \in Token
               PROVE  LET mine == {e \in enrolled' : e.cred = t} IN
                      Cardinality(mine) <= 1 /\ (tokens'[t].live => mine = {})
  BY DEF OneUse
<1>2. CASE t # srv[m].req.cred
  <2>1. {e \in enrolled' : e.cred = t} = {e \in enrolled : e.cred = t}
    BY <1>2, EntryIsNew
  <2>2. tokens'[t] = tokens[t]
    BY <1>2 DEF Enrolls
  <2> QED
    BY <2>1, <2>2 DEF TablesInv, OneUse
<1>3. CASE t = srv[m].req.cred
  <2>1. {e \in enrolled : e.cred = t} = {}
    BY <1>3 DEF Enrolls, TokenConsumed, TablesInv, OneUse
  <2>2. {e \in enrolled' : e.cred = t} = {Entry(m)}
    BY <1>3, <2>1, EntryIsNew
  <2>3. Cardinality({Entry(m)}) = 1
    BY FS_Singleton
  <2>4. ~tokens'[t].live
    BY <1>3 DEF Enrolls, TablesInv, TablesType
  <2> QED
    BY <2>2, <2>3, <2>4
<1> QED
  BY <1>2, <1>3

\* A committed enrollment binds a key, a serial and a host that nobody else has.
LEMMA BindingKeeps ==
    ASSUME TablesInv, ServersFit, NEW m \in Node, srv[m].pc = "commit", Enrolls(m)
    PROVE  OneBinding' /\ HistoryFits'
<1> DEFINE h0 == [id |-> nextId, name |-> srv[m].serial]
           d0 == [host |-> nextId, key |-> srv[m].key, fp |-> srv[m].req.fp,
                  serial |-> srv[m].serial, state |-> "manufactured"]
<1>1. /\ hosts' = hosts \cup {h0} /\ h0.id = nextId /\ h0.name = srv[m].serial
      /\ devices' = devices \cup {d0} /\ d0.host = nextId /\ d0.key = srv[m].key
      /\ d0.fp = srv[m].req.fp /\ d0.serial = srv[m].serial
  BY DEF Enrolls
<1> HIDE DEF h0, d0
<1>2. \A d \in devices : d.host < nextId /\ d.host \in Nat
  BY DEF TablesInv, HistoryFits, TablesType
<1>3. \A d \in devices : d.key # srv[m].key /\ d.serial # srv[m].serial
  BY DEF Enrolls, Unique, DeviceFree
<1>4. nextId \in Nat /\ nextId' = nextId + 1
  BY EntryIsNew
<1>5. OneBinding'
  <2>1. \A h \in hosts : h.name # srv[m].serial
    BY DEF Enrolls, Unique, HostNameFree, NameFree
  <2>2. \A g, h \in hosts' : g.name = h.name => g = h
    BY <1>1, <2>1 DEF TablesInv, OneBinding
  <2>3. \A d \in devices' : \E h \in hosts' : h.id = d.host
    BY <1>1 DEF TablesInv, OneBinding
  <2>4. \A c, d \in devices' : c.key = d.key \/ c.serial = d.serial \/ c.host = d.host => c = d
    BY <1>1, <1>2, <1>3, <1>4 DEF TablesInv, OneBinding
  <2> QED
    BY <2>2, <2>3, <2>4 DEF OneBinding
<1>6. HistoryFits'
  <2>1. IsFiniteSet(enrolled')
    BY EntryIsNew, FS_AddElement DEF TablesInv, HistoryFits
  <2>2. ASSUME NEW e \in enrolled'
        PROVE  e.host < nextId' /\ (e.batch # NoBatch => e.serial[2] <= batches'[e.batch].used)
    <3>1. CASE e = Entry(m)
      <4>1. e.host < nextId'
        BY <3>1, EntryIsNew
      <4>2. e.batch # NoBatch => e.batch = srv[m].batch /\ e.batch \in Batch
        BY <3>1, EntryIsNew
      <4>3. e.batch # NoBatch => e.serial[2] = batches'[e.batch].used
        BY <3>1, <4>2, EntryIsNew, BatchGains
      <4>4. e.batch # NoBatch => batches'[e.batch].used \in Nat
        BY <4>2, BatchGains
      <4> QED
        BY <4>1, <4>3, <4>4
    <3>2. CASE e \in enrolled
      <4>1. e.host < nextId /\ e.host \in Nat /\ e.batch \in Batch \cup {NoBatch}
        BY <3>2 DEF TablesInv, HistoryFits, TablesType
      <4>2. e.batch # NoBatch => e.serial[2] <= batches[e.batch].used /\ e.serial[2] \in Nat
        BY <3>2 DEF TablesInv, HistoryFits, TablesType, Serial
      <4>3. e.batch # NoBatch => /\ batches[e.batch].used \in Nat /\ batches'[e.batch].used \in Nat
                                 /\ batches'[e.batch].used >= batches[e.batch].used
        BY <4>1, BatchGains DEF TablesInv, TablesType
      <4> QED
        BY <1>4, <4>1, <4>2, <4>3
    <3> QED
      BY <3>1, <3>2, EntryIsNew
  <2>3. \A d \in devices' : \E e \in enrolled' :
            e.host = d.host /\ e.key = d.key /\ e.serial = d.serial /\ e.fp = d.fp
    BY <1>1, EntryIsNew DEF TablesInv, HistoryFits
  <2>4. (\A h \in hosts' : h.id < nextId') /\ \A g, h \in hosts' : g.id = h.id => g = h
    BY <1>1, <1>4 DEF TablesInv, HistoryFits, TablesType
  <2> QED
    BY <2>1, <2>2, <2>3, <2>4 DEF HistoryFits
<1> QED
  BY <1>5, <1>6

\* The transaction commits what it read, or nothing.
LEMMA CommitKeeps == ASSUME IInv, NEW m \in Node, Commit(m) PROVE IInv'
<1>0. TablesInv /\ ServersFit /\ AgentsInv /\ srv[m].pc = "commit"
  BY Parts DEF Commit
<1>1. CASE Refuse(m) /\ UNCHANGED <<tables, enrolled>>
  <2>1. ServersFit' /\ AgentsInv'
    BY <1>0, <1>1, RefuseKeeps
  <2> QED
    BY <1>1, <2>1, ReadOnly DEF Commit
<1>2. CASE Enrolls(m) /\ Answer(m, srv[m].serial)
  <2>1. srv[m] \in Busy /\ srv[m].serial \in Serial
    BY <1>0, BusyHandler DEF Carries
  <2>2. TablesType'
    <3>1. tokens' \in [Token -> [live : BOOLEAN, batch : Batch \cup {NoBatch}]]
      BY <1>0, <1>2 DEF Enrolls, TablesInv, TablesType
    <3>2. hosts' \subseteq [id : Nat, name : Serial]
      BY <1>0, <1>2, <2>1 DEF Enrolls, TablesInv, TablesType
    <3>3. devices' \subseteq [host : Nat, key : Key, fp : HostKey, serial : Serial,
                             state : {"manufactured", "revoked"}]
      BY <1>0, <1>2, <2>1 DEF Enrolls, TablesInv, TablesType, Busy, Request
    <3>4. /\ batches' \in [Batch -> [status : {"absent", "open", "closed"}, used : 0 .. Limit]]
          /\ enrolled' \subseteq [host : Nat, key : Key, cred : Cred, batch : Batch \cup {NoBatch},
                                  serial : Serial, fp : HostKey]
          /\ nextId' \in Nat
      BY <1>0, <1>2, BatchGains, EntryIsNew DEF TablesInv, TablesType
    <3> QED
      BY <1>0, <1>2, <3>1, <3>2, <3>3, <3>4 DEF Enrolls, TablesInv, TablesType
  <2>3. TablesInv'
    BY <1>0, <1>2, <2>2, BatchGains, QuotaKeeps, OneUseKeeps, BindingKeeps DEF TablesInv
  <2>4. /\ enrolled \subseteq enrolled'
        /\ \E e \in enrolled' : /\ e.key = srv[m].key /\ e.serial = srv[m].serial
                               /\ e.fp = srv[m].req.fp
    BY <1>0, <1>2, EntryIsNew
  <2>5. ServersFit' /\ AgentsInv'
    BY <1>0, <1>2, <2>1, <2>4, AnswerKeeps
  <2> QED
    BY <2>3, <2>5, Parts
<1> QED
  BY <1>1, <1>2 DEF Commit, Enrolls

-----------------------------------------------------------------------------
(* What enrollment guarantees                                              *)

\* The inductive invariant holds in every reachable state.
LEMMA Invariance == Spec => []IInv
<1>1. Init => IInv
  <2> SUFFICES ASSUME Init PROVE TablesInv /\ ServersFit /\ AgentsInv
    BY Parts
  <2>1. TablesType
    BY EnrollmentAssumption DEF Init, TablesType
  <2>2. BatchesFit /\ OneBinding
    BY EnrollmentAssumption DEF Init, BatchesFit, OneBinding
  <2>3. HistoryFits
    BY FS_EmptySet DEF Init, HistoryFits
  <2>4. QuotaHolds /\ OneUse
    <3>1. \A S : S \subseteq {} => Cardinality(S) = 0
      BY FS_EmptySet
    <3> QED
      BY <3>1 DEF Init, QuotaHolds, OneUse
  <2>5. ServersFit
    BY Constants DEF Init, ServersFit
  <2>6. AgentsInv
    BY Constants DEF Init, AgentsInv, AnswerIsTrue
  <2> QED
    BY <2>1, <2>2, <2>3, <2>4, <2>5, <2>6 DEF TablesInv
<1>2. ASSUME IInv, [Next]_vars PROVE IInv'
  <2>1. CASE Administer
    BY <1>2, <2>1, BatchStatusKeeps, CreateTokenKeeps, ExpireKeeps, DeleteDeviceKeeps,
       DeleteHostKeeps, CreateHostKeeps, UpdateHostKeeps DEF Administer
  <2>2. ASSUME NEW k \in Key, GiveUp(k) \/ \E m \in Node, r \in Ask[k] : Send(k, m, r)
        PROVE  IInv'
    BY <1>2, <2>2, GiveUpKeeps, SendKeeps
  <2>3. ASSUME NEW m \in Node, EnrollDevice(m) \/ Abandon(m) PROVE IInv'
    BY <1>2, <2>3, ReplayKeeps, ReadTokenKeeps, ReadBatchKeeps, ReadClashKeeps, CommitKeeps,
       AbandonKeeps DEF EnrollDevice
  <2>4. CASE UNCHANGED vars
    <3>1. UNCHANGED <<tables, expired, srv, dev, enrolled, losses, edits>>
      BY <2>4 DEF vars
    <3>2. ServersFit' /\ AgentsInv'
      BY <1>2, <3>1, Parts, AgentsRest DEF ServersFit, Carries
    <3> QED
      BY <1>2, <3>1, <3>2, ReadOnly
  <2> QED
    BY <1>2, <2>1, <2>2, <2>3, <2>4 DEF Next
<1> QED
  BY <1>1, <1>2, PTL DEF Spec

\* The quota, the one use of tokens and the unambiguous binding of devices hold
\* across nodes that share nothing but the database.
THEOREM TablesAlwaysHold == Spec => []TablesHold
<1>1. IInv => TablesHold
  BY DEF IInv, TablesHold
<1> QED
  BY <1>1, Invariance, PTL

\* An agent that was answered holds what EnrollDevice committed for its key.
THEOREM AnswersAreTrue == Spec => []AnswerIsTrue
<1>1. IInv => AnswerIsTrue
  BY DEF IInv
<1> QED
  BY <1>1, Invariance, PTL

\* A device keeps its record, and a revoked one its state, until its host is deleted.
THEOREM NoReenrollment == Spec => NoSilentReenrollment
<1> DEFINE A == \A d \in devices :
                    \/ \E e \in devices' : e.key = d.key /\ e.host = d.host
                                           /\ (d.state = "revoked" => e.state = "revoked")
                    \/ \A h \in hosts' : h.id # d.host
<1>1. ASSUME IInv, [Next]_vars PROVE [A]_vars
  <2>0. TablesInv
    BY <1>1, Parts
  <2>1. ASSUME devices \subseteq devices' PROVE A
    BY <2>1
  <2>2. ASSUME NEW d \in devices, DeleteDevice(d) PROVE A
    <3> DEFINE r == [d EXCEPT !.state = "revoked"]
    <3>1. r.host = d.host /\ r.key = d.key /\ r.state = "revoked"
      BY <2>0 DEF TablesInv, TablesType
    <3>2. devices' = (devices \ {d}) \cup {r}
      BY <2>2 DEF DeleteDevice
    <3> HIDE DEF r
    <3> QED
      BY <3>1, <3>2
  <2>3. ASSUME NEW h \in hosts, DeleteHost(h) PROVE A
    <3>1. hosts' = hosts \ {h} /\ devices' = {d \in devices : d.host # h.id}
      BY <2>3 DEF DeleteHost
    <3> QED
      BY <2>0, <3>1 DEF TablesInv, HistoryFits
  <2>4. ASSUME NEW m \in Node, Commit(m) PROVE devices \subseteq devices'
    BY <2>4 DEF Commit, tables
  <2> QED
    BY <1>1, <2>1, <2>2, <2>3, <2>4 DEF Next, Administer, CreateManufacturingBatch,
       CloseManufacturingBatch, CreateManufacturingToken, CreateHost, UpdateHost, Expire,
       GiveUp, Send, EnrollDevice, Replay, ReadToken, ReadBatch, ReadClash, Abandon, tables, vars
<1>2. IInv /\ [Next]_vars => [A]_vars
  BY <1>1
<1> QED
  BY <1>2, Invariance, PTL DEF Spec, NoSilentReenrollment
=============================================================================
