--------------------------- MODULE TrustFenceProofs ---------------------------
(***************************************************************************)
(* Proofs about the trust fence, for any set of nodes and ids and any      *)
(* number of crashes, faults and restores.                                 *)
(*                                                                         *)
(* IInv says what the compare-and-swap on the resource version buys: a     *)
(* node whose version is still current knows the anchor exactly, so        *)
(* whatever it writes, now or by a late PUT, is a legal successor of the   *)
(* anchor it replaces.  Every step is then shown to be of one of a few     *)
(* kinds (NextKind), and four invariants over IInv are proved kind by      *)
(* kind: OwnInv (who may still execute what), RowsInv (which rows belong   *)
(* to the anchor's pair and to its reservation), PairInv (until a restore, *)
(* how the database follows the anchor) and ExactInv (a database at the    *)
(* anchor's pair lacks no finalized write), by which the fence refines     *)
(* TrustedStore.                                                           *)
(***************************************************************************)
EXTENDS TrustFence, TLAPS

\* Where a node holds a pending record, and where it holds a settled one.
PendingPC == {"p_verify", "p_status", "p_commit", "p_reject", "p_final", "p_clear", "b_cas",
              "f_verify", "f_exists", "f_create", "f_base", "f_migrate", "f_tail",
              "c_migrate", "z_get", "z_verify", "z_migrated", "z_cas",
              "w_cas", "w_exec", "w_final", "w_rejected", "w_clear"}
CleanPC   == {"s_behind", "b_exists", "b_verify", "w_verify"}
MintedPC  == {"b_cas", "w_cas"}   \* the reservation is not yet in the anchor

\* The records that may follow a in the anchor.
Successor(a, b) ==
    \/ b = a
    \/ ~Pending(a) /\ \E id \in Id : b = Reserve(a, id)
    \/ Pending(a) /\ (b = Finalize(a) \/ b = Clear(a))

\* What node n knows: a current version means a current record.
Knows(n) ==
    /\ pc[n] \in PendingPC => Pending(rec[n])
    /\ pc[n] \in CleanPC => ~Pending(rec[n])
    /\ ver[n] <= rv
    /\ ver[n] = rv /\ pc[n] \notin MintedPC => rec[n] = anchor
    /\ ver[n] = rv /\ pc[n] \in MintedPC => ~Pending(anchor) /\ Clear(rec[n]) = anchor

AnchorPart ==
    /\ anchor \in Record /\ legacy \in BOOLEAN /\ rv \in Nat /\ rv >= 1
    /\ put \in SUBSET PutRequest
    /\ \A m \in put : m.rv <= rv /\ (m.rv = rv => Successor(anchor, m.next))
LocalPart ==
    /\ pc \in [Node -> PC] /\ rec \in [Node -> Record] /\ ver \in [Node -> Nat]
    /\ rows \in [Node -> SUBSET Id] /\ floor \in [Node -> SUBSET Id]
    /\ \A n \in Node : Knows(n)
DatabasePart == db \in Database /\ snap \in Database /\ exec \in SUBSET ExecRequest
StartPart    == att \in [Node -> Id \cup {NoId}] /\ resv \in [Node -> BOOLEAN]
HistoryPart  == used \in SUBSET Id /\ hist \in SUBSET Token /\ witnessed \in SUBSET Id
BoundPart    == crashes \in Nat /\ faults \in Nat /\ restores \in Nat

IInv == AnchorPart /\ LocalPart /\ DatabasePart /\ StartPart /\ HistoryPart /\ BoundPart

-----------------------------------------------------------------------------
(* Records                                                                 *)

\* Every successor of a record is a record.
LEMMA SuccessorType ==
    ASSUME NEW a \in Record, NEW b, Successor(a, b)
    PROVE  b \in Record
<1>1. ASSUME NEW id \in Id, b = Reserve(a, id) PROVE b \in Record
  BY <1>1 DEF Record, Reserve
<1>2. ASSUME Pending(a), b = Finalize(a) PROVE b \in Record
  <2>1. a.pid \in Token
    BY <1>2 DEF Pending, Record, Token
  <2>2. b = [epoch |-> a.epoch + 1, token |-> a.pid, pid |-> NoId, boot |-> FALSE]
    BY <1>2 DEF Finalize, Record
  <2> QED
    BY <2>1, <2>2 DEF Record
<1>3. ASSUME b = Clear(a) PROVE b \in Record
  BY <1>3 DEF Record, Clear
<1> QED
  BY <1>1, <1>2, <1>3 DEF Successor

\* A reservation of a settled record is undone by Clear.
LEMMA ReserveClear ==
    ASSUME NEW r \in Record, ~Pending(r), NEW id \in Id
    PROVE  /\ Reserve(r, id) \in Record
           /\ Pending(Reserve(r, id)) /\ Reserve(r, id).pid = id
           /\ Clear(Reserve(r, id)) = r
BY TrustFenceAssumption DEF Record, Reserve, Clear, Pending, Token

\* Pending records name an id.
LEMMA PendingId ==
    ASSUME NEW r \in Record, Pending(r)
    PROVE  r.pid \in Id /\ Reserve(Clear(r), r.pid) = r
BY DEF Record, Pending, Reserve, Clear

\* The pairs of a record are pairs of the database.
LEMMA PairTypes ==
    ASSUME NEW r \in Record
    PROVE  BasePair(r) \in Pair /\ PendingPair(r) \in Pair
BY DEF Record, BasePair, PendingPair, Pair, Token

-----------------------------------------------------------------------------
(* The steps a process is made of                                          *)

\* Where n may go without touching the anchor: back to the start of an attempt
\* or of an operation, or to where its record is of the kind expected there.
May(n, p) ==
    /\ p \in PC
    /\ \/ p \in {"s_get", "idle"}
       \/ /\ pc[n] \notin MintedPC /\ p \notin MintedPC
          /\ p \in PendingPC => Pending(rec[n])
          /\ p \in CleanPC => ~Pending(rec[n])

\* A node moves to p while the anchor stays: it keeps what it knows, or drops
\* its record altogether.
LEMMA GotoStep ==
    ASSUME AnchorPart, LocalPart, NEW n \in Node, NEW p, May(n, p), Goto(n, p),
           UNCHANGED <<anchor, rv>>
    PROVE  LocalPart'
<1> USE DEF LocalPart, May
<1>1. CASE p \in {"s_get", "idle"}
  <2>1. NoRecord \in Record
    BY DEF NoRecord, Record, Token
  <2>2. /\ pc' = [pc EXCEPT ![n] = p] /\ rec' = [rec EXCEPT ![n] = NoRecord]
        /\ ver' = [ver EXCEPT ![n] = 0]
        /\ rows' = [rows EXCEPT ![n] = {}] /\ floor' = [floor EXCEPT ![n] = {}]
    BY <1>1 DEF Goto
  <2>3. \A k \in Node : Knows(k)'
    BY <1>1, <2>1, <2>2 DEF Knows, AnchorPart, PendingPC, CleanPC, MintedPC
  <2> QED
    BY <2>1, <2>2, <2>3
<1>2. CASE p \notin {"s_get", "idle"}
  <2>1. pc' = [pc EXCEPT ![n] = p] /\ UNCHANGED localVars
    BY <1>2 DEF Goto
  <2>2. \A k \in Node : Knows(k)'
    BY <1>2, <2>1 DEF Knows, localVars
  <2> QED
    BY <2>1, <2>2 DEF localVars
<1> QED
  BY <1>1, <1>2

\* A node that reads the anchor knows it.
LEMMA GetStep ==
    ASSUME AnchorPart, LocalPart, NEW n \in Node, NEW p \in PC \ MintedPC, Get(n, p),
           UNCHANGED <<anchor, rv, rows, floor>>,
           p \in PendingPC => Pending(anchor),
           p \in CleanPC => ~Pending(anchor)
    PROVE  LocalPart'
<1> USE DEF LocalPart
<1>1. \A k \in Node : Knows(k)'
  BY DEF Knows, Get, AnchorPart
<1> QED
  BY <1>1 DEF Get, AnchorPart

\* A PUT of a legal successor leaves a well-formed anchor and makes every other
\* PUT in flight stale.
LEMMA StoreStep ==
    ASSUME AnchorPart, hist \in SUBSET Token, NEW next, Successor(anchor, next),
           Store(next), put' \subseteq put
    PROVE  AnchorPart' /\ hist' \in SUBSET Token
<1>1. next \in Record
  BY SuccessorType DEF AnchorPart
<1>2. anchor' = next /\ rv' = rv + 1 /\ legacy' = FALSE
  BY DEF Store
<1>3. \A m \in put' : m.rv \in Nat /\ m.rv <= rv
  BY DEF AnchorPart, PutRequest
<1>4. rv' \in Nat /\ rv' >= 1 /\ \A m \in put' : m.rv <= rv' /\ m.rv # rv'
  BY <1>2, <1>3 DEF AnchorPart
<1>5. legacy' \in BOOLEAN
  BY <1>2
<1>6. hist' \in SUBSET Token
  BY <1>1 DEF Store, Record
<1> QED
  BY <1>1, <1>2, <1>4, <1>5, <1>6 DEF AnchorPart

\* A compare-and-swap, whatever its outcome, keeps the anchor's part and what
\* every node knows, provided its record succeeds the anchor it was based on.
LEMMA CasStep ==
    ASSUME AnchorPart, LocalPart, hist \in SUBSET Token, faults \in Nat,
           NEW n \in Node, NEW next, NEW ok \in PC, NEW err \in {"s_get", "idle"},
           ver[n] = rv => Successor(anchor, next),
           ok # "idle" => ok \in PendingPC \ MintedPC /\ Pending(next),
           Cas(n, next, ok, err)
    PROVE  AnchorPart' /\ LocalPart' /\ hist' \in SUBSET Token /\ faults' \in Nat
<1>0. err \in PC /\ "idle" \in PC
  BY DEF PC, ServePC, Settling, SettleReads
<1>1. CASE /\ ver[n] = rv /\ legacy
           /\ Store(anchor)
           /\ ver' = [ver EXCEPT ![n] = rv + 1]
           /\ UNCHANGED <<pc, rec, rows, floor, put, faults>>
  <2>1. AnchorPart' /\ hist' \in SUBSET Token
    BY <1>1, StoreStep DEF Successor
  <2>2. anchor' = anchor /\ rv' = rv + 1
    BY <1>1 DEF Store
  <2>3. \A k \in Node : Knows(k)'
    BY <1>1, <2>2 DEF Knows, LocalPart, AnchorPart
  <2> QED
    BY <1>1, <2>1, <2>3 DEF LocalPart, AnchorPart
<1>2. CASE /\ ver[n] = rv /\ ~legacy
           /\ Store(next)
           /\ IF ok = "idle" THEN Goto(n, ok)
                             ELSE /\ rec' = [rec EXCEPT ![n] = next]
                                  /\ ver' = [ver EXCEPT ![n] = rv + 1]
                                  /\ pc' = [pc EXCEPT ![n] = ok]
                                  /\ UNCHANGED <<rows, floor>>
           /\ UNCHANGED <<put, faults>>
  <2>1. AnchorPart' /\ hist' \in SUBSET Token
    BY <1>2, StoreStep
  <2>2. anchor' = next /\ rv' = rv + 1 /\ next \in Record
    BY <1>2, SuccessorType DEF Store, AnchorPart
  <2>3. LocalPart'
    <3>1. CASE ok = "idle"
      <4>1. NoRecord \in Record
        BY DEF NoRecord, Record, Token
      <4>2. /\ pc' = [pc EXCEPT ![n] = "idle"] /\ rec' = [rec EXCEPT ![n] = NoRecord]
            /\ ver' = [ver EXCEPT ![n] = 0]
            /\ rows' = [rows EXCEPT ![n] = {}] /\ floor' = [floor EXCEPT ![n] = {}]
        BY <1>2, <3>1 DEF Goto
      <4>3. \A k \in Node : Knows(k)'
        BY <2>2, <4>1, <4>2 DEF Knows, LocalPart, AnchorPart, PendingPC, CleanPC, MintedPC
      <4> QED
        BY <1>0, <4>1, <4>2, <4>3 DEF LocalPart
    <3>2. CASE ok # "idle"
      <4>1. /\ pc' = [pc EXCEPT ![n] = ok] /\ rec' = [rec EXCEPT ![n] = next]
            /\ ver' = [ver EXCEPT ![n] = rv + 1] /\ UNCHANGED <<rows, floor>>
        BY <1>2, <3>2
      <4>2. ok \notin CleanPC
        BY <3>2 DEF PendingPC, CleanPC
      <4>3. \A k \in Node : Knows(k)'
        BY <2>2, <3>2, <4>1, <4>2 DEF Knows, LocalPart, AnchorPart
      <4> QED
        BY <2>2, <4>1, <4>3 DEF LocalPart, AnchorPart
    <3> QED
      BY <3>1, <3>2
  <2> QED
    BY <1>2, <2>1, <2>3
<1>3. CASE /\ ver[n] # rv
           /\ Goto(n, err)
           /\ UNCHANGED <<anchor, legacy, rv, put, hist, faults>>
  <2>1. LocalPart'
    BY <1>0, <1>3, GotoStep DEF May
  <2> QED
    BY <1>3, <2>1 DEF AnchorPart
<1>4. CASE /\ ver[n] = rv /\ faults < MaxFaults
           /\ faults' = faults + 1
           /\ put' = put \cup {[rv |-> rv, next |-> IF legacy THEN anchor ELSE next]}
           /\ Goto(n, err)
           /\ UNCHANGED <<anchor, legacy, rv, hist>>
  <2>1. LocalPart'
    BY <1>0, <1>4, GotoStep DEF May
  <2> DEFINE m == [rv |-> rv, next |-> IF legacy THEN anchor ELSE next]
  <2>2. Successor(anchor, m.next) /\ m.rv = rv
    BY <1>4 DEF Successor
  <2>3. m \in PutRequest
    BY <2>2, SuccessorType DEF AnchorPart, PutRequest
  <2>4. put' = put \cup {m}
    BY <1>4
  <2> HIDE DEF m
  <2>5. AnchorPart'
    BY <1>4, <2>2, <2>3, <2>4 DEF AnchorPart
  <2> QED
    BY <1>4, <2>1, <2>5
<1> QED
  BY <1>1, <1>2, <1>3, <1>4 DEF Cas

\* What an Execute leaves behind is a database.
LEMMA ExecutedType ==
    ASSUME NEW d \in Database, NEW r \in ExecRequest, NEW e \in Executed(d, r)
    PROVE  e \in Database
<1>1. r.base \in Pair /\ (r.kind # "create" => r.id \in Id) /\ r.base.epoch + 1 \in Nat
  BY DEF ExecRequest, Pair
<1>2. CASE r.kind = "create"
  BY <1>1, <1>2 DEF Executed, Database
<1>3. CASE r.kind # "create"
  <2> DEFINE pair == [epoch |-> r.base.epoch + 1, token |-> r.id]
             accepted == [d EXCEPT !.pair = pair,
                                   !.applied = IF r.kind = "write" THEN @ \cup {r.id} ELSE @,
                                   !.status[r.id] = "committed"]
             rejected == [d EXCEPT !.status[r.id] = "rejected"]
  <2>1. e \in {d, accepted, rejected}
    BY <1>3 DEF Executed
  <2>2. pair \in Pair
    BY <1>1, <1>3 DEF Pair, Token
  <2>3. accepted \in Database
    BY <1>1, <1>3, <2>2 DEF Database, Status
  <2>4. rejected \in Database
    BY <1>1, <1>3 DEF Database, Status
  <2> QED
    BY <2>1, <2>3, <2>4
<1> QED
  BY <1>2, <1>3

\* An Execute, whatever its outcome, keeps the database's part.
LEMMA ExecuteStep ==
    ASSUME IInv, NEW n \in Node, NEW r \in ExecRequest, NEW ok, NEW rejected, NEW unknown,
           May(n, ok), May(n, rejected), May(n, unknown),
           Execute(n, r, ok, rejected, unknown), UNCHANGED <<anchorVars, snap>>
    PROVE  AnchorPart' /\ LocalPart' /\ DatabasePart' /\ faults' \in Nat
<1> USE DEF IInv
<1>1. AnchorPart'
  BY DEF AnchorPart, anchorVars
<1>2. UNCHANGED <<anchor, rv>>
  BY DEF anchorVars
<1>3. ASSUME NEW e \in Executed(db, r), db' = e,
             Goto(n, IF Committed(db, e, r) THEN ok ELSE rejected), UNCHANGED <<exec, faults>>
      PROVE  LocalPart' /\ DatabasePart' /\ faults' \in Nat
  <2>1. LocalPart'
    <3>1. CASE Committed(db, e, r)
      BY <1>2, <1>3, <3>1, GotoStep
    <3>2. CASE ~Committed(db, e, r)
      BY <1>2, <1>3, <3>2, GotoStep
    <3> QED
      BY <3>1, <3>2
  <2>2. DatabasePart'
    BY <1>3, ExecutedType DEF DatabasePart
  <2> QED
    BY <1>3, <2>1, <2>2 DEF BoundPart
<1>4. ASSUME faults' = faults + 1, exec' = exec \cup {r}, Goto(n, unknown), UNCHANGED db
      PROVE  LocalPart' /\ DatabasePart' /\ faults' \in Nat
  <2>1. LocalPart'
    BY <1>2, <1>4, GotoStep
  <2> QED
    BY <1>4, <2>1 DEF DatabasePart, BoundPart
<1> QED
  BY <1>1, <1>3, <1>4 DEF Execute

\* A step that only moves the node keeps the invariant.
LEMMA QuietStep ==
    ASSUME IInv, NEW n \in Node, NEW p, May(n, p), Goto(n, p),
           UNCHANGED <<anchorVars, dbVars, startVars, historyVars, boundVars>>
    PROVE  IInv'
<1>1. LocalPart'
  BY GotoStep DEF IInv, anchorVars
<1> QED
  BY <1>1 DEF IInv, AnchorPart, DatabasePart, StartPart, HistoryPart, BoundPart,
              anchorVars, dbVars, startVars, historyVars, boundVars

\* A check of the trust row only moves the node.
LEMMA VerifyStep ==
    ASSUME IInv, NEW n \in Node, NEW pair, NEW ok, NEW err, May(n, ok), May(n, err),
           Verify(n, pair, ok, err)
    PROVE  IInv'
BY QuietStep DEF Verify

\* Reading the anchor and nothing else keeps the invariant.
LEMMA LookStep ==
    ASSUME IInv, NEW n \in Node, NEW p \in PC \ MintedPC, Get(n, p),
           p \in PendingPC => Pending(anchor), p \in CleanPC => ~Pending(anchor),
           UNCHANGED <<anchorVars, dbVars, rows, floor, historyVars, boundVars>>, StartPart'
    PROVE  IInv'
<1>1. LocalPart'
  BY GetStep DEF IInv, anchorVars
<1> QED
  BY <1>1 DEF IInv, AnchorPart, DatabasePart, HistoryPart, BoundPart,
              anchorVars, dbVars, historyVars, boundVars

\* The invariant holds initially.
LEMMA InitIInv == Init => IInv
<1> SUFFICES ASSUME Init PROVE IInv
  OBVIOUS
<1>1. PICK s \in Starts :
         /\ anchor = [epoch |-> 0, token |-> InitToken, pid |-> NoId, boot |-> (s = "greenfield")]
         /\ legacy = (s = "greenfield")
         /\ db = [pair |-> IF s = "greenfield" THEN NoPair
                                              ELSE [epoch |-> 0, token |-> InitToken],
                  migrated |-> (s = "established"),
                  applied |-> {}, status |-> [id \in Id |-> "none"]]
  BY DEF Init
<1>2. AnchorPart
  BY <1>1 DEF Init, AnchorPart, Record, Token
<1>3. db \in Database
  <2>1. db.pair \in Pair
    BY <1>1 DEF NoPair, Pair, Token
  <2>2. [id \in Id |-> "none"] \in [Id -> Status]
    BY DEF Status
  <2> QED
    BY <1>1, <2>1, <2>2 DEF Database
<1>4. NoRecord \in Record
  BY DEF NoRecord, Record, Token
<1>5. LocalPart
  BY <1>2, <1>4 DEF Init, LocalPart, Knows, AnchorPart, PC, PendingPC, CleanPC
<1> QED
  BY <1>2, <1>3, <1>5
     DEF Init, IInv, DatabasePart, StartPart, HistoryPart, BoundPart, Token

-----------------------------------------------------------------------------
(* One step per action                                                     *)

\* A node with a pending record may go wherever a pending or no particular
\* record is expected; everybody may return.
LEMMA MayMove ==
    ASSUME IInv, NEW n \in Node
    PROVE  /\ May(n, "s_get") /\ May(n, "idle")
           /\ pc[n] \in PendingPC \ MintedPC =>
                  \A p \in {"p_status", "p_commit", "p_reject", "p_final", "p_clear", "c_migrate",
                            "f_exists", "f_base", "f_create", "f_migrate", "f_tail", "z_get",
                            "z_verify", "z_migrated", "z_cas", "w_final", "w_rejected", "w_clear"} :
                      May(n, p)
BY DEF IInv, LocalPart, Knows, May, PC, Settling, SettleReads, SettleWrites, ServePC, WritePC, ReadPC, PendingPC, CleanPC, MintedPC

\* What the invariant says of the node that takes a step.
LEMMA NodeFacts ==
    ASSUME IInv, NEW n \in Node
    PROVE  /\ pc[n] \in PC /\ rec[n] \in Record /\ ver[n] \in Nat
           /\ pc[n] \in PendingPC => Pending(rec[n]) /\ rec[n].pid \in Id
           /\ pc[n] \in CleanPC => ~Pending(rec[n])
           /\ anchor \in Record
BY PendingId DEF IInv, LocalPart, Knows, AnchorPart

\* The record of a node with a current version leads to a legal successor.
LEMMA Succeeds ==
    ASSUME IInv, NEW n \in Node, ver[n] = rv
    PROVE  /\ pc[n] \in MintedPC => Successor(anchor, rec[n])
           /\ pc[n] \in PendingPC \ MintedPC =>
                  Successor(anchor, Finalize(rec[n])) /\ Successor(anchor, Clear(rec[n]))
<1>1. ASSUME pc[n] \in MintedPC PROVE Successor(anchor, rec[n])
  <2>1. Pending(rec[n]) /\ ~Pending(anchor) /\ Clear(rec[n]) = anchor /\ rec[n] \in Record
    BY <1>1 DEF IInv, LocalPart, Knows, MintedPC, PendingPC
  <2>2. rec[n].pid \in Id /\ Reserve(anchor, rec[n].pid) = rec[n]
    BY <2>1, PendingId
  <2> QED
    BY <2>1, <2>2 DEF Successor
<1>2. ASSUME pc[n] \in PendingPC \ MintedPC
      PROVE  Successor(anchor, Finalize(rec[n])) /\ Successor(anchor, Clear(rec[n]))
  BY <1>2 DEF IInv, LocalPart, Knows, Successor
<1> QED
  BY <1>1, <1>2

\* The compare-and-swaps of the fence: recovery, reservation, finalization.
LEMMA CasAction ==
    ASSUME IInv, NEW n \in Node, NEW next, NEW ok, NEW err,
           \/ /\ pc[n] \in MintedPC /\ next = rec[n] /\ ok \in {"f_verify", "w_exec"}
           \/ /\ pc[n] \in PendingPC \ MintedPC /\ next \in {Finalize(rec[n]), Clear(rec[n])}
              /\ ok = "idle",
           err \in {"s_get", "idle"}, Cas(n, next, ok, err),
           UNCHANGED <<dbVars, used, crashes, restores>>, StartPart', witnessed' \in SUBSET Id
    PROVE  IInv'
<1>1. ok \in PC /\ (ok # "idle" => ok \in PendingPC \ MintedPC)
  BY DEF PC, Settling, SettleReads, SettleWrites, ServePC, WritePC, ReadPC, PendingPC, CleanPC, MintedPC
<1>2. ok # "idle" => Pending(next)
  BY DEF IInv, LocalPart, Knows, MintedPC, PendingPC
<1>3. ver[n] = rv => Successor(anchor, next)
  BY Succeeds
<1>4. AnchorPart' /\ LocalPart' /\ hist' \in SUBSET Token /\ faults' \in Nat
  BY <1>1, <1>2, <1>3, CasStep DEF IInv, HistoryPart, BoundPart
<1> QED
  BY <1>4 DEF IInv, DatabasePart, HistoryPart, BoundPart, dbVars

\* Minting a reservation on a settled record.
LEMMA MintStep ==
    ASSUME IInv, NEW n \in Node, pc[n] \in {"b_exists", "b_verify"}, Mint(n),
           UNCHANGED <<anchorVars, dbVars, resv, hist, witnessed, boundVars>>
    PROVE  IInv'
<1>1. PICK id \in AttemptIds(n) :
         /\ att' = [att EXCEPT ![n] = id] /\ used' = used \cup {id}
         /\ rec' = [rec EXCEPT ![n] = Reserve(@, id)]
         /\ pc' = [pc EXCEPT ![n] = "b_cas"] /\ UNCHANGED <<ver, rows, floor>>
  BY DEF Mint
<1>2. id \in Id
  BY <1>1 DEF AttemptIds, IInv, StartPart
<1>3. rec[n] \in Record /\ ~Pending(rec[n])
  BY NodeFacts DEF CleanPC
<1>4. LocalPart'
  <2>1. /\ Reserve(rec[n], id) \in Record /\ Pending(Reserve(rec[n], id))
        /\ Clear(Reserve(rec[n], id)) = rec[n]
    BY <1>2, <1>3, ReserveClear
  <2>2. rec' = [rec EXCEPT ![n] = Reserve(rec[n], id)]
    BY <1>1
  <2>3. Knows(n)'
    BY <1>1, <1>3, <2>1, <2>2
       DEF IInv, LocalPart, Knows, anchorVars, MintedPC, CleanPC
  <2>4. \A k \in Node \ {n} : Knows(k)'
    BY <1>1 DEF IInv, LocalPart, Knows, anchorVars
  <2>5. "b_cas" \in PC
    BY DEF PC, Settling, SettleReads, SettleWrites, ServePC, WritePC, ReadPC, PendingPC, CleanPC, MintedPC
  <2> QED
    BY <1>1, <2>1, <2>2, <2>3, <2>4, <2>5 DEF IInv, LocalPart
<1> QED
  BY <1>1, <1>2, <1>4 DEF IInv, AnchorPart, DatabasePart, StartPart, HistoryPart, BoundPart,
                          anchorVars, dbVars, boundVars

\* The request a node executes is well-formed.
LEMMA RequestType ==
    ASSUME IInv, NEW n \in Node, pc[n] \in PendingPC
    PROVE  /\ [kind |-> "create", id |-> NoId, base |-> BasePair(rec[n])] \in ExecRequest
           /\ \A k \in {"tail", "write"} :
                  [kind |-> k, id |-> rec[n].pid, base |-> BasePair(rec[n])] \in ExecRequest
BY NodeFacts, PairTypes DEF ExecRequest

\* Executing it keeps the invariant.
LEMMA ExecuteAction ==
    ASSUME IInv, NEW n \in Node, NEW r \in ExecRequest, NEW ok, NEW rejected, NEW unknown,
           May(n, ok), May(n, rejected), May(n, unknown),
           Execute(n, r, ok, rejected, unknown),
           UNCHANGED <<anchorVars, snap, startVars, historyVars, crashes, restores>>
    PROVE  IInv'
<1>1. AnchorPart' /\ LocalPart' /\ DatabasePart' /\ faults' \in Nat
  BY ExecuteStep
<1> QED
  BY <1>1 DEF IInv, StartPart, HistoryPart, BoundPart, startVars, historyVars

\* Migrating marks the schema and moves the node.
LEMMA MigrateStep ==
    ASSUME IInv, NEW n \in Node, NEW p, May(n, p), Migrate(n, p)
    PROVE  IInv'
<1>1. LocalPart'
  BY GotoStep DEF IInv, Migrate, anchorVars
<1>2. db' \in Database
  <2>1. db \in Database /\ db' = [db EXCEPT !.migrated = TRUE]
    BY DEF IInv, DatabasePart, Migrate
  <2> QED
    BY <2>1 DEF Database
<1> QED
  BY <1>1, <1>2 DEF IInv, Migrate, AnchorPart, DatabasePart, StartPart, HistoryPart, BoundPart,
                    anchorVars, startVars, historyVars, boundVars

\* Every step of a settlement keeps the invariant.
LEMMA SettleStep ==
    ASSUME IInv, NEW n \in Node, Settle(n)
    PROVE  IInv'
<1>0. /\ May(n, "s_get") /\ May(n, "idle")
      /\ pc[n] \in PendingPC \ MintedPC =>
             \A p \in {"p_status", "p_commit", "p_reject", "p_final", "p_clear", "c_migrate",
                       "f_exists", "f_base", "f_create", "f_migrate", "f_tail", "z_get",
                       "z_verify", "z_migrated", "z_cas", "w_final", "w_rejected", "w_clear"} :
                 May(n, p)
  BY MayMove
<1>1. CASE Open(n)
  BY <1>0, <1>1, QuietStep DEF Open
<1>2. CASE SettleGet(n)
  <2>1. StartPart'
    BY <1>2 DEF SettleGet, IInv, StartPart
  <2>2. PICK p \in {"f_verify", "p_verify", "t_get", "s_behind"} :
           /\ Get(n, p)
           /\ p \in {"f_verify", "p_verify"} => Pending(anchor)
           /\ p \notin {"f_verify", "p_verify"} => ~Pending(anchor)
    BY <1>2 DEF SettleGet
  <2>3. p \in PC \ MintedPC /\ (p \in PendingPC => p \in {"f_verify", "p_verify"})
        /\ (p \in CleanPC => p \notin {"f_verify", "p_verify"})
    BY <2>2 DEF PC, Settling, SettleReads, SettleWrites, ServePC, WritePC, ReadPC, PendingPC, CleanPC, MintedPC
  <2> QED
    BY <1>2, <2>1, <2>2, <2>3, LookStep DEF SettleGet
<1>3. CASE SettlePeerFence(n)
  BY <1>0, <1>3, VerifyStep DEF SettlePeerFence, PendingPC, MintedPC
<1>4. CASE RecoverStatus(n)
  <2>1. PICK p \in {"p_commit", "p_reject", "s_get"} : Goto(n, p)
    BY <1>4 DEF RecoverStatus
  <2>2. May(n, p)
    BY <1>0, <1>4 DEF RecoverStatus, PendingPC, MintedPC
  <2> QED
    BY <1>4, <2>1, <2>2, QuietStep DEF RecoverStatus
<1>5. CASE RecoverVerify(n)
  <2>1. pc[n] \in PendingPC \ MintedPC
    BY <1>5 DEF RecoverVerify, PendingPC, MintedPC
  <2> QED
    BY <1>0, <1>5, <2>1, VerifyStep DEF RecoverVerify
<1>6. CASE RecoverCas(n)
  <2>1. PICK next \in {Finalize(rec[n]), Clear(rec[n])} : Cas(n, next, "idle", "s_get")
    BY <1>6 DEF RecoverCas
  <2>2. pc[n] \in PendingPC \ MintedPC
    BY <1>6 DEF RecoverCas, PendingPC, MintedPC
  <2>3. StartPart' /\ witnessed' \in SUBSET Id
    BY <1>6 DEF RecoverCas, IInv, StartPart, HistoryPart, startVars
  <2> QED
    BY <1>6, <2>1, <2>2, <2>3, CasAction DEF RecoverCas
<1>7. CASE SettleBehind(n)
  <2>1. PICK p \in {"t_get", "b_exists", "u_migrate"} : Goto(n, p)
    BY <1>7 DEF SettleBehind
  <2>2. May(n, p)
    BY <1>7, NodeFacts DEF SettleBehind, May, PC, Settling, SettleReads, SettleWrites, ServePC, WritePC, ReadPC, PendingPC, CleanPC, MintedPC
  <2> QED
    BY <1>7, <2>1, <2>2, QuietStep DEF SettleBehind
<1>8. CASE BeginFenceExists(n)
  <2>1. CASE Mint(n)
    BY <1>8, <2>1, MintStep DEF BeginFenceExists
  <2>2. CASE Goto(n, "b_verify") /\ UNCHANGED <<att, used>>
    <3>1. May(n, "b_verify")
      BY <1>8, NodeFacts DEF BeginFenceExists, May, PC, Settling, SettleReads, SettleWrites, ServePC, WritePC, ReadPC, PendingPC, CleanPC, MintedPC
    <3>2. UNCHANGED <<anchorVars, dbVars, startVars, historyVars, boundVars>>
      BY <1>8, <2>2 DEF BeginFenceExists, startVars, historyVars
    <3> QED
      BY <2>2, <3>1, <3>2, QuietStep
  <2> QED
    BY <1>8, <2>1, <2>2 DEF BeginFenceExists
<1>9. CASE BeginFenceVerify(n)
  <2>1. CASE Mint(n)
    BY <1>9, <2>1, MintStep DEF BeginFenceVerify
  <2>2. CASE Goto(n, "s_get") /\ UNCHANGED <<att, used>>
    <3>1. UNCHANGED <<anchorVars, dbVars, startVars, historyVars, boundVars>>
      BY <1>9, <2>2 DEF BeginFenceVerify, startVars, historyVars
    <3> QED
      BY <1>0, <2>2, <3>1, QuietStep
  <2> QED
    BY <1>9, <2>1, <2>2 DEF BeginFenceVerify
<1>10. CASE BeginFenceCas(n)
  <2>1. StartPart' /\ witnessed' \in SUBSET Id
    BY <1>10 DEF BeginFenceCas, IInv, StartPart, HistoryPart
  <2> QED
    BY <1>10, <2>1, CasAction DEF BeginFenceCas, MintedPC
<1>11. CASE FinishFenceVerify(n)
  BY <1>0, <1>11, VerifyStep DEF FinishFenceVerify, PendingPC, MintedPC
<1>12. CASE PrepareExists(n)
  <2>1. PICK p \in {"f_base", "f_create", "s_get"} : Goto(n, p)
    BY <1>12 DEF PrepareExists
  <2>2. May(n, p)
    BY <1>0, <1>12 DEF PrepareExists, PendingPC, MintedPC
  <2> QED
    BY <1>12, <2>1, <2>2, QuietStep DEF PrepareExists
<1>13. CASE PrepareCreate(n)
  <2>1. pc[n] \in PendingPC \ MintedPC
    BY <1>13 DEF PrepareCreate, PendingPC, MintedPC
  <2> QED
    BY <1>0, <1>13, <2>1, RequestType, ExecuteAction DEF PrepareCreate
<1>14. CASE PrepareVerify(n)
  BY <1>0, <1>14, VerifyStep DEF PrepareVerify, PendingPC, MintedPC
<1>15. CASE FinishFenceMigrate(n)
  BY <1>0, <1>15, MigrateStep DEF FinishFenceMigrate, PendingPC, MintedPC
<1>16. CASE CompleteFenceTail(n)
  <2>1. pc[n] \in PendingPC \ MintedPC
    BY <1>16 DEF CompleteFenceTail, PendingPC, MintedPC
  <2> QED
    BY <1>0, <1>16, <2>1, RequestType, ExecuteAction DEF CompleteFenceTail
<1>17. CASE CatchUpMigration(n)
  <2>1. CASE pc[n] = "c_migrate" /\ Migrate(n, "z_get")
    BY <1>0, <2>1, MigrateStep DEF PendingPC, MintedPC
  <2>2. CASE pc[n] = "u_migrate" /\ Migrate(n, "t_get")
    <3>1. May(n, "t_get")
      BY <2>2 DEF May, PC, Settling, SettleReads, SettleWrites, ServePC, WritePC, ReadPC, PendingPC, CleanPC, MintedPC
    <3> QED
      BY <2>2, <3>1, MigrateStep
  <2> QED
    BY <1>17, <2>1, <2>2 DEF CatchUpMigration
<1>18. CASE FinalizeFenceGet(n)
  <2>1. CASE Goto(n, "s_get")
    BY <1>0, <1>18, <2>1, QuietStep DEF FinalizeFenceGet
  <2>2. CASE anchor.pid = rec[n].pid /\ Get(n, "z_verify") /\ UNCHANGED <<rows, floor>>
    <3>1. Pending(anchor)
      BY <1>18, <2>2, NodeFacts DEF FinalizeFenceGet, PendingPC, Pending
    <3>2. "z_verify" \in PC \ MintedPC /\ "z_verify" \notin CleanPC
      BY DEF PC, Settling, SettleReads, SettleWrites, ServePC, WritePC, ReadPC, PendingPC, CleanPC, MintedPC
    <3>3. StartPart'
      BY <1>18 DEF FinalizeFenceGet, IInv, StartPart, startVars
    <3> QED
      BY <1>18, <2>2, <3>1, <3>2, <3>3, LookStep DEF FinalizeFenceGet
  <2> QED
    BY <1>18, <2>1, <2>2 DEF FinalizeFenceGet
<1>19. CASE FinalizeFenceVerify(n)
  BY <1>0, <1>19, VerifyStep DEF FinalizeFenceVerify, PendingPC, MintedPC
<1>20. CASE FinalizeFenceMigrated(n)
  <2>1. PICK p \in {"z_cas", "s_get"} : Goto(n, p)
    BY <1>20 DEF FinalizeFenceMigrated
  <2>2. May(n, p)
    BY <1>0, <1>20 DEF FinalizeFenceMigrated, PendingPC, MintedPC
  <2> QED
    BY <1>20, <2>1, <2>2, QuietStep DEF FinalizeFenceMigrated
<1>21. CASE FinalizeFenceCas(n)
  <2>1. StartPart' /\ witnessed' \in SUBSET Id
    BY <1>21 DEF FinalizeFenceCas, IInv, StartPart, HistoryPart, startVars
  <2> QED
    BY <1>21, <2>1, CasAction DEF FinalizeFenceCas, PendingPC, MintedPC
<1>22. CASE FinishStartupGet(n)
  <2>1. CASE Goto(n, "s_get")
    BY <1>0, <1>22, <2>1, QuietStep DEF FinishStartupGet
  <2>2. CASE Get(n, "t_verify") /\ UNCHANGED <<rows, floor>>
    <3>1. "t_verify" \in PC \ MintedPC /\ "t_verify" \notin CleanPC \cup PendingPC
      BY DEF PC, Settling, SettleReads, SettleWrites, ServePC, WritePC, ReadPC, PendingPC, CleanPC, MintedPC
    <3>2. StartPart'
      BY <1>22 DEF FinishStartupGet, IInv, StartPart, startVars
    <3> QED
      BY <1>22, <2>2, <3>1, <3>2, LookStep DEF FinishStartupGet
  <2> QED
    BY <1>22, <2>1, <2>2 DEF FinishStartupGet
<1>23. CASE FinishStartupVerify(n)
  BY <1>0, <1>23, VerifyStep DEF FinishStartupVerify
<1> QED
  BY <1>1, <1>2, <1>3, <1>4, <1>5, <1>6, <1>7, <1>8, <1>9, <1>10, <1>11, <1>12, <1>13,
     <1>14, <1>15, <1>16, <1>17, <1>18, <1>19, <1>20, <1>21, <1>22, <1>23 DEF Settle

\* Every step of a fenced write keeps the invariant.
LEMMA WriteStep ==
    ASSUME IInv, NEW n \in Node, Write(n)
    PROVE  IInv'
<1>0. /\ May(n, "idle")
      /\ pc[n] \in PendingPC \ MintedPC =>
             May(n, "w_final") /\ May(n, "w_rejected") /\ May(n, "w_clear")
  BY MayMove
<1>1. CASE WriteGet(n)
  <2>1. "w_verify" \in PC \ MintedPC /\ "w_verify" \notin PendingPC
    BY DEF PC, Settling, SettleReads, SettleWrites, ServePC, WritePC, ReadPC, PendingPC, CleanPC, MintedPC
  <2>2. StartPart'
    BY <1>1 DEF WriteGet, IInv, StartPart, startVars
  <2> QED
    BY <1>1, <2>1, <2>2, LookStep DEF WriteGet
<1>2. CASE WriteVerify(n)
  <2>1. ASSUME NEW id \in Id, used' = used \cup {id},
               rec' = [rec EXCEPT ![n] = Reserve(@, id)],
               pc' = [pc EXCEPT ![n] = "w_cas"], UNCHANGED <<ver, rows, floor>>
        PROVE  IInv'
    <3>1. rec[n] \in Record /\ ~Pending(rec[n])
      BY <1>2, NodeFacts DEF WriteVerify, CleanPC
    <3>2. /\ Reserve(rec[n], id) \in Record /\ Pending(Reserve(rec[n], id))
          /\ Clear(Reserve(rec[n], id)) = rec[n]
      BY <3>1, ReserveClear
    <3>3. rec' = [rec EXCEPT ![n] = Reserve(rec[n], id)] /\ UNCHANGED <<anchor, rv>>
      BY <1>2, <2>1 DEF WriteVerify, anchorVars
    <3>4. pc[n] = "w_verify"
      BY <1>2 DEF WriteVerify
    <3>5. Knows(n)'
      BY <2>1, <3>1, <3>2, <3>3, <3>4 DEF IInv, LocalPart, Knows, MintedPC, CleanPC
    <3>6. \A k \in Node \ {n} : Knows(k)'
      BY <2>1, <3>3 DEF IInv, LocalPart, Knows
    <3>7. "w_cas" \in PC
      BY DEF PC, Settling, SettleReads, SettleWrites, ServePC, WritePC, ReadPC, PendingPC, CleanPC, MintedPC
    <3>8. LocalPart'
      BY <2>1, <3>2, <3>3, <3>5, <3>6, <3>7 DEF IInv, LocalPart
    <3> QED
      BY <1>2, <2>1, <3>8
         DEF WriteVerify, IInv, AnchorPart, DatabasePart, StartPart, HistoryPart, BoundPart,
             anchorVars, dbVars, startVars, boundVars
  <2>2. CASE Goto(n, "idle") /\ UNCHANGED used
    <3>1. UNCHANGED <<anchorVars, dbVars, startVars, historyVars, boundVars>>
      BY <1>2, <2>2 DEF WriteVerify, historyVars
    <3> QED
      BY <1>0, <2>2, <3>1, QuietStep
  <2> QED
    BY <1>2, <2>1, <2>2 DEF WriteVerify
<1>3. CASE WriteReserve(n)
  <2>1. StartPart' /\ witnessed' \in SUBSET Id
    BY <1>3 DEF WriteReserve, IInv, StartPart, HistoryPart, startVars
  <2> QED
    BY <1>3, <2>1, CasAction DEF WriteReserve, MintedPC
<1>4. CASE WriteExecute(n)
  <2>1. pc[n] \in PendingPC \ MintedPC
    BY <1>4 DEF WriteExecute, PendingPC, MintedPC
  <2> QED
    BY <1>0, <1>4, <2>1, RequestType, ExecuteAction DEF WriteExecute
<1>5. CASE WriteFinalize(n)
  <2>1. pc[n] \in PendingPC \ MintedPC
    BY <1>5 DEF WriteFinalize, PendingPC, MintedPC
  <2>2. StartPart' /\ witnessed' \in SUBSET Id
    BY <1>5, <2>1, NodeFacts DEF WriteFinalize, IInv, StartPart, HistoryPart, startVars
  <2> QED
    BY <1>5, <2>1, <2>2, CasAction DEF WriteFinalize
<1>6. CASE WriteRejected(n)
  BY <1>0, <1>6, VerifyStep DEF WriteRejected, PendingPC, MintedPC
<1>7. CASE WriteClear(n)
  <2>1. StartPart' /\ witnessed' \in SUBSET Id
    BY <1>7 DEF WriteClear, IInv, StartPart, HistoryPart, startVars
  <2> QED
    BY <1>7, <2>1, CasAction DEF WriteClear, PendingPC, MintedPC
<1> QED
  BY <1>1, <1>2, <1>3, <1>4, <1>5, <1>6, <1>7 DEF Write

\* Every step of a fenced read keeps the invariant.
LEMMA ReadStep ==
    ASSUME IInv, NEW n \in Node, Read(n)
    PROVE  IInv'
<1>0. May(n, "idle") /\ db.applied \in SUBSET Id
  BY MayMove DEF IInv, DatabasePart, Database
<1>1. CASE ReadGet(n)
  <2>1. "r_query" \in PC \ MintedPC /\ "r_query" \notin PendingPC \cup CleanPC
    BY DEF PC, Settling, SettleReads, SettleWrites, ServePC, WritePC, ReadPC, PendingPC, CleanPC, MintedPC
  <2>2. StartPart'
    BY <1>1 DEF ReadGet, IInv, StartPart, startVars
  <2> QED
    BY <1>1, <2>1, <2>2, LookStep DEF ReadGet
<1>2. CASE ReadQuery(n)
  <2>1. \A k \in Node : Knows(k)'
    BY <1>2 DEF ReadQuery, IInv, LocalPart, Knows, anchorVars, PendingPC, CleanPC, MintedPC
  <2>2. "r_verify" \in PC
    BY DEF PC, Settling, SettleReads, SettleWrites, ServePC, WritePC, ReadPC, PendingPC, CleanPC, MintedPC
  <2>3. LocalPart'
    BY <1>0, <1>2, <2>1, <2>2 DEF ReadQuery, IInv, LocalPart
  <2> QED
    BY <1>2, <2>3 DEF ReadQuery, IInv, AnchorPart, DatabasePart, StartPart, HistoryPart,
                      BoundPart, anchorVars, dbVars, startVars, historyVars, boundVars
<1>3. CASE ReadVerify(n)
  <2>1. May(n, "r_get")
    BY <1>3 DEF ReadVerify, May, PC, Settling, SettleReads, SettleWrites, ServePC, WritePC, ReadPC, PendingPC, CleanPC, MintedPC
  <2> QED
    BY <1>0, <1>3, <2>1, VerifyStep DEF ReadVerify
<1>4. CASE ReadGetAgain(n)
  <2>1. ASSUME pc' = [pc EXCEPT ![n] = "r_done"], floor' = [floor EXCEPT ![n] = witnessed],
               witnessed' = witnessed \cup rows[n], UNCHANGED <<rec, ver, rows>>
        PROVE  IInv'
    <3>1. \A k \in Node : Knows(k)'
      BY <1>4, <2>1
         DEF ReadGetAgain, IInv, LocalPart, Knows, anchorVars, PendingPC, CleanPC, MintedPC
    <3>2. "r_done" \in PC
      BY DEF PC, Settling, SettleReads, SettleWrites, ServePC, WritePC, ReadPC, PendingPC, CleanPC, MintedPC
    <3>3. LocalPart'
      BY <2>1, <3>1, <3>2 DEF IInv, LocalPart, HistoryPart
    <3>4. HistoryPart'
      BY <1>4, <2>1 DEF ReadGetAgain, IInv, LocalPart, HistoryPart
    <3> QED
      BY <1>4, <3>3, <3>4 DEF ReadGetAgain, IInv, AnchorPart, DatabasePart, StartPart,
                              BoundPart, anchorVars, dbVars, startVars, boundVars
  <2>2. CASE Goto(n, "idle") /\ UNCHANGED witnessed
    <3>1. UNCHANGED <<anchorVars, dbVars, startVars, historyVars, boundVars>>
      BY <1>4, <2>2 DEF ReadGetAgain, historyVars
    <3> QED
      BY <1>0, <2>2, <3>1, QuietStep
  <2> QED
    BY <1>4, <2>1, <2>2 DEF ReadGetAgain
<1>5. CASE ReadReturn(n)
  BY <1>0, <1>5, QuietStep DEF ReadReturn
<1> QED
  BY <1>1, <1>2, <1>3, <1>4, <1>5 DEF Read

\* Failing calls, crashes and the environment keep the invariant.
LEMMA FaultStep ==
    ASSUME IInv, \/ \E n \in Node : CallFails(n) \/ Crash(n)
                 \/ Environment
    PROVE  IInv'
<1>1. ASSUME NEW n \in Node, CallFails(n) PROVE IInv'
  <2>1. May(n, AfterFailure(pc[n]))
    <3>1. CASE pc[n] \in {"p_verify", "f_verify"}
      <4>1. AfterFailure(pc[n]) \in {"p_status", "f_exists"} /\ Pending(rec[n])
        BY <3>1 DEF IInv, LocalPart, Knows, PendingPC, AfterFailure
      <4> QED
        BY <3>1, <4>1 DEF May, PC, Settling, SettleReads, MintedPC, CleanPC
    <3>2. CASE pc[n] \notin {"p_verify", "f_verify"}
      <4>1. AfterFailure(pc[n]) \in {"s_get", "idle"}
        BY <3>2 DEF AfterFailure
      <4> QED
        BY <4>1 DEF May, PC, ServePC, Settling, SettleReads
    <3> QED
      BY <3>1, <3>2
  <2>2. LocalPart'
    BY <1>1, <2>1, GotoStep DEF CallFails, IInv, anchorVars
  <2> QED
    BY <1>1, <2>2 DEF CallFails, IInv, AnchorPart, DatabasePart, StartPart, HistoryPart,
                      BoundPart, anchorVars, dbVars, startVars, historyVars
<1>2. ASSUME NEW n \in Node, Crash(n) PROVE IInv'
  <2>1. NoRecord \in Record
    BY DEF NoRecord, Record, Token
  <2>2. /\ pc' = [pc EXCEPT ![n] = "down"] /\ rec' = [rec EXCEPT ![n] = NoRecord]
        /\ ver' = [ver EXCEPT ![n] = 0]
        /\ rows' = [rows EXCEPT ![n] = {}] /\ floor' = [floor EXCEPT ![n] = {}]
        /\ UNCHANGED <<anchor, rv>>
    BY <1>2 DEF Crash, anchorVars
  <2>3. \A k \in Node : Knows(k)'
    BY <2>1, <2>2 DEF IInv, LocalPart, AnchorPart, Knows, PendingPC, CleanPC, MintedPC
  <2>4. LocalPart'
    BY <2>1, <2>2, <2>3 DEF IInv, LocalPart, PC
  <2> QED
    BY <1>2, <2>4 DEF Crash, IInv, AnchorPart, DatabasePart, StartPart, HistoryPart,
                      BoundPart, anchorVars, dbVars, historyVars
<1>3. CASE LatePut
  <2>1. PICK m \in put :
           /\ put' = put \ {m}
           /\ IF m.rv = rv THEN Store(m.next) ELSE UNCHANGED <<anchor, legacy, rv, hist>>
           /\ UNCHANGED <<dbVars, pc, localVars, startVars, used, witnessed, boundVars>>
    BY <1>3 DEF LatePut
  <2>2. AnchorPart' /\ hist' \in SUBSET Token /\ LocalPart'
    <3>1. CASE m.rv = rv
      <4>1. Successor(anchor, m.next) /\ Store(m.next)
        BY <2>1, <3>1 DEF IInv, AnchorPart
      <4>2. AnchorPart' /\ hist' \in SUBSET Token
        BY <2>1, <4>1, StoreStep DEF IInv, HistoryPart
      <4>3. rv' = rv + 1
        BY <4>1 DEF Store
      <4>4. \A k \in Node : Knows(k)'
        BY <2>1, <4>3 DEF IInv, LocalPart, AnchorPart, Knows, localVars
      <4> QED
        BY <2>1, <4>2, <4>4 DEF IInv, LocalPart, localVars
    <3>2. CASE m.rv # rv
      <4>1. UNCHANGED <<anchor, legacy, rv, hist, pc, localVars>> /\ put' \subseteq put
        BY <2>1, <3>2
      <4> QED
        BY <4>1 DEF IInv, AnchorPart, LocalPart, HistoryPart, Knows, localVars
    <3> QED
      BY <3>1, <3>2
  <2> QED
    BY <2>1, <2>2 DEF IInv, DatabasePart, StartPart, HistoryPart, BoundPart,
                      dbVars, startVars, boundVars
<1>4. CASE LateExecute
  <2>1. PICK r \in exec : exec' = exec \ {r} /\ db' \in Executed(db, r)
    BY <1>4 DEF LateExecute
  <2>2. DatabasePart'
    BY <1>4, <2>1, ExecutedType DEF LateExecute, IInv, DatabasePart
  <2> QED
    BY <1>4, <2>2 DEF LateExecute, IInv, AnchorPart, LocalPart, Knows, StartPart, HistoryPart,
                      BoundPart, anchorVars, localVars, startVars, historyVars, boundVars
<1>5. CASE Backup \/ Restore
  BY <1>5 DEF Backup, Restore, IInv, AnchorPart, LocalPart, Knows, DatabasePart, StartPart,
              HistoryPart, BoundPart, anchorVars, localVars, startVars, historyVars, boundVars
<1> QED
  BY <1>1, <1>2, <1>3, <1>4, <1>5 DEF Environment

\* The invariant is inductive.
LEMMA NextIInv == IInv /\ [Next]_vars => IInv'
<1> SUFFICES ASSUME IInv, [Next]_vars PROVE IInv'
  OBVIOUS
<1>1. CASE UNCHANGED vars
  BY <1>1 DEF vars, IInv, AnchorPart, LocalPart, Knows, DatabasePart, StartPart, HistoryPart,
              BoundPart, anchorVars, dbVars, localVars, startVars, historyVars, boundVars
<1>2. CASE Next
  BY <1>2, SettleStep, WriteStep, ReadStep, FaultStep DEF Next
<1> QED
  BY <1>1, <1>2

\* The invariant holds in every reachable state.
LEMMA AlwaysIInv == Spec => []IInv
BY InitIInv, NextIInv, PTL DEF Spec

-----------------------------------------------------------------------------
(* Theorems                                                                *)

\* The state of anchor, database, nodes and calls in flight keeps its type: in
\* particular no finalization ever copies an empty PendingID into the token.
THEOREM TypeCorrect == Spec => []TypeOK
<1>1. IInv => TypeOK
  BY DEF IInv, AnchorPart, LocalPart, DatabasePart, StartPart, HistoryPart, BoundPart, TypeOK
<1> QED
  BY <1>1, AlwaysIInv, PTL

\* A swap of a legal successor moves the anchor legally, whatever its outcome.
LEMMA CasMoves ==
    ASSUME NEW n \in Node, NEW next, NEW ok, NEW err,
           ver[n] = rv => Successor(anchor, next), Cas(n, next, ok, err)
    PROVE  Successor(anchor, anchor')
BY DEF Cas, Store, Successor

\* No step, of whichever node or of a PUT in flight, replaces the anchor by
\* anything but a legal successor.
LEMMA AnchorMoves == IInv /\ [Next]_vars => Successor(anchor, anchor')
<1> SUFFICES ASSUME IInv, [Next]_vars PROVE Successor(anchor, anchor')
  OBVIOUS
<1>0. anchor' = anchor => Successor(anchor, anchor')
  BY DEF Successor
<1>1. ASSUME NEW n \in Node, NEW ok, NEW err,
             \/ pc[n] \in MintedPC /\ Cas(n, rec[n], ok, err)
             \/ pc[n] \in PendingPC \ MintedPC /\ Cas(n, Finalize(rec[n]), ok, err)
             \/ pc[n] \in PendingPC \ MintedPC /\ Cas(n, Clear(rec[n]), ok, err)
      PROVE  Successor(anchor, anchor')
  BY <1>1, Succeeds, CasMoves
<1>2. ASSUME NEW n \in Node, Settle(n) PROVE Successor(anchor, anchor')
  <2>1. CASE RecoverCas(n)
    BY <1>1, <2>1 DEF RecoverCas, PendingPC, MintedPC
  <2>2. CASE BeginFenceCas(n)
    BY <1>1, <2>2 DEF BeginFenceCas, MintedPC
  <2>3. CASE FinalizeFenceCas(n)
    BY <1>1, <2>3 DEF FinalizeFenceCas, PendingPC, MintedPC
  <2>4. CASE ~(RecoverCas(n) \/ BeginFenceCas(n) \/ FinalizeFenceCas(n))
    BY <1>0, <1>2, <2>4
       DEF Settle, Open, SettleGet, SettlePeerFence, RecoverStatus, RecoverVerify, SettleBehind,
           BeginFenceExists, BeginFenceVerify, FinishFenceVerify, PrepareExists, PrepareCreate,
           PrepareVerify, FinishFenceMigrate, CompleteFenceTail, CatchUpMigration, Migrate,
           FinalizeFenceGet, FinalizeFenceVerify, FinalizeFenceMigrated, FinishStartupGet,
           FinishStartupVerify, Verify, anchorVars
  <2> QED
    BY <2>1, <2>2, <2>3, <2>4
<1>3. ASSUME NEW n \in Node, Write(n) PROVE Successor(anchor, anchor')
  <2>1. CASE WriteReserve(n)
    BY <1>1, <2>1 DEF WriteReserve, MintedPC
  <2>2. CASE WriteFinalize(n)
    BY <1>1, <2>2 DEF WriteFinalize, PendingPC, MintedPC
  <2>3. CASE WriteClear(n)
    BY <1>1, <2>3 DEF WriteClear, PendingPC, MintedPC
  <2>4. CASE ~(WriteReserve(n) \/ WriteFinalize(n) \/ WriteClear(n))
    BY <1>0, <1>3, <2>4
       DEF Write, WriteGet, WriteVerify, WriteExecute, WriteRejected, Verify, anchorVars
  <2> QED
    BY <2>1, <2>2, <2>3, <2>4
<1>4. CASE LatePut
  <2>1. PICK m \in put : IF m.rv = rv THEN Store(m.next) ELSE UNCHANGED <<anchor, legacy, rv, hist>>
    BY <1>4 DEF LatePut
  <2>2. m.rv = rv => Successor(anchor, m.next)
    BY DEF IInv, AnchorPart
  <2> QED
    BY <1>0, <2>1, <2>2 DEF Store
<1>5. ASSUME NEW n \in Node, Read(n) \/ CallFails(n) \/ Crash(n)
      PROVE  Successor(anchor, anchor')
  BY <1>0, <1>5 DEF Read, ReadGet, ReadQuery, ReadVerify, ReadGetAgain, ReadReturn, CallFails,
                    Crash, Verify, anchorVars
<1>6. CASE LateExecute \/ Backup \/ Restore \/ UNCHANGED vars
  BY <1>0, <1>6 DEF LateExecute, Backup, Restore, vars, anchorVars
<1> QED
  BY <1>2, <1>3, <1>4, <1>5, <1>6 DEF Next, Environment

\* The anchor only moves forward: one epoch at a time, only along its own
\* reservation, never to another pair of the same epoch, and never back to
\* Bootstrap, for any number of nodes, crashes, lost answers, late PUTs and
\* database restores.
THEOREM AnchorOnlyAdvances == Spec => AnchorAdvances
<1>1. ASSUME NEW a \in Record, NEW b, Successor(a, b)
      PROVE  /\ b.epoch \in {a.epoch, a.epoch + 1}
             /\ b.epoch = a.epoch => b.token = a.token
             /\ b.epoch # a.epoch => Pending(a) /\ b.token = a.pid /\ ~Pending(b)
             /\ Pending(a) /\ Pending(b) => b.pid = a.pid
             /\ b.boot => a.boot
  <2>1. CASE b = a
    BY <2>1
  <2>2. ASSUME ~Pending(a), NEW id \in Id, b = Reserve(a, id)
        PROVE  b.epoch = a.epoch /\ b.token = a.token /\ b.boot = a.boot
    BY <2>2 DEF Reserve, Record
  <2>3. ASSUME b = Finalize(a)
        PROVE  b.epoch = a.epoch + 1 /\ b.token = a.pid /\ b.pid = NoId /\ ~b.boot
    <3>1. b = [epoch |-> a.epoch + 1, token |-> a.pid, pid |-> NoId, boot |-> FALSE]
      BY <2>3 DEF Finalize, Record
    <3> QED
      BY <3>1
  <2>4. ASSUME b = Clear(a)
        PROVE  b.epoch = a.epoch /\ b.token = a.token /\ b.pid = NoId /\ b.boot = a.boot
    BY <2>4 DEF Clear, Record
  <2>5. a.epoch \in Nat
    BY DEF Record
  <2> QED
    BY <1>1, <2>1, <2>2, <2>3, <2>4, <2>5 DEF Successor, Pending
<1>2. IInv => anchor \in Record
  BY DEF IInv, AnchorPart
<1>3. IInv /\ [Next]_vars =>
        [ /\ anchor'.epoch \in {anchor.epoch, anchor.epoch + 1}
          /\ anchor'.epoch = anchor.epoch => anchor'.token = anchor.token
          /\ anchor'.epoch # anchor.epoch =>
                 Pending(anchor) /\ anchor'.token = anchor.pid /\ ~Pending(anchor')
          /\ Pending(anchor) /\ Pending(anchor') => anchor'.pid = anchor.pid
          /\ anchor'.boot => anchor.boot ]_anchor
  BY <1>1, <1>2, AnchorMoves
<1> QED
  BY <1>3, AlwaysIInv, PTL DEF Spec, AnchorAdvances

-----------------------------------------------------------------------------
(* Kinds of steps                                                          *)

\* Where a node works on its own bootstrap fence; where it carries a write's id
\* that it has not executed; where it is about to finalize, and where it is
\* about to clear, the reservation in its record.
FencePC == {"f_verify", "f_exists", "f_create", "f_base", "f_migrate", "f_tail"}
OwnPC   == {"w_cas", "w_exec"}
ClosePC == {"p_final", "z_migrated", "z_cas", "w_final"}
DropPC  == {"w_rejected", "w_clear", "p_reject", "p_clear"}

Current(n) == ver[n] = rv

\* A node that a step leaves alone; all but n; a node whose attempt, operation
\* or process ends.
Keeps(k) ==
    /\ pc'[k] = pc[k] /\ rec'[k] = rec[k] /\ ver'[k] = ver[k]
    /\ att'[k] = att[k] /\ resv'[k] = resv[k] /\ rows'[k] = rows[k] /\ floor'[k] = floor[k]
Only(n) == \A k \in Node \ {n} : Keeps(k)
Back(n) ==
    /\ pc'[n] \in {"s_get", "idle", "down"} /\ rec'[n] = NoRecord /\ ver'[n] = 0
    /\ att'[n] \in {att[n], NoId} /\ (resv'[n] => resv[n] /\ att'[n] = att[n])
    /\ pc'[n] = "idle" => \/ pc[n] \in ServePC
                          \/ pc[n] = "t_verify" /\ db.pair = BasePair(rec[n])
                          \/ Current(n) /\ pc[n] \in {"p_final", "p_clear", "z_cas"}

\* The node has the same local variables at p.
Holds(n, p) ==
    /\ pc'[n] = p /\ rec'[n] = rec[n] /\ ver'[n] = ver[n] /\ att'[n] = att[n]
    /\ resv'[n] = resv[n] /\ rows'[n] = rows[n] /\ floor'[n] = floor[n]

Fixed == UNCHANGED <<anchor, rv, put, db, snap, exec, used, hist, witnessed, restores>>

\* Nothing happens but that nodes go back or a stale PUT vanishes.
Rests ==
    /\ UNCHANGED <<anchor, rv, db, snap, exec, used, hist, witnessed, restores>>
    /\ put' \subseteq put /\ \A k \in Node : Keeps(k) \/ Back(k)

\* A query of the database or a decision lets the node go on.
Leads(n, p) ==
    \/ p \in {"c_migrate", "p_status", "p_commit", "u_migrate"}
    \/ p = "t_get" /\ db.migrated
    \/ p = "p_reject" /\ db.status[rec[n].pid] = "rejected"
    \/ p \in {"p_final", "z_migrated"} /\ db.pair = PendingPair(rec[n])
    \/ p = "z_cas" /\ pc[n] = "z_migrated"
    \/ p = "p_clear" /\ pc[n] = "p_reject" /\ db.pair = BasePair(rec[n])
    \/ p = "w_clear" /\ pc[n] = "w_rejected" /\ db.pair = BasePair(rec[n])
    \/ p = "b_exists" /\ rec[n].boot
    \/ p = "b_verify" /\ pc[n] = "b_exists"
    \/ p \in {"f_exists", "f_base", "f_create"} /\ pc[n] \in FencePC
    \/ p = "f_migrate" /\ pc[n] \in FencePC /\ db.pair = BasePair(rec[n])
    \/ p = "r_get" /\ pc[n] = "r_verify" /\ db.pair = BasePair(rec[n])
Moves(n, p) == Fixed /\ Only(n) /\ Holds(n, p) /\ Leads(n, p)

\* It reads the anchor.
Looks(n, p) ==
    /\ Fixed /\ Only(n)
    /\ pc'[n] = p /\ rec'[n] = anchor /\ ver'[n] = rv /\ att'[n] = att[n]
    /\ resv'[n] => resv[n] \/ p = "f_verify"
    /\ \/ p \in {"p_verify", "z_verify"} /\ Pending(anchor)
       \/ p = "f_verify" /\ Pending(anchor) /\ anchor.pid = att[n]
       \/ p = "s_behind" /\ ~Pending(anchor)
       \/ p = "t_get" /\ resv[n] /\ ~Pending(anchor)
       \/ p = "t_verify" /\ pc[n] = "t_get" /\ ~Pending(anchor)
       \/ p \in {"w_verify", "r_query"} /\ pc[n] = "idle" /\ ~Pending(anchor)

\* It prepares a reservation.
Mints(n, id) ==
    /\ UNCHANGED <<anchor, rv, put, db, snap, exec, hist, witnessed, restores>>
    /\ Only(n) /\ id \in Id /\ used' = used \cup {id}
    /\ rec'[n] = Reserve(rec[n], id) /\ ver'[n] = ver[n] /\ resv'[n] = resv[n]
    /\ \/ /\ pc[n] \in {"b_exists", "b_verify"} /\ pc'[n] = "b_cas"
          /\ att'[n] = id /\ (id = att[n] \/ (att[n] = NoId /\ id \notin used))
       \/ /\ pc[n] = "w_verify" /\ pc'[n] = "w_cas"
          /\ att'[n] = att[n] /\ id \notin used

\* It rewrites the anchor in the composite shape.
Rewrites(n) ==
    /\ UNCHANGED <<anchor, put, db, snap, exec, used, hist, witnessed, restores>>
    /\ Only(n) /\ Current(n)
    /\ rv' = rv + 1 /\ ver'[n] = rv + 1
    /\ pc'[n] = pc[n] /\ rec'[n] = rec[n] /\ att'[n] = att[n] /\ resv'[n] = resv[n]
    /\ rows'[n] = rows[n] /\ floor'[n] = floor[n]

\* It puts its reservation.
Reserves(n) ==
    /\ UNCHANGED <<put, db, snap, exec, used, hist, witnessed, restores>>
    /\ Only(n) /\ Current(n) /\ ~Pending(anchor)
    /\ anchor' = rec[n] /\ rv' = rv + 1
    /\ rec'[n] = rec[n] /\ ver'[n] = rv + 1 /\ att'[n] = att[n]
    /\ \/ pc[n] = "b_cas" /\ pc'[n] = "f_verify"
       \/ pc[n] = "w_cas" /\ pc'[n] = "w_exec" /\ resv'[n] = resv[n]

\* The anchor becomes next, by a node that closes or drops the reservation or by a late PUT.
Closes(n, next) ==
    /\ Current(n) /\ Pending(anchor)
    /\ \/ pc[n] \in {"p_final", "z_cas", "w_final"} /\ next = Finalize(anchor)
       \/ pc[n] \in {"p_clear", "w_clear"} /\ next = Clear(anchor)
Stores(next) ==
    /\ UNCHANGED <<db, snap, exec, used, restores>>
    /\ \A k \in Node : Keeps(k) \/ Back(k)
    /\ put' \subseteq put /\ anchor' = next /\ rv' = rv + 1
    /\ hist' = IF next.epoch > anchor.epoch THEN hist \cup {next.token} ELSE hist
    /\ \/ witnessed' = witnessed /\ \E m \in put : m.rv = rv /\ m.next = next
       \/ \E n \in Node :
             /\ Closes(n, next)
             /\ witnessed' = IF pc[n] = "w_final" THEN witnessed \cup {anchor.pid} ELSE witnessed

\* A PUT is sent and not answered.
LosesPut(n, next) ==
    /\ UNCHANGED <<anchor, rv, db, snap, exec, used, hist, witnessed, restores>>
    /\ Only(n) /\ Back(n) /\ Current(n)
    /\ put' = put \cup {[rv |-> rv, next |-> next]}
    /\ \/ next = anchor
       \/ Closes(n, next)
       \/ pc[n] \in MintedPC /\ ~Pending(anchor) /\ next = rec[n]

\* The request a node executes; it is executed, or sent and not answered, or
\* executed after its sender gave up.
Asks(n, r) ==
    \/ pc[n] = "f_create" /\ r = [kind |-> "create", id |-> NoId, base |-> BasePair(rec[n])]
    \/ pc[n] = "f_tail" /\ r = [kind |-> "tail", id |-> rec[n].pid, base |-> BasePair(rec[n])]
    \/ pc[n] = "w_exec" /\ r = [kind |-> "write", id |-> rec[n].pid, base |-> BasePair(rec[n])]
Runs(n, r) ==
    /\ UNCHANGED <<anchor, rv, put, snap, exec, used, hist, witnessed, restores>>
    /\ Only(n) /\ Asks(n, r) /\ db' \in Executed(db, r)
    /\ \/ pc[n] # "w_exec" /\ Back(n) /\ pc'[n] # "idle"
       \/ /\ rec'[n] = rec[n] /\ ver'[n] = ver[n] /\ att'[n] = att[n] /\ resv'[n] = resv[n]
          /\ \/ pc[n] = "f_create" /\ pc'[n] = "f_base"
             \/ pc[n] = "f_tail" /\ pc'[n] = "z_get"
             \/ /\ pc[n] = "w_exec"
                /\ pc'[n] = IF db'.status[rec[n].pid] = "committed" THEN "w_final" ELSE "w_rejected"
LosesRun(n, r) ==
    /\ UNCHANGED <<anchor, rv, put, db, snap, used, hist, witnessed, restores>>
    /\ Only(n) /\ Back(n) /\ Asks(n, r) /\ exec' = exec \cup {r}
LateRun(r) ==
    /\ UNCHANGED <<anchor, rv, put, snap, used, hist, witnessed, restores>>
    /\ \A k \in Node : Keeps(k)
    /\ r \in exec /\ exec' = exec \ {r} /\ db' \in Executed(db, r)

\* It migrates the schema; it reads the rows; it returns them.
Migrates(n, p) ==
    /\ UNCHANGED <<anchor, rv, put, snap, exec, used, hist, witnessed, restores>>
    /\ Only(n) /\ Holds(n, p) /\ db' = [db EXCEPT !.migrated = TRUE]
    /\ \/ pc[n] = "f_migrate" /\ p = "f_tail"
       \/ pc[n] = "c_migrate" /\ p = "z_get"
       \/ pc[n] = "u_migrate" /\ p = "t_get"
Queries(n) ==
    /\ Fixed /\ Only(n) /\ pc[n] = "r_query"
    /\ pc'[n] = "r_verify" /\ rec'[n] = rec[n] /\ ver'[n] = ver[n] /\ att'[n] = att[n]
    /\ resv'[n] = resv[n] /\ rows'[n] = db.applied
Answers(n) ==
    /\ UNCHANGED <<anchor, rv, put, db, snap, exec, used, hist, restores>>
    /\ Only(n) /\ pc[n] = "r_get" /\ ReadUnchanged(n)
    /\ pc'[n] = "r_done" /\ rec'[n] = rec[n] /\ ver'[n] = ver[n] /\ att'[n] = att[n]
    /\ resv'[n] = resv[n] /\ rows'[n] = rows[n]
    /\ floor'[n] = witnessed /\ witnessed' = witnessed \cup rows[n]

\* Backup and restore.
Saves ==
    /\ UNCHANGED <<anchor, rv, put, db, exec, used, hist, witnessed, restores>>
    /\ (\A k \in Node : Keeps(k)) /\ snap' = db
Restores ==
    /\ UNCHANGED <<anchor, rv, put, snap, exec, used, hist, witnessed>>
    /\ (\A k \in Node : Keeps(k)) /\ db' = snap /\ restores' = restores + 1

NodeKind(n) ==
    \/ \E p \in PC : Moves(n, p) \/ Looks(n, p) \/ Migrates(n, p)
    \/ \E id \in Id : Mints(n, id)
    \/ Rewrites(n) \/ Reserves(n) \/ Queries(n) \/ Answers(n)
    \/ \E next \in Record : LosesPut(n, next)
    \/ \E r \in ExecRequest : Runs(n, r) \/ LosesRun(n, r)
Kind ==
    \/ Rests \/ Saves \/ Restores
    \/ \E next \in Record : Stores(next)
    \/ \E r \in exec : LateRun(r)
    \/ \E n \in Node : NodeKind(n)

\* Control moves and the rest of the node follows.
LEMMA GotoKind ==
    ASSUME IInv, NEW n \in Node, NEW p, Goto(n, p), UNCHANGED startVars
    PROVE  /\ Only(n) /\ pc'[n] = p /\ att'[n] = att[n] /\ resv'[n] = resv[n]
           /\ p \in {"s_get", "idle"} => rec'[n] = NoRecord /\ ver'[n] = 0
           /\ p \notin {"s_get", "idle"} => Holds(n, p)
BY DEF IInv, LocalPart, StartPart, Goto, Only, Keeps, Holds, localVars, startVars

\* A step that only moves the node rests, or leads somewhere.
LEMMA QuietKind ==
    ASSUME IInv, NEW n \in Node, NEW p, Goto(n, p),
           UNCHANGED <<anchorVars, dbVars, startVars, historyVars, restores>>,
           \/ p = "s_get"
           \/ /\ p = "idle"
              /\ pc[n] \in ServePC \/ (pc[n] = "t_verify" /\ db.pair = BasePair(rec[n]))
           \/ p \notin {"s_get", "idle"} /\ Leads(n, p)
    PROVE  Kind
<1>1. Fixed
  BY DEF Fixed, anchorVars, dbVars, historyVars
<1>2. CASE p \in {"s_get", "idle"}
  <2>1. Only(n) /\ Back(n)
    BY <1>2, GotoKind DEF Back
  <2> QED
    BY <1>1, <2>1 DEF Kind, Rests, Fixed, Only
<1>3. CASE p \notin {"s_get", "idle"}
  <2>1. Moves(n, p)
    BY <1>1, <1>3, GotoKind DEF Moves
  <2>2. p \in PC
    BY <1>3 DEF Leads, PC, Settling, SettleReads, SettleWrites, ServePC, WritePC, ReadPC
  <2> QED
    BY <2>1, <2>2 DEF Kind, NodeKind
<1> QED
  BY <1>2, <1>3

\* A compare-and-swap by a node whose record fits: the shape is rewritten, the
\* record stored, or nothing happens here and now.
LEMMA CasKind ==
    ASSUME IInv, NEW n \in Node, NEW next, NEW ok, NEW err, Cas(n, next, ok, err),
           UNCHANGED <<dbVars, att, used, restores>>,
           resv' = IF pc[n] = "b_cas" /\ Swapped(n) THEN [resv EXCEPT ![n] = TRUE] ELSE resv,
           witnessed' = IF pc[n] = "w_final" /\ Swapped(n) THEN witnessed \cup {rec[n].pid} ELSE witnessed,
           err = "s_get" \/ (err = "idle" /\ pc[n] \in ServePC),
           \/ /\ pc[n] \in {"p_final", "z_cas", "w_final"} /\ next = Finalize(rec[n]) /\ ok = "idle"
           \/ /\ pc[n] \in {"p_clear", "w_clear"} /\ next = Clear(rec[n]) /\ ok = "idle"
           \/ /\ pc[n] = "b_cas" /\ next = rec[n] /\ ok = "f_verify"
           \/ /\ pc[n] = "w_cas" /\ next = rec[n] /\ ok = "w_exec"
    PROVE  Kind
<1>0. /\ anchor \in Record /\ rv \in Nat /\ rec[n] \in Record
      /\ pc \in [Node -> PC] /\ rec \in [Node -> Record] /\ ver \in [Node -> Nat]
      /\ rows \in [Node -> SUBSET Id] /\ floor \in [Node -> SUBSET Id] /\ resv \in [Node -> BOOLEAN]
  BY DEF IInv, AnchorPart, LocalPart, StartPart
<1>1. /\ ver[n] = rv /\ pc[n] \notin MintedPC => rec[n] = anchor /\ Pending(anchor)
      /\ ver[n] = rv /\ pc[n] \in MintedPC =>
            ~Pending(anchor) /\ Clear(rec[n]) = anchor /\ Pending(rec[n])
  BY DEF IInv, LocalPart, Knows, PendingPC, MintedPC
<1>2. ver[n] = rv => Successor(anchor, next)
  BY Succeeds DEF MintedPC, PendingPC
<1>3. ver[n] = rv => next \in Record
  BY <1>0, <1>2, SuccessorType
<1>4. CASE /\ ver[n] = rv /\ legacy
           /\ Store(anchor)
           /\ ver' = [ver EXCEPT ![n] = rv + 1]
           /\ UNCHANGED <<pc, rec, rows, floor, put, faults>>
  <2>1. ~Swapped(n) /\ UNCHANGED <<anchor, hist>> /\ rv' = rv + 1
    BY <1>0, <1>4 DEF Swapped, Store, Record
  <2>2. Rewrites(n)
    BY <1>0, <1>4, <2>1 DEF Rewrites, Only, Keeps, Current, dbVars
  <2> QED
    BY <2>2 DEF Kind, NodeKind
<1>5. CASE /\ ver[n] = rv /\ ~legacy
           /\ Store(next)
           /\ IF ok = "idle" THEN Goto(n, ok)
                             ELSE /\ rec' = [rec EXCEPT ![n] = next]
                                  /\ ver' = [ver EXCEPT ![n] = rv + 1]
                                  /\ pc' = [pc EXCEPT ![n] = ok]
                                  /\ UNCHANGED <<rows, floor>>
           /\ UNCHANGED <<put, faults>>
  <2>1. Swapped(n) /\ anchor' = next /\ rv' = rv + 1
        /\ hist' = IF next.epoch > anchor.epoch THEN hist \cup {next.token} ELSE hist
    BY <1>5 DEF Swapped, Store
  <2>2. CASE ok = "idle"
    <3>1. pc[n] \notin MintedPC /\ UNCHANGED startVars /\ Goto(n, ok)
      BY <1>5, <2>2 DEF MintedPC, startVars
    <3>2. Only(n) /\ Back(n)
      BY <1>5, <2>2, <3>1, GotoKind DEF Back, Current, ServePC, WritePC
    <3>3. Closes(n, next)
      BY <1>1, <1>5, <2>2, <3>1 DEF Closes, Current
    <3>4. witnessed' = IF pc[n] = "w_final" THEN witnessed \cup {anchor.pid} ELSE witnessed
      BY <1>1, <1>5, <2>1, <3>1
    <3>5. Stores(next)
      BY <1>5, <2>1, <3>2, <3>3, <3>4 DEF Stores, Only, dbVars
    <3> QED
      BY <1>3, <1>5, <3>5 DEF Kind
  <2>3. CASE ok # "idle"
    <3>1. next = rec[n] /\ pc[n] \in MintedPC
      BY <2>3 DEF MintedPC
    <3>2. Pending(next) /\ next.epoch = anchor.epoch /\ anchor.epoch \in Nat
      BY <1>0, <1>1, <1>5, <3>1 DEF Clear, Record
    <3>3. hist' = hist
      BY <2>1, <3>2
    <3>4. Only(n) /\ rec'[n] = rec[n] /\ ver'[n] = rv + 1 /\ att'[n] = att[n] /\ pc'[n] = ok
      BY <1>0, <1>5, <2>3, <3>1 DEF Only, Keeps
    <3>5. pc[n] = "w_cas" => resv'[n] = resv[n]
      OBVIOUS
    <3>6. Reserves(n)
      BY <1>1, <1>5, <2>1, <2>3, <3>1, <3>3, <3>4, <3>5 DEF Reserves, Current, dbVars
    <3> QED
      BY <3>6 DEF Kind, NodeKind
  <2> QED
    BY <2>2, <2>3
<1>6. CASE /\ ver[n] # rv
           /\ Goto(n, err)
           /\ UNCHANGED <<anchor, legacy, rv, put, hist, faults>>
  <2>1. UNCHANGED <<anchorVars, dbVars, startVars, historyVars, restores>>
    BY <1>6 DEF Swapped, anchorVars, startVars, historyVars
  <2> QED
    BY <1>6, <2>1, QuietKind
<1>7. CASE /\ ver[n] = rv /\ faults < MaxFaults
           /\ faults' = faults + 1
           /\ put' = put \cup {[rv |-> rv, next |-> IF legacy THEN anchor ELSE next]}
           /\ Goto(n, err)
           /\ UNCHANGED <<anchor, legacy, rv, hist>>
  <2>1. ~Swapped(n)
    BY <1>0, <1>7 DEF Swapped
  <2>2. UNCHANGED <<startVars, witnessed>>
    BY <2>1 DEF startVars
  <2>3. Only(n) /\ Back(n)
    BY <1>7, <2>2, GotoKind DEF Back
  <2> DEFINE x == IF legacy THEN anchor ELSE next
  <2>4. put' = put \cup {[rv |-> rv, next |-> x]} /\ x \in Record
    BY <1>0, <1>3, <1>7
  <2>5. x = anchor \/ Closes(n, x) \/ (pc[n] \in MintedPC /\ ~Pending(anchor) /\ x = rec[n])
    BY <1>1, <1>7 DEF Closes, Current, MintedPC
  <2> HIDE DEF x
  <2>6. LosesPut(n, x)
    BY <1>7, <2>2, <2>3, <2>4, <2>5 DEF LosesPut, Current, dbVars
  <2> QED
    BY <2>4, <2>6 DEF Kind, NodeKind
<1> QED
  BY <1>4, <1>5, <1>6, <1>7 DEF Cas

\* An Execute runs, or is lost.
LEMMA ExecuteKind ==
    ASSUME IInv, NEW n \in Node, NEW r \in ExecRequest, Asks(n, r),
           NEW ok, NEW rejected, NEW unknown, Execute(n, r, ok, rejected, unknown),
           UNCHANGED <<anchorVars, snap, startVars, historyVars, restores>>,
           \/ pc[n] = "f_create" /\ ok = "f_base" /\ rejected = "s_get" /\ unknown = "s_get"
           \/ pc[n] = "f_tail" /\ ok = "z_get" /\ rejected = "s_get" /\ unknown = "s_get"
           \/ pc[n] = "w_exec" /\ ok = "w_final" /\ rejected = "w_rejected" /\ unknown = "idle"
    PROVE  Kind
<1>1. ASSUME NEW e \in Executed(db, r), db' = e,
             Goto(n, IF Committed(db, e, r) THEN ok ELSE rejected), UNCHANGED exec
      PROVE  Kind
  <2> DEFINE p == IF Committed(db, e, r) THEN ok ELSE rejected
  <2>1. /\ Only(n) /\ pc'[n] = p /\ att'[n] = att[n] /\ resv'[n] = resv[n]
        /\ p \in {"s_get", "idle"} => rec'[n] = NoRecord /\ ver'[n] = 0
        /\ p \notin {"s_get", "idle"} => Holds(n, p)
    BY <1>1, GotoKind
  <2>2. pc[n] = "w_exec" => p = IF db'.status[rec[n].pid] = "committed" THEN "w_final" ELSE "w_rejected"
    BY <1>1 DEF Committed, Asks
  <2>3. p \in {ok, rejected}
    OBVIOUS
  <2> HIDE DEF p
  <2>4. Runs(n, r)
    <3>1. CASE p \in {"s_get", "idle"}
      BY <1>1, <2>1, <2>2, <2>3, <3>1 DEF Runs, Back, anchorVars, historyVars
    <3>2. CASE p \notin {"s_get", "idle"}
      BY <1>1, <2>1, <2>2, <2>3, <3>2 DEF Runs, Holds, anchorVars, historyVars
    <3> QED
      BY <3>1, <3>2
  <2> QED
    BY <2>4 DEF Kind, NodeKind
<1>2. ASSUME exec' = exec \cup {r}, Goto(n, unknown), UNCHANGED db PROVE Kind
  <2>1. Only(n) /\ Back(n)
    BY <1>2, GotoKind DEF Back, ServePC, WritePC
  <2>2. LosesRun(n, r)
    BY <1>2, <2>1 DEF LosesRun, anchorVars, historyVars
  <2> QED
    BY <2>2 DEF Kind, NodeKind
<1> QED
  BY <1>1, <1>2 DEF Execute

\* Reading the anchor, minting and migrating are kinds of their own.
LEMMA LookKind ==
    ASSUME IInv, NEW n \in Node, NEW p \in PC, Get(n, p),
           UNCHANGED <<anchorVars, dbVars, att, historyVars, restores>>,
           resv' = resv \/ (p = "f_verify" /\ resv' = [resv EXCEPT ![n] = TRUE]),
           UNCHANGED <<rows, floor>>,
           \/ p \in {"p_verify", "z_verify"} /\ Pending(anchor)
           \/ p = "f_verify" /\ Pending(anchor) /\ anchor.pid = att[n]
           \/ p = "s_behind" /\ ~Pending(anchor)
           \/ p = "t_get" /\ resv[n] /\ ~Pending(anchor)
           \/ p = "t_verify" /\ pc[n] = "t_get" /\ ~Pending(anchor)
           \/ p \in {"w_verify", "r_query"} /\ pc[n] = "idle" /\ ~Pending(anchor)
    PROVE  Kind
<1>1. Fixed
  BY DEF Fixed, anchorVars, dbVars, historyVars
<1>2. /\ Only(n) /\ pc'[n] = p /\ rec'[n] = anchor /\ ver'[n] = rv /\ att'[n] = att[n]
      /\ resv'[n] => resv[n] \/ p = "f_verify"
  BY DEF IInv, LocalPart, StartPart, Get, Only, Keeps
<1>3. Looks(n, p)
  BY <1>1, <1>2 DEF Looks
<1> QED
  BY <1>3 DEF Kind, NodeKind

\* The start of a bootstrap fence mints a reservation.
LEMMA MintKind ==
    ASSUME IInv, NEW n \in Node, pc[n] \in {"b_exists", "b_verify"}, Mint(n),
           UNCHANGED <<anchorVars, dbVars, resv, hist, witnessed, restores>>
    PROVE  Kind
<1>1. PICK id \in AttemptIds(n) :
         /\ att' = [att EXCEPT ![n] = id] /\ used' = used \cup {id}
         /\ rec' = [rec EXCEPT ![n] = Reserve(@, id)]
         /\ pc' = [pc EXCEPT ![n] = "b_cas"] /\ UNCHANGED <<ver, rows, floor>>
  BY DEF Mint
<1>2. id \in Id /\ (id = att[n] \/ (att[n] = NoId /\ id \notin used))
  BY <1>1 DEF AttemptIds, IInv, StartPart
<1>3. /\ Only(n) /\ rec'[n] = Reserve(rec[n], id) /\ ver'[n] = ver[n] /\ resv'[n] = resv[n]
      /\ pc'[n] = "b_cas" /\ att'[n] = id
  BY <1>1 DEF IInv, LocalPart, StartPart, Only, Keeps
<1>4. Mints(n, id)
  BY <1>1, <1>2, <1>3 DEF Mints, anchorVars, dbVars
<1> QED
  BY <1>2, <1>4 DEF Kind, NodeKind

\* A migration is one.
LEMMA MigrateKind ==
    ASSUME IInv, NEW n \in Node, NEW p, Migrate(n, p),
           \/ pc[n] = "f_migrate" /\ p = "f_tail"
           \/ pc[n] = "c_migrate" /\ p = "z_get"
           \/ pc[n] = "u_migrate" /\ p = "t_get"
    PROVE  Kind
<1>1. Migrates(n, p)
  BY GotoKind DEF Migrate, Migrates, anchorVars, historyVars, boundVars
<1>2. p \in PC
  BY DEF PC, Settling, SettleReads, SettleWrites
<1> QED
  BY <1>1, <1>2 DEF Kind, NodeKind

\* Every step of a settlement is of one of the kinds.
LEMMA SettleKind == ASSUME IInv, NEW n \in Node, Settle(n) PROVE Kind
<1>0. /\ pc[n] \in PendingPC => Pending(rec[n]) /\ rec[n].pid \in Id
      /\ {"f_verify", "p_verify", "t_get", "s_behind", "z_verify", "t_verify"} \subseteq PC
  BY NodeFacts DEF PC, Settling, SettleReads
<1>1. CASE Open(n)
  BY <1>1, QuietKind DEF Open, boundVars
<1>2. CASE SettleGet(n)
  <2>1. PICK p \in {"f_verify", "p_verify", "t_get", "s_behind"} :
           /\ Get(n, p)
           /\ resv' = resv \/ (p = "f_verify" /\ resv' = [resv EXCEPT ![n] = TRUE])
           /\ \/ p = "p_verify" /\ Pending(anchor)
              \/ p = "f_verify" /\ Pending(anchor) /\ anchor.pid = att[n]
              \/ p = "s_behind" /\ ~Pending(anchor)
              \/ p = "t_get" /\ resv[n] /\ ~Pending(anchor)
    BY <1>2 DEF SettleGet
  <2> QED
    BY <1>0, <1>2, <2>1, LookKind DEF SettleGet, boundVars
<1>3. CASE SettlePeerFence(n)
  BY <1>3, QuietKind DEF SettlePeerFence, Verify, Leads, boundVars
<1>4. CASE RecoverStatus(n)
  <2>1. PICK p \in {"p_commit", "p_reject", "s_get"} :
           Goto(n, p) /\ (p = "p_reject" => db.status[rec[n].pid] = "rejected")
    BY <1>4 DEF RecoverStatus
  <2> QED
    BY <1>4, <2>1, QuietKind DEF RecoverStatus, Leads, boundVars
<1>5. CASE RecoverVerify(n)
  BY <1>5, QuietKind DEF RecoverVerify, Verify, Leads, boundVars
<1>6. CASE RecoverCas(n)
  <2>1. /\ UNCHANGED <<dbVars, att, used, restores>> /\ pc[n] \notin {"b_cas", "w_final"}
        /\ UNCHANGED <<resv, witnessed>>
    BY <1>6 DEF RecoverCas, startVars
  <2> QED
    BY <1>6, <2>1, CasKind DEF RecoverCas
<1>7. CASE SettleBehind(n)
  <2>1. PICK p \in {"t_get", "b_exists", "u_migrate"} :
           /\ Goto(n, p)
           /\ p = "t_get" => db.migrated
           /\ p = "b_exists" => rec[n].boot
    BY <1>7 DEF SettleBehind
  <2> QED
    BY <1>7, <2>1, QuietKind DEF SettleBehind, Leads, boundVars
<1>8. CASE BeginFenceExists(n)
  <2>1. CASE Mint(n)
    BY <1>8, <2>1, MintKind DEF BeginFenceExists, boundVars
  <2>2. CASE Goto(n, "b_verify") /\ UNCHANGED <<att, used>>
    <3>1. UNCHANGED <<anchorVars, dbVars, startVars, historyVars, restores>>
      BY <1>8, <2>2 DEF BeginFenceExists, startVars, historyVars, boundVars
    <3> QED
      BY <1>8, <2>2, <3>1, QuietKind DEF BeginFenceExists, Leads
  <2> QED
    BY <1>8, <2>1, <2>2 DEF BeginFenceExists
<1>9. CASE BeginFenceVerify(n)
  <2>1. CASE Mint(n)
    BY <1>9, <2>1, MintKind DEF BeginFenceVerify, boundVars
  <2>2. CASE Goto(n, "s_get") /\ UNCHANGED <<att, used>>
    <3>1. UNCHANGED <<anchorVars, dbVars, startVars, historyVars, restores>>
      BY <1>9, <2>2 DEF BeginFenceVerify, startVars, historyVars, boundVars
    <3> QED
      BY <2>2, <3>1, QuietKind
  <2> QED
    BY <1>9, <2>1, <2>2 DEF BeginFenceVerify
<1>10. CASE BeginFenceCas(n)
  <2>1. /\ UNCHANGED <<dbVars, att, used, restores, witnessed>> /\ pc[n] = "b_cas"
        /\ resv' = IF Swapped(n) THEN [resv EXCEPT ![n] = TRUE] ELSE resv
        /\ Cas(n, rec[n], "f_verify", "s_get")
    BY <1>10 DEF BeginFenceCas
  <2> QED
    BY <2>1, CasKind
<1>11. CASE FinishFenceVerify(n)
  BY <1>11, QuietKind DEF FinishFenceVerify, Verify, Leads, FencePC, boundVars
<1>12. CASE PrepareExists(n)
  <2>1. PICK p \in {"f_base", "f_create", "s_get"} : Goto(n, p)
    BY <1>12 DEF PrepareExists
  <2> QED
    BY <1>12, <2>1, QuietKind DEF PrepareExists, Leads, FencePC, boundVars
<1>13. CASE PrepareCreate(n)
  BY <1>13, RequestType, ExecuteKind DEF PrepareCreate, Asks, PendingPC
<1>14. CASE PrepareVerify(n)
  BY <1>14, QuietKind DEF PrepareVerify, Verify, Leads, FencePC, boundVars
<1>15. CASE FinishFenceMigrate(n)
  BY <1>15, MigrateKind DEF FinishFenceMigrate
<1>16. CASE CompleteFenceTail(n)
  BY <1>16, RequestType, ExecuteKind DEF CompleteFenceTail, Asks, PendingPC
<1>17. CASE CatchUpMigration(n)
  BY <1>17, MigrateKind DEF CatchUpMigration
<1>18. CASE FinalizeFenceGet(n)
  <2>1. CASE Goto(n, "s_get")
    BY <1>18, <2>1, QuietKind DEF FinalizeFenceGet, boundVars
  <2>2. CASE anchor.pid = rec[n].pid /\ Get(n, "z_verify") /\ UNCHANGED <<rows, floor>>
    <3>1. Pending(anchor)
      BY <1>18, <2>2, NodeFacts DEF FinalizeFenceGet, PendingPC, Pending
    <3> QED
      BY <1>0, <1>18, <2>2, <3>1, LookKind DEF FinalizeFenceGet, startVars, boundVars
  <2> QED
    BY <1>18, <2>1, <2>2 DEF FinalizeFenceGet
<1>19. CASE FinalizeFenceVerify(n)
  BY <1>19, QuietKind DEF FinalizeFenceVerify, Verify, Leads, boundVars
<1>20. CASE FinalizeFenceMigrated(n)
  <2>1. PICK p \in {"z_cas", "s_get"} : Goto(n, p)
    BY <1>20 DEF FinalizeFenceMigrated
  <2> QED
    BY <1>20, <2>1, QuietKind DEF FinalizeFenceMigrated, Leads, boundVars
<1>21. CASE FinalizeFenceCas(n)
  <2>1. /\ UNCHANGED <<dbVars, att, used, restores>> /\ pc[n] = "z_cas"
        /\ UNCHANGED <<resv, witnessed>> /\ Cas(n, Finalize(rec[n]), "idle", "s_get")
    BY <1>21 DEF FinalizeFenceCas, startVars
  <2> QED
    BY <2>1, CasKind
<1>22. CASE FinishStartupGet(n)
  <2>1. CASE Goto(n, "s_get")
    BY <1>22, <2>1, QuietKind DEF FinishStartupGet, boundVars
  <2>2. CASE ~Pending(anchor) /\ Get(n, "t_verify") /\ UNCHANGED <<rows, floor>>
    BY <1>0, <1>22, <2>2, LookKind DEF FinishStartupGet, startVars, boundVars
  <2> QED
    BY <1>22, <2>1, <2>2 DEF FinishStartupGet
<1>23. CASE FinishStartupVerify(n)
  BY <1>23, QuietKind DEF FinishStartupVerify, Verify, boundVars
<1> QED
  BY <1>1, <1>2, <1>3, <1>4, <1>5, <1>6, <1>7, <1>8, <1>9, <1>10, <1>11, <1>12, <1>13,
     <1>14, <1>15, <1>16, <1>17, <1>18, <1>19, <1>20, <1>21, <1>22, <1>23 DEF Settle

\* Every step of a fenced write or read is.
LEMMA ServeKind == ASSUME IInv, NEW n \in Node, Write(n) \/ Read(n) PROVE Kind
<1>0. {"w_verify", "r_query"} \subseteq PC
  BY DEF PC, ServePC, WritePC, ReadPC
<1>1. CASE WriteGet(n)
  BY <1>0, <1>1, LookKind DEF WriteGet, startVars, boundVars
<1>2. CASE WriteVerify(n)
  <2>1. ASSUME NEW id \in Id \ used, used' = used \cup {id},
               rec' = [rec EXCEPT ![n] = Reserve(@, id)],
               pc' = [pc EXCEPT ![n] = "w_cas"], UNCHANGED <<ver, rows, floor>>
        PROVE  Kind
    <3>1. /\ Only(n) /\ rec'[n] = Reserve(rec[n], id) /\ ver'[n] = ver[n] /\ resv'[n] = resv[n]
          /\ pc'[n] = "w_cas" /\ att'[n] = att[n]
      BY <1>2, <2>1 DEF WriteVerify, IInv, LocalPart, StartPart, Only, Keeps, startVars
    <3>2. Mints(n, id)
      BY <1>2, <2>1, <3>1 DEF WriteVerify, Mints, anchorVars, dbVars, boundVars
    <3> QED
      BY <3>2 DEF Kind, NodeKind
  <2>2. CASE Goto(n, "idle") /\ UNCHANGED used
    <3>1. UNCHANGED <<anchorVars, dbVars, startVars, historyVars, restores>> /\ pc[n] \in ServePC
      BY <1>2, <2>2 DEF WriteVerify, historyVars, boundVars, ServePC, WritePC
    <3> QED
      BY <2>2, <3>1, QuietKind
  <2> QED
    BY <1>2, <2>1, <2>2 DEF WriteVerify
<1>3. CASE WriteReserve(n) \/ WriteFinalize(n) \/ WriteClear(n)
  <2>1. /\ UNCHANGED <<dbVars, att, used, restores, resv>> /\ pc[n] \in ServePC /\ pc[n] # "b_cas"
        /\ witnessed' = IF pc[n] = "w_final" /\ Swapped(n) THEN witnessed \cup {rec[n].pid}
                                                           ELSE witnessed
    BY <1>3 DEF WriteReserve, WriteFinalize, WriteClear, startVars, ServePC, WritePC
  <2> QED
    BY <1>3, <2>1, CasKind DEF WriteReserve, WriteFinalize, WriteClear
<1>4. CASE WriteExecute(n)
  BY <1>4, RequestType, ExecuteKind DEF WriteExecute, Asks, PendingPC
<1>5. CASE WriteRejected(n) \/ ReadVerify(n)
  BY <1>5, QuietKind DEF WriteRejected, ReadVerify, Verify, Leads, boundVars, ServePC, WritePC, ReadPC
<1>6. CASE ReadGet(n)
  BY <1>0, <1>6, LookKind DEF ReadGet, startVars, boundVars
<1>7. CASE ReadQuery(n)
  <2>1. Queries(n)
    BY <1>7 DEF ReadQuery, Queries, Fixed, Only, Keeps, IInv, LocalPart,
                anchorVars, dbVars, startVars, historyVars, boundVars
  <2> QED
    BY <2>1 DEF Kind, NodeKind
<1>8. CASE ReadGetAgain(n)
  <2>1. CASE ReadUnchanged(n)
    <3>1. Answers(n)
      BY <1>8, <2>1 DEF ReadGetAgain, Answers, Only, Keeps, IInv, LocalPart,
                        anchorVars, dbVars, startVars, boundVars
    <3> QED
      BY <3>1 DEF Kind, NodeKind
  <2>2. CASE ~ReadUnchanged(n)
    <3>1. /\ UNCHANGED <<anchorVars, dbVars, startVars, historyVars, restores>> /\ pc[n] \in ServePC
          /\ Goto(n, "idle")
      BY <1>8, <2>2 DEF ReadGetAgain, historyVars, boundVars, ServePC, ReadPC
    <3> QED
      BY <3>1, QuietKind
  <2> QED
    BY <2>1, <2>2
<1>9. CASE ReadReturn(n)
  BY <1>9, QuietKind DEF ReadReturn, boundVars, ServePC, ReadPC
<1> QED
  BY <1>1, <1>2, <1>3, <1>4, <1>5, <1>6, <1>7, <1>8, <1>9 DEF Write, Read

\* Every step is.
LEMMA NextKind == ASSUME IInv, [Next]_vars PROVE Kind
<1>1. ASSUME NEW n \in Node, CallFails(n) PROVE Kind
  <2>1. Goto(n, AfterFailure(pc[n])) /\ pc[n] \in PC \ {"down"}
        /\ UNCHANGED <<anchorVars, dbVars, startVars, historyVars, restores>>
    BY <1>1, NodeFacts DEF CallFails
  <2>2. CASE pc[n] = "p_verify"
    BY <2>1, <2>2, QuietKind DEF AfterFailure, Leads
  <2>3. CASE pc[n] = "f_verify"
    BY <2>1, <2>3, QuietKind DEF AfterFailure, Leads, FencePC
  <2>4. CASE pc[n] \notin {"p_verify", "f_verify"}
    <3>1. AfterFailure(pc[n]) = "s_get" \/ (AfterFailure(pc[n]) = "idle" /\ pc[n] \in ServePC)
      BY <2>1, <2>4 DEF AfterFailure, PC
    <3> QED
      BY <2>1, <3>1, QuietKind
  <2> QED
    BY <2>2, <2>3, <2>4
<1>2. ASSUME NEW n \in Node, Crash(n) PROVE Kind
  <2>1. Fixed
    BY <1>2 DEF Crash, Fixed, anchorVars, dbVars, historyVars
  <2>2. Only(n) /\ Back(n)
    BY <1>2 DEF Crash, Only, Keeps, Back, IInv, LocalPart, StartPart
  <2> QED
    BY <2>1, <2>2 DEF Kind, Rests, Fixed, Only
<1>3. CASE LatePut
  <2>1. PICK m \in put :
           /\ put' = put \ {m}
           /\ IF m.rv = rv THEN Store(m.next) ELSE UNCHANGED <<anchor, legacy, rv, hist>>
           /\ UNCHANGED <<dbVars, pc, localVars, startVars, used, witnessed, boundVars>>
    BY <1>3 DEF LatePut
  <2>2. \A k \in Node : Keeps(k)
    BY <2>1 DEF Keeps, localVars, startVars
  <2>3. CASE m.rv = rv
    <3>1. m.next \in Record
      BY DEF IInv, AnchorPart, PutRequest
    <3>2. Stores(m.next)
      BY <2>1, <2>2, <2>3 DEF Stores, Store, dbVars, boundVars
    <3> QED
      BY <3>1, <3>2 DEF Kind
  <2>4. CASE m.rv # rv
    BY <2>1, <2>2, <2>4 DEF Kind, Rests, dbVars, boundVars
  <2> QED
    BY <2>3, <2>4
<1>4. CASE LateExecute
  <2>1. PICK r \in exec : exec' = exec \ {r} /\ db' \in Executed(db, r)
    BY <1>4 DEF LateExecute
  <2>2. LateRun(r)
    BY <1>4, <2>1 DEF LateExecute, LateRun, Keeps, anchorVars, localVars, startVars, historyVars, boundVars
  <2> QED
    BY <2>2 DEF Kind
<1>5. CASE Backup
  BY <1>5 DEF Backup, Kind, Saves, Keeps, anchorVars, localVars, startVars, historyVars, boundVars
<1>6. CASE Restore
  BY <1>6 DEF Restore, Kind, Restores, Keeps, anchorVars, localVars, startVars, historyVars
<1>7. CASE UNCHANGED vars
  BY <1>7 DEF vars, Kind, Rests, Keeps, anchorVars, dbVars, localVars, startVars,
              historyVars, boundVars
<1> QED
  BY <1>1, <1>2, <1>3, <1>4, <1>5, <1>6, <1>7, SettleKind, ServeKind DEF Next, Environment

-----------------------------------------------------------------------------
(* Who may still execute what                                              *)

Zero == [epoch |-> 0, token |-> InitToken]   \* the deployment's first pair

\* A process or a request in flight may still execute t as a bootstrap tail;
\* one may still execute w as a write.
TailId(t) == t \in Id /\ (\/ \E n \in Node : att[n] = t
                          \/ \E r \in exec : r.kind = "tail" /\ r.id = t)
WriteOut(w) == \/ \E n \in Node : pc[n] = "w_exec" /\ rec[n].pid = w
               \/ \E r \in exec : r.kind = "write" /\ r.id = w

\* The pending reservation can no longer put a row into any database.
Spent == ~WriteOut(anchor.pid)
Dead  == Spent /\ anchor.pid \notin db.applied

\* What every database, the current and the backed-up one, is like; and the
\* current one contains the backup.
Sound(d) ==
    /\ \A id \in d.applied : d.status[id] = "committed"
    /\ d.pair.token \in Id => d.status[d.pair.token] = "committed"
    /\ d.pair.token = NoId => d.pair = NoPair
    /\ d.pair.epoch = 0 => d.applied = {}
ExtendsBackup ==
    /\ \A id \in Id : snap.status[id] # "none" => db.status[id] = snap.status[id]
    /\ snap.applied \subseteq db.applied
Databases == Sound(db) /\ Sound(snap) /\ ExtendsBackup

\* An id is in use before anything mentions it.
Minted ==
    /\ \A id \in Id : db.status[id] # "none" => id \in used
    /\ anchor.pid \in used \cup {NoId} /\ hist \subseteq used \cup {InitToken}
    /\ \A r \in exec : r.id \in used \cup {NoId}
    /\ \A m \in put : m.next.pid \in used \cup {NoId}

\* Bootstrap belongs to the first pair, and so does every bootstrap fence.
Bootstraps ==
    /\ anchor.boot => anchor.epoch = 0
    /\ anchor.epoch = 0 => anchor.token = InitToken /\ hist = {InitToken}
    /\ anchor.epoch = 1 => hist = {InitToken, anchor.token}
    /\ anchor.token \in hist
    /\ TailId(anchor.pid) => anchor.boot
    /\ \A m \in put : m.rv = rv /\ TailId(m.next.pid) => anchor.boot
    /\ \A r \in exec : r.kind # "write" => r.base = Zero

\* A write in flight is the anchor's reservation, on the anchor's pair, and has
\* not run; a bootstrap tail has no rows.
InFlight ==
    /\ \A r \in exec : r.kind = "write" =>
           /\ db.status[r.id] = "none" /\ ~TailId(r.id)
           /\ anchor.pid = r.id /\ r.base = BasePair(anchor)
    /\ \A t \in Id : TailId(t) => t \notin db.applied

\* A PUT in flight that closes the reservation finds it spent; one that makes
\* a reservation does so for an id that has not run, or on the first pair.
PutsAreSafe ==
    \A m \in put : m.rv = rv =>
        /\ Pending(anchor) /\ m.next # anchor => Spent /\ (m.next = Clear(anchor) => Dead)
        /\ ~Pending(anchor) /\ Pending(m.next) =>
               anchor.epoch = 0 \/ db.status[m.next.pid] = "none"

\* What a node's position says of its record and of what it may still do.
NodeOwns(n) ==
    /\ rec[n].pid \in used \cup {NoId} /\ att[n] \in used \cup {NoId}
    /\ rec[n].boot => BasePair(rec[n]) = Zero
    /\ pc[n] \in FencePC \cup {"b_cas"} => rec[n].boot /\ rec[n].pid = att[n]
    /\ pc[n] \in {"b_exists", "b_verify"} => rec[n].boot
    /\ pc[n] \in OwnPC =>
           /\ db.status[rec[n].pid] = "none" /\ ~TailId(rec[n].pid)
           /\ \A r \in exec : r.id # rec[n].pid
    /\ pc[n] = "w_exec" => anchor.pid = rec[n].pid /\ BasePair(rec[n]) = BasePair(anchor)
    /\ Current(n) /\ pc[n] \in ClosePC => Spent
    /\ Current(n) /\ pc[n] \in DropPC => Dead
Alone == \A n, k \in Node :
    pc[n] \in OwnPC /\ pc[k] \in OwnPC /\ rec[n].pid = rec[k].pid => n = k

Globals == Databases /\ Minted /\ Bootstraps /\ InFlight /\ PutsAreSafe /\ NoUnanchoredRows
OwnInv  == Globals /\ (\A n \in Node : NodeOwns(n)) /\ Alone

\* Nothing new may execute, and the anchor's record and the outcomes stay.
Calm ==
    /\ UNCHANGED <<anchor, hist>> /\ Databases'
    /\ db'.applied \subseteq db.applied
    /\ \A id \in Id : db'.status[id] # "none" => db.status[id] # "none"
    /\ rv' >= rv /\ put' \subseteq put /\ exec' \subseteq exec /\ used \subseteq used'
    /\ \A t \in Id : TailId(t)' => TailId(t) \/ t \notin used
    /\ \A w \in Id : WriteOut(w)' => WriteOut(w)

\* What the types say, in one place.
LEMMA Types ==
    ASSUME IInv
    PROVE  /\ anchor \in Record /\ rv \in Nat /\ put \subseteq PutRequest
           /\ db \in Database /\ snap \in Database /\ exec \subseteq ExecRequest
           /\ used \subseteq Id /\ hist \subseteq Token /\ witnessed \subseteq Id
           /\ \A k \in Node : ver[k] \in Nat /\ ver[k] <= rv
           /\ \A m \in put : m.rv \in Nat /\ m.rv <= rv /\ m.next \in Record
           /\ NoId \notin Id
BY TrustFenceAssumption DEF IInv, AnchorPart, LocalPart, DatabasePart, HistoryPart, Knows, PutRequest, Token

\* Such a step keeps what holds of the shared state.
LEMMA CalmGlobals == ASSUME IInv, IInv', OwnInv, Calm PROVE Globals'
<1> USE DEF OwnInv, Globals
<1>1. Databases'
  BY DEF Calm
<1>2. Minted'
  BY Types DEF Calm, Minted
<1>3. ASSUME NEW m \in put', m.rv = rv' PROVE m \in put /\ m.rv = rv /\ rv' = rv
  <2>1. m \in put /\ m.rv \in Nat /\ m.rv <= rv /\ rv \in Nat /\ rv' \in Nat /\ rv' >= rv
    BY Types, <1>3 DEF Calm, IInv, AnchorPart
  <2> QED
    BY <1>3, <2>1
<1>4. Bootstraps'
  <2>1. \A t : TailId(t)' => TailId(t) \/ (t \notin used /\ t \in Id)
    BY DEF Calm, TailId
  <2>2. TailId(anchor.pid)' => anchor.boot
    BY <2>1, Types DEF Calm, Minted, Bootstraps, TailId
  <2>3. ASSUME NEW m \in put', m.rv = rv', TailId(m.next.pid)' PROVE anchor.boot
    BY <1>3, <2>1, <2>3, Types DEF Minted, Bootstraps
  <2> QED
    BY <2>2, <2>3 DEF Calm, Bootstraps
<1>5. InFlight'
  <2>1. ASSUME NEW r \in exec', r.kind = "write"
        PROVE  db'.status[r.id] = "none" /\ ~TailId(r.id)' /\ anchor.pid = r.id /\ r.base = BasePair(anchor)
    <3>1. r \in exec /\ r.id \in Id /\ r.id \in used
      BY <2>1, Types DEF Calm, ExecRequest, Minted
    <3> QED
      BY <2>1, <3>1 DEF Calm, InFlight
  <2>2. \A t \in Id : TailId(t)' => t \notin db'.applied
    BY DEF Calm, InFlight, Minted, Databases, Sound
  <2> QED
    BY <2>1, <2>2 DEF InFlight, Calm
<1>6. PutsAreSafe'
  <2>1. anchor.pid \in Id \cup {NoId} /\ (Pending(anchor) => anchor.pid \in Id)
    BY Types DEF Record, Pending
  <2>2. Pending(anchor) => (Spent => Spent') /\ (Dead => Dead')
    BY <2>1 DEF Calm, Spent, Dead
  <2> QED
    BY <1>3, <2>2, Types DEF Calm, PutsAreSafe, Pending, Record
<1>7. NoUnanchoredRows'
  BY DEF Calm, NoUnanchoredRows
<1> QED
  BY <1>1, <1>2, <1>4, <1>5, <1>6, <1>7

\* A node that goes back owns nothing.
LEMMA BackNode ==
    ASSUME IInv', NEW k \in Node, Back(k), NodeOwns(k), used \subseteq used'
    PROVE  NodeOwns(k)'
<1>1. pc'[k] \in {"s_get", "idle", "down"} /\ rec'[k] = NoRecord /\ att'[k] \in used' \cup {NoId}
  BY DEF Back, NodeOwns
<1> QED
  BY <1>1 DEF NodeOwns, NoRecord, FencePC, OwnPC, ClosePC, DropPC

\* A node that a calm step leaves alone keeps what it owns, and so does one that
\* only moves on.
LEMMA CalmNode ==
    ASSUME IInv, IInv', OwnInv, Calm, NEW k \in Node,
           rec'[k] = rec[k] /\ att'[k] = att[k] /\ ver'[k] = ver[k],
           \/ pc'[k] = pc[k]
           \/ /\ pc'[k] \notin OwnPC
              /\ pc'[k] \in FencePC \cup {"b_cas"} => pc[k] \in FencePC \cup {"b_cas"}
              /\ pc'[k] \in {"b_exists", "b_verify"} => rec[k].boot
              /\ Current(k) /\ pc'[k] \in ClosePC => Spent
              /\ Current(k) /\ pc'[k] \in DropPC => Dead
    PROVE  NodeOwns(k)'
<1> USE DEF OwnInv, Globals
<1>0. NodeOwns(k) /\ Knows(k)' /\ Knows(k) /\ rec[k] \in Record /\ anchor' = anchor /\ rec' \in [Node -> Record]
  BY DEF IInv, LocalPart, Calm
<1>1. Current(k)' => Current(k) /\ rv' = rv
  <2>1. ver[k] \in Nat /\ ver[k] <= rv /\ rv \in Nat /\ rv' \in Nat /\ rv' >= rv
    BY Types DEF Calm, IInv, AnchorPart
  <2> QED
    BY <2>1 DEF Current
<1>2. pc'[k] \in OwnPC => rec[k].pid \in Id
  BY <1>0, PendingId DEF Knows, OwnPC, PendingPC
<1>3. pc'[k] \in ClosePC \cup DropPC /\ Current(k)' => Pending(anchor)
  BY <1>0, <1>1 DEF Knows, ClosePC, DropPC, PendingPC, MintedPC, Current
<1>4. Pending(anchor) => (Spent => Spent') /\ (Dead => Dead')
  BY <1>0, Types, PendingId DEF Calm, Spent, Dead
<1>5. pc'[k] \in OwnPC =>
         /\ db'.status[rec[k].pid] = "none" /\ ~TailId(rec[k].pid)'
         /\ \A r \in exec' : r.id # rec[k].pid
  BY <1>0, <1>2, Types DEF NodeOwns, Calm
<1>6. /\ rec'[k].pid \in used' \cup {NoId} /\ att'[k] \in used' \cup {NoId}
      /\ rec'[k].boot => BasePair(rec[k]) = Zero
      /\ pc'[k] \in FencePC \cup {"b_cas"} => rec'[k].boot /\ rec'[k].pid = att'[k]
      /\ pc'[k] \in {"b_exists", "b_verify"} => rec'[k].boot
      /\ pc'[k] = "w_exec" => anchor'.pid = rec'[k].pid /\ BasePair(rec[k]) = BasePair(anchor)
  BY <1>0 DEF NodeOwns, Calm, OwnPC
<1>7. /\ Current(k)' /\ pc'[k] \in ClosePC => Spent'
      /\ Current(k)' /\ pc'[k] \in DropPC => Dead'
  BY <1>0, <1>1, <1>3, <1>4 DEF NodeOwns
<1> QED
  BY <1>0, <1>5, <1>6, <1>7 DEF NodeOwns

\* No two nodes hold the same unexecuted write if nobody took one up.
LEMMA StillAlone ==
    ASSUME Alone, \A k \in Node : pc'[k] \in OwnPC => pc[k] \in OwnPC /\ rec'[k] = rec[k]
    PROVE  Alone'
BY DEF Alone

\* A step in which one node at most moves, and by it takes up nothing, adds no
\* execution.
LEMMA Shrinks ==
    ASSUME exec' \subseteq exec,
           \A k \in Node : att'[k] \in {att[k], NoId},
           \A k \in Node : pc'[k] = "w_exec" => pc[k] = "w_exec" /\ rec'[k] = rec[k]
    PROVE  /\ \A t \in Id : TailId(t)' => TailId(t)
           /\ \A w : WriteOut(w)' => WriteOut(w)
BY TrustFenceAssumption DEF TailId, WriteOut, Token

\* An executed reservation is spent, a rejected one dead.
LEMMA RanIsSpent ==
    ASSUME IInv, OwnInv, NEW id \in Id
    PROVE  /\ db.status[id] # "none" => ~WriteOut(id)
           /\ db.status[id] = "rejected" => id \notin db.applied
           /\ db.pair.token = id => ~WriteOut(id)
<1>1. db.status[id] # "none" => ~WriteOut(id)
  BY DEF OwnInv, Globals, InFlight, NodeOwns, WriteOut, OwnPC
<1> QED
  BY <1>1 DEF OwnInv, Globals, Databases, Sound

\* Steps that leave anchor, database and requests alone keep the ownership.
LEMMA RestOwns == ASSUME IInv, IInv', OwnInv, Rests PROVE OwnInv'
<1>1. \A k \in Node : /\ att'[k] \in {att[k], NoId}
                      /\ pc'[k] \in OwnPC => pc[k] \in OwnPC /\ rec'[k] = rec[k] /\ pc'[k] = pc[k]
  BY DEF Rests, Keeps, Back, OwnPC
<1>2. Databases'
  BY DEF Rests, OwnInv, Globals, Databases, Sound, ExtendsBackup
<1>3. /\ \A t \in Id : TailId(t)' => TailId(t)
      /\ \A w : WriteOut(w)' => WriteOut(w)
  <2>1. exec' \subseteq exec
    BY DEF Rests
  <2> QED
    BY <1>1, <2>1, Shrinks DEF OwnPC
<1>4. Calm
  BY <1>2, <1>3, Types DEF Rests, Calm
<1>5. Globals'
  BY <1>4, CalmGlobals
<1>6. ASSUME NEW k \in Node PROVE NodeOwns(k)'
  <2>1. CASE Keeps(k)
    BY <1>4, <2>1, CalmNode DEF Keeps
  <2>2. CASE Back(k)
    BY <1>4, <2>2, BackNode DEF OwnInv, Calm
  <2> QED
    BY <2>1, <2>2 DEF Rests
<1>7. Alone'
  BY <1>1, StillAlone DEF OwnInv
<1> QED
  BY <1>5, <1>6, <1>7 DEF OwnInv

\* A node that moves, and perhaps learns, migrates or reads, without an id and
\* without a word to the anchor: what is left is what its new position owns.
LEMMA MoveOwns ==
    ASSUME IInv, IInv', OwnInv, NEW n \in Node, Only(n), NodeOwns(n)', Calm, pc'[n] \notin OwnPC
    PROVE  OwnInv'
<1>1. Globals'
  BY CalmGlobals
<1>2. ASSUME NEW k \in Node PROVE NodeOwns(k)'
  <2>1. CASE k = n
    BY <2>1
  <2>2. CASE k # n
    BY <2>2, CalmNode DEF Only, Keeps
  <2> QED
    BY <2>1, <2>2
<1>3. Alone'
  BY StillAlone DEF OwnInv, Only, Keeps
<1> QED
  BY <1>1, <1>2, <1>3 DEF OwnInv

\* When one node moves to where it executes no write and keeps its attempt, and
\* the database keeps rows and outcomes, the step is calm.
LEMMA MoveCalm ==
    ASSUME IInv, OwnInv, NEW n \in Node, Only(n), pc'[n] \notin OwnPC,
           att'[n] = att[n], UNCHANGED <<anchor, hist, rv, put, exec, snap, used>>,
           db'.pair = db.pair, db'.applied = db.applied, db'.status = db.status
    PROVE  Calm
<1>1. Databases'
  BY DEF OwnInv, Globals, Databases, Sound, ExtendsBackup
<1>2. /\ \A t \in Id : TailId(t)' => TailId(t)
      /\ \A w : WriteOut(w)' => WriteOut(w)
  <2>1. exec' \subseteq exec
    OBVIOUS
  <2>2. \A k \in Node : /\ att'[k] \in {att[k], NoId}
                        /\ pc'[k] = "w_exec" => pc[k] = "w_exec" /\ rec'[k] = rec[k]
    BY DEF Only, Keeps, OwnPC
  <2> QED
    BY <2>1, <2>2, Shrinks
<1> QED
  BY <1>1, <1>2, Types DEF Calm

\* A query of the database or a decision.
LEMMA LeadOwns == ASSUME IInv, IInv', OwnInv, NEW n \in Node, NEW p, Moves(n, p) PROVE OwnInv'
<1>1. Only(n) /\ Holds(n, p) /\ Leads(n, p) /\ Fixed
  BY DEF Moves
<1>2. p \notin OwnPC /\ p \notin MintedPC
  BY <1>1 DEF Leads, OwnPC, MintedPC
<1>3. Calm
  BY <1>1, <1>2, MoveCalm DEF Fixed, Holds
<1>4. Current(n) => rec[n] = anchor
  BY <1>1, <1>2 DEF Fixed, Holds, IInv, LocalPart, Knows, Current
<1>5. p \in ClosePC \cup DropPC => rec[n].pid \in Id
  <2>1. p \in ClosePC \cup DropPC => Pending(rec'[n]) /\ rec'[n] \in Record
    BY <1>1 DEF Holds, IInv, LocalPart, Knows, ClosePC, DropPC, PendingPC
  <2> QED
    BY <1>1, <2>1, PendingId DEF Holds
<1>6. Current(n) /\ p \in ClosePC => Spent
  <2>1. CASE p \in {"p_final", "z_migrated"}
    BY <1>1, <1>4, <1>5, <2>1, RanIsSpent DEF Leads, PendingPair, Spent, FencePC
  <2>2. CASE p = "z_cas"
    BY <1>1, <2>2 DEF Leads, OwnInv, NodeOwns, ClosePC, FencePC
  <2> QED
    BY <1>1, <2>1, <2>2 DEF ClosePC, Leads, FencePC
<1>7. Current(n) /\ p \in DropPC => Dead
  <2>1. CASE p = "p_reject"
    BY <1>1, <1>4, <1>5, <2>1, RanIsSpent DEF Leads, Spent, Dead, FencePC, DropPC
  <2>2. CASE p # "p_reject"
    BY <1>1, <2>2 DEF Leads, OwnInv, NodeOwns, DropPC, FencePC
  <2> QED
    BY <2>1, <2>2
<1>8. /\ p \in FencePC \cup {"b_cas"} => pc[n] \in FencePC
      /\ p \in {"b_exists", "b_verify"} => rec[n].boot
  BY <1>1 DEF Leads, FencePC, OwnInv, NodeOwns
<1>9. NodeOwns(n)'
  BY <1>1, <1>2, <1>3, <1>6, <1>7, <1>8, CalmNode DEF Holds
<1> QED
  BY <1>1, <1>2, <1>3, <1>9, MoveOwns DEF Holds

\* A read of the anchor.
LEMMA LookOwns == ASSUME IInv, IInv', OwnInv, NEW n \in Node, NEW p, Looks(n, p) PROVE OwnInv'
<1>1. /\ Only(n) /\ Fixed /\ pc'[n] = p /\ rec'[n] = anchor /\ att'[n] = att[n]
      /\ p \in {"p_verify", "z_verify", "f_verify", "s_behind", "t_get", "t_verify", "w_verify", "r_query"}
      /\ p = "f_verify" => Pending(anchor) /\ anchor.pid = att[n]
  BY DEF Looks
<1>2. Calm
  BY <1>1, MoveCalm DEF Fixed, OwnPC
<1>3. p = "f_verify" => anchor.boot
  BY <1>1, Types, PendingId DEF OwnInv, Globals, Bootstraps, TailId
<1>4. anchor.boot => BasePair(anchor) = Zero
  BY DEF OwnInv, Globals, Bootstraps, BasePair, Zero
<1>5. anchor.pid \in used' \cup {NoId} /\ att[n] \in used' \cup {NoId}
  BY <1>2 DEF OwnInv, Globals, Minted, NodeOwns, Calm
<1>6. NodeOwns(n)'
  <2>1. /\ rec'[n].pid \in used' \cup {NoId} /\ att'[n] \in used' \cup {NoId}
        /\ rec'[n].boot => BasePair(anchor) = Zero
        /\ pc'[n] \in FencePC \cup {"b_cas"} => rec'[n].boot /\ rec'[n].pid = att'[n]
        /\ pc'[n] \notin {"b_exists", "b_verify", "w_exec"} \cup OwnPC \cup ClosePC \cup DropPC
    BY <1>1, <1>3, <1>4, <1>5 DEF FencePC, OwnPC, ClosePC, DropPC
  <2> QED
    BY <1>1, <2>1 DEF NodeOwns
<1> QED
  BY <1>1, <1>2, <1>6, MoveOwns DEF OwnPC

\* A migration; the query and the answer of a read.
LEMMA PassOwns ==
    ASSUME IInv, IInv', OwnInv, NEW n \in Node,
           (\E p \in PC : Migrates(n, p)) \/ Queries(n) \/ Answers(n)
    PROVE  OwnInv'
<1>1. /\ Only(n) /\ UNCHANGED <<anchor, hist, rv, put, exec, snap, used>>
      /\ rec'[n] = rec[n] /\ ver'[n] = ver[n] /\ att'[n] = att[n]
      /\ pc'[n] \in {"f_tail", "z_get", "t_get", "r_verify", "r_done"}
      /\ pc'[n] = "f_tail" => pc[n] \in FencePC
  BY DEF Migrates, Queries, Answers, Holds, Fixed, FencePC
<1>2. db'.pair = db.pair /\ db'.applied = db.applied /\ db'.status = db.status
  BY Types DEF Migrates, Queries, Answers, Fixed, Database
<1>3. pc'[n] \notin OwnPC \cup ClosePC \cup DropPC \cup {"b_exists", "b_verify", "b_cas"}
  BY <1>1 DEF OwnPC, ClosePC, DropPC
<1>4. Calm
  BY <1>1, <1>2, <1>3, MoveCalm
<1>5. NodeOwns(n)'
  BY <1>1, <1>3, <1>4, CalmNode DEF FencePC
<1> QED
  BY <1>1, <1>3, <1>4, <1>5, MoveOwns

\* The rewrite of the shape makes every PUT and every other node stale.
LEMMA RewriteOwns == ASSUME IInv, IInv', OwnInv, NEW n \in Node, Rewrites(n) PROVE OwnInv'
<1>1. \A k \in Node : /\ pc'[k] = pc[k] /\ rec'[k] = rec[k] /\ att'[k] = att[k]
                      /\ k # n => ver'[k] = ver[k]
  BY DEF Rewrites, Only, Keeps
<1>2. Databases'
  BY DEF Rewrites, OwnInv, Globals, Databases, Sound, ExtendsBackup
<1>3. /\ \A t \in Id : TailId(t)' => TailId(t)
      /\ \A w : WriteOut(w)' <=> WriteOut(w)
  BY <1>1 DEF Rewrites, TailId, WriteOut
<1>4. Calm
  BY <1>2, <1>3, Types DEF Rewrites, Calm
<1>5. Globals'
  BY <1>4, CalmGlobals
<1>6. ASSUME NEW k \in Node PROVE NodeOwns(k)'
  <2>1. CASE k # n
    BY <1>1, <1>4, <2>1, CalmNode
  <2>2. CASE k = n
    <3>1. /\ UNCHANGED <<anchor, db, exec, used>> /\ Current(n) /\ (Spent' <=> Spent) /\ (Dead' <=> Dead)
      BY <1>3 DEF Rewrites, Spent, Dead
    <3>2. rec[n].pid \in Id => (TailId(rec[n].pid)' => TailId(rec[n].pid))
      BY <1>1, <1>3
    <3>3. pc[n] \in OwnPC => rec[n].pid \in Id
      BY NodeFacts DEF OwnPC, PendingPC
    <3> QED
      BY <1>1, <2>2, <3>1, <3>2, <3>3 DEF NodeOwns, OwnInv
  <2> QED
    BY <2>1, <2>2
<1>7. Alone'
  BY <1>1, StillAlone DEF OwnInv
<1> QED
  BY <1>5, <1>6, <1>7 DEF OwnInv

\* A backup and a restore: the backup is part of the database.
LEMMA RestoreOwns == ASSUME IInv, IInv', OwnInv, Saves \/ Restores PROVE OwnInv'
<1>1. /\ UNCHANGED <<anchor, rv, put, exec, used, hist>>
      /\ \A k \in Node : Keeps(k)
      /\ (db' = db /\ snap' = db) \/ (db' = snap /\ snap' = snap)
  BY DEF Saves, Restores
<1>2. Databases' /\ db'.applied \subseteq db.applied
      /\ \A id \in Id : db'.status[id] # "none" => db.status[id] # "none"
  BY <1>1 DEF OwnInv, Globals, Databases, Sound, ExtendsBackup
<1>3. /\ \A t \in Id : TailId(t)' => TailId(t)
      /\ \A w : WriteOut(w)' => WriteOut(w)
  BY <1>1 DEF TailId, WriteOut, Keeps
<1>4. Calm
  BY <1>1, <1>2, <1>3, Types DEF Calm
<1>5. Globals'
  BY <1>4, CalmGlobals
<1>6. ASSUME NEW k \in Node PROVE NodeOwns(k)'
  BY <1>1, <1>4, CalmNode DEF Keeps
<1>7. Alone'
  BY <1>1, StillAlone DEF OwnInv, Keeps
<1> QED
  BY <1>5, <1>6, <1>7 DEF OwnInv

\* A fresh id is nobody's.
LEMMA MintOwns == ASSUME IInv, IInv', OwnInv, NEW n \in Node, NEW id \in Id, Mints(n, id) PROVE OwnInv'
<1>1. /\ UNCHANGED <<anchor, rv, put, db, snap, exec, hist>> /\ Only(n) /\ used' = used \cup {id}
      /\ rec'[n] = Reserve(rec[n], id) /\ ver'[n] = ver[n]
  BY DEF Mints
<1>2. \/ /\ pc[n] \in {"b_exists", "b_verify"} /\ pc'[n] = "b_cas"
         /\ att'[n] = id /\ (id = att[n] \/ (att[n] = NoId /\ id \notin used))
      \/ /\ pc[n] = "w_verify" /\ pc'[n] = "w_cas"
         /\ att'[n] = att[n] /\ id \notin used
  BY DEF Mints
<1>3. rec[n] \in Record /\ rec'[n].pid = id /\ rec'[n].boot = rec[n].boot
      /\ BasePair(Reserve(rec[n], id)) = BasePair(rec[n])
  BY <1>1, NodeFacts DEF Record, Reserve, BasePair
<1>4. \A t \in Id : TailId(t)' => TailId(t) \/ (t = id /\ id \notin used /\ pc'[n] = "b_cas")
  BY <1>1, <1>2 DEF TailId, Only, Keeps
<1>5. \A w \in Id : WriteOut(w)' => WriteOut(w)
  BY <1>1, <1>2 DEF WriteOut, Only, Keeps
<1>6. Databases'
  BY <1>1 DEF OwnInv, Globals, Databases, Sound, ExtendsBackup
<1>7. Calm
  BY <1>1, <1>4, <1>5, <1>6, Types DEF Calm
<1>8. Globals'
  BY <1>7, CalmGlobals
<1>9. \A k \in Node : rec[k].pid \in used \cup {NoId} /\ att[k] \in used \cup {NoId}
  BY DEF OwnInv, NodeOwns
<1>10. pc'[n] = "w_cas" =>
          db.status[id] = "none" /\ ~TailId(id)' /\ \A r \in exec' : r.id # id
  <2>1. id \notin used => db.status[id] = "none" /\ (\A r \in exec : r.id # id) /\ ~TailId(id)
    BY <1>9, Types DEF OwnInv, Globals, Minted, TailId
  <2> QED
    BY <1>1, <1>2, <1>4, <2>1
<1>11. NodeOwns(n)'
  <2>1. NodeOwns(n)
    BY DEF OwnInv
  <2>2. /\ rec'[n].pid \in used' \cup {NoId} /\ att'[n] \in used' \cup {NoId}
        /\ rec'[n].boot => BasePair(Reserve(rec[n], id)) = Zero
        /\ pc'[n] = "b_cas" => rec'[n].boot /\ rec'[n].pid = att'[n]
    BY <1>1, <1>2, <1>3, <2>1 DEF NodeOwns
  <2> QED
    BY <1>1, <1>2, <1>3, <1>10, <2>2 DEF NodeOwns, FencePC, OwnPC, ClosePC, DropPC
<1>12. ASSUME NEW k \in Node, k # n PROVE NodeOwns(k)'
  BY <1>1, <1>7, <1>12, CalmNode DEF Only, Keeps
<1>13. Alone'
  <2>1. ASSUME NEW j \in Node, NEW k \in Node, pc'[j] \in OwnPC, pc'[k] \in OwnPC,
               rec'[j].pid = rec'[k].pid
        PROVE  j = k
    <3>1. CASE j # n /\ k # n
      BY <1>1, <2>1, <3>1 DEF Only, Keeps, OwnInv, Alone
    <3>2. CASE j = n /\ k # n
      BY <1>1, <1>2, <1>3, <1>9, <2>1, <3>2, Types DEF Only, Keeps, OwnPC
    <3>3. CASE j # n /\ k = n
      BY <1>1, <1>2, <1>3, <1>9, <2>1, <3>3, Types DEF Only, Keeps, OwnPC
    <3> QED
      BY <3>1, <3>2, <3>3
  <2> QED
    BY <2>1 DEF Alone
<1> QED
  BY <1>8, <1>11, <1>12, <1>13 DEF OwnInv

\* What a node about to finalize, to clear or to reserve says of the anchor.
LEMMA SuccessorOwns ==
    ASSUME IInv, OwnInv, NEW next \in Record,
           \/ \E n \in Node : \/ Closes(n, next)
                              \/ Current(n) /\ pc[n] \in MintedPC /\ ~Pending(anchor) /\ next = rec[n]
           \/ \E m \in put : m.rv = rv /\ m.next = next
    PROVE  \/ next = anchor
           \/ next = Finalize(anchor) /\ Pending(anchor) /\ Spent
           \/ next = Clear(anchor) /\ Pending(anchor) /\ Dead
           \/ /\ ~Pending(anchor) /\ Pending(next) /\ next = Reserve(anchor, next.pid)
              /\ next.pid \in used /\ (TailId(next.pid) => anchor.boot)
              /\ anchor.epoch = 0 \/ db.status[next.pid] = "none"
<1> USE DEF OwnInv, Globals
<1>1. ASSUME NEW n \in Node, Closes(n, next)
      PROVE  \/ next = Finalize(anchor) /\ Pending(anchor) /\ Spent
             \/ next = Clear(anchor) /\ Pending(anchor) /\ Dead
  BY <1>1 DEF Closes, NodeOwns, ClosePC, DropPC
<1>2. ASSUME NEW n \in Node, Current(n), pc[n] \in MintedPC, ~Pending(anchor), next = rec[n]
      PROVE  /\ Pending(next) /\ next = Reserve(anchor, next.pid)
             /\ next.pid \in used /\ (TailId(next.pid) => anchor.boot)
             /\ anchor.epoch = 0 \/ db.status[next.pid] = "none"
  <2>1. Pending(next) /\ Clear(next) = anchor /\ NodeOwns(n)
    BY <1>2 DEF IInv, LocalPart, Knows, MintedPC, PendingPC, Current
  <2>2. next.pid \in Id /\ next = Reserve(anchor, next.pid)
    BY <2>1, PendingId
  <2>3. anchor.boot = next.boot /\ anchor.epoch = next.epoch
    BY <2>1 DEF Clear, Record
  <2>4. next.pid \in used
    BY <1>2, <2>1, <2>2, Types DEF NodeOwns
  <2>5. CASE pc[n] = "b_cas"
    BY <1>2, <2>1, <2>2, <2>3, <2>4, <2>5 DEF NodeOwns, BasePair, Zero
  <2>6. CASE pc[n] = "w_cas"
    BY <1>2, <2>1, <2>2, <2>4, <2>6 DEF NodeOwns, OwnPC
  <2> QED
    BY <1>2, <2>5, <2>6 DEF MintedPC
<1>3. ASSUME NEW m \in put, m.rv = rv, m.next = next, next # anchor
      PROVE  \/ next = Finalize(anchor) /\ Pending(anchor) /\ Spent
             \/ next = Clear(anchor) /\ Pending(anchor) /\ Dead
             \/ /\ ~Pending(anchor) /\ Pending(next) /\ next = Reserve(anchor, next.pid)
                /\ next.pid \in used /\ (TailId(next.pid) => anchor.boot)
                /\ anchor.epoch = 0 \/ db.status[next.pid] = "none"
  <2>1. Successor(anchor, next)
    BY <1>3 DEF IInv, AnchorPart
  <2>2. CASE Pending(anchor)
    BY <1>3, <2>1, <2>2 DEF Successor, PutsAreSafe
  <2>3. CASE ~Pending(anchor)
    <3>1. PICK id \in Id : next = Reserve(anchor, id)
      BY <1>3, <2>1, <2>3 DEF Successor
    <3>2. Pending(next) /\ next.pid = id
      BY <2>3, <3>1, Types, ReserveClear
    <3> QED
      BY <1>3, <2>3, <3>1, <3>2, Types DEF PutsAreSafe, Minted, Bootstraps
  <2> QED
    BY <2>2, <2>3
<1> QED
  BY <1>1, <1>2, <1>3

\* A PUT that is sent and not answered.
LEMMA LosePutOwns ==
    ASSUME IInv, IInv', OwnInv, NEW n \in Node, NEW next \in Record, LosesPut(n, next)
    PROVE  OwnInv'
<1> USE DEF OwnInv, Globals
<1>1. /\ UNCHANGED <<anchor, rv, db, snap, exec, used, hist>> /\ Only(n) /\ Back(n)
      /\ put' = put \cup {[rv |-> rv, next |-> next]}
  BY DEF LosesPut
<1>2. \/ next = anchor
      \/ next = Finalize(anchor) /\ Pending(anchor) /\ Spent
      \/ next = Clear(anchor) /\ Pending(anchor) /\ Dead
      \/ /\ ~Pending(anchor) /\ Pending(next) /\ next = Reserve(anchor, next.pid)
         /\ next.pid \in used /\ (TailId(next.pid) => anchor.boot)
         /\ anchor.epoch = 0 \/ db.status[next.pid] = "none"
  BY SuccessorOwns DEF LosesPut
<1>3. \A k \in Node : /\ att'[k] \in {att[k], NoId}
                      /\ pc'[k] \in OwnPC => pc[k] \in OwnPC /\ rec'[k] = rec[k] /\ pc'[k] = pc[k]
  BY <1>1 DEF Only, Keeps, Back, OwnPC
<1>4. /\ \A t \in Id : TailId(t)' => TailId(t)
      /\ \A w : WriteOut(w)' => WriteOut(w)
  <2>1. exec' \subseteq exec
    BY <1>1
  <2> QED
    BY <1>3, <2>1, Shrinks DEF OwnPC
<1>5. (Spent => Spent') /\ (Dead => Dead')
  BY <1>1, <1>4 DEF Spent, Dead
<1>6. Databases' /\ NoUnanchoredRows'
  BY <1>1 DEF Databases, Sound, ExtendsBackup, NoUnanchoredRows
<1>7. next.pid \in used \cup {NoId} /\ (TailId(next.pid) => anchor.boot)
      /\ (Pending(anchor) => Finalize(anchor) # Clear(anchor))
  <2>1. anchor \in Record
    BY Types
  <2>2. Finalize(anchor).pid = NoId /\ Clear(anchor).pid = NoId
        /\ Finalize(anchor).epoch = anchor.epoch + 1 /\ Clear(anchor).epoch = anchor.epoch
    BY <2>1 DEF Record, Finalize, Clear
  <2>3. anchor.epoch # anchor.epoch + 1
    BY <2>1 DEF Record
  <2> QED
    BY <1>2, <2>2, <2>3, Types DEF Minted, Bootstraps, TailId
<1> DEFINE m == [rv |-> rv, next |-> next]
<1>8. m.next = next /\ m.rv = rv /\ put' = put \cup {m}
  BY <1>1
<1> HIDE DEF m
<1>9. Minted'
  BY <1>1, <1>7, <1>8 DEF Minted
<1>10. Bootstraps'
  BY <1>1, <1>4, <1>7, <1>8 DEF Bootstraps, TailId
<1>11. InFlight'
  BY <1>1, <1>4, Types DEF InFlight, ExecRequest
<1>12. PutsAreSafe'
  <2>1. /\ Pending(anchor) /\ next # anchor => Spent /\ (next = Clear(anchor) => Dead)
        /\ ~Pending(anchor) /\ Pending(next) => anchor.epoch = 0 \/ db.status[next.pid] = "none"
    BY <1>2, <1>7 DEF Dead
  <2>2. \A q \in put' : q \in put \/ (q = m /\ q.next = next)
    BY <1>8
  <2> QED
    BY <1>1, <1>5, <2>1, <2>2 DEF PutsAreSafe
<1>13. Alone'
  BY <1>3, StillAlone
<1>14. ASSUME NEW k \in Node, k # n PROVE NodeOwns(k)'
  <2>1. Keeps(k) /\ NodeOwns(k)
    BY <1>1, <1>14 DEF Only
  <2>2. pc[k] \in OwnPC => rec[k].pid \in Id
    BY NodeFacts DEF OwnPC, PendingPC
  <2> QED
    BY <1>1, <1>4, <1>5, <2>1, <2>2 DEF NodeOwns, Keeps, Current
<1>15. NodeOwns(n)'
  BY <1>1, BackNode
<1> QED
  BY <1>6, <1>9, <1>10, <1>11, <1>12, <1>13, <1>14, <1>15

\* The anchor takes its next record: every PUT becomes stale, and a write in
\* flight survives only if the record stays.
LEMMA AnchorGlobals ==
    ASSUME IInv, IInv', OwnInv, NEW next \in Record,
           UNCHANGED <<db, snap, exec, used>>, put' \subseteq put, anchor' = next, rv' = rv + 1,
           hist' = IF next.epoch > anchor.epoch THEN hist \cup {next.token} ELSE hist,
           \A t \in Id : TailId(t)' => TailId(t),
           \/ next = Finalize(anchor) /\ Pending(anchor) /\ Spent
           \/ next = Clear(anchor) /\ Pending(anchor) /\ Dead
           \/ /\ ~Pending(anchor) /\ Pending(next) /\ next = Reserve(anchor, next.pid)
              /\ next.pid \in used /\ (TailId(next.pid) => anchor.boot)
    PROVE  Globals' /\ \A r \in exec : r.kind # "write"
<1> USE DEF OwnInv, Globals
<1>1. anchor \in Record /\ anchor.epoch \in Nat /\ db.applied \subseteq Id
      /\ (\A m \in put' : m.rv # rv') /\ NoId \notin Id
  BY Types DEF Record, Database
<1>2. Databases'
  BY DEF Databases, Sound, ExtendsBackup
<1>3. \A r \in exec : r.kind # "write"
  <2>1. \A r \in exec : r.kind = "write" => anchor.pid = r.id /\ r.id \in Id
    BY Types DEF InFlight, ExecRequest
  <2>2. Pending(anchor) => Spent
    BY DEF Dead
  <2> QED
    BY <1>1, <2>1, <2>2 DEF Spent, WriteOut, Pending
<1>4. InFlight'
  BY <1>3 DEF InFlight
<1>5. PutsAreSafe'
  BY <1>1 DEF PutsAreSafe
<1>6. \A t : TailId(t)' => TailId(t) /\ t \in Id
  BY DEF TailId
<1>7. CASE next = Finalize(anchor) /\ Pending(anchor) /\ Spent
  <2>1. next.epoch = anchor.epoch + 1 /\ next.token = anchor.pid /\ next.pid = NoId /\ next.boot = FALSE
    BY <1>1, <1>7 DEF Finalize, Record
  <2>2. hist' = hist \cup {anchor.pid} /\ next.epoch # 0
    BY <1>1, <2>1
  <2>3. next.epoch = 1 => hist = {InitToken}
    BY <1>1, <2>1 DEF Bootstraps
  <2>4. ~TailId(next.pid)'
    BY <1>1, <1>6, <2>1
  <2>5. Bootstraps'
    BY <1>1, <2>1, <2>2, <2>3, <2>4 DEF Bootstraps
  <2>6. Minted'
    BY <1>7, <2>1, <2>2 DEF Minted, Pending
  <2>7. NoUnanchoredRows'
    BY <2>2 DEF NoUnanchoredRows
  <2> QED
    BY <1>2, <1>3, <1>4, <1>5, <2>5, <2>6, <2>7
<1>8. CASE \/ next = Clear(anchor) /\ Pending(anchor) /\ Dead
           \/ /\ ~Pending(anchor) /\ Pending(next) /\ next = Reserve(anchor, next.pid)
              /\ next.pid \in used /\ (TailId(next.pid) => anchor.boot)
  <2>1. next.epoch = anchor.epoch /\ next.token = anchor.token /\ next.boot = anchor.boot
        /\ (next = Clear(anchor) => next.pid = NoId)
    BY <1>1, <1>8 DEF Clear, Reserve, Record
  <2>2. hist' = hist
    BY <1>1, <2>1
  <2>3. next.pid \in used \cup {NoId} /\ (TailId(next.pid) => anchor.boot)
    BY <1>1, <1>8, <2>1 DEF TailId
  <2>4. TailId(anchor.pid)' => anchor.boot
    BY <1>6, <2>3
  <2>5. Bootstraps'
    BY <1>1, <2>1, <2>2, <2>4 DEF Bootstraps
  <2>6. Minted'
    BY <2>2, <2>3 DEF Minted
  <2>7. NoUnanchoredRows'
    BY <1>1, <1>8, <2>2 DEF NoUnanchoredRows, Dead, Pending
  <2> QED
    BY <1>2, <1>3, <1>4, <1>5, <2>5, <2>6, <2>7
<1> QED
  BY <1>7, <1>8

\* The record is put by a node that is done with it, or late.
LEMMA StoreOwns == ASSUME IInv, IInv', OwnInv, NEW next \in Record, Stores(next) PROVE OwnInv'
<1> USE DEF OwnInv, Globals
<1>1. /\ UNCHANGED <<db, snap, exec, used>> /\ put' \subseteq put /\ anchor' = next /\ rv' = rv + 1
      /\ hist' = IF next.epoch > anchor.epoch THEN hist \cup {next.token} ELSE hist
      /\ \A k \in Node : Keeps(k) \/ Back(k)
  BY DEF Stores
<1>2. \A k \in Node : /\ att'[k] \in {att[k], NoId}
                      /\ pc'[k] \in OwnPC => pc[k] \in OwnPC /\ rec'[k] = rec[k] /\ pc'[k] = pc[k]
  BY <1>1 DEF Keeps, Back, OwnPC
<1>3. /\ \A t \in Id : TailId(t)' => TailId(t)
      /\ \A w : WriteOut(w)' => WriteOut(w)
  <2>1. exec' \subseteq exec
    BY <1>1
  <2> QED
    BY <1>2, <2>1, Shrinks DEF OwnPC
<1>4. Alone'
  BY <1>2, StillAlone
<1>5. \/ next = anchor
      \/ next = Finalize(anchor) /\ Pending(anchor) /\ Spent
      \/ next = Clear(anchor) /\ Pending(anchor) /\ Dead
      \/ /\ ~Pending(anchor) /\ Pending(next) /\ next = Reserve(anchor, next.pid)
         /\ next.pid \in used /\ (TailId(next.pid) => anchor.boot)
  BY SuccessorOwns DEF Stores
<1>6. CASE next = anchor
  <2>1. hist' = hist
    BY <1>1, <1>6, Types DEF Record
  <2>2. Databases'
    BY <1>1 DEF Databases, Sound, ExtendsBackup
  <2>3. Calm
    BY <1>1, <1>3, <1>6, <2>1, <2>2, Types DEF Calm
  <2>4. ASSUME NEW k \in Node PROVE NodeOwns(k)'
    <3>1. CASE Keeps(k)
      BY <2>3, <3>1, CalmNode DEF Keeps
    <3>2. CASE Back(k)
      BY <2>3, <3>2, BackNode DEF Calm
    <3> QED
      BY <1>1, <3>1, <3>2
  <2> QED
    BY <1>4, <2>3, <2>4, CalmGlobals
<1>7. CASE next # anchor
  <2>1. Globals'
    BY <1>1, <1>3, <1>5, <1>7, AnchorGlobals
  <2>2. ASSUME NEW k \in Node PROVE NodeOwns(k)'
    <3>1. CASE Back(k)
      BY <1>1, <3>1, BackNode
    <3>2. CASE Keeps(k)
      <4>1. NodeOwns(k) /\ ~Current(k)'
        BY <1>1, <3>2, Types DEF Keeps, Current
      <4>2. pc[k] # "w_exec"
        <5>1. pc[k] = "w_exec" => anchor.pid = rec[k].pid /\ Pending(rec[k])
          BY <4>1, NodeFacts DEF NodeOwns, PendingPC
        <5> QED
          BY <1>5, <1>7, <5>1 DEF Dead, Spent, WriteOut, Pending
      <4>3. pc[k] \in OwnPC => rec[k].pid \in Id
        BY NodeFacts DEF OwnPC, PendingPC
      <4> QED
        BY <1>1, <1>3, <3>2, <4>1, <4>2, <4>3 DEF NodeOwns, Keeps
    <3> QED
      BY <1>1, <3>1, <3>2
  <2> QED
    BY <1>4, <2>1, <2>2
<1> QED
  BY <1>6, <1>7

\* A node puts its reservation.
LEMMA ReserveOwns == ASSUME IInv, IInv', OwnInv, NEW n \in Node, Reserves(n) PROVE OwnInv'
<1> USE DEF OwnInv, Globals
<1>1. /\ UNCHANGED <<put, db, snap, exec, used, hist>> /\ Only(n) /\ Current(n) /\ ~Pending(anchor)
      /\ anchor' = rec[n] /\ rv' = rv + 1 /\ rec'[n] = rec[n] /\ ver'[n] = rv + 1 /\ att'[n] = att[n]
      /\ \/ pc[n] = "b_cas" /\ pc'[n] = "f_verify"
         \/ pc[n] = "w_cas" /\ pc'[n] = "w_exec"
  BY DEF Reserves
<1>2. rec[n] \in Record /\ pc[n] \in MintedPC /\ Pending(rec[n]) /\ rec[n].pid \in Id
  BY <1>1, NodeFacts DEF MintedPC, PendingPC
<1>3. \A t \in Id : TailId(t)' => TailId(t)
  BY <1>1 DEF TailId, Only, Keeps
<1>4. rec[n] # anchor
  BY <1>1, <1>2
<1>5. /\ rec[n] = Reserve(anchor, rec[n].pid)
      /\ rec[n].pid \in used /\ (TailId(rec[n].pid) => anchor.boot)
  <2> DEFINE x == rec[n]
  <2>1. Current(n) /\ pc[n] \in MintedPC /\ ~Pending(anchor) /\ x = rec[n] /\ x \in Record /\ Pending(x)
    BY <1>1, <1>2
  <2> HIDE DEF x
  <2> QED
    BY <2>1, SuccessorOwns
<1>6. rec[n].epoch = anchor.epoch /\ anchor.epoch \in Nat
  BY <1>5, Types DEF Reserve, Record
<1>7. hist' = IF rec[n].epoch > anchor.epoch THEN hist \cup {rec[n].token} ELSE hist
  BY <1>1, <1>6
<1>8. Globals'
  BY <1>1, <1>2, <1>3, <1>5, <1>7, AnchorGlobals
<1>9. ASSUME NEW k \in Node, k # n PROVE NodeOwns(k)'
  <2>1. NodeOwns(k) /\ Keeps(k) /\ ~Current(k)'
    BY <1>1, <1>9, Types DEF Only, Keeps, Current
  <2>2. pc[k] # "w_exec"
    BY <1>1, <2>1, NodeFacts DEF NodeOwns, PendingPC, Pending
  <2>3. pc[k] \in OwnPC => rec[k].pid \in Id
    BY NodeFacts DEF OwnPC, PendingPC
  <2> QED
    BY <1>1, <1>3, <2>1, <2>2, <2>3 DEF NodeOwns, Keeps
<1>10. NodeOwns(n)'
  <2>1. NodeOwns(n)
    OBVIOUS
  <2>2. pc'[n] \in OwnPC => pc[n] \in OwnPC
    BY <1>1 DEF OwnPC
  <2>3. /\ pc'[n] \in FencePC \cup {"b_cas"} => pc[n] = "b_cas"
        /\ pc'[n] \notin ClosePC \cup DropPC \cup {"b_exists", "b_verify"}
    BY <1>1 DEF FencePC, ClosePC, DropPC
  <2>4. pc'[n] \in OwnPC =>
           /\ db'.status[rec'[n].pid] = "none" /\ ~TailId(rec[n].pid)'
           /\ \A r \in exec' : r.id # rec'[n].pid
    BY <1>1, <1>2, <1>3, <2>1, <2>2 DEF NodeOwns
  <2> QED
    BY <1>1, <2>1, <2>3, <2>4 DEF NodeOwns
<1>11. Alone'
  BY <1>1, StillAlone DEF Only, Keeps, OwnPC
<1> QED
  BY <1>8, <1>9, <1>10, <1>11

\* A request that may execute now, or be lost: a create and a tail belong to the
\* first pair, a write is the anchor's reservation and has not run.
Request(r) ==
    /\ r \in ExecRequest /\ r.id \in used \cup {NoId}
    /\ r.kind # "write" => r.base = Zero
    /\ r.kind = "tail" => TailId(r.id)
    /\ r.kind = "write" => /\ db.status[r.id] = "none" /\ ~TailId(r.id) /\ WriteOut(r.id)
                           /\ anchor.pid = r.id /\ r.base = BasePair(anchor)

\* Whatever is in flight, or asked by a node, is such a request.
LEMMA RequestOwns ==
    ASSUME IInv, OwnInv, NEW r \in ExecRequest, r \in exec \/ \E n \in Node : Asks(n, r)
    PROVE  Request(r)
<1> USE DEF OwnInv, Globals
<1>1. CASE r \in exec
  <2>1. r.kind \in {"tail", "write"} => r.id \in Id
    BY DEF ExecRequest
  <2> QED
    BY <1>1, <2>1 DEF Minted, Bootstraps, InFlight, TailId, WriteOut, Request
<1>2. ASSUME NEW n \in Node, Asks(n, r) PROVE Request(r)
  <2>1. NodeOwns(n) /\ Pending(rec[n]) /\ rec[n].pid \in Id /\ rec[n].pid \in used
    <3>1. NodeOwns(n)
      OBVIOUS
    <3> QED
      BY <1>2, <3>1, NodeFacts, Types DEF Asks, PendingPC, NodeOwns
  <2>2. CASE pc[n] \in {"f_create", "f_tail"}
    <3>1. BasePair(rec[n]) = Zero /\ rec[n].pid = att[n]
      BY <2>1, <2>2 DEF NodeOwns, FencePC
    <3> QED
      BY <1>2, <2>1, <2>2, <3>1 DEF Asks, TailId, Request
  <2>3. CASE pc[n] = "w_exec"
    BY <1>2, <2>1, <2>3 DEF Asks, WriteOut, NodeOwns, OwnPC, Request
  <2> QED
    BY <1>2, <2>2, <2>3 DEF Asks
<1> QED
  BY <1>1, <1>2

\* An Execute that is sent and not answered.
LEMMA LoseRunOwns ==
    ASSUME IInv, IInv', OwnInv, NEW n \in Node, NEW r \in ExecRequest, LosesRun(n, r)
    PROVE  OwnInv'
<1> USE DEF OwnInv, Globals
<1>1. /\ UNCHANGED <<anchor, rv, put, db, snap, used, hist>> /\ Only(n) /\ Back(n) /\ Asks(n, r)
      /\ exec' = exec \cup {r}
  BY DEF LosesRun
<1>2. Request(r)
  BY <1>1, RequestOwns
<1>3. \A k \in Node : /\ att'[k] \in {att[k], NoId}
                      /\ pc'[k] \in OwnPC => k # n /\ pc[k] \in OwnPC /\ rec'[k] = rec[k] /\ pc'[k] = pc[k]
  BY <1>1 DEF Only, Keeps, Back, OwnPC
<1>4. /\ \A t \in Id : TailId(t)' => TailId(t)
      /\ \A w \in Id : WriteOut(w)' => WriteOut(w)
  BY <1>1, <1>2, <1>3, Types DEF TailId, WriteOut, Request, OwnPC
<1>5. Databases' /\ NoUnanchoredRows'
  BY <1>1 DEF Databases, Sound, ExtendsBackup, NoUnanchoredRows
<1>6. Minted'
  BY <1>1, <1>2 DEF Minted, Request
<1>7. \A t : TailId(t)' => TailId(t)
  BY <1>4 DEF TailId
<1>8. Bootstraps'
  BY <1>1, <1>2, <1>7 DEF Bootstraps, Request
<1>9. InFlight'
  BY <1>1, <1>2, <1>7 DEF InFlight, Request
<1>10. Pending(anchor) => (Spent => Spent') /\ (Dead => Dead')
  BY <1>1, <1>4, Types, PendingId DEF Spent, Dead
<1>11. PutsAreSafe'
  BY <1>1, <1>10 DEF PutsAreSafe
<1>12. Alone'
  BY <1>3, StillAlone
<1>13. ASSUME NEW k \in Node, k # n PROVE NodeOwns(k)'
  <2>1. Keeps(k) /\ NodeOwns(k) /\ Knows(k)
    BY <1>1, <1>13 DEF Only, IInv, LocalPart
  <2>2. pc[k] \in OwnPC => rec[k].pid \in Id
    BY NodeFacts DEF OwnPC, PendingPC
  <2>3. pc[k] \in OwnPC => r.id # rec[k].pid
    <3>1. CASE r.kind = "create"
      BY <2>2, <3>1, Types DEF ExecRequest
    <3>2. CASE r.kind = "tail"
      BY <1>2, <2>1, <3>2 DEF Request, NodeOwns
    <3>3. CASE r.kind = "write"
      BY <1>1, <1>13, <3>3 DEF Asks, Alone, OwnPC
    <3> QED
      BY <3>1, <3>2, <3>3 DEF ExecRequest
  <2>4. Current(k) /\ pc[k] \in ClosePC \cup DropPC => Pending(anchor)
    BY <2>1 DEF Knows, ClosePC, DropPC, PendingPC, MintedPC, Current
  <2> QED
    BY <1>1, <1>4, <1>10, <2>1, <2>2, <2>3, <2>4 DEF NodeOwns, Keeps, Current
<1>14. NodeOwns(n)'
  BY <1>1, BackNode
<1> QED
  BY <1>5, <1>6, <1>8, <1>9, <1>11, <1>12, <1>13, <1>14

\* What an Execute does to the database: nothing, the creation of the trust row,
\* or an outcome recorded for an id that had none.
Accepts(r) ==
    /\ r.kind # "create" /\ db.status[r.id] = "none" /\ db.pair = r.base
    /\ db'.pair = [epoch |-> r.base.epoch + 1, token |-> r.id] /\ db'.migrated = db.migrated
    /\ db'.applied = db.applied \cup (IF r.kind = "write" THEN {r.id} ELSE {})
    /\ db'.status = [db.status EXCEPT ![r.id] = "committed"]
Refuses(r) ==
    /\ r.kind # "create" /\ db.status[r.id] = "none" /\ (db.pair # r.base \/ r.kind = "write")
    /\ db'.pair = db.pair /\ db'.applied = db.applied /\ db'.migrated = db.migrated
    /\ db'.status = [db.status EXCEPT ![r.id] = "rejected"]
Creates(r) ==
    /\ r.kind = "create" /\ db.pair = NoPair /\ db'.pair = r.base
    /\ db'.applied = db.applied /\ db'.status = db.status /\ db'.migrated = db.migrated

\* Those are all the outcomes.
LEMMA Outcomes ==
    ASSUME IInv, NEW r \in ExecRequest, db' \in Executed(db, r)
    PROVE  \/ db' = db /\ (r.kind = "create" => db.pair # NoPair)
                       /\ (r.kind # "create" => db.status[r.id] # "none")
           \/ Creates(r) \/ Accepts(r) \/ Refuses(r)
<1>1. db \in Database
  BY Types
<1>2. CASE r.kind = "create"
  BY <1>1, <1>2 DEF Executed, Creates, Database
<1>3. CASE r.kind # "create" /\ db.status[r.id] # "none"
  BY <1>3 DEF Executed
<1>4. CASE r.kind # "create" /\ db.status[r.id] = "none"
  <2> DEFINE accepted == [db EXCEPT !.pair = [epoch |-> r.base.epoch + 1, token |-> r.id],
                                    !.applied = IF r.kind = "write" THEN @ \cup {r.id} ELSE @,
                                    !.status[r.id] = "committed"]
             rejected == [db EXCEPT !.status[r.id] = "rejected"]
  <2>1. \/ db.pair = r.base /\ db' = accepted
        \/ (db.pair # r.base \/ r.kind = "write") /\ db' = rejected
    BY <1>4 DEF Executed
  <2>2. CASE db.pair = r.base /\ db' = accepted
    BY <1>1, <1>4, <2>2 DEF Accepts, Database
  <2>3. CASE (db.pair # r.base \/ r.kind = "write") /\ db' = rejected
    BY <1>1, <1>4, <2>3 DEF Refuses, Database
  <2> QED
    BY <2>1, <2>2, <2>3
<1> QED
  BY <1>2, <1>3, <1>4

\* So the rows grow at most by the request's own, and the database stays sound.
LEMMA ExecutedGrows ==
    ASSUME IInv, IInv', OwnInv, NEW r, Request(r), db' \in Executed(db, r), snap' = snap
    PROVE  /\ Databases'
           /\ \A id \in Id : id # r.id => db'.status[id] = db.status[id]
           /\ db'.applied \subseteq db.applied \cup (IF r.kind = "write" THEN {r.id} ELSE {})
           /\ r.kind # "create" => db'.status[r.id] # "none"
<1> USE DEF OwnInv, Globals, Databases
<1>0. /\ db \in Database /\ db' \in Database /\ snap \in Database /\ r \in ExecRequest /\ NoId \notin Id
      /\ r.kind # "create" => r.id \in Id
      /\ db.status \in [Id -> Status] /\ db.applied \subseteq Id
  BY Types DEF Request, ExecRequest, IInv, DatabasePart, Database
<1>1. CASE db' = db /\ (r.kind # "create" => db.status[r.id] # "none")
  BY <1>1 DEF Sound, ExtendsBackup
<1>2. CASE Creates(r)
  <2>1. r.base = Zero /\ InitToken \notin Id /\ InitToken # NoId
    BY <1>2, TrustFenceAssumption DEF Creates, Request, Token
  <2>2. db.applied = {}
    BY <1>2 DEF Creates, Sound, NoPair
  <2>3. Sound(db)'
    BY <1>2, <2>1, <2>2 DEF Creates, Sound, Zero
  <2> QED
    BY <1>2, <2>3 DEF Creates, Sound, ExtendsBackup
<1>3. CASE Accepts(r)
  <2>1. r.base.epoch \in Nat /\ r.base.epoch + 1 # 0
    BY <1>0 DEF ExecRequest, Pair
  <2>2. Sound(db)'
    BY <1>0, <1>3, <2>1 DEF Accepts, Sound
  <2>3. ExtendsBackup'
    BY <1>0, <1>3 DEF Accepts, ExtendsBackup
  <2> QED
    BY <1>0, <1>3, <2>2, <2>3 DEF Accepts, Sound
<1>4. CASE Refuses(r)
  <2>1. Sound(db)'
    BY <1>0, <1>4 DEF Refuses, Sound
  <2>2. ExtendsBackup'
    BY <1>0, <1>4 DEF Refuses, ExtendsBackup
  <2> QED
    BY <1>0, <1>4, <2>1, <2>2 DEF Refuses, Sound
<1> QED
  BY <1>0, <1>1, <1>2, <1>3, <1>4, Outcomes

\* An Execute runs, now or late: nothing else holds its id.
LEMMA RunGlobals ==
    ASSUME IInv, IInv', OwnInv, NEW r, Request(r), db' \in Executed(db, r),
           UNCHANGED <<anchor, rv, put, snap, used, hist>>, exec' \subseteq exec,
           \A t \in Id : TailId(t)' => TailId(t),
           \A w \in Id : WriteOut(w)' => WriteOut(w) /\ (r.kind = "write" => w # r.id)
    PROVE  /\ Globals'
           /\ Pending(anchor) => (Spent => Spent') /\ (Dead => Dead')
<1> USE DEF OwnInv, Globals
<1>0. /\ Databases'
      /\ \A id \in Id : id # r.id => db'.status[id] = db.status[id]
      /\ db'.applied \subseteq db.applied \cup (IF r.kind = "write" THEN {r.id} ELSE {})
  BY ExecutedGrows
<1>1. r \in ExecRequest /\ NoId \notin Id /\ (r.kind # "create" => r.id \in Id) /\ (r.kind = "create" => r.id = NoId)
  BY Types DEF Request, ExecRequest
<1>2. Minted'
  BY <1>0, <1>1, Types DEF Minted, Request
<1>3. \A t : TailId(t)' => TailId(t)
  BY DEF TailId
<1>4. Bootstraps'
  BY <1>3 DEF Bootstraps
<1>5. InFlight'
  <2>1. ASSUME NEW q \in exec', q.kind = "write"
        PROVE  db'.status[q.id] = "none" /\ ~TailId(q.id)' /\ anchor.pid = q.id /\ q.base = BasePair(anchor)
    <3>1. q \in exec /\ q.id \in Id /\ WriteOut(q.id)'
      BY <2>1, Types DEF ExecRequest, WriteOut
    <3>2. db.status[q.id] = "none" /\ ~TailId(q.id) /\ anchor.pid = q.id /\ q.base = BasePair(anchor)
      BY <2>1, <3>1 DEF InFlight
    <3>3. q.id # r.id
      BY <1>1, <3>1, <3>2 DEF Request, ExecRequest
    <3> QED
      BY <1>0, <1>3, <3>1, <3>2, <3>3
  <2>2. \A t \in Id : TailId(t)' => t \notin db'.applied
    BY <1>0 DEF InFlight, Request
  <2> QED
    BY <2>1, <2>2 DEF InFlight
<1>6. Pending(anchor) => (Spent => Spent') /\ (Dead => Dead')
  BY <1>0, Types, PendingId DEF Spent, Dead, Request
<1>7. PutsAreSafe'
  <2>1. ASSUME NEW m \in put, m.rv = rv, ~Pending(anchor), Pending(m.next), anchor.epoch # 0
        PROVE  db'.status[m.next.pid] = "none"
    <3>1. m.next.pid \in Id /\ db.status[m.next.pid] = "none" /\ ~TailId(m.next.pid)
      BY <2>1, Types, PendingId DEF PutsAreSafe, Bootstraps
    <3>2. m.next.pid # r.id
      BY <1>1, <2>1, <3>1 DEF Request, ExecRequest, Pending
    <3> QED
      BY <1>0, <3>1, <3>2
  <2> QED
    BY <1>6, <2>1 DEF PutsAreSafe
<1>8. NoUnanchoredRows'
  BY <1>0 DEF NoUnanchoredRows, Request
<1> QED
  BY <1>0, <1>2, <1>4, <1>5, <1>6, <1>7, <1>8

\* A node that the execution leaves alone.
LEMMA RunNode ==
    ASSUME IInv, IInv', OwnInv, NEW r, Request(r), db' \in Executed(db, r),
           UNCHANGED <<anchor, rv, snap, used>>, exec' \subseteq exec,
           \A t \in Id : TailId(t)' => TailId(t),
           Pending(anchor) => (Spent => Spent') /\ (Dead => Dead'),
           NEW k \in Node, Keeps(k), r.kind = "write" /\ pc[k] \in OwnPC => r.id # rec[k].pid
    PROVE  NodeOwns(k)'
<1>1. NodeOwns(k) /\ Knows(k)
  BY DEF OwnInv, IInv, LocalPart
<1>2. pc[k] \in OwnPC => rec[k].pid \in Id
  BY NodeFacts DEF OwnPC, PendingPC
<1>3. pc[k] \in OwnPC => r.id # rec[k].pid
  BY <1>1, <1>2, Types DEF Request, ExecRequest, NodeOwns
<1>4. pc[k] \in OwnPC => db'.status[rec[k].pid] = "none"
  BY <1>1, <1>2, <1>3, ExecutedGrows DEF NodeOwns
<1>5. Current(k) /\ pc[k] \in ClosePC \cup DropPC => Pending(anchor)
  BY <1>1 DEF Knows, ClosePC, DropPC, PendingPC, MintedPC, Current
<1>6. pc[k] \in OwnPC => ~TailId(rec[k].pid)' /\ \A q \in exec' : q.id # rec'[k].pid
  BY <1>1, <1>2 DEF NodeOwns, Keeps
<1>7. Current(k)' <=> Current(k)
  BY DEF Current, Keeps
<1> QED
  BY <1>1, <1>4, <1>5, <1>6, <1>7 DEF NodeOwns, Keeps

\* A lost Execute is ordered after all.
LEMMA LateRunOwns ==
    ASSUME IInv, IInv', OwnInv, NEW r \in exec, LateRun(r)
    PROVE  OwnInv'
<1>1. /\ UNCHANGED <<anchor, rv, put, snap, used, hist>> /\ (\A k \in Node : Keeps(k))
      /\ exec' = exec \ {r} /\ db' \in Executed(db, r) /\ r \in ExecRequest
  BY Types DEF LateRun
<1>2. Request(r)
  BY <1>1, RequestOwns
<1>3. \A t \in Id : TailId(t)' => TailId(t)
  BY <1>1 DEF TailId, Keeps
<1>4. \A w \in Id : WriteOut(w)' => WriteOut(w)
  BY <1>1 DEF WriteOut, Keeps
<1>5. ASSUME r.kind = "write", WriteOut(r.id)' PROVE FALSE
  <2>1. CASE \E k \in Node : pc'[k] = "w_exec" /\ rec'[k].pid = r.id
    BY <1>1, <2>1 DEF Keeps, OwnInv, NodeOwns, OwnPC
  <2>2. CASE \E q \in exec' : q.kind = "write" /\ q.id = r.id
    <3>1. PICK q \in exec : q # r /\ q.kind = "write" /\ q.id = r.id
      BY <1>1, <2>2
    <3>2. q.base = r.base
      BY <1>5, <3>1 DEF OwnInv, Globals, InFlight
    <3>3. q \in ExecRequest
      BY <3>1, Types
    <3>4. q = [kind |-> "write", id |-> q.id, base |-> q.base] /\ r = [kind |-> "write", id |-> r.id, base |-> r.base]
      BY <1>1, <1>5, <3>1, <3>3 DEF ExecRequest
    <3> QED
      BY <3>1, <3>2, <3>4
  <2> QED
    BY <1>5, <2>1, <2>2 DEF WriteOut
<1>6. /\ Globals'
      /\ Pending(anchor) => (Spent => Spent') /\ (Dead => Dead')
  BY <1>1, <1>2, <1>3, <1>4, <1>5, RunGlobals
<1>7. ASSUME NEW k \in Node PROVE NodeOwns(k)'
  <2>1. pc[k] \in OwnPC => r.id # rec[k].pid
    BY DEF OwnInv, NodeOwns
  <2> QED
    BY <1>1, <1>2, <1>3, <1>6, <2>1, RunNode
<1>8. Alone'
  BY <1>1, StillAlone DEF Keeps, OwnInv
<1> QED
  BY <1>6, <1>7, <1>8 DEF OwnInv

\* A node's Execute runs and is answered.
LEMMA RunOwns ==
    ASSUME IInv, IInv', OwnInv, NEW n \in Node, NEW r \in ExecRequest, Runs(n, r)
    PROVE  OwnInv'
<1>1. /\ UNCHANGED <<anchor, rv, put, snap, exec, used, hist>> /\ Only(n) /\ Asks(n, r)
      /\ db' \in Executed(db, r)
      /\ pc'[n] \in {"s_get", "down", "f_base", "z_get", "w_final", "w_rejected"}
      /\ att'[n] \in {att[n], NoId}
  BY DEF Runs, Back
<1>2. Request(r) /\ NodeOwns(n)
  BY <1>1, RequestOwns DEF OwnInv
<1>3. \A t \in Id : TailId(t)' => TailId(t)
  BY <1>1, Types DEF TailId, Only, Keeps
<1>4. \A w \in Id : WriteOut(w)' => WriteOut(w)
  BY <1>1 DEF WriteOut, Only, Keeps
<1>5. r.kind = "write" => pc[n] = "w_exec" /\ rec[n].pid = r.id
  BY <1>1 DEF Asks
<1>6. r.kind = "write" => ~WriteOut(r.id)'
  BY <1>1, <1>2, <1>5 DEF WriteOut, Only, Keeps, OwnInv, NodeOwns, Alone, OwnPC
<1>7. /\ Globals'
      /\ Pending(anchor) => (Spent => Spent') /\ (Dead => Dead')
  BY <1>1, <1>2, <1>3, <1>4, <1>6, RunGlobals
<1>8. ASSUME NEW k \in Node, k # n PROVE NodeOwns(k)'
  <2>1. Keeps(k) /\ (r.kind = "write" /\ pc[k] \in OwnPC => r.id # rec[k].pid)
    BY <1>1, <1>5, <1>8 DEF Only, OwnInv, Alone, OwnPC
  <2> QED
    BY <1>1, <1>2, <1>3, <1>7, <2>1, RunNode
<1>9. NodeOwns(n)'
  <2>1. CASE Back(n)
    BY <1>1, <1>2, <2>1, BackNode
  <2>2. CASE ~Back(n)
    <3>1. /\ rec'[n] = rec[n] /\ ver'[n] = ver[n] /\ att'[n] = att[n]
          /\ \/ pc[n] = "f_create" /\ pc'[n] = "f_base"
             \/ pc[n] = "f_tail" /\ pc'[n] = "z_get"
             \/ /\ pc[n] = "w_exec"
                /\ pc'[n] = IF db'.status[rec[n].pid] = "committed" THEN "w_final" ELSE "w_rejected"
      BY <2>2 DEF Runs
    <3>2. /\ rec'[n].pid \in used' \cup {NoId} /\ att'[n] \in used' \cup {NoId}
          /\ rec'[n].boot => BasePair(rec[n]) = Zero
          /\ pc'[n] \in FencePC \cup {"b_cas"} => rec'[n].boot /\ rec'[n].pid = att'[n]
          /\ pc'[n] \notin {"b_exists", "b_verify", "w_exec"} \cup OwnPC
      BY <1>1, <1>2, <3>1 DEF NodeOwns, FencePC, OwnPC
    <3>3. pc[n] = "w_exec" => Spent' /\ r.id = anchor.pid /\ r.kind = "write" /\ r.id \in Id
      BY <1>1, <1>2, <1>6 DEF Asks, Request, Spent, ExecRequest
    <3>4. pc'[n] = "w_rejected" => Dead'
      <4>1. pc'[n] = "w_rejected" => db'.status[anchor.pid] # "committed" /\ pc[n] = "w_exec"
        BY <1>1, <1>5, <3>1, <3>3
      <4> QED
        BY <1>1, <1>7, <3>3, <4>1 DEF Dead, Globals, Databases, Sound
    <3>5. /\ pc'[n] \in ClosePC => Spent'
          /\ pc'[n] \in DropPC => Dead'
      BY <3>1, <3>3, <3>4 DEF ClosePC, DropPC
    <3> QED
      BY <3>1, <3>2, <3>5 DEF NodeOwns
  <2> QED
    BY <2>1, <2>2
<1>10. Alone'
  BY <1>1, StillAlone DEF Only, Keeps, OwnInv, OwnPC
<1> QED
  BY <1>7, <1>8, <1>9, <1>10 DEF OwnInv

\* Ownership holds initially and is kept by every step.
LEMMA InitOwns == Init => OwnInv
<1> SUFFICES ASSUME Init PROVE OwnInv
  OBVIOUS
<1>1. PICK s \in Starts :
         /\ anchor = [epoch |-> 0, token |-> InitToken, pid |-> NoId, boot |-> (s = "greenfield")]
         /\ db = [pair |-> IF s = "greenfield" THEN NoPair
                                              ELSE [epoch |-> 0, token |-> InitToken],
                  migrated |-> (s = "established"),
                  applied |-> {}, status |-> [id \in Id |-> "none"]]
  BY DEF Init
<1>2. \A t : ~TailId(t)
  BY TrustFenceAssumption DEF Init, TailId, Token
<1>3. Databases
  BY <1>1, TrustFenceAssumption DEF Init, Databases, Sound, ExtendsBackup, NoPair, Token
<1>4. Minted /\ InFlight /\ PutsAreSafe /\ NoUnanchoredRows
  BY <1>1 DEF Init, Minted, InFlight, PutsAreSafe, NoUnanchoredRows
<1>5. Bootstraps
  BY <1>1, <1>2 DEF Init, Bootstraps
<1>6. (\A n \in Node : NodeOwns(n)) /\ Alone
  BY DEF Init, NodeOwns, Alone, NoRecord, FencePC, OwnPC, ClosePC, DropPC
<1> QED
  BY <1>3, <1>4, <1>5, <1>6 DEF OwnInv, Globals

\* Every step keeps it.
LEMMA NextOwns == ASSUME IInv, IInv', OwnInv, [Next]_vars PROVE OwnInv'
<1>1. Kind
  BY NextKind
<1>2. ASSUME NEW n \in Node, NodeKind(n) PROVE OwnInv'
  BY <1>2, LeadOwns, LookOwns, PassOwns, MintOwns, RewriteOwns, ReserveOwns, LosePutOwns,
     RunOwns, LoseRunOwns DEF NodeKind
<1> QED
  BY <1>1, <1>2, RestOwns, RestoreOwns, StoreOwns, LateRunOwns DEF Kind

-----------------------------------------------------------------------------
(* Whose rows the database holds                                           *)

\* The rows X that belong to the anchor's pair, and the rows Y that belong to
\* its reservation.
Belong(X, Y) ==
    /\ witnessed \subseteq X /\ X \subseteq Y /\ Y \subseteq X \cup {anchor.pid}
    /\ ~Pending(anchor) => Y = X
    /\ TailId(anchor.token) => anchor.epoch = 1
    /\ anchor.epoch = 0 \/ TailId(anchor.token) => X = {}
    /\ TailId(anchor.pid) => Y = X

\* A database, the current or the backed-up one, that is at either pair holds
\* them; and behind a backup at either pair the database has nothing more.
Stored(X, Y) ==
    /\ \A d \in {db, snap} :
           /\ d.pair = BasePair(anchor) => d.applied = X
           /\ Pending(anchor) /\ d.pair = PendingPair(anchor) => d.applied = Y
    /\ snap.pair = BasePair(anchor) => db.applied \in {X, X \cup {anchor.pid}}
    /\ Pending(anchor) /\ snap.pair = PendingPair(anchor) => db.applied = Y

\* No database is, or can come, back at the anchor's pair.
Left ==
    /\ db.pair # BasePair(anchor) /\ snap.pair # BasePair(anchor)
    /\ anchor.epoch # 0 /\ ~TailId(anchor.token)

\* A node at its finalization committed its own row; a read whose anchor is still
\* current has the rows of the anchor's pair, or will not be verified.
Reads(n, X, Y) ==
    /\ Current(n) /\ pc[n] = "w_final" => anchor.pid \in Y
    /\ Current(n) /\ pc[n] \in {"r_query", "r_verify", "r_get"} => ~Pending(anchor)
    /\ Current(n) /\ pc[n] = "r_get" => rows[n] = X
    /\ Current(n) /\ pc[n] = "r_verify" => rows[n] = X \/ Left

Contents(X, Y) == Belong(X, Y) /\ Stored(X, Y) /\ \A n \in Node : Reads(n, X, Y)
RowsInv == (\E X, Y \in SUBSET Id : Contents(X, Y)) /\ ReadsAreFresh

\* Answered reads stay fresh when no other read is answered.
LEMMA StillFresh ==
    ASSUME ReadsAreFresh, \A k \in Node : pc'[k] = "r_done" => Keeps(k)
    PROVE  ReadsAreFresh'
BY DEF ReadsAreFresh, Keeps

\* Ids mentioned by the anchor are old.
LEMMA AnchorIds ==
    ASSUME IInv, OwnInv
    PROVE  /\ anchor.pid \in Id => anchor.pid \in used
           /\ anchor.token \in Id => anchor.token \in used
           /\ anchor.token # NoId
BY Types, TrustFenceAssumption DEF OwnInv, Globals, Minted, Bootstraps, Record, Token

\* While the anchor stays, nothing belongs elsewhere.
LEMMA StillBelong ==
    ASSUME IInv, OwnInv, NEW X \in SUBSET Id, NEW Y \in SUBSET Id, Belong(X, Y), anchor' = anchor,
           \A t \in Id : TailId(t)' => TailId(t) \/ t \notin used, witnessed' \subseteq X
    PROVE  Belong(X, Y)'
<1>1. /\ TailId(anchor.pid)' => TailId(anchor.pid)
      /\ TailId(anchor.token)' => TailId(anchor.token)
  BY AnchorIds DEF TailId
<1> QED
  BY <1>1 DEF Belong

\* A node that a step leaves alone reads on.
LEMMA StillReads ==
    ASSUME IInv, IInv', OwnInv, NEW X, NEW Y, anchor' = anchor, rv' >= rv,
           \A t \in Id : TailId(t)' => TailId(t) \/ t \notin used,
           Left => Left', NEW k \in Node, Reads(k, X, Y), Keeps(k)
    PROVE  Reads(k, X, Y)'
<1>1. Current(k)' => Current(k)
  <2>1. ver[k] \in Nat /\ ver[k] <= rv /\ rv \in Nat /\ rv' \in Nat
    BY Types DEF IInv, AnchorPart
  <2> QED
    BY <2>1 DEF Current, Keeps
<1> QED
  BY <1>1 DEF Reads, Keeps

\* A node that goes back reads nothing.
LEMMA BackReads ==
    ASSUME IInv', NEW X, NEW Y, NEW k \in Node, Back(k)
    PROVE  Reads(k, X, Y)'
BY DEF Reads, Back

\* Neither does one that goes on to where nothing is read.
LEMMA ElseReads ==
    ASSUME NEW X, NEW Y, NEW k \in Node, pc'[k] \notin {"w_final", "r_query", "r_verify", "r_get"}
    PROVE  Reads(k, X, Y)'
BY DEF Reads

\* On the first pair there are no rows, nor right after the bootstrap fence.
LEMMA FirstPairEmpty ==
    ASSUME IInv, OwnInv, NEW X, NEW Y, Belong(X, Y), ~Pending(anchor), anchor.epoch = 0 \/ TailId(anchor.token)
    PROVE  X = {} /\ db.applied = {} /\ snap.applied = {}
<1>1. db.applied \subseteq hist \cup {anchor.pid} /\ snap.applied \subseteq db.applied /\ db.applied \subseteq Id
  BY Types DEF OwnInv, Globals, NoUnanchoredRows, Databases, ExtendsBackup, Database
<1>2. NoId \notin Id /\ InitToken \notin Id /\ anchor.pid = NoId
  BY TrustFenceAssumption DEF Token, Pending
<1>3. CASE anchor.epoch = 0
  BY <1>1, <1>2, <1>3 DEF OwnInv, Globals, Bootstraps, Belong
<1>4. CASE TailId(anchor.token)
  <2>1. anchor.epoch = 1 /\ hist = {InitToken, anchor.token} /\ anchor.token \in Id
    BY <1>4 DEF Belong, OwnInv, Globals, Bootstraps, TailId
  <2>2. anchor.token \notin db.applied
    BY <1>4, <2>1 DEF OwnInv, Globals, InFlight
  <2> QED
    BY <1>1, <1>2, <1>4, <2>1, <2>2 DEF Belong
<1> QED
  BY <1>3, <1>4


\* Only a fresh id becomes a bootstrap id.
LEMMA TailsOld ==
    ASSUME IInv, OwnInv, Kind
    PROVE  \A t \in Id : TailId(t)' => TailId(t) \/ t \notin used
<1>1. ASSUME \A k \in Node : att'[k] \in {att[k], NoId} \/ (att'[k] \notin used),
             \A r \in exec' : r \in exec \/ (r.kind = "tail" => TailId(r.id))
      PROVE  \A t \in Id : TailId(t)' => TailId(t) \/ t \notin used
  BY <1>1, Types DEF TailId
<1>2. ASSUME NEW n \in Node, NodeKind(n)
      PROVE  \A t \in Id : TailId(t)' => TailId(t) \/ t \notin used
  <2>1. CASE \E p \in PC : Moves(n, p) \/ Looks(n, p) \/ Migrates(n, p)
    BY <1>1, <2>1 DEF Moves, Looks, Migrates, Fixed, Only, Keeps, Holds
  <2>2. CASE \E id \in Id : Mints(n, id)
    BY <1>1, <2>2 DEF Mints, Only, Keeps
  <2>3. CASE Rewrites(n) \/ Reserves(n) \/ Queries(n) \/ Answers(n)
    BY <1>1, <2>3 DEF Rewrites, Reserves, Queries, Answers, Fixed, Only, Keeps
  <2>4. CASE \E next \in Record : LosesPut(n, next)
    BY <1>1, <2>4 DEF LosesPut, Only, Keeps, Back
  <2>5. CASE \E r \in ExecRequest : Runs(n, r)
    BY <1>1, <2>5 DEF Runs, Only, Keeps, Back
  <2>6. CASE \E r \in ExecRequest : LosesRun(n, r)
    <3>1. PICK r \in ExecRequest : LosesRun(n, r)
      BY <2>6
    <3>2. r.kind = "tail" => TailId(r.id)
      BY <3>1, RequestOwns DEF LosesRun, Request
    <3> QED
      BY <1>1, <3>1, <3>2 DEF LosesRun, Only, Keeps, Back
  <2> QED
    BY <1>2, <2>1, <2>2, <2>3, <2>4, <2>5, <2>6 DEF NodeKind
<1>3. CASE Rests \/ Saves \/ Restores
  BY <1>1, <1>3 DEF Rests, Saves, Restores, Keeps, Back
<1>4. CASE \E next \in Record : Stores(next)
  BY <1>1, <1>4 DEF Stores, Keeps, Back
<1>5. CASE \E r \in exec : LateRun(r)
  BY <1>1, <1>5 DEF LateRun, Keeps
<1> QED
  BY <1>2, <1>3, <1>4, <1>5 DEF Kind

\* The databases are the same, but for the schema.
SameRows ==
    /\ db'.pair = db.pair /\ db'.applied = db.applied /\ db'.status = db.status
    /\ snap' = snap

\* One node moves, the anchor and the databases stay.
LEMMA MoveRows ==
    ASSUME IInv, IInv', OwnInv, Kind, NEW X \in SUBSET Id, NEW Y \in SUBSET Id, Contents(X, Y),
           ReadsAreFresh, anchor' = anchor, rv' >= rv, SameRows, witnessed' \subseteq X,
           \A k \in Node : Keeps(k) \/ Back(k) \/ Reads(k, X, Y)',
           \A k \in Node : pc'[k] = "r_done" => Keeps(k) \/ floor'[k] \subseteq rows'[k]
    PROVE  RowsInv'
<1>1. \A t \in Id : TailId(t)' => TailId(t) \/ t \notin used
  BY TailsOld
<1>2. Belong(X, Y)'
  BY <1>1, StillBelong DEF Contents
<1>3. Stored(X, Y)'
  BY DEF Contents, Stored, SameRows
<1>4. Left => Left'
  <2>1. TailId(anchor.token)' => TailId(anchor.token)
    BY <1>1, AnchorIds DEF TailId
  <2> QED
    BY <2>1 DEF Left, SameRows
<1>5. \A k \in Node : Reads(k, X, Y)'
  BY <1>1, <1>4, StillReads, BackReads DEF Contents
<1>6. ReadsAreFresh'
  BY DEF ReadsAreFresh, Keeps
<1>7. Contents(X, Y)'
  BY <1>2, <1>3, <1>5 DEF Contents
<1> QED
  BY <1>6, <1>7 DEF RowsInv

\* Steps of a node that do not change the anchor's record or the rows.
LEMMA QuietRows ==
    ASSUME IInv, IInv', OwnInv, Kind, RowsInv, NEW n \in Node,
           \/ \E p \in PC : Moves(n, p) \/ Looks(n, p) \/ Migrates(n, p)
           \/ \E id \in Id : Mints(n, id)
           \/ Rewrites(n) \/ Queries(n) \/ Answers(n)
           \/ \E next \in Record : LosesPut(n, next)
           \/ \E r \in ExecRequest : LosesRun(n, r)
    PROVE  RowsInv'
<1>1. PICK X \in SUBSET Id, Y \in SUBSET Id : Contents(X, Y)
  BY DEF RowsInv
<1>2. ReadsAreFresh /\ witnessed \subseteq X /\ rv \in Nat /\ db \in Database /\ Reads(n, X, Y)
  BY <1>1, Types DEF RowsInv, Contents, Belong
<1>3. ASSUME NEW p \in PC, Moves(n, p) PROVE RowsInv'
  <2>1. anchor' = anchor /\ rv' = rv /\ rv' >= rv /\ SameRows /\ witnessed' = witnessed /\ Only(n)
        /\ p \notin {"w_final", "r_query", "r_verify", "r_done"}
    BY <1>2, <1>3 DEF Moves, Fixed, SameRows, Leads, FencePC
  <2>2. Reads(n, X, Y)'
    <3>1. CASE p = "r_get"
      <4>1. pc[n] = "r_verify" /\ db.pair = BasePair(rec[n]) /\ rows'[n] = rows[n] /\ ver'[n] = ver[n] /\ pc'[n] = "r_get"
        BY <1>3, <3>1 DEF Moves, Leads, FencePC, Holds
      <4>2. Current(n) => rec[n] = anchor
        BY <4>1 DEF IInv, LocalPart, Knows, Current, MintedPC
      <4>3. Current(n) => rows[n] = X /\ ~Pending(anchor)
        BY <1>2, <4>1, <4>2 DEF Reads, Left
      <4> QED
        BY <2>1, <4>1, <4>3 DEF Reads, Current
    <3>2. CASE p # "r_get"
      BY <1>3, <2>1, <3>2, ElseReads DEF Moves, Holds
    <3> QED
      BY <3>1, <3>2
  <2>3. pc'[n] # "r_done"
    BY <1>3, <2>1 DEF Moves, Holds
  <2> QED
    BY <1>1, <1>2, <2>1, <2>2, <2>3, MoveRows DEF Only
<1>4. ASSUME NEW p \in PC, Looks(n, p) PROVE RowsInv'
  <2>1. anchor' = anchor /\ rv' = rv /\ rv' >= rv /\ SameRows /\ witnessed' = witnessed /\ Only(n)
        /\ pc'[n] = p /\ p \notin {"w_final", "r_verify", "r_get", "r_done"} /\ (p = "r_query" => ~Pending(anchor))
    BY <1>2, <1>4 DEF Looks, Fixed, SameRows
  <2>2. Reads(n, X, Y)'
    BY <2>1 DEF Reads
  <2> QED
    BY <1>1, <1>2, <2>1, <2>2, MoveRows DEF Only
<1>5. ASSUME \/ \E p \in PC : Migrates(n, p)
             \/ \E id \in Id : Mints(n, id)
             \/ \E next \in Record : LosesPut(n, next)
             \/ \E r \in ExecRequest : LosesRun(n, r)
      PROVE  RowsInv'
  <2>1. anchor' = anchor /\ rv' = rv /\ SameRows /\ witnessed' = witnessed /\ Only(n)
    BY <1>2, <1>5 DEF Migrates, Mints, LosesPut, LosesRun, SameRows, Database
  <2>2. pc'[n] \notin {"w_final", "r_query", "r_verify", "r_get", "r_done"}
    BY <1>5 DEF Migrates, Mints, LosesPut, LosesRun, Holds, Back
  <2>3. Reads(n, X, Y)' /\ rv' >= rv
    BY <1>2, <2>1, <2>2, ElseReads
  <2> QED
    BY <1>1, <1>2, <2>1, <2>2, <2>3, MoveRows DEF Only
<1>6. CASE Rewrites(n)
  <2>1. anchor' = anchor /\ rv' = rv + 1 /\ rv' >= rv /\ SameRows /\ witnessed' = witnessed /\ Only(n)
        /\ Current(n) /\ pc'[n] = pc[n] /\ rows'[n] = rows[n] /\ floor'[n] = floor[n] /\ db' = db /\ snap' = snap
    BY <1>2, <1>6 DEF Rewrites, SameRows
  <2>2. Left => Left'
    <3>1. TailId(anchor.token)' => TailId(anchor.token)
      BY <2>1, TailsOld, AnchorIds DEF TailId
    <3> QED
      BY <2>1, <3>1 DEF Left
  <2>3. Reads(n, X, Y)'
    BY <1>2, <2>1, <2>2 DEF Reads
  <2> QED
    BY <1>1, <1>2, <2>1, <2>3, MoveRows DEF Only, ReadsAreFresh
<1>7. CASE Queries(n)
  <2>1. anchor' = anchor /\ rv' = rv /\ rv' >= rv /\ SameRows /\ witnessed' = witnessed /\ Only(n)
        /\ pc'[n] = "r_verify" /\ pc[n] = "r_query" /\ ver'[n] = ver[n] /\ rows'[n] = db.applied /\ db' = db /\ snap' = snap
    BY <1>2, <1>7 DEF Queries, Fixed, SameRows
  <2>2. Current(n) => ~Pending(anchor)
    BY <1>2, <2>1 DEF Reads
  <2>3. Left => Left'
    <3>1. TailId(anchor.token)' => TailId(anchor.token)
      BY <2>1, TailsOld, AnchorIds DEF TailId
    <3> QED
      BY <2>1, <3>1 DEF Left
  <2>4. Current(n) => db.applied = X \/ Left
    <3>1. Current(n) /\ (anchor.epoch = 0 \/ TailId(anchor.token)) => db.applied = X
      BY <1>1, <2>2, FirstPairEmpty DEF Contents
    <3>2. db.pair = BasePair(anchor) => db.applied = X
      BY <1>1 DEF Contents, Stored
    <3>3. Current(n) /\ snap.pair = BasePair(anchor) => db.applied = X
      BY <1>1, <1>2, <2>2, Types DEF Contents, Stored, Pending, Database
    <3> QED
      BY <3>1, <3>2, <3>3 DEF Left
  <2>5. Reads(n, X, Y)'
    BY <2>1, <2>2, <2>3, <2>4 DEF Reads, Current
  <2> QED
    BY <1>1, <1>2, <2>1, <2>5, MoveRows DEF Only
<1>8. CASE Answers(n)
  <2>1. anchor' = anchor /\ rv' = rv /\ rv' >= rv /\ SameRows /\ witnessed' = witnessed \cup rows[n] /\ Only(n)
        /\ pc'[n] = "r_done" /\ pc[n] = "r_get" /\ Current(n) /\ rows'[n] = rows[n] /\ floor'[n] = witnessed
    BY <1>2, <1>8 DEF Answers, SameRows, ReadUnchanged, Current
  <2>2. rows[n] = X
    BY <1>2, <2>1 DEF Reads
  <2>3. Reads(n, X, Y)'
    BY <2>1, ElseReads
  <2>4. witnessed' \subseteq X
    BY <1>2, <2>1, <2>2
  <2> QED
    BY <1>1, <1>2, <2>1, <2>2, <2>3, <2>4, MoveRows DEF Only
<1> QED
  BY <1>3, <1>4, <1>5, <1>6, <1>7, <1>8

\* Nothing happens; a backup is taken or restored: the two databases agree about
\* the rows of the anchor's pairs.
LEMMA RestRows ==
    ASSUME IInv, IInv', OwnInv, Kind, RowsInv, Rests \/ Saves \/ Restores
    PROVE  RowsInv'
<1>1. PICK X \in SUBSET Id, Y \in SUBSET Id : Contents(X, Y)
  BY DEF RowsInv
<1>2. /\ anchor' = anchor /\ rv' = rv /\ witnessed' = witnessed /\ rv' >= rv /\ ReadsAreFresh
      /\ \A k \in Node : Keeps(k) \/ Back(k)
      /\ (db' = db /\ snap' = snap) \/ (db' = db /\ snap' = db) \/ (db' = snap /\ snap' = snap)
  BY Types DEF Rests, Saves, Restores, RowsInv
<1>3. \A t \in Id : TailId(t)' => TailId(t) \/ t \notin used
  BY TailsOld
<1>4. Belong(X, Y)'
  BY <1>1, <1>2, <1>3, StillBelong DEF Contents, Belong
<1>5. Stored(X, Y)'
  BY <1>1, <1>2 DEF Contents, Stored
<1>6. Left => Left'
  <2>1. TailId(anchor.token)' => TailId(anchor.token)
    BY <1>2, <1>3, AnchorIds DEF TailId
  <2> QED
    BY <1>2, <2>1 DEF Left
<1>7. \A k \in Node : Reads(k, X, Y)'
  BY <1>1, <1>2, <1>3, <1>6, StillReads, BackReads DEF Contents
<1>8. ReadsAreFresh'
  BY <1>2, StillFresh DEF Back
<1>9. Contents(X, Y)'
  BY <1>4, <1>5, <1>7 DEF Contents
<1> QED
  BY <1>8, <1>9 DEF RowsInv

\* A reservation: its rows are those of the pair it is made on.
LEMMA ReservedRows ==
    ASSUME IInv, IInv', OwnInv, NEW X \in SUBSET Id, NEW Y \in SUBSET Id, Contents(X, Y),
           ~Pending(anchor), Pending(anchor'), anchor' = Reserve(anchor, anchor'.pid),
           anchor'.pid \in used, anchor.epoch = 0 \/ db.status[anchor'.pid] = "none",
           UNCHANGED <<db, snap, witnessed>>,
           \A t \in Id : TailId(t)' => TailId(t) \/ t \notin used
    PROVE  Belong(X, X)' /\ Stored(X, X)'
<1>1. /\ anchor'.epoch = anchor.epoch /\ anchor'.token = anchor.token
      /\ BasePair(anchor)' = BasePair(anchor) /\ Y = X /\ anchor.pid = NoId /\ anchor'.pid \in Id
      /\ db.applied \subseteq Id /\ snap \in Database /\ db \in Database
  BY Types DEF Reserve, Record, BasePair, Contents, Belong, Pending, Database
<1>2. TailId(anchor.token)' => TailId(anchor.token)
  BY <1>1, AnchorIds DEF TailId
<1>3. Belong(X, X)'
  BY <1>1, <1>2 DEF Contents, Belong
<1>4. \A d \in {db, snap} : d.pair = PendingPair(anchor)' => db.applied = X /\ d.applied = X
  <2>1. CASE anchor.epoch = 0
    BY <2>1, FirstPairEmpty DEF Contents
  <2>2. CASE db.status[anchor'.pid] = "none"
    <3>1. \A d \in {db, snap} : d.pair = PendingPair(anchor)' => d.pair.token = anchor'.pid
      BY DEF PendingPair
    <3>2. \A d \in {db, snap} : d.status[anchor'.pid] # "committed"
      BY <1>1, <2>2 DEF OwnInv, Globals, Databases, ExtendsBackup
    <3> QED
      BY <1>1, <3>1, <3>2 DEF OwnInv, Globals, Databases, Sound
  <2> QED
    BY <2>1, <2>2
<1>5. snap.pair = BasePair(anchor) => db.applied = X
  BY <1>1, Types DEF Contents, Stored
<1>6. Stored(X, X)'
  BY <1>1, <1>4, <1>5 DEF Contents, Stored
<1> QED
  BY <1>3, <1>6

\* The anchor moves: finalized, the rows of the reservation are those of the new
\* pair; cleared, nothing has been left behind.
LEMMA StoreRows ==
    ASSUME IInv, IInv', OwnInv, Kind, RowsInv, NEW next \in Record, Stores(next)
    PROVE  RowsInv'
<1>1. PICK X \in SUBSET Id, Y \in SUBSET Id : Contents(X, Y)
  BY DEF RowsInv
<1>2. /\ UNCHANGED <<db, snap, exec, used>> /\ anchor' = next /\ rv' = rv + 1 /\ rv \in Nat
      /\ \A k \in Node : Keeps(k) \/ Back(k)
  BY Types DEF Stores
<1>3. \A t \in Id : TailId(t)' => TailId(t) \/ t \notin used
  BY TailsOld
<1>4. ASSUME NEW Z, NEW k \in Node PROVE Reads(k, Z, Z)'
  <2>1. CASE Back(k)
    BY <2>1, BackReads
  <2>2. CASE Keeps(k)
    <3>1. ~Current(k)'
      BY <1>2, <2>2, Types DEF Current, Keeps
    <3> QED
      BY <3>1 DEF Reads
  <2> QED
    BY <1>2, <2>1, <2>2
<1>5. ReadsAreFresh'
  BY <1>2, StillFresh DEF Back, RowsInv
<1>6. ASSUME NEW Z \in SUBSET Id, Belong(Z, Z)', Stored(Z, Z)' PROVE RowsInv'
  <2>1. Contents(Z, Z)'
    BY <1>4, <1>6 DEF Contents
  <2> QED
    BY <1>5, <1>6, <2>1 DEF RowsInv
<1>7. \/ next = anchor
      \/ next = Finalize(anchor) /\ Pending(anchor) /\ Spent
      \/ next = Clear(anchor) /\ Pending(anchor) /\ Dead
      \/ /\ ~Pending(anchor) /\ Pending(next) /\ next = Reserve(anchor, next.pid)
         /\ next.pid \in used /\ (TailId(next.pid) => anchor.boot)
         /\ anchor.epoch = 0 \/ db.status[next.pid] = "none"
  BY SuccessorOwns DEF Stores
<1>8. /\ witnessed \subseteq X /\ X \subseteq Y /\ Y \subseteq X \cup {anchor.pid}
      /\ witnessed' \subseteq witnessed \cup {anchor.pid}
      /\ witnessed' # witnessed => next = Finalize(anchor) /\ anchor.pid \in Y
  <2>1. ASSUME NEW n \in Node, Closes(n, next), pc[n] = "w_final"
        PROVE  next = Finalize(anchor) /\ anchor.pid \in Y
    BY <1>1, <2>1 DEF Closes, Contents, Reads
  <2> QED
    BY <1>1, <2>1 DEF Stores, Contents, Belong
<1>9. /\ Finalize(anchor).epoch = anchor.epoch + 1 /\ Finalize(anchor).token = anchor.pid
      /\ Finalize(anchor).pid = NoId /\ anchor.epoch \in Nat
      /\ Clear(anchor).epoch = anchor.epoch /\ Clear(anchor).token = anchor.token /\ Clear(anchor).pid = NoId
      /\ (Pending(anchor) => anchor.pid \in Id) /\ NoId \notin Id /\ db.applied \subseteq Id
  BY Types DEF Finalize, Clear, Record, Pending, Database
<1>10. CASE next = anchor
  <2>1. witnessed' = witnessed
    BY <1>8, <1>9, <1>10
  <2>2. Belong(X, Y)'
    BY <1>1, <1>2, <1>3, <1>8, <1>10, <2>1, StillBelong DEF Contents
  <2>3. Stored(X, Y)'
    BY <1>1, <1>2, <1>10 DEF Contents, Stored
  <2>4. \A k \in Node : Reads(k, X, Y)'
    <3>1. ASSUME NEW k \in Node PROVE Reads(k, X, Y)'
      <4>1. CASE Back(k)
        BY <4>1, BackReads
      <4>2. CASE Keeps(k)
        <5>1. ~Current(k)'
          BY <1>2, <4>2, Types DEF Current, Keeps
        <5> QED
          BY <5>1 DEF Reads
      <4> QED
        BY <1>2, <4>1, <4>2
    <3> QED
      BY <3>1
  <2>5. Contents(X, Y)'
    BY <2>2, <2>3, <2>4 DEF Contents
  <2> QED
    BY <1>5, <2>5 DEF RowsInv
<1>11. CASE next = Finalize(anchor) /\ Pending(anchor) /\ Spent
  <2>1. BasePair(anchor)' = PendingPair(anchor) /\ ~Pending(anchor') /\ anchor'.epoch = anchor.epoch + 1
        /\ anchor'.token = anchor.pid /\ anchor'.pid = NoId
    BY <1>2, <1>9, <1>11 DEF BasePair, PendingPair, Pending
  <2>2. TailId(anchor.token)' => TailId(anchor.pid)
    BY <1>3, <1>9, <1>11, <2>1, AnchorIds DEF TailId
  <2>3. TailId(anchor.pid) => anchor.epoch = 0 /\ Y = X /\ X = {}
    BY <1>1 DEF OwnInv, Globals, Bootstraps, Contents, Belong
  <2>4. ~TailId(anchor.pid)'
    BY <1>9, <2>1 DEF TailId
  <2>5. witnessed' \subseteq Y
    BY <1>8
  <2>6. anchor'.epoch # 0 /\ (anchor.epoch = 0 => anchor'.epoch = 1)
    BY <1>9, <2>1
  <2>7. Belong(Y, Y)'
    BY <2>1, <2>2, <2>3, <2>4, <2>5, <2>6 DEF Belong
  <2>8. Stored(Y, Y)'
    BY <1>1, <1>2, <1>11, <2>1 DEF Contents, Stored
  <2> QED
    BY <1>6, <2>7, <2>8
<1>12. CASE next = Clear(anchor) /\ Pending(anchor) /\ Dead
  <2>1. BasePair(anchor)' = BasePair(anchor) /\ ~Pending(anchor') /\ anchor'.epoch = anchor.epoch
        /\ anchor'.token = anchor.token /\ anchor'.pid = NoId /\ witnessed' = witnessed
    <3>1. Clear(anchor) # Finalize(anchor)
      BY <1>9
    <3> QED
      BY <1>2, <1>8, <1>9, <1>12, <3>1 DEF BasePair, Pending
  <2>2. TailId(anchor.token)' => TailId(anchor.token)
    BY <1>3, <2>1, AnchorIds DEF TailId
  <2>3. Belong(X, X)'
    BY <1>1, <1>8, <2>1, <2>2 DEF Contents, Belong
  <2>4. snap.pair = BasePair(anchor) => db.applied = X
    BY <1>1, <1>12 DEF Contents, Stored, Dead
  <2>5. Stored(X, X)'
    BY <1>1, <1>2, <2>1, <2>4 DEF Contents, Stored
  <2> QED
    BY <1>6, <2>3, <2>5
<1>13. CASE /\ ~Pending(anchor) /\ Pending(next) /\ next = Reserve(anchor, next.pid)
            /\ next.pid \in used /\ (anchor.epoch = 0 \/ db.status[next.pid] = "none")
  <2>1. witnessed' = witnessed
    <3>1. Reserve(anchor, next.pid) # Finalize(anchor)
      BY <1>9, <1>13 DEF Pending
    <3> QED
      BY <1>8, <1>13, <3>1
  <2>2. Belong(X, X)' /\ Stored(X, X)'
    BY <1>1, <1>2, <1>3, <1>13, <2>1, ReservedRows
  <2> QED
    BY <1>6, <2>2
<1> QED
  BY <1>7, <1>10, <1>11, <1>12, <1>13

\* A node makes its reservation.
LEMMA ReserveRows ==
    ASSUME IInv, IInv', OwnInv, Kind, RowsInv, NEW n \in Node, Reserves(n)
    PROVE  RowsInv'
<1>1. PICK X \in SUBSET Id, Y \in SUBSET Id : Contents(X, Y)
  BY DEF RowsInv
<1>2. /\ UNCHANGED <<db, snap, witnessed>> /\ anchor' = rec[n] /\ rv' = rv + 1 /\ rv \in Nat
      /\ Only(n) /\ pc'[n] \in {"f_verify", "w_exec"} /\ ~Pending(anchor) /\ Current(n)
      /\ pc[n] \in MintedPC
  BY Types DEF Reserves, MintedPC
<1>3. /\ anchor' \in Record /\ Pending(anchor') /\ anchor' = Reserve(anchor, anchor'.pid)
      /\ anchor'.pid \in used /\ (anchor.epoch = 0 \/ db.status[anchor'.pid] = "none")
  <2>1. anchor' \in Record /\ Pending(rec[n])
    BY <1>2, NodeFacts DEF MintedPC, PendingPC
  <2> DEFINE x == anchor'
  <2>2. Current(n) /\ pc[n] \in MintedPC /\ ~Pending(anchor) /\ x = rec[n] /\ x \in Record /\ Pending(x)
    BY <1>2, <2>1
  <2> HIDE DEF x
  <2>3. Pending(x) /\ x = Reserve(anchor, x.pid) /\ x.pid \in used /\ (anchor.epoch = 0 \/ db.status[x.pid] = "none")
    BY <2>2, SuccessorOwns
  <2> QED
    BY <2>2, <2>3 DEF x
<1>4. \A t \in Id : TailId(t)' => TailId(t) \/ t \notin used
  BY TailsOld
<1>5. Belong(X, X)' /\ Stored(X, X)'
  BY <1>1, <1>2, <1>3, <1>4, ReservedRows
<1>6. ASSUME NEW k \in Node PROVE Reads(k, X, X)'
  <2>1. CASE k = n
    BY <1>2, <2>1, ElseReads
  <2>2. CASE k # n
    <3>1. ~Current(k)'
      BY <1>2, <2>2, Types DEF Only, Current, Keeps
    <3> QED
      BY <3>1 DEF Reads
  <2> QED
    BY <2>1, <2>2
<1>7. Contents(X, X)'
  BY <1>5, <1>6 DEF Contents
<1>8. ReadsAreFresh'
  BY <1>2, StillFresh DEF RowsInv, Only
<1> QED
  BY <1>7, <1>8 DEF RowsInv

\* An execution: the trust row is created or moved by a bootstrap fence while
\* there are no rows, or a write adds its own row to those of the anchor's pair.
LEMMA RunRows ==
    ASSUME IInv, IInv', OwnInv, Kind, RowsInv, NEW r, Request(r), db' \in Executed(db, r),
           UNCHANGED <<anchor, rv, snap, witnessed>>,
           \A k \in Node : \/ Keeps(k)
                           \/ pc'[k] \notin {"w_final", "r_query", "r_verify", "r_get", "r_done"}
                           \/ pc'[k] = "w_final" /\ Accepts(r) /\ r.kind = "write"
    PROVE  RowsInv'
<1>1. PICK X \in SUBSET Id, Y \in SUBSET Id : Contents(X, Y)
  BY DEF RowsInv
<1>2. /\ rv' >= rv /\ ReadsAreFresh /\ r \in ExecRequest /\ anchor \in Record /\ anchor.epoch \in Nat
      /\ db \in Database /\ snap \in Database /\ (r.kind # "create" => r.id \in Id) /\ witnessed \subseteq X
      /\ NoId \notin Id /\ Sound(db) /\ Sound(snap) /\ ExtendsBackup
  BY <1>1, Types DEF RowsInv, Request, ExecRequest, Record, Contents, Belong, OwnInv, Globals, Databases
<1>3. \A t \in Id : TailId(t)' => TailId(t) \/ t \notin used
  BY TailsOld
<1>4. TailId(anchor.token)' => TailId(anchor.token)
  BY <1>3, AnchorIds DEF TailId
<1>5. ReadsAreFresh'
  BY <1>2, StillFresh
<1>6. BasePair(anchor) # PendingPair(anchor)
  BY <1>2 DEF BasePair, PendingPair
<1>7. ASSUME NEW Z \in SUBSET Id, Belong(X, Z)', Stored(X, Z)', Left => Left',
             Accepts(r) /\ r.kind = "write" => anchor.pid \in Z,
             Z = Y \/ (Pending(anchor) /\ anchor.pid \in Z)
      PROVE  RowsInv'
  <2>1. ASSUME NEW k \in Node PROVE Reads(k, X, Z)'
    <3>1. CASE Keeps(k)
      <4>1. Reads(k, X, Z)
        BY <1>1, <1>7 DEF Contents, Reads
      <4> QED
        BY <1>2, <1>3, <1>7, <3>1, <4>1, StillReads
    <3>2. CASE pc'[k] \notin {"w_final", "r_query", "r_verify", "r_get"}
      BY <3>2, ElseReads
    <3>3. CASE pc'[k] = "w_final" /\ Accepts(r) /\ r.kind = "write"
      BY <1>7, <3>3 DEF Reads
    <3> QED
      BY <3>1, <3>2, <3>3
  <2>2. Contents(X, Z)'
    BY <1>7, <2>1 DEF Contents
  <2> QED
    BY <1>5, <2>2 DEF RowsInv
<1>8. Belong(X, Y)'
  BY <1>1, <1>2, <1>3, StillBelong DEF Contents
<1>9. CASE ~Accepts(r) /\ ~Creates(r)
  <2>1. db'.pair = db.pair /\ db'.applied = db.applied
    BY <1>2, <1>9, Outcomes DEF Refuses
  <2>2. Stored(X, Y)'
    BY <1>1, <2>1 DEF Contents, Stored
  <2>3. Left => Left'
    BY <1>4, <2>1 DEF Left
  <2> QED
    BY <1>7, <1>8, <1>9, <2>2, <2>3
<1>10. CASE Creates(r)
  <2>1. db'.pair = Zero /\ db'.applied = db.applied /\ db.applied = {}
    BY <1>2, <1>10 DEF Creates, Request, Sound, NoPair
  <2>2. /\ Zero = BasePair(anchor) => anchor.epoch = 0
        /\ Zero # PendingPair(anchor)
    BY <1>2 DEF Zero, BasePair, PendingPair
  <2>3. anchor.epoch = 0 => X = {}
    BY <1>1 DEF Contents, Belong
  <2>4. Stored(X, Y)'
    BY <1>1, <2>1, <2>2, <2>3 DEF Contents, Stored
  <2>5. Left => Left'
    BY <1>4, <2>1, <2>2 DEF Left
  <2>6. ~Accepts(r)
    BY <1>10 DEF Creates, Accepts
  <2> QED
    BY <1>7, <1>8, <2>4, <2>5, <2>6
<1>11. CASE Accepts(r) /\ r.kind = "tail"
  <2>1. db.pair = Zero /\ db'.pair = [epoch |-> 1, token |-> r.id] /\ TailId(r.id)
    BY <1>11 DEF Accepts, Request, Zero
  <2>2. db'.applied = {} /\ db.applied = {}
    BY <1>2, <1>11, <2>1 DEF Accepts, Sound, Zero
  <2>3. /\ db'.pair = BasePair(anchor) => TailId(anchor.token) /\ X = {}
        /\ db'.pair = PendingPair(anchor) => Y = {}
    <3>1. db'.pair = BasePair(anchor) => anchor.token = r.id
      BY <2>1 DEF BasePair
    <3>2. db'.pair = PendingPair(anchor) => anchor.pid = r.id /\ anchor.epoch = 0
      BY <1>2, <2>1 DEF PendingPair
    <3> QED
      BY <1>1, <2>1, <3>1, <3>2 DEF Contents, Belong
  <2>4. Stored(X, Y)'
    BY <1>1, <2>2, <2>3 DEF Contents, Stored
  <2>5. Left => Left'
    BY <1>4, <2>3 DEF Left
  <2> QED
    BY <1>7, <1>8, <1>11, <2>4, <2>5
<1>12. CASE Accepts(r) /\ r.kind = "write"
  <2> DEFINE Z == X \cup {r.id}
  <2>1. /\ r.id = anchor.pid /\ r.id \in Id /\ Pending(anchor) /\ ~TailId(anchor.pid)
        /\ db.pair = BasePair(anchor) /\ db'.pair = PendingPair(anchor)
        /\ db'.applied = db.applied \cup {r.id} /\ db.status[r.id] = "none"
    BY <1>2, <1>12 DEF Accepts, Request, BasePair, PendingPair, Pending
  <2>2. db.applied = X /\ db'.applied = Z
    BY <1>1, <2>1 DEF Contents, Stored
  <2>3. Z \in SUBSET Id /\ anchor.pid \in Z /\ X \subseteq Z /\ Z \subseteq X \cup {anchor.pid}
    BY <2>1
  <2>4. ~TailId(anchor.pid)'
    BY <1>3, <2>1, AnchorIds
  <2>5. Belong(X, Z)'
    BY <1>8, <2>1, <2>3, <2>4 DEF Belong
  <2>6. snap.pair # PendingPair(anchor)
    BY <1>2, <2>1 DEF Sound, ExtendsBackup, PendingPair
  <2>7. Z = X \cup {anchor.pid}
    BY <2>1
  <2> HIDE DEF Z
  <2>8. Stored(X, Z)'
    BY <1>1, <1>6, <2>1, <2>2, <2>6, <2>7 DEF Contents, Stored
  <2>9. ~Left
    BY <2>1 DEF Left
  <2> QED
    BY <1>7, <2>1, <2>3, <2>5, <2>8, <2>9
<1> QED
  BY <1>2, <1>9, <1>10, <1>11, <1>12 DEF Accepts, ExecRequest

\* Every step keeps the rows.
LEMMA NextRows == ASSUME IInv, IInv', OwnInv, RowsInv, [Next]_vars PROVE RowsInv'
<1>1. Kind
  BY NextKind
<1>2. ASSUME NEW r \in exec, LateRun(r) PROVE RowsInv'
  <2>1. Request(r)
    BY RequestOwns, Types
  <2> QED
    BY <1>1, <1>2, <2>1, RunRows DEF LateRun
<1>3. ASSUME NEW n \in Node, NEW r \in ExecRequest, Runs(n, r) PROVE RowsInv'
  <2>1. Request(r)
    BY <1>3, RequestOwns DEF Runs
  <2>2. UNCHANGED <<anchor, rv, snap, witnessed>> /\ db' \in Executed(db, r) /\ Only(n) /\ Asks(n, r)
        /\ pc'[n] \in {"s_get", "down", "f_base", "z_get", "w_final", "w_rejected"}
    BY <1>3 DEF Runs, Back
  <2>3. pc'[n] = "w_final" => Accepts(r) /\ r.kind = "write"
    <3>1. pc'[n] = "w_final" => r.kind = "write" /\ r.id = rec[n].pid /\ db'.status[r.id] = "committed"
      BY <1>3, <2>2 DEF Runs, Back, Asks
    <3>2. r.kind = "write" => db.status[r.id] = "none" /\ r.id \in Id
      BY <2>1 DEF Request, ExecRequest
    <3>3. Refuses(r) => db'.status[r.id] = "rejected"
      BY <3>2, Types DEF Refuses, Database, ExecRequest
    <3> QED
      BY <2>2, <3>1, <3>2, <3>3, Outcomes DEF Creates
  <2>4. \A k \in Node : \/ Keeps(k)
                        \/ pc'[k] \notin {"w_final", "r_query", "r_verify", "r_get", "r_done"}
                        \/ pc'[k] = "w_final" /\ Accepts(r) /\ r.kind = "write"
    BY <2>2, <2>3 DEF Only
  <2> QED
    BY <1>1, <2>1, <2>2, <2>4, RunRows
<1>4. ASSUME NEW n \in Node, NodeKind(n) PROVE RowsInv'
  BY <1>1, <1>3, <1>4, QuietRows, ReserveRows DEF NodeKind
<1> QED
  BY <1>1, <1>2, <1>4, RestRows, StoreRows DEF Kind

\* Initially there are none.
LEMMA InitRows == Init => RowsInv
<1> SUFFICES ASSUME Init PROVE RowsInv
  OBVIOUS
<1>1. PICK s \in Starts :
         /\ anchor = [epoch |-> 0, token |-> InitToken, pid |-> NoId, boot |-> (s = "greenfield")]
         /\ db = [pair |-> IF s = "greenfield" THEN NoPair
                                              ELSE [epoch |-> 0, token |-> InitToken],
                  migrated |-> (s = "established"),
                  applied |-> {}, status |-> [id \in Id |-> "none"]]
  BY DEF Init
<1>2. Belong({}, {})
  BY <1>1, TrustFenceAssumption DEF Init, Belong, TailId, Token
<1>3. Stored({}, {})
  BY <1>1 DEF Init, Stored, Pending
<1>4. \A n \in Node : Reads(n, {}, {})
  BY DEF Init, Reads
<1>5. ReadsAreFresh
  BY DEF Init, ReadsAreFresh
<1>6. Contents({}, {}) /\ {} \in SUBSET Id
  BY <1>2, <1>3, <1>4 DEF Contents
<1> QED
  BY <1>5, <1>6 DEF RowsInv

\* A database at the settled anchor's pair holds every witnessed write.
LEMMA RowsAnchored == ASSUME OwnInv, RowsInv PROVE RowsAreAnchored
<1>1. TrustedIsComplete
  BY DEF RowsInv, Contents, Belong, Stored, TrustedIsComplete
<1> QED
  BY <1>1 DEF RowsAreAnchored, OwnInv, Globals

-----------------------------------------------------------------------------
(* Until a restore, the anchor and the database agree                      *)

\* The database has an outcome for id; the schema and the trust row are durable.
Ran(id)  == db.status[id] # "none"
Migrated == db.migrated /\ db.pair # NoPair

\* The anchor is one write ahead of the database at most, and behind it never;
\* what runs, runs on the migrated schema; a tail in flight has run or is still
\* the anchor's reservation; a PUT in flight was sent on the database's outcome.
PairAgrees ==
    /\ db.pair \in {NoPair, BasePair(anchor)} \/ (Pending(anchor) /\ db.pair = PendingPair(anchor))
    /\ \A id \in Id : Ran(id) => Migrated
Shared ==
    /\ db.pair = NoPair => anchor.epoch = 0
    /\ anchor.epoch # 0 => Migrated
    /\ \A r \in exec : r.kind # "create" => Migrated
    /\ \A r \in exec : r.kind = "tail" => Ran(r.id) \/ anchor.pid = r.id
    /\ \A m \in put : m.rv = rv /\ Pending(anchor) =>
           /\ m.next = Finalize(anchor) => db.pair = PendingPair(anchor)
           /\ m.next = Clear(anchor) =>
                  db.pair = BasePair(anchor) /\ db.status[anchor.pid] = "rejected"

\* What a node's position says of the database.
NodeAgrees(n) ==
    /\ pc[n] \in FencePC => Ran(rec[n].pid) \/ anchor.pid = rec[n].pid
    /\ resv[n] => att[n] # NoId /\ (Ran(att[n]) \/ anchor.pid = att[n])
    /\ Current(n) /\ pc[n] \in ClosePC => db.pair = PendingPair(anchor)
    /\ Current(n) /\ pc[n] \in DropPC => db.status[anchor.pid] = "rejected"
    /\ Current(n) /\ pc[n] \in {"w_clear", "p_clear"} => db.pair = BasePair(anchor)
    /\ pc[n] \in {"f_migrate", "f_tail"} \cup ServePC => db.pair # NoPair
    /\ pc[n] \in {"f_tail", "t_get", "t_verify"} \cup ServePC => db.migrated

Agreement == PairAgrees /\ Shared /\ \A n \in Node : NodeAgrees(n)
PairInv   == restores = 0 => Agreement

\* The anchor's record stays, and what the database has decided about it.
Steady ==
    /\ anchor' = anchor /\ rv' >= rv
    /\ \A id \in Id : Ran(id) => Ran(id)'
    /\ db.pair # NoPair => db'.pair # NoPair
    /\ db.migrated => db'.migrated
    /\ Pending(anchor) =>
           /\ db.pair = PendingPair(anchor) => db'.pair = PendingPair(anchor)
           /\ db.status[anchor.pid] = "rejected" =>
                  /\ db'.status[anchor.pid] = "rejected"
                  /\ db.pair = BasePair(anchor) => db'.pair = BasePair(anchor)

\* A reservation that the database has decided is migrated.
LEMMA DecidedIsMigrated ==
    ASSUME IInv, OwnInv, Agreement, Pending(anchor),
           db.pair = PendingPair(anchor) \/ db.status[anchor.pid] = "rejected"
    PROVE  Migrated /\ Ran(anchor.pid)
<1>1. anchor.pid \in Id
  BY Types, PendingId
<1>2. Ran(anchor.pid)
  BY <1>1 DEF Ran, OwnInv, Globals, Databases, Sound, PendingPair
<1> QED
  BY <1>1, <1>2 DEF Agreement, PairAgrees

\* Nobody's record or attempt has the trust row of a missing table.
LEMMA PairsExist ==
    ASSUME NEW a \in Record
    PROVE  BasePair(a) # NoPair /\ (Pending(a) => PendingPair(a) # NoPair) /\ BasePair(a) # PendingPair(a)
<1>1. a.token # NoId /\ a.epoch \in Nat
  BY TrustFenceAssumption DEF Record
<1> QED
  BY <1>1 DEF BasePair, PendingPair, NoPair, Pending

\* A steady step keeps what is shared.
LEMMA SteadyShared ==
    ASSUME IInv, IInv', Agreement, Steady, exec' \subseteq exec, put' \subseteq put
    PROVE  Shared'
<1>1. ASSUME NEW m \in put', m.rv = rv' PROVE m \in put /\ m.rv = rv
  <2>1. m \in put /\ m.rv \in Nat /\ m.rv <= rv /\ rv \in Nat /\ rv' \in Nat /\ rv' >= rv
    BY Types, <1>1 DEF Steady, IInv, AnchorPart
  <2> QED
    BY <1>1, <2>1
<1>2. Migrated => Migrated'
  BY DEF Steady, Migrated
<1>3. \A r \in exec : r.kind = "tail" => r.id \in Id
  BY Types DEF ExecRequest
<1>4. \A r \in exec' : /\ r.kind # "create" => Migrated'
                       /\ r.kind = "tail" => Ran(r.id)' \/ anchor.pid = r.id
  BY <1>2, <1>3 DEF Agreement, Shared, Steady
<1>5. \A m \in put' : m.rv = rv' /\ Pending(anchor) =>
           /\ m.next = Finalize(anchor) => db'.pair = PendingPair(anchor)
           /\ m.next = Clear(anchor) =>
                  db'.pair = BasePair(anchor) /\ db'.status[anchor.pid] = "rejected"
  BY <1>1 DEF Agreement, Shared, Steady
<1>6. /\ db'.pair = NoPair => anchor.epoch = 0
      /\ anchor.epoch # 0 => Migrated'
  BY <1>2 DEF Agreement, Shared, Steady
<1> QED
  BY <1>4, <1>5, <1>6 DEF Shared, Steady

\* And what a node that is left alone, or goes on, knows.
LEMMA SteadyNode ==
    ASSUME IInv, IInv', OwnInv, Agreement, Steady, NEW k \in Node,
           rec'[k] = rec[k] /\ ver'[k] = ver[k] /\ att'[k] = att[k] /\ resv'[k] = resv[k],
           \/ pc'[k] = pc[k]
           \/ /\ pc'[k] \in FencePC => pc[k] \in FencePC
              /\ Current(k) /\ pc'[k] \in ClosePC => db'.pair = PendingPair(anchor)
              /\ Current(k) /\ pc'[k] \in DropPC => db'.status[anchor.pid] = "rejected"
              /\ Current(k) /\ pc'[k] \in {"w_clear", "p_clear"} => db'.pair = BasePair(anchor)
              /\ pc'[k] \in {"f_migrate", "f_tail"} \cup ServePC => db'.pair # NoPair
              /\ pc'[k] \in {"f_tail", "t_get", "t_verify"} \cup ServePC => db'.migrated
    PROVE  NodeAgrees(k)'
<1>1. NodeAgrees(k) /\ Knows(k) /\ Knows(k)' /\ rec[k] \in Record /\ anchor' = anchor
      /\ att[k] \in Id \cup {NoId}
  BY DEF Agreement, IInv, LocalPart, StartPart, Steady
<1>2. Current(k)' => Current(k) /\ rv' = rv
  <2>1. ver[k] \in Nat /\ ver[k] <= rv /\ rv \in Nat /\ rv' \in Nat /\ rv' >= rv
    BY Types DEF Steady, IInv, AnchorPart
  <2> QED
    BY <2>1 DEF Current
<1>3. pc[k] \in FencePC => rec[k].pid \in Id
  BY <1>1, PendingId DEF Knows, FencePC, PendingPC
<1>4. pc[k] \in ClosePC \cup DropPC /\ Current(k) => Pending(anchor)
  BY <1>1 DEF Knows, ClosePC, DropPC, PendingPC, MintedPC, Current
<1>5. pc'[k] \in FencePC => Ran(rec[k].pid)' \/ anchor.pid = rec[k].pid
  <2>1. pc'[k] \in FencePC => pc[k] \in FencePC
    OBVIOUS
  <2>2. pc'[k] \in FencePC => Ran(rec[k].pid) \/ anchor.pid = rec[k].pid
    BY <1>1, <2>1 DEF NodeAgrees
  <2>3. pc'[k] \in FencePC => (db.status[rec[k].pid] # "none" => db'.status[rec[k].pid] # "none")
    BY <1>3, <2>1 DEF Steady, Ran
  <2> QED
    BY <2>2, <2>3 DEF Ran
<1>6. resv'[k] => att'[k] # NoId /\ (Ran(att[k])' \/ anchor.pid = att'[k])
  <2>1. resv'[k] => att[k] \in Id /\ (Ran(att[k]) \/ anchor.pid = att[k])
    BY <1>1 DEF NodeAgrees
  <2>2. att[k] \in Id => (db.status[att[k]] # "none" => db'.status[att[k]] # "none")
    BY DEF Steady, Ran
  <2> QED
    BY <2>1, <2>2, Types DEF Ran
<1>7. CASE pc'[k] = pc[k]
  <2>1. {"w_clear", "p_clear"} \subseteq DropPC
    BY DEF DropPC
  <2>2. /\ Current(k)' /\ pc'[k] \in ClosePC => db'.pair = PendingPair(anchor)
        /\ Current(k)' /\ pc'[k] \in DropPC => db'.status[anchor.pid] = "rejected"
        /\ Current(k)' /\ pc'[k] \in {"w_clear", "p_clear"} => db'.pair = BasePair(anchor)
        /\ pc'[k] \in {"f_migrate", "f_tail"} \cup ServePC => db'.pair # NoPair
        /\ pc'[k] \in {"f_tail", "t_get", "t_verify"} \cup ServePC => db'.migrated
    BY <1>1, <1>2, <1>4, <1>7, <2>1 DEF NodeAgrees, Steady
  <2> QED
    BY <1>1, <1>5, <1>6, <2>2 DEF NodeAgrees
<1>8. CASE pc'[k] # pc[k]
  BY <1>1, <1>2, <1>5, <1>6, <1>8 DEF NodeAgrees
<1> QED
  BY <1>7, <1>8

\* A node goes back: to serve only when everything is migrated.
LEMMA BackAgrees ==
    ASSUME IInv, IInv', OwnInv, Agreement, NEW k \in Node, Back(k), Migrated => Migrated',
           \A id \in Id : Ran(id) \/ anchor.pid = id => Ran(id)' \/ anchor'.pid = id
    PROVE  NodeAgrees(k)'
<1>1. NodeAgrees(k) /\ Knows(k) /\ rec[k] \in Record /\ att[k] \in Id \cup {NoId}
  BY DEF Agreement, IInv, LocalPart, StartPart
<1>2. /\ pc'[k] \in {"s_get", "idle", "down"} /\ (resv'[k] => resv[k] /\ att'[k] = att[k])
      /\ pc'[k] = "idle" => \/ pc[k] \in ServePC
                            \/ pc[k] = "t_verify" /\ db.pair = BasePair(rec[k])
                            \/ Current(k) /\ pc[k] \in {"p_final", "p_clear", "z_cas"}
  BY DEF Back
<1>3. pc'[k] = "idle" => Migrated
  <2>1. CASE pc[k] \in ServePC
    BY <1>1, <2>1 DEF NodeAgrees, Migrated
  <2>2. CASE pc[k] = "t_verify" /\ db.pair = BasePair(rec[k])
    BY <1>1, <2>2, PairsExist DEF NodeAgrees, Migrated
  <2>3. CASE Current(k) /\ pc[k] \in {"p_final", "p_clear", "z_cas"}
    <3>1. Pending(anchor)
      BY <1>1, <2>3 DEF Knows, PendingPC, MintedPC, Current
    <3>2. db.pair = PendingPair(anchor) \/ db.status[anchor.pid] = "rejected"
      BY <1>1, <2>3 DEF NodeAgrees, ClosePC, DropPC
    <3> QED
      BY <3>1, <3>2, DecidedIsMigrated
  <2> QED
    BY <1>2, <2>1, <2>2, <2>3
<1>4. resv'[k] => att'[k] # NoId /\ (db'.status[att'[k]] # "none" \/ anchor'.pid = att'[k])
  BY <1>1, <1>2 DEF NodeAgrees, Ran
<1>5. pc'[k] \notin FencePC \cup ClosePC \cup DropPC \cup {"f_migrate", "f_tail", "t_get", "t_verify", "w_clear", "p_clear"}
      /\ (pc'[k] \in ServePC => pc'[k] = "idle")
  BY <1>2 DEF FencePC, ClosePC, DropPC, ServePC, WritePC, ReadPC
<1> QED
  BY <1>3, <1>4, <1>5 DEF NodeAgrees, Migrated, Ran

\* The database, but for a finished migration, and the anchor's record stay.
Settled ==
    /\ anchor' = anchor /\ rv' >= rv /\ put' \subseteq put /\ exec' \subseteq exec
    /\ db'.pair = db.pair /\ db'.status = db.status /\ (db.migrated => db'.migrated)

\* Then it is up to the nodes.
LEMMA SettledAgrees ==
    ASSUME IInv, IInv', OwnInv, Agreement, Settled,
           \A k \in Node : Keeps(k) \/ Back(k) \/ NodeAgrees(k)'
    PROVE  Agreement'
<1>1. Steady
  BY DEF Settled, Steady, Ran
<1>2. Shared'
  BY <1>1, SteadyShared DEF Settled
<1>3. PairAgrees'
  BY DEF Agreement, PairAgrees, Settled, Ran, Migrated
<1>4. Migrated => Migrated'
  BY DEF Settled, Migrated
<1>5. \A id \in Id : Ran(id) \/ anchor.pid = id => Ran(id)' \/ anchor'.pid = id
  BY DEF Settled, Ran
<1>6. \A k \in Node : NodeAgrees(k)'
  BY <1>1, <1>4, <1>5, SteadyNode, BackAgrees DEF Keeps
<1> QED
  BY <1>2, <1>3, <1>6 DEF Agreement

\* Steps of a node that leave the anchor's record, the trust row and the
\* outcomes alone.
LEMMA QuietAgrees ==
    ASSUME IInv, IInv', OwnInv, Agreement, NEW n \in Node,
           \/ \E p \in PC : Moves(n, p) \/ Looks(n, p) \/ Migrates(n, p)
           \/ \E id \in Id : Mints(n, id)
           \/ Rewrites(n) \/ Queries(n) \/ Answers(n)
    PROVE  Agreement'
<1>1. NodeAgrees(n) /\ NodeOwns(n) /\ Knows(n) /\ Knows(n)' /\ rv \in Nat /\ db \in Database /\ rec[n] \in Record
      /\ anchor \in Record /\ att[n] \in Id \cup {NoId}
  BY Types DEF Agreement, OwnInv, IInv, LocalPart, StartPart
<1>2. Settled /\ Only(n)
  <2>1. anchor' = anchor /\ put' = put /\ exec' = exec /\ rv' \in {rv, rv + 1} /\ Only(n)
    BY DEF Moves, Looks, Migrates, Mints, Rewrites, Queries, Answers, Fixed
  <2>2. db' = db \/ db' = [db EXCEPT !.migrated = TRUE]
    BY DEF Moves, Looks, Migrates, Mints, Rewrites, Queries, Answers, Fixed
  <2>3. db'.pair = db.pair /\ db'.status = db.status /\ (db.migrated => db'.migrated)
    BY <1>1, <2>2 DEF Database
  <2> QED
    BY <1>1, <2>1, <2>3 DEF Settled
<1>3. Steady
  BY <1>2 DEF Settled, Steady, Ran
<1>4. ASSUME NodeAgrees(n)' PROVE Agreement'
  BY <1>2, <1>4, SettledAgrees DEF Only
<1>5. ASSUME NEW p \in PC, Moves(n, p) PROVE NodeAgrees(n)'
  <2>1. Holds(n, p) /\ Leads(n, p) /\ db' = db /\ rv' = rv /\ anchor' = anchor
    BY <1>5 DEF Moves, Fixed
  <2>2. p \notin MintedPC /\ (Current(n) => rec[n] = anchor)
    BY <1>1, <2>1 DEF Knows, Leads, Holds, MintedPC, Current
  <2>3. /\ p \in FencePC => pc[n] \in FencePC
        /\ p \in {"f_migrate", "f_tail"} => db.pair # NoPair
        /\ p \in ServePC => pc[n] \in ServePC
        /\ p \in {"f_tail", "t_get", "t_verify"} => db.migrated
    BY <1>1, <2>1, PairsExist DEF Leads, FencePC, ServePC, WritePC, ReadPC
  <2>4. Current(n) /\ p \in ClosePC => db.pair = PendingPair(anchor)
    BY <1>1, <2>1, <2>2 DEF Leads, FencePC, ClosePC, NodeAgrees
  <2>5. /\ Current(n) /\ p \in DropPC => db.status[anchor.pid] = "rejected"
        /\ Current(n) /\ p \in {"w_clear", "p_clear"} => db.pair = BasePair(anchor)
    BY <1>1, <2>1, <2>2 DEF Leads, FencePC, DropPC, NodeAgrees
  <2>6. p \in ServePC => db.pair # NoPair /\ db.migrated
    BY <1>1, <2>3 DEF NodeAgrees
  <2> QED
    BY <1>3, <2>1, <2>3, <2>4, <2>5, <2>6, SteadyNode DEF Holds
<1>6. ASSUME NEW p \in PC, Looks(n, p) PROVE NodeAgrees(n)'
  <2>1. /\ pc'[n] = p /\ rec'[n] = anchor /\ att'[n] = att[n] /\ db' = db /\ anchor' = anchor
        /\ resv'[n] => resv[n] \/ p = "f_verify"
        /\ \/ p \in {"p_verify", "z_verify"}
           \/ p = "f_verify" /\ Pending(anchor) /\ anchor.pid = att[n]
           \/ p = "s_behind"
           \/ p = "t_get" /\ resv[n] /\ ~Pending(anchor)
           \/ p = "t_verify" /\ pc[n] = "t_get"
           \/ p \in {"w_verify", "r_query"} /\ pc[n] = "idle"
    BY <1>6 DEF Looks, Fixed
  <2>2. p = "t_get" => db.migrated
    <3>1. p = "t_get" => att[n] \in Id /\ Ran(att[n])
      BY <1>1, <2>1 DEF NodeAgrees, Pending
    <3> QED
      BY <3>1 DEF Agreement, PairAgrees, Migrated
  <2>3. /\ p \in ServePC => db.pair # NoPair /\ db.migrated
        /\ p = "t_verify" => db.migrated
    BY <1>1, <2>1 DEF NodeAgrees, ServePC, WritePC, ReadPC
  <2>4. resv'[n] => att'[n] # NoId /\ (db.status[att'[n]] # "none" \/ anchor.pid = att'[n])
    BY <1>1, <2>1 DEF NodeAgrees, Ran, Pending
  <2>5. p \notin ClosePC \cup DropPC \cup {"w_clear", "p_clear", "f_migrate", "f_tail"}
        /\ (p \in FencePC => p = "f_verify")
    BY <2>1 DEF ClosePC, DropPC, FencePC
  <2> QED
    BY <2>1, <2>2, <2>3, <2>4, <2>5 DEF NodeAgrees, Ran
<1>7. ASSUME NEW p \in PC, Migrates(n, p) PROVE NodeAgrees(n)'
  <2>1. Holds(n, p) /\ db'.migrated /\ db'.pair = db.pair /\ p \in {"f_tail", "z_get", "t_get"}
        /\ (p = "f_tail" => pc[n] = "f_migrate")
    BY <1>1, <1>7 DEF Migrates, Database
  <2>2. p = "f_tail" => db'.pair # NoPair
    BY <1>1, <2>1 DEF NodeAgrees
  <2>3. (p \in FencePC => pc[n] \in FencePC) /\ p \notin ClosePC \cup DropPC \cup {"w_clear", "p_clear", "f_migrate"} \cup ServePC
    BY <2>1 DEF FencePC, ClosePC, DropPC, ServePC, WritePC, ReadPC
  <2> QED
    BY <1>3, <2>1, <2>2, <2>3, SteadyNode DEF Holds
<1>8. ASSUME NEW id \in Id, Mints(n, id) PROVE NodeAgrees(n)'
  <2>1. /\ db' = db /\ anchor' = anchor /\ resv'[n] = resv[n] /\ pc'[n] \in {"b_cas", "w_cas"}
        /\ (pc'[n] = "w_cas" => pc[n] = "w_verify")
        /\ att'[n] = att[n] \/ att[n] = NoId
    BY <1>8 DEF Mints
  <2>2. resv'[n] => att'[n] # NoId /\ (db.status[att'[n]] # "none" \/ anchor.pid = att'[n])
    BY <1>1, <2>1 DEF NodeAgrees, Ran
  <2>3. pc'[n] \in ServePC => db.pair # NoPair /\ db.migrated
    BY <1>1, <2>1 DEF NodeAgrees, ServePC, WritePC, ReadPC
  <2> QED
    BY <2>1, <2>2, <2>3 DEF NodeAgrees, Ran, FencePC, ClosePC, DropPC
<1>9. CASE Rewrites(n)
  <2>1. /\ db' = db /\ anchor' = anchor /\ Current(n) /\ pc'[n] = pc[n] /\ rec'[n] = rec[n]
        /\ att'[n] = att[n] /\ resv'[n] = resv[n]
    BY <1>9 DEF Rewrites
  <2>2. NodeAgrees(n)'
    BY <1>1, <2>1 DEF NodeAgrees, Ran
  <2> QED
    BY <1>4, <2>2
<1>10. ASSUME Queries(n) \/ Answers(n) PROVE NodeAgrees(n)'
  <2>1. /\ db' = db /\ pc[n] \in {"r_query", "r_get"} /\ pc'[n] \in {"r_verify", "r_done"} /\ rec'[n] = rec[n]
        /\ ver'[n] = ver[n] /\ att'[n] = att[n] /\ resv'[n] = resv[n]
    BY <1>10 DEF Queries, Answers, Fixed
  <2>2. db.pair # NoPair /\ db.migrated
    BY <1>1, <2>1 DEF NodeAgrees, ServePC, ReadPC
  <2>3. pc'[n] \notin FencePC \cup ClosePC \cup DropPC \cup {"w_clear", "p_clear"}
    BY <2>1 DEF FencePC, ClosePC, DropPC
  <2> QED
    BY <1>3, <2>1, <2>2, <2>3, SteadyNode
<1> QED
  BY <1>4, <1>5, <1>6, <1>7, <1>8, <1>9, <1>10

\* Nothing happens, or a backup is taken.
LEMMA RestAgrees ==
    ASSUME IInv, IInv', OwnInv, Agreement, Rests \/ Saves
    PROVE  Agreement'
<1>1. Settled /\ \A k \in Node : Keeps(k) \/ Back(k)
  BY Types DEF Rests, Saves, Settled
<1> QED
  BY <1>1, SettledAgrees

\* What a record that the anchor may take next says of the database.
Decided(next) ==
    Pending(anchor) =>
        /\ next = Finalize(anchor) => db.pair = PendingPair(anchor)
        /\ next = Clear(anchor) => db.pair = BasePair(anchor) /\ db.status[anchor.pid] = "rejected"

\* A record that a node puts, or put, was decided by the database.
LEMMA PutIsDecided ==
    ASSUME IInv, OwnInv, Agreement, NEW next \in Record,
           next = anchor \/ (\E n \in Node : Closes(n, next)) \/ (\E m \in put : m.rv = rv /\ m.next = next)
    PROVE  Decided(next)
<1>1. anchor \in Record
  BY Types
<1>2. Pending(anchor) => anchor # Finalize(anchor) /\ anchor # Clear(anchor) /\ Finalize(anchor) # Clear(anchor)
  <2>1. Finalize(anchor).epoch = anchor.epoch + 1 /\ anchor.epoch \in Nat /\ Clear(anchor).epoch = anchor.epoch
        /\ Clear(anchor).pid = NoId
    BY <1>1 DEF Finalize, Clear, Record
  <2> QED
    BY <2>1 DEF Pending
<1>3. ASSUME NEW n \in Node, Closes(n, next) PROVE Decided(next)
  <2>1. NodeAgrees(n)
    BY DEF Agreement
  <2> QED
    BY <1>2, <1>3, <2>1 DEF Closes, NodeAgrees, ClosePC, DropPC, Decided
<1>4. ASSUME NEW m \in put, m.rv = rv, m.next = next PROVE Decided(next)
  BY <1>4 DEF Agreement, Shared, Decided
<1> QED
  BY <1>2, <1>3, <1>4 DEF Decided

\* A PUT or an Execute is sent and not answered.
LEMMA LoseAgrees ==
    ASSUME IInv, IInv', OwnInv, Agreement, NEW n \in Node,
           \/ \E next \in Record : LosesPut(n, next)
           \/ \E r \in ExecRequest : LosesRun(n, r)
    PROVE  Agreement'
<1>1. UNCHANGED <<anchor, rv, db>> /\ Only(n) /\ Back(n) /\ rv \in Nat
  BY Types DEF LosesPut, LosesRun
<1>2. Steady
  BY <1>1 DEF Steady, Ran
<1>3. PairAgrees'
  BY <1>1 DEF Agreement, PairAgrees, Ran, Migrated
<1>4. \A k \in Node : NodeAgrees(k)'
  <2>1. Migrated => Migrated'
    BY <1>1 DEF Migrated
  <2>2. \A id \in Id : Ran(id) \/ anchor.pid = id => Ran(id)' \/ anchor'.pid = id
    BY <1>1 DEF Ran
  <2> QED
    BY <1>1, <1>2, <2>1, <2>2, SteadyNode, BackAgrees DEF Only, Keeps
<1>5. ASSUME NEW next \in Record, LosesPut(n, next) PROVE Shared'
  <2>1. exec' = exec /\ put' = put \cup {[rv |-> rv, next |-> next]}
    BY <1>5 DEF LosesPut
  <2>2. Decided(next)
    <3>1. CASE next = anchor \/ Closes(n, next)
      BY <3>1, PutIsDecided
    <3>2. CASE ~Pending(anchor)
      BY <3>2 DEF Decided
    <3> QED
      BY <1>5, <3>1, <3>2 DEF LosesPut
  <2> DEFINE m == [rv |-> rv, next |-> next]
  <2>3. m.next = next /\ put' = put \cup {m}
    BY <2>1
  <2> HIDE DEF m
  <2> QED
    BY <1>1, <2>1, <2>2, <2>3 DEF Agreement, Shared, Decided, Ran, Migrated
<1>6. ASSUME NEW r \in ExecRequest, LosesRun(n, r) PROVE Shared'
  <2>1. exec' = exec \cup {r} /\ put' = put /\ Asks(n, r)
    BY <1>6 DEF LosesRun
  <2>2. NodeAgrees(n)
    BY DEF Agreement
  <2>3. r.kind # "create" => Migrated
    BY <2>1, <2>2 DEF Asks, NodeAgrees, Migrated, ServePC, WritePC
  <2>4. r.kind = "tail" => Ran(r.id) \/ anchor.pid = r.id
    BY <2>1, <2>2 DEF Asks, NodeAgrees, FencePC
  <2> QED
    BY <1>1, <2>1, <2>3, <2>4 DEF Agreement, Shared, Ran, Migrated
<1>7. Shared'
  BY <1>5, <1>6
<1> QED
  BY <1>3, <1>4, <1>7 DEF Agreement

\* The anchor takes its next record: the database is at it, or not beyond it.
LEMMA AnchorAgrees ==
    ASSUME IInv, IInv', OwnInv, Agreement, Decided(anchor'),
           UNCHANGED <<db, exec>>, put' \subseteq put, rv' = rv + 1,
           \/ anchor' = Finalize(anchor) /\ Pending(anchor)
           \/ anchor' = Clear(anchor) /\ Pending(anchor)
           \/ ~Pending(anchor) /\ Pending(anchor') /\ anchor' = Reserve(anchor, anchor'.pid)
    PROVE  /\ PairAgrees' /\ Shared' /\ (Migrated => Migrated')
           /\ \A id \in Id : Ran(id) \/ anchor.pid = id => Ran(id)'
<1>1. anchor \in Record /\ anchor.epoch \in Nat /\ NoId \notin Id /\ (\A m \in put' : m.rv # rv')
  BY Types DEF Record
<1>2. \A id \in Id : Ran(id) \/ anchor.pid = id => Ran(id)
  BY <1>1, DecidedIsMigrated DEF Decided, Pending
<1>3. \A id \in Id : Ran(id) \/ anchor.pid = id => Ran(id)'
  BY <1>2 DEF Ran
<1>4. Migrated => Migrated'
  BY DEF Migrated
<1>5. \A r \in exec : r.kind = "tail" => r.id \in Id
  BY Types DEF ExecRequest
<1>6. CASE anchor' = Finalize(anchor) /\ Pending(anchor)
  <2>1. BasePair(anchor)' = PendingPair(anchor)
    BY <1>1, <1>6 DEF Finalize, Record, BasePair, PendingPair
  <2>2. Migrated /\ db.pair = PendingPair(anchor)
    BY <1>6, DecidedIsMigrated DEF Decided
  <2>3. PairAgrees'
    BY <2>1, <2>2 DEF PairAgrees, Migrated
  <2>4. Shared'
    BY <1>1, <1>3, <1>5, <2>2 DEF Agreement, Shared, Migrated
  <2> QED
    BY <1>3, <1>4, <2>3, <2>4
<1>7. CASE ~(anchor' = Finalize(anchor) /\ Pending(anchor))
  <2>1. BasePair(anchor)' = BasePair(anchor) /\ anchor'.epoch = anchor.epoch
    BY <1>1, <1>7 DEF Clear, Reserve, Record, BasePair
  <2>2. db.pair \in {NoPair, BasePair(anchor)}
    BY <1>7 DEF Agreement, PairAgrees, Decided
  <2>3. PairAgrees'
    BY <2>1, <2>2 DEF Agreement, PairAgrees, Migrated, Ran
  <2>4. Shared'
    BY <1>1, <1>3, <1>5, <2>1 DEF Agreement, Shared, Migrated
  <2> QED
    BY <1>3, <1>4, <2>3, <2>4
<1> QED
  BY <1>6, <1>7

\* A node that is left alone while the anchor moves is no longer current.
LEMMA StaleAgrees ==
    ASSUME IInv, IInv', Agreement, NEW k \in Node, Keeps(k), rv' = rv + 1, db' = db,
           \A id \in Id : Ran(id) \/ anchor.pid = id => Ran(id)'
    PROVE  NodeAgrees(k)'
<1>1. NodeAgrees(k) /\ ~Current(k)' /\ att[k] \in Id \cup {NoId}
  BY Types DEF Agreement, Keeps, Current, IInv, StartPart
<1>2. pc[k] \in FencePC => rec[k].pid \in Id
  BY NodeFacts DEF FencePC, PendingPC
<1>3. pc[k] \in FencePC => db'.status[rec[k].pid] # "none"
  BY <1>1, <1>2 DEF NodeAgrees, Ran
<1>4. resv[k] => att[k] # NoId /\ db'.status[att[k]] # "none"
  BY <1>1 DEF NodeAgrees, Ran
<1> QED
  BY <1>1, <1>3, <1>4 DEF NodeAgrees, Keeps, Ran

\* The record is put by a node that is done with it, or late.
LEMMA StoreAgrees ==
    ASSUME IInv, IInv', OwnInv, Agreement, NEW next \in Record, Stores(next)
    PROVE  Agreement'
<1>1. /\ UNCHANGED <<db, exec>> /\ put' \subseteq put /\ anchor' = next /\ rv' = rv + 1 /\ rv \in Nat
      /\ \A k \in Node : Keeps(k) \/ Back(k)
  BY Types DEF Stores
<1>2. Decided(next)
  BY PutIsDecided DEF Stores
<1>3. CASE next = anchor
  <2>1. Settled
    BY <1>1, <1>3 DEF Settled
  <2> QED
    BY <1>1, <2>1, SettledAgrees
<1>4. CASE next # anchor
  <2>1. \/ next = Finalize(anchor) /\ Pending(anchor)
        \/ next = Clear(anchor) /\ Pending(anchor)
        \/ ~Pending(anchor) /\ Pending(next) /\ next = Reserve(anchor, next.pid)
    BY <1>4, SuccessorOwns DEF Stores
  <2>2. /\ PairAgrees' /\ Shared' /\ (Migrated => Migrated')
        /\ \A id \in Id : Ran(id) \/ anchor.pid = id => Ran(id)'
    BY <1>1, <1>2, <2>1, AnchorAgrees
  <2>3. \A k \in Node : NodeAgrees(k)'
    BY <1>1, <2>2, StaleAgrees, BackAgrees
  <2> QED
    BY <2>2, <2>3 DEF Agreement
<1> QED
  BY <1>3, <1>4

\* A node puts its reservation.
LEMMA ReserveAgrees ==
    ASSUME IInv, IInv', OwnInv, Agreement, NEW n \in Node, Reserves(n)
    PROVE  Agreement'
<1>1. /\ UNCHANGED <<put, db, exec>> /\ anchor' = rec[n] /\ rv' = rv + 1 /\ Only(n)
      /\ rec'[n] = rec[n] /\ att'[n] = att[n] /\ ~Pending(anchor) /\ Current(n) /\ pc[n] \in MintedPC
      /\ \/ pc[n] = "b_cas" /\ pc'[n] = "f_verify"
         \/ pc[n] = "w_cas" /\ pc'[n] = "w_exec" /\ resv'[n] = resv[n]
  BY DEF Reserves, MintedPC
<1>2. Pending(anchor') /\ anchor' = Reserve(anchor, anchor'.pid) /\ anchor'.pid \in Id
  <2>1. Pending(rec[n]) /\ Clear(rec[n]) = anchor /\ rec[n] \in Record
    BY <1>1 DEF IInv, LocalPart, Knows, MintedPC, PendingPC, Current
  <2> QED
    BY <1>1, <2>1, PendingId
<1>3. Decided(anchor')
  BY <1>1 DEF Decided
<1>4. /\ PairAgrees' /\ Shared' /\ (Migrated => Migrated')
      /\ \A id \in Id : Ran(id) \/ anchor.pid = id => Ran(id)'
  BY <1>1, <1>2, <1>3, AnchorAgrees
<1>5. ASSUME NEW k \in Node, k # n PROVE NodeAgrees(k)'
  BY <1>1, <1>4, <1>5, StaleAgrees DEF Only
<1>6. NodeAgrees(n)'
  <2>1. NodeAgrees(n) /\ NodeOwns(n) /\ att[n] \in Id \cup {NoId}
    BY DEF Agreement, OwnInv, IInv, StartPart
  <2>2. pc[n] = "b_cas" => att[n] = rec[n].pid /\ att[n] # NoId
    BY <1>1, <1>2, <2>1, Types DEF NodeOwns
  <2>3. resv'[n] => att'[n] # NoId /\ (db'.status[att'[n]] # "none" \/ anchor'.pid = att'[n])
    BY <1>1, <1>4, <2>1, <2>2 DEF NodeAgrees, Ran
  <2>4. pc'[n] \in ServePC => pc[n] \in ServePC
    BY <1>1 DEF ServePC, WritePC, ReadPC
  <2>5. pc'[n] \notin ClosePC \cup DropPC \cup {"w_clear", "p_clear", "f_migrate", "f_tail", "t_get", "t_verify"}
    BY <1>1 DEF ClosePC, DropPC
  <2> QED
    BY <1>1, <2>1, <2>3, <2>4, <2>5 DEF NodeAgrees, Ran
<1> QED
  BY <1>4, <1>5, <1>6 DEF Agreement

\* An execution decides the anchor's reservation, and no other.
LEMMA RunAgrees ==
    ASSUME IInv, IInv', OwnInv, Agreement, NEW r, Request(r), db' \in Executed(db, r),
           UNCHANGED <<anchor, rv>>, put' \subseteq put, exec' \subseteq exec,
           r.kind # "create" => Migrated,
           r.kind = "tail" => Ran(r.id) \/ anchor.pid = r.id
    PROVE  /\ Steady /\ PairAgrees' /\ Shared'
           /\ Accepts(r) => db'.pair = PendingPair(anchor)
<1>1. /\ r \in ExecRequest /\ rv \in Nat /\ anchor \in Record /\ db \in Database
      /\ r.kind # "create" => r.id \in Id
      /\ NoId \notin Id /\ Sound(db)
  BY Types DEF Request, ExecRequest, OwnInv, Globals, Databases
<1>2. BasePair(anchor) # NoPair /\ (Pending(anchor) => PendingPair(anchor) # NoPair)
      /\ BasePair(anchor) # PendingPair(anchor)
  BY <1>1, PairsExist
<1>3. Accepts(r) \/ Refuses(r) => r.id = anchor.pid /\ Pending(anchor) /\ db.status[anchor.pid] = "none"
  <2>1. Accepts(r) \/ Refuses(r) => db.status[r.id] = "none" /\ r.kind \in {"tail", "write"}
    BY <1>1 DEF Accepts, Refuses, ExecRequest
  <2> QED
    BY <1>1, <2>1 DEF Request, Ran, Pending
<1>4. Accepts(r) => r.base = BasePair(anchor)
  <2>1. CASE r.kind = "tail"
    <3>1. Accepts(r) => TailId(anchor.pid)
      BY <1>3, <2>1 DEF Request
    <3>2. Accepts(r) => BasePair(anchor) = Zero
      BY <3>1 DEF OwnInv, Globals, Bootstraps, BasePair, Zero
    <3> QED
      BY <2>1, <3>2 DEF Request
  <2>2. CASE r.kind = "write"
    BY <2>2 DEF Request
  <2> QED
    BY <1>1, <2>1, <2>2 DEF Accepts, ExecRequest
<1>5. Accepts(r) => /\ db.pair = BasePair(anchor) /\ db'.pair = PendingPair(anchor)
                    /\ r.base.epoch = anchor.epoch
  BY <1>3, <1>4 DEF Accepts, BasePair, PendingPair
<1>6. Creates(r) => db.pair = NoPair /\ db'.pair = BasePair(anchor)
  <2>1. Creates(r) => r.base = Zero /\ anchor.epoch = 0
    BY DEF Creates, Request, Agreement, Shared
  <2> QED
    BY <2>1 DEF Creates, OwnInv, Globals, Bootstraps, BasePair, Zero
<1>7. /\ db'.migrated = db.migrated
      /\ \A id \in Id : Ran(id)' => Ran(id) \/ r.kind # "create"
      /\ \A id \in Id : Ran(id) => Ran(id)'
  BY <1>1, Outcomes DEF Accepts, Refuses, Creates, Ran, Database
<1>8. db'.pair \in {db.pair, PendingPair(anchor), BasePair(anchor)}
      /\ (db'.pair # db.pair => (Accepts(r) \/ Creates(r)))
  BY <1>1, <1>5, <1>6, Outcomes DEF Refuses
<1>9. Steady
  <2>1. db.pair # NoPair => db'.pair # NoPair
    BY <1>2, <1>3, <1>5, <1>8 DEF Creates
  <2>2. Pending(anchor) /\ db.pair = PendingPair(anchor) => db'.pair = PendingPair(anchor)
    BY <1>2, <1>5, <1>6, <1>8
  <2>3. db.status[anchor.pid] = "rejected" => db'.status[anchor.pid] = "rejected"
    BY <1>1, <1>3, Outcomes DEF Creates
  <2>4. db.status[anchor.pid] = "rejected" /\ db.pair = BasePair(anchor) => db'.pair = BasePair(anchor)
    BY <1>2, <1>3, <1>6, <1>8
  <2> QED
    BY <1>1, <1>7, <2>1, <2>2, <2>3, <2>4 DEF Steady
<1>10. Migrated => Migrated'
  BY <1>9 DEF Steady, Migrated
<1>11. PairAgrees'
  <2>1. db'.pair \in {NoPair, BasePair(anchor)} \/ (Pending(anchor) /\ db'.pair = PendingPair(anchor))
    BY <1>3, <1>5, <1>6, <1>8 DEF Agreement, PairAgrees
  <2>2. \A id \in Id : Ran(id)' => Migrated'
    BY <1>7, <1>10 DEF Agreement, PairAgrees
  <2> QED
    BY <2>1, <2>2 DEF PairAgrees
<1>12. Shared'
  BY <1>9, SteadyShared
<1> QED
  BY <1>5, <1>9, <1>11, <1>12

\* A lost Execute is ordered after all.
LEMMA LateRunAgrees ==
    ASSUME IInv, IInv', OwnInv, Agreement, NEW r \in exec, LateRun(r)
    PROVE  Agreement'
<1>1. Request(r) /\ (r.kind # "create" => Migrated) /\ (r.kind = "tail" => Ran(r.id) \/ anchor.pid = r.id)
  BY RequestOwns, Types DEF Agreement, Shared
<1>2. db' \in Executed(db, r) /\ UNCHANGED <<anchor, rv, put>> /\ exec' \subseteq exec
      /\ \A k \in Node : Keeps(k)
  BY DEF LateRun
<1>3. Steady /\ PairAgrees' /\ Shared'
  BY <1>1, <1>2, RunAgrees
<1>4. \A k \in Node : NodeAgrees(k)'
  BY <1>2, <1>3, SteadyNode DEF Keeps
<1> QED
  BY <1>3, <1>4 DEF Agreement

\* A node's Execute runs and is answered.
LEMMA RunsAgrees ==
    ASSUME IInv, IInv', OwnInv, Agreement, NEW n \in Node, NEW r \in ExecRequest, Runs(n, r)
    PROVE  Agreement'
<1>1. /\ UNCHANGED <<anchor, rv, put, exec>> /\ Only(n) /\ Asks(n, r) /\ db' \in Executed(db, r)
      /\ NodeAgrees(n)
  BY DEF Runs, Agreement
<1>2. Request(r) /\ (r.kind # "create" => Migrated) /\ (r.kind = "tail" => Ran(r.id) \/ anchor.pid = r.id)
  <2>1. r.kind # "create" => Migrated
    BY <1>1 DEF Asks, NodeAgrees, Migrated, ServePC, WritePC
  <2>2. r.kind = "tail" => Ran(r.id) \/ anchor.pid = r.id
    BY <1>1 DEF Asks, NodeAgrees, FencePC
  <2> QED
    BY <1>1, <2>1, <2>2, RequestOwns
<1>3. Steady /\ PairAgrees' /\ Shared' /\ (Accepts(r) => db'.pair = PendingPair(anchor))
  BY <1>1, <1>2, RunAgrees
<1>4. NodeAgrees(n)'
  <2>1. CASE Back(n)
    <3>1. Migrated => Migrated'
      BY <1>3 DEF Steady, Migrated
    <3>2. \A id \in Id : Ran(id) \/ anchor.pid = id => Ran(id)' \/ anchor'.pid = id
      BY <1>1, <1>3 DEF Steady
    <3> QED
      BY <2>1, <3>1, <3>2, BackAgrees
  <2>2. CASE ~Back(n)
    <3>1. /\ rec'[n] = rec[n] /\ ver'[n] = ver[n] /\ att'[n] = att[n] /\ resv'[n] = resv[n]
          /\ \/ pc[n] = "f_create" /\ pc'[n] = "f_base"
             \/ pc[n] = "f_tail" /\ pc'[n] = "z_get"
             \/ /\ pc[n] = "w_exec"
                /\ pc'[n] = IF db'.status[rec[n].pid] = "committed" THEN "w_final" ELSE "w_rejected"
      BY <2>2 DEF Runs
    <3>2. pc[n] = "w_exec" => r.kind = "write" /\ r.id = rec[n].pid /\ r.id = anchor.pid
                              /\ db.status[r.id] = "none" /\ r.id \in Id /\ Migrated
      BY <1>1, <1>2 DEF Asks, Request, ExecRequest
    <3>3. pc[n] = "w_exec" => Accepts(r) \/ Refuses(r)
      BY <1>1, <3>2, Outcomes DEF Creates
    <3>4. /\ Accepts(r) /\ r.id \in Id => db'.status[r.id] = "committed"
          /\ Refuses(r) /\ r.id \in Id => db'.status[r.id] = "rejected"
      BY Types DEF Accepts, Refuses, Database
    <3>5. /\ pc'[n] = "w_final" => db'.pair = PendingPair(anchor)
          /\ pc'[n] = "w_rejected" => db'.status[anchor.pid] = "rejected"
      BY <1>3, <3>1, <3>2, <3>3, <3>4
    <3>6. /\ pc'[n] \in FencePC => pc[n] \in FencePC
          /\ pc'[n] \in ClosePC => pc'[n] = "w_final"
          /\ pc'[n] \in DropPC => pc'[n] = "w_rejected"
          /\ pc'[n] \in ServePC => pc[n] = "w_exec"
          /\ pc'[n] \notin {"w_clear", "p_clear", "f_migrate", "f_tail", "t_get", "t_verify"}
      BY <3>1 DEF FencePC, ClosePC, DropPC, ServePC, WritePC, ReadPC
    <3>7. pc'[n] \in ServePC => db'.pair # NoPair /\ db'.migrated
      BY <1>3, <3>2, <3>6 DEF Steady, Migrated
    <3> QED
      BY <1>3, <3>1, <3>5, <3>6, <3>7, SteadyNode
  <2> QED
    BY <2>1, <2>2
<1>5. \A k \in Node : NodeAgrees(k)'
  BY <1>1, <1>3, <1>4, SteadyNode DEF Only, Keeps
<1> QED
  BY <1>3, <1>5 DEF Agreement

\* Every step keeps the agreement; only a restore ends it.
LEMMA NextAgrees == ASSUME IInv, IInv', OwnInv, PairInv, [Next]_vars PROVE PairInv'
<1>1. Kind
  BY NextKind
<1>2. CASE Restores
  BY <1>2 DEF Restores, PairInv, IInv, BoundPart
<1>3. CASE restores' = restores
  <2> SUFFICES ASSUME Agreement PROVE Agreement' \/ Restores
    BY <1>2, <1>3 DEF PairInv
  <2>1. ASSUME NEW n \in Node, NodeKind(n) PROVE Agreement'
    BY <2>1, QuietAgrees, ReserveAgrees, LoseAgrees, RunsAgrees DEF NodeKind
  <2> QED
    BY <1>1, <2>1, RestAgrees, StoreAgrees, LateRunAgrees DEF Kind
<1>4. Restores \/ restores' = restores
  BY <1>1 DEF Kind, NodeKind, Rests, Saves, Stores, LateRun, Moves, Looks, Migrates, Mints,
              Rewrites, Reserves, Queries, Answers, LosesPut, Runs, LosesRun, Fixed
<1> QED
  BY <1>2, <1>3, <1>4

\* It holds initially.
LEMMA InitAgrees == Init => PairInv
<1> SUFFICES ASSUME Init PROVE Agreement
  BY DEF PairInv
<1>1. PICK s \in Starts :
         /\ anchor = [epoch |-> 0, token |-> InitToken, pid |-> NoId, boot |-> (s = "greenfield")]
         /\ db = [pair |-> IF s = "greenfield" THEN NoPair
                                              ELSE [epoch |-> 0, token |-> InitToken],
                  migrated |-> (s = "established"),
                  applied |-> {}, status |-> [id \in Id |-> "none"]]
  BY DEF Init
<1>2. PairAgrees /\ Shared
  BY <1>1 DEF Init, PairAgrees, Shared, Ran, BasePair
<1>3. \A n \in Node : NodeAgrees(n)
  BY DEF Init, NodeAgrees, FencePC, ClosePC, DropPC, ServePC, WritePC, ReadPC
<1> QED
  BY <1>2, <1>3 DEF Agreement

-----------------------------------------------------------------------------
(* What follows for every behaviour                                        *)

\* The three layers hold throughout.
LEMMA AlwaysAll == Spec => [](IInv /\ OwnInv /\ RowsInv /\ PairInv)
<1>1. IInv /\ OwnInv /\ RowsInv /\ PairInv /\ IInv' /\ [Next]_vars
          => OwnInv' /\ RowsInv' /\ PairInv'
  BY NextOwns, NextRows, NextAgrees
<1> QED
  BY <1>1, InitOwns, InitRows, InitAgrees, AlwaysIInv, PTL DEF Spec

\* Until a restore, the database is at the anchor's pair or at the one the anchor
\* has pending, whatever crashes, losses and competing nodes interrupt rhizaSQL's
\* fenced writes and the settlement of a start.
THEOREM PairsAlwaysAgree == Spec => []PairsAgree
<1>1. PairInv => PairsAgree
  BY DEF PairInv, Agreement, PairAgrees, PairsAgree
<1> QED
  BY <1>1, AlwaysAll, PTL

\* Until a restore, a node serves, and an anchor leaves its first pair, only on a
\* migrated schema with a trust row: settleTrustAnchorOnce returns nil, and
\* finalizeTrustFence closes a fence, only behind a durable migration.
THEOREM ServingOnlyMigrated == Spec => []ServingIsMigrated
<1>1. ASSUME IInv, PairInv PROVE ServingIsMigrated
  <2> SUFFICES ASSUME restores = 0,
                      (\E n \in Node : Serving(n)) \/ (~anchor.boot /\ anchor.epoch > 0)
               PROVE  db.migrated /\ db.pair # NoPair
    BY DEF ServingIsMigrated
  <2>1. Agreement
    BY <1>1 DEF PairInv
  <2>2. CASE \E n \in Node : Serving(n)
    BY <2>1, <2>2 DEF Serving, Agreement, NodeAgrees
  <2>3. CASE anchor.epoch > 0
    BY <1>1, <2>1, <2>3, Types DEF Agreement, Shared, Migrated, Record
  <2> QED
    BY <2>2, <2>3
<1> QED
  BY <1>1, AlwaysAll, PTL

\* A read that QueryContext returns holds every write that some client had been
\* told about when it read the anchor for the second time, however often the
\* database was restored meanwhile.
THEOREM ReadsAlwaysFresh == Spec => []ReadsAreFresh
<1>1. RowsInv => ReadsAreFresh
  BY DEF RowsInv
<1> QED
  BY <1>1, AlwaysAll, PTL

\* The rows are those the anchor answers for: a database at a settled anchor's
\* pair holds every witnessed write, and no database holds the row of a write
\* that the anchor neither finalized nor has pending.
THEOREM RowsAlwaysAnchored == Spec => []RowsAreAnchored
<1>1. OwnInv /\ RowsInv => RowsAreAnchored
  BY RowsAnchored
<1> QED
  BY <1>1, AlwaysAll, PTL

-----------------------------------------------------------------------------
(* The fence implements TrustedStore                                       *)

\* S has every id of T: the deployment's token never was one, and one more may
\* stand for the migration, which has no rows.
Full(S, T) == \E b \in Token : S = T \ {InitToken, b}

\* A database at the pair of anchor a, or at the pair it has pending, holds all
\* that was finalized, h, and in the latter case the reservation too.
ExactFor(d, a, h) ==
    /\ d.pair = BasePair(a) => Full(d.applied, h)
    /\ Pending(a) /\ d.pair = PendingPair(a) => Full(d.applied, h \cup {a.pid})
DbExact == ExactFor(db, anchor, hist) /\ ExactFor(snap, anchor, hist)

\* What a read is about to return is complete; an id about to be reserved, by a
\* node or by a PUT in flight, was never finalized.
NodeExact(n) ==
    Current(n) => /\ pc[n] = "r_get" => Full(rows[n], hist)
                  /\ pc[n] \in MintedPC => rec[n].pid \notin hist
PutExact ==
    \A m \in put : m.rv = rv /\ ~Pending(anchor) /\ Pending(m.next) => m.next.pid \notin hist
ExactInv == DbExact /\ (\A n \in Node : NodeExact(n)) /\ PutExact

\* Full sets stay full with one more id; the deployment's token counts for none.
LEMMA FullGrows ==
    ASSUME NEW S, NEW T, NEW x \in Id, Full(S, T)
    PROVE  Full(S \cup {x}, T \cup {x})
<1>1. InitToken \in Token /\ x # InitToken
  BY TrustFenceAssumption DEF Token
<1>2. PICK b \in Token : S = T \ {InitToken, b}
  BY DEF Full
<1>3. CASE x = b
  <2>1. S \cup {x} = (T \cup {x}) \ {InitToken, InitToken}
    BY <1>1, <1>2, <1>3
  <2> QED
    BY <1>1, <2>1 DEF Full
<1>4. CASE x # b
  <2>1. S \cup {x} = (T \cup {x}) \ {InitToken, b}
    BY <1>1, <1>2, <1>4
  <2> QED
    BY <2>1 DEF Full
<1> QED
  BY <1>3, <1>4

\* On the first pair a database has no row but the reservation's.
LEMMA FewRows ==
    ASSUME NEW a \in Record, NEW d \in Database, a.epoch = 0, Sound(d),
           d.applied \subseteq {InitToken, a.pid}
    PROVE  ExactFor(d, a, {InitToken})
<1>1. InitToken \in Token /\ InitToken \notin Id /\ d.applied \subseteq Id
  BY TrustFenceAssumption DEF Token, Database
<1>2. ASSUME d.pair = BasePair(a) PROVE Full(d.applied, {InitToken})
  <2>1. d.applied = {}
    BY <1>2 DEF Sound, BasePair
  <2>2. {} = {InitToken} \ {InitToken, InitToken}
    OBVIOUS
  <2> QED
    BY <1>1, <2>1, <2>2 DEF Full
<1>3. ASSUME Pending(a) PROVE Full(d.applied, {InitToken} \cup {a.pid})
  <2>1. a.pid \in Id /\ a.pid \in Token /\ a.pid # InitToken
    BY <1>1, <1>3 DEF Record, Pending, Token
  <2>2. CASE a.pid \in d.applied
    <3>1. d.applied = ({InitToken} \cup {a.pid}) \ {InitToken, InitToken}
      BY <1>1, <2>1, <2>2
    <3> QED
      BY <1>1, <3>1 DEF Full
  <2>3. CASE a.pid \notin d.applied
    <3>1. d.applied = ({InitToken} \cup {a.pid}) \ {InitToken, a.pid}
      BY <1>1, <2>1, <2>3
    <3> QED
      BY <2>1, <3>1 DEF Full
  <2> QED
    BY <2>2, <2>3
<1> QED
  BY <1>2, <1>3 DEF ExactFor

\* So the first pair needs no more than OwnInv.
LEMMA FirstPairExact == ASSUME IInv', OwnInv', (anchor.epoch = 0)' PROVE DbExact'
<1>1. /\ anchor' \in Record /\ db' \in Database /\ snap' \in Database
      /\ Sound(db)' /\ Sound(snap)' /\ snap'.applied \subseteq db'.applied
      /\ hist' = {InitToken} /\ db'.applied \subseteq hist' \cup {anchor'.pid}
  BY DEF IInv, AnchorPart, DatabasePart, OwnInv, Globals, Databases, ExtendsBackup, Bootstraps,
         NoUnanchoredRows
<1> DEFINE a == anchor'
           d == db'
           e == snap'
<1>2. /\ a \in Record /\ a.epoch = 0 /\ d \in Database /\ e \in Database /\ Sound(d) /\ Sound(e)
      /\ d.applied \subseteq {InitToken, a.pid} /\ e.applied \subseteq {InitToken, a.pid}
  BY <1>1 DEF Sound
<1> HIDE DEF a, d, e
<1>3. ExactFor(d, a, {InitToken}) /\ ExactFor(e, a, {InitToken})
  BY <1>2, FewRows
<1> QED
  BY <1>1, <1>3 DEF a, d, e, DbExact, ExactFor

\* Databases that keep their pair and rows, or take over the other's, stay exact.
LEMMA SameDb ==
    ASSUME DbExact, UNCHANGED <<anchor, hist>>,
           \E d \in {db, snap} : db'.pair = d.pair /\ db'.applied = d.applied,
           snap' \in {db, snap}
    PROVE  DbExact'
BY DEF DbExact, ExactFor

\* A node that a step leaves alone stays exact.
LEMMA KeptNode ==
    ASSUME IInv, IInv', NEW k \in Node, NodeExact(k), Keeps(k), hist' = hist, rv' >= rv
    PROVE  NodeExact(k)'
<1>1. Current(k)' => Current(k)
  <2>1. ver[k] \in Nat /\ ver[k] <= rv /\ rv \in Nat /\ rv' \in Nat
    BY Types DEF IInv, AnchorPart
  <2> QED
    BY <2>1 DEF Current, Keeps
<1> QED
  BY <1>1 DEF NodeExact, Keeps

\* One that is about neither to return nor to reserve has nothing to show.
LEMMA ElseNode ==
    ASSUME NEW k \in Node, pc'[k] \notin MintedPC \cup {"r_get"}
    PROVE  NodeExact(k)'
BY DEF NodeExact

\* Nor has one whose version a write of the anchor has made old.
LEMMA StaleNode ==
    ASSUME IInv, NEW k \in Node, Keeps(k) \/ Back(k), rv' = rv + 1
    PROVE  NodeExact(k)'
<1>1. Keeps(k) => ~Current(k)'
  BY Types DEF Current, Keeps
<1> QED
  BY <1>1, ElseNode DEF NodeExact, Back, MintedPC

\* PUTs in flight stay as they are, or become stale.
LEMMA KeptPuts ==
    ASSUME IInv, PutExact, put' \subseteq put,
           \/ UNCHANGED <<anchor, hist, rv>>
           \/ rv' = rv + 1
    PROVE  PutExact'
<1>1. \A m \in put : m.rv \in Nat /\ m.rv <= rv /\ rv \in Nat
  BY Types
<1>2. CASE UNCHANGED <<anchor, hist, rv>>
  BY <1>2 DEF PutExact
<1>3. CASE rv' = rv + 1
  BY <1>1, <1>3 DEF PutExact
<1> QED
  BY <1>2, <1>3

\* Steps of a node that leave the anchor's record and the rows.
LEMMA QuietExact ==
    ASSUME IInv, IInv', OwnInv, RowsInv, ExactInv, NEW n \in Node,
           \/ \E p \in PC : Moves(n, p) \/ Looks(n, p) \/ Migrates(n, p)
           \/ \E id \in Id : Mints(n, id)
           \/ Rewrites(n) \/ Queries(n) \/ Answers(n)
           \/ \E next \in Record : LosesPut(n, next)
           \/ \E r \in ExecRequest : LosesRun(n, r)
    PROVE  ExactInv'
<1> USE DEF ExactInv
<1>1. /\ UNCHANGED <<anchor, hist, snap>> /\ db'.pair = db.pair /\ db'.applied = db.applied
      /\ Only(n) /\ rv' \in {rv, rv + 1} /\ (rv' = rv \/ Rewrites(n)) /\ rv' >= rv
  <2>1. rv \in Nat /\ db \in Database
    BY Types
  <2> QED
    BY <2>1 DEF Moves, Looks, Migrates, Mints, Rewrites, Queries, Answers, LosesPut, LosesRun, Fixed,
                Database
<1>2. DbExact'
  BY <1>1, SameDb
<1>3. \A k \in Node \ {n} : NodeExact(k)'
  BY <1>1, KeptNode DEF Only
<1>4. ASSUME NEW next \in Record, LosesPut(n, next) PROVE ExactInv'
  <2>1. NodeExact(n)'
    BY <1>4, ElseNode DEF LosesPut, Back, MintedPC
  <2>2. ~Pending(anchor) /\ Pending(next) => next.pid \notin hist
    BY <1>4 DEF LosesPut, Closes, NodeExact
  <2>3. PutExact'
    BY <1>4, <2>2 DEF LosesPut, PutExact
  <2> QED
    BY <1>2, <1>3, <2>1, <2>3
<1>5. ASSUME \A next \in Record : ~LosesPut(n, next) PROVE PutExact'
  <2>1. put' = put
    BY <1>5 DEF Moves, Looks, Migrates, Mints, Rewrites, Queries, Answers, LosesRun, Fixed
  <2> QED
    BY <1>1, <2>1, KeptPuts
<1>6. ASSUME NEW p \in PC, Moves(n, p) PROVE NodeExact(n)'
  <2>1. CASE p = "r_get"
    <3>1. /\ pc[n] = "r_verify" /\ db.pair = BasePair(rec[n]) /\ rows'[n] = rows[n] /\ ver'[n] = ver[n]
          /\ pc'[n] = "r_get" /\ rv' = rv /\ hist' = hist
      BY <1>6, <2>1 DEF Moves, Leads, FencePC, Holds, Fixed
    <3>2. Current(n) => db.pair = BasePair(anchor)
      BY <3>1 DEF IInv, LocalPart, Knows, Current, MintedPC
    <3>3. Current(n) => rows[n] = db.applied
      BY <3>1, <3>2 DEF RowsInv, Contents, Stored, Reads, Left
    <3>4. Current(n) => Full(rows[n], hist)
      BY <3>2, <3>3 DEF DbExact, ExactFor
    <3> QED
      BY <3>1, <3>4 DEF NodeExact, Current, MintedPC
  <2>2. CASE p # "r_get"
    BY <1>6, <2>2, ElseNode DEF Moves, Holds, Leads, MintedPC
  <2> QED
    BY <2>1, <2>2
<1>7. ASSUME NEW id \in Id, Mints(n, id) PROVE NodeExact(n)'
  <2>1. /\ rec'[n].pid = id /\ ver'[n] = ver[n] /\ rv' = rv /\ hist' = hist /\ pc'[n] \in MintedPC
        /\ \/ id \notin used
           \/ pc[n] \in {"b_exists", "b_verify"}
    BY <1>7, NodeFacts DEF Mints, MintedPC, Reserve, Record
  <2>2. id \notin used => id \notin hist
    BY TrustFenceAssumption DEF OwnInv, Globals, Minted, Token
  <2>3. Current(n) /\ pc[n] \in {"b_exists", "b_verify"} => anchor.boot
    BY DEF OwnInv, NodeOwns, IInv, LocalPart, Knows, Current, MintedPC
  <2>4. anchor.boot => id \notin hist
    BY TrustFenceAssumption DEF OwnInv, Globals, Bootstraps, Token
  <2> QED
    BY <2>1, <2>2, <2>3, <2>4 DEF NodeExact, Current, MintedPC
<1>8. ASSUME Rewrites(n) PROVE NodeExact(n)'
  BY <1>8 DEF Rewrites, NodeExact
<1>9. ASSUME \/ \E p \in PC : Looks(n, p) \/ Migrates(n, p)
             \/ Queries(n) \/ Answers(n)
             \/ \E r \in ExecRequest : LosesRun(n, r)
      PROVE  NodeExact(n)'
  BY <1>9, ElseNode DEF Looks, Migrates, Queries, Answers, LosesRun, Holds, Back, MintedPC
<1> QED
  BY <1>2, <1>3, <1>4, <1>5, <1>6, <1>7, <1>8, <1>9

\* Nothing happens; a backup is taken or restored.
LEMMA RestExact ==
    ASSUME IInv, IInv', ExactInv, Rests \/ Saves \/ Restores
    PROVE  ExactInv'
<1> USE DEF ExactInv
<1>1. /\ UNCHANGED <<anchor, hist, rv>> /\ put' \subseteq put /\ db' \in {db, snap} /\ snap' \in {db, snap}
      /\ rv' >= rv /\ \A k \in Node : Keeps(k) \/ Back(k)
  BY Types DEF Rests, Saves, Restores
<1>2. DbExact'
  BY <1>1, SameDb
<1>3. \A k \in Node : NodeExact(k)'
  BY <1>1, KeptNode, ElseNode DEF Back, MintedPC
<1>4. PutExact'
  BY <1>1, KeptPuts
<1> QED
  BY <1>2, <1>3, <1>4

\* A reservation: past the first pair no database can be at its pair yet.
LEMMA ReservedExact ==
    ASSUME IInv, IInv', OwnInv, OwnInv', DbExact,
           ~Pending(anchor), Pending(anchor'), anchor' = Reserve(anchor, anchor'.pid),
           anchor.epoch = 0 \/ db.status[anchor'.pid] = "none", UNCHANGED <<db, snap, hist>>
    PROVE  DbExact'
<1>1. /\ anchor'.epoch = anchor.epoch /\ anchor'.token = anchor.token /\ anchor'.pid \in Id
      /\ BasePair(anchor)' = BasePair(anchor) /\ db \in Database /\ snap \in Database
  BY Types DEF Reserve, Record, BasePair, Pending, IInv, AnchorPart
<1>2. CASE anchor.epoch = 0
  BY <1>1, <1>2, FirstPairExact
<1>3. CASE db.status[anchor'.pid] = "none"
  <2>1. \A d \in {db, snap} : d.status[anchor'.pid] # "committed"
    BY <1>1, <1>3 DEF OwnInv, Globals, Databases, ExtendsBackup
  <2>2. \A d \in {db, snap} : d.pair # PendingPair(anchor)'
    BY <1>1, <2>1 DEF OwnInv, Globals, Databases, Sound, PendingPair
  <2> QED
    BY <1>1, <2>2 DEF DbExact, ExactFor
<1> QED
  BY <1>2, <1>3

\* A node makes its reservation.
LEMMA ReserveExact ==
    ASSUME IInv, IInv', OwnInv, OwnInv', ExactInv, NEW n \in Node, Reserves(n)
    PROVE  ExactInv'
<1> USE DEF ExactInv
<1>1. /\ UNCHANGED <<put, db, snap, hist>> /\ Only(n) /\ Current(n) /\ ~Pending(anchor)
      /\ anchor' = rec[n] /\ rv' = rv + 1 /\ pc[n] \in MintedPC /\ pc'[n] \notin MintedPC \cup {"r_get"}
  BY DEF Reserves, MintedPC
<1>2. /\ Pending(anchor') /\ anchor' = Reserve(anchor, anchor'.pid)
      /\ anchor.epoch = 0 \/ db.status[anchor'.pid] = "none"
  <2>1. anchor' \in Record
    BY DEF IInv, AnchorPart
  <2> DEFINE x == anchor'
  <2>2. x \in Record /\ Current(n) /\ pc[n] \in MintedPC /\ ~Pending(anchor) /\ x = rec[n] /\ Pending(x)
    BY <1>1, <2>1, NodeFacts DEF MintedPC, PendingPC
  <2> HIDE DEF x
  <2>3. Pending(x) /\ x = Reserve(anchor, x.pid) /\ (anchor.epoch = 0 \/ db.status[x.pid] = "none")
    BY <2>2, SuccessorOwns
  <2> QED
    BY <2>3 DEF x
<1>3. DbExact'
  BY <1>1, <1>2, ReservedExact
<1>4. \A k \in Node : NodeExact(k)'
  BY <1>1, StaleNode, ElseNode DEF Only
<1>5. PutExact'
  BY <1>1, KeptPuts
<1> QED
  BY <1>3, <1>4, <1>5

\* The anchor moves.
LEMMA StoreExact ==
    ASSUME IInv, IInv', OwnInv, OwnInv', ExactInv, NEW next \in Record, Stores(next)
    PROVE  ExactInv'
<1> USE DEF ExactInv
<1>1. /\ UNCHANGED <<db, snap>> /\ put' \subseteq put /\ anchor' = next /\ rv' = rv + 1
      /\ hist' = IF next.epoch > anchor.epoch THEN hist \cup {next.token} ELSE hist
      /\ \A k \in Node : Keeps(k) \/ Back(k)
  BY DEF Stores
<1>2. \A k \in Node : NodeExact(k)'
  BY <1>1, StaleNode
<1>3. PutExact'
  BY <1>1, KeptPuts
<1>4. /\ Finalize(anchor).epoch = anchor.epoch + 1 /\ Finalize(anchor).token = anchor.pid
      /\ Finalize(anchor).pid = NoId /\ anchor.epoch \in Nat
      /\ Clear(anchor).epoch = anchor.epoch /\ Clear(anchor).token = anchor.token /\ Clear(anchor).pid = NoId
  BY Types DEF Finalize, Clear, Record
<1>5. CASE next = anchor
  <2>1. hist' = hist /\ anchor' = anchor
    BY <1>1, <1>4, <1>5
  <2>2. DbExact'
    BY <1>1, <2>1, SameDb
  <2> QED
    BY <1>2, <1>3, <2>2
<1>6. CASE next = Finalize(anchor) /\ Pending(anchor)
  <2>1. hist' = hist \cup {anchor.pid} /\ BasePair(anchor)' = PendingPair(anchor) /\ ~Pending(anchor')
    BY <1>1, <1>4, <1>6 DEF BasePair, PendingPair, Pending
  <2>2. DbExact'
    BY <1>1, <1>6, <2>1 DEF DbExact, ExactFor
  <2> QED
    BY <1>2, <1>3, <2>2
<1>7. CASE next = Clear(anchor)
  <2>1. hist' = hist /\ BasePair(anchor)' = BasePair(anchor) /\ ~Pending(anchor')
    BY <1>1, <1>4, <1>7 DEF BasePair, Pending
  <2>2. DbExact'
    BY <1>1, <2>1 DEF DbExact, ExactFor
  <2> QED
    BY <1>2, <1>3, <2>2
<1>8. CASE /\ ~Pending(anchor) /\ Pending(next) /\ next = Reserve(anchor, next.pid)
           /\ anchor.epoch = 0 \/ db.status[next.pid] = "none"
  <2>1. next.epoch = anchor.epoch
    BY <1>8, Types DEF Reserve, Record
  <2>2. hist' = hist
    BY <1>1, <1>4, <2>1
  <2>3. DbExact'
    BY <1>1, <1>8, <2>2, ReservedExact
  <2> QED
    BY <1>2, <1>3, <2>3
<1> QED
  BY <1>2, <1>3, <1>5, <1>6, <1>7, <1>8, SuccessorOwns DEF Stores

\* An execution.
LEMMA RunExact ==
    ASSUME IInv, IInv', OwnInv, OwnInv', DbExact, NEW r, Request(r), db' \in Executed(db, r),
           UNCHANGED <<anchor, hist, snap>>
    PROVE  DbExact'
<1>1. /\ r \in ExecRequest /\ anchor \in Record /\ anchor.epoch \in Nat /\ anchor.token \in Token
      /\ Sound(db) /\ (r.kind # "create" => r.id \in Id)
  BY Types DEF Request, ExecRequest, Record, OwnInv, Globals, Databases
<1>2. CASE anchor.epoch = 0
  BY <1>2, FirstPairExact
<1>3. CASE ~Accepts(r) /\ ~Creates(r)
  <2>1. db'.pair = db.pair /\ db'.applied = db.applied
    BY <1>1, <1>3, Outcomes DEF Refuses
  <2> QED
    BY <2>1, SameDb
<1>4. CASE Creates(r) /\ anchor.epoch # 0
  <2>1. db'.pair = Zero
    BY <1>4 DEF Creates, Request
  <2>2. Zero # BasePair(anchor) /\ Zero # PendingPair(anchor)
    BY <1>1, <1>4 DEF Zero, BasePair, PendingPair
  <2> QED
    BY <2>1, <2>2 DEF DbExact, ExactFor
<1>5. CASE Accepts(r) /\ r.kind = "tail" /\ anchor.epoch # 0
  <2>1. db.pair = Zero /\ db'.pair = [epoch |-> 1, token |-> r.id]
    BY <1>5 DEF Accepts, Request, Zero
  <2>2. db'.applied = {} /\ db'.pair # PendingPair(anchor)
    BY <1>1, <1>5, <2>1 DEF Accepts, Sound, Zero, PendingPair
  <2>3. ASSUME db'.pair = BasePair(anchor) PROVE Full({}, hist)
    <3>1. hist = {InitToken, anchor.token}
      BY <2>1, <2>3 DEF OwnInv, Globals, Bootstraps, BasePair
    <3>2. {} = hist \ {InitToken, anchor.token}
      BY <3>1
    <3> QED
      BY <1>1, <3>2 DEF Full
  <2> QED
    BY <2>2, <2>3 DEF DbExact, ExactFor
<1>6. CASE Accepts(r) /\ r.kind = "write"
  <2>1. /\ r.id = anchor.pid /\ anchor.pid \in Id /\ db.pair = BasePair(anchor) /\ db'.pair = PendingPair(anchor)
        /\ db'.applied = db.applied \cup {anchor.pid}
    BY <1>1, <1>6 DEF Accepts, Request, BasePair, PendingPair
  <2>2. Full(db'.applied, hist \cup {anchor.pid})
    BY <2>1, FullGrows DEF DbExact, ExactFor
  <2>3. BasePair(anchor) # PendingPair(anchor)
    BY <1>1 DEF BasePair, PendingPair
  <2> QED
    BY <2>1, <2>2, <2>3 DEF DbExact, ExactFor
<1> QED
  BY <1>1, <1>2, <1>3, <1>4, <1>5, <1>6 DEF Accepts, ExecRequest

\* Every step keeps databases, reads and reservations exact.
LEMMA NextExact ==
    ASSUME IInv, IInv', OwnInv, OwnInv', RowsInv, ExactInv, Kind
    PROVE  ExactInv'
<1>1. ASSUME NEW r \in exec, LateRun(r) PROVE ExactInv'
  <2>1. Request(r) /\ rv' >= rv
    BY <1>1, RequestOwns, Types DEF LateRun
  <2>2. DbExact'
    BY <1>1, <2>1, RunExact DEF LateRun, ExactInv
  <2>3. \A k \in Node : NodeExact(k)'
    BY <1>1, <2>1, KeptNode DEF LateRun, ExactInv
  <2> QED
    BY <1>1, <2>2, <2>3, KeptPuts DEF LateRun, ExactInv
<1>2. ASSUME NEW n \in Node, NEW r \in ExecRequest, Runs(n, r) PROVE ExactInv'
  <2>1. Request(r) /\ rv' >= rv
    BY <1>2, RequestOwns, Types DEF Runs
  <2>2. DbExact'
    BY <1>2, <2>1, RunExact DEF Runs, ExactInv
  <2>3. \A k \in Node \ {n} : NodeExact(k)'
    BY <1>2, <2>1, KeptNode DEF Runs, Only, ExactInv
  <2>4. NodeExact(n)'
    BY <1>2, ElseNode DEF Runs, Back, MintedPC
  <2> QED
    BY <1>2, <2>2, <2>3, <2>4, KeptPuts DEF Runs, ExactInv
<1>3. ASSUME NEW n \in Node, NodeKind(n) PROVE ExactInv'
  BY <1>2, <1>3, QuietExact, ReserveExact DEF NodeKind
<1> QED
  BY <1>1, <1>3, RestExact, StoreExact DEF Kind

\* It is so initially.
LEMMA InitExact == ASSUME Init, IInv, OwnInv PROVE ExactInv
<1>1. PICK s \in Starts :
         /\ anchor = [epoch |-> 0, token |-> InitToken, pid |-> NoId, boot |-> (s = "greenfield")]
         /\ db = [pair |-> IF s = "greenfield" THEN NoPair
                                              ELSE [epoch |-> 0, token |-> InitToken],
                  migrated |-> (s = "established"),
                  applied |-> {}, status |-> [id \in Id |-> "none"]]
  BY DEF Init
<1>2. ExactFor(db, anchor, {InitToken})
  BY <1>1, Types, FewRows DEF OwnInv, Globals, Databases
<1> QED
  BY <1>2 DEF Init, ExactInv, DbExact, NodeExact, PutExact, MintedPC

\* Answers are only returned, or lost, when no other read is answered.
LEMMA ReturnStep ==
    ASSUME \A k \in Node : pc'[k] = "r_done" => pc[k] = "r_done" /\ rows'[k] = rows[k]
    PROVE  Promise!Return
<1> DEFINE gone == {k \in Node : pc'[k] # "r_done"}
<1>1. gone \in SUBSET Node
  OBVIOUS
<1>2. [n \in Node |-> IF pc'[n] = "r_done" THEN rows'[n] ELSE {}] =
      [n \in Node |-> IF n \in gone THEN {} ELSE
          [k \in Node |-> IF pc[k] = "r_done" THEN rows[k] ELSE {}][n]]
  OBVIOUS
<1> HIDE DEF gone
<1> QED
  BY <1>1, <1>2 DEF Promise!Return

\* A reservation begins a write that was never decided.
LEMMA BeginStep ==
    ASSUME IInv, ~Pending(anchor), Pending(anchor'), anchor' \in Record, anchor'.pid \notin hist,
           UNCHANGED <<hist, witnessed>>, Promise!Return
    PROVE  Promise!Next
<1>1. anchor'.pid \in Id /\ anchor.pid = NoId
  BY DEF Pending, Record
<1> DEFINE w == anchor'.pid
<1>2. w \in Id /\ w \notin hist /\ w = anchor'.pid
  BY <1>1
<1> HIDE DEF w
<1>3. Promise!Begin(w)
  BY <1>1, <1>2 DEF Promise!Begin
<1> QED
  BY <1>2, <1>3 DEF Promise!Next

\* The anchor moves: the write in doubt is decided, or one begins.
LEMMA StorePromise ==
    ASSUME IInv, IInv', OwnInv, ExactInv, NEW next \in Record, Stores(next)
    PROVE  Promise!Next
<1>1. /\ anchor' = next /\ hist' = (IF next.epoch > anchor.epoch THEN hist \cup {next.token} ELSE hist)
      /\ \A k \in Node : Keeps(k) \/ Back(k)
  BY DEF Stores
<1>2. Promise!Return
  BY <1>1, ReturnStep DEF Keeps, Back
<1>3. /\ Finalize(anchor).epoch = anchor.epoch + 1 /\ Finalize(anchor).token = anchor.pid
      /\ Finalize(anchor).pid = NoId /\ anchor.epoch \in Nat
      /\ Clear(anchor).epoch = anchor.epoch /\ Clear(anchor).pid = NoId
      /\ (Pending(anchor) => anchor.pid \in Id) /\ InitToken \notin Id
  BY Types, TrustFenceAssumption DEF Finalize, Clear, Record, Pending, Token
<1>4. /\ witnessed' \in {witnessed, witnessed \cup {anchor.pid}}
      /\ witnessed' # witnessed => next = Finalize(anchor)
  BY DEF Stores, Closes
<1>5. CASE next = anchor
  <2>1. next # Finalize(anchor)
    BY <1>3, <1>5
  <2>2. UNCHANGED <<anchor, hist, witnessed>>
    BY <1>1, <1>3, <1>4, <1>5, <2>1
  <2> QED
    BY <1>2, <2>2 DEF Promise!Next
<1>6. CASE next = Finalize(anchor) /\ Pending(anchor)
  <2>1. hist' = hist \cup {anchor.pid} /\ anchor'.pid = NoId
    BY <1>1, <1>3, <1>6
  <2>2. hist' \ {InitToken} = (hist \ {InitToken}) \cup {anchor.pid}
    BY <1>3, <1>6, <2>1
  <2>3. Promise!Accept
    BY <1>4, <1>6, <2>1, <2>2 DEF Promise!Accept, Pending
  <2> QED
    BY <1>2, <2>3 DEF Promise!Next
<1>7. CASE next = Clear(anchor) /\ Pending(anchor)
  <2>1. next # Finalize(anchor)
    BY <1>3, <1>7
  <2>2. anchor'.pid = NoId /\ UNCHANGED <<hist, witnessed>>
    BY <1>1, <1>3, <1>4, <1>7, <2>1
  <2>3. Promise!Reject
    BY <1>7, <2>2 DEF Promise!Reject, Pending
  <2> QED
    BY <1>2, <2>3 DEF Promise!Next
<1>8. CASE ~Pending(anchor) /\ Pending(next) /\ next = Reserve(anchor, next.pid)
  <2>1. next.epoch = anchor.epoch
    BY <1>8, Types DEF Reserve, Record
  <2>2. next # Finalize(anchor) /\ hist' = hist
    BY <1>1, <1>3, <2>1
  <2>3. next.pid \notin hist
    BY <1>8 DEF Stores, Closes, ExactInv, PutExact
  <2> QED
    BY <1>1, <1>2, <1>4, <1>8, <2>2, <2>3, BeginStep
<1> QED
  BY <1>5, <1>6, <1>7, <1>8, SuccessorOwns DEF Stores

\* A read is answered with every decided write, less the migration's id.
LEMMA AnswerPromise ==
    ASSUME IInv, RowsInv, ExactInv, NEW n \in Node, Answers(n)
    PROVE  Promise!Respond(n)
<1>1. /\ UNCHANGED <<anchor, hist>> /\ Only(n) /\ pc[n] = "r_get" /\ ReadUnchanged(n) /\ pc'[n] = "r_done"
      /\ rows'[n] = rows[n] /\ witnessed' = witnessed \cup rows[n]
  BY DEF Answers
<1>2. Current(n) /\ anchor.pid = NoId
  BY <1>1 DEF ReadUnchanged, Current, Pending
<1>3. witnessed \subseteq rows[n]
  BY <1>1, <1>2 DEF RowsInv, Contents, Belong, Reads
<1>4. PICK b \in Token : rows[n] = hist \ {InitToken, b}
  BY <1>1, <1>2 DEF ExactInv, NodeExact, Full
<1>5. NoId \notin hist
  BY Types, TrustFenceAssumption
<1>6. \E schema \in (hist \ {InitToken}) \cup {NoId} : rows[n] = (hist \ {InitToken}) \ {schema}
  <2>1. CASE b \in hist \ {InitToken}
    <3>1. rows[n] = (hist \ {InitToken}) \ {b}
      BY <1>4
    <3> QED
      BY <2>1, <3>1
  <2>2. CASE b \notin hist \ {InitToken}
    <3>1. rows[n] = (hist \ {InitToken}) \ {NoId}
      BY <1>4, <1>5, <2>2
    <3> QED
      BY <3>1
  <2> QED
    BY <2>1, <2>2
<1>7. [k \in Node |-> IF pc'[k] = "r_done" THEN rows'[k] ELSE {}] =
      [[k \in Node |-> IF pc[k] = "r_done" THEN rows[k] ELSE {}] EXCEPT ![n] = rows[n]]
  BY <1>1 DEF Only, Keeps
<1>8. witnessed' = rows[n] /\ UNCHANGED <<hist, anchor>>
  BY <1>1, <1>3
<1> QED
  BY <1>2, <1>3, <1>6, <1>7, <1>8 DEF Promise!Respond

\* Every step of the fence is a step of the store it promises, or none.
LEMMA NextPromise ==
    ASSUME IInv, IInv', OwnInv, RowsInv, ExactInv, Kind
    PROVE  Promise!Next
<1>1. ASSUME UNCHANGED <<anchor, hist, witnessed>>,
             \A k \in Node : pc'[k] = "r_done" => pc[k] = "r_done" /\ rows'[k] = rows[k]
      PROVE  Promise!Next
  BY <1>1, ReturnStep DEF Promise!Next
<1>2. CASE Rests \/ Saves \/ Restores \/ \E r \in exec : LateRun(r)
  <2>1. UNCHANGED <<anchor, hist, witnessed>> /\ \A k \in Node : Keeps(k) \/ Back(k)
    BY <1>2 DEF Rests, Saves, Restores, LateRun
  <2> QED
    BY <1>1, <2>1 DEF Keeps, Back
<1>3. ASSUME NEW n \in Node, Reserves(n) PROVE Promise!Next
  <2>1. /\ UNCHANGED <<hist, witnessed>> /\ Only(n) /\ Current(n) /\ ~Pending(anchor) /\ anchor' = rec[n]
        /\ pc[n] \in MintedPC /\ pc'[n] # "r_done"
    BY <1>3 DEF Reserves, MintedPC
  <2>2. Pending(rec[n]) /\ rec[n] \in Record
    BY <2>1, NodeFacts DEF MintedPC, PendingPC
  <2>3. rec[n].pid \notin hist
    BY <2>1 DEF ExactInv, NodeExact
  <2>4. Promise!Return
    BY <2>1, ReturnStep DEF Only, Keeps
  <2> QED
    BY <2>1, <2>2, <2>3, <2>4, BeginStep
<1>4. ASSUME NEW n \in Node, NodeKind(n) PROVE Promise!Next
  <2>1. CASE Answers(n)
    BY <2>1, AnswerPromise DEF Promise!Next
  <2>2. CASE \/ \E p \in PC : Moves(n, p) \/ Looks(n, p) \/ Migrates(n, p)
             \/ \E id \in Id : Mints(n, id)
             \/ Rewrites(n) \/ Queries(n)
             \/ \E next \in Record : LosesPut(n, next)
             \/ \E r \in ExecRequest : Runs(n, r) \/ LosesRun(n, r)
    <3>1. UNCHANGED <<anchor, hist, witnessed>> /\ Only(n)
      BY <2>2 DEF Moves, Looks, Migrates, Mints, Rewrites, Queries, LosesPut, Runs, LosesRun, Fixed
    <3>2. pc'[n] = "r_done" => pc[n] = "r_done" /\ rows'[n] = rows[n]
      <4>1. CASE \E p \in PC : Moves(n, p) \/ Looks(n, p) \/ Migrates(n, p)
        BY <4>1 DEF Moves, Looks, Migrates, Holds, Leads, FencePC
      <4>2. CASE (\E id \in Id : Mints(n, id)) \/ Rewrites(n) \/ Queries(n)
        BY <4>2 DEF Mints, Rewrites, Queries
      <4>3. CASE \/ \E next \in Record : LosesPut(n, next)
                 \/ \E r \in ExecRequest : Runs(n, r) \/ LosesRun(n, r)
        BY <4>3 DEF LosesPut, Runs, LosesRun, Back
      <4> QED
        BY <2>2, <4>1, <4>2, <4>3
    <3> QED
      BY <1>1, <3>1, <3>2 DEF Only, Keeps
  <2> QED
    BY <1>3, <1>4, <2>1, <2>2 DEF NodeKind
<1> QED
  BY <1>2, <1>4, StorePromise DEF Kind

\* Initially nothing is decided, in doubt or told.
LEMMA InitPromise == ASSUME Init PROVE Promise!Init
BY DEF Init, Promise!Init

\* The fence implements the store it promises: whatever crashes, lost or late
\* calls, competing nodes and restored backups meet execute, QueryContext and
\* settleTrustAnchorOnce, clients see one store whose writes are decided one at
\* a time and for good, and whose reads return all decided writes and no other.
THEOREM FenceIsTrustedStore == Spec => ImplementsTrustedStore
<1>1. Init /\ IInv /\ OwnInv => ExactInv
  BY InitExact
<1>2. /\ IInv /\ OwnInv /\ RowsInv /\ ExactInv /\ [Next]_vars /\ IInv' /\ OwnInv'
      => ExactInv' /\ Promise!Next
  BY NextKind, NextExact, NextPromise
<1>3. Init => Promise!Init
  BY InitPromise
<1>4. Promise!Next => [Promise!Next]_(Promise!vars)
  OBVIOUS
<1> QED
  BY <1>1, <1>2, <1>3, <1>4, AlwaysAll, PTL DEF Spec, ImplementsTrustedStore, Promise!Spec
=============================================================================
