---------------------------- MODULE ClientAccessProofs ----------------------------
(***************************************************************************)
(* What ClientAccess promises, for every number of accounts, policies,     *)
(* slots and acts of administration.                                       *)
(*                                                                         *)
(* The inductive invariant says where every request and the client are:    *)
(* a request past its policy check was covered or an administrator's, the  *)
(* request the client waits for is the one it sent, and, as long as the    *)
(* device lives, the grant the client waits for has enough time left for   *)
(* every wait still to come.                                               *)
(***************************************************************************)
EXTENDS ClientAccess, TLAPS

-----------------------------------------------------------------------------
(* The inductive invariant                                                 *)

Alive == device = "manufactured"

\* A live device has its host; a dead one has no grant worth anything; an id
\* names one grant.
DeviceFits ==
    /\ Alive => host # Absent
    /\ ~Alive => relays = {} /\ \A g \in grants : g.left = 0
    /\ \A g, h \in grants : g.id = h.id => g = h

\* The handler has made its policy check and is on the way to a grant.
Decided(r) == \/ r.kind = "ssh" /\ r.at > 2
              \/ r.kind = "relay" /\ r.at > 3

RequestFits(r) ==
    /\ r \in Requests
    /\ r.at \in 1 .. Len(Calls[r.kind])
    /\ r.at > 1 => r.host # Absent
    /\ r.kind \in {"ssh", "relay"} => r.acct \in Account
RequestsFit ==
    \A s \in Slot : reqs[s] # NoReq =>
        RequestFits(reqs[s]) /\ (Decided(reqs[s]) => isAdmin \/ cover[s])

\* What ternalctl may be doing, and the answers it may have.
Answers == {NoAns, Failed, [is |-> "relay"]} \cup [is : {"user"}, user : Account]
           \cup [is : {"grant"}, grant : Nat] \cup [is : {"status"}, installed : BOOLEAN]
AskPC == {"list", "export", "get", "ssh", "wait", "relay"}
Client == [pc : AskPC \cup {"idle", "sleep", "endpoint", "fly"}, leg : {"ssh", "export", "proxy", "web"},
           login : Account \cup {None}, acct : Account \cup {None}, grant : Nat,
           slot : Slot \cup {0}, ans : Answers, due : 0 .. HttpTimeout, deadline : Nat]

\* r is the request c waits for.
Sent(c, r) ==
    /\ r # NoReq
    /\ c.pc = "ssh" => r.kind = "ssh" /\ r.acct = c.acct
    /\ c.pc = "wait" => r.kind = "status" /\ r.grant = c.grant
    /\ c.pc = "relay" => r.kind = "relay" /\ r.acct = c.acct
    /\ c.pc \in {"list", "export", "get"} => r.kind \in {"list", "config", "get"}
ClientFits ==
    ctl # Idle =>
        /\ ctl \in Client
        /\ ctl.pc \in AskPC /\ ctl.ans = NoAns => ctl.slot \in Slot /\ Sent(ctl, reqs[ctl.slot])
        /\ ctl.pc \notin AskPC => ctl.slot = 0
        /\ ctl.pc \in {"ssh", "wait", "sleep", "endpoint", "relay"} => ctl.acct \in Account
        /\ ctl.pc \in {"wait", "sleep"} => ctl.grant <= issued
        /\ ctl.ans.is = "grant" => ctl.ans.grant <= issued

IInv == TypeOK /\ DeviceFits /\ RequestsFit /\ ClientFits

-----------------------------------------------------------------------------
(* The time the client has                                                 *)

\* The lifetimes of the grants exceed the waits of ternalctl: five minutes each,
\* two minutes for the key and half a minute for a call.
LongEnough == SSHTTL > WaitTimeout + 4 * HttpTimeout /\ RelayTTL > HttpTimeout

\* The grant with this id is for the client's account and lasts t more.
Lasts(id, t) == \E g \in grants : g.id = id /\ g.acct = ctl.acct /\ g.left >= t
Installed(id) == \E g \in grants : g.id = id /\ g.key = "installed"

\* In each wait the grant lasts for this wait and for all that come after it.
Room == SSHTTL - WaitTimeout
SshTime ==
    ctl.pc = "ssh" /\ ctl.ans.is = "grant" =>
        Lasts(ctl.ans.grant, SSHTTL - HttpTimeout + ctl.due)
WaitTime ==
    ctl.pc = "wait" =>
        /\ Lasts(ctl.grant, Room - 2 * HttpTimeout + ctl.due)
        /\ ctl.deadline > 0 => Lasts(ctl.grant, Room - HttpTimeout + ctl.deadline)
        /\ ctl.ans.is = "status" /\ ctl.ans.installed => Installed(ctl.grant)
SleepTime ==
    ctl.pc = "sleep" =>
        /\ Lasts(ctl.grant, Room - HttpTimeout + ctl.deadline)
        /\ ctl.due <= 1 /\ (ctl.due > 0 => ctl.deadline > 0)
EndpointTime ==
    ctl.pc = "endpoint" =>
        Installed(ctl.grant) /\ Lasts(ctl.grant, Room - 3 * HttpTimeout + ctl.due)
RelayTime ==
    ctl.pc = "relay" =>
        /\ Installed(ctl.grant) /\ Lasts(ctl.grant, Room - 4 * HttpTimeout + ctl.due)
        /\ ctl.ans.is = "relay" => \E t \in relays : t >= RelayTTL - HttpTimeout + ctl.due
TimeFits ==
    Alive /\ ctl # Idle => SshTime /\ WaitTime /\ SleepTime /\ EndpointTime /\ RelayTime

-----------------------------------------------------------------------------
(* The tables of the model                                                 *)

\* Every store call a handler makes, by kind and position.
LEMMA CallTable ==
    ASSUME NEW k \in DOMAIN Calls, NEW i \in 1 .. Len(Calls[k])
    PROVE  /\ k \in {"list", "get", "config", "ssh", "relay", "status"}
           /\ Len(Calls[k]) \in 1 .. 6
           /\ Calls[k][i] = "GetHost" => i = 1 /\ k # "status" /\ Len(Calls[k]) > 1
           /\ Calls[k][i] = "ListPolicies" => /\ i > 1 /\ k # "status"
                                              /\ k \in {"ssh", "config"} => i = 2 /\ i < Len(Calls[k])
                                              /\ k = "relay" => i = 3 /\ i < Len(Calls[k])
           /\ Calls[k][i] = "GetDevice" => /\ i > 1 /\ i < Len(Calls[k]) /\ k # "status"
                                           /\ k = "relay" => i = 2
                                           /\ k = "ssh" => i > 2
           /\ Calls[k][i] = "GetDiscovery" => i > 2 /\ k \in {"config", "ssh"}
           /\ Calls[k][i] = "ListSSHKeys" => k = "ssh" /\ i > 2 /\ i < Len(Calls[k])
           /\ Calls[k][i] = "Issue" => (k = "ssh" /\ i = 6) \/ (k = "relay" /\ i = 4)
           /\ Calls[k][i] = "GetAccessGrant" => k = "status"
<1>1. k \in {"list", "get", "config", "ssh", "relay", "status"}
  BY DEF Calls
<1>2. CASE k \in {"list", "get"}
  <2>1. Calls[k] = <<"GetHost", "ListPolicies">>
    BY <1>2 DEF Calls
  <2> QED
    BY <1>2, <2>1
<1>3. CASE k = "config"
  <2>1. Calls[k] = <<"GetHost", "ListPolicies", "GetDevice", "GetDiscovery">>
    BY <1>3 DEF Calls
  <2> QED
    BY <1>3, <2>1
<1>4. CASE k = "ssh"
  <2>1. Calls[k] = <<"GetHost", "ListPolicies", "GetDevice", "GetDiscovery", "ListSSHKeys", "Issue">>
    BY <1>4 DEF Calls
  <2>2. /\ Len(Calls[k]) = 6 /\ Calls[k][1] = "GetHost" /\ Calls[k][2] = "ListPolicies"
        /\ Calls[k][3] = "GetDevice" /\ Calls[k][4] = "GetDiscovery"
        /\ Calls[k][5] = "ListSSHKeys" /\ Calls[k][6] = "Issue"
    BY <2>1
  <2>3. i \in {1, 2, 3, 4, 5, 6}
    BY <2>2
  <2>4. CASE i = 1
    BY <1>4, <2>2, <2>4
  <2>5. CASE i = 2
    BY <1>4, <2>2, <2>5
  <2>6. CASE i = 3
    BY <1>4, <2>2, <2>6
  <2>7. CASE i = 4
    BY <1>4, <2>2, <2>7
  <2>8. CASE i = 5
    BY <1>4, <2>2, <2>8
  <2>9. CASE i = 6
    BY <1>4, <2>2, <2>9
  <2> QED
    BY <2>3, <2>4, <2>5, <2>6, <2>7, <2>8, <2>9
<1>5. CASE k = "relay"
  <2>1. Calls[k] = <<"GetHost", "GetDevice", "ListPolicies", "Issue">>
    BY <1>5 DEF Calls
  <2> QED
    BY <1>5, <2>1
<1>6. CASE k = "status"
  <2>1. Calls[k] = <<"GetAccessGrant">>
    BY <1>6 DEF Calls
  <2> QED
    BY <1>6, <2>1
<1> QED
  BY <1>1, <1>2, <1>3, <1>4, <1>5, <1>6

\* The limits are positive numbers.
LEMMA Times ==
    /\ HttpTimeout \in Nat /\ HttpTimeout > 0 /\ HttpTimeout \in 0 .. HttpTimeout
    /\ WaitTimeout \in Nat /\ SSHTTL \in Nat /\ SSHTTL > 0 /\ RelayTTL \in Nat /\ RelayTTL > 0
BY AccessAssumption

\* The first call of a request of any kind.
LEMMA FirstCall ==
    ASSUME NEW k \in {"list", "get", "config", "ssh", "relay", "status"}
    PROVE  k \in DOMAIN Calls /\ 1 \in 1 .. Len(Calls[k])
BY DEF Calls

\* A host that was found is a row with an account.
LEMMA RowAccount ==
    ASSUME NEW h \in AnyRow, h # Absent
    PROVE  /\ h.user \in Account
           /\ \A st \in {"healthy", "revoked"} : [h EXCEPT !.status = st] \in AnyRow \ {Absent}
<1>1. PICK row \in HostRows, st \in {"healthy", "revoked"} :
          h = [status |-> st, user |-> row.user, name |-> row.name, tags |-> row.tags]
  BY DEF AnyRow
<1>2. ASSUME NEW t \in {"healthy", "revoked"}
      PROVE  /\ [h EXCEPT !.status = t]
                    = [status |-> t, user |-> row.user, name |-> row.name, tags |-> row.tags]
             /\ [h EXCEPT !.status = t] # Absent
  BY <1>1 DEF Absent
<1>3. \A t \in {"healthy", "revoked"} :
          [status |-> t, user |-> row.user, name |-> row.name, tags |-> row.tags] \in AnyRow
  BY <1>1 DEF AnyRow
<1>4. row.user \in Account
  BY <1>1, AccessAssumption
<1> QED
  BY <1>1, <1>2, <1>3, <1>4

\* What an operator writes is a row.
LEMMA RowsAreRows == HostRows \subseteq AnyRow \ {Absent}
<1> SUFFICES ASSUME NEW row \in HostRows PROVE row \in AnyRow /\ row # Absent
  OBVIOUS
<1>1. row = [status |-> row.status, user |-> row.user, name |-> row.name, tags |-> row.tags]
      /\ row.status \in {"healthy", "revoked"}
  BY AccessAssumption
<1>2. row # Absent
  BY <1>1 DEF Absent
<1> QED
  BY <1>1, <1>2 DEF AnyRow

-----------------------------------------------------------------------------
(* Requests and the client                                                 *)

Book == /\ reqs \in [Slot -> Requests \cup {NoReq}]
        /\ \A s \in Slot : reqs[s] # NoReq => reqs[s].grant \in 0 .. issued

\* Ids are given out in order.
Onward == issued \in Nat /\ issued' \in Nat /\ issued <= issued'

\* A request in its type is not the empty slot, and the client is not idle.
LEMMA NotEmpty == \A r \in Requests : r # NoReq
BY DEF Requests, NoReq

\* A request that stays keeps its cover.
LEMMA CoverStays ==
    ASSUME Remember, NEW s \in Slot, reqs[s] # NoReq, reqs'[s] # NoReq, cover[s],
           reqs'[s].acct \in Account
    PROVE  cover'[s]
BY AccessAssumption DEF Remember, None

\* One slot takes x, the others are left alone.
LEMMA SlotMoves ==
    ASSUME Book, RequestsFit, Remember, Onward, isAdmin' = isAdmin, NEW s \in Slot,
           NEW x \in Requests \cup {NoReq}, reqs' = [reqs EXCEPT ![s] = x],
           x # NoReq => /\ RequestFits(x) /\ (Decided(x) => isAdmin \/ cover'[s])
                        /\ x.grant <= issued'
    PROVE  Book' /\ RequestsFit'
<1>0. /\ reqs' \in [Slot -> Requests \cup {NoReq}]
      /\ reqs'[s] = x /\ \A q \in Slot \ {s} : reqs'[q] = reqs[q]
  BY DEF Book
<1>1. Book' /\ reqs'[s] = x /\ \A q \in Slot \ {s} : reqs'[q] = reqs[q]
  <2>1. x # NoReq => x.grant \in 0 .. issued'
    BY DEF Onward, Requests
  <2>2. \A q \in Slot \ {s} : reqs'[q] # NoReq => reqs'[q].grant \in 0 .. issued'
    BY <1>0 DEF Book, Onward
  <2> QED
    BY <1>0, <2>1, <2>2 DEF Book
<1>2. ASSUME NEW q \in Slot, reqs'[q] # NoReq
      PROVE  RequestFits(reqs'[q]) /\ (Decided(reqs'[q]) => isAdmin \/ cover'[q])
  <2>1. CASE q = s
    BY <1>1, <1>2, <2>1
  <2>2. CASE q # s
    <3>1. reqs'[q] = reqs[q] /\ reqs[q] # NoReq
      BY <1>1, <1>2, <2>2
    <3>2. RequestFits(reqs[q]) /\ (Decided(reqs[q]) => isAdmin \/ cover[q])
      BY <3>1 DEF RequestsFit
    <3>3. Decided(reqs[q]) => reqs[q].acct \in Account
      BY <3>2 DEF RequestFits, Decided
    <3> QED
      BY <1>2, <3>1, <3>2, <3>3, CoverStays
  <2> QED
    BY <2>1, <2>2
<1>3. \A r : RequestFits(r)' <=> RequestFits(r)
  BY DEF RequestFits
<1>4. \A r : Decided(r)' <=> Decided(r)
  BY DEF Decided
<1> QED
  BY <1>1, <1>2, <1>3, <1>4 DEF RequestsFit

\* No request moves.
LEMMA SlotsRest ==
    ASSUME Book, RequestsFit, Remember, Onward, isAdmin' = isAdmin, reqs' = reqs
    PROVE  Book' /\ RequestsFit'
<1>1. ASSUME NEW q \in Slot, reqs[q] # NoReq
      PROVE  RequestFits(reqs[q]) /\ (Decided(reqs[q]) => isAdmin \/ cover'[q])
  <2>2. RequestFits(reqs[q]) /\ (Decided(reqs[q]) => isAdmin \/ cover[q])
    BY <1>1 DEF RequestsFit
  <2>3. Decided(reqs[q]) => reqs[q].acct \in Account
    BY <2>2 DEF RequestFits, Decided
  <2> QED
    BY <1>1, <2>2, <2>3, CoverStays
<1>2. Book'
  BY DEF Book, Onward
<1> QED
  BY <1>1, <1>2 DEF RequestsFit, RequestFits, Decided

\* The id in an answer is a number.
LEMMA AnswerGrant == \A a \in Answers : a.is = "grant" => a.grant \in Nat
BY DEF Answers, NoAns, Failed, None

\* A handler ends: the client takes the answer if it still waits for it.
LEMMA ReplyKeeps ==
    ASSUME Book, RequestsFit, ClientFits, Remember, Onward, isAdmin' = isAdmin, NEW s \in Slot,
           NEW a \in Answers, a # NoAns, Reply(s, a), a.is = "grant" => a.grant <= issued'
    PROVE  Book' /\ RequestsFit' /\ ClientFits'
<1>1. Book' /\ RequestsFit'
  BY SlotMoves DEF Reply
<1>2. CASE Waits(s)
  <2>1. ctl # Idle /\ ctl \in Client /\ ctl' = [ctl EXCEPT !.ans = a]
    BY <1>2 DEF Waits, Reply, ClientFits
  <2>2. ctl' \in Client /\ ctl'.ans = a /\ ctl'.pc = ctl.pc /\ ctl'.slot = ctl.slot
        /\ ctl'.acct = ctl.acct /\ ctl'.grant = ctl.grant /\ ctl.grant \in Nat
    BY <2>1 DEF Client
  <2> QED
    BY <1>1, <2>1, <2>2 DEF ClientFits, Onward
<1>3. CASE ~Waits(s)
  <2>1. ctl' = ctl
    BY <1>3 DEF Reply
  <2>2. ASSUME ctl # Idle, ctl.pc \in AskPC, ctl.ans = NoAns
        PROVE  ctl.slot \in Slot /\ Sent(ctl, reqs'[ctl.slot])
    <3>1. ctl.slot \in Slot /\ ctl.slot # s /\ Sent(ctl, reqs[ctl.slot])
      BY <1>3, <2>2 DEF Waits, ClientFits
    <3>2. reqs'[ctl.slot] = reqs[ctl.slot]
      BY <3>1 DEF Reply, Book
    <3> QED
      BY <3>1, <3>2
  <2>3. ctl # Idle => ctl.grant \in Nat /\ (ctl.ans.is = "grant" => ctl.ans.grant \in Nat)
    BY AnswerGrant DEF ClientFits, Client
  <2> QED
    BY <1>1, <2>1, <2>2, <2>3 DEF ClientFits, Sent, Onward
<1> QED
  BY <1>2, <1>3

\* A handler goes on with x, which is the same request further on.
LEMMA AdvanceKeeps ==
    ASSUME Book, RequestsFit, ClientFits, Remember, isAdmin' = isAdmin, NEW s \in Slot,
           reqs[s] # NoReq, NEW x \in Requests, reqs' = [reqs EXCEPT ![s] = x],
           UNCHANGED <<ctl, issued>>, issued \in Nat,
           x.kind = reqs[s].kind, x.acct = reqs[s].acct, x.grant = reqs[s].grant,
           RequestFits(x), Decided(x) => isAdmin \/ cover'[s]
    PROVE  Book' /\ RequestsFit' /\ ClientFits'
<1>1. Book' /\ RequestsFit'
  <2>1. Onward /\ x.grant <= issued'
    BY DEF Onward, Book
  <2> QED
    BY <2>1, SlotMoves, NotEmpty
<1>2. \A q \in Slot : Sent(ctl, reqs[q]) => Sent(ctl, reqs'[q])
  BY NotEmpty DEF Sent, Book
<1> QED
  BY <1>1, <1>2 DEF ClientFits, Sent

\* ternalctl sends a request and waits, as client c with these fields.
LEMMA SendKeeps ==
    ASSUME Book, RequestsFit, Remember, Onward, isAdmin' = isAdmin, issued' = issued,
           NEW c \in Client, NEW pc \in AskPC,
           NEW kind \in {"list", "get", "config", "ssh", "relay", "status"},
           NEW acct \in Account \cup {None}, NEW grant \in 0 .. issued,
           Send(c, pc, kind, acct, grant),
           pc = "ssh" => kind = "ssh" /\ acct = c.acct /\ acct \in Account,
           pc = "wait" => kind = "status" /\ grant = c.grant /\ c.acct \in Account,
           pc = "relay" => kind = "relay" /\ acct = c.acct /\ acct \in Account,
           pc \in {"list", "export", "get"} => kind \in {"list", "config", "get"}
    PROVE  /\ Book' /\ RequestsFit' /\ ClientFits'
           /\ ctl' \in Client /\ ctl'.pc = pc /\ ctl'.ans = NoAns /\ ctl'.due = HttpTimeout
           /\ ctl'.acct = c.acct /\ ctl'.grant = c.grant /\ ctl'.deadline = c.deadline
<1>1. PICK s \in Slot :
        /\ reqs[s] = NoReq
        /\ reqs' = [reqs EXCEPT ![s] = [kind |-> kind, at |-> 1, acct |-> acct, grant |-> grant,
                                        host |-> Absent]]
        /\ ctl' = [c EXCEPT !.pc = pc, !.slot = s, !.ans = NoAns, !.due = HttpTimeout]
  BY DEF Send
<1> DEFINE x == [kind |-> kind, at |-> 1, acct |-> acct, grant |-> grant, host |-> Absent]
<1>2. x \in Requests
  BY FirstCall DEF Requests, AnyRow, Onward
<1>3. x.kind = kind /\ x.at = 1 /\ x.acct = acct /\ x.grant = grant
  OBVIOUS
<1>4. reqs' = [reqs EXCEPT ![s] = x]
  BY <1>1
<1> HIDE DEF x
<1>5. pc \in {"ssh", "relay"} => acct \in Account
  OBVIOUS
<1>6. kind \in {"ssh", "relay"} => acct \in Account
  BY DEF AskPC
<1>7. RequestFits(x) /\ ~Decided(x)
  BY <1>2, <1>3, <1>6, FirstCall DEF RequestFits, Decided
<1>8. Book' /\ RequestsFit'
  <2>1. x.grant <= issued'
    BY <1>3
  <2> QED
    BY <1>2, <1>4, <1>7, <2>1, SlotMoves
<1>9. /\ ctl' \in Client /\ ctl'.pc = pc /\ ctl'.ans = NoAns /\ ctl'.due = HttpTimeout
      /\ ctl'.acct = c.acct /\ ctl'.grant = c.grant /\ ctl'.deadline = c.deadline
      /\ ctl'.slot = s
  BY <1>1, Times DEF Client, Answers
<1>10. reqs'[s] = x /\ x # NoReq
  BY <1>2, <1>4, NotEmpty DEF Book
<1>11. Sent(ctl', reqs'[s])
  BY <1>3, <1>9, <1>10 DEF Sent, AskPC
<1>12. ClientFits'
  <2>1. NoAns.is # "grant"
    BY DEF NoAns, None
  <2> QED
    BY <1>9, <1>11, <2>1 DEF ClientFits, Sent, AskPC
<1> QED
  BY <1>8, <1>9, <1>12

\* ternalctl does something of its own.
LEMMA BusyKeeps ==
    ASSUME Book, RequestsFit, Remember, Onward, isAdmin' = isAdmin, issued' = issued,
           NEW c \in Client, NEW pc \in {"sleep", "endpoint", "fly"}, NEW d \in 0 .. HttpTimeout,
           Busy(c, pc, d), pc # "fly" => c.acct \in Account, pc = "sleep" => c.grant <= issued
    PROVE  /\ Book' /\ RequestsFit' /\ ClientFits'
           /\ ctl' \in Client /\ ctl'.pc = pc /\ ctl'.ans = NoAns /\ ctl'.due = d
           /\ ctl'.acct = c.acct /\ ctl'.grant = c.grant /\ ctl'.deadline = c.deadline
<1>1. /\ ctl' \in Client /\ ctl'.pc = pc /\ ctl'.ans = NoAns /\ ctl'.due = d
      /\ ctl'.acct = c.acct /\ ctl'.grant = c.grant /\ ctl'.deadline = c.deadline
      /\ ctl'.slot = 0
  BY DEF Busy, Client, Answers
<1>2. Book' /\ RequestsFit'
  BY SlotsRest DEF Busy
<1>3. NoAns.is # "grant"
  BY DEF NoAns, None
<1> QED
  BY <1>1, <1>2, <1>3 DEF ClientFits, AskPC

\* ternalctl ends.
LEMMA EndKeeps ==
    ASSUME Book, RequestsFit, Remember, Onward, isAdmin' = isAdmin, End
    PROVE  Book' /\ RequestsFit' /\ ClientFits' /\ ctl' = Idle
BY SlotsRest DEF End, ClientFits

-----------------------------------------------------------------------------
(* The invariant in parts                                                  *)

StoreType ==
    /\ host \in AnyRow /\ device \in {"manufactured", "revoked", "absent"}
    /\ {route, hasKey} \subseteq BOOLEAN
    /\ DOMAIN policies = Policy
    /\ \A p \in Policy :
           \/ policies[p] = NoRule
           \/ \E x \in Rules : policies[p] = [principal |-> x.principal, selector |-> x.selector,
                                            users |-> x.users, expires |-> policies[p].expires]
    /\ issued \in Nat /\ grants \subseteq Grants /\ \A g \in grants : g.id \in 1 .. issued
    /\ relays \subseteq Nat \ {0}
Bounds ==
    /\ cover \in [Slot -> BOOLEAN] /\ isAdmin \in BOOLEAN
    /\ runs \in 0 .. MaxRuns /\ admin \in 0 .. MaxAdmin /\ faults \in 0 .. MaxFaults

\* The parts make up the invariant.
LEMMA Parts ==
    IInv <=> StoreType /\ DeviceFits /\ Bounds /\ Book /\ RequestsFit /\ ClientFits
BY DEF IInv, TypeOK, StoreType, Bounds, Book

\* The same after a step.
LEMMA PartsAfter ==
    StoreType' /\ DeviceFits' /\ Bounds' /\ Book' /\ RequestsFit' /\ ClientFits' => IInv'
BY DEF IInv, TypeOK, StoreType, Bounds, Book

\* Counters stay within their bounds.
LEMMA BoundsKept ==
    ASSUME Bounds, Remember, isAdmin' = isAdmin, admin' = admin \/ Admin,
           faults' = faults \/ Fault, runs' = runs \/ (runs < MaxRuns /\ runs' = runs + 1)
    PROVE  Bounds'
<1>1. cover' \in [Slot -> BOOLEAN]
  BY DEF Remember
<1>2. admin' \in 0 .. MaxAdmin
  BY AccessAssumption DEF Bounds, Admin
<1>3. faults' \in 0 .. MaxFaults
  BY AccessAssumption DEF Bounds, Fault
<1>4. runs' \in 0 .. MaxRuns
  BY AccessAssumption DEF Bounds
<1> QED
  BY <1>1, <1>2, <1>3, <1>4 DEF Bounds

\* Steps that leave the store alone.
LEMMA StoreRest ==
    ASSUME StoreType, DeviceFits, UNCHANGED store
    PROVE  StoreType' /\ DeviceFits' /\ Onward
BY DEF StoreType, DeviceFits, store, Alive, Onward

-----------------------------------------------------------------------------
(* The handlers                                                            *)

\* A handler goes on to its next store call or answers.
LEMMA ContinueKeeps ==
    ASSUME Book, RequestsFit, ClientFits, Remember, Onward, isAdmin' = isAdmin, issued' = issued,
           NEW s \in Slot, reqs[s] # NoReq, NEW r \in Requests,
           r.kind = reqs[s].kind, r.at = reqs[s].at, r.acct = reqs[s].acct,
           r.grant = reqs[s].grant, r.host # Absent,
           NEW a \in Answers, a # NoAns, a.is # "grant", Continue(s, r, a),
           (r.kind = "ssh" /\ r.at >= 2) \/ (r.kind = "relay" /\ r.at >= 3)
               => isAdmin \/ cover[s] \/ Covered(policies', r.acct)
    PROVE  Book' /\ RequestsFit' /\ ClientFits'
<1>1. RequestFits(reqs[s])
  BY DEF RequestsFit
<1>2. CASE r.at = Len(Calls[r.kind])
  BY <1>2, ReplyKeeps DEF Continue
<1>3. CASE r.at # Len(Calls[r.kind])
  <2> DEFINE x == [r EXCEPT !.at = @ + 1]
  <2>1. reqs' = [reqs EXCEPT ![s] = x] /\ ctl' = ctl
    BY <1>3 DEF Continue, user
  <2>2. r.at \in 1 .. Len(Calls[r.kind]) /\ r.kind \in DOMAIN Calls /\ Len(Calls[r.kind]) \in 1 .. 6
    BY <1>1, CallTable DEF RequestFits, Requests
  <2>3. r.at + 1 \in 1 .. 6 /\ r.at + 1 \in 1 .. Len(Calls[r.kind])
    <3> DEFINE n == Len(Calls[r.kind])
    <3>1. n \in 1 .. 6 /\ r.at \in 1 .. n /\ r.at # n
      BY <1>3, <2>2
    <3> HIDE DEF n
    <3>2. r.at + 1 \in 1 .. 6 /\ r.at + 1 \in 1 .. n
      BY <3>1
    <3> QED
      BY <3>2 DEF n
  <2>4. /\ x \in Requests /\ x.kind = r.kind /\ x.at = r.at + 1 /\ x.acct = r.acct
        /\ x.grant = r.grant /\ x.host = r.host
    BY <2>3 DEF Requests
  <2> HIDE DEF x
  <2>5. RequestFits(x)
    BY <1>1, <2>3, <2>4 DEF RequestFits
  <2>6. reqs'[s] = x /\ x # NoReq
    BY <2>1, <2>4, NotEmpty DEF Book
  <2>7. Decided(x) => isAdmin \/ cover'[s]
    <3>1. Decided(x) => /\ x.acct \in Account
                        /\ isAdmin \/ cover[s] \/ Covered(policies', x.acct)
      BY <2>2, <2>4, <2>5 DEF Decided, RequestFits
    <3> QED
      BY <2>6, <3>1, AccessAssumption DEF Remember, None
  <2> QED
    BY <2>1, <2>4, <2>5, <2>7, AdvanceKeeps DEF Onward
<1> QED
  BY <1>2, <1>3

\* The request a handler works on.
LEMMA Working ==
    ASSUME IInv, NEW s \in Slot, reqs[s] # NoReq
    PROVE  /\ reqs[s] \in Requests /\ RequestFits(reqs[s])
           /\ reqs[s].kind \in DOMAIN Calls /\ reqs[s].at \in 1 .. Len(Calls[reqs[s].kind])
           /\ Decided(reqs[s]) => isAdmin \/ cover[s]
BY DEF IInv, RequestsFit, RequestFits, Requests

\* Refusals and answers are answers.
LEMMA SomeAnswers ==
    /\ Failed \in Answers /\ Failed # NoAns /\ Failed.is # "grant"
    /\ \A u \in Account : /\ [is |-> "user", user |-> u] \in Answers
                          /\ [is |-> "user", user |-> u] # NoAns
                          /\ [is |-> "user", user |-> u].is # "grant"
    /\ [is |-> "relay"] \in Answers /\ [is |-> "relay"] # NoAns /\ [is |-> "relay"].is # "grant"
    /\ \A g \in Nat : /\ [is |-> "grant", grant |-> g] \in Answers
                      /\ [is |-> "grant", grant |-> g] # NoAns
    /\ \A b \in BOOLEAN : /\ [is |-> "status", installed |-> b] \in Answers
                          /\ [is |-> "status", installed |-> b] # NoAns
                          /\ [is |-> "status", installed |-> b].is # "grant"
BY DEF Answers, Failed, NoAns, None

\* A handler that refuses.
LEMMA RefusedKeeps ==
    ASSUME IInv, Remember, NEW s \in Slot, Reply(s, Failed), Onward, isAdmin' = isAdmin
    PROVE  Book' /\ RequestsFit' /\ ClientFits'
BY Parts, ReplyKeeps, SomeAnswers

\* A read that changes nothing in the store.
LEMMA ReadsRest ==
    ASSUME IInv, Remember, UNCHANGED <<store, isAdmin, admin, runs>>, faults' = faults \/ Fault
    PROVE  StoreType' /\ DeviceFits' /\ Bounds' /\ Onward /\ isAdmin' = isAdmin /\ issued' = issued
BY Parts, StoreRest, BoundsKept DEF store

\* The handler looks the host up.
LEMMA GetHostKeeps == ASSUME IInv, Remember, NEW s \in Slot, GetHost(s) PROVE IInv'
<1>1. reqs[s] # NoReq
  BY DEF GetHost, At
<1>2. StoreType' /\ DeviceFits' /\ Bounds' /\ Onward /\ isAdmin' = isAdmin /\ issued' = issued
  <2>1. UNCHANGED <<store, isAdmin, admin, runs, faults>>
    BY DEF GetHost, Reply, Continue, user
  <2> QED
    BY <2>1, ReadsRest
<1>3. CASE host = Absent
  BY <1>2, <1>3, RefusedKeeps, Parts, PartsAfter DEF GetHost
<1>4. CASE host # Absent
  <2> DEFINE r == [reqs[s] EXCEPT !.host = host]
  <2>1. /\ r \in Requests /\ r.kind = reqs[s].kind /\ r.at = reqs[s].at
        /\ r.acct = reqs[s].acct /\ r.grant = reqs[s].grant /\ r.host = host
    BY <1>1, Working, Parts DEF Requests, StoreType
  <2>2. Continue(s, r, Failed)
    BY <1>4 DEF GetHost
  <2>3. r.at = 1
    BY <1>1, <2>1, Working, CallTable DEF GetHost, At
  <2> HIDE DEF r
  <2>4. ~((r.kind = "ssh" /\ r.at >= 2) \/ (r.kind = "relay" /\ r.at >= 3))
    BY <2>3
  <2> QED
    BY <1>1, <1>2, <1>4, <2>1, <2>2, <2>4, ContinueKeeps, SomeAnswers, Parts, PartsAfter
<1> QED
  BY <1>3, <1>4

\* A policy that allows the account covers it.
LEMMA AllowedIsCovered ==
    ASSUME NEW h, NEW acct, Allows(h, acct)
    PROVE  Covered(policies, acct)
<1>1. PICK p \in Policy : policies[p] # NoRule /\ PolicyAllowsSSHUser(Claims, h, policies[p], acct, 0)
  BY DEF Allows
<1>2. policies[p].expires # 0
  BY <1>1 DEF PolicyAllowsSSHUser, PolicyAllows, Never
<1> QED
  BY <1>1, <1>2 DEF Covered, PolicyAllowsSSHUser, PolicyAllows

\* The policy check: who passes is an administrator or covered at this moment.
LEMMA ListPoliciesKeeps == ASSUME IInv, Remember, NEW s \in Slot, ListPolicies(s) PROVE IInv'
<1> DEFINE r == reqs[s]
           a == [is |-> "user", user |-> r.host.user]
<1>1. r # NoReq
  BY DEF ListPolicies, At
<1>2. StoreType' /\ DeviceFits' /\ Bounds' /\ Onward /\ isAdmin' = isAdmin /\ issued' = issued
  <2>1. UNCHANGED <<store, isAdmin, admin, runs, faults>>
    BY DEF ListPolicies, Reply, Continue, user
  <2> QED
    BY <2>1, ReadsRest
<1>3. /\ r \in Requests /\ RequestFits(r) /\ r.at > 1 /\ r.host # Absent
  BY <1>1, Working, CallTable DEF ListPolicies, At, RequestFits
<1>4. a \in Answers /\ a # NoAns /\ a.is # "grant"
  BY <1>3, RowAccount, SomeAnswers DEF Requests
<1>5. CASE Reply(s, Failed)
  BY <1>2, <1>5, RefusedKeeps, Parts, PartsAfter
<1>6. CASE ~Reply(s, Failed)
  <2>1. Continue(s, r, a) /\ (isAdmin \/ (r.kind \in {"ssh", "relay"} => Allows(r.host, r.acct)))
    BY <1>6 DEF ListPolicies
  <2>2. r.kind \in {"ssh", "relay"} => isAdmin \/ Covered(policies', r.acct)
    <3>1. policies' = policies
      BY DEF ListPolicies, store
    <3>2. Covered(policies, r.acct) => Covered(policies', r.acct)
      BY <3>1
    <3> QED
      BY <2>1, <3>2, AllowedIsCovered
  <2> HIDE DEF r, a
  <2> QED
    BY <1>1, <1>2, <1>3, <1>4, <2>1, <2>2, ContinueKeeps, Parts, PartsAfter DEF r
<1> QED
  BY <1>5, <1>6

\* The other reads: the device, its routes, the user's keys.
LEMMA LookupsKeep ==
    ASSUME IInv, Remember, NEW s \in Slot,
           GetDeviceByHostID(s) \/ GetEndpointDiscovery(s) \/ ListSSHKeys(s)
    PROVE  IInv'
<1> DEFINE r == reqs[s]
           a == [is |-> "user", user |-> r.host.user]
<1>1. r # NoReq
  BY DEF GetDeviceByHostID, GetEndpointDiscovery, ListSSHKeys, At
<1>2. StoreType' /\ DeviceFits' /\ Bounds' /\ Onward /\ isAdmin' = isAdmin /\ issued' = issued
  <2>1. UNCHANGED <<store, isAdmin, admin, runs, faults>>
    BY DEF GetDeviceByHostID, GetEndpointDiscovery, ListSSHKeys, Reply, Continue, user
  <2> QED
    BY <2>1, ReadsRest
<1>3. /\ r \in Requests /\ RequestFits(r) /\ r.at > 1 /\ r.host # Absent
      /\ r.kind = "ssh" => r.at > 2
      /\ r.kind = "relay" => r.at = 2
  BY <1>1, Working, CallTable DEF GetDeviceByHostID, GetEndpointDiscovery, ListSSHKeys, At, RequestFits
<1>4. a \in Answers /\ a # NoAns /\ a.is # "grant"
  BY <1>3, RowAccount, SomeAnswers DEF Requests
<1>5. CASE Reply(s, Failed)
  BY <1>2, <1>5, RefusedKeeps, Parts, PartsAfter
<1>6. CASE ~Reply(s, Failed)
  <2>1. Continue(s, r, a) \/ Continue(s, r, Failed)
    BY <1>6 DEF GetDeviceByHostID, GetEndpointDiscovery, ListSSHKeys
  <2>2. (r.kind = "ssh" /\ r.at >= 2) \/ (r.kind = "relay" /\ r.at >= 3) => isAdmin \/ cover[s]
    BY <1>1, <1>3, Working DEF Decided
  <2> HIDE DEF r, a
  <2> QED
    BY <1>1, <1>2, <1>3, <1>4, <2>1, <2>2, ContinueKeeps, SomeAnswers, Parts, PartsAfter DEF r
<1> QED
  BY <1>5, <1>6

\* The status answer, a failing store, and a handler that stops.
LEMMA AnswersKeep ==
    ASSUME IInv, Remember, NEW s \in Slot, GetAccessGrant(s) \/ StoreFails(s) \/ Abandon(s)
    PROVE  IInv'
<1>1. StoreType' /\ DeviceFits' /\ Bounds' /\ Onward /\ isAdmin' = isAdmin /\ issued' = issued
  <2>1. UNCHANGED <<store, isAdmin, admin, runs>> /\ (faults' = faults \/ Fault)
    BY DEF GetAccessGrant, StoreFails, Abandon, Reply, user
  <2> QED
    BY <2>1, ReadsRest
<1>2. CASE GetAccessGrant(s)
  <2> DEFINE b == \E g \in grants : g.id = reqs[s].grant /\ g.key = "installed"
  <2>1. b \in BOOLEAN
    OBVIOUS
  <2>2. Reply(s, [is |-> "status", installed |-> b])
    BY <1>2 DEF GetAccessGrant
  <2> HIDE DEF b
  <2> QED
    BY <1>1, <2>1, <2>2, ReplyKeeps, SomeAnswers, Parts, PartsAfter
<1>3. CASE StoreFails(s)
  BY <1>1, <1>3, RefusedKeeps, Parts, PartsAfter DEF StoreFails
<1>4. CASE Abandon(s)
  <2>1. Book' /\ RequestsFit'
    BY <1>1, <1>4, SlotMoves, Parts DEF Abandon
  <2>2. ctl' = ctl /\ reqs' = [reqs EXCEPT ![s] = NoReq] /\ ~Waits(s)
    BY <1>4 DEF Abandon, user
  <2>3. ASSUME ctl # Idle, ctl.pc \in AskPC, ctl.ans = NoAns
        PROVE  ctl.slot \in Slot /\ Sent(ctl, reqs'[ctl.slot])
    <3>1. ctl.slot \in Slot /\ ctl.slot # s /\ Sent(ctl, reqs[ctl.slot])
      BY <2>2, <2>3 DEF Waits, IInv, ClientFits
    <3>2. reqs'[ctl.slot] = reqs[ctl.slot]
      BY <2>2, <3>1, Parts DEF Book
    <3> QED
      BY <3>1, <3>2
  <2>4. ClientFits'
    BY <1>1, <2>2, <2>3 DEF IInv, ClientFits, Sent
  <2> QED
    BY <1>1, <2>1, <2>4, Parts, PartsAfter
<1> QED
  BY <1>2, <1>3, <1>4

\* The grant of an SSH command: a live device, a new id.
LEMMA IssueSSHKeeps == ASSUME IInv, Remember, NEW s \in Slot, IssueSSHAccess(s) PROVE IInv'
<1>1. /\ reqs[s] # NoReq /\ reqs[s].kind = "ssh" /\ isAdmin' = isAdmin
      /\ UNCHANGED <<host, device, route, hasKey, policies, relays, admin, faults, runs>>
  BY DEF IssueSSHAccess, At, Reply
<1>2. Bounds'
  BY <1>1, BoundsKept, Parts
<1>3. CASE Live
  <2> DEFINE g == [id |-> issued', acct |-> reqs[s].acct, left |-> SSHTTL, key |-> "none"]
  <2>1. /\ issued' = issued + 1 /\ grants' = grants \cup {g}
        /\ Reply(s, [is |-> "grant", grant |-> issued'])
    BY <1>3 DEF IssueSSHAccess
  <2>2. issued \in Nat /\ issued' \in Nat /\ Onward /\ reqs[s].acct \in Account
    BY <1>1, <2>1, Working, Parts DEF StoreType, Onward, RequestFits
  <2>3. g \in Grants /\ g.id = issued + 1 /\ g.left = SSHTTL
    BY <2>1, <2>2, Times DEF Grants
  <2>4. Alive
    BY <1>3, Parts DEF Live, Alive, StoreType
  <2> HIDE DEF g
  <2>5. grants' \subseteq Grants /\ \A h \in grants' : h.id \in 1 .. issued'
    BY <2>1, <2>2, <2>3, Parts DEF StoreType
  <2>6. StoreType'
    BY <1>1, <2>2, <2>5, Parts DEF StoreType
  <2>7. \A h \in grants : h.id # g.id
    BY <2>2, <2>3, Parts DEF StoreType
  <2>8. DeviceFits'
    BY <1>1, <2>1, <2>4, <2>7, Parts DEF DeviceFits, Alive
  <2>9. Book' /\ RequestsFit' /\ ClientFits'
    BY <1>1, <2>1, <2>2, ReplyKeeps, SomeAnswers, Parts DEF Onward
  <2> QED
    BY <1>2, <2>6, <2>8, <2>9, PartsAfter
<1>4. CASE ~Live
  <2>1. UNCHANGED store /\ Reply(s, Failed)
    BY <1>1, <1>4 DEF IssueSSHAccess, store
  <2> QED
    BY <1>1, <1>2, <2>1, StoreRest, RefusedKeeps, Parts, PartsAfter
<1> QED
  BY <1>3, <1>4

\* The relay grant of a client.
LEMMA RelayKeeps == ASSUME IInv, Remember, NEW s \in Slot, CreateRelayAccessGrant(s) PROVE IInv'
<1>1. /\ reqs[s] # NoReq /\ isAdmin' = isAdmin
      /\ UNCHANGED <<host, device, route, hasKey, policies, grants, issued, admin, faults, runs>>
  BY DEF CreateRelayAccessGrant, At, Reply
<1>2. Bounds' /\ Onward
  BY <1>1, BoundsKept, Parts DEF Onward, StoreType
<1>3. CASE Live
  <2>1. relays' = relays \cup {RelayTTL} /\ Reply(s, [is |-> "relay"])
    BY <1>3 DEF CreateRelayAccessGrant
  <2>2. Alive
    BY <1>3, Parts DEF Live, Alive, StoreType
  <2>3. StoreType'
    BY <1>1, <2>1, Times, Parts DEF StoreType
  <2>4. DeviceFits'
    BY <1>1, <2>1, <2>2, Parts DEF DeviceFits, Alive
  <2> QED
    BY <1>1, <1>2, <2>1, <2>3, <2>4, ReplyKeeps, SomeAnswers, Parts, PartsAfter
<1>4. CASE ~Live
  <2>1. UNCHANGED store /\ Reply(s, Failed)
    BY <1>1, <1>4 DEF CreateRelayAccessGrant, store
  <2> QED
    BY <1>1, <1>2, <2>1, StoreRest, RefusedKeeps, Parts, PartsAfter
<1> QED
  BY <1>3, <1>4

-----------------------------------------------------------------------------
(* Operators, the device and time                                          *)

\* Steps in which neither requests nor the client move.
LEMMA ServerRest ==
    ASSUME IInv, Remember, UNCHANGED <<reqs, isAdmin, ctl, runs, issued>>,
           admin' = admin \/ Admin, faults' = faults \/ Fault
    PROVE  Bounds' /\ Book' /\ RequestsFit' /\ ClientFits'
<1>1. Onward
  BY Parts DEF Onward, StoreType
<1>2. Bounds' /\ Book' /\ RequestsFit'
  BY <1>1, BoundsKept, SlotsRest, Parts
<1> QED
  BY <1>2 DEF IInv, ClientFits, Sent

\* A grant is changed one by one and keeps its id.
LEMMA GrantsChange ==
    ASSUME StoreType, DeviceFits, NEW f, DOMAIN f = grants,
           \A g \in grants : f[g] \in Grants /\ f[g].id = g.id /\ (g.left = 0 => f[g].left = 0),
           grants' = {f[g] : g \in grants}, issued' = issued
    PROVE  /\ grants' \subseteq Grants /\ \A g \in grants' : g.id \in 1 .. issued'
           /\ \A g, h \in grants' : g.id = h.id => g = h
           /\ (\A g \in grants : g.left = 0) => \A g \in grants' : g.left = 0
BY DEF StoreType, DeviceFits

\* Policies, host rows and keys.
LEMMA EditKeeps ==
    ASSUME IInv, Remember,
           \/ \E p \in Policy, rule \in Rules \cup {NoRule} : SetPolicy(p, rule)
           \/ \E row \in HostRows : UpdateHost(row)
           \/ CreateSSHKey \/ Heartbeat
    PROVE  IInv'
<1>1. UNCHANGED <<reqs, isAdmin, ctl, runs, issued, grants, relays, device, faults>>
      /\ (admin' = admin \/ Admin)
  BY DEF SetPolicy, UpdateHost, CreateSSHKey, Heartbeat, user
<1>2. Bounds' /\ Book' /\ RequestsFit' /\ ClientFits'
  BY <1>1, ServerRest
<1>3. host' \in AnyRow /\ (Alive => host' # Absent)
  <2>1. CASE \E row \in HostRows : UpdateHost(row)
    BY <2>1, RowsAreRows DEF UpdateHost
  <2>2. CASE Heartbeat
    <3>1. host \in AnyRow /\ host # Absent /\ host' = [host EXCEPT !.status = "healthy"]
      BY <2>2, Parts DEF Heartbeat, StoreType, DeviceFits, Alive
    <3> QED
      BY <3>1, RowAccount
  <2>3. CASE host' = host
    BY <2>3, Parts DEF StoreType, DeviceFits
  <2> QED
    BY <2>1, <2>2, <2>3 DEF SetPolicy, CreateSSHKey
<1>4. {route', hasKey'} \subseteq BOOLEAN
  BY Parts DEF SetPolicy, UpdateHost, CreateSSHKey, Heartbeat, StoreType
<1>5. /\ DOMAIN policies' = Policy
      /\ \A p \in Policy :
             \/ policies'[p] = NoRule
             \/ \E x \in Rules : policies'[p] = [principal |-> x.principal, selector |-> x.selector,
                                               users |-> x.users, expires |-> policies'[p].expires]
  <2>1. CASE policies' = policies
    BY <2>1, Parts DEF StoreType
  <2>2. CASE \E p \in Policy, rule \in Rules \cup {NoRule} : SetPolicy(p, rule)
    BY <2>2, Parts, AccessAssumption DEF SetPolicy, StoreType
  <2> QED
    BY <2>1, <2>2 DEF UpdateHost, CreateSSHKey, Heartbeat
<1>6. StoreType'
  BY <1>1, <1>3, <1>4, <1>5, Parts DEF StoreType, DeviceFits, Alive
<1>7. DeviceFits'
  BY <1>1, <1>3, Parts DEF DeviceFits, Alive
<1> QED
  BY <1>2, <1>6, <1>7, PartsAfter

\* A grant's key or its time changes.
LEMMA GrantTypes ==
    ASSUME NEW g \in Grants
    PROVE  /\ \A k \in {"none", "published", "installed"} :
                  LET h == [g EXCEPT !.key = k] IN
                  h \in Grants /\ h.id = g.id /\ h.acct = g.acct /\ h.left = g.left /\ h.key = k
           /\ \A t \in 0 .. SSHTTL :
                  LET h == [g EXCEPT !.left = t] IN
                  h \in Grants /\ h.id = g.id /\ h.acct = g.acct /\ h.left = t /\ h.key = g.key
           /\ Older(g.left) \in 0 .. SSHTTL /\ Older(g.left) <= g.left
           /\ g.left > 0 => Older(g.left) = g.left - 1
           /\ g.left = 0 => Older(g.left) = 0
<1>1. g.left \in 0 .. SSHTTL /\ SSHTTL \in Nat
  BY Times DEF Grants
<1>2. /\ Older(g.left) \in 0 .. SSHTTL /\ Older(g.left) <= g.left
      /\ g.left > 0 => Older(g.left) = g.left - 1
      /\ g.left = 0 => Older(g.left) = 0
  BY <1>1 DEF Older
<1>3. \A k \in {"none", "published", "installed"} :
          LET h == [g EXCEPT !.key = k] IN
          h \in Grants /\ h.id = g.id /\ h.acct = g.acct /\ h.left = g.left /\ h.key = k
  BY DEF Grants
<1>4. \A t \in 0 .. SSHTTL :
          LET h == [g EXCEPT !.left = t] IN
          h \in Grants /\ h.id = g.id /\ h.acct = g.acct /\ h.left = t /\ h.key = g.key
  BY DEF Grants
<1> QED
  BY <1>2, <1>3, <1>4

\* The same for the time, as a fact about the changed grant.
LEMMA WithLeft ==
    ASSUME NEW g \in Grants, NEW t \in 0 .. SSHTTL, NEW h, h = [g EXCEPT !.left = t]
    PROVE  h \in Grants /\ h.id = g.id /\ h.acct = g.acct /\ h.left = t /\ h.key = g.key
BY DEF Grants

\* The agent fetches, installs and acknowledges.
Marked(g, from, to) == IF Fetchable(g) /\ g.key = from THEN [g EXCEPT !.key = to] ELSE g

\* Publishing and acknowledging keep every grant but for its key.
LEMMA MarkKeeps ==
    ASSUME IInv, Remember, PublishAuthorizedKeys \/ AcknowledgeAuthorizedKeys
    PROVE  /\ IInv' /\ UNCHANGED <<ctl, reqs, relays, device>>
           /\ \A g \in grants : \E h \in grants' :
                  /\ h.id = g.id /\ h.acct = g.acct /\ h.left = g.left
                  /\ g.key = "installed" => h.key = "installed"
<1>1. UNCHANGED <<host, device, route, hasKey, policies, issued, relays, reqs, isAdmin, ctl, runs,
                  admin, faults>>
  BY DEF PublishAuthorizedKeys, AcknowledgeAuthorizedKeys, user
<1>2. PICK from, to \in {"none", "published", "installed"} :
          from # "installed" /\ grants' = {Marked(g, from, to) : g \in grants}
  <2>1. CASE PublishAuthorizedKeys
    <3>1. grants' = {Marked(g, "none", "published") : g \in grants}
      BY <2>1 DEF PublishAuthorizedKeys, Marked
    <3> QED
      BY <3>1
  <2>2. CASE AcknowledgeAuthorizedKeys
    <3>1. grants' = {Marked(g, "published", "installed") : g \in grants}
      BY <2>2 DEF AcknowledgeAuthorizedKeys, Marked
    <3> QED
      BY <3>1
  <2> QED
    BY <2>1, <2>2
<1>3. ASSUME NEW g \in grants
      PROVE  LET h == Marked(g, from, to) IN
             /\ h \in Grants /\ h.id = g.id /\ h.acct = g.acct /\ h.left = g.left
             /\ g.key = "installed" => h.key = "installed"
  <2>1. g \in Grants
    BY Parts DEF StoreType
  <2> QED
    BY <1>2, <2>1, GrantTypes DEF Marked
<1> DEFINE f == [g \in grants |-> Marked(g, from, to)]
<1>4. /\ DOMAIN f = grants /\ grants' = {f[g] : g \in grants}
      /\ \A g \in grants : f[g] \in Grants /\ f[g].id = g.id /\ (g.left = 0 => f[g].left = 0)
  BY <1>2, <1>3
<1> HIDE DEF f
<1>5. /\ grants' \subseteq Grants /\ \A g \in grants' : g.id \in 1 .. issued'
      /\ \A g, h \in grants' : g.id = h.id => g = h
      /\ (\A g \in grants : g.left = 0) => \A g \in grants' : g.left = 0
  BY <1>1, <1>4, GrantsChange, Parts
<1>6. StoreType' /\ DeviceFits'
  BY <1>1, <1>5, Parts DEF StoreType, DeviceFits, Alive
<1>7. IInv'
  BY <1>1, <1>6, ServerRest, PartsAfter
<1> QED
  BY <1>1, <1>2, <1>3, <1>7

\* DeleteDevice expires every grant of the device, DeleteHost removes them.
LEMMA DeleteKeeps ==
    ASSUME IInv, Remember, DeleteDevice \/ DeleteHost
    PROVE  IInv' /\ ~Alive'
<1>1. UNCHANGED <<hasKey, policies, issued, reqs, isAdmin, ctl, runs, faults>> /\ Admin
  BY DEF DeleteDevice, DeleteHost, user
<1>2. CASE DeleteDevice
  <2>1. /\ Alive /\ device' = "revoked" /\ host' = [host EXCEPT !.status = "revoked"]
        /\ grants' = {[g EXCEPT !.left = 0] : g \in grants} /\ relays' = {} /\ route' = route
    BY <1>2 DEF DeleteDevice, Alive
  <2>2. host' \in AnyRow
    BY <2>1, RowAccount, Parts DEF StoreType, DeviceFits
  <2> DEFINE f == [g \in grants |-> [g EXCEPT !.left = 0]]
  <2>3. ASSUME NEW g \in grants
        PROVE  f[g] \in Grants /\ f[g].id = g.id /\ f[g].left = 0
    <3>1. g \in Grants /\ 0 \in 0 .. SSHTTL
      BY Parts, Times DEF StoreType
    <3>2. f[g] = [g EXCEPT !.left = 0]
      OBVIOUS
    <3> HIDE DEF f
    <3> QED
      BY <3>1, <3>2, WithLeft
  <2>4. DOMAIN f = grants /\ grants' = {f[g] : g \in grants}
    BY <2>1
  <2> HIDE DEF f
  <2>5. /\ grants' \subseteq Grants /\ \A g \in grants' : g.id \in 1 .. issued'
        /\ \A g, h \in grants' : g.id = h.id => g = h
        /\ \A g \in grants' : g.left = 0
    BY <1>1, <2>3, <2>4, GrantsChange, Parts
  <2>6. StoreType' /\ DeviceFits' /\ ~Alive'
    BY <1>1, <2>1, <2>2, <2>5, Parts DEF StoreType, DeviceFits, Alive
  <2> QED
    BY <1>1, <2>6, ServerRest, PartsAfter
<1>3. CASE DeleteHost
  <2>1. /\ host' = Absent /\ device' = "absent" /\ route' = FALSE /\ grants' = {} /\ relays' = {}
    BY <1>3 DEF DeleteHost
  <2>2. Absent \in AnyRow /\ {FALSE, hasKey} \subseteq BOOLEAN
    BY Parts DEF AnyRow, StoreType
  <2>3. StoreType' /\ DeviceFits' /\ ~Alive'
    BY <1>1, <2>1, <2>2, Parts DEF StoreType, DeviceFits, Alive
  <2> QED
    BY <1>1, <2>3, ServerRest, PartsAfter
<1> QED
  BY <1>2, <1>3

\* Time passes: everything has one tick less to go.
LEMMA TickStore ==
    ASSUME IInv, Tick
    PROVE  /\ StoreType' /\ DeviceFits' /\ Onward
           /\ \A g \in grants : \E h \in grants' :
                  h.id = g.id /\ h.acct = g.acct /\ h.key = g.key /\ h.left >= g.left - 1
<1>1. UNCHANGED <<host, device, route, hasKey, issued, reqs, isAdmin, runs, admin, faults>>
      /\ issued \in Nat
  BY Parts DEF Tick, StoreType
<1> DEFINE f == [g \in grants |-> [g EXCEPT !.left = Older(@)]]
<1>2. ASSUME NEW g \in grants
      PROVE  /\ f[g] \in Grants /\ f[g].id = g.id /\ f[g].acct = g.acct /\ f[g].key = g.key
             /\ f[g].left = Older(g.left) /\ (g.left = 0 => f[g].left = 0) /\ f[g].left >= g.left - 1
  <2>1. g \in Grants /\ g.left \in Nat
    BY Parts DEF StoreType, Grants
  <2>2. f[g] = [g EXCEPT !.left = Older(g.left)] /\ Older(g.left) \in 0 .. SSHTTL
    BY <2>1, GrantTypes
  <2>3. f[g] \in Grants /\ f[g].id = g.id /\ f[g].acct = g.acct /\ f[g].key = g.key
        /\ f[g].left = Older(g.left)
    <3> HIDE DEF f
    <3> QED
      BY <2>1, <2>2, WithLeft
  <2>4. (g.left = 0 => Older(g.left) = 0) /\ Older(g.left) >= g.left - 1
    BY <2>1 DEF Older
  <2> QED
    BY <2>3, <2>4
<1>3. DOMAIN f = grants /\ grants' = {f[g] : g \in grants}
  BY DEF Tick
<1> HIDE DEF f
<1>4. /\ grants' \subseteq Grants /\ \A g \in grants' : g.id \in 1 .. issued'
      /\ \A g, h \in grants' : g.id = h.id => g = h
      /\ (\A g \in grants : g.left = 0) => \A g \in grants' : g.left = 0
  BY <1>1, <1>2, <1>3, GrantsChange, Parts
<1>5. relays' \subseteq Nat \ {0} /\ (relays = {} => relays' = {})
  <2>1. \A n \in relays : n - 1 \in Nat
    BY Parts DEF StoreType
  <2>2. relays' = {n - 1 : n \in relays} \ {0}
    BY DEF Tick
  <2> QED
    BY <2>1, <2>2
<1>6. /\ DOMAIN policies' = Policy
      /\ \A p \in Policy :
             \/ policies'[p] = NoRule
             \/ \E x \in Rules : policies'[p] = [principal |-> x.principal, selector |-> x.selector,
                                               users |-> x.users, expires |-> policies'[p].expires]
  <2>1. policies' = [p \in Policy |-> IF policies[p] = NoRule THEN NoRule
                                      ELSE [policies[p] EXCEPT !.expires = Older(@)]]
    BY DEF Tick
  <2>2. SUFFICES ASSUME NEW p \in Policy, policies[p] # NoRule
                 PROVE  \E x \in Rules : policies'[p] = [principal |-> x.principal,
                           selector |-> x.selector, users |-> x.users, expires |-> policies'[p].expires]
    BY <2>1
  <2>3. PICK x \in Rules : policies[p] = [principal |-> x.principal, selector |-> x.selector,
                                          users |-> x.users, expires |-> policies[p].expires]
    BY <2>2, Parts DEF StoreType
  <2>4. policies'[p] = [policies[p] EXCEPT !.expires = Older(policies[p].expires)]
    BY <2>1, <2>2, <2>3
  <2> DEFINE e == Older(policies[p].expires)
  <2>5. policies'[p] = [principal |-> x.principal, selector |-> x.selector, users |-> x.users,
                        expires |-> e]
    <3> HIDE DEF e
    <3>1. policies'[p] = [policies[p] EXCEPT !.expires = e]
      BY <2>4 DEF e
    <3> QED
      BY <2>3, <3>1
  <2> QED
    BY <2>5
<1>7. StoreType' /\ DeviceFits' /\ Onward
  BY <1>1, <1>4, <1>5, <1>6, Parts DEF StoreType, DeviceFits, Alive, Onward
<1>8. \A g \in grants : \E h \in grants' :
          h.id = g.id /\ h.acct = g.acct /\ h.key = g.key /\ h.left >= g.left - 1
  BY <1>2, <1>3
<1> QED
  BY <1>7, <1>8

\* Time passes for the client as well.
LEMMA TickClient ==
    ASSUME IInv, Tick, ctl # Idle
    PROVE  /\ ctl' \in Client /\ ctl \in Client /\ (ctl.due > 0 \/ ctl.pc = "fly")
           /\ ctl'.due = Older(ctl.due) /\ ctl'.deadline = Older(ctl.deadline)
           /\ ctl'.pc = ctl.pc /\ ctl'.slot = ctl.slot /\ ctl'.ans = ctl.ans
           /\ ctl'.acct = ctl.acct /\ ctl'.grant = ctl.grant
<1>1. ctl \in Client /\ ctl' = [ctl EXCEPT !.due = Older(@), !.deadline = Older(@)]
  BY Parts DEF Tick, ClientFits
<1>2. Older(ctl.due) \in 0 .. HttpTimeout /\ Older(ctl.deadline) \in Nat
  <2>1. ctl.due \in 0 .. HttpTimeout /\ ctl.deadline \in Nat /\ HttpTimeout \in Nat
    BY <1>1, Times DEF Client
  <2> QED
    BY <2>1 DEF Older
<1> DEFINE d == Older(ctl.due)
           e == Older(ctl.deadline)
<1>3. ctl' = [ctl EXCEPT !.due = d, !.deadline = e] /\ d \in 0 .. HttpTimeout /\ e \in Nat
  BY <1>1, <1>2 DEF Client
<1>4. d = Older(ctl.due) /\ e = Older(ctl.deadline)
  OBVIOUS
<1> HIDE DEF d, e
<1>5. /\ ctl' \in Client /\ ctl'.due = d /\ ctl'.deadline = e
      /\ ctl'.pc = ctl.pc /\ ctl'.slot = ctl.slot /\ ctl'.ans = ctl.ans
      /\ ctl'.acct = ctl.acct /\ ctl'.grant = ctl.grant
  BY <1>1, <1>3 DEF Client
<1>6. ctl.due > 0 \/ ctl.pc = "fly"
  BY DEF Tick
<1> QED
  BY <1>1, <1>4, <1>5, <1>6

\* A tick of the clock.
LEMMA TickKeeps == ASSUME IInv, Remember, Tick PROVE IInv'
<1>1. UNCHANGED <<reqs, isAdmin, runs, admin, faults, issued>>
  BY DEF Tick
<1>2. Bounds' /\ Book' /\ RequestsFit' /\ StoreType' /\ DeviceFits'
  BY <1>1, TickStore, BoundsKept, SlotsRest, Parts
<1>3. CASE ctl = Idle
  BY <1>2, <1>3, PartsAfter DEF Tick, ClientFits
<1>4. CASE ctl # Idle
  <2>1. ClientFits'
    BY <1>1, <1>4, TickClient, Parts DEF ClientFits, Sent
  <2> QED
    BY <1>2, <2>1, PartsAfter
<1> QED
  BY <1>3, <1>4

-----------------------------------------------------------------------------
(* ternalctl                                                               *)

\* Steps of the client alone.
LEMMA ClientRest ==
    ASSUME IInv, Remember, UNCHANGED <<store, isAdmin, admin>>, faults' = faults \/ Fault,
           runs' = runs \/ (runs < MaxRuns /\ runs' = runs + 1)
    PROVE  /\ StoreType' /\ DeviceFits' /\ Bounds' /\ Onward
           /\ UNCHANGED <<isAdmin, issued, grants, relays, device>>
BY Parts, StoreRest, BoundsKept DEF store

\* A run starts; so far it has no grant.
LEMMA StartKeeps ==
    ASSUME IInv, Remember, NEW mode \in Modes, Start(mode)
    PROVE  /\ IInv' /\ ctl'.ans = NoAns
           /\ ctl'.pc \in {"list", "export", "get", "ssh"}
<1>1. UNCHANGED <<store, isAdmin, admin, faults>> /\ runs < MaxRuns /\ runs' = runs + 1
  BY DEF Start
<1>2. StoreType' /\ DeviceFits' /\ Bounds' /\ Onward /\ isAdmin' = isAdmin /\ issued' = issued
  BY <1>1, ClientRest
<1>3. Fresh(mode) \in Client /\ \A a \in Account :
        /\ [Fresh(mode) EXCEPT !.login = a] \in Client
        /\ [Fresh(mode) EXCEPT !.login = a, !.acct = a] \in Client
        /\ [Fresh(mode) EXCEPT !.login = a, !.acct = a].acct = a
  <2>1. mode \in {"ssh", "export", "config", "web"}
    BY AccessAssumption
  <2>2. /\ 0 \in 0 .. HttpTimeout /\ NoAns \in Answers
        /\ (IF mode = "config" THEN "proxy" ELSE mode) \in {"ssh", "export", "proxy", "web"}
    BY <2>1, Times DEF Answers
  <2>3. Fresh(mode) \in Client
    BY <2>2 DEF Fresh, Client
  <2> QED
    BY <2>3 DEF Client
<1>4. 0 \in 0 .. issued
  BY Parts DEF StoreType
<1>5. CASE mode \in {"ssh", "export"}
  <2>1. \/ Send(Fresh(mode), "list", "list", None, 0)
        \/ Send(Fresh(mode), "export", "config", None, 0)
    BY <1>5 DEF Start
  <2> QED
    BY <1>2, <1>3, <1>4, <2>1, SendKeeps, Parts, PartsAfter DEF AskPC
<1>6. CASE mode = "config"
  <2>1. PICK a \in Account : Send([Fresh(mode) EXCEPT !.login = a], "get", "get", None, 0)
    BY <1>6 DEF Start
  <2> QED
    BY <1>2, <1>3, <1>4, <2>1, SendKeeps, Parts, PartsAfter DEF AskPC
<1>7. CASE mode = "web"
  <2>1. PICK a \in Account : Send([Fresh(mode) EXCEPT !.login = a, !.acct = a], "ssh", "ssh", a, 0)
    BY <1>7 DEF Start
  <2> QED
    BY <1>2, <1>3, <1>4, <2>1, SendKeeps, Parts, PartsAfter DEF AskPC
<1> QED
  BY <1>5, <1>6, <1>7, AccessAssumption

\* The client asks for a key for the account it was shown.
LEMMA AskForKeyKeeps ==
    ASSUME IInv, Remember, AskForKey
    PROVE  IInv' /\ ctl'.ans = NoAns /\ ctl'.pc = "ssh"
<1>1. UNCHANGED <<store, isAdmin, admin, faults, runs>>
  BY DEF AskForKey
<1>2. StoreType' /\ DeviceFits' /\ Bounds' /\ Onward /\ isAdmin' = isAdmin /\ issued' = issued
  BY <1>1, ClientRest
<1> DEFINE u == ctl.ans.user
           l == IF ctl.login = None THEN u ELSE ctl.login
           c == [ctl EXCEPT !.acct = u, !.login = l]
<1>3. ctl # Idle /\ ctl \in Client /\ ctl.ans.is = "user"
  BY Parts DEF AskForKey, Got, ClientFits
<1>4. u \in Account
  <2>1. ctl.ans \in Answers
    BY <1>3 DEF Client
  <2> QED
    BY <1>3, <2>1 DEF Answers, NoAns, Failed, None
<1>5. Send(c, "ssh", "ssh", u, 0)
  BY <1>3 DEF AskForKey, Client
<1>6. l \in Account \cup {None}
  BY <1>3, <1>4 DEF Client
<1> HIDE DEF u, l
<1>7. c \in Client /\ c.acct = u
  BY <1>3, <1>4, <1>6 DEF Client
<1> HIDE DEF c
<1>8. 0 \in 0 .. issued
  BY Parts DEF StoreType
<1> QED
  BY <1>2, <1>4, <1>5, <1>7, <1>8, SendKeeps, Parts, PartsAfter DEF AskPC

\* The client starts to wait for its grant, or starts the proxy.
LEMMA StartWaitingKeeps ==
    ASSUME IInv, Remember, StartWaiting
    PROVE  /\ IInv' /\ ctl'.ans = NoAns
           /\ \/ ctl'.pc = "get"
              \/ /\ ctl.pc = "ssh" /\ ctl.ans.is = "grant" /\ ctl # Idle
                 /\ ctl'.pc = "wait" /\ ctl'.grant = ctl.ans.grant /\ ctl'.acct = ctl.acct
                 /\ ctl'.deadline = WaitTimeout /\ ctl'.due = HttpTimeout
<1>1. UNCHANGED <<store, isAdmin, admin, faults, runs>>
  BY DEF StartWaiting
<1>2. StoreType' /\ DeviceFits' /\ Bounds' /\ Onward /\ isAdmin' = isAdmin /\ issued' = issued
  BY <1>1, ClientRest
<1>3. /\ ctl # Idle /\ ctl \in Client /\ ctl.ans.is = "grant" /\ ctl.pc = "ssh"
      /\ ctl.acct \in Account /\ ctl.ans.grant \in 0 .. issued /\ 0 \in 0 .. issued
      /\ ctl.ans.grant \in Nat
  <2>1. /\ ctl # Idle /\ ctl \in Client /\ ctl.ans.is = "grant" /\ ctl.pc = "ssh"
        /\ ctl.acct \in Account /\ ctl.ans.grant <= issued
    BY Parts DEF StartWaiting, Got, ClientFits
  <2>2. ctl.ans.grant \in Nat /\ issued \in Nat
    BY <2>1, AnswerGrant, Parts DEF Client, StoreType
  <2> QED
    BY <2>1, <2>2
<1>4. CASE ctl.leg = "web"
  <2>1. Send([ctl EXCEPT !.leg = "proxy"], "get", "get", None, 0)
    BY <1>4 DEF StartWaiting
  <2>2. [ctl EXCEPT !.leg = "proxy"] \in Client
    BY <1>3 DEF Client
  <2> QED
    BY <1>2, <1>3, <2>1, <2>2, SendKeeps, Parts, PartsAfter DEF AskPC
<1>5. CASE ctl.leg # "web"
  <2> DEFINE c == [ctl EXCEPT !.grant = ctl.ans.grant, !.deadline = WaitTimeout]
  <2>1. Send(c, "wait", "status", None, ctl.ans.grant)
    BY <1>5 DEF StartWaiting
  <2>2. c \in Client /\ c.grant = ctl.ans.grant /\ c.acct = ctl.acct /\ c.deadline = WaitTimeout
    BY <1>3, Times DEF Client
  <2> HIDE DEF c
  <2> QED
    BY <1>2, <1>3, <2>1, <2>2, SendKeeps, Parts, PartsAfter DEF AskPC
<1> QED
  BY <1>4, <1>5

\* The client has the status of its grant.
LEMMA PolledKeeps ==
    ASSUME IInv, Remember, Polled
    PROVE  /\ IInv' /\ ctl # Idle /\ ctl.pc = "wait" /\ ctl.ans.is = "status"
           /\ \/ ctl' = Idle
              \/ ctl'.pc = "get"
              \/ /\ ctl.ans.installed /\ ctl'.pc = "endpoint" /\ ctl'.due = HttpTimeout
                 /\ ctl'.grant = ctl.grant /\ ctl'.acct = ctl.acct
              \/ /\ ctl'.pc = "sleep" /\ ctl'.due = 1 /\ ctl.deadline > 0
                 /\ ctl'.deadline = ctl.deadline
                 /\ ctl'.grant = ctl.grant /\ ctl'.acct = ctl.acct
<1>1. UNCHANGED <<store, isAdmin, admin, faults, runs>>
  BY DEF Polled
<1>2. StoreType' /\ DeviceFits' /\ Bounds' /\ Onward /\ isAdmin' = isAdmin /\ issued' = issued
  BY <1>1, ClientRest
<1>3. /\ ctl # Idle /\ ctl \in Client /\ ctl.ans.is = "status" /\ ctl.pc = "wait"
      /\ ctl.acct \in Account /\ ctl.grant <= issued /\ 0 \in 0 .. issued
  BY Parts DEF Polled, Got, ClientFits, StoreType
<1>4. CASE Send([ctl EXCEPT !.leg = "proxy"], "get", "get", None, 0)
  <2>1. [ctl EXCEPT !.leg = "proxy"] \in Client
    BY <1>3 DEF Client
  <2> QED
    BY <1>2, <1>3, <1>4, <2>1, SendKeeps, Parts, PartsAfter DEF AskPC
<1>5. CASE ctl.ans.installed /\ Busy(ctl, "endpoint", HttpTimeout)
  BY <1>2, <1>3, <1>5, BusyKeeps, Times, Parts, PartsAfter
<1>6. CASE ctl.deadline > 0 /\ Busy(ctl, "sleep", 1)
  <2>1. 1 \in 0 .. HttpTimeout
    BY Times
  <2> QED
    BY <1>2, <1>3, <1>6, <2>1, BusyKeeps, Parts, PartsAfter
<1>7. CASE End
  BY <1>2, <1>3, <1>7, EndKeeps, Parts, PartsAfter
<1> QED
  BY <1>4, <1>5, <1>6, <1>7 DEF Polled

\* The client asks for the status again.
LEMMA PollAgainKeeps ==
    ASSUME IInv, Remember, PollAgain
    PROVE  /\ IInv' /\ ctl # Idle /\ ctl.pc = "sleep" /\ ctl'.pc = "wait" /\ ctl'.ans = NoAns
           /\ ctl'.due = HttpTimeout /\ ctl'.deadline = ctl.deadline
           /\ ctl'.grant = ctl.grant /\ ctl'.acct = ctl.acct
<1>1. UNCHANGED <<store, isAdmin, admin, faults, runs>>
  BY DEF PollAgain
<1>2. StoreType' /\ DeviceFits' /\ Bounds' /\ Onward /\ isAdmin' = isAdmin /\ issued' = issued
  BY <1>1, ClientRest
<1>3. /\ ctl # Idle /\ ctl \in Client /\ ctl.pc = "sleep"
      /\ ctl.acct \in Account /\ ctl.grant \in 0 .. issued
  BY Parts DEF PollAgain, ClientFits, StoreType, Client
<1>4. Send(ctl, "wait", "status", None, ctl.grant)
  BY DEF PollAgain
<1> QED
  BY <1>2, <1>3, <1>4, SendKeeps, Parts, PartsAfter DEF AskPC

\* The client asks for the relay grant.
LEMMA EndpointKeeps ==
    ASSUME IInv, Remember, EndpointKnown
    PROVE  /\ IInv' /\ ctl # Idle /\ ctl.pc = "endpoint" /\ ctl'.pc = "relay" /\ ctl'.ans = NoAns
           /\ ctl'.due = HttpTimeout /\ ctl'.grant = ctl.grant /\ ctl'.acct = ctl.acct
<1>1. UNCHANGED <<store, isAdmin, admin, faults, runs>>
  BY DEF EndpointKnown
<1>2. StoreType' /\ DeviceFits' /\ Bounds' /\ Onward /\ isAdmin' = isAdmin /\ issued' = issued
  BY <1>1, ClientRest
<1>3. /\ ctl # Idle /\ ctl \in Client /\ ctl.pc = "endpoint"
      /\ ctl.acct \in Account /\ 0 \in 0 .. issued
  BY Parts DEF EndpointKnown, ClientFits, StoreType
<1>4. Send(ctl, "relay", "relay", ctl.acct, 0)
  BY DEF EndpointKnown
<1> QED
  BY <1>2, <1>3, <1>4, SendKeeps, Parts, PartsAfter DEF AskPC

\* The client flies, or ends for one reason or another.
LEMMA EndsKeep ==
    ASSUME IInv, Remember, Fly \/ Exported \/ Landed \/ Refused \/ CallFails \/ TimesOut
    PROVE  IInv' /\ (ctl' = Idle \/ ctl'.pc = "fly")
<1>1. UNCHANGED <<store, isAdmin, admin, runs>> /\ (faults' = faults \/ Fault)
  BY DEF Fly, Exported, Landed, Refused, CallFails, TimesOut
<1>2. StoreType' /\ DeviceFits' /\ Bounds' /\ Onward /\ isAdmin' = isAdmin /\ issued' = issued
  BY <1>1, ClientRest
<1>3. CASE Fly
  <2>1. ctl \in Client /\ 0 \in 0 .. HttpTimeout /\ Busy(ctl, "fly", 0)
    BY <1>3, Times, Parts DEF Fly, Got, ClientFits
  <2> QED
    BY <1>2, <2>1, BusyKeeps, Parts, PartsAfter
<1>4. CASE End
  BY <1>2, <1>4, EndKeeps, Parts, PartsAfter
<1> QED
  BY <1>3, <1>4 DEF Exported, Landed, Refused, CallFails, TimesOut

-----------------------------------------------------------------------------
(* Invariance                                                              *)

\* Initially nobody has asked for anything.
LEMMA InitInv == Init => IInv
<1> SUFFICES ASSUME Init PROVE IInv
  OBVIOUS
<1>1. host \in AnyRow /\ host # Absent
  BY RowsAreRows DEF Init
<1>2. \A p \in Policy :
          \/ policies[p] = NoRule
          \/ \E x \in Rules : policies[p] = [principal |-> x.principal, selector |-> x.selector,
                                           users |-> x.users, expires |-> policies[p].expires]
  BY AccessAssumption DEF Init
<1>3. StoreType /\ DeviceFits
  BY <1>1, <1>2 DEF Init, StoreType, DeviceFits, Alive
<1>4. Bounds /\ Book /\ RequestsFit /\ ClientFits
  BY AccessAssumption DEF Init, Bounds, Book, RequestsFit, ClientFits
<1> QED
  BY <1>3, <1>4, Parts

\* Every step keeps the invariant.
LEMMA StepInv == IInv /\ [Next]_vars => IInv'
<1> SUFFICES ASSUME IInv, [Next]_vars PROVE IInv'
  OBVIOUS
<1>1. CASE UNCHANGED vars
  <2>1. UNCHANGED <<store, reqs, isAdmin, ctl, runs, cover, admin, faults>>
    BY <1>1 DEF vars, user
  <2> QED
    BY <2>1 DEF store, IInv, TypeOK, DeviceFits, RequestsFit, RequestFits, Decided, ClientFits, Sent, Alive
<1>2. CASE Next
  <2>0. Remember
    BY <1>2 DEF Next
  <2>1. ASSUME NEW s \in Slot, ServerStep(s) \/ StoreFails(s) \/ Abandon(s) PROVE IInv'
    BY <2>0, <2>1, GetHostKeeps, ListPoliciesKeeps, LookupsKeep, IssueSSHKeeps, RelayKeeps, AnswersKeep
       DEF ServerStep
  <2>2. ASSUME NEW mode \in Modes, Start(mode) PROVE IInv'
    BY <2>0, <2>2, StartKeeps
  <2>3. CASE ClientStep \/ EndpointKnown \/ CallFails \/ TimesOut
    BY <2>0, <2>3, AskForKeyKeeps, StartWaitingKeeps, PolledKeeps, PollAgainKeeps, EndpointKeeps,
       EndsKeep DEF ClientStep
  <2>4. CASE Tick
    BY <2>0, <2>4, TickKeeps
  <2>5. CASE Others
    BY <2>0, <2>5, EditKeeps, DeleteKeeps, MarkKeeps DEF Others
  <2> QED
    BY <1>2, <2>1, <2>2, <2>3, <2>4, <2>5 DEF Next
<1> QED
  BY <1>1, <1>2

\* The invariant holds in every reachable state.
LEMMA Invariance == Spec => []IInv
BY InitInv, StepInv, PTL DEF Spec

\* Once a device is revoked or its host deleted, the server holds no grant of
\* either kind that is still worth something, whatever handler had checked the
\* device before (handleIssueSSHCommand, handleIssueRelayGrant).
THEOREM DeadDeviceHasNothing == Spec => []NothingOnADeadDevice
<1>1. IInv => NothingOnADeadDevice
  BY DEF IInv, DeviceFits, Alive, NothingOnADeadDevice
<1> QED
  BY <1>1, Invariance, PTL

\* A request that arrives when no policy gives the user the account, and sees
\* none appear while it is worked on, issues no grant of either kind.
THEOREM NoGrantWithoutPolicy == Spec => DeletionRefuses
<1>1. ASSUME IInv, NEW s \in Slot, IssueSSHAccess(s) \/ CreateRelayAccessGrant(s)
      PROVE  isAdmin \/ cover[s]
  <2>1. reqs[s] # NoReq /\ At(s, "Issue")
    BY <1>1 DEF IssueSSHAccess, CreateRelayAccessGrant, At
  <2>2. Decided(reqs[s])
    BY <1>1, <2>1, Working, CallTable DEF At, Decided
  <2> QED
    BY <1>1, <2>1, <2>2, Working
<1>2. IInv /\ [Next]_vars =>
        [\A s \in Slot :
            (IssueSSHAccess(s) \/ CreateRelayAccessGrant(s)) /\ (issued' # issued \/ relays' # relays)
                => isAdmin \/ cover[s]]_vars
  BY <1>1
<1> QED
  BY <1>2, Invariance, PTL DEF Spec, DeletionRefuses

-----------------------------------------------------------------------------
(* The time the client has, kept                                           *)

\* What a step of the others leaves of a grant.
Keep(d) == \A g \in grants : \E h \in grants' :
    /\ h.id = g.id /\ h.acct = g.acct /\ h.left >= g.left - d
    /\ g.key = "installed" => h.key = "installed"

\* Facts about grants carry over to the changed grants.
LEMMA Carried ==
    ASSUME IInv, IInv', NEW d \in Nat, Keep(d), NEW id, NEW t \in Int, ctl'.acct = ctl.acct
    PROVE  /\ Lasts(id, t) => \E h \in grants' : h.id = id /\ h.acct = ctl'.acct /\ h.left >= t - d
           /\ Installed(id) => \E h \in grants' : h.id = id /\ h.key = "installed"
<1>1. ASSUME Lasts(id, t)
      PROVE  \E h \in grants' : h.id = id /\ h.acct = ctl'.acct /\ h.left >= t - d
  <2>1. PICK g \in grants : g.id = id /\ g.acct = ctl.acct /\ g.left >= t
    BY <1>1 DEF Lasts
  <2>2. PICK h \in grants' : h.id = g.id /\ h.acct = g.acct /\ h.left >= g.left - d
    BY <2>1 DEF Keep
  <2>3. g.left \in Int /\ h.left \in Int
    <3>1. grants \subseteq Grants /\ grants' \subseteq Grants
      BY DEF IInv, TypeOK
    <3> QED
      BY <2>1, <2>2, <3>1 DEF Grants
  <2> QED
    BY <2>1, <2>2, <2>3
<1> QED
  BY <1>1 DEF Keep, Installed

\* The client's numbers are numbers.
LEMMA ClientNumbers ==
    ASSUME IInv, ctl # Idle
    PROVE  /\ ctl \in Client /\ ctl.due \in 0 .. HttpTimeout /\ ctl.due \in Nat /\ ctl.deadline \in Nat
           /\ Room \in Int /\ HttpTimeout \in Nat /\ SSHTTL \in Nat /\ RelayTTL \in Nat
           /\ ctl.due <= HttpTimeout
<1>1. ctl \in Client
  BY DEF IInv, ClientFits
<1>2. ctl.due \in 0 .. HttpTimeout /\ ctl.deadline \in Nat
  BY <1>1 DEF Client
<1> QED
  BY <1>1, <1>2, Times DEF Room

\* The answer the client just got is as good as it says.
GoodAnswer ==
    /\ SshTime'
    /\ ctl'.pc = "wait" /\ ctl'.ans.is = "status" /\ ctl'.ans.installed => Installed(ctl.grant)'
    /\ ctl'.pc = "relay" /\ ctl'.ans.is = "relay" =>
           \E t \in relays' : t >= RelayTTL - HttpTimeout + ctl'.due

\* Nothing takes time away, and the client is where it was; it may have got an
\* answer that is as good as it says.
LEMMA TimeRests ==
    ASSUME IInv, IInv', TimeFits, Keep(0), relays \subseteq relays', Alive' => Alive,
           ctl # Idle, ctl' # Idle,
           ctl'.pc = ctl.pc, ctl'.due = ctl.due, ctl'.deadline = ctl.deadline,
           ctl'.acct = ctl.acct, ctl'.grant = ctl.grant,
           ctl'.ans = ctl.ans \/ (Alive' => GoodAnswer)
    PROVE  TimeFits'
<1> SUFFICES ASSUME Alive' PROVE SshTime' /\ WaitTime' /\ SleepTime' /\ EndpointTime' /\ RelayTime'
  BY DEF TimeFits
<1>1. SshTime /\ WaitTime /\ SleepTime /\ EndpointTime /\ RelayTime
  BY DEF TimeFits
<1>2. /\ ctl.due \in Nat /\ ctl.deadline \in Nat /\ Room \in Int /\ HttpTimeout \in Nat /\ SSHTTL \in Nat
  BY ClientNumbers
<1>3. ASSUME NEW id, NEW t \in Int, Lasts(id, t)
      PROVE  \E h \in grants' : h.id = id /\ h.acct = ctl'.acct /\ h.left >= t
  <2>1. t - 0 = t /\ 0 \in Nat
    OBVIOUS
  <2> QED
    BY <1>3, <2>1, Carried
<1>4. ASSUME NEW id, Installed(id) PROVE \E h \in grants' : h.id = id /\ h.key = "installed"
  <2>1. 0 \in Nat /\ 0 \in Int
    OBVIOUS
  <2> QED
    BY <1>4, <2>1, Carried
<1>5. /\ SSHTTL - HttpTimeout + ctl.due \in Int /\ Room - 2 * HttpTimeout + ctl.due \in Int
      /\ Room - HttpTimeout + ctl.deadline \in Int /\ Room - 3 * HttpTimeout + ctl.due \in Int
      /\ Room - 4 * HttpTimeout + ctl.due \in Int
  BY <1>2
<1>6. SshTime'
  <2>1. SUFFICES ASSUME ctl'.ans = ctl.ans, ctl.pc = "ssh", ctl.ans.is = "grant" PROVE SshTime'
    BY DEF GoodAnswer, SshTime
  <2>2. Lasts(ctl.ans.grant, SSHTTL - HttpTimeout + ctl.due)
    BY <1>1, <2>1 DEF SshTime
  <2>3. \E h \in grants' : /\ h.id = ctl.ans.grant /\ h.acct = ctl'.acct
                           /\ h.left >= SSHTTL - HttpTimeout + ctl.due
    BY <1>3, <1>5, <2>2
  <2> QED
    BY <2>1, <2>3 DEF SshTime, Lasts
<1>7. WaitTime'
  <2>1. SUFFICES ASSUME ctl.pc = "wait" PROVE WaitTime'
    BY DEF WaitTime
  <2>2. \E h \in grants' : /\ h.id = ctl.grant /\ h.acct = ctl'.acct
                           /\ h.left >= Room - 2 * HttpTimeout + ctl.due
    <3>1. Lasts(ctl.grant, Room - 2 * HttpTimeout + ctl.due)
      BY <1>1, <2>1 DEF WaitTime
    <3> QED
      BY <1>3, <1>5, <3>1
  <2>3. ctl.deadline > 0 =>
           \E h \in grants' : /\ h.id = ctl.grant /\ h.acct = ctl'.acct
                              /\ h.left >= Room - HttpTimeout + ctl.deadline
    <3>1. ctl.deadline > 0 => Lasts(ctl.grant, Room - HttpTimeout + ctl.deadline)
      BY <1>1, <2>1 DEF WaitTime
    <3> QED
      BY <1>3, <1>5, <3>1
  <2>4. ctl'.ans.is = "status" /\ ctl'.ans.installed =>
           \E h \in grants' : h.id = ctl.grant /\ h.key = "installed"
    <3>1. ctl.ans.is = "status" /\ ctl.ans.installed => Installed(ctl.grant)
      BY <1>1, <2>1 DEF WaitTime
    <3>2. CASE ctl'.ans = ctl.ans
      BY <1>4, <3>1, <3>2
    <3>3. CASE GoodAnswer
      BY <2>1, <3>3 DEF GoodAnswer, Installed
    <3> QED
      BY <3>2, <3>3
  <2> QED
    BY <2>2, <2>3, <2>4 DEF WaitTime, Lasts, Installed, Room
<1>8. SleepTime'
  BY <1>1, <1>3, <1>5 DEF SleepTime, Lasts, Room
<1>9. EndpointTime'
  <2>1. SUFFICES ASSUME ctl.pc = "endpoint" PROVE EndpointTime'
    BY DEF EndpointTime
  <2>2. Installed(ctl.grant) /\ Lasts(ctl.grant, Room - 3 * HttpTimeout + ctl.due)
    BY <1>1, <2>1 DEF EndpointTime
  <2>3. /\ \E h \in grants' : /\ h.id = ctl.grant /\ h.acct = ctl'.acct
                              /\ h.left >= Room - 3 * HttpTimeout + ctl.due
        /\ \E h \in grants' : h.id = ctl.grant /\ h.key = "installed"
    BY <1>3, <1>4, <1>5, <2>2
  <2> QED
    BY <2>3 DEF EndpointTime, Lasts, Installed, Room
<1>10. RelayTime'
  <2>1. SUFFICES ASSUME ctl.pc = "relay" PROVE RelayTime'
    BY DEF RelayTime
  <2>2. Installed(ctl.grant) /\ Lasts(ctl.grant, Room - 4 * HttpTimeout + ctl.due)
    BY <1>1, <2>1 DEF RelayTime
  <2>3. /\ \E h \in grants' : /\ h.id = ctl.grant /\ h.acct = ctl'.acct
                              /\ h.left >= Room - 4 * HttpTimeout + ctl.due
        /\ \E h \in grants' : h.id = ctl.grant /\ h.key = "installed"
    BY <1>3, <1>4, <1>5, <2>2
  <2>4. ctl'.ans.is = "relay" => \E t \in relays' : t >= RelayTTL - HttpTimeout + ctl'.due
    BY <1>1, <2>1 DEF RelayTime, GoodAnswer
  <2> QED
    BY <2>3, <2>4 DEF RelayTime, Lasts, Installed, Room
<1> QED
  BY <1>6, <1>7, <1>8, <1>9, <1>10

\* Grants that are only added take nothing away.
LEMMA AddedKeep == ASSUME IInv, grants \subseteq grants' PROVE Keep(0)
<1>1. \A g \in grants : g.left \in Int /\ g.left >= g.left - 0
  BY Parts DEF StoreType, Grants
<1> QED
  BY <1>1 DEF Keep

\* A step that is none of the client's.
LEMMA ClientSame ==
    ASSUME IInv, IInv', TimeFits, Keep(0), relays \subseteq relays', device' = device, ctl' = ctl
    PROVE  TimeFits'
<1>1. CASE ctl = Idle
  BY <1>1 DEF TimeFits
<1>2. CASE ctl # Idle
  BY <1>2, TimeRests DEF Alive
<1> QED
  BY <1>1, <1>2

\* A handler answers with a.
LEMMA AnswerTime ==
    ASSUME IInv, IInv', TimeFits, NEW s \in Slot, NEW a, Reply(s, a),
           grants \subseteq grants', relays \subseteq relays', device' = device,
           Waits(s) =>
             /\ ctl.pc = "ssh" /\ a.is = "grant" =>
                   \E g \in grants' : /\ g.id = a.grant /\ g.acct = ctl.acct
                                      /\ g.left >= SSHTTL - HttpTimeout + ctl.due
             /\ ctl.pc = "wait" /\ a.is = "status" /\ a.installed =>
                   \E g \in grants' : g.id = ctl.grant /\ g.key = "installed"
             /\ ctl.pc = "relay" /\ a.is = "relay" =>
                   \E t \in relays' : t >= RelayTTL - HttpTimeout + ctl.due
    PROVE  TimeFits'
<1>0. Keep(0)
  BY AddedKeep
<1>1. CASE ~Waits(s)
  <2>1. ctl' = ctl
    BY <1>1 DEF Reply
  <2> QED
    BY <1>0, <2>1, ClientSame
<1>2. CASE Waits(s)
  <2>1. ctl # Idle /\ ctl \in Client /\ ctl' = [ctl EXCEPT !.ans = a]
    BY <1>2, Parts DEF Waits, Reply, ClientFits
  <2>2. /\ ctl'.pc = ctl.pc /\ ctl'.due = ctl.due /\ ctl'.deadline = ctl.deadline
        /\ ctl'.acct = ctl.acct /\ ctl'.grant = ctl.grant /\ ctl'.ans = a
    BY <2>1 DEF Client
  <2>3. GoodAnswer
    BY <1>2, <2>2 DEF GoodAnswer, SshTime, Lasts, Installed
  <2>4. CASE ctl' = Idle
    BY <2>4 DEF TimeFits
  <2>5. CASE ctl' # Idle
    BY <1>0, <2>1, <2>2, <2>3, <2>5, TimeRests DEF Alive
  <2> QED
    BY <2>4, <2>5
<1> QED
  BY <1>1, <1>2

\* The server's steps.
LEMMA ServerTime ==
    ASSUME IInv, IInv', TimeFits, NEW s \in Slot, ServerStep(s) \/ StoreFails(s) \/ Abandon(s)
    PROVE  TimeFits'
<1>0. ASSUME Waits(s), ctl.pc \in AskPC
      PROVE  /\ Sent(ctl, reqs[s]) /\ ctl.due \in Nat /\ ctl.due <= HttpTimeout
             /\ HttpTimeout \in Nat /\ SSHTTL \in Nat /\ RelayTTL \in Nat
  BY <1>0, ClientNumbers, Parts DEF Waits, ClientFits
<1>1. CASE IssueSSHAccess(s) /\ Live
  <2> DEFINE g == [id |-> issued', acct |-> reqs[s].acct, left |-> SSHTTL, key |-> "none"]
             a == [is |-> "grant", grant |-> issued']
  <2>1. grants' = grants \cup {g} /\ Reply(s, a) /\ relays' = relays /\ device' = device
    BY <1>1 DEF IssueSSHAccess
  <2>2. g.id = issued' /\ g.acct = reqs[s].acct /\ g.left = SSHTTL /\ a.is = "grant" /\ a.grant = issued'
    OBVIOUS
  <2> HIDE DEF g, a
  <2>3. Waits(s) /\ ctl.pc = "ssh" => g.acct = ctl.acct /\ g.left >= SSHTTL - HttpTimeout + ctl.due
    BY <1>0, <2>2 DEF Sent, AskPC
  <2> QED
    BY <2>1, <2>2, <2>3, AnswerTime
<1>2. CASE CreateRelayAccessGrant(s) /\ Live
  <2> DEFINE a == [is |-> "relay"]
  <2>1. relays' = relays \cup {RelayTTL} /\ Reply(s, a) /\ grants' = grants /\ device' = device
    BY <1>2 DEF CreateRelayAccessGrant
  <2>2. a.is = "relay"
    OBVIOUS
  <2> HIDE DEF a
  <2>3. Waits(s) /\ ctl.pc = "relay" => RelayTTL >= RelayTTL - HttpTimeout + ctl.due
    BY <1>0 DEF AskPC
  <2> QED
    BY <2>1, <2>2, <2>3, AnswerTime
<1>3. CASE GetAccessGrant(s)
  <2> DEFINE b == \E g \in grants : g.id = reqs[s].grant /\ g.key = "installed"
             a == [is |-> "status", installed |-> b]
  <2>1. Reply(s, a) /\ grants' = grants /\ relays' = relays /\ device' = device
    BY <1>3 DEF GetAccessGrant, store
  <2>2. a.is = "status" /\ a.installed = b
    OBVIOUS
  <2>3. Waits(s) /\ ctl.pc = "wait" => reqs[s].grant = ctl.grant
    BY <1>0 DEF Sent, AskPC
  <2>4. Waits(s) /\ ctl.pc = "wait" /\ b => \E g \in grants' : g.id = ctl.grant /\ g.key = "installed"
    BY <2>1, <2>3
  <2> HIDE DEF a, b
  <2> QED
    BY <2>1, <2>2, <2>4, AnswerTime
<1>4. ASSUME Reply(s, Failed), UNCHANGED <<grants, relays, device>> PROVE TimeFits'
  <2>1. Failed.is \notin {"grant", "status", "relay"}
    BY DEF Failed
  <2> QED
    BY <1>4, <2>1, AnswerTime
<1>5. ASSUME Reply(s, [is |-> "user", user |-> reqs[s].host.user]), UNCHANGED <<grants, relays, device>>
      PROVE  TimeFits'
  <2> DEFINE a == [is |-> "user", user |-> reqs[s].host.user]
  <2>1. a.is \notin {"grant", "status", "relay"} /\ Reply(s, a)
    BY <1>5
  <2> HIDE DEF a
  <2> QED
    BY <1>5, <2>1, AnswerTime
<1>6. ASSUME ctl' = ctl, UNCHANGED <<grants, relays, device>> PROVE TimeFits'
  BY <1>6, AddedKeep, ClientSame
<1>7. CASE IssueSSHAccess(s) /\ ~Live
  BY <1>4, <1>7 DEF IssueSSHAccess
<1>8. CASE CreateRelayAccessGrant(s) /\ ~Live
  BY <1>4, <1>8 DEF CreateRelayAccessGrant
<1>9. CASE StoreFails(s) \/ Abandon(s)
  BY <1>4, <1>6, <1>9 DEF StoreFails, Abandon, store, user
<1>10. CASE GetHost(s)
  BY <1>4, <1>6, <1>10 DEF GetHost, Continue, store, user
<1>11. CASE ListPolicies(s)
  BY <1>4, <1>5, <1>6, <1>11 DEF ListPolicies, Continue, store, user
<1>12. CASE GetDeviceByHostID(s) \/ GetEndpointDiscovery(s) \/ ListSSHKeys(s)
  BY <1>4, <1>5, <1>6, <1>12
     DEF GetDeviceByHostID, GetEndpointDiscovery, ListSSHKeys, Continue, store, user
<1> QED
  BY <1>1, <1>2, <1>3, <1>7, <1>8, <1>9, <1>10, <1>11, <1>12 DEF ServerStep

\* Operators and the agent.
LEMMA OthersTime == ASSUME IInv, IInv', Remember, TimeFits, Others PROVE TimeFits'
<1>1. CASE DeleteDevice \/ DeleteHost
  BY <1>1, DeleteKeeps DEF TimeFits
<1>2. CASE PublishAuthorizedKeys \/ AcknowledgeAuthorizedKeys
  <2>1. UNCHANGED <<ctl, relays, device>>
    BY <1>2, MarkKeeps
  <2>2. Keep(0)
    <3>1. \A g \in grants : g.left \in Int /\ g.left >= g.left - 0
      BY Parts DEF StoreType, Grants
    <3> QED
      BY <1>2, <3>1, MarkKeeps DEF Keep
  <2> QED
    BY <2>1, <2>2, ClientSame
<1>3. CASE UNCHANGED <<ctl, grants, relays, device>>
  BY <1>3, AddedKeep, ClientSame
<1> QED
  BY <1>1, <1>2, <1>3 DEF Others, SetPolicy, UpdateHost, Heartbeat, CreateSSHKey, user

\* Time passes for the grants and for the client alike.
LEMMA TickTime ==
    ASSUME LongEnough, IInv, IInv', TimeFits, Tick
    PROVE  TimeFits'
<1> SUFFICES ASSUME Alive', ctl' # Idle
             PROVE  SshTime' /\ WaitTime' /\ SleepTime' /\ EndpointTime' /\ RelayTime'
  BY DEF TimeFits
<1>0. ctl # Idle /\ Alive /\ relays' = {n - 1 : n \in relays} \ {0}
  BY DEF Tick, Alive
<1>1. SshTime /\ WaitTime /\ SleepTime /\ EndpointTime /\ RelayTime
  BY <1>0 DEF TimeFits
<1>2. /\ ctl.due \in Nat /\ ctl.deadline \in Nat /\ Room \in Int /\ HttpTimeout \in Nat
      /\ SSHTTL \in Nat /\ RelayTTL \in Nat
  BY <1>0, ClientNumbers
<1>3. /\ ctl.due > 0 \/ ctl.pc = "fly"
      /\ ctl'.pc = ctl.pc /\ ctl'.ans = ctl.ans /\ ctl'.acct = ctl.acct /\ ctl'.grant = ctl.grant
      /\ ctl.due > 0 => ctl'.due = ctl.due - 1
      /\ ctl.deadline > 0 => ctl'.deadline = ctl.deadline - 1
      /\ ctl.deadline = 0 => ctl'.deadline = 0
  BY <1>0, <1>2, TickClient DEF Older
<1>4. Keep(1)
  BY TickStore DEF Keep
<1>5. ASSUME NEW id, NEW t \in Int, Lasts(id, t)
      PROVE  \E h \in grants' : h.id = id /\ h.acct = ctl'.acct /\ h.left >= t - 1
  <2>1. 1 \in Nat
    OBVIOUS
  <2> QED
    BY <1>3, <1>4, <1>5, <2>1, Carried
<1>6. ASSUME NEW id, Installed(id) PROVE \E h \in grants' : h.id = id /\ h.key = "installed"
  <2>1. 1 \in Nat /\ 0 \in Int
    OBVIOUS
  <2> QED
    BY <1>3, <1>4, <1>6, <2>1, Carried
<1>7. SshTime'
  <2>1. SUFFICES ASSUME ctl.pc = "ssh", ctl.ans.is = "grant" PROVE SshTime'
    BY <1>3 DEF SshTime
  <2> DEFINE t == SSHTTL - HttpTimeout + ctl.due
  <2>2. Lasts(ctl.ans.grant, t) /\ t \in Int /\ t - 1 = SSHTTL - HttpTimeout + ctl'.due
    BY <1>1, <1>2, <1>3, <2>1 DEF SshTime
  <2> HIDE DEF t
  <2>3. \E h \in grants' : h.id = ctl.ans.grant /\ h.acct = ctl'.acct /\ h.left >= t - 1
    BY <1>5, <2>2
  <2> QED
    BY <1>3, <2>2, <2>3 DEF SshTime, Lasts
<1>8. WaitTime'
  <2>1. SUFFICES ASSUME ctl.pc = "wait" PROVE WaitTime'
    BY <1>3 DEF WaitTime
  <2>2. \E h \in grants' : /\ h.id = ctl.grant /\ h.acct = ctl'.acct
                           /\ h.left >= Room - 2 * HttpTimeout + ctl'.due
    <3> DEFINE t == Room - 2 * HttpTimeout + ctl.due
    <3>1. Lasts(ctl.grant, t) /\ t \in Int /\ t - 1 = Room - 2 * HttpTimeout + ctl'.due
      BY <1>1, <1>2, <1>3, <2>1 DEF WaitTime
    <3> HIDE DEF t
    <3>2. \E h \in grants' : h.id = ctl.grant /\ h.acct = ctl'.acct /\ h.left >= t - 1
      BY <1>5, <3>1
    <3> QED
      BY <3>1, <3>2
  <2>3. ctl'.deadline > 0 =>
           \E h \in grants' : /\ h.id = ctl.grant /\ h.acct = ctl'.acct
                              /\ h.left >= Room - HttpTimeout + ctl'.deadline
    <3>1. SUFFICES ASSUME ctl'.deadline > 0
                   PROVE  \E h \in grants' : /\ h.id = ctl.grant /\ h.acct = ctl'.acct
                                             /\ h.left >= Room - HttpTimeout + ctl'.deadline
      OBVIOUS
    <3> DEFINE t == Room - HttpTimeout + ctl.deadline
    <3>2. ctl.deadline > 0 /\ t \in Int /\ t - 1 = Room - HttpTimeout + ctl'.deadline
      BY <1>2, <1>3, <3>1
    <3>3. Lasts(ctl.grant, t)
      BY <1>1, <2>1, <3>2 DEF WaitTime
    <3> HIDE DEF t
    <3>4. \E h \in grants' : h.id = ctl.grant /\ h.acct = ctl'.acct /\ h.left >= t - 1
      BY <1>5, <3>2, <3>3
    <3> QED
      BY <3>2, <3>4
  <2>4. ctl.ans.is = "status" /\ ctl.ans.installed =>
           \E h \in grants' : h.id = ctl.grant /\ h.key = "installed"
    <3>1. ctl.ans.is = "status" /\ ctl.ans.installed => Installed(ctl.grant)
      BY <1>1, <2>1 DEF WaitTime
    <3> QED
      BY <1>6, <3>1
  <2> QED
    BY <1>3, <2>2, <2>3, <2>4 DEF WaitTime, Lasts, Installed, Room
<1>9. SleepTime'
  <2>1. SUFFICES ASSUME ctl.pc = "sleep" PROVE SleepTime'
    BY <1>3 DEF SleepTime
  <2> DEFINE t == Room - HttpTimeout + ctl.deadline
  <2>2. /\ Lasts(ctl.grant, t) /\ ctl.due = 1 /\ ctl.deadline > 0 /\ ctl'.due = 0
        /\ t \in Int /\ t - 1 = Room - HttpTimeout + ctl'.deadline
    BY <1>1, <1>2, <1>3, <2>1 DEF SleepTime
  <2> HIDE DEF t
  <2>3. \E h \in grants' : h.id = ctl.grant /\ h.acct = ctl'.acct /\ h.left >= t - 1
    BY <1>5, <2>2
  <2> QED
    BY <1>3, <2>2, <2>3 DEF SleepTime, Lasts, Room
<1>10. EndpointTime'
  <2>1. SUFFICES ASSUME ctl.pc = "endpoint" PROVE EndpointTime'
    BY <1>3 DEF EndpointTime
  <2> DEFINE u == Room - 3 * HttpTimeout + ctl.due
  <2>2. /\ Installed(ctl.grant) /\ Lasts(ctl.grant, u)
        /\ u \in Int /\ u - 1 = Room - 3 * HttpTimeout + ctl'.due
    BY <1>1, <1>2, <1>3, <2>1 DEF EndpointTime
  <2> HIDE DEF u
  <2>3. /\ \E h \in grants' : h.id = ctl.grant /\ h.acct = ctl'.acct /\ h.left >= u - 1
        /\ \E h \in grants' : h.id = ctl.grant /\ h.key = "installed"
    BY <1>5, <1>6, <2>2
  <2> QED
    BY <1>3, <2>2, <2>3 DEF EndpointTime, Lasts, Installed, Room
<1>11. RelayTime'
  <2>1. SUFFICES ASSUME ctl.pc = "relay" PROVE RelayTime'
    BY <1>3 DEF RelayTime
  <2> DEFINE u == Room - 4 * HttpTimeout + ctl.due
  <2>2. /\ Installed(ctl.grant) /\ Lasts(ctl.grant, u)
        /\ u \in Int /\ u - 1 = Room - 4 * HttpTimeout + ctl'.due
    BY <1>1, <1>2, <1>3, <2>1 DEF RelayTime
  <2> HIDE DEF u
  <2>3. /\ \E h \in grants' : h.id = ctl.grant /\ h.acct = ctl'.acct /\ h.left >= u - 1
        /\ \E h \in grants' : h.id = ctl.grant /\ h.key = "installed"
    BY <1>5, <1>6, <2>2
  <2>4. ASSUME ctl.ans.is = "relay"
        PROVE  \E t \in relays' : t >= RelayTTL - HttpTimeout + ctl'.due
    <3>1. PICK t \in relays : t >= RelayTTL - HttpTimeout + ctl.due
      BY <1>1, <2>1, <2>4 DEF RelayTime
    <3>2. t \in Nat
      BY Parts DEF StoreType
    <3>3. t - 1 >= RelayTTL - HttpTimeout + ctl'.due /\ t - 1 # 0
      BY <1>2, <1>3, <2>1, <3>1, <3>2 DEF LongEnough
    <3>4. t - 1 \in relays'
      BY <1>0, <3>3
    <3> QED
      BY <3>3, <3>4
  <2> QED
    BY <1>3, <2>2, <2>3, <2>4 DEF RelayTime, Lasts, Installed, Room
<1> QED
  BY <1>7, <1>8, <1>9, <1>10, <1>11

\* A shorter time is also lasted, by the same grant, for a client that only moved on.
LEMMA Shorter ==
    ASSUME IInv, UNCHANGED grants, ctl'.acct = ctl.acct, NEW id, NEW t \in Int, NEW u \in Int, t >= u,
           Lasts(id, t)
    PROVE  \E h \in grants' : h.id = id /\ h.acct = ctl'.acct /\ h.left >= u
<1>1. PICK g \in grants : g.id = id /\ g.acct = ctl.acct /\ g.left >= t
  BY DEF Lasts
<1>2. g.left \in Int
  BY <1>1, Parts DEF StoreType, Grants
<1> QED
  BY <1>1, <1>2

\* ternalctl goes on to its next wait with the time that one needs.
LEMMA ClientTime ==
    ASSUME IInv, Remember, TimeFits,
           \/ \E mode \in Modes : Start(mode)
           \/ ClientStep \/ EndpointKnown \/ CallFails \/ TimesOut
    PROVE  TimeFits'
<1>0. UNCHANGED <<grants, relays, device>> /\ NoAns.is \notin {"grant", "status", "relay"}
  BY DEF Start, ClientStep, AskForKey, Exported, StartWaiting, Polled, PollAgain, Fly, Landed, Refused,
         EndpointKnown, CallFails, TimesOut, store, NoAns, None
<1>1. ASSUME Alive, ctl # Idle
      PROVE  /\ SshTime /\ WaitTime /\ SleepTime /\ EndpointTime /\ RelayTime
             /\ ctl.due \in Nat /\ ctl.deadline \in Nat /\ Room \in Int
             /\ HttpTimeout \in Nat /\ SSHTTL \in Nat /\ WaitTimeout \in Nat
  BY <1>1, ClientNumbers, Times DEF TimeFits
<1>2. ASSUME \/ ctl' = Idle
             \/ ctl'.pc \in {"fly", "list", "export", "get"}
             \/ ctl'.pc = "ssh" /\ ctl'.ans = NoAns
      PROVE  TimeFits'
  <2>1. ctl' # Idle => SshTime' /\ WaitTime' /\ SleepTime' /\ EndpointTime' /\ RelayTime'
    BY <1>0, <1>2 DEF SshTime, WaitTime, SleepTime, EndpointTime, RelayTime
  <2> QED
    BY <2>1 DEF TimeFits
<1>3. CASE \/ \E mode \in Modes : Start(mode)
           \/ AskForKey \/ Fly \/ Exported \/ Landed \/ Refused \/ CallFails \/ TimesOut
  BY <1>2, <1>3, StartKeeps, AskForKeyKeeps, EndsKeep
<1>4. ASSUME NEW id, ctl'.pc = "wait", ctl'.ans = NoAns, ctl'.grant = id,
             \E h \in grants' : /\ h.id = id /\ h.acct = ctl'.acct
                                /\ h.left >= Room - 2 * HttpTimeout + ctl'.due,
             ctl'.deadline > 0 =>
                \E h \in grants' : /\ h.id = id /\ h.acct = ctl'.acct
                                   /\ h.left >= Room - HttpTimeout + ctl'.deadline
      PROVE  TimeFits'
  <2>1. WaitTime'
    BY <1>0, <1>4 DEF WaitTime, Lasts, Room
  <2>2. SshTime' /\ SleepTime' /\ EndpointTime' /\ RelayTime'
    BY <1>4 DEF SshTime, SleepTime, EndpointTime, RelayTime
  <2> QED
    BY <2>1, <2>2 DEF TimeFits
<1>5. CASE StartWaiting
  <2>1. SUFFICES ASSUME Alive, ctl # Idle, ctl.pc = "ssh", ctl.ans.is = "grant",
                        ctl'.pc = "wait", ctl'.ans = NoAns,
                        ctl'.grant = ctl.ans.grant, ctl'.acct = ctl.acct,
                        ctl'.deadline = WaitTimeout, ctl'.due = HttpTimeout
                 PROVE  TimeFits'
    BY <1>0, <1>2, <1>5, StartWaitingKeeps DEF TimeFits, Alive
  <2> DEFINE t == SSHTTL - HttpTimeout + ctl.due
             u == Room - 2 * HttpTimeout + ctl'.due
             v == Room - HttpTimeout + ctl'.deadline
  <2>2. Lasts(ctl.ans.grant, t)
    BY <1>1, <2>1 DEF SshTime
  <2>3. t \in Int /\ u \in Int /\ v \in Int /\ t >= u /\ t >= v
    BY <1>1, <2>1 DEF Room
  <2> HIDE DEF t, u, v
  <2>4. /\ \E h \in grants' : h.id = ctl.ans.grant /\ h.acct = ctl'.acct /\ h.left >= u
        /\ \E h \in grants' : h.id = ctl.ans.grant /\ h.acct = ctl'.acct /\ h.left >= v
    BY <1>0, <2>1, <2>2, <2>3, Shorter
  <2> QED
    BY <1>4, <2>1, <2>4 DEF u, v
<1>6. CASE Polled
  <2>1. CASE ~Alive \/ ctl' = Idle \/ ctl'.pc = "get"
    BY <1>0, <1>2, <2>1 DEF TimeFits, Alive
  <2>2. ASSUME Alive, ctl # Idle, ctl.pc = "wait", ctl.ans.is = "status", ctl.ans.installed,
               ctl'.pc = "endpoint", ctl'.due = HttpTimeout,
               ctl'.grant = ctl.grant, ctl'.acct = ctl.acct
        PROVE  TimeFits'
    <3> DEFINE t == Room - 2 * HttpTimeout + ctl.due
               u == Room - 3 * HttpTimeout + ctl'.due
    <3>1. Lasts(ctl.grant, t) /\ Installed(ctl.grant)
      BY <1>1, <2>2 DEF WaitTime
    <3>2. t \in Int /\ u \in Int /\ t >= u
      BY <1>1, <2>2
    <3> HIDE DEF t, u
    <3>3. \E h \in grants' : h.id = ctl'.grant /\ h.acct = ctl'.acct /\ h.left >= u
      BY <1>0, <2>2, <3>1, <3>2, Shorter
    <3>4. EndpointTime'
      BY <1>0, <2>2, <3>1, <3>3 DEF u, EndpointTime, Lasts, Installed, Room
    <3>5. SshTime' /\ WaitTime' /\ SleepTime' /\ RelayTime'
      BY <2>2 DEF SshTime, WaitTime, SleepTime, RelayTime
    <3> QED
      BY <3>4, <3>5 DEF TimeFits
  <2>3. ASSUME Alive, ctl # Idle, ctl.pc = "wait", ctl'.pc = "sleep", ctl'.due = 1, ctl.deadline > 0,
               ctl'.deadline = ctl.deadline, ctl'.grant = ctl.grant, ctl'.acct = ctl.acct
        PROVE  TimeFits'
    <3> DEFINE t == Room - HttpTimeout + ctl.deadline
    <3>1. Lasts(ctl.grant, t) /\ t \in Int /\ t >= t
      BY <1>1, <2>3 DEF WaitTime
    <3> HIDE DEF t
    <3>2. \E h \in grants' : h.id = ctl'.grant /\ h.acct = ctl'.acct /\ h.left >= t
      BY <1>0, <2>3, <3>1, Shorter
    <3>3. SleepTime'
      BY <2>3, <3>2 DEF t, SleepTime, Lasts, Room
    <3>4. SshTime' /\ WaitTime' /\ EndpointTime' /\ RelayTime'
      BY <2>3 DEF SshTime, WaitTime, EndpointTime, RelayTime
    <3> QED
      BY <3>3, <3>4 DEF TimeFits
  <2> QED
    BY <1>6, <2>1, <2>2, <2>3, PolledKeeps
<1>7. CASE PollAgain
  <2>1. /\ ctl # Idle /\ ctl.pc = "sleep" /\ ctl'.pc = "wait" /\ ctl'.ans = NoAns
        /\ ctl'.due = HttpTimeout /\ ctl'.deadline = ctl.deadline
        /\ ctl'.grant = ctl.grant /\ ctl'.acct = ctl.acct
    BY <1>7, PollAgainKeeps
  <2>2. SUFFICES ASSUME Alive PROVE TimeFits'
    BY <1>0 DEF TimeFits, Alive
  <2> DEFINE t == Room - HttpTimeout + ctl.deadline
             u == Room - 2 * HttpTimeout + ctl'.due
  <2>3. Lasts(ctl.grant, t) /\ t \in Int /\ u \in Int /\ t >= u /\ t >= t
    BY <1>1, <2>1, <2>2 DEF SleepTime
  <2> HIDE DEF t, u
  <2>4. /\ \E h \in grants' : h.id = ctl.grant /\ h.acct = ctl'.acct /\ h.left >= u
        /\ \E h \in grants' : h.id = ctl.grant /\ h.acct = ctl'.acct /\ h.left >= t
    BY <1>0, <2>1, <2>3, Shorter
  <2> QED
    BY <1>4, <2>1, <2>4 DEF t, u
<1>8. CASE EndpointKnown
  <2>1. /\ ctl # Idle /\ ctl.pc = "endpoint" /\ ctl'.pc = "relay" /\ ctl'.ans = NoAns
        /\ ctl'.due = HttpTimeout /\ ctl'.grant = ctl.grant /\ ctl'.acct = ctl.acct
    BY <1>8, EndpointKeeps
  <2>2. SUFFICES ASSUME Alive PROVE TimeFits'
    BY <1>0 DEF TimeFits, Alive
  <2> DEFINE t == Room - 3 * HttpTimeout + ctl.due
             u == Room - 4 * HttpTimeout + ctl'.due
  <2>3. Installed(ctl.grant) /\ Lasts(ctl.grant, t) /\ t \in Int /\ u \in Int /\ t >= u
    BY <1>1, <2>1, <2>2 DEF EndpointTime
  <2> HIDE DEF t, u
  <2>4. \E h \in grants' : h.id = ctl'.grant /\ h.acct = ctl'.acct /\ h.left >= u
    BY <1>0, <2>1, <2>3, Shorter
  <2>5. RelayTime'
    BY <1>0, <2>1, <2>3, <2>4 DEF u, RelayTime, Lasts, Installed, Room
  <2>6. SshTime' /\ WaitTime' /\ SleepTime' /\ EndpointTime'
    BY <2>1 DEF SshTime, WaitTime, SleepTime, EndpointTime
  <2> QED
    BY <2>5, <2>6 DEF TimeFits
<1> QED
  BY <1>3, <1>5, <1>6, <1>7, <1>8 DEF ClientStep

\* No step leaves the client with less time than it needs.
LEMMA TimeStep == ASSUME LongEnough, IInv, IInv', TimeFits, [Next]_vars PROVE TimeFits'
<1>1. CASE Next
  <2>1. Remember
    BY <1>1 DEF Next
  <2> QED
    BY <1>1, <2>1, ServerTime, OthersTime, TickTime, ClientTime DEF Next
<1>2. CASE UNCHANGED vars
  <2>1. UNCHANGED <<grants, relays, device, ctl>>
    BY <1>2 DEF vars, store, user
  <2> QED
    BY <2>1, AddedKeep, ClientSame
<1> QED
  BY <1>1, <1>2

\* The times are kept in every behaviour.
LEMMA TimeInvariance == ASSUME LongEnough PROVE Spec => [](IInv /\ TimeFits)
<1>1. Init => TimeFits
  BY DEF Init, TimeFits
<1>2. IInv /\ IInv' /\ TimeFits /\ [Next]_vars => TimeFits'
  BY TimeStep
<1> QED
  BY <1>1, <1>2, Invariance, PTL DEF Spec

\* If the grants outlive the waits (LongEnough), the transport opens only with a
\* key the device has installed for the account both grants name, and both grants
\* are still worth something, whatever the server, the agent and the operators did
\* between the waits of cmdProxy, unless the device was revoked or deleted.
THEOREM FlightHasItsKey == ASSUME LongEnough PROVE Spec => FliesWithAKey
<1>1. ASSUME IInv, TimeFits, Fly, Alive
      PROVE  \E g \in grants : /\ g.id = ctl.grant /\ g.acct = ctl.acct
                               /\ g.key = "installed" /\ g.left > 0
                               /\ relays # {}
  <2>1. ctl # Idle /\ ctl.pc = "relay" /\ ctl.ans.is = "relay"
    BY <1>1 DEF Fly, Got
  <2>2. RelayTime
    BY <1>1, <2>1 DEF TimeFits
  <2>3. PICK g \in grants : g.id = ctl.grant /\ g.key = "installed"
    BY <2>1, <2>2 DEF RelayTime, Installed
  <2>4. PICK h \in grants : /\ h.id = ctl.grant /\ h.acct = ctl.acct
                            /\ h.left >= Room - 4 * HttpTimeout + ctl.due
    BY <2>1, <2>2 DEF RelayTime, Lasts
  <2>5. g = h
    BY <1>1, <2>3, <2>4 DEF IInv, DeviceFits
  <2>6. h.left \in Int
    BY <1>1, <2>4, Parts DEF StoreType, Grants
  <2>7. /\ ctl.due \in Nat /\ HttpTimeout \in Nat /\ SSHTTL \in Nat /\ WaitTimeout \in Nat
    BY <1>1, <2>1, ClientNumbers, Times
  <2>8. h.left > 0
    BY <2>4, <2>6, <2>7 DEF LongEnough, Room
  <2>9. relays # {}
    BY <2>1, <2>2 DEF RelayTime
  <2> QED
    BY <2>3, <2>4, <2>5, <2>8, <2>9
<1>2. IInv /\ TimeFits /\ [Next]_vars =>
        [Fly => \/ device # "manufactured"
                \/ \E g \in grants : /\ g.id = ctl.grant /\ g.acct = ctl.acct
                                     /\ g.key = "installed" /\ g.left > 0
                                     /\ relays # {}]_vars
  BY <1>1 DEF Alive
<1> QED
  BY <1>2, TimeInvariance, PTL DEF Spec, FliesWithAKey
==================================================================================
