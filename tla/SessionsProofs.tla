---------------------------- MODULE SessionsProofs ----------------------------
(***************************************************************************)
(* Proofs about sessions for any number of nodes, requests, sessions and   *)
(* logins.  The one fact about the constants that matters is that the      *)
(* nodes' clocks differ by no more than sessionRevocationRetention: a row  *)
(* the cleanup drops is then of a session that every node finds expired.   *)
(***************************************************************************)
EXTENDS Sessions, TLAPS

Request == [pc : {"idle", "lookup", "recheck", "served", "revoke", "clean"},
            node : Node, sid : Sid \cup {NoSid}, kind : {"use", "logout"}, late : BOOLEAN]

\* A session whose revocation was dropped is expired, even for the slowest clock.
SweptIsExpired ==
    /\ \A s \in dead : expires[s] # 0
    /\ \A s \in dead \ revoked : expires[s] <= now

\* A request that overlooked a revocation has an expired session, so it goes no
\* further than the second check of the expiry; a request that cleans up has
\* committed its revocation; the one ternalctl waits for is of the session it leaves.
Fits(r, x) ==
    /\ x.pc # "idle" => x.sid \in Sid
    /\ x.late => x.sid \in dead /\ expires[x.sid] <= Clock(x.node)
    /\ x.pc = "served" => ~x.late
    /\ x.pc = "clean" => x.sid \in dead
    /\ x.pc # "idle" /\ leave.req = r => x.sid = leave.sid

RequestsFit == \A r \in Req : Fits(r, req[r])

LeavesASession == leave # Stay => leave.req \in Req /\ leave.sid \in Sid

\* The state cookie is of the login begun last, and only issued sessions have a source.
JarIsLatest ==
    /\ jar # NoJar => jar.login = latest
    /\ \A s \in Sid : expires[s] = 0 => source[s] = NoLogin

IInv ==
    /\ TypeOK
    /\ SweptIsExpired /\ RequestsFit
    /\ LeavesASession /\ left \subseteq dead
    /\ JarIsLatest

-----------------------------------------------------------------------------
(* Requests                                                                *)

\* Time goes on, revocations stay, and the sessions they are about keep their expiry.
Onward ==
    /\ now' \in Nat /\ now' >= now
    /\ dead \subseteq dead' /\ dead' \subseteq Sid
    /\ expires' \in [Sid -> Nat] /\ \A s \in dead : expires'[s] = expires[s]

\* A free slot is a request of its type.
LEMMA IdleType == Idle \in Request /\ Idle.pc = "idle" /\ Idle.late = FALSE
<1>1. (CHOOSE n \in Node : TRUE) \in Node
  BY SessionsAssumption
<1> QED
  BY <1>1 DEF Idle, Request

\* A reading of a node's clock is a number.
LEMMA ClockType ==
    ASSUME TypeOK, NEW n \in Node
    PROVE  Clock(n) \in Nat /\ now \in Nat /\ now <= Clock(n) /\ Clock(n) <= now + Retention
BY SessionsAssumption DEF TypeOK, Clock

\* One request moves to x, the others stay as they are.
LEMMA RequestMoves ==
    ASSUME IInv, Onward, NEW r \in Req, NEW x \in Request, req' = [req EXCEPT ![r] = x],
           leave' = leave \/ leave' = Stay \/ leave'.req = r,
           x.pc # "idle" => x.sid \in Sid,
           x.late => x.sid \in dead /\ expires[x.sid] <= Clock(x.node),
           x.pc = "served" => ~x.late,
           x.pc = "clean" => x.sid \in dead',
           x.pc # "idle" /\ leave'.req = r => x.sid = leave'.sid
    PROVE  req' \in [Req -> Request] /\ RequestsFit'
<1>1. /\ req' \in [Req -> Request] /\ req'[r] = x
      /\ \A q \in Req \ {r} : req'[q] = req[q] /\ req[q] \in Request
  BY DEF IInv, TypeOK, Request
<1>2. \A y \in Request : expires[y.sid] <= Clock(y.node) /\ y.sid \in dead
          => expires'[y.sid] <= Clock(y.node)' /\ y.sid \in dead'
  <2> SUFFICES ASSUME NEW y \in Request, y.sid \in dead, expires[y.sid] <= Clock(y.node)
               PROVE  expires'[y.sid] <= Clock(y.node)'
    BY DEF Onward
  <2>1. Ahead[y.node] \in Nat /\ expires'[y.sid] = expires[y.sid] /\ expires[y.sid] \in Nat
    BY SessionsAssumption DEF Request, Onward, IInv, TypeOK
  <2> QED
    BY <2>1 DEF Clock, Onward, IInv, TypeOK
<1>3. Fits(r, req[r])'
  BY <1>1, <1>2 DEF Fits
<1>4. ASSUME NEW q \in Req \ {r} PROVE Fits(q, req[q])'
  <2>1. Fits(q, req[q]) /\ req'[q] = req[q] /\ req[q] \in Request
    BY <1>1 DEF IInv, RequestsFit
  <2>2. leave'.req = q => leave' = leave
    BY SessionsAssumption DEF Stay
  <2>3. dead \subseteq dead'
    BY DEF Onward
  <2> QED
    BY <1>2, <2>1, <2>2, <2>3 DEF Fits
<1> QED
  BY <1>1, <1>3, <1>4 DEF RequestsFit

\* No request moves.
LEMMA RequestsRest ==
    ASSUME IInv, Onward, req' = req, leave' = leave \/ leave' = Stay
    PROVE  req' \in [Req -> Request] /\ RequestsFit'
<1>1. req \in [Req -> Request]
  BY DEF IInv, TypeOK, Request
<1>2. ASSUME NEW r \in Req PROVE Fits(r, req[r])'
  <2>1. req[r] \in Request /\ Fits(r, req[r]) /\ req' = [req EXCEPT ![r] = req[r]]
    BY <1>1 DEF IInv, RequestsFit
  <2>2. leave'.req = r => leave' = leave
    BY SessionsAssumption DEF Stay
  <2>3. dead \subseteq dead'
    BY DEF Onward
  <2>4. RequestsFit'
    BY <2>1, <2>2, <2>3, RequestMoves DEF Fits
  <2> QED
    BY <2>4 DEF RequestsFit
<1> QED
  BY <1>1, <1>2 DEF RequestsFit

\* A step that only moves one request keeps the invariant.
LEMMA RequestOnly ==
    ASSUME IInv, NEW r \in Req, NEW x \in Request, req' = [req EXCEPT ![r] = x], Fits(r, x),
           UNCHANGED <<present, now, db, browser, ctl>>, faults' = faults \/ Fault
    PROVE  IInv'
<1> USE DEF db, browser, ctl
<1>1. Onward
  BY DEF IInv, TypeOK, Onward
<1>2. req' \in [Req -> Request] /\ RequestsFit'
  BY <1>1, RequestMoves DEF Fits
<1>3. TypeOK'
  BY <1>2, SessionsAssumption DEF IInv, TypeOK, Request, Fault
<1> QED
  BY <1>2, <1>3 DEF IInv, SweptIsExpired, LeavesASession, JarIsLatest

\* A 401 or 503 ends the request.
LEMMA RefuseKeeps ==
    ASSUME IInv, NEW r \in Req, Refuse(r),
           UNCHANGED <<present, now, db, browser, ctl>>, faults' = faults \/ Fault
    PROVE  IInv'
BY RequestOnly, IdleType DEF Refuse, Fits

\* A request arrives with any cookie and passes the first expiry check.
LEMMA ArriveKeeps ==
    ASSUME IInv, NEW r \in Req, NEW n \in Node, NEW s \in Sid, NEW k \in {"use", "logout"},
           Arrive(r, n, s, k)
    PROVE  IInv'
<1> DEFINE x == [pc |-> "lookup", node |-> n, sid |-> s, kind |-> k, late |-> FALSE]
<1>1. x \in Request /\ x.pc = "lookup" /\ x.sid = s /\ x.late = FALSE
  BY DEF Request
<1>2. req' = [req EXCEPT ![r] = x] /\ leave.req # r
  BY DEF Arrive
<1> HIDE DEF x
<1>3. Fits(r, x)
  BY <1>1, <1>2 DEF Fits
<1> QED
  BY <1>1, <1>2, <1>3, RequestOnly DEF Arrive

\* The lookup overlooks a revocation only when the session is expired on this node.
LEMMA LookupKeeps == ASSUME IInv, NEW r \in Req, Lookup(r) PROVE IInv'
<1>1. CASE Blocked(r)
  BY <1>1, RefuseKeeps DEF Lookup
<1>2. CASE ~Blocked(r)
  <2> DEFINE b == req[r].sid \in dead
             x == [req[r] EXCEPT !.pc = "recheck", !.late = b]
  <2>1. req[r] \in Request /\ req[r].pc = "lookup" /\ Fits(r, req[r])
    BY DEF IInv, TypeOK, Request, RequestsFit, Lookup
  <2>2. req' = [req EXCEPT ![r] = x]
    BY <1>2, <2>1 DEF Lookup, IInv, TypeOK, Request
  <2>3. /\ x \in Request /\ x.pc = "recheck" /\ x.sid = req[r].sid /\ x.node = req[r].node
        /\ x.late = b
    <3>1. b \in BOOLEAN
      OBVIOUS
    <3> HIDE DEF b
    <3> QED
      BY <2>1, <3>1 DEF Request
  <2> HIDE DEF x
  <2>4. req[r].sid \in Sid /\ req[r].node \in Node
    BY <2>1 DEF Fits, Request
  <2>5. req[r].sid \in dead => expires[req[r].sid] <= Clock(req[r].node)
    <3>1. Clock(req[r].node) \in Nat /\ now \in Nat /\ now <= Clock(req[r].node)
      BY <2>4, ClockType DEF IInv
    <3>2. expires[req[r].sid] \in Nat
      BY <2>4 DEF IInv, TypeOK
    <3>3. req[r].sid \in dead /\ req[r].sid \notin revoked => expires[req[r].sid] <= now
      BY DEF IInv, SweptIsExpired
    <3> QED
      BY <1>2, <3>1, <3>2, <3>3 DEF Blocked
  <2>6. Fits(r, x)
    BY <2>1, <2>3, <2>4, <2>5 DEF Fits
  <2> QED
    BY <2>2, <2>3, <2>6, RequestOnly DEF Lookup
<1> QED
  BY <1>1, <1>2

\* The second check of the expiry stops every late request.
LEMMA RecheckKeeps == ASSUME IInv, NEW r \in Req, Recheck(r) PROVE IInv'
<1>1. CASE ~Verified(req[r].node, req[r].sid)
  BY <1>1, RefuseKeeps DEF Recheck
<1>2. CASE Verified(req[r].node, req[r].sid)
  <2> DEFINE x == [req[r] EXCEPT !.pc = IF req[r].kind = "use" THEN "served" ELSE "revoke"]
  <2>1. req[r] \in Request /\ req[r].pc = "recheck" /\ Fits(r, req[r])
    BY DEF IInv, TypeOK, Request, RequestsFit, Recheck
  <2>2. req' = [req EXCEPT ![r] = x]
    BY <1>2, <2>1 DEF Recheck, IInv, TypeOK, Request
  <2>3. /\ x \in Request /\ x.pc \in {"served", "revoke"} /\ x.sid = req[r].sid
        /\ x.node = req[r].node /\ x.late = req[r].late
    BY <2>1 DEF Request
  <2> HIDE DEF x
  <2>4. ~req[r].late
    <3>1. req[r].sid \in Sid /\ req[r].node \in Node
      BY <2>1 DEF Fits, Request
    <3>2. Clock(req[r].node) \in Nat /\ expires[req[r].sid] \in Nat
      BY <3>1, ClockType DEF IInv, TypeOK
    <3> QED
      BY <1>2, <2>1, <3>2 DEF Fits, Verified
  <2>5. Fits(r, x)
    BY <2>1, <2>3, <2>4 DEF Fits
  <2> QED
    BY <2>2, <2>3, <2>5, RequestOnly DEF Recheck
<1> QED
  BY <1>1, <1>2

-----------------------------------------------------------------------------
(* Logout                                                                  *)

\* Logout commits the revocation before it answers.
LEMMA RevokeKeeps == ASSUME IInv, NEW r \in Req, RevokeSession(r) PROVE IInv'
<1> USE DEF browser, ctl
<1>1. CASE ~Verified(req[r].node, req[r].sid)
  BY <1>1, RefuseKeeps DEF RevokeSession, db
<1>2. CASE Verified(req[r].node, req[r].sid)
  <2> DEFINE x == [req[r] EXCEPT !.pc = "clean"]
  <2>1. req[r] \in Request /\ req[r].pc = "revoke" /\ Fits(r, req[r])
    BY DEF IInv, TypeOK, Request, RequestsFit, RevokeSession
  <2>2. req' = [req EXCEPT ![r] = x]
    BY <1>2, <2>1 DEF RevokeSession, IInv, TypeOK, Request
  <2>3. /\ x \in Request /\ x.pc = "clean" /\ x.sid = req[r].sid
        /\ x.node = req[r].node /\ x.late = req[r].late
    BY <2>1 DEF Request
  <2> HIDE DEF x
  <2>4. req[r].sid \in Sid /\ req[r].node \in Node
    BY <2>1 DEF Fits, Request
  <2>5. revoked' = revoked \cup {req[r].sid} /\ dead' = dead \cup {req[r].sid}
    BY <1>2 DEF RevokeSession
  <2>6. expires[req[r].sid] # 0
    <3>1. Clock(req[r].node) \in Nat /\ expires[req[r].sid] \in Nat
      BY <2>4, ClockType DEF IInv, TypeOK
    <3> QED
      BY <1>2, <3>1 DEF Verified
  <2>7. Onward
    BY <2>4, <2>5 DEF RevokeSession, IInv, TypeOK, Onward
  <2>8. req' \in [Req -> Request] /\ RequestsFit'
    BY <2>1, <2>2, <2>3, <2>4, <2>5, <2>7, RequestMoves DEF Fits, RevokeSession
  <2>9. TypeOK'
    BY <2>4, <2>5, <2>8 DEF RevokeSession, IInv, TypeOK, Request
  <2>10. SweptIsExpired'
    BY <2>5, <2>6 DEF RevokeSession, IInv, SweptIsExpired
  <2> QED
    BY <2>5, <2>8, <2>9, <2>10 DEF RevokeSession, IInv, LeavesASession, JarIsLatest
<1> QED
  BY <1>1, <1>2

\* ternalctl hears of the end of the request it waits for.
LEMMA ReportKeeps ==
    ASSUME IInv, NEW r \in Req, NEW d \in BOOLEAN, Report(r, d),
           d => req[r].pc = "clean"
    PROVE  /\ leave' = leave \/ leave' = Stay
           /\ leave' \in [sid : Sid \cup {NoSid}, req : Req \cup {0}]
           /\ file' \in Sid \cup {NoSid}
           /\ device' = device
           /\ left' \subseteq dead
<1>1. leave.req = r => leave.sid = req[r].sid \/ req[r].pc = "idle"
  BY DEF IInv, RequestsFit, Fits
<1>2. d => req[r].sid \in dead
  BY DEF IInv, RequestsFit, Fits
<1> QED
  BY <1>1, <1>2 DEF Report, IInv, TypeOK, Stay, ctl

\* What the cleanup of any node drops is expired for every node.
LEMMA SweepIsSafe ==
    ASSUME TypeOK, NEW n \in Node, NEW s \in revoked, s \notin Swept(n)
    PROVE  expires[s] <= now
<1>1. expires[s] \in Nat /\ expires[s] <= Cutoff(n)
  <2>1. Cutoff(n) \in Nat /\ expires[s] \in Nat
    BY ClockType, SessionsAssumption DEF Cutoff, TypeOK
  <2> QED
    BY <2>1 DEF Swept
<1> QED
  BY <1>1, ClockType, SessionsAssumption DEF Cutoff

\* The sweep after a logout drops only revocations of sessions that every clock calls expired.
LEMMA CleanKeeps == ASSUME IInv, NEW r \in Req, Clean(r) \/ CleanFails(r) PROVE IInv'
<1> USE DEF browser
<1>1. /\ leave' = leave \/ leave' = Stay
      /\ leave' \in [sid : Sid \cup {NoSid}, req : Req \cup {0}]
      /\ file' \in Sid \cup {NoSid}
      /\ device' = device
      /\ left' \subseteq dead
  BY ReportKeeps DEF Clean, CleanFails
<1>2. UNCHANGED <<present, now, expires, source, dead, jar, tab, latest>>
  BY DEF Clean, CleanFails, db
<1>3. Onward
  BY <1>2 DEF IInv, TypeOK, Onward
<1>4. req' \in [Req -> Request] /\ RequestsFit'
  BY <1>1, <1>3, IdleType, RequestMoves DEF Clean, CleanFails, Refuse
<1>5. req[r].node \in Node
  BY DEF IInv, TypeOK
<1>6. revoked' = revoked \/ revoked' = Swept(req[r].node)
  BY DEF Clean, CleanFails, db
<1>7. revoked' \subseteq revoked /\ \A s \in revoked \ revoked' : expires[s] <= now
  BY <1>5, <1>6, SweepIsSafe DEF IInv, Swept
<1>8. faults' = faults \/ Fault
  BY DEF Clean, CleanFails
<1>9. TypeOK'
  BY <1>1, <1>2, <1>4, <1>7, <1>8, SessionsAssumption DEF IInv, TypeOK, Request, Fault
<1>10. SweptIsExpired'
  BY <1>2, <1>7 DEF IInv, SweptIsExpired
<1>11. LeavesASession' /\ JarIsLatest'
  BY <1>1, <1>2 DEF IInv, LeavesASession, JarIsLatest
<1> QED
  BY <1>1, <1>2, <1>4, <1>9, <1>10, <1>11 DEF IInv

\* ternalctl sends its logout.
LEMMA LeaveKeeps == ASSUME IInv, NEW r \in Req, NEW n \in Node, Leave(r, n) PROVE IInv'
<1> USE DEF db, browser
<1> DEFINE x == IF Verified(n, file)
                THEN [pc |-> "lookup", node |-> n, sid |-> file, kind |-> "logout", late |-> FALSE]
                ELSE Idle
<1>1. file \in Sid
  BY DEF Leave, IInv, TypeOK
<1>2. x \in Request /\ x.late = FALSE /\ x.pc \in {"idle", "lookup"}
  BY <1>1, IdleType DEF Request
<1>3. x.pc # "idle" => x.sid = file
  BY IdleType
<1>4. req' = [req EXCEPT ![r] = x]
  BY DEF Leave
<1> HIDE DEF x
<1>5. leave' = [sid |-> file, req |-> r] /\ leave'.req = r /\ leave'.sid = file
  BY DEF Leave
<1>6. Onward
  BY DEF Leave, IInv, TypeOK, Onward
<1>7. req' \in [Req -> Request] /\ RequestsFit'
  BY <1>1, <1>2, <1>3, <1>4, <1>5, <1>6, RequestMoves
<1>8. TypeOK'
  BY <1>1, <1>5, <1>7 DEF Leave, IInv, TypeOK, Request
<1>9. LeavesASession'
  BY <1>1, <1>5 DEF LeavesASession
<1> QED
  BY <1>7, <1>8, <1>9 DEF Leave, IInv, SweptIsExpired, JarIsLatest

\* A logout that is refused or lost keeps the session file.
LEMMA LeaveEndsKeeps == ASSUME IInv, LeaveRefused \/ LeaveLost PROVE IInv'
<1> USE DEF db, browser
<1>1. leave.req \in Req
  BY DEF LeaveRefused, LeaveLost, IInv, LeavesASession
<1>2. /\ leave' = leave \/ leave' = Stay
      /\ leave' \in [sid : Sid \cup {NoSid}, req : Req \cup {0}]
      /\ file' \in Sid \cup {NoSid}
      /\ device' = device
      /\ left' \subseteq dead
  <2>1. CASE LeaveRefused
    <3>1. Report(leave.req, FALSE)
      BY <2>1 DEF LeaveRefused
    <3> QED
      BY <1>1, <3>1, ReportKeeps
  <2>2. CASE LeaveLost
    BY <2>2 DEF LeaveLost, IInv, TypeOK, Stay
  <2> QED
    BY <2>1, <2>2
<1>3. UNCHANGED <<present, now, db, req, browser>> /\ (faults' = faults \/ Fault)
  BY DEF LeaveRefused, LeaveLost
<1>4. Onward
  BY <1>3 DEF IInv, TypeOK, Onward
<1>5. req' \in [Req -> Request] /\ RequestsFit'
  BY <1>2, <1>3, <1>4, RequestsRest
<1>6. TypeOK'
  BY <1>2, <1>3, <1>5, SessionsAssumption DEF IInv, TypeOK, Request, Fault
<1>7. LeavesASession'
  BY <1>2 DEF IInv, LeavesASession
<1> QED
  BY <1>2, <1>3, <1>5, <1>6, <1>7 DEF IInv, SweptIsExpired, JarIsLatest

-----------------------------------------------------------------------------
(* Issuing                                                                 *)

\* A new session has no revocation yet.
LEMMA IssueKeeps ==
    ASSUME IInv, NEW s \in Sid, NEW n \in Node, NEW l \in Login \cup {NoLogin}, Issue(s, n, l),
           now' = now
    PROVE  /\ Onward /\ SweptIsExpired'
           /\ source' \in [Sid -> Login \cup {NoLogin}]
           /\ \A t \in Sid : expires'[t] = 0 => source'[t] = NoLogin
           /\ UNCHANGED <<revoked, dead>>
<1>1. Clock(n) + TTL \in Nat /\ Clock(n) + TTL # 0
  BY ClockType, SessionsAssumption DEF IInv
<1>2. s \notin dead
  BY DEF Issue, IInv, SweptIsExpired
<1>3. expires' \in [Sid -> Nat] /\ expires'[s] # 0 /\ \A t \in Sid \ {s} : expires'[t] = expires[t]
  BY <1>1 DEF Issue, IInv, TypeOK
<1>4. Onward
  BY <1>2, <1>3 DEF Issue, Onward, IInv, TypeOK
<1>5. SweptIsExpired'
  BY <1>2, <1>3 DEF Issue, IInv, TypeOK, SweptIsExpired
<1> QED
  BY <1>3, <1>4, <1>5 DEF Issue, IInv, TypeOK, JarIsLatest

\* A browser login begins, or the provider authorizes it: no session is touched.
LEMMA BrowserKeeps ==
    ASSUME IInv, NEW l \in Login, NEW n \in Node, BeginLogin(l, n) \/ Authorize(l)
    PROVE  IInv'
<1> USE DEF db, ctl
<1>1. Clock(n) + CodeLife \in Nat
  BY ClockType, SessionsAssumption DEF IInv
<1>2. Onward
  BY DEF BeginLogin, Authorize, IInv, TypeOK, Onward
<1>3. req' \in [Req -> Request] /\ RequestsFit'
  BY <1>2, RequestsRest DEF BeginLogin, Authorize
<1>4. TypeOK'
  <2>1. CASE BeginLogin(l, n)
    BY <1>1, <1>3, <2>1 DEF BeginLogin, IInv, TypeOK, Request
  <2>2. CASE Authorize(l)
    BY <1>3, <2>2 DEF Authorize, IInv, TypeOK, Request
  <2> QED
    BY <2>1, <2>2
<1>5. JarIsLatest'
  BY DEF BeginLogin, Authorize, IInv, JarIsLatest
<1> QED
  BY <1>3, <1>4, <1>5 DEF BeginLogin, Authorize, IInv, SweptIsExpired, LeavesASession

\* A browser login completes, with a new session or with none.
LEMMA CompleteKeeps ==
    ASSUME IInv, NEW l \in Login, NEW n \in Node, CompleteLogin(l, n)
    PROVE  IInv'
<1> USE DEF ctl
<1>1. /\ Onward /\ SweptIsExpired'
      /\ source' \in [Sid -> Login \cup {NoLogin}]
      /\ \A t \in Sid : expires'[t] = 0 => source'[t] = NoLogin
      /\ UNCHANGED <<revoked, dead>>
  <2>1. CASE UNCHANGED db
    BY <2>1 DEF CompleteLogin, db, IInv, TypeOK, Onward, SweptIsExpired, JarIsLatest
  <2>2. CASE \E s \in Sid : Issue(s, n, l)
    BY <2>2, IssueKeeps DEF CompleteLogin
  <2> QED
    BY <2>1, <2>2 DEF CompleteLogin
<1>2. jar' = NoJar /\ tab' \in [Login -> {"none", "begun", "code", "spent"}]
  BY DEF CompleteLogin, IInv, TypeOK
<1>3. req' \in [Req -> Request] /\ RequestsFit'
  BY <1>1, RequestsRest DEF CompleteLogin
<1>4. TypeOK'
  BY <1>1, <1>2, <1>3 DEF CompleteLogin, IInv, TypeOK, Request, Onward, NoJar
<1> QED
  BY <1>1, <1>2, <1>3, <1>4 DEF CompleteLogin, IInv, LeavesASession, JarIsLatest

Device == [pc : {"idle", "poll"}, wake : Nat, deadline : Nat, every : 1 .. MaxInterval]

\* The polling interval stays a number, however often it grows.
LEMMA SleepType ==
    ASSUME TypeOK, NEW e \in 1 .. MaxInterval, Sleep(e)
    PROVE  device' \in Device
<1>1. now + e \in Nat /\ device \in Device
  BY SessionsAssumption DEF TypeOK, Device
<1>2. Resting \in Device
  BY SessionsAssumption DEF Resting, Device
<1>3. [device EXCEPT !.wake = now + e, !.every = e] \in Device
  BY <1>1 DEF Device
<1> QED
  BY <1>2, <1>3 DEF Sleep

\* The polling of ternalctl.
LEMMA DeviceKeeps ==
    ASSUME IInv, StartDevice \/ PollPending \/ PollSlowDown \/ PollDenied
    PROVE  IInv'
<1> USE DEF db, browser
<1>1. /\ UNCHANGED <<present, now, db, req, browser, leave, file, left, faults>>
      /\ device' \in Device
  <2> USE SessionsAssumption DEF IInv
  <2>0. device.every \in 1 .. MaxInterval
    BY DEF TypeOK
  <2>1. CASE StartDevice
    BY <2>1 DEF StartDevice, TypeOK, Device
  <2>2. CASE PollPending
    BY <2>0, <2>2, SleepType DEF PollPending
  <2>3. CASE PollSlowDown
    BY <2>0, <2>3, SleepType DEF PollSlowDown
  <2>4. CASE PollDenied
    BY <2>4 DEF PollDenied, Resting, Device
  <2> QED
    BY <2>1, <2>2, <2>3, <2>4
<1>2. Onward
  BY <1>1 DEF IInv, TypeOK, Onward
<1>3. req' \in [Req -> Request] /\ RequestsFit'
  BY <1>1, <1>2, RequestsRest
<1>4. TypeOK'
  BY <1>1, <1>3 DEF IInv, TypeOK, Request, Device
<1> QED
  BY <1>1, <1>3, <1>4 DEF IInv, SweptIsExpired, LeavesASession, JarIsLatest

\* A poll of the device flow.
LEMMA PollDeviceKeeps == ASSUME IInv, NEW n \in Node, PollDevice(n) PROVE IInv'
<1> USE DEF browser
<1>1. PICK s \in Sid : Issue(s, n, NoLogin) /\ file' = s
  BY DEF PollDevice
<1>2. /\ Onward /\ SweptIsExpired'
      /\ source' \in [Sid -> Login \cup {NoLogin}]
      /\ \A t \in Sid : expires'[t] = 0 => source'[t] = NoLogin
      /\ UNCHANGED <<revoked, dead>>
  BY <1>1, IssueKeeps DEF PollDevice
<1>3. req' \in [Req -> Request] /\ RequestsFit'
  BY <1>2, RequestsRest DEF PollDevice
<1>4. TypeOK'
  BY <1>1, <1>2, <1>3, SessionsAssumption DEF PollDevice, IInv, TypeOK, Request, Onward, Resting
<1> QED
  BY <1>2, <1>3, <1>4 DEF PollDevice, IInv, LeavesASession, JarIsLatest

\* Time passes on all clocks alike.
LEMMA TickKeeps == ASSUME IInv, Tick PROVE IInv'
<1> USE DEF db, browser, ctl
<1>1. now' \in 0 .. MaxTime /\ now' >= now
  BY SessionsAssumption DEF Tick, IInv, TypeOK
<1>2. Onward
  BY <1>1, SessionsAssumption DEF Tick, IInv, TypeOK, Onward
<1>3. req' \in [Req -> Request] /\ RequestsFit'
  BY <1>2, RequestsRest DEF Tick
<1>4. TypeOK'
  BY <1>1, <1>3 DEF Tick, IInv, TypeOK, Request
<1>5. SweptIsExpired'
  BY <1>1 DEF Tick, IInv, TypeOK, SweptIsExpired
<1> QED
  BY <1>3, <1>4, <1>5 DEF Tick, IInv, LeavesASession, JarIsLatest

\* A stuttering step.
LEMMA StutterKeeps == ASSUME IInv, UNCHANGED vars PROVE IInv'
<1> USE DEF vars, db, browser, ctl
<1>1. Onward
  BY DEF IInv, TypeOK, Onward
<1>2. RequestsFit'
  BY <1>1, RequestsRest
<1> QED
  BY <1>2 DEF IInv, TypeOK, SweptIsExpired, LeavesASession, JarIsLatest

-----------------------------------------------------------------------------
(* What the sessions guarantee                                             *)

\* The inductive invariant holds in every reachable state.
LEMMA Invariance == Spec => []IInv
<1>1. Init => IInv
  <2> SUFFICES ASSUME Init PROVE IInv
    OBVIOUS
  <2>1. req \in [Req -> Request] /\ RequestsFit
    BY IdleType DEF Init, RequestsFit, Fits
  <2>2. device \in [pc : {"idle", "poll"}, wake : Nat, deadline : Nat, every : 1 .. MaxInterval]
    BY SessionsAssumption DEF Init, Resting
  <2>3. TypeOK
    BY <2>1, <2>2, SessionsAssumption DEF Init, TypeOK, Request, NoJar, Stay
  <2> QED
    BY <2>1, <2>3 DEF Init, IInv, SweptIsExpired, LeavesASession, JarIsLatest
<1>2. ASSUME IInv, [Next]_vars PROVE IInv'
  <2> USE <1>2
  <2>1. ASSUME NEW r \in Req, Serve(r) PROVE IInv'
    BY <2>1, LookupKeeps, RecheckKeeps, RevokeKeeps, CleanKeeps, RefuseKeeps DEF Serve, Finish
  <2>2. ASSUME NEW r \in Req, LookupFails(r) \/ RevokeFails(r) PROVE IInv'
    BY <2>2, RefuseKeeps DEF LookupFails, RevokeFails
  <2>3. ASSUME NEW r \in Req, NEW n \in Node,
               \/ Leave(r, n)
               \/ \E s \in Sid, k \in {"use", "logout"} : Arrive(r, n, s, k)
        PROVE  IInv'
    BY <2>3, LeaveKeeps, ArriveKeeps
  <2>4. CASE Poll
    BY <2>4, DeviceKeeps, PollDeviceKeeps DEF Poll
  <2>5. ASSUME NEW l \in Login, Authorize(l) PROVE IInv'
    <3>1. PICK n \in Node : TRUE
      BY SessionsAssumption
    <3> QED
      BY <2>5, <3>1, BrowserKeeps
  <2> QED
    BY <2>1, <2>2, <2>3, <2>4, <2>5, CleanKeeps, LeaveEndsKeeps, BrowserKeeps, CompleteKeeps,
       DeviceKeeps, TickKeeps, StutterKeeps DEF Next
<1> QED
  BY <1>1, <1>2, PTL DEF Spec

\* No node serves a session that was revoked before its lookup: what
\* DeleteExpiredSessionRevocations drops, Verified refuses on every clock.
THEOREM RevokedIsNeverServed == Spec => []RevokedNotServed
<1>1. IInv => RevokedNotServed
  BY DEF IInv, RequestsFit, Fits, RevokedNotServed
<1> QED
  BY <1>1, Invariance, PTL

\* ternalctl removes its session file only after the server's commit.
THEOREM LogoutConfirmed == Spec => []LogoutIsConfirmed
<1>1. IInv => LogoutIsConfirmed
  BY DEF IInv, LogoutIsConfirmed
<1> QED
  BY <1>1, Invariance, PTL

\* CompleteLogin issues a session for the login the browser began last, once.
THEOREM OnlyLatestLogin == Spec => LatestLoginWins
<1> DEFINE A == \A s \in Sid : source'[s] # source[s] => source'[s] = latest /\ tab[latest] = "code"
<1>1. ASSUME IInv, [Next]_vars PROVE [A]_vars
  <2> USE <1>1
  <2>1. ASSUME NEW l \in Login, NEW n \in Node, CompleteLogin(l, n) PROVE A
    <3>1. CASE UNCHANGED db
      BY <3>1 DEF db
    <3>2. CASE ~UNCHANGED db
      <4>1. PICK s \in Sid : Issue(s, n, l)
        BY <2>1, <3>2 DEF CompleteLogin
      <4>2. jar.login = l /\ tab[l] = "code"
        BY <2>1, <3>2 DEF CompleteLogin, Accepts
      <4>3. latest = l
        BY <2>1, <4>2 DEF CompleteLogin, IInv, JarIsLatest
      <4> QED
        BY <4>1, <4>2, <4>3 DEF Issue, IInv, TypeOK
    <3> QED
      BY <3>1, <3>2
  <2>2. ASSUME NEW n \in Node, PollDevice(n) PROVE A
    BY <2>2 DEF PollDevice, Issue, IInv, TypeOK, JarIsLatest
  <2>3. ASSUME source' = source PROVE A
    BY <2>3
  <2> QED
    BY <2>1, <2>2, <2>3 DEF Next, Serve, Lookup, Recheck, Finish, RevokeSession, Clean,
       LookupFails, RevokeFails, CleanFails, Leave, Arrive, LeaveRefused, LeaveLost, Authorize,
       BeginLogin, StartDevice, Poll, PollPending, PollSlowDown, PollDenied, Tick, db
<1>2. IInv /\ [Next]_vars => [A]_vars
  BY <1>1
<1> QED
  BY <1>2, Invariance, PTL DEF Spec, LatestLoginWins
=============================================================================
