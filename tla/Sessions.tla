------------------------------- MODULE Sessions -------------------------------
(***************************************************************************)
(* Signed sessions: how a browser login and the device flow of ternalctl   *)
(* issue one, how the middleware accepts one, and how logout revokes one   *)
(* for every API node.  A session lives in its cookie; the database keeps  *)
(* only revocations, and drops them some time after the session's expiry,  *)
(* while the nodes' clocks differ.                                         *)
(*                                                                         *)
(* Granularity: each check of the middleware, each statement and each      *)
(* answer of a peer is one step; handlers run on any node.                 *)
(* Simplifications:                                                        *)
(*  - a cookie, its signature and its hash are the session id; whoever has *)
(*    had a cookie may send it at any time, with its CSRF token;           *)
(*  - the provider is external: it hands out codes, answers polls and      *)
(*    honours a code once, for the login whose challenge it carries;       *)
(*  - one API origin; the session file is what this origin's file holds;   *)
(*  - the cleanup's limit of 100 rows is not reached.                      *)
(***************************************************************************)
EXTENDS Naturals

CONSTANTS
    Node, Ahead,      \* API processes, and how far each one's clock is ahead
    MaxSids,          \* bound on sessions
    Clients,          \* who signs in: sets of "browser" and "ctl"
    Login, NoLogin,   \* browser logins, one per visit of /auth/login
    Req,              \* requests in hand at once
    TTL,              \* lifetime of a session
    Retention,        \* sessionRevocationRetention
    CodeLife,         \* lifetime of a login's state cookie and of a device code
    MaxInterval,      \* longest polling interval of ternalctl
    MaxTime, MaxFaults

ASSUME SessionsAssumption ==
    /\ Node # {} /\ NoLogin \notin Login /\ 0 \notin Req
    /\ MaxSids \in Nat /\ Clients \subseteq SUBSET {"browser", "ctl"}
    /\ TTL \in Nat \ {0} /\ CodeLife \in Nat \ {0} /\ MaxInterval \in Nat \ {0}
    /\ MaxTime \in Nat /\ MaxFaults \in Nat
    \* The retention exists to cover the difference between the nodes' clocks.
    /\ Retention \in Nat /\ Ahead \in [Node -> 0 .. Retention]

Sid   == 1 .. MaxSids   \* sessions, in the order they are issued
NoSid == 0

VARIABLES
    present,   \* who signs in; never changes
    now,       \* true time
    expires,   \* ExpiresAt of each session, 0 before it is issued
    source,    \* history: the browser login a session came from
    revoked,   \* revoked_sessions; a row carries its session's expiry
    dead,      \* history: sessions whose revocation was committed
    req,       \* requests in the handlers
    jar,       \* the browser's OIDC state cookie: login and expiry
    tab,       \* how far each browser login is at the provider
    latest,    \* history: the login the browser began last
    device,    \* ternalctl login
    leave,     \* ternalctl logout: session and request it waits for
    file,      \* the session file
    left,      \* history: sessions whose logout was reported as done
    faults

db      == <<expires, source, revoked, dead>>
browser == <<jar, tab, latest>>
ctl     == <<device, leave, file, left>>
vars    == <<present, now, db, req, browser, ctl, faults>>

Clock(n) == now + Ahead[n]

Idle   == [pc |-> "idle", node |-> CHOOSE n \in Node : TRUE, sid |-> NoSid, kind |-> "use",
           late |-> FALSE]
Resting == [pc |-> "idle", wake |-> 0, deadline |-> 0, every |-> 1]
Stay   == [sid |-> NoSid, req |-> 0]
NoJar  == [login |-> NoLogin, exp |-> 0]

TypeOK ==
    /\ present \in Clients
    /\ now \in 0 .. MaxTime
    /\ expires \in [Sid -> Nat] /\ source \in [Sid -> Login \cup {NoLogin}]
    /\ revoked \subseteq dead /\ dead \subseteq Sid /\ left \subseteq Sid
    /\ req \in [Req -> [pc : {"idle", "lookup", "recheck", "served", "revoke", "clean"},
                        node : Node, sid : Sid \cup {NoSid}, kind : {"use", "logout"},
                        late : BOOLEAN]]
    /\ jar \in [login : Login \cup {NoLogin}, exp : Nat]
    /\ tab \in [Login -> {"none", "begun", "code", "spent"}] /\ latest \in Login \cup {NoLogin}
    /\ device \in [pc : {"idle", "poll"}, wake : Nat, deadline : Nat, every : 1 .. MaxInterval]
    /\ leave \in [sid : Sid \cup {NoSid}, req : Req \cup {0}]
    /\ file \in Sid \cup {NoSid}
    /\ faults \in 0 .. MaxFaults

Init ==
    /\ present \in Clients
    /\ now = 0
    /\ expires = [s \in Sid |-> 0] /\ source = [s \in Sid |-> NoLogin]
    /\ revoked = {} /\ dead = {}
    /\ req = [r \in Req |-> Idle]
    /\ jar = NoJar /\ tab = [l \in Login |-> "none"] /\ latest = NoLogin
    /\ device = Resting /\ leave = Stay /\ file = NoSid /\ left = {}
    /\ faults = 0

Fault == faults < MaxFaults /\ faults' = faults + 1

-----------------------------------------------------------------------------
(* The middleware                                                          *)

\* verifySessionAt: signed by us, and not expired on this node's clock.
Verified(n, s) == expires[s] > Clock(n)

Arrive(r, n, s, kind) ==
    /\ req[r].pc = "idle" /\ leave.req # r /\ Verified(n, s)
    /\ req' = [req EXCEPT ![r] = [pc |-> "lookup", node |-> n, sid |-> s, kind |-> kind,
                                  late |-> FALSE]]
    /\ UNCHANGED <<present, now, db, browser, ctl, faults>>

\* SessionRevoked counts rows that are not expired on this node's clock.
Blocked(r) == req[r].sid \in revoked /\ expires[req[r].sid] > Clock(req[r].node)

\* A blocked or expired session is no session: RequireAuth answers 401.
Refuse(r) == req' = [req EXCEPT ![r] = Idle]

Lookup(r) ==
    /\ req[r].pc = "lookup"
    /\ IF Blocked(r) THEN Refuse(r)
                     ELSE req' = [req EXCEPT ![r].pc = "recheck", ![r].late = req[r].sid \in dead]
    /\ UNCHANGED <<present, now, db, browser, ctl, faults>>

\* 503: the lookup failed or took more than its five seconds.
LookupFails(r) ==
    /\ req[r].pc = "lookup" /\ Fault
    /\ Refuse(r)
    /\ UNCHANGED <<present, now, db, browser, ctl>>

RecheckSkipped(r) ==   \* mutant: the expiry is not checked again after the lookup
    /\ req[r].pc = "recheck"
    /\ req' = [req EXCEPT ![r].pc = IF req[r].kind = "use" THEN "served" ELSE "revoke"]
    /\ UNCHANGED <<present, now, db, browser, ctl, faults>>

Recheck(r) ==
    /\ req[r].pc = "recheck"
    /\ IF Verified(req[r].node, req[r].sid)
       THEN req' = [req EXCEPT ![r].pc = IF req[r].kind = "use" THEN "served" ELSE "revoke"]
       ELSE Refuse(r)
    /\ UNCHANGED <<present, now, db, browser, ctl, faults>>

Finish(r) ==
    /\ req[r].pc = "served"
    /\ Refuse(r)
    /\ UNCHANGED <<present, now, db, browser, ctl, faults>>

-----------------------------------------------------------------------------
(* Logout                                                                  *)

\* handleLogout verifies again, and RevokeSession refuses an expired session.
RevokeSession(r) ==
    /\ req[r].pc = "revoke"
    /\ IF Verified(req[r].node, req[r].sid)
       THEN /\ revoked' = revoked \cup {req[r].sid} /\ dead' = dead \cup {req[r].sid}
            /\ req' = [req EXCEPT ![r].pc = "clean"]
       ELSE Refuse(r) /\ UNCHANGED <<revoked, dead>>
    /\ UNCHANGED <<present, now, expires, source, browser, ctl, faults>>

RevokeFails(r) ==
    /\ req[r].pc = "revoke" /\ Fault
    /\ Refuse(r)
    /\ UNCHANGED <<present, now, db, browser, ctl>>

\* sessionRevocationCleanupCutoff; no session expires before time 1.
Cutoff(n) == IF Clock(n) > Retention THEN Clock(n) - Retention ELSE 0

Swept(n) == {s \in revoked : expires[s] > Cutoff(n)}

ReportBeforeCommit(r, done) ==   \* mutant: any answer counts as done
    IF leave.req = r
    THEN leave' = Stay /\ left' = left \cup {leave.sid} /\ file' = NoSid /\ UNCHANGED device
    ELSE UNCHANGED ctl

\* ternalctl removes the file when it is told that the session is revoked.
Report(r, done) ==
    IF leave.req = r
    THEN /\ leave' = Stay
         /\ IF done THEN left' = left \cup {leave.sid} /\ file' = NoSid
                    ELSE UNCHANGED <<left, file>>
         /\ UNCHANGED device
    ELSE UNCHANGED ctl

\* The cleanup is best effort and a statement of its own; then 200.
Clean(r) ==
    /\ req[r].pc = "clean"
    /\ revoked' = Swept(req[r].node)
    /\ Refuse(r) /\ Report(r, TRUE)
    /\ UNCHANGED <<present, now, expires, source, dead, browser, faults>>

CleanFails(r) ==
    /\ req[r].pc = "clean" /\ Fault
    /\ Refuse(r) /\ Report(r, TRUE)
    /\ UNCHANGED <<present, now, db, browser>>

\* loadSessionForLogout takes the file even when the session looks expired.
Leave(r, n) ==
    /\ leave = Stay /\ file # NoSid /\ req[r].pc = "idle"
    /\ leave' = [sid |-> file, req |-> r]
    /\ req' = [req EXCEPT ![r] = IF Verified(n, file)
                                 THEN [pc |-> "lookup", node |-> n, sid |-> file,
                                       kind |-> "logout", late |-> FALSE]
                                 ELSE Idle]
    /\ UNCHANGED <<present, now, db, browser, device, file, left, faults>>

\* 401 or 503, or the answer is lost: the file stays.
LeaveRefused ==
    /\ leave # Stay /\ req[leave.req].pc = "idle"
    /\ Report(leave.req, FALSE)
    /\ UNCHANGED <<present, now, db, req, browser, faults>>

LeaveLost ==
    /\ leave # Stay /\ req[leave.req].pc # "idle" /\ Fault
    /\ leave' = Stay
    /\ UNCHANGED <<present, now, db, req, browser, device, file, left>>

-----------------------------------------------------------------------------
(* Issuing: browser login                                                  *)

Issue(s, n, l) ==
    /\ expires[s] = 0 /\ \A t \in 1 .. (s - 1) : expires[t] # 0
    /\ expires' = [expires EXCEPT ![s] = Clock(n) + TTL]
    /\ source' = [source EXCEPT ![s] = l]
    /\ UNCHANGED <<revoked, dead>>

BeginLogin(l, n) ==
    /\ "browser" \in present /\ tab[l] = "none"
    /\ tab' = [tab EXCEPT ![l] = "begun"] /\ latest' = l
    /\ jar' = [login |-> l, exp |-> Clock(n) + CodeLife]
    /\ UNCHANGED <<present, now, db, req, ctl, faults>>

\* External: the user signs in and the provider redirects back with a code.
Authorize(l) ==
    /\ tab[l] = "begun"
    /\ tab' = [tab EXCEPT ![l] = "code"]
    /\ UNCHANGED <<present, now, db, req, jar, latest, ctl, faults>>

\* mutant: the state of any login of this server is accepted
AcceptsAnyState(l, n) == jar.exp > Clock(n)

\* CompleteLogin: the cookie is ours, unexpired and of the same login; its
\* verifier and nonce are then the ones the code was made for.
Accepts(l, n) == jar.login = l /\ jar.exp > Clock(n)

\* The callback of any tab, possibly again; the state cookie goes in any case.
CompleteLogin(l, n) ==
    /\ tab[l] \in {"code", "spent"} /\ jar # NoJar
    /\ jar' = NoJar
    /\ IF Accepts(l, n) /\ tab[l] = "code"
       THEN /\ tab' = [tab EXCEPT ![l] = "spent"]
            /\ \E s \in Sid : Issue(s, n, l)
       ELSE UNCHANGED <<tab, db>>
    /\ UNCHANGED <<present, now, req, latest, ctl, faults>>

-----------------------------------------------------------------------------
(* Issuing: the device flow of ternalctl                                   *)

StartDevice ==
    /\ "ctl" \in present /\ device.pc = "idle" /\ now + CodeLife <= MaxTime
    /\ device' = [pc |-> "poll", wake |-> now + 1, deadline |-> now + CodeLife, every |-> 1]
    /\ UNCHANGED <<present, now, db, req, browser, leave, file, left, faults>>

\* Sleep once more, unless that would end after the deadline.
SleepForever(every) ==   \* mutant: the deadline is not looked at
    device' = [device EXCEPT !.wake = now + every, !.every = every]

Sleep(every) ==
    device' = IF now + every > device.deadline THEN Resting
              ELSE [device EXCEPT !.wake = now + every, !.every = every]

Polls == device.pc = "poll" /\ now >= device.wake

PollPending ==
    /\ Polls
    /\ Sleep(device.every)
    /\ UNCHANGED <<present, now, db, req, browser, leave, file, left, faults>>

PollSlowDown ==
    /\ Polls
    /\ Sleep(IF device.every < MaxInterval THEN device.every + 1 ELSE device.every)
    /\ UNCHANGED <<present, now, db, req, browser, leave, file, left, faults>>

\* access_denied, expired_token or an error ends the command.
PollDenied ==
    /\ Polls
    /\ device' = Resting
    /\ UNCHANGED <<present, now, db, req, browser, leave, file, left, faults>>

\* The user has approved: the session is saved over the one in the file.
PollDevice(n) ==
    /\ Polls
    /\ \E s \in Sid : Issue(s, n, NoLogin) /\ file' = s
    /\ device' = Resting
    /\ UNCHANGED <<present, now, req, browser, leave, left, faults>>

Tick ==
    /\ now < MaxTime
    /\ now' = now + 1
    /\ UNCHANGED <<present, db, req, browser, ctl, faults>>

-----------------------------------------------------------------------------
Serve(r) == Lookup(r) \/ Recheck(r) \/ Finish(r) \/ RevokeSession(r) \/ Clean(r)

Poll == PollPending \/ PollSlowDown \/ PollDenied \/ \E n \in Node : PollDevice(n)

Next ==
    \/ \E r \in Req : \/ Serve(r) \/ LookupFails(r) \/ RevokeFails(r) \/ CleanFails(r)
                      \/ \E n \in Node : \/ Leave(r, n)
                                         \/ \E s \in Sid, k \in {"use", "logout"} : Arrive(r, n, s, k)
    \/ LeaveRefused \/ LeaveLost
    \/ \E l \in Login : Authorize(l) \/ \E n \in Node : BeginLogin(l, n) \/ CompleteLogin(l, n)
    \/ StartDevice \/ Poll \/ Tick

Spec == Init /\ [][Next]_vars

\* Handlers run, time passes and a command that sleeps wakes up.
FairSpec == Spec /\ WF_vars(Tick) /\ WF_vars(Poll) /\ \A r \in Req : WF_vars(Serve(r))

-----------------------------------------------------------------------------
(* Properties                                                              *)

\* A request is served only if its session had not been revoked, through any
\* node, when its revocation was looked up: neither a slow clock, nor a row
\* dropped by a fast node, nor a lookup that takes long lets it through.
RevokedNotServed == \A r \in Req : req[r].pc = "served" => ~req[r].late

\* ternalctl says "Logged out" only of a session that the server has revoked; after
\* a lost answer or a refusal it does not, and keeps its file.
LogoutIsConfirmed == TypeOK /\ left \subseteq dead

\* Only the login the browser began last can end in a session: the callback of
\* an older tab, or one that comes again, issues nothing.
LatestLoginWins ==
    [][\A s \in Sid : source'[s] # source[s] => source'[s] = latest /\ tab[latest] = "code"]_vars

\* ternalctl login does not poll for ever.
LoginEnds == [](device.pc = "poll" => <>(device.pc = "idle"))
=============================================================================
