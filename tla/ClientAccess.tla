----------------------------- MODULE ClientAccess -----------------------------
(***************************************************************************)
(* Getting onto a host: ternalctl (ssh, ssh-config and the ProxyCommand    *)
(* proxy), the API handlers it calls, and what operators, the device and   *)
(* the clock do meanwhile.                                                 *)
(*                                                                         *)
(* Granularity: one step per store call of a handler, so a policy, a host  *)
(* or a device may change between two reads of one request.                *)
(* Simplifications:                                                        *)
(*  - one host, one user, one ternalctl at a time, logged in (Sessions);   *)
(*  - publication and installation are two steps (KeySync has the rest);   *)
(*  - names, ports, fingerprints and routes are well formed; what is only  *)
(*    recorded or printed (audit rows, command text) is left out;          *)
(*  - one tick is 30 seconds and all clocks agree; a time is kept as what  *)
(*    is left of it, and an expired relay grant is forgotten.              *)
(***************************************************************************)
EXTENDS PolicyMatch

CONSTANTS
    Account,    \* login accounts of the host
    AgentUser,  \* the account whose keys the device's agent keeps
    Policy,     \* policy ids
    Rules,      \* contents an operator may give a policy
    HostRows,   \* contents an operator may give the host
    Claims,     \* the user's groups and claims
    Modes,      \* ways the user starts: "ssh", "export", "config", "web"
    Letters, MaxPattern, MaxName,   \* texts the selector matcher is checked on
    Slot,       \* requests the server may have in hand at once
    SSHTTL, RelayTTL,     \* lifetimes of the two grants
    WaitTimeout,          \* keyGrantWaitTimeout
    HttpTimeout,          \* http.Client.Timeout and the limit on endpoint-id
    MaxRuns, MaxAdmin, MaxFaults   \* bounds: invocations, administration, faults

None == "none"

ASSUME AccessAssumption ==
    /\ None \notin Account /\ AgentUser \in Account /\ 0 \notin Slot
    /\ {SSHTTL, RelayTTL, WaitTimeout, HttpTimeout} \subseteq Nat \ {0}
    /\ {MaxRuns, MaxAdmin, MaxFaults} \subseteq Nat
    /\ Modes \subseteq {"ssh", "export", "config", "web"}
    /\ \A row \in HostRows :
           /\ row = [status |-> row.status, user |-> row.user, name |-> row.name, tags |-> row.tags]
           /\ row.status \in {"healthy", "revoked"} /\ row.user \in Account
    /\ \A x \in Rules :
           /\ x = [principal |-> x.principal, selector |-> x.selector, users |-> x.users,
                   expires |-> x.expires]
           /\ x.expires \in Nat \cup {Never}

VARIABLES
    host,      \* the hosts row, or Absent
    device,    \* devices.state, or "absent"
    route,     \* endpoint_discovery has a row
    hasKey,    \* the user has registered an SSH key
    policies,  \* policies by id, or NoRule
    grants,    \* access_grants
    issued,    \* grant ids given out
    relays,    \* what is left of the relay_access_grants for this user's endpoint
    reqs,      \* requests the server works on
    isAdmin,   \* the user's session is an administrator's
    ctl,       \* the running ternalctl
    runs,      \* how often it was started
    cover,     \* history, per request: some policy gave the user the account since it arrived
    admin, faults

store == <<host, device, route, hasKey, policies, grants, issued, relays>>
user  == <<ctl, runs>>
vars  == <<store, reqs, isAdmin, user, cover, admin, faults>>

Absent == [status |-> "absent"]
NoRule == [users |-> {}]
NoReq  == [kind |-> None, at |-> 0]
NoAns  == [is |-> None]
Idle   == [pc |-> "idle"]

\* The store calls of each handler, in order.
Calls ==
    [list   |-> <<"GetHost", "ListPolicies">>,
     get    |-> <<"GetHost", "ListPolicies">>,
     config |-> <<"GetHost", "ListPolicies", "GetDevice", "GetDiscovery">>,
     ssh    |-> <<"GetHost", "ListPolicies", "GetDevice", "GetDiscovery", "ListSSHKeys", "Issue">>,
     relay  |-> <<"GetHost", "GetDevice", "ListPolicies", "Issue">>,
     status |-> <<"GetAccessGrant">>]

AnyRow == {[status |-> st, user |-> row.user, name |-> row.name, tags |-> row.tags] :
              row \in HostRows, st \in {"healthy", "revoked"}} \cup {Absent}

Requests ==
    [kind : DOMAIN Calls, at : 1 .. 6, acct : Account \cup {None}, grant : Nat,
     host : AnyRow]

Grants == [id : Nat, acct : Account, left : 0 .. SSHTTL, key : {"none", "published", "installed"}]

\* The variables have their types, and no request or answer names a grant never issued.
TypeOK ==
    /\ host \in AnyRow
    /\ device \in {"manufactured", "revoked", "absent"}
    /\ {route, hasKey, isAdmin} \subseteq BOOLEAN
    /\ DOMAIN policies = Policy
    /\ \A p \in Policy :
           \/ policies[p] = NoRule
           \/ \E x \in Rules : policies[p] = [principal |-> x.principal, selector |-> x.selector,
                                            users |-> x.users, expires |-> policies[p].expires]
    /\ issued \in Nat /\ grants \subseteq Grants /\ \A g \in grants : g.id \in 1 .. issued
    /\ relays \subseteq Nat \ {0}
    /\ reqs \in [Slot -> Requests \cup {NoReq}]
    /\ \A s \in Slot : reqs[s] # NoReq => reqs[s].grant \in 0 .. issued
    /\ cover \in [Slot -> BOOLEAN]
    /\ runs \in 0 .. MaxRuns /\ admin \in 0 .. MaxAdmin /\ faults \in 0 .. MaxFaults

Init ==
    /\ host \in HostRows /\ host.status = "healthy"
    /\ device = "manufactured" /\ route = TRUE
    /\ hasKey = FALSE
    /\ policies \in [Policy -> Rules \cup {NoRule}]
    /\ grants = {} /\ issued = 0 /\ relays = {}
    /\ reqs = [s \in Slot |-> NoReq]
    /\ isAdmin \in BOOLEAN
    /\ ctl = Idle /\ runs = 0
    /\ cover = [s \in Slot |-> FALSE]
    /\ admin = 0 /\ faults = 0

-----------------------------------------------------------------------------
(* The store                                                               *)

\* The EXISTS clause of both grant statements and the join of GetEndpointDiscovery.
Live == host.status \notin {"absent", "revoked"} /\ device \notin {"absent", "revoked"}

Allows(h, acct) ==
    \E p \in Policy : /\ policies[p] # NoRule
                      /\ PolicyAllowsSSHUser(Claims, h, policies[p], acct, 0)
Shows(h) ==
    \E p \in Policy : policies[p] # NoRule /\ PolicyAllows(Claims, h, policies[p], 0)

\* Some policy gives the user the account on some host.
Covered(table, acct) ==
    \E p \in Policy : /\ table[p] # NoRule
                      /\ policyPrincipalMatches(Claims, table[p].principal)
                      /\ table[p].expires # 0
                      /\ acct \in table[p].users

-----------------------------------------------------------------------------
(* Handlers                                                                *)

\* The answer reaches ternalctl only while it waits for this request.
Waits(s) == ctl # Idle /\ ctl.slot = s /\ ctl.ans = NoAns
Reply(s, a) ==
    /\ reqs' = [reqs EXCEPT ![s] = NoReq]
    /\ ctl' = IF Waits(s) THEN [ctl EXCEPT !.ans = a] ELSE ctl
    /\ UNCHANGED runs

Failed == [is |-> "failed"]
At(s, call) == reqs[s] # NoReq /\ Calls[reqs[s].kind][reqs[s].at] = call

\* On to the next store call, or the answer when this was the last.
Continue(s, r, a) ==
    IF r.at = Len(Calls[r.kind]) THEN Reply(s, a)
    ELSE /\ reqs' = [reqs EXCEPT ![s] = [r EXCEPT !.at = @ + 1]]
         /\ UNCHANGED user

GetHost(s) ==
    /\ At(s, "GetHost")
    /\ IF host = Absent THEN Reply(s, Failed)
       ELSE Continue(s, [reqs[s] EXCEPT !.host = host], Failed)
    /\ UNCHANGED <<store, isAdmin, admin, faults>>

\* Listing asks for the host only, showing it for its default account, the two grants for
\* the account of the request.  A refusal of a grant is recorded before it is answered.
ListPoliciesNever(s) ==   \* mutant: the relay handler does not ask for policies
    LET r == reqs[s]
        ok == CASE r.kind \in {"list", "config"} -> Shows(r.host)
                [] r.kind = "get" -> Allows(r.host, r.host.user)
                [] r.kind = "ssh" -> Allows(r.host, r.acct)
                [] r.kind = "relay" -> TRUE
    IN  /\ At(s, "ListPolicies")
        /\ IF isAdmin \/ ok THEN Continue(s, r, [is |-> "user", user |-> r.host.user])
                            ELSE Reply(s, Failed)
        /\ UNCHANGED <<store, isAdmin, admin, faults>>

ListPolicies(s) ==
    LET r == reqs[s]
        ok == CASE r.kind \in {"list", "config"} -> Shows(r.host)
                [] r.kind = "get" -> Allows(r.host, r.host.user)
                [] r.kind \in {"ssh", "relay"} -> Allows(r.host, r.acct)
    IN  /\ At(s, "ListPolicies")
        /\ IF isAdmin \/ ok THEN Continue(s, r, [is |-> "user", user |-> r.host.user])
                            ELSE Reply(s, Failed)
        /\ UNCHANGED <<store, isAdmin, admin, faults>>

GetDeviceByHostID(s) ==
    /\ At(s, "GetDevice")
    /\ IF device \in {"absent", "revoked"} THEN Reply(s, Failed) ELSE Continue(s, reqs[s], Failed)
    /\ UNCHANGED <<store, isAdmin, admin, faults>>

GetEndpointDiscovery(s) ==
    /\ At(s, "GetDiscovery")
    /\ IF route /\ Live
       THEN Continue(s, reqs[s], [is |-> "user", user |-> reqs[s].host.user])
       ELSE Reply(s, Failed)
    /\ UNCHANGED <<store, isAdmin, admin, faults>>

ListSSHKeys(s) ==
    /\ At(s, "ListSSHKeys")
    /\ IF hasKey THEN Continue(s, reqs[s], Failed) ELSE Reply(s, Failed)
    /\ UNCHANGED <<store, isAdmin, admin, faults>>

IssueUnconditionally(s) ==   \* mutant: the checks made before the write are trusted
    /\ At(s, "Issue") /\ reqs[s].kind = "ssh"
    /\ issued' = issued + 1
    /\ grants' = grants \cup {[id |-> issued', acct |-> reqs[s].acct,
                               left |-> SSHTTL, key |-> "none"]}
    /\ Reply(s, [is |-> "grant", grant |-> issued'])
    /\ UNCHANGED <<host, device, route, hasKey, policies, relays, isAdmin, admin, faults>>

IssueSSHAccess(s) ==
    /\ At(s, "Issue") /\ reqs[s].kind = "ssh"
    /\ IF Live
       THEN /\ issued' = issued + 1
            /\ grants' = grants \cup {[id |-> issued', acct |-> reqs[s].acct,
                                       left |-> SSHTTL, key |-> "none"]}
            /\ Reply(s, [is |-> "grant", grant |-> issued'])
       ELSE Reply(s, Failed) /\ UNCHANGED <<issued, grants>>
    /\ UNCHANGED <<host, device, route, hasKey, policies, relays, isAdmin, admin, faults>>

CreateRelayAccessGrant(s) ==
    /\ At(s, "Issue") /\ reqs[s].kind = "relay"
    /\ IF Live
       THEN relays' = relays \cup {RelayTTL} /\ Reply(s, [is |-> "relay"])
       ELSE Reply(s, Failed) /\ UNCHANGED relays
    /\ UNCHANGED <<host, device, route, hasKey, policies, grants, issued,
                   isAdmin, admin, faults>>

\* The row is found by its id; an expired one still answers.  404 has a body too.
StatusTooEarly(s) ==   \* mutant: a published key counts as installed
    /\ At(s, "GetAccessGrant")
    /\ Reply(s, [is |-> "status", installed |-> \E g \in grants : g.id = reqs[s].grant
                                                               /\ g.key # "none"])
    /\ UNCHANGED <<store, isAdmin, admin, faults>>

GetAccessGrant(s) ==
    /\ At(s, "GetAccessGrant")
    /\ Reply(s, [is |-> "status", installed |-> \E g \in grants : g.id = reqs[s].grant
                                                               /\ g.key = "installed"])
    /\ UNCHANGED <<store, isAdmin, admin, faults>>

Fault == faults < MaxFaults /\ faults' = faults + 1

StoreFails(s) ==
    /\ reqs[s] # NoReq /\ Fault
    /\ Reply(s, Failed)
    /\ UNCHANGED <<store, isAdmin, admin>>

\* A request nobody waits for has a cancelled context and may stop anywhere.
Abandon(s) ==
    /\ reqs[s] # NoReq /\ ~Waits(s)
    /\ reqs' = [reqs EXCEPT ![s] = NoReq]
    /\ UNCHANGED <<store, isAdmin, user, admin, faults>>

-----------------------------------------------------------------------------
(* Operators and the device                                                *)

Admin == admin < MaxAdmin /\ admin' = admin + 1

\* Create, update and delete a policy.
SetPolicy(p, rule) ==
    /\ Admin /\ policies[p] # rule
    /\ policies' = [policies EXCEPT ![p] = rule]
    /\ UNCHANGED <<host, device, route, hasKey, grants, issued, relays, reqs,
                   isAdmin, user, faults>>

UpdateHost(row) ==
    /\ Admin /\ host \notin {Absent, row}
    /\ host' = row
    /\ UNCHANGED <<device, route, hasKey, policies, grants, issued, relays, reqs,
                   isAdmin, user, faults>>

DeleteDevice ==
    /\ Admin /\ device = "manufactured"
    /\ device' = "revoked"
    /\ host' = [host EXCEPT !.status = "revoked"]
    /\ grants' = {[g EXCEPT !.left = 0] : g \in grants}
    /\ relays' = {}
    /\ UNCHANGED <<route, hasKey, policies, issued, reqs, isAdmin, user, faults>>

DeleteHost ==
    /\ Admin /\ host # Absent
    /\ host' = Absent /\ device' = "absent" /\ route' = FALSE
    /\ grants' = {} /\ relays' = {}
    /\ UNCHANGED <<hasKey, policies, issued, reqs, isAdmin, user, faults>>

\* A heartbeat: the host is healthy again and its routes are known.
Heartbeat ==
    /\ device = "manufactured"
    /\ host' = [host EXCEPT !.status = "healthy"] /\ route' = TRUE
    /\ host' # host \/ ~route
    /\ UNCHANGED <<device, hasKey, policies, grants, issued, relays, reqs,
                   isAdmin, user, admin, faults>>

\* The agent fetches the live grants of its one account, installs their keys and says so.
Fetchable(g) == g.acct = AgentUser /\ g.left > 0

PublishAuthorizedKeys ==
    /\ Live
    /\ \E g \in grants : Fetchable(g) /\ g.key = "none"
    /\ grants' = {IF Fetchable(g) /\ g.key = "none" THEN [g EXCEPT !.key = "published"] ELSE g :
                    g \in grants}
    /\ UNCHANGED <<host, device, route, hasKey, policies, issued, relays, reqs,
                   isAdmin, user, admin, faults>>

\* ternalctl submit-key, or the web UI.
CreateSSHKey ==
    /\ ~hasKey /\ hasKey' = TRUE
    /\ UNCHANGED <<host, device, route, policies, grants, issued, relays, reqs,
                   isAdmin, user, admin, faults>>

AcknowledgeAuthorizedKeys ==
    /\ device = "manufactured"
    /\ \E g \in grants : Fetchable(g) /\ g.key = "published"
    /\ grants' = {IF Fetchable(g) /\ g.key = "published" THEN [g EXCEPT !.key = "installed"] ELSE g :
                    g \in grants}
    /\ UNCHANGED <<host, device, route, hasKey, policies, issued, relays, reqs,
                   isAdmin, user, admin, faults>>

-----------------------------------------------------------------------------
(* ternalctl                                                               *)

\* It sends a request and waits; c is what it remembers.
Send(c, pc, kind, acct, grant) ==
    \E s \in Slot :
        /\ reqs[s] = NoReq
        /\ reqs' = [reqs EXCEPT ![s] = [kind |-> kind, at |-> 1, acct |-> acct, grant |-> grant,
                                        host |-> Absent]]
        /\ ctl' = [c EXCEPT !.pc = pc, !.slot = s, !.ans = NoAns, !.due = HttpTimeout]

\* It does something of its own for at most d.
Busy(c, pc, d) ==
    /\ ctl' = [c EXCEPT !.pc = pc, !.slot = 0, !.ans = NoAns, !.due = d]
    /\ UNCHANGED reqs

End == ctl' = Idle /\ UNCHANGED reqs

Fresh(mode) ==
    [pc |-> "idle", leg |-> IF mode = "config" THEN "proxy" ELSE mode, login |-> None,
     acct |-> None, grant |-> 0, slot |-> 0, ans |-> NoAns, due |-> 0, deadline |-> 0]

\* ternalctl ssh, ternalctl ssh-config, ssh with a config exported when the host had that
\* default account, and ssh with the command the web UI shows for an account of choice.
Start(mode) ==
    /\ ctl = Idle /\ runs < MaxRuns
    /\ runs' = runs + 1
    /\ CASE mode = "ssh" -> Send(Fresh(mode), "list", "list", None, 0)
         [] mode = "export" -> Send(Fresh(mode), "export", "config", None, 0)
         [] mode = "config" ->
                \E a \in Account : Send([Fresh(mode) EXCEPT !.login = a], "get", "get", None, 0)
         [] mode = "web" ->
                \E a \in Account : Send([Fresh(mode) EXCEPT !.login = a, !.acct = a],
                                        "ssh", "ssh", a, 0)
    /\ UNCHANGED <<store, isAdmin, admin, faults>>

Got(pc, is) == ctl # Idle /\ ctl.pc = pc /\ ctl.ans.is = is

\* cmdSSH and cmdProxy ask for the default account of the host they were shown.
AskForKey ==
    /\ \E pc \in {"list", "get"} : Got(pc, "user")
    /\ Send([ctl EXCEPT !.acct = ctl.ans.user,
                        !.login = IF @ = None THEN ctl.ans.user ELSE @],
            "ssh", "ssh", ctl.ans.user, 0)
    /\ UNCHANGED <<store, isAdmin, runs, admin, faults>>

Exported ==
    /\ Got("export", "user")
    /\ End
    /\ UNCHANGED <<store, isAdmin, runs, admin, faults>>

\* waitForKeyGrant; the web UI's user runs the command when it likes.
StartWaiting ==
    /\ Got("ssh", "grant")
    /\ IF ctl.leg = "web"
       THEN Send([ctl EXCEPT !.leg = "proxy"], "get", "get", None, 0)
       ELSE Send([ctl EXCEPT !.grant = ctl.ans.grant, !.deadline = WaitTimeout],
                 "wait", "status", None, ctl.ans.grant)
    /\ UNCHANGED <<store, isAdmin, runs, admin, faults>>

\* Installed: cmdSSH runs ssh, whose ProxyCommand starts over; cmdProxy goes on.
Polled ==
    /\ Got("wait", "status")
    /\ IF ctl.ans.installed
       THEN IF ctl.leg = "ssh" THEN Send([ctl EXCEPT !.leg = "proxy"], "get", "get", None, 0)
                               ELSE Busy(ctl, "endpoint", HttpTimeout)
       ELSE IF ctl.deadline > 0 THEN Busy(ctl, "sleep", 1) ELSE End
    /\ UNCHANGED <<store, isAdmin, runs, admin, faults>>

PollAgain ==
    /\ ctl # Idle /\ ctl.pc = "sleep"
    /\ Send(ctl, "wait", "status", None, ctl.grant)
    /\ UNCHANGED <<store, isAdmin, runs, admin, faults>>

EndpointKnown ==
    /\ ctl # Idle /\ ctl.pc = "endpoint"
    /\ Send(ctl, "relay", "relay", ctl.acct, 0)
    /\ UNCHANGED <<store, isAdmin, runs, admin, faults>>

\* pigeons fly: the transport opens and ssh logs in; it lasts as long as it lasts.
Fly ==
    /\ Got("relay", "relay")
    /\ Busy(ctl, "fly", 0)
    /\ UNCHANGED <<store, isAdmin, runs, admin, faults>>

Landed ==
    /\ ctl # Idle /\ ctl.pc = "fly"
    /\ End
    /\ UNCHANGED <<store, isAdmin, runs, admin, faults>>

Refused ==
    /\ ctl # Idle /\ ctl.ans = Failed
    /\ End
    /\ UNCHANGED <<store, isAdmin, runs, admin, faults>>

Pending == ctl # Idle /\ ctl.pc \notin {"fly", "sleep"} /\ ctl.ans = NoAns

\* The request or the helper failed at once, or took too long.
CallFails ==
    /\ Pending /\ ctl.due > 0 /\ Fault
    /\ End
    /\ UNCHANGED <<store, isAdmin, runs, admin>>

NoTimeout ==   \* mutant: the helper that prints the endpoint id has no limit
    /\ Pending /\ ctl.due = 0 /\ ctl.pc # "endpoint"
    /\ End
    /\ UNCHANGED <<store, isAdmin, runs, admin, faults>>

TimesOut ==
    /\ Pending /\ ctl.due = 0
    /\ End
    /\ UNCHANGED <<store, isAdmin, runs, admin, faults>>

Older(n) == IF n > 0 THEN n - 1 ELSE n

Tick ==
    /\ ctl # Idle => ctl.due > 0 \/ ctl.pc = "fly"
    /\ ctl' = IF ctl = Idle THEN Idle
              ELSE [ctl EXCEPT !.due = Older(@), !.deadline = Older(@)]
    /\ grants' = {[g EXCEPT !.left = Older(@)] : g \in grants}
    /\ relays' = {n - 1 : n \in relays} \ {0}
    /\ policies' = [p \in Policy |-> IF policies[p] = NoRule THEN NoRule
                                     ELSE [policies[p] EXCEPT !.expires = Older(@)]]
    /\ UNCHANGED <<host, device, route, hasKey, issued, reqs, isAdmin, runs,
                   admin, faults>>

-----------------------------------------------------------------------------

ServerStep(s) ==
    \/ GetHost(s) \/ ListPolicies(s) \/ GetDeviceByHostID(s) \/ GetEndpointDiscovery(s)
    \/ ListSSHKeys(s) \/ IssueSSHAccess(s) \/ CreateRelayAccessGrant(s) \/ GetAccessGrant(s)

ClientStep ==
    \/ AskForKey \/ Exported \/ StartWaiting \/ Polled \/ PollAgain \/ Fly \/ Landed \/ Refused

Others ==
    \/ \E p \in Policy, rule \in Rules \cup {NoRule} : SetPolicy(p, rule)
    \/ \E row \in HostRows : UpdateHost(row)
    \/ DeleteDevice \/ DeleteHost \/ Heartbeat
    \/ CreateSSHKey \/ PublishAuthorizedKeys \/ AcknowledgeAuthorizedKeys

Remember ==
    cover' = [s \in Slot |->
                /\ reqs'[s] # NoReq /\ reqs'[s].acct # None
                /\ Covered(policies', reqs'[s].acct) \/ (reqs[s] # NoReq /\ cover[s])]

Next ==
    /\ \/ \E s \in Slot : ServerStep(s) \/ StoreFails(s) \/ Abandon(s)
       \/ \E mode \in Modes : Start(mode)
       \/ ClientStep \/ EndpointKnown \/ CallFails \/ TimesOut \/ Tick \/ Others
    /\ Remember

Spec == Init /\ [][Next]_vars

-----------------------------------------------------------------------------
(* Properties                                                              *)

\* Once a device is revoked or its host deleted, the server holds no grant of either kind
\* that is still worth something, although a request checked the device before and wrote
\* after (handleIssueSSHCommand, handleIssueRelayGrant).
NothingOnADeadDevice ==
    /\ TypeOK
    /\ device # "manufactured" => relays = {} /\ \A g \in grants : g.left = 0

\* "Policy deletion: no new grants": a request that arrives when no policy gives the user
\* the account, and sees none appear, issues nothing.
DeletionRefuses ==
    [][\A s \in Slot :
        (IssueSSHAccess(s) \/ CreateRelayAccessGrant(s)) /\ (issued' # issued \/ relays' # relays)
            => isAdmin \/ cover[s]]_vars

\* The transport opens only with a key the device has installed for the account both grants
\* name, and that grant has outlived every wait before it, unless the device was revoked or
\* deleted since (waitForKeyGrant, persistentEndpointID, cmdProxy).
FliesWithAKey ==
    [][Fly => \/ device # "manufactured"
              \/ \E g \in grants : /\ g.id = ctl.grant /\ g.acct = ctl.acct
                                   /\ g.key = "installed" /\ g.left > 0
                                   /\ relays # {}]_vars

\* What the user starts ends, although the server or the helper may hang and the device may
\* never install the key: every wait of ternalctl has a limit.
RunEnds == (ctl # Idle) ~> (ctl = Idle)

\* The policies a request is decided by mean what they say: wildcardMatches, which eats the
\* name greedily part by part, agrees with the meaning of a wildcard on every pattern and
\* name up to the given lengths, in the states a decision may start from.
MatcherIsGlob == runs = 0 /\ admin = 0 => GlobAgrees(Letters, MaxPattern, MaxName)

\* ternalctl goes on when it is answered, and its timers fire.  The server and the helper
\* owe it nothing: either may hang.
FairSpec ==
    /\ Spec
    /\ WF_vars(ClientStep /\ Remember) /\ WF_vars(TimesOut /\ Remember) /\ WF_vars(Tick /\ Remember)
=============================================================================
