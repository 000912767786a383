-------------------------------- MODULE KeySync --------------------------------
(***************************************************************************)
(* Authorized-keys synchronization for one device and one SSH account:     *)
(* API nodes publish numbered snapshots of the keys with a live grant, the *)
(* agent installs them in the account's authorized_keys file and           *)
(* acknowledges, which marks the snapshot's grants as installed.           *)
(*                                                                         *)
(* Granularity: each database statement or transaction is one step; so is  *)
(* each file the agent replaces.  A body is the set of its lines, and its  *)
(* digest is the body itself (SHA-256 is taken as injective).              *)
(* Simplifications:                                                        *)
(*  - every user registers at most one public key;                         *)
(*  - all clocks agree;                                                    *)
(*  - a node handles one snapshot request at a time: Store.mu serializes   *)
(*    the rest of the handler anyway;                                      *)
(*  - host.status and device.state move together: DeleteDevice revokes     *)
(*    both, DeleteHost removes both.                                       *)
(***************************************************************************)
EXTENDS Naturals, FiniteSets

CONSTANTS
    Node,           \* API processes; each has its own Store.mu
    User, Grant, NoUser, NoNode,
    Legacy,         \* users with a pre-hardening line, without expiry-time
    TTL,            \* lifetime of an SSH grant
    MaxTime,        \* bound on the clock
    MaxLosses,      \* bound on abandoned requests and agent crashes
    MaxKeyChanges,  \* bound on key deletions and registrations
    Revocable,      \* TRUE: the device may be revoked
    MaxReenroll     \* bound on host deletions followed by a new enrollment

ASSUME KeySyncAssumption ==
    /\ NoUser \notin User /\ NoNode \notin Node
    /\ Legacy \subseteq User
    /\ TTL \in Nat \ {0} /\ MaxTime \in Nat
    /\ MaxLosses \in Nat /\ MaxKeyChanges \in Nat /\ MaxReenroll \in Nat
    /\ Revocable \in BOOLEAN

VARIABLES
    now,        \* the clock
    keys,       \* users with a row in ssh_keys
    asking,     \* access requests that passed the handler's checks
    grants,     \* the table access_grants
    bind,       \* the host and its device: active, revoked or absent
    life,       \* how often the device was enrolled again: the current host id
    row,        \* authorized_keys_snapshots and its grants, per host id
    srv,        \* each node's snapshot handler
    agent,      \* the agent's synchronization
    acks,       \* acknowledgements the API is handling
    file,       \* authorized_keys, and (history) the snapshot it came from
    state,      \* the agent's state file
    served,     \* history: snapshots the handlers answered with
    revokedAt,  \* history: when the device was revoked
    losses, keyChanges

device  == <<agent, file, state>>
control == <<now, keys, asking, grants, bind, life, revokedAt, keyChanges>>
vars    == <<control, row, srv, acks, device, served, losses>>

Forever == MaxTime + TTL + 1     \* a line without expiry-time
Life    == 0 .. MaxReenroll
Line    == [user : User, exp : 0 .. (MaxTime + TTL)]
NoGrant == [user |-> NoUser, host |-> 0, exp |-> 0, installed |-> FALSE]
NoRow   == [gen |-> 0, body |-> {}, grants |-> {}]
Idle    == [pc |-> "idle", host |-> 0, body |-> {}, grants |-> {}]
Resting == [pc |-> "idle", from |-> NoNode, host |-> 0, gen |-> 0, body |-> {}]
Request == [user : User, host : Life, exp : 0 .. (MaxTime + TTL)]
Ack     == [pc : {"sent", "verified"}, host : Life, gen : Nat, body : SUBSET Line]

TypeOK ==
    /\ now \in 0 .. MaxTime
    /\ keys \subseteq User /\ asking \subseteq Request
    /\ grants \in [Grant -> [user : User \cup {NoUser}, host : Life,
                             exp : 0 .. (MaxTime + TTL), installed : BOOLEAN]]
    /\ bind \in {"active", "revoked", "absent"} /\ life \in Life
    /\ row \in [Life -> [gen : Nat, body : SUBSET Line, grants : SUBSET Grant]]
    /\ srv \in [Node -> [pc : {"idle", "asked", "verified", "entries", "grants", "published"},
                         host : Life, body : SUBSET Line, grants : SUBSET Grant]]
    /\ agent \in [pc : {"idle", "purged", "fetch", "keys", "state", "ack", "acking"},
                  from : Node \cup {NoNode}, host : Life, gen : Nat, body : SUBSET Line]
    /\ acks \subseteq Ack
    /\ file \in [host : Life, gen : Nat,
                body : SUBSET (Line \cup [user : Legacy, exp : {Forever}])]
    /\ state \in [gen : Nat, body : SUBSET Line]
    /\ served \subseteq [host : Life, gen : Nat, body : SUBSET Line]
    /\ revokedAt \in 0 .. MaxTime /\ losses \in Nat /\ keyChanges \in Nat

-----------------------------------------------------------------------------
(* Queries                                                                 *)

\* The grants of host h that are live, behind a host and device not revoked.
LiveGrants(h) ==
    {g \in Grant : /\ bind = "active" /\ h = life
                   /\ grants[g].user # NoUser /\ grants[g].host = h
                   /\ grants[g].exp > now}


\* One line per key of a user with a live grant, with the latest expiry.
Entries(h) ==
    {e \in Line : /\ e.user \in keys
                  /\ \E g \in LiveGrants(h) : grants[g].user = e.user /\ grants[g].exp = e.exp
                  /\ \A g \in LiveGrants(h) : grants[g].user = e.user => grants[g].exp <= e.exp}

\* Mutant: the snapshot is read and published in separate critical sections.
MuUnheld(m) == srv[m].pc \notin {"published"}

\* Store.mu of a node is held from the first query of a publication to its last.
MuFree(m) == srv[m].pc \notin {"entries", "grants", "published"}
SomeMuFree == \E m \in Node : MuFree(m)

-----------------------------------------------------------------------------
(* Access and administration, through any node whose Store.mu is free      *)

Tick ==
    /\ now < MaxTime
    /\ now' = now + 1
    /\ UNCHANGED <<keys, asking, grants, bind, life, row, srv, acks, device, served,
                   revokedAt, losses, keyChanges>>

\* handleIssueSSHCommand up to IssueSSHAccess: the host, the device, the
\* policies and the user's keys are read one by one, and the expiry is fixed.
RequestAccess(u) ==
    /\ u \in keys /\ \A a \in asking : a.user # u
    /\ bind = "active" /\ SomeMuFree
    /\ asking' = asking \cup {[user |-> u, host |-> life, exp |-> now + TTL]}
    /\ UNCHANGED <<now, keys, grants, bind, life, row, srv, acks, device, served,
                   revokedAt, losses, keyChanges>>

Granted(a, g) == [grants EXCEPT ![g] = [user |-> a.user, host |-> a.host, exp |-> a.exp,
                                        installed |-> FALSE]]

\* Mutant: the insert trusts the checks the handler made before.
IssueUnchecked(a) ==
    /\ a \in asking /\ SomeMuFree
    /\ asking' = asking \ {a}
    /\ \E g \in Grant : grants[g].user = NoUser /\ grants' = Granted(a, g)
    /\ UNCHANGED <<now, keys, bind, life, row, srv, acks, device, served,
                   revokedAt, losses, keyChanges>>

\* IssueSSHAccess: the insert itself asks again for a host and device that are
\* not revoked; otherwise the request ends with an error.
IssueAccess(a) ==
    /\ a \in asking /\ SomeMuFree
    /\ asking' = asking \ {a}
    /\ \/ /\ bind = "active" /\ life = a.host
          /\ \E g \in Grant : grants[g].user = NoUser /\ grants' = Granted(a, g)
       \/ /\ bind # "active" \/ life # a.host
          /\ UNCHANGED grants
    /\ UNCHANGED <<now, keys, bind, life, row, srv, acks, device, served,
                   revokedAt, losses, keyChanges>>

\* CreateSSHKey and DeleteSSHKeyForUser.
ChangeKey(u) ==
    /\ keyChanges < MaxKeyChanges
    /\ keyChanges' = keyChanges + 1
    /\ SomeMuFree
    /\ keys' = IF u \in keys THEN keys \ {u} ELSE keys \cup {u}
    /\ UNCHANGED <<now, asking, grants, bind, life, row, srv, acks, device, served,
                   revokedAt, losses>>

\* DeleteDevice: revokes device and host and expires the host's grants.
DeleteDevice ==
    /\ Revocable
    /\ bind = "active" /\ SomeMuFree
    /\ bind' = "revoked"
    /\ revokedAt' = now
    /\ grants' = [g \in Grant |->
                     IF grants[g].host = life /\ grants[g].exp > now
                     THEN [grants[g] EXCEPT !.exp = now] ELSE grants[g]]
    /\ UNCHANGED <<now, keys, asking, life, row, srv, acks, device, served,
                   losses, keyChanges>>

\* DeleteHost: the binding goes with its grants and its snapshots.
DeleteHost ==
    /\ life < MaxReenroll /\ bind # "absent" /\ SomeMuFree
    /\ bind' = "absent"
    /\ row' = [row EXCEPT ![life] = NoRow]
    /\ grants' = [g \in Grant |-> IF grants[g].host = life THEN NoGrant ELSE grants[g]]
    /\ UNCHANGED <<now, keys, asking, life, srv, acks, device, served,
                   revokedAt, losses, keyChanges>>

\* The agent's enroll command; the server gives the device a new host.
Enroll ==
    /\ bind = "absent" /\ life < MaxReenroll /\ SomeMuFree
    /\ bind' = "active"
    /\ life' = life + 1
    /\ UNCHANGED <<now, keys, asking, grants, row, srv, acks, device, served,
                   revokedAt, losses, keyChanges>>

-----------------------------------------------------------------------------
(* The agent: syncAuthorizedKeys, under its file lock                      *)

AgentGoto(p) == agent' = [agent EXCEPT !.pc = p]
AgentEnds    == agent' = Resting


\* purgeLegacyAuthorizedKeys, before anything that can fail.
PurgeLegacy ==
    /\ agent.pc = "idle"
    /\ file' = [file EXCEPT !.body = {e \in @ : e.exp # Forever}]
    /\ AgentGoto("purged")
    /\ UNCHANGED <<control, row, srv, acks, state, served, losses>>

SendGet(m) ==
    /\ agent.pc = "purged"
    /\ srv[m].pc = "idle"
    /\ srv' = [srv EXCEPT ![m] = [Idle EXCEPT !.pc = "asked"]]
    /\ agent' = [agent EXCEPT !.pc = "fetch", !.from = m]
    /\ UNCHANGED <<control, row, acks, file, state, served, losses>>

\* The request or its answer is late: the agent gives up, the handler goes on.
AgentTimeout ==
    /\ agent.pc \in {"fetch", "acking"}
    /\ losses < MaxLosses
    /\ losses' = losses + 1
    /\ AgentEnds
    /\ UNCHANGED <<control, row, srv, acks, file, state, served>>

\* The agent dies anywhere in a cycle; its files stay and its lock is released.
AgentCrash ==
    /\ agent.pc \in {"purged", "keys", "state", "ack"}
    /\ losses < MaxLosses
    /\ losses' = losses + 1
    /\ AgentEnds
    /\ UNCHANGED <<control, row, srv, acks, file, state, served>>

\* Rollback and equivocation are judged against the state file.
Acceptable(gen, body) == ~(gen < state.gen \/ (gen = state.gen /\ body # state.body))

\* The authorized_keys file is replaced first, the state file second.
\* Mutant: the other way round.
WriteStateFirst ==
    /\ agent.pc = "keys"
    /\ state' = [gen |-> agent.gen, body |-> agent.body]
    /\ AgentGoto("state")
    /\ UNCHANGED <<control, row, srv, acks, file, served, losses>>

WriteKeys ==
    /\ agent.pc = "keys"
    /\ file' = [host |-> agent.host, gen |-> agent.gen, body |-> agent.body]
    /\ AgentGoto("state")
    /\ UNCHANGED <<control, row, srv, acks, state, served, losses>>

WriteState ==
    /\ agent.pc = "state"
    /\ state' = [gen |-> agent.gen, body |-> agent.body]
    /\ AgentGoto("ack")
    /\ UNCHANGED <<control, row, srv, acks, file, served, losses>>

-----------------------------------------------------------------------------
(* The node: handleAgentAuthorizedKeys                                     *)

\* The handler's answer reaches the agent if it still waits for this node.
Answered(m, gen, body) ==
    IF agent.pc = "fetch" /\ agent.from = m
    THEN IF gen > 0 /\ Acceptable(gen, body)
         THEN agent' = [agent EXCEPT !.pc = "keys", !.host = srv[m].host, !.gen = gen, !.body = body]
         ELSE AgentEnds
    ELSE UNCHANGED agent

\* verifyDevice: a device that is revoked or unknown gets 401.
VerifyDevice(m) ==
    /\ srv[m].pc = "asked"
    /\ \/ /\ bind = "active"
          /\ srv' = [srv EXCEPT ![m].pc = "verified", ![m].host = life]
          /\ UNCHANGED agent
       \/ /\ bind # "active"
          /\ srv' = [srv EXCEPT ![m] = Idle]
          /\ Answered(m, 0, {})
    /\ UNCHANGED <<control, row, acks, file, state, served, losses>>

\* PublishAuthorizedKeysSnapshot takes Store.mu and runs two queries.
ReadEntries(m) ==
    /\ srv[m].pc = "verified"
    /\ srv' = [srv EXCEPT ![m].pc = "entries", ![m].body = Entries(srv[m].host)]
    /\ UNCHANGED <<control, row, acks, device, served, losses>>

ReadGrants(m) ==
    /\ srv[m].pc = "entries"
    /\ srv' = [srv EXCEPT ![m].pc = "grants", ![m].grants = LiveGrants(srv[m].host)]
    /\ UNCHANGED <<control, row, acks, device, served, losses>>

\* Mutant: a snapshot without grants starts the count again.
PublicationRestarts(old, body, gs) ==
    [gen |-> IF gs = {} THEN 1
             ELSE IF old.gen # 0 /\ old.body = body /\ old.grants = gs THEN old.gen ELSE old.gen + 1,
     body |-> body, grants |-> gs]

\* Mutant: a published snapshot is never replaced.
PublicationKept(old, body, gs) ==
    IF old.gen # 0 THEN old ELSE [gen |-> 1, body |-> body, grants |-> gs]

\* publishAuthorizedKeysGeneration: a new digest or a new set of grants takes
\* the next generation.
Publication(old, body, gs) ==
    [gen |-> IF old.gen # 0 /\ old.body = body /\ old.grants = gs THEN old.gen ELSE old.gen + 1,
     body |-> body, grants |-> gs]

Publish(m) ==
    /\ srv[m].pc = "grants"
    /\ row' = [row EXCEPT ![srv[m].host] = Publication(@, srv[m].body, srv[m].grants)]
    /\ srv' = [srv EXCEPT ![m].pc = "published"]
    /\ UNCHANGED <<control, acks, device, served, losses>>

\* Mutant: the generation is read back whatever digest it now stands for.
AnyGeneration(m) == row[srv[m].host].gen

\* The generation is read back by digest; another node may have replaced it.
GenerationOf(m) == IF row[srv[m].host].body = srv[m].body THEN row[srv[m].host].gen ELSE 0

Answer(m) ==
    /\ srv[m].pc = "published"
    /\ LET gen == GenerationOf(m) IN
       /\ Answered(m, gen, srv[m].body)
       /\ served' = IF gen = 0 THEN served
                    ELSE served \cup {[host |-> srv[m].host, gen |-> gen, body |-> srv[m].body]}
    /\ srv' = [srv EXCEPT ![m] = Idle]
    /\ UNCHANGED <<control, row, acks, file, state, losses>>

SendAck ==
    /\ agent.pc = "ack"
    /\ acks' = acks \cup {[pc |-> "sent", host |-> 0, gen |-> agent.gen, body |-> agent.body]}
    /\ AgentGoto("acking")
    /\ UNCHANGED <<control, row, srv, file, state, served, losses>>

AckAnswered(a) ==
    IF agent.pc = "acking" /\ agent.gen = a.gen /\ agent.body = a.body
    THEN AgentEnds ELSE UNCHANGED agent

\* handleAgentAuthorizedKeysAck verifies the device and learns its host; ...
AckVerify(a) ==
    /\ a \in acks /\ a.pc = "sent" /\ SomeMuFree
    /\ \/ /\ bind = "active"
          /\ acks' = (acks \ {a}) \cup {[a EXCEPT !.pc = "verified", !.host = life]}
          /\ UNCHANGED agent
       \/ /\ bind # "active"
          /\ acks' = acks \ {a}
          /\ AckAnswered(a)
    /\ UNCHANGED <<control, row, srv, file, state, served, losses>>

\* Mutant: any acknowledgement marks the current snapshot's grants.
AcknowledgedAny(a) ==
    {g \in row[a.host].grants : grants[g].exp > now /\ grants[g].user \in keys}

\* ... AcknowledgeAuthorizedKeys marks the live grants of the current snapshot,
\* provided that is the acknowledged one and the grant's user has a key.
Acknowledged(a) ==
    {g \in row[a.host].grants : /\ row[a.host].gen = a.gen /\ row[a.host].body = a.body
                                /\ grants[g].host = a.host /\ grants[g].exp > now
                                /\ grants[g].user \in keys}

AckApply(a) ==
    /\ a \in acks /\ a.pc = "verified" /\ SomeMuFree
    /\ grants' = [g \in Grant |-> [grants[g] EXCEPT !.installed = @ \/ g \in Acknowledged(a)]]
    /\ acks' = acks \ {a}
    /\ AckAnswered(a)
    /\ UNCHANGED <<now, keys, asking, bind, life, row, srv, file, state, served, revokedAt,
                   losses, keyChanges>>

-----------------------------------------------------------------------------

Init ==
    /\ now = 0 /\ keys = User /\ asking = {}
    /\ grants = [g \in Grant |-> NoGrant]
    /\ bind = "active" /\ life = 0
    /\ row = [h \in Life |-> NoRow]
    /\ srv = [m \in Node |-> Idle]
    /\ agent = Resting
    /\ acks = {}
    /\ file = [host |-> 0, gen |-> 0, body |-> [user : Legacy, exp : {Forever}]]
    /\ state = [gen |-> 0, body |-> {}]
    /\ served = {} /\ revokedAt = 0 /\ losses = 0 /\ keyChanges = 0

Handle(m) ==
    VerifyDevice(m) \/ ReadEntries(m) \/ ReadGrants(m) \/ Publish(m) \/ Answer(m)

Sync ==
    \/ PurgeLegacy \/ (\E m \in Node : SendGet(m)) \/ WriteKeys \/ WriteState
    \/ SendAck \/ \E a \in acks : AckVerify(a) \/ AckApply(a)

Administer ==
    \/ Tick \/ DeleteDevice \/ DeleteHost \/ Enroll
    \/ \E u \in User : RequestAccess(u) \/ ChangeKey(u)
    \/ \E a \in asking : IssueAccess(a)

Next == Administer \/ Sync \/ AgentTimeout \/ AgentCrash \/ \E m \in Node : Handle(m)

Spec == Init /\ [][Next]_vars

\* The supervisor synchronizes on every heartbeat and the API answers; nothing
\* obliges users or administrators to act or time to pass.
FairSpec == Spec /\ WF_vars(Sync) /\ \A m \in Node : WF_vars(Handle(m))

-----------------------------------------------------------------------------
(* Properties                                                              *)

\* What a publication binds to the current host's generation is what is live
\* at that moment: no grant, key or revocation slips in between the queries of
\* PublishAuthorizedKeysSnapshot and its transaction.
PublicationIsCurrent ==
    [][ row'[life] # row[life] /\ row'[life].gen # 0 =>
            /\ {e \in row'[life].body : e.exp > now} = Entries(life)
            /\ {g \in row'[life].grants : grants[g].exp > now} = LiveGrants(life) ]_vars

\* A grant is marked installed (what ternalctl waits for before it connects)
\* only when the device's file holds a line for the grant's user that lasts at
\* least as long as the grant.  Two cases the code does not cover are left out: a
\* grant without a line in the acknowledged snapshot, whose user registered a key
\* after it was published, and a device enrolled a second time, whose new host
\* could repeat the generation and body of a late acknowledgement.
InstalledIsTrue ==
    [][ \A g \in Grant :
            /\ life = 0 /\ grants'[g].installed /\ ~grants[g].installed
            /\ \E e \in row[life].body : e.user = grants[g].user
            => \E e \in file.body : e.user = grants[g].user /\ e.exp >= grants[g].exp ]_vars

\* A generation names one body: no two answers for a host carry the same
\* generation with different lines, however many nodes publish, so the agent
\* never meets an equivocation.
GenerationNamesOneBody ==
    \A a, b \in served : a.host = b.host /\ a.gen = b.gen => a.body = b.body

\* Crash consistency of the agent's two files: the keys on disk are never older
\* than what the state file claims, and those of the claimed generation are
\* the claimed ones.
FileNotOlderThanState ==
    /\ state.gen <= file.gen
    /\ state.gen = file.gen /\ state.gen # 0 => state.body = file.body

\* The agent's files and the server's rows hold what their types and each other promise.
FilesHold == TypeOK /\ FileNotOlderThanState

\* While their host exists, installed keys never roll back to an earlier
\* snapshot of it, also across agent crashes between the two files.
KeysNeverRollBack ==
    [][ bind # "absent" /\ life = file.host /\ file'.host = file.host
            => file'.gen >= file.gen ]_vars

\* Revocation leaves no live grant of the host behind, even for a request whose
\* checks passed before DeleteDevice.
RevokedMeansExpired ==
    bind = "revoked" => \A g \in Grant : grants[g].host = life => grants[g].exp <= now

\* Once a cycle of the agent has begun after the revocation or before it, no
\* line on the device outlives the revocation by more than a grant's lifetime,
\* even if a node published what it had read before and the agent installed it.
RevocationBound ==
    bind = "revoked" /\ agent.pc # "idle" =>
        \A e \in file.body : e.exp <= revokedAt + TTL

\* A revocation takes effect on the server at once and on the device within a
\* grant's lifetime.
RevocationHolds == RevokedMeansExpired /\ RevocationBound

\* Whatever requests are lost and whenever the agent crashes, the device keeps
\* coming back to holding exactly the lines that are live.
InSync    == bind = "active" => {e \in file.body : e.exp > now} = Entries(life)
Converges == []<>InSync
=============================================================================
