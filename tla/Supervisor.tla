------------------------------ MODULE Supervisor ------------------------------
(***************************************************************************)
(* ternal-agent run: the supervisor that keeps one pigeons child alive,    *)
(* sends heartbeats, synchronizes keys and stops when the server answers   *)
(* 401, composed with the server's side of it (RelayAdmission).            *)
(*                                                                         *)
(* Granularity: a request, an answer, a timer, a signal, the child's exit  *)
(* and each branch of the select is one step.  The key synchronization is  *)
(* one step with its possible answers; KeySync has its detail.             *)
(* Simplifications: status writes succeed (their errors are ignored), and  *)
(* the supervisor itself is not killed.                                    *)
(***************************************************************************)
EXTENDS RelayAdmission

CONSTANTS
    MaxBoots,    \* bound on starts of the agent
    MaxDeaths    \* bound on spontaneous deaths of the child

ASSUME SupervisorAssumption == MaxBoots \in Nat /\ MaxDeaths \in Nat

VARIABLES
    pc,       \* where supervise is
    kids,     \* pigeons processes alive
    exit,     \* the exit channel holds the result of Wait
    sig,      \* SIGINT or SIGTERM was received: ctx is done
    file,     \* the status file
    why,      \* what stopChild was called for
    beat,     \* the heartbeat's result, while keys are synchronized
    first,    \* this is the synchronization right after the child's start
    boots, deaths

server == <<clocks, tables, cut, admin, faults>>
local  == <<pc, kids, exit, sig, file, why, beat, first, boots, deaths>>
vars   == <<server, net, local>>

Says(service, child) == file' = [service |-> service, child |-> child]

TypeOK ==
    /\ RelayTypeOK
    /\ pc \in {"down", "hello", "spawn", "beat", "heard", "keys", "select",
               "stop", "backoff"}
    /\ kids \in 0 .. 1 /\ exit \in BOOLEAN /\ sig \in BOOLEAN /\ first \in BOOLEAN
    /\ file \in [service : {"none", "starting", "healthy", "degraded", "stopped", "revoked"},
                 child : {"none", "running", "exited", "stopped"}]
    /\ why \in {"stopped", "revoked"} /\ beat \in Answer
    /\ boots \in 0 .. MaxBoots /\ deaths \in 0 .. MaxDeaths

Init ==
    /\ RelayInit
    /\ pc = "down" /\ kids = 0 /\ exit = FALSE /\ sig = FALSE
    /\ file = [service |-> "none", child |-> "none"]
    /\ why = "stopped" /\ beat = "none" /\ first = FALSE
    /\ boots = 0 /\ deaths = 0

-----------------------------------------------------------------------------
(* Requests                                                                *)

\* One heartbeat, signed with the device's time.
Send(status) ==
    \E s \in Slot :
        /\ reqs[s].pc = "idle"
        /\ reqs' = [reqs EXCEPT ![s] = [Idle EXCEPT !.pc = "verify", !.ts = now + drift,
                                                     !.sent = now, !.status = status]]
        /\ wait' = s /\ ans' = "none"

\* The agent hangs up; the request may go on, but its age matters no more.
HangUp ==
    /\ wait # 0
    /\ wait' = 0 /\ ans' = "failed"
    /\ reqs' = [reqs EXCEPT ![wait].sent = 0]

\* The client's 15 seconds are over, or the connection failed.
Timeout ==
    /\ HangUp /\ Fault
    /\ UNCHANGED <<clocks, tables, cut, admin, local>>

\* A signal cancels the request in flight.
Cancelled ==
    /\ HangUp /\ sig
    /\ UNCHANGED <<server, local>>

-----------------------------------------------------------------------------
(* supervise                                                               *)

\* The roost identity is read, or run returns; a signal of an earlier run is gone.
Boot ==
    /\ pc = "down" /\ boots < MaxBoots
    /\ boots' = boots + 1 /\ sig' = FALSE
    /\ Send("starting")
    /\ pc' = "hello"
    /\ UNCHANGED <<server, kids, exit, file, why, beat, first, deaths>>

Answered == wait = 0 /\ ans # "none"

Greeted ==
    /\ pc = "hello" /\ Answered
    /\ IF ans = "unauthorized" THEN pc' = "down" /\ Says("revoked", "stopped")
                               ELSE pc' = "spawn" /\ UNCHANGED file
    /\ ans' = "none"
    /\ UNCHANGED <<server, reqs, wait, kids, exit, sig, why, beat, first, boots, deaths>>

Spawn ==
    /\ pc = "spawn"
    /\ kids' = kids + 1 /\ exit' = FALSE /\ first' = TRUE
    /\ Says("starting", "running")
    /\ pc' = "beat"
    /\ UNCHANGED <<server, net, sig, why, beat, boots, deaths>>

\* child.Start fails: supervise returns and leaves the status as it is.
SpawnFails ==
    /\ pc = "spawn" /\ Fault
    /\ pc' = "down"
    /\ UNCHANGED <<clocks, tables, cut, admin, net, kids, exit, sig, file, why, beat, first,
                   boots, deaths>>

Heartbeat ==
    /\ pc = "beat"
    /\ Send("healthy")
    /\ pc' = "heard"
    /\ UNCHANGED <<server, kids, exit, sig, file, why, beat, first, boots, deaths>>

\* The key synchronization follows whatever the heartbeat said.
Heard ==
    /\ pc = "heard" /\ Answered
    /\ beat' = ans /\ ans' = "none"
    /\ pc' = "keys"
    /\ UNCHANGED <<server, reqs, wait, kids, exit, sig, file, why, first, boots, deaths>>

\* What the key synchronization, which the device signs too, may say now: with a
\* clock near the edge of the window that depends on how long the calls take.  A
\* cancelled one fails.
KeyAnswers ==
    LET known == \E h \in Host : Usable(h) IN
    IF sig THEN {"failed"}
    ELSE (IF known /\ Fresh(now + drift) THEN {"ok"} ELSE {})
         \cup (IF known /\ Accurate(drift) THEN {} ELSE {"unauthorized"})

\* syncControlPlane: a 401 of either call wins, then the heartbeat's error.
Outcome(a) == IF a = "unauthorized" \/ beat = "ok" THEN a ELSE beat

JudgeOnlyFirst(o) ==   \* mutant: a 401 after the ticker is one more failed synchronization
    IF o = "unauthorized" /\ first THEN pc' = "stop" /\ why' = "revoked" /\ UNCHANGED file
    ELSE /\ pc' = "select" /\ UNCHANGED why
         /\ IF first THEN UNCHANGED file
                     ELSE Says(IF o = "ok" THEN "healthy" ELSE "degraded", "running")

\* isUnauthorized: stop the child; otherwise report, except after the child's start.
Judge(o) ==
    IF o = "unauthorized" THEN pc' = "stop" /\ why' = "revoked" /\ UNCHANGED file
    ELSE /\ pc' = "select" /\ UNCHANGED why
         /\ IF first THEN UNCHANGED file
                     ELSE Says(IF o = "ok" THEN "healthy" ELSE "degraded", "running")

SyncKeys ==
    /\ pc = "keys"
    /\ \E a \in KeyAnswers : Judge(Outcome(a))
    /\ beat' = "none" /\ first' = FALSE
    /\ UNCHANGED <<server, net, kids, exit, sig, boots, deaths>>

SyncKeysFails ==
    /\ pc = "keys" /\ Fault
    /\ Judge(Outcome("failed"))
    /\ beat' = "none" /\ first' = FALSE
    /\ UNCHANGED <<clocks, tables, cut, admin, net, kids, exit, sig, boots, deaths>>

(* The select of the inner loop; any branch that is ready may be taken.    *)

Done ==
    /\ pc = "select" /\ sig
    /\ pc' = "stop" /\ why' = "stopped"
    /\ UNCHANGED <<server, net, kids, exit, sig, file, beat, first, boots, deaths>>

ChildExited ==
    /\ pc = "select" /\ exit
    /\ exit' = FALSE /\ Says("degraded", "exited")
    /\ pc' = "backoff"
    /\ UNCHANGED <<server, net, kids, sig, why, beat, first, boots, deaths>>

Ticker ==
    /\ pc = "select"
    /\ pc' = "beat"
    /\ UNCHANGED <<server, net, kids, exit, sig, file, why, beat, first, boots, deaths>>

Backoff ==
    /\ pc = "backoff"
    /\ pc' = IF sig THEN "down" ELSE "spawn"
    /\ UNCHANGED <<server, net, kids, exit, sig, file, why, beat, first, boots, deaths>>

(* stopChild: interrupt, wait for the exit, kill after the grace period.    *)

Reap ==
    /\ pc = "stop" /\ exit
    /\ exit' = FALSE /\ Says(why, "stopped")
    /\ pc' = "down" /\ why' = "stopped"
    /\ UNCHANGED <<server, net, kids, sig, beat, first, boots, deaths>>

Kill ==
    /\ pc = "stop" /\ ~exit /\ kids > 0
    /\ kids' = kids - 1 /\ exit' = TRUE
    /\ UNCHANGED <<server, net, pc, sig, file, why, beat, first, boots, deaths>>

(* The environment                                                         *)

\* The child obeys the interrupt, or dies by itself.
ChildDies ==
    /\ kids > 0 /\ ~exit
    /\ IF pc = "stop" THEN UNCHANGED deaths ELSE deaths < MaxDeaths /\ deaths' = deaths + 1
    /\ kids' = kids - 1 /\ exit' = TRUE
    /\ UNCHANGED <<server, net, pc, sig, file, why, beat, first, boots>>

Signal ==
    /\ pc # "down" /\ ~sig
    /\ sig' = TRUE
    /\ UNCHANGED <<server, net, pc, kids, exit, file, why, beat, first, boots, deaths>>

\* The agent waits for an answer for a call's time at most; the server may be slower.
Tick ==
    /\ now < MaxTime /\ (wait # 0 => now < reqs[wait].sent + CallTime)
    /\ now' = now + 1
    /\ UNCHANGED <<drift, strayed, tables, cut, admin, faults, net, local>>

\* The device's clock jumps, wrong or right again.
ClockSet(d) ==
    /\ d # drift /\ Fault
    /\ drift' = d /\ strayed' = (strayed \/ ~Accurate(d))
    /\ UNCHANGED <<now, tables, cut, admin, net, local>>

-----------------------------------------------------------------------------
Agent == \/ Timeout \/ Cancelled \/ Boot \/ Greeted \/ Spawn \/ SpawnFails \/ Heartbeat \/ Heard
         \/ SyncKeys \/ SyncKeysFails \/ Done \/ ChildExited \/ Ticker \/ Backoff \/ Reap \/ Kill

Handle(s) == VerifyDevice(s) \/ TouchDevice(s) \/ RenewRelayAccessGrant(s)

Server ==
    \/ \E s \in Slot : Handle(s) \/ StoreFails(s) \/ Abandon(s)
    \/ \E h \in Host : \/ DeleteDevice(h) \/ DeleteHost(h)
                       \/ \E status \in Edits : UpdateHost(h, status)
    \/ EnrollDevice

Next == Agent \/ (Server /\ UNCHANGED local) \/ ChildDies \/ Signal \/ Tick
        \/ \E d \in Drift : ClockSet(d)

Spec == Init /\ [][Next]_vars

\* What the supervisor does by itself: a step for each place it can be at.
Onward == \/ Greeted \/ Spawn \/ Heartbeat \/ Heard \/ SyncKeys \/ Ticker \/ Backoff \/ Reap \/ Kill

\* Timers fire, answers are processed, the server works on what it has.  Nobody
\* owes an operator's action, a fault, a signal, a death or a restart.  A select
\* chooses uniformly among the ready branches, so the ticker does not win for ever.
FairSpec ==
    /\ Spec
    /\ WF_vars(Onward) /\ SF_vars(Done \/ ChildExited)
    /\ WF_vars((\E s \in Slot : Handle(s)) /\ UNCHANGED local)

-----------------------------------------------------------------------------
(* Properties                                                              *)

\* A relay admission exists only for a device that is neither revoked nor
\* deleted, whatever heartbeat was between TouchDevice and its renewal when
\* DeleteDevice ran, and whatever an operator wrote into the host since.
RevokedNotAdmitted == \A g \in relay : Usable(g.host)

\* A heartbeat never brings the host of a revoked device back: only an
\* operator's edit changes its status again.
RevocationSticks ==
    [][\A h \in Host : devices[h] = "revoked" /\ hosts'[h] # hosts[h] => admin' = admin + 1]_vars

\* The agent reports "revoked", and stays down, only when an operator revoked
\* or deleted its device or its clock was too far off, which the server answers
\* with 401 too: a store that is unavailable, a lost or slow answer or a cancelled
\* request is not a revocation.
RevokedIsReal == file.service = "revoked" => cut \/ strayed

\* When supervise has returned, no pigeons child is left and the status file
\* does not claim one; and there is never more than one child.
NoOrphan == kids <= 1 /\ (pc = "down" => kids = 0 /\ file.child # "running")

\* What the supervisor has started and what it reports are true in every state.
ReportsTruly == TypeOK /\ RevokedIsReal /\ NoOrphan

\* A device that is cut off for good stops serving: its child is gone for good,
\* although the agent may be restarted and any answer may be lost.
RevokedChildStops == <>[](\A h \in Host : ~Usable(h)) => <>[](kids = 0)

\* A supervisor that keeps running with a usable device is admitted by the
\* relay again and again, after lost answers, late heartbeats and operators' edits.
KeepsAdmission == <>[](pc # "down" /\ \E h \in Host : Usable(h))
                     => []<>RelayEndpointAllowed

\* The child and the admission follow the device: gone with it, kept with it.
FollowsTheDevice == RevokedChildStops /\ KeepsAdmission
=============================================================================
