------------------------------- MODULE MCControl -------------------------------
(***************************************************************************)
(* What the operator controls the core with and checks it by: the kill        *)
(* switch, the audit log, the schedules, and the app's session with its       *)
(* approvals. They share no state; a behaviour is about one of them, `part`,  *)
(* and the others stay as they are. The session is looked at twice: polls     *)
(* that overlap over several restarts ("link"), and prompts that overlap over *)
(* one restart, with one poll at a time ("consent"). So are the schedules: over a *)
(* crash, failed saves and the switch ("schedule"), and over a longer time      *)
(* and cadences that overflow ("cadence").                                      *)
(***************************************************************************)
EXTENDS KillSwitch, AuditLog, AppSession, Scheduler

VARIABLE part

McInit ==
    /\ Init /\ AuditInit /\ SessionInit /\ SchedInit
    /\ part \in {"switch", "audit", "schedule", "cadence", "link", "consent"}

\* Bounds: a link has no actions to approve, a consent has two cores and one poll; once a
\* store has lost a save with its core, time, schedules and switch stay as the boot left
\* them; schedules are added before the clock moves, and the
\* switch changes while the heartbeat sleeps; the two looks at them as above.
LinkOnly    == pends' = 0 /\ Len(prompts') = 0 /\ going' < 2
ConsentOnly == spawned' <= 2 /\ \A q, r \in Polls : poll'[q] # NoPoll /\ poll'[r] # NoPoll => q = r
EarlyAdds   == clock > 0 => issued' = issued
SchedOnly   ==
    /\ EarlyAdds
    /\ unsaved /\ coreUp => UNCHANGED <<clock, live, engaged>>
    /\ engaged' # engaged => hb = Asleep /\ writing = NotWriting
    /\ clock' <= MaxClock - 2 /\ \A i \in Ids : Fits(cadence'[i])
CadenceOnly == EarlyAdds /\ crashes' = 0 /\ ~engaged' /\ ~saveFailed' /\ live \subseteq live'

McNext ==
    /\ part' = part
    /\ \/ part = "switch" /\ Next /\ UNCHANGED <<auditVars, sessionVars, schedVars>>
       \/ part = "audit" /\ AuditNext /\ UNCHANGED <<vars, sessionVars, schedVars>>
       \/ part = "schedule" /\ SchedNext /\ SchedOnly /\ UNCHANGED <<vars, auditVars, sessionVars>>
       \/ part = "cadence" /\ SchedNext /\ CadenceOnly /\ UNCHANGED <<vars, auditVars, sessionVars>>
       \/ part = "link" /\ SessionNext /\ LinkOnly /\ UNCHANGED <<vars, auditVars, schedVars>>
       \/ part = "consent" /\ SessionNext /\ ConsentOnly /\ UNCHANGED <<vars, auditVars, schedVars>>

\* The fairness of AppSession and of Scheduler.
McFairness ==
    /\ \A q \in Polls : WF_sessionVars(part = "link" /\ PollStart(q)) /\ WF_sessionVars(part = "link" /\ PollStep(q))
    /\ \A c \in 1..MaxCores :
          WF_sessionVars(part = "link" /\ Binds(c)) /\ WF_sessionVars(part = "link" /\ c < spawned /\ Dies(c))
    /\ WF_schedVars(part \in {"schedule", "cadence"} /\ Heartbeat)
    /\ WF_schedVars(part \in {"schedule", "cadence"} /\ Saving)

McSpec == McInit /\ [][McNext]_<<part, vars, auditVars, sessionVars, schedVars>> /\ McFairness

\* The app ends up connected to the newest core (`Reconnects`).
AppReconnects == part = "link" => Reconnects
===============================================================================
