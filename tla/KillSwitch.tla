----------------------------- MODULE KillSwitch -----------------------------
(***************************************************************************)
(* The three-tier kill switch of the core (ginexus-security/killswitch.rs) *)
(* with the handlers that drive it (ginexus-server/main.rs).               *)
(*                                                                         *)
(* The switch lives twice: in memory, behind a Mutex, and in a state file  *)
(* that `new` rehydrates.  `persist` is std::fs::write, which truncates    *)
(* the file and then writes it, so the process may stop between the two.   *)
(* I/O errors are ignored by the code.                                     *)
(*                                                                         *)
(* A connection is a task of the server.  It asks for an engage, a reset,  *)
(* or the start of some work that the switch guards.                       *)
(***************************************************************************)
EXTENDS Integers

CONSTANT Conns      \* connection tasks

None == 0
Soft == 1
Hard == 2
Nuclear == 3
Tiers == {Soft, Hard, Nuclear}

\* What the state file may hold: no file, an empty file, or a tier's name.
Absent == -2
Empty == -1

VARIABLES
    up,         \* the process is running
    mem,        \* KillSwitch.engaged and .tier: None when disengaged
    file,       \* run/killswitch.state
    op,         \* the file operation of the holder of the Mutex, or Free
    resets,     \* connections whose reset token is verified, not yet applied
    running,    \* connections whose guarded work was admitted
    acked,      \* history: highest tier acknowledged since the last reset
    faulted     \* history: the last persist failed or was cut short

vars == <<up, mem, file, op, resets, running, acked, faulted>>

Op == [at : {"free", "truncate", "write", "remove"}, tier : Tiers \cup {None}]
Free == [at |-> "free", tier |-> None]

TypeOK ==
    /\ up \in BOOLEAN
    /\ mem \in Tiers \cup {None}
    /\ file \in Tiers \cup {Absent, Empty}
    /\ op \in Op
    /\ resets \in SUBSET Conns
    /\ running \in SUBSET Conns
    /\ acked \in Tiers \cup {None}
    /\ faulted \in BOOLEAN

Init ==
    /\ up = TRUE
    /\ mem = None
    /\ file = Absent
    /\ op = Free
    /\ resets = {}
    /\ running = {}
    /\ acked = None
    /\ faulted = FALSE

Unlocked == up /\ op.at = "free"
Idle(c) == c \notin resets \cup running

-----------------------------------------------------------------------------
\* A missing file, or one whose text is not a tier, leaves the switch off.
RehydratedNoNuclear == IF file \in {Soft, Hard} THEN file ELSE None
Rehydrated == IF file \in Tiers THEN file ELSE None

BootWithoutRehydrate ==
    /\ ~up
    /\ up' = TRUE
    /\ mem' = None
    /\ UNCHANGED <<file, op, resets, running, acked, faulted>>

Boot ==
    /\ ~up
    /\ up' = TRUE
    /\ mem' = Rehydrated
    /\ UNCHANGED <<file, op, resets, running, acked, faulted>>

\* The app terminates the core at any instant (SpineController.shutdown).
Crash ==
    /\ up
    /\ up' = FALSE
    /\ mem' = None
    /\ op' = Free
    /\ resets' = {}
    /\ running' = {}
    /\ faulted' = (faulted \/ op.at = "write")
    /\ UNCHANGED <<file, acked>>

\* engage at a lower tier than the active one: answered with the active tier.
EngageRefused(t) ==
    /\ Unlocked
    /\ t < mem
    /\ acked' = mem
    /\ UNCHANGED <<up, mem, file, op, resets, running, faulted>>

\* engage at the active tier or above: memory first, then persist.
EngageAnyTier(t) ==
    /\ Unlocked
    /\ mem' = t
    /\ op' = [at |-> "truncate", tier |-> t]
    /\ UNCHANGED <<up, file, resets, running, acked, faulted>>

Engage(t) ==
    /\ Unlocked
    /\ t >= mem
    /\ mem' = t
    /\ op' = [at |-> "truncate", tier |-> t]
    /\ UNCHANGED <<up, file, resets, running, acked, faulted>>

\* std::fs::write opens with O_TRUNC; an error ends the call, unreported.
PersistTruncate ==
    /\ op.at = "truncate"
    /\ \/ /\ file' = Empty
          /\ op' = [op EXCEPT !.at = "write"]
          /\ UNCHANGED <<acked, faulted>>
       \/ /\ op' = Free
          /\ acked' = op.tier
          /\ faulted' = TRUE
          /\ UNCHANGED file
    /\ UNCHANGED <<up, mem, resets, running>>

PersistWrite ==
    /\ op.at = "write"
    /\ \/ file' = op.tier /\ faulted' = FALSE
       \/ UNCHANGED file /\ faulted' = TRUE
    /\ op' = Free
    /\ acked' = op.tier
    /\ UNCHANGED <<up, mem, resets, running>>

\* The reset handler verifies the approval token before it takes the Mutex.
ResetVerified(c) ==
    /\ up
    /\ Idle(c)
    /\ resets' = resets \cup {c}
    /\ UNCHANGED <<up, mem, file, op, running, acked, faulted>>

Reset(c) ==
    /\ Unlocked
    /\ c \in resets
    /\ resets' = resets \ {c}
    /\ mem' = None
    /\ acked' = None
    /\ op' = [at |-> "remove", tier |-> None]
    /\ UNCHANGED <<up, file, running, faulted>>

\* clear_persisted; an error of remove_file is ignored.
ClearNothing ==
    /\ op.at = "remove"
    /\ op' = Free
    /\ faulted' = FALSE
    /\ UNCHANGED <<up, mem, file, resets, running, acked>>

ClearPersisted ==
    /\ op.at = "remove"
    /\ \/ file' = Absent /\ faulted' = FALSE
       \/ UNCHANGED file /\ faulted' = TRUE
    /\ op' = Free
    /\ UNCHANGED <<up, mem, resets, running, acked>>

\* guard() at the head of the chat, agent and stream handlers.
Admit(c) ==
    /\ Unlocked
    /\ Idle(c)
    /\ mem = None
    /\ running' = running \cup {c}
    /\ UNCHANGED <<up, mem, file, op, resets, acked, faulted>>

\* The work itself never looks at the switch again.
Finish(c) ==
    /\ c \in running
    /\ running' = running \ {c}
    /\ UNCHANGED <<up, mem, file, op, resets, acked, faulted>>

Persist == PersistTruncate \/ PersistWrite \/ ClearPersisted

Next ==
    \/ Boot
    \/ Crash
    \/ \E t \in Tiers : EngageRefused(t) \/ Engage(t)
    \/ Persist
    \/ \E c \in Conns : ResetVerified(c) \/ Reset(c) \/ Admit(c) \/ Finish(c)

Spec == Init /\ [][Next]_vars

-----------------------------------------------------------------------------
(* Properties *)

\* Whenever nobody holds the Mutex and no persist went wrong, the file says
\* exactly what memory says: a restart at that instant changes nothing.
FileFollowsMemory ==
    Unlocked /\ ~faulted => mem = Rehydrated

\* A panic that was acknowledged and not reset is still in force, at its tier
\* or above, after any number of crashes and restarts, unless a persist of
\* the state file failed or was cut short.
AckedPanicHolds ==
    up /\ ~faulted => mem >= acked

\* No guarded work starts while an acknowledged panic is outstanding, even
\* if the core was restarted in between.
NoAdmissionDuringPanic ==
    [][\A c \in Conns : c \in running' \ running => acked = None \/ faulted]_vars

\* Within a boot the active tier only rises, except that a reset whose token
\* was verified switches it off entirely; it never drops to a lower tier.
TierMonotonic ==
    [][up /\ up' /\ mem' < mem =>
         mem' = None /\ \E c \in resets : c \notin resets']_vars

\* killswitch.rs:3-4: "a restart cannot silently clear a `nuclear` panic".
NuclearSurvivesRestart ==
    up /\ acked = Nuclear => mem = Nuclear

=============================================================================
