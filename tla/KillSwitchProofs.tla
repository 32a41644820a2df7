-------------------------- MODULE KillSwitchProofs --------------------------
(* Proofs of the safety properties of KillSwitch, for any set of tasks. *)
EXTENDS KillSwitch, TLAPS

\* What a file operation in progress says about memory.
HolderInv ==
    /\ op.at \in {"truncate", "write"} => op.tier \in Tiers /\ mem = op.tier
    /\ op.at = "remove" => mem = None /\ acked = None
    /\ ~up => op = Free

\* Outside the window between truncate and write, the file alone is enough
\* to restore every panic that was acknowledged.
DurableInv == ~faulted /\ op.at # "write" => Rehydrated >= acked

IInv ==
    /\ TypeOK
    /\ HolderInv
    /\ DurableInv
    /\ FileFollowsMemory
    /\ AckedPanicHolds

LEMMA FreeIsOp == Free \in Op /\ Free.at = "free"
  BY DEF Free, Op

LEMMA InitIInv == Init => IInv
<1> SUFFICES ASSUME Init PROVE IInv
  OBVIOUS
<1> USE FreeIsOp DEF Init, Tiers, None, Soft, Hard, Nuclear, Absent, Empty
<1>1. TypeOK
  BY DEF TypeOK
<1>2. HolderInv
  BY DEF HolderInv
<1>3. DurableInv /\ FileFollowsMemory /\ AckedPanicHolds
  BY DEF DurableInv, FileFollowsMemory, AckedPanicHolds, Rehydrated
<1> QED
  BY <1>1, <1>2, <1>3 DEF IInv

LEMMA NextIInv == IInv /\ [Next]_vars => IInv'
<1> SUFFICES ASSUME IInv, [Next]_vars PROVE IInv'
  OBVIOUS
<1> USE DEF IInv, TypeOK, HolderInv, DurableInv, FileFollowsMemory,
            AckedPanicHolds, Unlocked, Rehydrated, Tiers, None, Soft, Hard,
            Nuclear, Absent, Empty
<1>1. CASE Boot
  <2>1. TypeOK'
    BY <1>1, FreeIsOp DEF Boot, TypeOK
  <2>2. HolderInv'
    BY <1>1, FreeIsOp DEF Boot, HolderInv
  <2>3. DurableInv' /\ FileFollowsMemory' /\ AckedPanicHolds'
    BY <1>1, FreeIsOp DEF Boot, DurableInv, FileFollowsMemory, AckedPanicHolds,
       Rehydrated
  <2> QED
    BY <2>1, <2>2, <2>3
<1>2. CASE Crash
  BY <1>2, FreeIsOp DEF Crash
<1>3. ASSUME NEW t \in Tiers, EngageRefused(t) PROVE IInv'
  BY <1>3 DEF EngageRefused
<1>4. ASSUME NEW t \in Tiers, Engage(t) PROVE IInv'
  BY <1>4 DEF Engage, Op
<1>5. CASE PersistTruncate
  <2>1. op \in Op /\ op.tier \in Tiers /\ mem = op.tier
    BY <1>5 DEF PersistTruncate
  <2>2. [op EXCEPT !.at = "write"] \in Op
    BY <2>1 DEF Op
  <2>3. [op EXCEPT !.at = "write"].at = "write"
        /\ [op EXCEPT !.at = "write"].tier = op.tier
    BY <2>1 DEF Op
  <2> QED
    BY <1>5, <2>1, <2>2, <2>3, FreeIsOp DEF PersistTruncate
<1>6. CASE PersistWrite
  <2>1. TypeOK'
    BY <1>6, FreeIsOp DEF PersistWrite, TypeOK
  <2>2. HolderInv'
    BY <1>6, FreeIsOp DEF PersistWrite, HolderInv
  <2>3. DurableInv' /\ FileFollowsMemory' /\ AckedPanicHolds'
    BY <1>6, FreeIsOp DEF PersistWrite, DurableInv, FileFollowsMemory, AckedPanicHolds,
       Rehydrated
  <2> QED
    BY <2>1, <2>2, <2>3
<1>7. CASE ClearPersisted
  <2>1. TypeOK'
    BY <1>7, FreeIsOp DEF ClearPersisted, TypeOK
  <2>2. HolderInv'
    BY <1>7, FreeIsOp DEF ClearPersisted, HolderInv
  <2>3. DurableInv' /\ FileFollowsMemory' /\ AckedPanicHolds'
    BY <1>7, FreeIsOp DEF ClearPersisted, DurableInv, FileFollowsMemory, AckedPanicHolds,
       Rehydrated
  <2> QED
    BY <2>1, <2>2, <2>3
<1>8. ASSUME NEW c \in Conns, ResetVerified(c) PROVE IInv'
  BY <1>8 DEF ResetVerified
<1>9. ASSUME NEW c \in Conns, Reset(c) PROVE IInv'
  BY <1>9 DEF Reset, Op
<1>10. ASSUME NEW c \in Conns, Admit(c) PROVE IInv'
  BY <1>10 DEF Admit
<1>11. ASSUME NEW c \in Conns, Finish(c) PROVE IInv'
  BY <1>11 DEF Finish
<1>12. CASE UNCHANGED vars
  BY <1>12 DEF vars
<1> QED
  BY <1>1, <1>2, <1>3, <1>4, <1>5, <1>6, <1>7, <1>8, <1>9, <1>10, <1>11,
     <1>12 DEF Next, Persist

\* The inductive invariant holds of every state of every behaviour.
THEOREM SpecIInv == Spec => []IInv
  BY InitIInv, NextIInv, PTL DEF Spec

\* Type correctness (killswitch.rs:42-46).
THEOREM TypeCorrect == Spec => []TypeOK
<1>1. IInv => TypeOK
  BY DEF IInv
<1> QED
  BY <1>1, SpecIInv, PTL

\* With the Mutex free and no failed persist, a restart changes nothing.
THEOREM FileFollowsMemoryHolds == Spec => []FileFollowsMemory
<1>1. IInv => FileFollowsMemory
  BY DEF IInv
<1> QED
  BY <1>1, SpecIInv, PTL

\* An acknowledged panic survives any crashes and restarts, unless a persist
\* failed or was cut short.
THEOREM AckedPanicIsDurable == Spec => []AckedPanicHolds
<1>1. IInv => AckedPanicHolds
  BY DEF IInv
<1> QED
  BY <1>1, SpecIInv, PTL

-----------------------------------------------------------------------------
\* A step admits a task only while no acknowledged panic is outstanding.
LEMMA AdmissionStep ==
  ASSUME IInv, [Next]_vars, NEW c \in Conns, c \in running' \ running
  PROVE  acked = None \/ faulted
<1> USE DEF IInv, TypeOK, AckedPanicHolds, Unlocked, Tiers, None, Soft, Hard,
            Nuclear
<1>1. PICK d \in Conns : Admit(d)
  BY DEF Next, Persist, vars, Boot, Crash, EngageRefused, Engage,
         PersistTruncate, PersistWrite, ClearPersisted, ResetVerified, Reset,
         Finish
<1> QED
  BY <1>1 DEF Admit

\* No guarded work starts while an acknowledged panic is outstanding.
THEOREM NoAdmission == Spec => NoAdmissionDuringPanic
<1>1. IInv /\ [Next]_vars =>
        [\A c \in Conns : c \in running' \ running => acked = None \/ faulted]_vars
  BY AdmissionStep
<1> QED
  BY <1>1, SpecIInv, PTL DEF Spec, NoAdmissionDuringPanic

\* Within a boot, a step that lowers the tier is an applied reset.
LEMMA TierStep ==
  ASSUME IInv, [Next]_vars, up, up', mem' < mem
  PROVE  mem' = None /\ \E c \in resets : c \notin resets'
<1> USE DEF IInv, TypeOK, Tiers, None, Soft, Hard, Nuclear
<1>1. PICK c \in Conns : Reset(c)
  BY DEF Next, Persist, vars, Boot, Crash, EngageRefused, Engage,
         PersistTruncate, PersistWrite, ClearPersisted, ResetVerified, Admit,
         Finish
<1> QED
  BY <1>1 DEF Reset

\* The kill switch is monotonic within a boot (killswitch.rs:94-107).
THEOREM TierIsMonotonic == Spec => TierMonotonic
<1>1. IInv /\ [Next]_vars =>
        [up /\ up' /\ mem' < mem =>
           mem' = None /\ \E c \in resets : c \notin resets']_vars
  BY TierStep
<1> QED
  BY <1>1, SpecIInv, PTL DEF Spec, TierMonotonic

=============================================================================
