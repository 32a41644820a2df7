----------------------------- MODULE Scheduler ------------------------------
(***************************************************************************)
(* The schedule store (ginexus-server/scheduler.rs) and the heartbeat that *)
(* runs the due schedules one after the other (heartbeat in main.rs).      *)
(*                                                                         *)
(* The store is a vector behind a Mutex that is also held while the vector *)
(* is saved.  A save is std::fs::write: it truncates schedules.json, then  *)
(* writes it; its errors are ignored and the process may stop in between.  *)
(* The kill switch is read by the heartbeat only; KillSwitch.tla says what *)
(* it may read.  Times and cadences are on one scale, the milliseconds of  *)
(* the code: a cadence is the product of every_secs and 1000 before the    *)
(* integer it is kept in cuts it off.  The clock is not set back.          *)
(***************************************************************************)
EXTENDS Integers, Sequences

CONSTANTS
    Ids,            \* ids schedules may get; random in the code, never reused
    Everys,         \* cadences asked for: every_secs of the request, without a ceiling
    MinEvery,       \* MIN_EVERY_SECS
    MaxSchedules,   \* MAX_SCHEDULES
    Width,          \* bits of the integer next_run_ms is kept in
    MaxClock,       \* bound on the clock
    MaxCrashes      \* bound on the crashes of the core

ASSUME CadenceAssumption ==
    /\ Everys \subseteq Int
    /\ MinEvery \in Nat
    /\ MaxSchedules \in Nat
    /\ Width \in Nat \ {0}
    /\ MaxClock \in Nat
    /\ MaxCrashes \in Nat

VARIABLES
    coreUp,     \* the core is running
    crashes,    \* crashes so far
    clock,      \* the system clock
    engaged,    \* the kill switch is engaged
    items,      \* ScheduleStore.items
    schedFile,  \* run/schedules.json: its items, and whether it parses
    writing,    \* the save in progress under the Mutex, and whose it is
    hb,         \* the heartbeat: where it is, and the ids it has taken
    issued,     \* ids ever given to a schedule
    live,       \* history: ids answered to an add and not removed since
    fires,      \* history, per id: when it was taken to be run
    starts,     \* history, per id: when a run of it began
    cadence,    \* history, per id: the cadence it was added with
    done,       \* history, per id: runs whose result was recorded
    saveFailed, \* history: the last save failed
    unsaved     \* history: the core stopped with a save failed or under way

worldVars == <<coreUp, crashes, clock, engaged>>
lossVars  == <<saveFailed, unsaved>>
runVars   == <<fires, starts, cadence>>
schedVars == <<worldVars, items, schedFile, writing, hb, issued, live, runVars, done, lossVars>>

Schedule == [id : Ids, every : {n \in Int : n >= MinEvery}, next : Int, runs : Nat]
NotWriting == [at |-> "free", by |-> "none"]
Asleep == [at |-> "sleep", queue |-> <<>>]

SchedTypeOK ==
    /\ coreUp \in BOOLEAN
    /\ crashes \in 0..MaxCrashes
    /\ clock \in 0..MaxClock
    /\ engaged \in BOOLEAN
    /\ items \in Seq(Schedule)
    /\ schedFile \in [parses : BOOLEAN, items : Seq(Schedule)]
    /\ writing \in [at : {"free", "truncate", "write"}, by : {"none", "api", "hb"}]
    /\ hb \in [at : {"sleep", "checked", "next", "run"}, queue : Seq(Ids)]
    /\ issued \in SUBSET Ids
    /\ live \in SUBSET Ids
    /\ fires \in [Ids -> Seq(0..MaxClock)]
    /\ starts \in [Ids -> Seq(0..MaxClock)]
    /\ cadence \in [Ids -> Int]
    /\ done \in [Ids -> Nat]
    /\ saveFailed \in BOOLEAN
    /\ unsaved \in BOOLEAN

NoFile == [parses |-> FALSE, items |-> <<>>]

SchedInit ==
    /\ coreUp = TRUE
    /\ crashes = 0
    /\ clock = 0
    /\ engaged = FALSE
    /\ items = <<>>
    /\ schedFile = NoFile
    /\ writing = NotWriting
    /\ hb = Asleep
    /\ issued = {}
    /\ live = {}
    /\ fires = [i \in Ids |-> <<>>]
    /\ starts = [i \in Ids |-> <<>>]
    /\ cadence = [i \in Ids |-> 0]
    /\ done = [i \in Ids |-> 0]
    /\ saveFailed = FALSE
    /\ unsaved = FALSE

IdsIn(s) == {s[k].id : k \in DOMAIN s}
StoreFree == coreUp /\ writing = NotWriting
Save(who) == writing' = [at |-> "truncate", by |-> who]
AtLeast(x, floor) == IF x < floor THEN floor ELSE x

\* Two's complement, as release builds compute: they do not trap an overflow.
Half == 2^(Width - 1)
Wrapped(x) == ((x + Half) % (2 * Half)) - Half

\* The elements of s at the places in `places`, in their order.
Picked(s, places) ==
    LET f[n \in 0..Len(s)] ==
          IF n = 0 THEN <<>>
          ELSE IF n \in places THEN Append(f[n - 1], s[n]) ELSE f[n - 1]
    IN  f[Len(s)]

-----------------------------------------------------------------------------
(* std::fs::write of the whole store *)

SaveTruncate ==
    /\ writing.at = "truncate"
    /\ \/ schedFile' = NoFile /\ writing' = [writing EXCEPT !.at = "write"] /\ UNCHANGED saveFailed
       \/ writing' = NotWriting /\ saveFailed' = TRUE /\ UNCHANGED schedFile
    /\ UNCHANGED <<worldVars, items, hb, issued, live, runVars, done, unsaved>>

SaveWrite ==
    /\ writing.at = "write"
    /\ \/ schedFile' = [parses |-> TRUE, items |-> items] /\ saveFailed' = FALSE
       \/ saveFailed' = TRUE /\ UNCHANGED schedFile
    /\ writing' = NotWriting
    /\ UNCHANGED <<worldVars, items, hb, issued, live, runVars, done, unsaved>>

-----------------------------------------------------------------------------
(* POST /v1/schedule and /v1/schedule/remove *)

\* A full store, or an empty prompt, is an error that changes nothing.
AddUnfloored(id, every) ==
    /\ StoreFree
    /\ id \notin issued
    /\ Len(items) < MaxSchedules
    /\ items' = Append(items, [id |-> id, every |-> every, next |-> clock, runs |-> 0])
    /\ Save("api")
    /\ issued' = issued \cup {id}
    /\ live' = live \cup {id}
    /\ cadence' = [cadence EXCEPT ![id] = every]
    /\ UNCHANGED <<worldVars, schedFile, hb, fires, starts, done, lossVars>>

Add(id, every) ==
    /\ StoreFree
    /\ id \notin issued
    /\ Len(items) < MaxSchedules
    /\ items' = Append(items, [id |-> id, every |-> AtLeast(every, MinEvery),
                               next |-> clock, runs |-> 0])
    /\ Save("api")
    /\ issued' = issued \cup {id}
    /\ live' = live \cup {id}
    /\ cadence' = [cadence EXCEPT ![id] = AtLeast(every, MinEvery)]
    /\ UNCHANGED <<worldVars, schedFile, hb, fires, starts, done, lossVars>>

RemoveUnsaved(id) ==
    /\ StoreFree
    /\ id \in IdsIn(items)
    /\ items' = Picked(items, {k \in DOMAIN items : items[k].id # id})
    /\ live' = live \ {id}
    /\ UNCHANGED <<worldVars, schedFile, writing, hb, issued, runVars, done, lossVars>>

\* Removing an id the store does not hold changes nothing, so saves nothing.
Remove(id) ==
    /\ StoreFree
    /\ id \in IdsIn(items)
    /\ items' = Picked(items, {k \in DOMAIN items : items[k].id # id})
    /\ Save("api")
    /\ live' = live \ {id}
    /\ UNCHANGED <<worldVars, schedFile, hb, issued, runVars, done, lossVars>>

-----------------------------------------------------------------------------
(* The heartbeat *)

HbFree == coreUp /\ writing.by # "hb"

\* After its sleep it asks the kill switch, once; engaged, it sleeps again.
Wake ==
    /\ HbFree
    /\ hb.at = "sleep"
    /\ ~engaged
    /\ hb' = [hb EXCEPT !.at = "checked"]
    /\ UNCHANGED <<worldVars, items, schedFile, writing, issued, live, runVars, done, lossVars>>

Due(s) == s.next <= clock

\* take_due: the due schedules are moved on before any of them is run.
TakeDueUnbumped ==
    /\ StoreFree
    /\ hb.at = "checked"
    /\ LET due == Picked(items, {k \in DOMAIN items : Due(items[k])}) IN
         /\ hb' = IF due = <<>> THEN Asleep
                  ELSE [at |-> "next", queue |-> [k \in DOMAIN due |-> due[k].id]]
         /\ fires' = [i \in Ids |-> IF i \in IdsIn(due) THEN Append(fires[i], clock)
                                    ELSE fires[i]]
    /\ UNCHANGED <<worldVars, items, schedFile, writing, issued, live, starts, cadence, done, lossVars>>

TakeDue ==
    /\ StoreFree
    /\ hb.at = "checked"
    /\ LET due == Picked(items, {k \in DOMAIN items : Due(items[k])}) IN
         /\ items' = [k \in DOMAIN items |->
                        IF Due(items[k])
                        THEN [items[k] EXCEPT !.next = Wrapped(clock + items[k].every)]
                        ELSE items[k]]
         /\ IF due = <<>>
            THEN hb' = Asleep /\ UNCHANGED writing
            ELSE /\ hb' = [at |-> "next", queue |-> [k \in DOMAIN due |-> due[k].id]]
                 /\ Save("hb")
         /\ fires' = [i \in Ids |-> IF i \in IdsIn(due) THEN Append(fires[i], clock)
                                    ELSE fires[i]]
    /\ UNCHANGED <<worldVars, schedFile, issued, live, starts, cadence, done, lossVars>>

\* The next taken task is handed to the agent loop.
StartRun ==
    /\ HbFree
    /\ hb.at = "next"
    /\ hb.queue # <<>>
    /\ hb' = [hb EXCEPT !.at = "run"]
    /\ starts' = [starts EXCEPT ![Head(hb.queue)] = Append(@, clock)]
    /\ UNCHANGED <<worldVars, items, schedFile, writing, issued, live, fires, cadence, done, lossVars>>

\* record_result: saved even when the schedule was removed in the meantime.
Counted(id) ==
    [k \in DOMAIN items |-> IF items[k].id = id THEN [items[k] EXCEPT !.runs = @ + 1]
                            ELSE items[k]]

AfterRunStuck == [at |-> "next", queue |-> Tail(hb.queue)]
AfterRun == IF Len(hb.queue) > 1 THEN [at |-> "next", queue |-> Tail(hb.queue)]
            ELSE Asleep

FinishRunUnsaved ==
    /\ StoreFree
    /\ hb.at = "run"
    /\ items' = Counted(Head(hb.queue))
    /\ done' = [done EXCEPT ![Head(hb.queue)] = @ + 1]
    /\ hb' = AfterRun
    /\ UNCHANGED <<worldVars, schedFile, writing, issued, live, runVars, lossVars>>

FinishRun ==
    /\ StoreFree
    /\ hb.at = "run"
    /\ items' = Counted(Head(hb.queue))
    /\ Save("hb")
    /\ done' = [done EXCEPT ![Head(hb.queue)] = @ + 1]
    /\ hb' = AfterRun
    /\ UNCHANGED <<worldVars, schedFile, issued, live, runVars, lossVars>>

-----------------------------------------------------------------------------
(* The environment *)

Tick ==
    /\ clock < MaxClock
    /\ clock' = clock + 1
    /\ UNCHANGED <<coreUp, crashes, engaged, items, schedFile, writing, hb, issued, live, runVars, done,
                   lossVars>>

SwitchChanges ==
    /\ coreUp
    /\ engaged' = ~engaged
    /\ UNCHANGED <<coreUp, crashes, clock, items, schedFile, writing, hb, issued, live, runVars, done,
                   lossVars>>

\* The app terminates the core at any instant.
SchedCrash ==
    /\ coreUp
    /\ crashes < MaxCrashes
    /\ crashes' = crashes + 1
    /\ coreUp' = FALSE
    /\ items' = <<>>
    /\ writing' = NotWriting
    /\ hb' = Asleep
    /\ unsaved' = (unsaved \/ saveFailed \/ writing # NotWriting)
    /\ saveFailed' = FALSE
    /\ UNCHANGED <<clock, engaged, schedFile, issued, live, runVars, done>>

\* ScheduleStore::open: what does not parse is an empty store.
SchedBoot ==
    /\ ~coreUp
    /\ coreUp' = TRUE
    /\ items' = IF schedFile.parses THEN schedFile.items ELSE <<>>
    /\ engaged' \in BOOLEAN
    /\ UNCHANGED <<crashes, clock, schedFile, writing, hb, issued, live, runVars, done, lossVars>>

Heartbeat == Wake \/ TakeDue \/ StartRun \/ FinishRun
Saving == SaveTruncate \/ SaveWrite

SchedNext ==
    \/ Saving
    \/ \E id \in Ids : Remove(id) \/ \E e \in Everys : Add(id, e)
    \/ Heartbeat
    \/ Tick
    \/ SwitchChanges
    \/ SchedCrash
    \/ SchedBoot

SchedSpec == SchedInit /\ [][SchedNext]_schedVars

\* The timer fires, the runtime polls the task, files are written and every
\* agent run ends (RunsEnd of AgentLoop).
SchedFairSpec == SchedSpec /\ WF_schedVars(Heartbeat) /\ WF_schedVars(Saving)

-----------------------------------------------------------------------------
(* Properties *)

\* Across restarts the store holds exactly the schedules that were added and
\* not removed, unless the core once stopped with its last save undone.
StoreIsFaithful == coreUp /\ ~unsaved => IdsIn(items) = live

\* ... and each schedule counts exactly the runs whose result was recorded.
RunsCounted ==
    coreUp /\ ~unsaved => \A k \in DOMAIN items : items[k].runs = done[items[k].id]

\* The floor on cadences holds, also when the core stops and starts again while a run is
\* under way: a schedule is not taken twice within it. A run may begin long after it was
\* taken, behind the others of its tick, so that the next one follows sooner; but of
\* three runs of a schedule the last begins a floor after the first. Left out are
\* cadences so long that the next run overflows its integer (take_due), which the code
\* neither refuses nor notices: those may come back at once.
Fits(every) == MaxClock + every < Half
FloorKept ==
    ~unsaved => \A i \in Ids : Fits(cadence[i]) =>
        /\ \A k \in 1..(Len(fires[i]) - 1) : fires[i][k + 1] - fires[i][k] >= MinEvery
        /\ \A k \in 1..(Len(starts[i]) - 2) : starts[i][k + 2] - starts[i][k] >= MinEvery

\* A due schedule is taken in the end, however many runs are ahead of it,
\* unless it is removed, the kill switch is engaged or the core stops. Left out is what
\* is due again as soon as it was taken, for its cadence overflowed.
Overdue(id) ==
    coreUp /\ \E k \in DOMAIN items : items[k].id = id /\ Due(items[k]) /\ Fits(items[k].every)
DueIsTaken == \A id \in Ids : Overdue(id) ~> ~Overdue(id) \/ engaged

\* scheduler.rs:3 and main.rs:969-971: scheduled tasks "respect the kill switch".
RunsRespectKillSwitch ==
    [][hb.at = "next" /\ hb'.at = "run" => ~engaged]_schedVars

=============================================================================
