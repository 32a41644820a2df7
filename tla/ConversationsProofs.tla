------------------------- MODULE ConversationsProofs -------------------------
(***************************************************************************)
(* Proofs about the app's conversations: no turn is lost, nothing deleted  *)
(* comes back, no reply lands in another conversation and the sidebar      *)
(* lists what is on disk, however saves, reads, deletions, runs and quits  *)
(* interleave.                                                             *)
(***************************************************************************)
EXTENDS Conversations, SequenceTheorems, NaturalsInduction, WellFoundedInduction, TLAPS

(***************************************************************************)
(* The invariants                                                          *)
(***************************************************************************)

\* Each load in the queue belongs to one task that waits for it.
JobsInv ==
    /\ \A k \in DOMAIN queue :
         IF queue[k].op = "load"
         THEN /\ queue[k].slot \in Slots
              /\ task[queue[k].slot].at = "queued"
              /\ \A j \in DOMAIN queue :
                   queue[j].op = "load" /\ queue[j].slot = queue[k].slot => j = k
         ELSE queue[k].conv \in Convs
    /\ \A s \in Slots :
         /\ task[s].kind \in {"select", "rename", "recent"} => task[s].conv \in Convs
         /\ task[s].kind = "none" => task[s] = NoTask
         /\ task[s].at = "queued" => task[s].kind \in {"select", "rename", "index", "recent"}

\* While the first job is between its two writes, the first is done.
HalfInv ==
    half => /\ queue # <<>>
            /\ queue[1].op # "load"
            /\ files[queue[1].conv] = queue[1].new

\* Until the session is restored nothing is on screen, under way or written; the
\* only task is the one of restoreSession.
RestoreInv ==
    /\ restore # "done" =>
         /\ streams = {} /\ pending = FALSE /\ active = NoConv /\ chat = <<>>
         /\ unsaved = {} /\ half = FALSE
         /\ \A k \in DOMAIN queue : queue[k].op = "load"
         /\ \A s \in Slots :
              /\ task[s].kind \in {"none", "index", "recent"}
              /\ task[s].kind = "recent" /\ task[s].at = "read" => task[s].got = files[task[s].conv]
              /\ \A t \in Slots : task[s] # NoTask /\ task[t] # NoTask => s = t
    /\ restore \in {"down", "waiting"} => \A s \in Slots : task[s] = NoTask
    /\ restore = "done" => \A s \in Slots : task[s].kind \notin {"index", "recent"}

\* Ids are drawn before they are used.
UsedInv ==
    /\ DOMAIN convs \subseteq used
    /\ active \in used \cup {NoConv}
    /\ Saved \subseteq used
    /\ \A k \in DOMAIN queue : queue[k].op # "load" => queue[k].conv \in used
    /\ \A s \in Slots : /\ task[s].conv \in used \cup {NoConv}
                        /\ DOMAIN task[s].index \subseteq used

\* One run at most, of the conversation on screen.
StreamInv ==
    /\ sending <=> streams # {}
    /\ \A s, t \in streams : s = t
    /\ \A s \in streams : s.msg \in 1..count /\ home[s.msg] \in {active, NoConv}

\* The messages ms may stand in the conversation c.
SaidIds == Old \cup (1..count)
Placed(ms, c) ==
    \A i \in DOMAIN ms :
      /\ ms[i].id \in SaidIds
      /\ ms[i].kind = "user" => c \in Convs /\ home[ms[i].id] = c
      /\ ms[i].kind = "reply" => home[ms[i].id] \in {c, NoConv}

PlacedInv ==
    /\ Placed(chat, active)
    /\ \A c \in Convs : Placed(files[c].msgs, c)
    /\ \A k \in DOMAIN queue : Placed(queue[k].new.msgs, queue[k].conv)
    /\ \A s \in Slots : Placed(task[s].got.msgs, task[s].conv)

\* What was deleted is not on screen and will not be on disk.
GoneInv ==
    \A c \in gone : c \in used /\ c # active /\ Latest(c) = NoFile

\* A turn will be on disk, and is on screen with its conversation.
TurnsInv ==
    \A m \in turns :
      /\ m \in SaidIds
      /\ home[m] \in used
      /\ home[m] \notin gone => Contains(Latest(home[m]).msgs, User(m))
      /\ home[m] = active => Contains(chat, User(m))

Whole == UsedInv /\ PlacedInv /\ GoneInv /\ TurnsInv

TurnsIInv == Orderly => RestoreInv /\ StreamInv /\ Whole

ConvIInv == TypeOK /\ JobsInv /\ HalfInv /\ TurnsIInv
(***************************************************************************)
(* Sequences and indexes                                                   *)
(***************************************************************************)

LEMMA AppendIs ==
    ASSUME NEW S, NEW q \in Seq(S), NEW x \in S
    PROVE  /\ Append(q, x) \in Seq(S)
           /\ Len(q) \in Nat /\ DOMAIN q = 1..Len(q)
           /\ Len(Append(q, x)) = Len(q) + 1 /\ DOMAIN Append(q, x) = 1..(Len(q) + 1)
           /\ \A k \in DOMAIN q : Append(q, x)[k] = q[k]
           /\ Append(q, x)[Len(q) + 1] = x
<1>1. Append(q, x) \in Seq(S)
  BY AppendProperties
<1> QED
  BY <1>1, AppendProperties, LenProperties

LEMMA TailIs ==
    ASSUME NEW S, NEW q \in Seq(S), q # <<>>
    PROVE  /\ Tail(q) \in Seq(S)
           /\ Len(q) \in Nat /\ Len(q) >= 1 /\ DOMAIN q = 1..Len(q)
           /\ Len(Tail(q)) = Len(q) - 1 /\ DOMAIN Tail(q) = 1..(Len(q) - 1)
           /\ \A k \in DOMAIN Tail(q) : Tail(q)[k] = q[k + 1]
           /\ Head(q) = q[1] /\ q[1] \in S
<1>1. Tail(q) \in Seq(S)
  BY HeadTailProperties
<1>2. Len(q) \in Nat /\ DOMAIN q = 1..Len(q) /\ Len(q) # 0
  BY LenProperties, EmptySeq
<1>3. Len(Tail(q)) = Len(q) - 1 /\ \A k \in 1..Len(Tail(q)) : Tail(q)[k] = q[k + 1]
  BY HeadTailProperties
<1>4. Head(q) = q[1]
  OBVIOUS
<1>5. DOMAIN Tail(q) = 1..Len(Tail(q))
  BY <1>1, LenProperties
<1>6. q[1] \in S
  BY <1>2, ElementOfSeq
<1> QED
  BY <1>1, <1>2, <1>3, <1>4, <1>5, <1>6

LEMMA SeqIs ==
    ASSUME NEW S, NEW q \in Seq(S)
    PROVE  Len(q) \in Nat /\ DOMAIN q = 1..Len(q) /\ \A k \in DOMAIN q : q[k] \in S
BY LenProperties, ElementOfSeq

LEMMA IndexIs ==
    ASSUME NEW f
    PROVE  f \in Index <=> DOMAIN f \subseteq Convs /\ f \in [DOMAIN f -> Titles]
<1>1. ASSUME f \in Index PROVE DOMAIN f \subseteq Convs /\ f \in [DOMAIN f -> Titles]
  <2>1. PICK S \in SUBSET Convs : f \in [S -> Titles]
    BY <1>1 DEF Index
  <2> QED BY <2>1
<1>2. ASSUME DOMAIN f \subseteq Convs, f \in [DOMAIN f -> Titles] PROVE f \in Index
  BY <1>2 DEF Index
<1> QED BY <1>1, <1>2

LEMMA NoneAre ==
    /\ NoIndex \in Index /\ DOMAIN NoIndex = {}
    /\ NoFile \in Conversation /\ NoFile.msgs = <<>> /\ NoFile.title = "New chat"
    /\ NoTask \in Task /\ NoTask.kind = "none" /\ NoTask.at = "none" /\ NoTask.conv = NoConv
    /\ NoTask.got = NoFile /\ NoTask.index = NoIndex
<1>1. DOMAIN NoIndex = {} /\ NoIndex \in [{} -> Titles]
  BY DEF NoIndex
<1>2. NoIndex \in Index
  BY <1>1, IndexIs
<1>3. NoFile \in Conversation
  BY DEF NoFile, Conversation, Titles
<1>4. NoTask \in Task
  BY <1>2, <1>3 DEF NoTask, Task, Kinds
<1> QED
  BY <1>1, <1>2, <1>3, <1>4 DEF NoFile, NoTask

LEMMA RestrictIs ==
    ASSUME NEW f \in Index, NEW S, S \subseteq DOMAIN f
    PROVE  /\ Restrict(f, S) \in Index /\ DOMAIN Restrict(f, S) = S
           /\ \A c \in S : Restrict(f, S)[c] = f[c]
<1>1. DOMAIN Restrict(f, S) = S /\ \A c \in S : Restrict(f, S)[c] = f[c]
  BY DEF Restrict
<1>2. f \in [DOMAIN f -> Titles] /\ DOMAIN f \subseteq Convs
  BY IndexIs
<1>3. Restrict(f, S) \in [S -> Titles]
  BY <1>2 DEF Restrict
<1> QED
  BY <1>1, <1>2, <1>3, IndexIs

LEMMA WithIs ==
    ASSUME NEW f \in Index, NEW c \in Convs, NEW t \in Titles
    PROVE  /\ With(f, c, t) \in Index /\ DOMAIN With(f, c, t) = DOMAIN f \cup {c}
           /\ \A x \in DOMAIN f \cup {c} : With(f, c, t)[x] = IF x = c THEN t ELSE f[x]
<1>1. f \in [DOMAIN f -> Titles] /\ DOMAIN f \subseteq Convs
  BY IndexIs
<1>2. With(f, c, t) \in [DOMAIN f \cup {c} -> Titles] /\ DOMAIN With(f, c, t) = DOMAIN f \cup {c}
  BY <1>1 DEF With
<1>3. With(f, c, t) \in Index
  BY <1>1, <1>2, IndexIs
<1> QED
  BY <1>2, <1>3 DEF With

(***************************************************************************)
(* Types                                                                   *)
(***************************************************************************)

ScreenType ==
    /\ active \in Convs \cup {NoConv} /\ title \in Titles /\ chat \in Seq(Msg)
    /\ convs \in Index /\ unsaved \in SUBSET Convs /\ used \in SUBSET Convs
RunType ==
    /\ restore \in {"down", "waiting", "index", "recent", "done"}
    /\ sending \in BOOLEAN /\ pending \in BOOLEAN
    /\ streams \in SUBSET [msg : MsgIds, at : {"start", "open", "pended"}]
PastType ==
    /\ home \in [MsgIds -> Convs \cup {NoConv}] /\ turns \in SUBSET MsgIds
    /\ count \in 0..MaxMsgs /\ quits \in 0..MaxQuits /\ gone \in SUBSET Convs
    /\ early \in BOOLEAN /\ stale \in BOOLEAN /\ crossed \in BOOLEAN /\ cut \in BOOLEAN
QueueType ==
    queue \in Seq(Job) /\ \A k \in DOMAIN queue : queue[k].op = "save" => queue[k].new # NoFile
DiskType ==
    half \in BOOLEAN /\ files \in [Convs -> Conversation] /\ index \in Index
TaskType == task \in [Slots -> Task]

LEMMA TypeParts ==
    TypeOK <=> /\ ScreenType /\ RunType /\ PastType /\ QueueType /\ DiskType /\ TaskType
BY DEF TypeOK, ScreenType, RunType, PastType, QueueType, DiskType, TaskType

\* How the handlers leave the queue and the tasks.
Writes(j) == j \in Job /\ j.op # "load" /\ j.conv \in Convs /\ (j.op = "save" => j.new # NoFile)
QueueGrows == queue' = queue \/ \E j \in Job : Writes(j) /\ queue' = Append(queue, j)
TaskMoves ==
    /\ TaskType'
    /\ \A s \in Slots :
         \/ task'[s] = task[s]
         \/ /\ task[s].at # "queued" /\ task'[s].at # "queued"
            /\ task'[s].kind \in {"select", "rename", "recent"} => task'[s].conv \in Convs
            /\ task'[s].kind = "none" => task'[s] = NoTask

LEMMA JobsKept ==
    ASSUME TypeOK, JobsInv, TaskMoves, QueueGrows
    PROVE  /\ QueueType' /\ TaskType' /\ JobsInv'
           /\ files' = files /\ half' = half /\ HalfInv => HalfInv'
<1>1. CASE queue' = queue
  <2>1. QueueType'
    BY <1>1, TypeParts DEF QueueType
  <2>2. \A k \in DOMAIN queue : queue[k].op = "load" => task'[queue[k].slot] = task[queue[k].slot]
    BY DEF JobsInv, TaskMoves
  <2>3. JobsInv'
    BY <1>1, <2>2 DEF JobsInv, TaskMoves
  <2>4. ASSUME files' = files, half' = half, HalfInv PROVE HalfInv'
    BY <1>1, <2>4 DEF HalfInv
  <2> QED BY <2>1, <2>3, <2>4 DEF TaskMoves
<1>2. CASE \E j \in Job : Writes(j) /\ queue' = Append(queue, j)
  <2>1. PICK j \in Job : Writes(j) /\ queue' = Append(queue, j)
    BY <1>2
  <2>2. queue \in Seq(Job)
    BY TypeParts DEF QueueType
  <2>3. /\ queue' \in Seq(Job) /\ Len(queue) \in Nat /\ DOMAIN queue = 1..Len(queue)
        /\ DOMAIN queue' = 1..(Len(queue) + 1) /\ queue'[Len(queue) + 1] = j
        /\ \A k \in DOMAIN queue : queue'[k] = queue[k]
    BY <2>1, <2>2, AppendIs
  <2>4. \A k \in DOMAIN queue' : k \in DOMAIN queue \/ k = Len(queue) + 1
    BY <2>3
  <2>5. QueueType'
    BY <2>1, <2>3, <2>4, TypeParts DEF QueueType, Writes
  <2>6. \A k \in DOMAIN queue' : queue'[k].op = "load" => k \in DOMAIN queue /\ queue'[k] = queue[k]
    BY <2>1, <2>3, <2>4 DEF Writes
  <2>7. \A k \in DOMAIN queue : queue[k].op = "load" => task'[queue[k].slot] = task[queue[k].slot]
    BY DEF JobsInv, TaskMoves
  <2>8. \A k \in DOMAIN queue' :
          IF queue'[k].op = "load"
          THEN /\ queue'[k].slot \in Slots
               /\ task'[queue'[k].slot].at = "queued"
               /\ \A i \in DOMAIN queue' :
                   queue'[i].op = "load" /\ queue'[i].slot = queue'[k].slot => i = k
          ELSE queue'[k].conv \in Convs
    <3> TAKE k \in DOMAIN queue'
    <3>1. CASE queue'[k].op = "load"
      <4>1. k \in DOMAIN queue /\ queue'[k] = queue[k]
        BY <2>6, <3>1
      <4>2. queue'[k].slot \in Slots /\ task'[queue'[k].slot].at = "queued"
        BY <2>7, <3>1, <4>1 DEF JobsInv
      <4>3. \A i \in DOMAIN queue' :
                   queue'[i].op = "load" /\ queue'[i].slot = queue'[k].slot => i = k
        BY <2>6, <3>1, <4>1 DEF JobsInv
      <4> QED BY <3>1, <4>2, <4>3
    <3>2. CASE queue'[k].op # "load"
      BY <2>1, <2>3, <2>4, <3>2 DEF JobsInv, Writes
    <3> QED BY <3>1, <3>2
  <2>9. JobsInv'
    BY <2>8 DEF JobsInv, TaskMoves
  <2>10. ASSUME files' = files, half' = half, HalfInv PROVE HalfInv'
    <3>1. CASE half
      <4>1. queue # <<>> /\ queue[1].op # "load" /\ files[queue[1].conv] = queue[1].new
        BY <2>10, <3>1 DEF HalfInv
      <4>2. 1 \in DOMAIN queue
        BY <2>2, <4>1, TailIs
      <4>3. queue'[1] = queue[1] /\ queue' # <<>>
        <5>1. queue' # <<>>
          BY <2>1, <2>2, AppendProperties
        <5> QED BY <2>3, <4>2, <5>1
      <4> QED BY <2>10, <4>1, <4>3 DEF HalfInv
    <3>2. CASE ~half
      BY <2>10, <3>2 DEF HalfInv
    <3> QED BY <3>1, <3>2
  <2> QED BY <2>5, <2>9, <2>10 DEF TaskMoves
<1> QED
  BY <1>1, <1>2 DEF QueueGrows

\* A save of ms with the title t, in the conversation c.
Saves(ms, t, c) ==
    /\ c \in Convs /\ t \in Titles
    /\ (active = NoConv /\ c \notin used) \/ active = c
    /\ active' = c
    /\ title' = t
    /\ used' = used \cup {c}
    /\ unsaved' = unsaved \ {c}
    /\ convs' = With(convs, c, t)
    /\ queue' = Append(queue, SaveJob(c, [title |-> t, msgs |-> ms], Shown'))

LEMMA PersistIs ==
    ASSUME TypeOK, NEW ms, NEW t \in Titles, PersistActive(ms, t)
    PROVE  \/ /\ ms = <<>> /\ title' = t
              /\ active' = active /\ convs' = convs /\ unsaved' = unsaved
              /\ queue' = queue /\ used' = used
           \/ ms # <<>> /\ \E name \in Titles, c \in Convs : Saves(ms, name, c)
<1>1. CASE ms = <<>>
  BY <1>1 DEF PersistActive
<1>2. CASE ms # <<>>
  <2> DEFINE name == IF t = "New chat" THEN "auto" ELSE t
  <2>1. PICK c \in IF active = NoConv THEN Convs \ used ELSE {active} :
             /\ active' = c
             /\ title' = name
             /\ used' = used \cup {c}
             /\ unsaved' = unsaved \ {c}
             /\ convs' = With(convs, c, name)
             /\ queue' = Append(queue, SaveJob(c, [title |-> name, msgs |-> ms],
                                               Restrict(convs', DOMAIN convs' \ unsaved')))
    BY <1>2 DEF PersistActive
  <2>2. c \in Convs /\ ((active = NoConv /\ c \notin used) \/ active = c)
    BY <2>1, TypeParts DEF ScreenType
  <2>3. name \in Titles
    BY DEF Titles
  <2>4. Saves(ms, name, c)
    BY <2>1, <2>2, <2>3 DEF Saves, Shown
  <2> QED BY <1>2, <2>2, <2>3, <2>4
<1> QED BY <1>1, <1>2

LEMMA SavesTyped ==
    ASSUME TypeOK, NEW ms \in Seq(Msg), ms # <<>>, NEW t, NEW c, Saves(ms, t, c)
    PROVE  /\ active' \in Convs /\ title' \in Titles /\ used' \in SUBSET Convs
           /\ unsaved' \in SUBSET Convs /\ convs' \in Index /\ Shown' \in Index
           /\ DOMAIN convs' = DOMAIN convs \cup {c}
           /\ Writes(SaveJob(c, [title |-> t, msgs |-> ms], Shown'))
<1>1. /\ active' \in Convs /\ title' \in Titles /\ used' \in SUBSET Convs
      /\ unsaved' \in SUBSET Convs
  BY TypeParts DEF Saves, ScreenType
<1>2. convs' \in Index /\ DOMAIN convs' = DOMAIN convs \cup {c}
  BY TypeParts, WithIs DEF Saves, ScreenType
<1>3. Shown' \in Index
  BY <1>2, RestrictIs DEF Shown
<1>4. [title |-> t, msgs |-> ms] \in Conversation /\ [title |-> t, msgs |-> ms] # NoFile
  BY DEF Saves, Conversation, NoFile
<1>5. SaveJob(c, [title |-> t, msgs |-> ms], Shown') \in Job
  BY <1>3, <1>4 DEF SaveJob, Job, Saves
<1>6. Writes(SaveJob(c, [title |-> t, msgs |-> ms], Shown'))
  BY <1>4, <1>5 DEF SaveJob, Writes, Saves
<1> QED
  BY <1>1, <1>2, <1>3, <1>6

LEMMA PersistTyped ==
    ASSUME TypeOK, chat' \in Seq(Msg), NEW t \in Titles, PersistActive(chat', t)
    PROVE  ScreenType' /\ QueueGrows
<1>1. CASE chat' = <<>>
  BY <1>1, PersistIs, TypeParts DEF ScreenType, QueueGrows
<1>2. CASE chat' # <<>>
  <2>1. PICK name \in Titles, c \in Convs : Saves(chat', name, c)
    BY <1>2, PersistIs
  <2>2. /\ active' \in Convs /\ title' \in Titles /\ used' \in SUBSET Convs
        /\ unsaved' \in SUBSET Convs /\ convs' \in Index
        /\ Writes(SaveJob(c, [title |-> name, msgs |-> chat'], Shown'))
    BY <1>2, <2>1, SavesTyped
  <2>3. QueueGrows
    BY <2>1, <2>2 DEF QueueGrows, Writes, Saves
  <2> QED BY <2>2, <2>3 DEF ScreenType
<1> QED BY <1>1, <1>2

LEMMA BlankTyped ==
    ASSUME NEW cs \in Index, NEW us \in SUBSET Convs, used \in SUBSET Convs, Blank(cs, us)
    PROVE  ScreenType' /\ pending' \in BOOLEAN /\ chat' = <<>>
<1>1. PICK c \in Convs \ used :
         /\ active' = c /\ title' = "New chat" /\ chat' = <<>> /\ pending' = FALSE
         /\ used' = used \cup {c} /\ unsaved' = us \cup {c}
         /\ convs' = With(cs, c, "New chat")
  BY DEF Blank
<1>2. "New chat" \in Titles
  BY DEF Titles
<1>3. convs' \in Index
  BY <1>1, <1>2, WithIs
<1>4. << >> \in Seq(Msg)
  OBVIOUS
<1> QED BY <1>1, <1>2, <1>3, <1>4 DEF ScreenType

LEMMA NewChatTyped ==
    ASSUME TypeOK, NEW cs \in Index, NewChatOver(cs)
    PROVE  ScreenType' /\ pending' \in BOOLEAN
<1>1. CASE sending \/ OnBlank
  BY <1>1, TypeParts DEF NewChatOver, ScreenType, RunType
<1>2. CASE ~(sending \/ OnBlank)
  BY <1>2, TypeParts, BlankTyped DEF NewChatOver, ScreenType
<1> QED BY <1>1, <1>2

LEMMA AdoptTyped ==
    ASSUME TypeOK, NEW c \in Convs, NEW got \in Conversation, Adopt(c, got),
           convs' = convs, unsaved' = unsaved, used' = used
    PROVE  ScreenType' /\ pending' \in BOOLEAN
BY TypeParts DEF Adopt, ScreenType, Conversation

LEMMA AskIs ==
    ASSUME TypeOK, NEW kind \in Kinds \ {"none"}, NEW c \in Convs \cup {NoConv},
           NEW ix \in Index, Ask(kind, c, ix), kind \in {"select", "rename", "recent"} => c \in Convs
    PROVE  /\ TaskMoves
           /\ \E s \in Slots : /\ task[s] = NoTask /\ task'[s] = Asked(kind, c, ix)
                               /\ \A x \in Slots : x # s => task'[x] = task[x]
<1>1. PICK s \in Slots : /\ task[s] = NoTask
                         /\ task' = [task EXCEPT ![s] = Asked(kind, c, ix)]
  BY DEF Ask, Asked
<1>2. task \in [Slots -> Task]
  BY TypeParts DEF TaskType
<1>3. Asked(kind, c, ix) \in Task
  BY NoneAre DEF Asked, Task
<1>4. task'[s] = Asked(kind, c, ix) /\ \A x \in Slots : x # s => task'[x] = task[x]
  BY <1>1, <1>2
<1>5. TaskType'
  BY <1>1, <1>2, <1>3 DEF TaskType
<1>6. task[s].at # "queued" /\ Asked(kind, c, ix).at # "queued"
      /\ Asked(kind, c, ix).kind = kind /\ Asked(kind, c, ix).conv = c
  BY <1>1, NoneAre DEF Asked
<1>7. TaskMoves
  BY <1>4, <1>5, <1>6 DEF TaskMoves
<1> QED BY <1>1, <1>4, <1>7

\* The end of a task.
LEMMA DoneIs ==
    ASSUME TypeOK, NEW s \in Slots, task[s].at # "queued", task' = [task EXCEPT ![s] = NoTask]
    PROVE  TaskMoves /\ task'[s] = NoTask /\ \A x \in Slots : x # s => task'[x] = task[x]
<1>1. task \in [Slots -> Task]
  BY TypeParts DEF TaskType
<1>2. task'[s] = NoTask /\ \A x \in Slots : x # s => task'[x] = task[x]
  BY <1>1
<1>3. TaskType'
  BY <1>1, NoneAre DEF TaskType
<1> QED BY <1>2, <1>3, NoneAre DEF TaskMoves

LEMMA TaskIs ==
    ASSUME TypeOK, NEW s \in Slots
    PROVE  /\ task[s] \in Task /\ task[s].got \in Conversation /\ task[s].index \in Index
           /\ task[s].conv \in Convs \cup {NoConv} /\ task[s].kind \in Kinds
BY TypeParts DEF TaskType, Task

(***************************************************************************)
(* Every step keeps the types                                              *)
(***************************************************************************)

LEMMA InitTyped == Init => TypeOK /\ JobsInv
<1> SUFFICES ASSUME Init PROVE TypeOK /\ JobsInv
  OBVIOUS
<1>1. \A c \in Old : c \in MsgIds /\ c \in Convs
  BY ConvAssumption DEF MsgIds
<1>2. \A c \in Old : <<User(c)>> \in Seq(Msg)
  <2> TAKE c \in Old
  <2>1. User(c) \in Msg
    BY <1>1 DEF User, Msg
  <2> QED BY <2>1
<1>3. files \in [Convs -> Conversation]
  <2>1. \A c \in Old : [title |-> "auto", msgs |-> <<User(c)>>] \in Conversation
    BY <1>2 DEF Conversation, Titles
  <2> QED BY <2>1, NoneAre DEF Init
<1>4. index \in Index
  <2>1. DOMAIN index = Old /\ index \in [Old -> Titles]
    BY DEF Init, Titles
  <2> QED BY <2>1, IndexIs, ConvAssumption
<1>5. ScreenType
  <2>1. << >> \in Seq(Msg)
    OBVIOUS
  <2> QED BY <2>1, ConvAssumption, NoneAre DEF Init, ScreenType, Titles
<1>6. RunType
  BY DEF Init, RunType
<1>7. PastType
  <2>1. home \in [MsgIds -> Convs \cup {NoConv}]
    BY <1>1 DEF Init
  <2>2. 0 \in 0..MaxMsgs /\ 0 \in 0..MaxQuits
    BY BoundAssumption
  <2> QED BY <1>1, <2>1, <2>2 DEF Init, PastType
<1>8. QueueType
  <2>1. << >> \in Seq(Job)
    OBVIOUS
  <2>2. queue = << >>
    BY Zenon DEF Init
  <2>3. DOMAIN queue = {}
    BY <2>2
  <2> QED BY <2>1, <2>2, <2>3 DEF QueueType
<1>9. DiskType
  BY <1>3, <1>4 DEF Init, DiskType
<1>10. TaskType
  BY NoneAre DEF Init, TaskType
<1>11. JobsInv
  <2>1. queue = << >> /\ task = [s \in Slots |-> NoTask]
    BY Zenon DEF Init
  <2>2. DOMAIN queue = {} /\ \A s \in Slots : task[s] = NoTask
    BY <2>1
  <2> QED BY <2>2, NoneAre DEF JobsInv
<1> QED
  BY <1>5, <1>6, <1>7, <1>8, <1>9, <1>10, <1>11, TypeParts

LEMMA AllTyped ==
    ASSUME ScreenType', RunType', PastType', DiskType', QueueType', TaskType'
    PROVE  TypeOK'
BY DEF TypeOK, ScreenType, RunType, PastType, QueueType, DiskType, TaskType

\* What a new message is.
LEMMA NextIds ==
    ASSUME TypeOK
    PROVE  /\ count \in Nat
           /\ count < MaxMsgs => /\ count + 1 \in MsgIds /\ count + 1 \in 0..MaxMsgs
                                 /\ Note(count + 1) \in Msg /\ User(count + 1) \in Msg
           /\ count + 2 <= MaxMsgs => count < MaxMsgs /\ count + 2 \in MsgIds /\ count + 2 \in 0..MaxMsgs
           /\ \A s \in streams : /\ s \in [msg : MsgIds, at : {"start", "open", "pended"}]
                                 /\ s.msg \in MsgIds /\ Reply(s.msg) \in Msg
<1>1. count \in 0..MaxMsgs /\ MaxMsgs \in Nat
  BY TypeParts, BoundAssumption DEF PastType
<1>2. count < MaxMsgs => count + 1 \in MsgIds /\ count + 1 \in 0..MaxMsgs
  BY <1>1 DEF MsgIds
<1>3. count + 2 <= MaxMsgs => count < MaxMsgs /\ count + 2 \in MsgIds /\ count + 2 \in 0..MaxMsgs
  BY <1>1 DEF MsgIds
<1>4. \A s \in streams : s \in [msg : MsgIds, at : {"start", "open", "pended"}]
  BY TypeParts DEF RunType
<1> QED
  BY <1>1, <1>2, <1>3, <1>4 DEF Note, User, Reply, Msg

LEMMA TasksKept == ASSUME TypeOK, task' = task PROVE TaskMoves
BY TypeParts DEF TaskMoves, TaskType

LEMMA SendTyped ==
    ASSUME TypeOK, JobsInv, HalfInv, Send PROVE TypeOK' /\ JobsInv' /\ HalfInv'
<1>1. /\ count < MaxMsgs /\ count + 1 \in MsgIds /\ count + 2 \in MsgIds /\ count + 2 \in 0..MaxMsgs
      /\ User(count + 1) \in Msg /\ count \in Nat /\ count + 1 + 1 = count + 2
  <2>1. count + 2 <= MaxMsgs /\ count \in Nat
    BY NextIds DEF Send
  <2> QED BY <2>1, NextIds
<1>2. chat' = Append(chat, User(count + 1)) /\ chat \in Seq(Msg)
  BY TypeParts DEF Send, ScreenType
<1>3. chat' \in Seq(Msg)
  BY <1>1, <1>2, AppendIs
<1>4. PICK t \in Titles : PersistActive(chat', t)
  <2>1. (IF title = "New chat" THEN "auto" ELSE title) \in Titles
    BY TypeParts DEF ScreenType, Titles
  <2> QED BY <2>1 DEF Send
<1>5. ScreenType' /\ QueueGrows
  BY <1>3, <1>4, PersistTyped
<1>6. PastType'
  <2>1. /\ home' = [home EXCEPT ![count + 1] = active', ![count + 2] = active']
        /\ turns' = turns \cup {count + 1} /\ count' = count + 2
        /\ gone' = gone /\ quits' = quits /\ stale' = stale /\ crossed' = crossed /\ cut' = cut
    BY <1>1 DEF Send, Early
  <2>2. early' \in BOOLEAN
    BY TypeParts DEF Send, Early, PastType
  <2>3. active' \in Convs \cup {NoConv}
    BY <1>5 DEF ScreenType
  <2> QED BY <1>1, <2>1, <2>2, <2>3, TypeParts DEF PastType
<1>7. RunType'
  <2>1. /\ restore' = restore /\ sending' = TRUE /\ pending' = pending
        /\ streams' = streams \cup {[msg |-> count + 2, at |-> "start"]}
    BY <1>1 DEF Send, Early
  <2> QED BY <1>1, <2>1, TypeParts DEF RunType
<1>8. DiskType' /\ TaskMoves
  BY TypeParts, TasksKept DEF Send, disk, DiskType
<1>9. files' = files /\ half' = half
  BY DEF Send, store, disk
<1> QED
  BY <1>5, <1>6, <1>7, <1>8, <1>9, JobsKept, AllTyped

LEMMA OpenStreamTyped ==
    ASSUME TypeOK, JobsInv, HalfInv, NEW s \in streams, OpenStream(s)
    PROVE  TypeOK' /\ JobsInv' /\ HalfInv'
<1>1. s \in [msg : MsgIds, at : {"start", "open", "pended"}] /\ Reply(s.msg) \in Msg
  BY NextIds
<1>2. ScreenType'
  <2>1. chat' \in Seq(Msg)
    BY <1>1, AppendIs, TypeParts DEF OpenStream, ScreenType
  <2> QED BY <2>1, TypeParts DEF OpenStream, ScreenType
<1>3. RunType'
  <2>1. [s EXCEPT !.at = "open"] \in [msg : MsgIds, at : {"start", "open", "pended"}]
    BY <1>1
  <2> QED BY <2>1, TypeParts DEF OpenStream, RunType
<1>4. PastType'
  BY TypeParts DEF OpenStream, PastType, past, said, flags
<1>5. DiskType' /\ TaskMoves /\ QueueGrows
  BY TypeParts, TasksKept DEF OpenStream, store, disk, DiskType, QueueGrows
<1>6. files' = files /\ half' = half
  BY DEF OpenStream, store, disk
<1> QED
  BY <1>2, <1>3, <1>4, <1>5, <1>6, JobsKept, AllTyped

LEMMA RemoveIs ==
    ASSUME NEW S, NEW q \in Seq(S), NEW i \in DOMAIN q
    PROVE  /\ RemoveAt(q, i) \in Seq(S)
           /\ \A k \in DOMAIN RemoveAt(q, i) : \E j \in DOMAIN q : RemoveAt(q, i)[k] = q[j]
           /\ \A j \in DOMAIN q : j # i => \E k \in DOMAIN RemoveAt(q, i) : RemoveAt(q, i)[k] = q[j]
<1>1. Len(q) \in Nat /\ DOMAIN q = 1..Len(q) /\ i \in 1..Len(q)
  BY LenProperties
<1> DEFINE a == SubSeq(q, 1, i - 1)  b == SubSeq(q, i + 1, Len(q))
<1>2. /\ a \in Seq(S) /\ Len(a) = i - 1 /\ \A k \in 1..(i - 1) : a[k] = q[k]
  <2>1. 1 \in Int /\ i - 1 \in Int /\ \A k \in 1..(i - 1) : q[k] \in S
    BY <1>1, ElementOfSeq
  <2>2. /\ a \in Seq(S) /\ Len(a) = IF 1 <= i - 1 THEN i - 1 - 1 + 1 ELSE 0
        /\ \A k \in 1..(i - 1 - 1 + 1) : a[k] = q[1 + k - 1]
    BY <2>1, SubSeqProperties
  <2> HIDE DEF a
  <2> QED BY <1>1, <2>2
<1>3. /\ b \in Seq(S) /\ Len(b) = Len(q) - i /\ \A k \in 1..(Len(q) - i) : b[k] = q[i + k]
  <2>1. i + 1 \in Int /\ Len(q) \in Int /\ \A k \in (i + 1)..Len(q) : q[k] \in S
    BY <1>1, ElementOfSeq
  <2>2. /\ b \in Seq(S) /\ Len(b) = IF i + 1 <= Len(q) THEN Len(q) - (i + 1) + 1 ELSE 0
        /\ \A k \in 1..(Len(q) - (i + 1) + 1) : b[k] = q[i + 1 + k - 1]
    BY <2>1, SubSeqProperties
  <2> HIDE DEF b
  <2>3. Len(b) = Len(q) - i
    BY <1>1, <2>2
  <2>4. \A k \in 1..(Len(q) - i) : b[k] = q[i + k]
    <3> TAKE k \in 1..(Len(q) - i)
    <3>1. k \in 1..(Len(q) - (i + 1) + 1) /\ i + 1 + k - 1 = i + k
      BY <1>1
    <3>2. b[k] = q[i + 1 + k - 1]
      BY <2>2, <3>1
    <3> QED BY <3>1, <3>2
  <2> QED BY <2>2, <2>3, <2>4
<1>4. RemoveAt(q, i) = a \o b
  BY DEF RemoveAt
<1> HIDE DEF a, b
<1>5. /\ a \o b \in Seq(S) /\ Len(a \o b) = Len(a) + Len(b)
      /\ \A k \in 1..(Len(a) + Len(b)) : (a \o b)[k] = IF k <= Len(a) THEN a[k] ELSE b[k - Len(a)]
  BY <1>2, <1>3, ConcatProperties
<1>6. DOMAIN (a \o b) = 1..(Len(q) - 1) /\ Len(a) + Len(b) = Len(q) - 1
  <2>1. Len(a) + Len(b) = Len(q) - 1
    BY <1>1, <1>2, <1>3
  <2>2. DOMAIN (a \o b) = 1..Len(a \o b)
    BY <1>5, LenProperties
  <2> QED BY <2>1, <2>2, <1>5
<1>7. \A k \in 1..(Len(q) - 1) : (a \o b)[k] = IF k <= i - 1 THEN q[k] ELSE q[k + 1]
  <2> TAKE k \in 1..(Len(q) - 1)
  <2>0. (a \o b)[k] = IF k <= Len(a) THEN a[k] ELSE b[k - Len(a)]
    BY <1>5, <1>6
  <2>1. CASE k <= i - 1
    <3>1. k \in 1..(i - 1)
      BY <1>1, <2>1
    <3> QED BY <1>2, <2>0, <2>1, <3>1
  <2>2. CASE ~(k <= i - 1)
    <3>1. k - (i - 1) \in 1..(Len(q) - i) /\ i + (k - (i - 1)) = k + 1
      BY <1>1, <2>2
    <3>2. (a \o b)[k] = b[k - (i - 1)]
      BY <1>2, <2>0, <2>2
    <3>3. b[k - (i - 1)] = q[i + (k - (i - 1))]
      BY <3>1, <1>3
    <3> QED BY <3>1, <3>2, <3>3, <2>2
  <2> QED BY <2>1, <2>2
<1>8. \A k \in 1..(Len(q) - 1) : \E j \in DOMAIN q : (a \o b)[k] = q[j]
  <2> TAKE k \in 1..(Len(q) - 1)
  <2>1. k \in DOMAIN q /\ k + 1 \in DOMAIN q
    BY <1>1
  <2> QED BY <1>7, <2>1
<1>9. \A j \in DOMAIN q : j # i => \E k \in 1..(Len(q) - 1) : (a \o b)[k] = q[j]
  <2> SUFFICES ASSUME NEW j \in DOMAIN q, j # i PROVE \E k \in 1..(Len(q) - 1) : (a \o b)[k] = q[j]
    OBVIOUS
  <2>1. CASE j < i
    <3>1. j \in 1..(Len(q) - 1) /\ j <= i - 1
      BY <1>1, <2>1
    <3>2. (a \o b)[j] = q[j]
      BY <3>1, <1>7
    <3> QED BY <3>1, <3>2
  <2>2. CASE j > i
    <3>1. j - 1 \in 1..(Len(q) - 1) /\ ~(j - 1 <= i - 1) /\ j - 1 + 1 = j
      BY <1>1, <2>2
    <3>2. (a \o b)[j - 1] = q[j]
      BY <3>1, <1>7
    <3> QED BY <3>1, <3>2
  <2>3. j < i \/ j > i
    BY <1>1
  <2> QED BY <2>1, <2>2, <2>3
<1> QED
  BY <1>4, <1>5, <1>6, <1>8, <1>9

LEMMA StreamPendsTyped ==
    ASSUME TypeOK, JobsInv, HalfInv, NEW s \in streams, StreamPends(s)
    PROVE  TypeOK' /\ JobsInv' /\ HalfInv'
<1>1. s \in [msg : MsgIds, at : {"start", "open", "pended"}]
  BY NextIds
<1>2. ScreenType'
  <2>1. chat' \in Seq(Msg)
    BY <1>1, RemoveIs, TypeParts DEF StreamPends, ScreenType
  <2> QED BY <2>1, TypeParts DEF StreamPends, ScreenType
<1>3. RunType'
  <2>1. [s EXCEPT !.at = "pended"] \in [msg : MsgIds, at : {"start", "open", "pended"}]
    BY <1>1
  <2> QED BY <2>1, TypeParts DEF StreamPends, RunType
<1>4. PastType'
  BY TypeParts DEF StreamPends, PastType, past, said, flags
<1>5. DiskType' /\ TaskMoves /\ QueueGrows
  BY TypeParts, TasksKept DEF StreamPends, store, disk, DiskType, QueueGrows
<1>6. files' = files /\ half' = half
  BY DEF StreamPends, store, disk
<1> QED
  BY <1>2, <1>3, <1>4, <1>5, <1>6, JobsKept, AllTyped

LEMMA CloseStreamTyped ==
    ASSUME TypeOK, JobsInv, HalfInv, NEW s \in streams, CloseStream(s)
    PROVE  TypeOK' /\ JobsInv' /\ HalfInv'
<1>1. chat' \in Seq(Msg) /\ chat' = chat /\ title \in Titles
  BY TypeParts DEF CloseStream, ScreenType
<1>2. PersistActive(chat', title)
  BY <1>1 DEF CloseStream
<1>3. ScreenType' /\ QueueGrows
  BY <1>1, <1>2, PersistTyped
<1>4. RunType'
  BY TypeParts DEF CloseStream, RunType
<1>5. PastType'
  BY TypeParts DEF CloseStream, PastType, past, said, flags
<1>6. DiskType' /\ TaskMoves
  BY TypeParts, TasksKept DEF CloseStream, disk, DiskType
<1>7. files' = files /\ half' = half
  BY DEF CloseStream, store, disk
<1> QED
  BY <1>3, <1>4, <1>5, <1>6, <1>7, JobsKept, AllTyped

LEMMA ApproveTyped ==
    ASSUME TypeOK, JobsInv, HalfInv, Approve PROVE TypeOK' /\ JobsInv' /\ HalfInv'
<1>1. count + 1 \in MsgIds /\ count + 1 \in 0..MaxMsgs
  BY NextIds DEF Approve
<1>2. ScreenType'
  BY TypeParts DEF Approve, ScreenType
<1>3. RunType'
  <2>1. [msg |-> count + 1, at |-> "start"] \in [msg : MsgIds, at : {"start", "open", "pended"}]
    BY <1>1
  <2> QED BY <2>1, TypeParts DEF Approve, RunType
<1>4. PastType'
  <2>1. home' \in [MsgIds -> Convs \cup {NoConv}]
    BY <1>1, TypeParts DEF Approve, PastType, ScreenType
  <2>2. crossed' \in BOOLEAN
    BY DEF Approve
  <2> QED BY <1>1, <2>1, <2>2, TypeParts DEF Approve, PastType
<1>5. DiskType' /\ TaskMoves /\ QueueGrows
  BY TypeParts, TasksKept DEF Approve, store, disk, DiskType, QueueGrows
<1>6. files' = files /\ half' = half
  BY DEF Approve, store, disk
<1> QED
  BY <1>2, <1>3, <1>4, <1>5, <1>6, JobsKept, AllTyped

LEMMA DenyTyped ==
    ASSUME TypeOK, JobsInv, HalfInv, Deny PROVE TypeOK' /\ JobsInv' /\ HalfInv'
<1>1. count + 1 \in MsgIds /\ count + 1 \in 0..MaxMsgs /\ Note(count + 1) \in Msg
  BY NextIds DEF Deny
<1>2. chat' \in Seq(Msg) /\ title \in Titles
  BY <1>1, AppendIs, TypeParts DEF Deny, ScreenType
<1>3. ScreenType' /\ QueueGrows
  BY <1>2, PersistTyped DEF Deny
<1>4. RunType'
  BY TypeParts DEF Deny, RunType
<1>5. PastType'
  BY <1>1, <1>3, TypeParts DEF Deny, Say, PastType, ScreenType, flags
<1>6. DiskType' /\ TaskMoves
  BY TypeParts, TasksKept DEF Deny, disk, DiskType
<1>7. files' = files /\ half' = half
  BY DEF Deny, store, disk
<1> QED
  BY <1>3, <1>4, <1>5, <1>6, <1>7, JobsKept, AllTyped

LEMMA ImportTyped ==
    ASSUME TypeOK, JobsInv, HalfInv, Import PROVE TypeOK' /\ JobsInv' /\ HalfInv'
<1>1. /\ count + 1 \in MsgIds /\ count + 1 \in 0..MaxMsgs /\ User(count + 1) \in Msg
  <2>1. count + 2 <= MaxMsgs
    BY DEF Import
  <2> QED BY <2>1, NextIds
<1>2. chat' \in Seq(Msg) /\ title \in Titles
  BY <1>1, AppendIs, TypeParts DEF Import, ScreenType
<1>3. ScreenType' /\ QueueGrows
  BY <1>2, PersistTyped DEF Import
<1>4. RunType'
  BY TypeParts DEF Import, Early, RunType
<1>5. PastType'
  <2>1. early' \in BOOLEAN
    BY TypeParts DEF Import, Early, PastType
  <2> QED BY <1>1, <1>3, <2>1, TypeParts DEF Import, Early, Say, PastType, ScreenType
<1>6. TaskMoves
  BY NoneAre, AskIs DEF Import, Kinds
<1>7. DiskType'
  BY TypeParts DEF Import, disk, DiskType
<1>8. files' = files /\ half' = half
  BY DEF Import, store, disk
<1> QED
  BY <1>3, <1>4, <1>5, <1>6, <1>7, <1>8, JobsKept, AllTyped

LEMMA ImportEndsTyped ==
    ASSUME TypeOK, JobsInv, HalfInv, NEW s \in Slots, ImportEnds(s)
    PROVE  TypeOK' /\ JobsInv' /\ HalfInv'
<1>1. count + 1 \in MsgIds /\ count + 1 \in 0..MaxMsgs /\ Note(count + 1) \in Msg
  BY NextIds DEF ImportEnds
<1>2. chat' \in Seq(Msg) /\ title \in Titles
  BY <1>1, AppendIs, TypeParts DEF ImportEnds, ScreenType
<1>3. ScreenType' /\ QueueGrows
  BY <1>2, PersistTyped DEF ImportEnds
<1>4. RunType'
  BY TypeParts DEF ImportEnds, RunType
<1>5. PastType'
  BY <1>1, <1>3, TypeParts DEF ImportEnds, Say, PastType, ScreenType, flags
<1>6. TaskMoves
  BY DoneIs DEF ImportEnds, JobsInv
<1>7. DiskType'
  BY TypeParts DEF ImportEnds, disk, DiskType
<1>8. files' = files /\ half' = half
  BY DEF ImportEnds, store, disk
<1> QED
  BY <1>3, <1>4, <1>5, <1>6, <1>7, <1>8, JobsKept, AllTyped

LEMMA NewChatStepTyped ==
    ASSUME TypeOK, JobsInv, HalfInv, NewChat PROVE TypeOK' /\ JobsInv' /\ HalfInv'
<1>1. ScreenType' /\ pending' \in BOOLEAN
  BY BlankTyped, TypeParts DEF NewChat, ScreenType
<1>2. RunType'
  BY <1>1, TypeParts DEF NewChat, Early, RunType
<1>3. PastType'
  <2>1. early' \in BOOLEAN
    BY TypeParts DEF NewChat, Early, PastType
  <2> QED BY <2>1, TypeParts DEF NewChat, Early, PastType, said
<1>4. DiskType' /\ TaskMoves /\ QueueGrows
  BY TypeParts, TasksKept DEF NewChat, store, disk, DiskType, QueueGrows
<1>5. files' = files /\ half' = half
  BY DEF NewChat, store, disk
<1> QED
  BY <1>1, <1>2, <1>3, <1>4, <1>5, JobsKept, AllTyped

LEMMA WithoutIs ==
    ASSUME NEW f \in Index, NEW c
    PROVE  /\ Without(f, c) \in Index /\ DOMAIN Without(f, c) = DOMAIN f \ {c}
           /\ \A x \in DOMAIN f \ {c} : Without(f, c)[x] = f[x]
BY RestrictIs DEF Without

LEMMA SelectTyped ==
    ASSUME TypeOK, JobsInv, HalfInv, NEW c \in Convs, Select(c)
    PROVE  TypeOK' /\ JobsInv' /\ HalfInv'
<1>1. ScreenType'
  BY WithoutIs, TypeParts DEF Select, ScreenType
<1>2. RunType'
  BY TypeParts DEF Select, Early, RunType
<1>3. PastType'
  <2>1. early' \in BOOLEAN
    BY TypeParts DEF Select, Early, PastType
  <2> QED BY <2>1, TypeParts DEF Select, Early, PastType, said
<1>4. TaskMoves
  BY NoneAre, AskIs DEF Select, Kinds
<1>5. DiskType' /\ QueueGrows
  BY TypeParts DEF Select, store, disk, DiskType, QueueGrows
<1>6. files' = files /\ half' = half
  BY DEF Select, store, disk
<1> QED
  BY <1>1, <1>2, <1>3, <1>4, <1>5, <1>6, JobsKept, AllTyped

LEMMA AnsweredIs ==
    ASSUME TypeOK, JobsInv, NEW s \in Slots, NEW kind, Answered(s, kind)
    PROVE  /\ task[s].at # "queued" /\ task[s] # NoTask /\ task[s].kind = kind
           /\ task[s].got \in Conversation /\ task[s].index \in Index
           /\ kind \in {"select", "rename", "recent"} => task[s].conv \in Convs
BY TaskIs, NoneAre DEF Answered, JobsInv

LEMMA SelectEndsTyped ==
    ASSUME TypeOK, JobsInv, HalfInv, NEW s \in Slots, SelectEnds(s)
    PROVE  TypeOK' /\ JobsInv' /\ HalfInv'
<1>1. /\ task[s].at # "queued" /\ task[s].got \in Conversation /\ task[s].conv \in Convs
  BY AnsweredIs DEF SelectEnds
<1>2. ScreenType' /\ pending' \in BOOLEAN /\ stale' \in BOOLEAN
  <2>1. CASE sending
    BY <2>1, TypeParts DEF SelectEnds, ScreenType, RunType, PastType, screen
  <2>2. CASE ~sending /\ task[s].got = NoFile
    <3>1. NewChatOver(convs) /\ stale' = stale
      BY <2>2 DEF SelectEnds
    <3> QED BY <3>1, NewChatTyped, TypeParts DEF ScreenType, PastType
  <2>3. CASE ~sending /\ task[s].got # NoFile
    <3>1. /\ Adopt(task[s].conv, task[s].got) /\ convs' = convs /\ unsaved' = unsaved
          /\ used' = used /\ stale' = (stale \/ task[s].got # Latest(task[s].conv))
      BY <2>3 DEF SelectEnds
    <3> QED BY <1>1, <3>1, AdoptTyped, TypeParts DEF PastType
  <2> QED BY <2>1, <2>2, <2>3
<1>3. RunType'
  BY <1>2, TypeParts DEF SelectEnds, RunType
<1>4. PastType'
  BY <1>2, TypeParts DEF SelectEnds, PastType, said
<1>5. TaskMoves
  BY <1>1, DoneIs DEF SelectEnds
<1>6. DiskType' /\ QueueGrows
  BY TypeParts DEF SelectEnds, store, disk, DiskType, QueueGrows
<1>7. files' = files /\ half' = half
  BY DEF SelectEnds, store, disk
<1> QED
  BY <1>2, <1>3, <1>4, <1>5, <1>6, <1>7, JobsKept, AllTyped

LEMMA RenameActiveTyped ==
    ASSUME TypeOK, JobsInv, HalfInv, RenameActive PROVE TypeOK' /\ JobsInv' /\ HalfInv'
<1>1. chat' \in Seq(Msg) /\ chat' = chat /\ "named" \in Titles
  BY TypeParts DEF RenameActive, ScreenType, Titles
<1>2. PersistActive(chat', "named")
  BY <1>1 DEF RenameActive
<1>3. ScreenType' /\ QueueGrows
  BY <1>1, <1>2, PersistTyped
<1>4. RunType'
  BY TypeParts DEF RenameActive, Early, RunType
<1>5. PastType'
  <2>1. early' \in BOOLEAN
    BY TypeParts DEF RenameActive, Early, PastType
  <2> QED BY <2>1, TypeParts DEF RenameActive, Early, PastType, said
<1>6. DiskType' /\ TaskMoves
  BY TypeParts, TasksKept DEF RenameActive, disk, DiskType
<1>7. files' = files /\ half' = half
  BY DEF RenameActive, store, disk
<1> QED
  BY <1>3, <1>4, <1>5, <1>6, <1>7, JobsKept, AllTyped

LEMMA RenameOtherTyped ==
    ASSUME TypeOK, JobsInv, HalfInv, NEW c \in Convs, RenameOther(c)
    PROVE  TypeOK' /\ JobsInv' /\ HalfInv'
<1>1. convs' \in Index
  <2>1. convs \in Index /\ convs' = [convs EXCEPT ![c] = "named"] /\ c \in DOMAIN convs
    BY TypeParts DEF RenameOther, ScreenType
  <2>2. convs \in [DOMAIN convs -> Titles] /\ DOMAIN convs \subseteq Convs
    BY <2>1, IndexIs
  <2>3. DOMAIN convs' = DOMAIN convs /\ convs' \in [DOMAIN convs -> Titles]
    BY <2>1, <2>2 DEF Titles
  <2> QED BY <2>2, <2>3, IndexIs
<1>2. ScreenType'
  BY <1>1, TypeParts DEF RenameOther, ScreenType
<1>3. RunType'
  BY TypeParts DEF RenameOther, Early, RunType
<1>4. PastType'
  <2>1. early' \in BOOLEAN
    BY TypeParts DEF RenameOther, Early, PastType
  <2> QED BY <2>1, TypeParts DEF RenameOther, Early, PastType, said
<1>5. TaskMoves
  BY <1>1, AskIs DEF RenameOther, Kinds
<1>6. DiskType' /\ QueueGrows
  BY TypeParts DEF RenameOther, store, disk, DiskType, QueueGrows
<1>7. files' = files /\ half' = half
  BY DEF RenameOther, store, disk
<1> QED
  BY <1>2, <1>3, <1>4, <1>5, <1>6, <1>7, JobsKept, AllTyped

LEMMA RenameEndsTyped ==
    ASSUME TypeOK, JobsInv, HalfInv, NEW s \in Slots, RenameEnds(s)
    PROVE  TypeOK' /\ JobsInv' /\ HalfInv'
<1>1. /\ task[s].at # "queued" /\ task[s].got \in Conversation /\ task[s].conv \in Convs
      /\ task[s].index \in Index
  BY AnsweredIs DEF RenameEnds
<1>2. QueueGrows /\ stale' \in BOOLEAN
  <2>1. CASE task[s].got = NoFile
    BY <2>1, TypeParts DEF RenameEnds, QueueGrows, PastType
  <2>2. CASE task[s].got # NoFile
    <3> DEFINE new == [task[s].got EXCEPT !.title = "named"]
               j == SaveJob(task[s].conv, new, task[s].index)
    <3>1. new \in Conversation /\ new.title = "named"
      BY <1>1 DEF Conversation, Titles
    <3>2. new # NoFile
      BY <3>1, NoneAre
    <3>3. j \in Job /\ Writes(j)
      <4> HIDE DEF new
      <4> QED BY <1>1, <3>1, <3>2 DEF Writes, SaveJob, Job
    <3>4. queue' = Append(queue, j) /\ stale' \in BOOLEAN
      BY <2>2 DEF RenameEnds
    <3> QED BY <3>3, <3>4 DEF QueueGrows
  <2> QED BY <2>1, <2>2
<1>3. ScreenType'
  BY TypeParts DEF RenameEnds, ScreenType, screen
<1>4. RunType'
  BY TypeParts DEF RenameEnds, RunType, screen
<1>5. PastType'
  BY <1>2, TypeParts DEF RenameEnds, PastType, said
<1>6. TaskMoves
  BY <1>1, DoneIs DEF RenameEnds
<1>7. DiskType'
  BY TypeParts DEF RenameEnds, disk, DiskType
<1>8. files' = files /\ half' = half
  BY DEF RenameEnds, store, disk
<1> QED
  BY <1>2, <1>3, <1>4, <1>5, <1>6, <1>7, <1>8, JobsKept, AllTyped

\* The three ways a deletion goes on: another conversation is on screen, one is
\* left to select, or none is.
DeletesOther(c) ==
    /\ c # active /\ active' = active /\ title' = title /\ chat' = chat /\ pending' = pending
    /\ used' = used /\ task' = task /\ convs' = Without(convs, c) /\ unsaved' = unsaved \ {c}
DeletesShown(c) ==
    /\ c = active /\ active' = NoConv /\ chat' = <<>> /\ title' = title /\ pending' = pending
    /\ used' = used /\ convs' = Without(convs, c) /\ unsaved' = unsaved \ {c}
    /\ \E next \in DOMAIN Without(convs, c) : Ask("select", next, NoIndex)
DeletesLast(c) ==
    /\ c = active /\ task' = task /\ Without(convs, c) = NoIndex
    /\ Blank(Without(convs, c), unsaved \ {c})

Listed(c) == LET left == Without(convs, c)  tiles == unsaved \ {c}
             IN  Restrict(left, DOMAIN left \ tiles)

LEMMA DeleteIs ==
    ASSUME NEW c \in Convs, Delete(c)
    PROVE  /\ Acts /\ ~sending /\ c \in DOMAIN convs
           /\ queue' = Append(queue, DeleteJob(c, Listed(c)))
           /\ DeletesOther(c) \/ DeletesShown(c) \/ DeletesLast(c)
           /\ gone' = gone \cup {c} /\ Early
           /\ sending' = sending /\ streams' = streams /\ files' = files /\ index' = index
           /\ half' = half /\ home' = home /\ turns' = turns /\ count' = count
<1>1. /\ Acts /\ ~sending /\ c \in DOMAIN convs
      /\ queue' = Append(queue, DeleteJob(c, Listed(c)))
      /\ gone' = gone \cup {c} /\ Early
      /\ sending' = sending /\ streams' = streams /\ files' = files /\ index' = index
      /\ half' = half /\ home' = home /\ turns' = turns /\ count' = count
  BY DEF Delete, Listed, disk, said
<1>2. DeletesOther(c) \/ DeletesShown(c) \/ DeletesLast(c)
  BY Zenon DEF Delete, DeletesOther, DeletesShown, DeletesLast
<1> QED BY <1>1, <1>2

LEMMA DeletedTyped ==
    ASSUME TypeOK, JobsInv, HalfInv, NEW c \in Convs, Delete(c)
    PROVE  TypeOK' /\ JobsInv' /\ HalfInv'
<1>1. /\ Without(convs, c) \in Index /\ unsaved \ {c} \in SUBSET Convs
      /\ DOMAIN Without(convs, c) \subseteq Convs /\ Listed(c) \in Index
  <2>1. Without(convs, c) \in Index
    BY WithoutIs, TypeParts DEF ScreenType
  <2>2. Listed(c) \in Index
    BY <2>1, RestrictIs DEF Listed
  <2> QED BY <2>1, <2>2, IndexIs, TypeParts DEF ScreenType
<1>2. /\ DeletesOther(c) \/ DeletesShown(c) \/ DeletesLast(c)
      /\ queue' = Append(queue, DeleteJob(c, Listed(c)))
  BY DeleteIs
<1>3. ScreenType' /\ pending' \in BOOLEAN /\ TaskMoves
  <2>1. CASE DeletesOther(c)
    <3>1. ScreenType' /\ pending' = pending
      BY <1>1, <2>1, TypeParts DEF DeletesOther, ScreenType
    <3> QED BY <2>1, <3>1, TasksKept, TypeParts DEF DeletesOther, RunType
  <2>2. CASE DeletesShown(c)
    <3>1. ScreenType' /\ pending' = pending
      <4>1. << >> \in Seq(Msg)
        OBVIOUS
      <4> QED BY <1>1, <2>2, <4>1, TypeParts DEF DeletesShown, ScreenType
    <3>2. PICK next \in Convs : Ask("select", next, NoIndex)
      BY <1>1, <2>2 DEF DeletesShown
    <3>3. TaskMoves
      BY <3>2, NoneAre, AskIs DEF Kinds
    <3> QED BY <3>1, <3>3, TypeParts DEF RunType
  <2>3. CASE DeletesLast(c)
    <3>1. ScreenType' /\ pending' \in BOOLEAN
      BY <1>1, <2>3, BlankTyped, TypeParts DEF DeletesLast, ScreenType
    <3> QED BY <2>3, <3>1, TasksKept DEF DeletesLast
  <2> QED BY <1>2, <2>1, <2>2, <2>3
<1>4. QueueGrows
  <2>1. DeleteJob(c, Listed(c)) \in Job /\ Writes(DeleteJob(c, Listed(c)))
    BY <1>1, NoneAre DEF DeleteJob, Job, Writes
  <2> QED BY <1>2, <2>1 DEF QueueGrows
<1>5. RunType'
  BY <1>3, DeleteIs, TypeParts DEF Early, RunType
<1>6. PastType'
  <2>1. early' \in BOOLEAN
    BY DeleteIs, TypeParts DEF Early, PastType
  <2> QED BY <2>1, DeleteIs, TypeParts DEF Early, PastType
<1>7. DiskType'
  BY DeleteIs, TypeParts DEF DiskType
<1>8. files' = files /\ half' = half
  BY DeleteIs
<1> QED
  BY <1>3, <1>4, <1>5, <1>6, <1>7, <1>8, JobsKept, AllTyped

LEMMA RestoreBeginsTyped ==
    ASSUME TypeOK, JobsInv, HalfInv, RestoreBegins PROVE TypeOK' /\ JobsInv' /\ HalfInv'
<1>1. ScreenType' /\ RunType'
  BY TypeParts DEF RestoreBegins, ScreenType, RunType, screen
<1>2. PastType'
  BY TypeParts DEF RestoreBegins, PastType, past, said, flags
<1>3. TaskMoves
  BY NoneAre, AskIs DEF RestoreBegins, Kinds
<1>4. DiskType' /\ QueueGrows
  BY TypeParts DEF RestoreBegins, store, disk, DiskType, QueueGrows
<1>5. files' = files /\ half' = half
  BY DEF RestoreBegins, store, disk
<1> QED
  BY <1>1, <1>2, <1>3, <1>4, <1>5, JobsKept, AllTyped

\* The sidebar is read: the newest conversation is asked for, or there is none.
Recent(c) == Asked("recent", c, NoIndex)
RestoresSome(s) ==
    /\ task[s].index # NoIndex /\ convs' = task[s].index /\ restore' = "recent"
    /\ \E c \in DOMAIN convs' : task' = [task EXCEPT ![s] = Recent(c)]
    /\ active' = active /\ title' = title /\ chat' = chat /\ unsaved' = unsaved
    /\ pending' = pending /\ used' = used
RestoresNone(s) ==
    /\ task[s].index = NoIndex /\ restore' = "done" /\ task' = [task EXCEPT ![s] = NoTask]
    /\ NewChatOver(NoIndex)

LEMMA RestoreIndexIs ==
    ASSUME NEW s, RestoreIndex(s)
    PROVE  /\ Answered(s, "index")
           /\ RestoresSome(s) \/ RestoresNone(s)
           /\ sending' = sending /\ streams' = streams /\ store' = store /\ past' = past
<1>1. RestoresSome(s) \/ RestoresNone(s)
  <2>1. PICK ix : ix = task[s].index
    OBVIOUS
  <2>2. \/ /\ ix # NoIndex /\ convs' = ix /\ restore' = "recent"
           /\ \E c \in DOMAIN ix : task' = [task EXCEPT ![s] = Recent(c)]
           /\ UNCHANGED <<active, title, chat, unsaved, pending, used>>
        \/ /\ ix = NoIndex /\ NewChatOver(NoIndex)
           /\ task' = [task EXCEPT ![s] = NoTask] /\ restore' = "done"
    BY <2>1, Zenon DEF RestoreIndex, Recent
  <2> QED BY <2>1, <2>2 DEF RestoresSome, RestoresNone
<1> QED BY <1>1 DEF RestoreIndex

LEMMA RecentIs ==
    ASSUME TypeOK, NEW s \in Slots, NEW c \in Convs
    PROVE  /\ Recent(c) \in Task /\ Recent(c).kind = "recent" /\ Recent(c).at = "asked"
           /\ Recent(c).conv = c /\ Recent(c).got = NoFile /\ Recent(c).index = NoIndex
           /\ [task EXCEPT ![s] = Recent(c)] \in [Slots -> Task]
           /\ [task EXCEPT ![s] = Recent(c)][s] = Recent(c)
           /\ \A x \in Slots : x # s => [task EXCEPT ![s] = Recent(c)][x] = task[x]
<1>1. Recent(c) = [kind |-> "recent", at |-> "asked", conv |-> c, got |-> NoFile, index |-> NoIndex]
  BY DEF Recent, Asked
<1>2. Recent(c) \in Task
  <2>1. "recent" \in Kinds /\ c \in Convs \cup {NoConv} /\ NoFile \in Conversation /\ NoIndex \in Index
    BY NoneAre DEF Kinds
  <2> QED BY <1>1, <2>1 DEF Task
<1>3. task \in [Slots -> Task]
  BY TypeParts DEF TaskType
<1> QED BY <1>1, <1>2, <1>3

LEMMA RestoreIndexTyped ==
    ASSUME TypeOK, JobsInv, HalfInv, NEW s \in Slots, RestoreIndex(s)
    PROVE  TypeOK' /\ JobsInv' /\ HalfInv'
<1>1. task[s].at # "queued" /\ task[s].index \in Index
  BY RestoreIndexIs, AnsweredIs
<1>4. ScreenType' /\ pending' \in BOOLEAN /\ restore' \in {"recent", "done"} /\ TaskMoves
  <2>1. CASE RestoresSome(s)
    <3>1. ScreenType' /\ pending' \in BOOLEAN /\ restore' = "recent"
      BY <1>1, <2>1, TypeParts DEF RestoresSome, ScreenType, RunType
    <3>2. PICK c \in DOMAIN convs' : task' = [task EXCEPT ![s] = Recent(c)]
      BY <2>1 DEF RestoresSome
    <3>3. c \in Convs
      BY <1>1, <2>1, <3>2, IndexIs DEF RestoresSome
    <3>4. TaskMoves
      BY <1>1, <3>2, <3>3, RecentIs DEF TaskMoves, TaskType
    <3> QED BY <3>1, <3>4
  <2>2. CASE RestoresNone(s)
    BY <1>1, <2>2, NewChatTyped, NoneAre, DoneIs DEF RestoresNone
  <2> QED BY <2>1, <2>2, RestoreIndexIs
<1>5. RunType'
  BY <1>4, RestoreIndexIs, TypeParts DEF RunType
<1>6. PastType'
  BY RestoreIndexIs, TypeParts DEF PastType, past, said, flags
<1>7. DiskType' /\ QueueGrows
  BY RestoreIndexIs, TypeParts DEF store, disk, DiskType, QueueGrows
<1>8. files' = files /\ half' = half
  BY RestoreIndexIs DEF store, disk
<1> QED
  BY <1>4, <1>5, <1>6, <1>7, <1>8, JobsKept, AllTyped

LEMMA RestoreRecentTyped ==
    ASSUME TypeOK, JobsInv, HalfInv, NEW s \in Slots, RestoreRecent(s)
    PROVE  TypeOK' /\ JobsInv' /\ HalfInv'
<1>1. task[s].at # "queued" /\ task[s].got \in Conversation /\ task[s].conv \in Convs
  BY AnsweredIs DEF RestoreRecent
<1>2. ScreenType' /\ pending' \in BOOLEAN
  <2>1. CASE task[s].got = NoFile
    BY <2>1, NewChatTyped, TypeParts DEF RestoreRecent, ScreenType
  <2>2. CASE task[s].got # NoFile
    <3>1. /\ Adopt(task[s].conv, task[s].got) /\ convs' = convs /\ unsaved' = unsaved
          /\ used' = used
      BY <2>2 DEF RestoreRecent
    <3> QED BY <1>1, <3>1, AdoptTyped
  <2> QED BY <2>1, <2>2
<1>3. RunType'
  BY <1>2, TypeParts DEF RestoreRecent, RunType
<1>4. PastType'
  BY TypeParts DEF RestoreRecent, PastType, past, said, flags
<1>5. TaskMoves
  BY <1>1, DoneIs DEF RestoreRecent
<1>6. DiskType' /\ QueueGrows
  BY TypeParts DEF RestoreRecent, store, disk, DiskType, QueueGrows
<1>7. files' = files /\ half' = half
  BY DEF RestoreRecent, store, disk
<1> QED
  BY <1>2, <1>3, <1>4, <1>5, <1>6, <1>7, JobsKept, AllTyped

\* A load is added, of a task that was only asked for.
LEMMA SubmitIs ==
    ASSUME TypeOK, JobsInv, NEW s \in Slots, Submit(s)
    PROVE  /\ LoadJob(s) \in Job /\ LoadJob(s).op = "load" /\ LoadJob(s).slot = s
           /\ LoadJob(s).new = NoFile
           /\ task' \in [Slots -> Task] /\ task'[s] = [task[s] EXCEPT !.at = "queued"]
           /\ task[s].at = "asked" /\ task[s].kind \in {"select", "rename", "index", "recent"}
           /\ \A x \in Slots : x # s => task'[x] = task[x]
           /\ task'[s].at = "queued" /\ task'[s].kind = task[s].kind
           /\ task'[s].conv = task[s].conv /\ task'[s].got = task[s].got
           /\ task'[s].index = task[s].index
<1>1. task \in [Slots -> Task] /\ task[s] \in Task
  BY TypeParts DEF TaskType
<1>2. task' = [task EXCEPT ![s].at = "queued"] /\ task[s].at = "asked" /\ task[s].kind # "import"
  BY DEF Submit
<1>3. task[s].kind \in {"select", "rename", "index", "recent"}
  BY <1>1, <1>2, NoneAre DEF Task, Kinds, JobsInv
<1>4. [task[s] EXCEPT !.at = "queued"] \in Task
  BY <1>1 DEF Task
<1>5. task' \in [Slots -> Task] /\ task'[s] = [task[s] EXCEPT !.at = "queued"]
      /\ \A x \in Slots : x # s => task'[x] = task[x]
  BY <1>1, <1>2, <1>4
<1>6. /\ task'[s].at = "queued" /\ task'[s].kind = task[s].kind
      /\ task'[s].conv = task[s].conv /\ task'[s].got = task[s].got
      /\ task'[s].index = task[s].index
  BY <1>1, <1>5 DEF Task
<1>7. LoadJob(s) \in Job
  BY <1>1, NoneAre DEF LoadJob, Job, Task
<1> QED
  BY <1>2, <1>3, <1>5, <1>6, <1>7 DEF LoadJob

LEMMA SubmitTyped ==
    ASSUME TypeOK, JobsInv, HalfInv, NEW s \in Slots, Submit(s)
    PROVE  TypeOK' /\ JobsInv' /\ HalfInv'
<1>1. ScreenType' /\ RunType'
  BY TypeParts DEF Submit, ScreenType, RunType, screen
<1>2. PastType'
  BY TypeParts DEF Submit, PastType, past, said, flags
<1>3. DiskType' /\ TaskType'
  BY SubmitIs, TypeParts DEF Submit, disk, DiskType, TaskType
<1>4. queue \in Seq(Job) /\ LoadJob(s) \in Job /\ queue' = Append(queue, LoadJob(s))
  BY SubmitIs, TypeParts DEF QueueType, Submit
<1>5. /\ queue' \in Seq(Job) /\ Len(queue) \in Nat /\ DOMAIN queue = 1..Len(queue)
      /\ DOMAIN queue' = 1..(Len(queue) + 1) /\ queue'[Len(queue) + 1] = LoadJob(s)
      /\ \A k \in DOMAIN queue : queue'[k] = queue[k]
  BY <1>4, AppendIs
<1>6. \A k \in DOMAIN queue' : k \in DOMAIN queue \/ k = Len(queue) + 1
  BY <1>5
<1>7. LoadJob(s).op = "load" /\ LoadJob(s).slot = s
  BY SubmitIs
<1>8. QueueType'
  BY <1>5, <1>6, <1>7, TypeParts DEF QueueType
<1>9. \A k \in DOMAIN queue : queue[k].op = "load" =>
         queue[k].slot # s /\ queue[k].slot \in Slots /\ task'[queue[k].slot] = task[queue[k].slot]
  BY SubmitIs DEF JobsInv
<1>10. \A k \in DOMAIN queue' :
          IF queue'[k].op = "load"
          THEN /\ queue'[k].slot \in Slots
               /\ task'[queue'[k].slot].at = "queued"
               /\ \A i \in DOMAIN queue' :
                   queue'[i].op = "load" /\ queue'[i].slot = queue'[k].slot => i = k
          ELSE queue'[k].conv \in Convs
  <2> TAKE k \in DOMAIN queue'
  <2>1. CASE k = Len(queue) + 1
    <3>1. task'[s].at = "queued"
      BY SubmitIs
    <3>2. \A i \in DOMAIN queue' : queue'[i].op = "load" /\ queue'[i].slot = s => i = k
      BY <1>5, <1>6, <1>9, <2>1
    <3> QED BY <1>5, <1>7, <2>1, <3>1, <3>2
  <2>2. CASE k # Len(queue) + 1
    <3>1. k \in DOMAIN queue /\ queue'[k] = queue[k]
      BY <1>5, <1>6, <2>2
    <3>2. CASE queue[k].op = "load"
      <4>1. queue'[k].slot \in Slots /\ task'[queue'[k].slot].at = "queued" /\ queue'[k].slot # s
        BY <1>9, <3>1, <3>2 DEF JobsInv
      <4>2. \A i \in DOMAIN queue' :
                   queue'[i].op = "load" /\ queue'[i].slot = queue'[k].slot => i = k
        BY <1>5, <1>6, <1>7, <3>1, <3>2, <4>1 DEF JobsInv
      <4> QED BY <3>1, <3>2, <4>1, <4>2
    <3>3. CASE queue[k].op # "load"
      BY <3>1, <3>3 DEF JobsInv
    <3> QED BY <3>2, <3>3
  <2> QED BY <2>1, <2>2
<1>11. \A x \in Slots :
         /\ task'[x].kind \in {"select", "rename", "recent"} => task'[x].conv \in Convs
         /\ task'[x].kind = "none" => task'[x] = NoTask
         /\ task'[x].at = "queued" => task'[x].kind \in {"select", "rename", "index", "recent"}
  <2> TAKE x \in Slots
  <2>1. CASE x = s
    <3>1. /\ task'[s].kind = task[s].kind /\ task'[s].conv = task[s].conv
          /\ task[s].kind \in {"select", "rename", "index", "recent"}
      BY SubmitIs
    <3>2. task[s].kind \in {"select", "rename", "recent"} => task[s].conv \in Convs
      BY DEF JobsInv
    <3> QED BY <2>1, <3>1, <3>2
  <2>2. CASE x # s
    <3>1. task'[x] = task[x]
      BY <2>2, SubmitIs
    <3> QED BY <3>1 DEF JobsInv
  <2> QED BY <2>1, <2>2
<1>12. JobsInv'
  BY <1>10, <1>11 DEF JobsInv
<1>13. HalfInv'
  <2>1. half' = half /\ files' = files
    BY DEF Submit, disk
  <2>2. half => queue # <<>> /\ queue[1].op # "load" /\ files[queue[1].conv] = queue[1].new
    BY DEF HalfInv
  <2>3. queue # <<>> => 1 \in DOMAIN queue
    BY <1>4, TailIs
  <2>4. queue' # <<>>
    BY <1>4, AppendProperties
  <2> QED BY <1>5, <2>1, <2>2, <2>3, <2>4 DEF HalfInv
<1> QED
  BY <1>1, <1>2, <1>3, <1>8, <1>12, <1>13, AllTyped

\* The first job while the queue is not empty.
LEMMA Job1Is ==
    ASSUME TypeOK, JobsInv, queue # <<>>
    PROVE  /\ Job1 = queue[1] /\ Job1 \in Job /\ 1 \in DOMAIN queue /\ queue \in Seq(Job)
           /\ Job1.op # "load" => Job1.conv \in Convs /\ Job1.conv \in DOMAIN files
           /\ Job1.op = "load" => /\ Job1.slot \in Slots /\ task[Job1.slot].at = "queued"
                                  /\ task[Job1.slot].kind \in {"select", "rename", "index", "recent"}
                                  /\ task[Job1.slot].kind # "index" => task[Job1.slot].conv \in Convs
<1>1. queue \in Seq(Job)
  BY TypeParts DEF QueueType
<1>2. Job1 = queue[1] /\ Job1 \in Job /\ 1 \in DOMAIN queue
  BY <1>1, TailIs DEF Job1
<1> QED BY <1>1, <1>2, TypeParts DEF JobsInv, DiskType

LEMMA JobFileTyped == ASSUME TypeOK, JobsInv, JobFile PROVE TypeOK' /\ JobsInv' /\ HalfInv'
<1>1. ScreenType' /\ RunType'
  BY TypeParts DEF JobFile, ScreenType, RunType, screen
<1>2. PastType'
  BY TypeParts DEF JobFile, PastType, past, said, flags
<1>3. TaskMoves /\ QueueGrows
  BY TasksKept DEF JobFile, QueueGrows
<1>4. DiskType'
  <2>1. queue \in Seq(Job) /\ queue # <<>>
    BY TypeParts DEF QueueType, JobFile
  <2>2. Job1 \in Job
    BY <2>1, TailIs DEF Job1
  <2> QED BY <2>2, TypeParts DEF JobFile, DiskType, Job
<1>5. HalfInv'
  <2>1. /\ queue # <<>> /\ queue' = queue /\ queue[1].op # "load"
        /\ queue[1].conv \in DOMAIN files
        /\ files' = [files EXCEPT ![queue[1].conv] = queue[1].new]
    BY Job1Is DEF JobFile
  <2> QED BY <2>1 DEF HalfInv
<1> QED
  BY <1>1, <1>2, <1>3, <1>4, <1>5, JobsKept, AllTyped

LEMMA IndexReadTyped == ASSUME TypeOK PROVE IndexRead \in Index
<1>1. files \in [Convs -> Conversation] /\ index \in Index
  BY TypeParts DEF DiskType
<1>2. [c \in Saved |-> files[c].title] \in [Saved -> Titles] /\ Saved \subseteq Convs
  BY <1>1 DEF Saved, Conversation
<1>3. [c \in Saved |-> files[c].title] \in Index
  BY <1>2, IndexIs
<1> QED BY <1>1, <1>3 DEF IndexRead

\* The first job leaves the queue.
LEMMA TailTyped ==
    ASSUME TypeOK, JobsInv, queue # <<>>, queue' = Tail(queue), TaskType',
           \A s \in Slots : IF queue[1].op = "load" /\ queue[1].slot = s
                            THEN /\ task'[s].kind = task[s].kind /\ task'[s].conv = task[s].conv
                                 /\ task[s].kind # "none" /\ task'[s].at = "read"
                            ELSE task'[s] = task[s]
    PROVE  QueueType' /\ JobsInv'
<1>1. queue \in Seq(Job)
  BY TypeParts DEF QueueType
<1>2. /\ queue' \in Seq(Job) /\ DOMAIN queue' = 1..(Len(queue) - 1) /\ Len(queue) \in Nat
      /\ DOMAIN queue = 1..Len(queue) /\ Len(queue) >= 1
      /\ \A k \in DOMAIN queue' : queue'[k] = queue[k + 1]
  BY <1>1, TailIs
<1>3. \A k \in DOMAIN queue' : k + 1 \in DOMAIN queue /\ k + 1 # 1 /\ k \in Nat
  BY <1>2
<1>3a. 1 \in DOMAIN queue
  BY <1>2
<1>4. QueueType'
  BY <1>2, <1>3, TypeParts DEF QueueType
<1>5. \A k \in DOMAIN queue : k # 1 /\ queue[k].op = "load" =>
         queue[k].slot \in Slots /\ task'[queue[k].slot] = task[queue[k].slot]
  <2> SUFFICES ASSUME NEW k \in DOMAIN queue, k # 1, queue[k].op = "load"
               PROVE  queue[k].slot \in Slots /\ task'[queue[k].slot] = task[queue[k].slot]
    OBVIOUS
  <2>1. queue[k].slot \in Slots
    BY DEF JobsInv
  <2>2. CASE queue[1].op = "load"
    <3>1. queue[k].slot # queue[1].slot
      BY <1>3a, <2>2 DEF JobsInv
    <3> QED BY <2>1, <3>1
  <2>3. CASE queue[1].op # "load"
    BY <2>1, <2>3
  <2> QED BY <2>2, <2>3
<1>6. \A k \in DOMAIN queue' :
          IF queue'[k].op = "load"
          THEN /\ queue'[k].slot \in Slots
               /\ task'[queue'[k].slot].at = "queued"
               /\ \A i \in DOMAIN queue' :
                   queue'[i].op = "load" /\ queue'[i].slot = queue'[k].slot => i = k
          ELSE queue'[k].conv \in Convs
  <2> TAKE k \in DOMAIN queue'
  <2>0. k + 1 \in DOMAIN queue /\ k + 1 # 1 /\ queue'[k] = queue[k + 1] /\ k \in Nat
    BY <1>2, <1>3
  <2>1. CASE queue[k + 1].op = "load"
    <3>1. queue'[k].slot \in Slots /\ task'[queue'[k].slot].at = "queued"
      BY <1>5, <2>0, <2>1 DEF JobsInv
    <3>2. ASSUME NEW i \in DOMAIN queue', queue'[i].op = "load", queue'[i].slot = queue'[k].slot
          PROVE  i = k
      <4>1. i + 1 \in DOMAIN queue /\ queue'[i] = queue[i + 1] /\ i \in Nat
        BY <1>2, <1>3
      <4>2. i + 1 = k + 1
        BY <2>0, <2>1, <3>2, <4>1 DEF JobsInv
      <4> QED BY <2>0, <4>1, <4>2
    <3> QED BY <2>0, <2>1, <3>1, <3>2
  <2>2. CASE queue[k + 1].op # "load"
    BY <2>0, <2>2 DEF JobsInv
  <2> QED BY <2>1, <2>2
<1>7. \A x \in Slots :
         /\ task'[x].kind \in {"select", "rename", "recent"} => task'[x].conv \in Convs
         /\ task'[x].kind = "none" => task'[x] = NoTask
         /\ task'[x].at = "queued" => task'[x].kind \in {"select", "rename", "index", "recent"}
  <2> TAKE x \in Slots
  <2>1. CASE queue[1].op = "load" /\ queue[1].slot = x
    <3>1. /\ task'[x].kind = task[x].kind /\ task'[x].conv = task[x].conv
          /\ task[x].kind # "none" /\ task'[x].at = "read"
      BY <2>1
    <3>2. task[x].kind \in {"select", "rename", "recent"} => task[x].conv \in Convs
      BY DEF JobsInv
    <3> QED BY <3>1, <3>2
  <2>2. CASE ~(queue[1].op = "load" /\ queue[1].slot = x)
    <3>1. task'[x] = task[x]
      BY <2>2
    <3> QED BY <3>1 DEF JobsInv
  <2> QED BY <2>1, <2>2
<1>8. JobsInv'
  BY <1>6, <1>7 DEF JobsInv
<1> QED BY <1>4, <1>8

LEMMA JobIndexTyped ==
    ASSUME TypeOK, JobsInv, HalfInv, JobIndex
    PROVE  TypeOK' /\ JobsInv' /\ HalfInv'
<1>1. ScreenType' /\ RunType'
  BY TypeParts DEF JobIndex, ScreenType, RunType, screen
<1>2. PastType'
  BY TypeParts DEF JobIndex, PastType, past, said, flags
<1>3. queue # <<>> /\ queue[1].op # "load" /\ queue' = Tail(queue) /\ task' = task
  BY DEF HalfInv, JobIndex
<1>4. DiskType' /\ TaskType'
  BY <1>3, Job1Is, TypeParts DEF JobIndex, DiskType, TaskType, Job
<1>5. QueueType' /\ JobsInv'
  BY <1>3, <1>4, TailTyped
<1>6. HalfInv'
  BY DEF JobIndex, HalfInv
<1> QED
  BY <1>1, <1>2, <1>4, <1>5, <1>6, AllTyped

\* What a task is when its load is done.
LEMMA JobLoadIs ==
    ASSUME TypeOK, JobsInv, JobLoad
    PROVE  /\ queue # <<>> /\ half = FALSE /\ queue[1].op = "load" /\ queue' = Tail(queue)
           /\ queue[1].slot \in Slots /\ files' = files /\ half' = FALSE /\ TaskType'
           /\ \A x \in Slots : x # queue[1].slot => task'[x] = task[x]
           /\ \E s \in Slots :
                /\ s = queue[1].slot
                /\ task[s].at = "queued" /\ task'[s].at = "read" /\ task[s].kind # "none"
                /\ task'[s].kind = task[s].kind /\ task'[s].conv = task[s].conv
                /\ IF task[s].kind = "index"
                   THEN task'[s].index = IndexRead /\ task'[s].got = task[s].got /\ index' = IndexRead
                   ELSE /\ task'[s].got = files[task[s].conv] /\ task'[s].index = task[s].index
                        /\ task[s].conv \in Convs /\ index' = index
<1>1. queue # <<>> /\ half = FALSE /\ queue' = Tail(queue) /\ files' = files /\ half' = half
  BY TypeParts DEF JobLoad, DiskType
<1>2. PICK s \in Slots : s = queue[1].slot
  BY <1>1, Job1Is DEF JobLoad
<1>3. /\ task[s].at = "queued" /\ task[s].kind \in {"select", "rename", "index", "recent"}
      /\ task[s].kind # "index" => task[s].conv \in Convs
      /\ Job1 = queue[1] /\ queue[1].op = "load"
  BY <1>1, <1>2, Job1Is DEF JobLoad
<1>4. task \in [Slots -> Task] /\ task[s] \in Task /\ files \in [Convs -> Conversation]
  BY TypeParts DEF TaskType, DiskType
<1>5. CASE task[s].kind = "index"
  <2>1. /\ task' = [task EXCEPT ![s].at = "read", ![s].index = IndexRead]
        /\ index' = IndexRead
    BY <1>2, <1>3, <1>5 DEF JobLoad
  <2>2. PICK new : new = [task[s] EXCEPT !.at = "read", !.index = IndexRead]
    OBVIOUS
  <2>3. /\ new \in Task /\ new.at = "read" /\ new.index = IndexRead /\ new.got = task[s].got
        /\ new.kind = task[s].kind /\ new.conv = task[s].conv
    BY <1>4, <2>2, IndexReadTyped DEF Task
  <2>4. task' = [task EXCEPT ![s] = new]
    BY <1>4, <2>1, <2>2
  <2>5. task'[s] = new /\ TaskType' /\ \A x \in Slots : x # s => task'[x] = task[x]
    BY <1>4, <2>3, <2>4 DEF TaskType
  <2> QED BY <1>1, <1>2, <1>3, <1>5, <2>1, <2>3, <2>5
<1>6. CASE task[s].kind # "index"
  <2>1. /\ task' = [task EXCEPT ![s].at = "read", ![s].got = files[task[s].conv]]
        /\ index' = index
    BY <1>2, <1>3, <1>6 DEF JobLoad
  <2>2. PICK new : new = [task[s] EXCEPT !.at = "read", !.got = files[task[s].conv]]
    OBVIOUS
  <2>3. /\ new \in Task /\ new.at = "read" /\ new.index = task[s].index
        /\ new.got = files[task[s].conv]
        /\ new.kind = task[s].kind /\ new.conv = task[s].conv
    BY <1>3, <1>4, <1>6, <2>2 DEF Task
  <2>4. task' = [task EXCEPT ![s] = new]
    BY <1>4, <2>1, <2>2
  <2>5. task'[s] = new /\ TaskType' /\ \A x \in Slots : x # s => task'[x] = task[x]
    BY <1>4, <2>3, <2>4 DEF TaskType
  <2> QED BY <1>1, <1>2, <1>3, <1>6, <2>1, <2>3, <2>5
<1> QED BY <1>5, <1>6

LEMMA JobLoadTyped == ASSUME TypeOK, JobsInv, JobLoad PROVE TypeOK' /\ JobsInv' /\ HalfInv'
<1>1. ScreenType' /\ RunType'
  BY TypeParts DEF JobLoad, ScreenType, RunType, screen
<1>2. PastType'
  BY TypeParts DEF JobLoad, PastType, past, said, flags
<1>3. DiskType' /\ TaskType'
  BY JobLoadIs, IndexReadTyped, TypeParts DEF DiskType
<1>4. QueueType' /\ JobsInv'
  BY <1>3, JobLoadIs, TailTyped
<1>5. HalfInv'
  BY JobLoadIs DEF HalfInv
<1> QED
  BY <1>1, <1>2, <1>3, <1>4, <1>5, AllTyped

LEMMA QuitTyped == ASSUME TypeOK, JobsInv, Quit PROVE TypeOK' /\ JobsInv' /\ HalfInv'
<1>1. ScreenType'
  <2>1. << >> \in Seq(Msg)
    OBVIOUS
  <2> QED BY <2>1, NoneAre, TypeParts DEF Quit, ScreenType, Titles
<1>2. RunType'
  BY DEF Quit, RunType
<1>3. PastType'
  <2>1. quits' \in 0..MaxQuits
    <3>1. quits \in 0..MaxQuits /\ quits < MaxQuits /\ quits' = quits + 1 /\ MaxQuits \in Nat
      BY TypeParts, BoundAssumption DEF Quit, PastType
    <3> QED BY <3>1
  <2>2. turns' \in SUBSET MsgIds /\ gone' \in SUBSET Convs /\ cut' \in BOOLEAN
    BY TypeParts DEF Quit, PastType
  <2> QED BY <2>1, <2>2, TypeParts DEF Quit, PastType
<1>4. queue' = << >> /\ task' = [s \in Slots |-> NoTask] /\ half' = FALSE
  BY DEF Quit
<1>5. QueueType'
  <2>1. << >> \in Seq(Job)
    OBVIOUS
  <2> QED BY <1>4, <2>1 DEF QueueType
<1>6. DiskType' /\ TaskType'
  BY <1>4, NoneAre, TypeParts DEF Quit, DiskType, TaskType
<1>7. JobsInv'
  <2>1. DOMAIN queue' = {} /\ \A s \in Slots : task'[s] = NoTask
    BY <1>4
  <2> QED BY <2>1, NoneAre DEF JobsInv
<1>8. HalfInv'
  BY <1>4 DEF HalfInv
<1> QED
  BY <1>1, <1>2, <1>3, <1>5, <1>6, <1>7, <1>8, AllTyped

LEMMA LaunchTyped ==
    ASSUME TypeOK, JobsInv, HalfInv, Launch PROVE TypeOK' /\ JobsInv' /\ HalfInv'
<1>1. ScreenType' /\ RunType'
  BY TypeParts DEF Launch, ScreenType, RunType, screen
<1>2. PastType'
  BY TypeParts DEF Launch, PastType, past, said, flags
<1>3. DiskType' /\ TaskMoves /\ QueueGrows
  BY TypeParts, TasksKept DEF Launch, store, disk, DiskType, QueueGrows
<1>4. files' = files /\ half' = half
  BY DEF Launch, store, disk
<1> QED
  BY <1>1, <1>2, <1>3, <1>4, JobsKept, AllTyped

LEMMA StutterTyped ==
    ASSUME TypeOK, JobsInv, HalfInv, UNCHANGED vars PROVE TypeOK' /\ JobsInv' /\ HalfInv'
<1>1. /\ ScreenType' /\ RunType' /\ PastType' /\ QueueType' /\ DiskType' /\ TaskType'
  BY TypeParts DEF vars, screen, store, disk, past, said, flags, ScreenType, RunType, PastType,
                   QueueType, DiskType, TaskType
<1>2. JobsInv' /\ HalfInv'
  BY DEF vars, store, disk, JobsInv, HalfInv
<1> QED BY <1>1, <1>2, AllTyped

(***************************************************************************)
(* The queue: what a step does to it, to the files and to `half`           *)
(***************************************************************************)


LEMMA TypeStep ==
    ASSUME TypeOK, JobsInv, HalfInv, [Next]_vars PROVE TypeOK' /\ JobsInv' /\ HalfInv'
<1>1. CASE Send
  BY <1>1, SendTyped
<1>2. CASE \E s \in streams : OpenStream(s) \/ StreamPends(s) \/ CloseStream(s)
  BY <1>2, OpenStreamTyped, StreamPendsTyped, CloseStreamTyped
<1>3. CASE Approve \/ Deny \/ Import \/ NewChat \/ RenameActive \/ RestoreBegins
  BY <1>3, ApproveTyped, DenyTyped, ImportTyped, NewChatStepTyped, RenameActiveTyped,
     RestoreBeginsTyped
<1>4. CASE \E c \in Convs : Select(c) \/ RenameOther(c) \/ Delete(c)
  BY <1>4, SelectTyped, RenameOtherTyped, DeletedTyped
<1>5. CASE \E s \in Slots : \/ Submit(s)
                            \/ ImportEnds(s)
                            \/ SelectEnds(s)
                            \/ RenameEnds(s)
                            \/ RestoreIndex(s)
                            \/ RestoreRecent(s)
  BY <1>5, SubmitTyped, ImportEndsTyped, SelectEndsTyped, RenameEndsTyped, RestoreIndexTyped,
     RestoreRecentTyped
<1>6. CASE Store
  BY <1>6, JobFileTyped, JobIndexTyped, JobLoadTyped DEF Store
<1>7. CASE Quit \/ Launch
  BY <1>7, QuitTyped, LaunchTyped
<1>8. CASE UNCHANGED vars
  BY <1>8, StutterTyped
<1> QED
  BY <1>1, <1>2, <1>3, <1>4, <1>5, <1>6, <1>7, <1>8, Zenon DEF Next

LEMMA HalfInit == Init => HalfInv
<1> SUFFICES ASSUME Init PROVE HalfInv
  OBVIOUS
<1>1. half = FALSE
  BY Zenon DEF Init
<1> QED BY <1>1 DEF HalfInv

\* Every variable stays within its type, whatever tasks and jobs there are.
THEOREM ConvTypeCorrect == Spec => []TypeOK
<1>1. Init => TypeOK /\ JobsInv /\ HalfInv
  BY InitTyped, HalfInit
<1>2. TypeOK /\ JobsInv /\ HalfInv /\ [Next]_vars => (TypeOK /\ JobsInv /\ HalfInv)'
  BY TypeStep
<1> QED
  BY <1>1, <1>2, PTL DEF Spec

(***************************************************************************)
(* What a file will hold                                                   *)
(***************************************************************************)

Writer(q, k, c) == q[k].op # "load" /\ q[k].conv = c

\* The file of c once the first n jobs of q are done, f being the files now.
HeldAt(q, f, n, c) ==
    LET ks == {k \in 1..n : Writer(q, k, c)}
    IN  IF ks = {} THEN f[c] ELSE q[CHOOSE k \in ks : \A j \in ks : j <= k].new

Holds(q, f, n, c, v) ==
    \/ (\A k \in 1..n : ~Writer(q, k, c)) /\ v = f[c]
    \/ \E k \in 1..n : /\ Writer(q, k, c) /\ v = q[k].new
                       /\ \A j \in 1..n : Writer(q, j, c) => j <= k

LEMMA GreatestOf ==
    ASSUME NEW n \in Nat, NEW T, T \subseteq 1..n, T # {}
    PROVE  \E k \in T : \A j \in T : j <= k
<1> DEFINE R == {p \in Nat \X Nat : p[1] < p[2]}
           D == {n - i : i \in T}
<1>1. IsWellFoundedOn(R, Nat)
  BY NatLessThanWellFounded DEF OpToRel
<1>2. \A m, i \in Nat : i < m => <<i, m>> \in R
  OBVIOUS
<1>3. D \subseteq Nat /\ D # {}
  <2>1. \A i \in T : n - i \in Nat
    OBVIOUS
  <2>2. D \subseteq Nat
    BY <2>1
  <2> QED BY <2>2
<1> HIDE DEF R
<1>4. PICK d \in D : \A e \in D : ~(<<e, d>> \in R)
  <2> HIDE DEF D
  <2> QED BY <1>1, <1>3, WFMin
<1>5. PICK k \in T : d = n - k
  BY <1>4
<1>6. ASSUME NEW j \in T PROVE j <= k
  <2>1. n - j \in D /\ n - j \in Nat /\ n - k \in Nat /\ j \in Nat /\ k \in Nat
    OBVIOUS
  <2>2. ~(n - j < n - k)
    BY <1>2, <1>4, <1>5, <2>1
  <2> QED BY <2>1, <2>2
<1> QED BY <1>6

LEMMA HeldHolds ==
    ASSUME NEW q, NEW f, NEW n \in Nat, NEW c
    PROVE  Holds(q, f, n, c, HeldAt(q, f, n, c))
<1> DEFINE ks == {k \in 1..n : Writer(q, k, c)}
<1>1. CASE ks = {}
  BY <1>1 DEF HeldAt, Holds
<1>2. CASE ks # {}
  <2> DEFINE m == CHOOSE k \in ks : \A j \in ks : j <= k
  <2>1. \E k \in ks : \A j \in ks : j <= k
    <3>1. ks \subseteq 1..n
      OBVIOUS
    <3> HIDE DEF ks
    <3> QED BY <1>2, <3>1, GreatestOf
  <2>2. m \in ks /\ \A j \in ks : j <= m
    <3> HIDE DEF ks
    <3> QED BY <2>1
  <2>3. HeldAt(q, f, n, c) = q[m].new
    BY <1>2 DEF HeldAt
  <2> HIDE DEF m
  <2> QED BY <2>2, <2>3 DEF Holds
<1> QED BY <1>1, <1>2

LEMMA HoldsOne ==
    ASSUME NEW q, NEW f, NEW n \in Nat, NEW c, NEW v, NEW w,
           Holds(q, f, n, c, v), Holds(q, f, n, c, w)
    PROVE  v = w
<1>1. CASE \A k \in 1..n : ~Writer(q, k, c)
  BY <1>1 DEF Holds
<1>2. CASE \E k \in 1..n : Writer(q, k, c)
  <2>1. PICK k \in 1..n : /\ Writer(q, k, c) /\ v = q[k].new
                          /\ \A j \in 1..n : Writer(q, j, c) => j <= k
    BY <1>2 DEF Holds
  <2>2. PICK i \in 1..n : /\ Writer(q, i, c) /\ w = q[i].new
                          /\ \A j \in 1..n : Writer(q, j, c) => j <= i
    BY <1>2 DEF Holds
  <2>3. i = k
    BY <2>1, <2>2
  <2> QED BY <2>1, <2>2, <2>3
<1> QED BY <1>1, <1>2

\* A prefix that is the same in two queues, over the same files.
SamePrefix(q, r, n) == \A k \in 1..n : r[k] = q[k]

LEMMA HeldSame ==
    ASSUME NEW q, NEW r, NEW f, NEW n \in Nat, NEW c, SamePrefix(q, r, n)
    PROVE  HeldAt(r, f, n, c) = HeldAt(q, f, n, c)
<1>1. Holds(q, f, n, c, HeldAt(q, f, n, c)) /\ Holds(r, f, n, c, HeldAt(r, f, n, c))
  BY HeldHolds
<1>2. Holds(r, f, n, c, HeldAt(q, f, n, c))
  BY <1>1 DEF Holds, Writer, SamePrefix
<1> QED BY <1>1, <1>2, HoldsOne

\* One job more.
LEMMA HeldNext ==
    ASSUME NEW q, NEW f, NEW n \in Nat, NEW c
    PROVE  HeldAt(q, f, n + 1, c) = IF Writer(q, n + 1, c) THEN q[n + 1].new ELSE HeldAt(q, f, n, c)
<1>1. Holds(q, f, n, c, HeldAt(q, f, n, c)) /\ Holds(q, f, n + 1, c, HeldAt(q, f, n + 1, c))
  BY HeldHolds
<1>2. n + 1 \in 1..(n + 1) /\ \A k \in 1..(n + 1) : k \in 1..n \/ k = n + 1
  OBVIOUS
<1>2a. 1..n \subseteq 1..(n + 1) /\ \A k \in 1..(n + 1) : k <= n + 1
  OBVIOUS
<1>3. CASE Writer(q, n + 1, c)
  <2>1. Holds(q, f, n + 1, c, q[n + 1].new)
    BY <1>2, <1>2a, <1>3 DEF Holds
  <2> QED BY <1>1, <1>3, <2>1, HoldsOne
<1>4. CASE ~Writer(q, n + 1, c)
  <2>1. Holds(q, f, n + 1, c, HeldAt(q, f, n, c))
    BY <1>1, <1>2, <1>2a, <1>4 DEF Holds
  <2> QED BY <1>1, <1>4, <2>1, HoldsOne
<1> QED BY <1>3, <1>4

LEMMA HeldNone ==
    ASSUME NEW q, NEW f, NEW c PROVE HeldAt(q, f, 0, c) = f[c]
BY DEF HeldAt

\* The first job is done, and gone.
LEMMA HeldTail ==
    ASSUME NEW q \in Seq(Job), q # <<>>, NEW f, NEW n \in 0..(Len(q) - 1), NEW c,
           Writer(q, 1, c) => f[c] = q[1].new
    PROVE  HeldAt(Tail(q), f, n, c) = HeldAt(q, f, n + 1, c)
<1>1. /\ Len(q) \in Nat /\ \A k \in 1..(Len(q) - 1) : Tail(q)[k] = q[k + 1]
  BY TailIs
<1>2. n \in Nat /\ \A k \in 1..n : k \in 1..(Len(q) - 1) /\ k + 1 \in 1..(n + 1)
  BY <1>1
<1>3. \A k \in 1..n : Writer(Tail(q), k, c) <=> Writer(q, k + 1, c)
  BY <1>1, <1>2 DEF Writer
<1>4. \A k \in 1..(n + 1) : k = 1 \/ \E i \in 1..n : k = i + 1
  <2> TAKE k \in 1..(n + 1)
  <2>1. k # 1 => k - 1 \in 1..n /\ k = k - 1 + 1
    BY <1>2
  <2> QED BY <2>1
<1>5. PICK v : v = HeldAt(Tail(q), f, n, c)
  OBVIOUS
<1>6. Holds(Tail(q), f, n, c, v)
  BY <1>2, <1>5, HeldHolds
<1>7. Holds(q, f, n + 1, c, v)
  <2>1. CASE (\A k \in 1..n : ~Writer(Tail(q), k, c)) /\ v = f[c]
    <3>1. \A k \in 1..(n + 1) : Writer(q, k, c) => k = 1
      BY <1>3, <1>4, <2>1
    <3>2. CASE Writer(q, 1, c)
      <4>1. 1 \in 1..(n + 1) /\ v = q[1].new
        BY <1>2, <2>1, <3>2
      <4>2. \A j \in 1..(n + 1) : Writer(q, j, c) => j <= 1
        BY <3>1
      <4> QED BY <3>2, <4>1, <4>2 DEF Holds
    <3>3. CASE ~Writer(q, 1, c)
      BY <2>1, <3>1, <3>3 DEF Holds
    <3> QED BY <3>2, <3>3
  <2>2. CASE \E k \in 1..n : /\ Writer(Tail(q), k, c) /\ v = Tail(q)[k].new
                             /\ \A j \in 1..n : Writer(Tail(q), j, c) => j <= k
    <3>1. PICK k \in 1..n : /\ Writer(Tail(q), k, c) /\ v = Tail(q)[k].new
                            /\ \A j \in 1..n : Writer(Tail(q), j, c) => j <= k
      BY <2>2
    <3>2. k + 1 \in 1..(n + 1) /\ Writer(q, k + 1, c) /\ v = q[k + 1].new
      BY <1>1, <1>2, <1>3, <3>1
    <3>3. ASSUME NEW j \in 1..(n + 1), Writer(q, j, c) PROVE j <= k + 1
      <4>1. CASE j = 1
        BY <1>2, <4>1
      <4>2. CASE \E i \in 1..n : j = i + 1
        <5>1. PICK i \in 1..n : j = i + 1
          BY <4>2
        <5>2. i <= k
          BY <1>3, <3>1, <3>3, <5>1
        <5> QED BY <5>1, <5>2
      <4> QED BY <1>4, <4>1, <4>2
    <3> QED BY <3>2, <3>3 DEF Holds
  <2> QED BY <1>6, <2>1, <2>2 DEF Holds
<1>8. n + 1 \in Nat
  BY <1>2
<1> QED BY <1>5, <1>7, <1>8, HeldHolds, HoldsOne

\* The file part of the first job is done.
LEMMA HeldFile ==
    ASSUME NEW q, q[1].op # "load", NEW f, q[1].conv \in DOMAIN f, NEW n \in Nat, n >= 1, NEW c
    PROVE  HeldAt(q, [f EXCEPT ![q[1].conv] = q[1].new], n, c) = HeldAt(q, f, n, c)
<1> DEFINE g == [f EXCEPT ![q[1].conv] = q[1].new]
<1>1. PICK v : v = HeldAt(q, f, n, c)
  OBVIOUS
<1>2. Holds(q, f, n, c, v)
  BY <1>1, HeldHolds
<1>3. Holds(q, g, n, c, v)
  <2>1. CASE (\A k \in 1..n : ~Writer(q, k, c)) /\ v = f[c]
    <3>1. q[1].conv # c
      <4>1. 1 \in 1..n
        OBVIOUS
      <4> QED BY <2>1, <4>1 DEF Writer
    <3>2. g[c] = f[c]
      BY <3>1
    <3> QED BY <2>1, <3>2 DEF Holds
  <2>2. CASE \E k \in 1..n : /\ Writer(q, k, c) /\ v = q[k].new
                             /\ \A j \in 1..n : Writer(q, j, c) => j <= k
    BY <2>2 DEF Holds
  <2> QED BY <1>2, <2>1, <2>2 DEF Holds
<1> HIDE DEF g
<1>4. HeldAt(q, g, n, c) = v
  BY <1>3, HeldHolds, HoldsOne
<1> QED BY <1>1, <1>4 DEF g

LEMMA LatestIs ==
    ASSUME TypeOK, NEW c
    PROVE  Latest(c) = HeldAt(queue, files, Len(queue), c)
<1>1. DOMAIN queue = 1..Len(queue)
  BY TypeParts, SeqIs DEF QueueType
<1> QED BY <1>1 DEF Latest, HeldAt, Writer

LEMMA LatestIsNext ==
    ASSUME TypeOK', NEW CONSTANT c
    PROVE  Latest(c)' = HeldAt(queue', files', Len(queue'), c)
<1>1. queue' \in Seq(Job)
  BY DEF TypeOK
<1>2. DOMAIN queue' = 1..Len(queue')
  BY <1>1, SeqIs
<1> QED BY <1>2 DEF Latest, HeldAt, Writer

LEMMA LatestSame ==
    ASSUME queue' = queue, files' = files, NEW CONSTANT c
    PROVE  Latest(c)' = Latest(c)
BY DEF Latest

LEMMA LatestAppended ==
    ASSUME TypeOK, TypeOK', NEW j \in Job, queue' = Append(queue, j), files' = files,
           NEW CONSTANT c
    PROVE  Latest(c)' = IF j.op # "load" /\ j.conv = c THEN j.new ELSE Latest(c)
<1>1. queue \in Seq(Job)
  BY TypeParts DEF QueueType
<1>2. /\ Len(queue) \in Nat /\ Len(queue') = Len(queue) + 1
      /\ queue'[Len(queue) + 1] = j /\ \A k \in 1..Len(queue) : queue'[k] = queue[k]
  BY <1>1, AppendIs
<1>3. Latest(c)' = HeldAt(queue', files, Len(queue) + 1, c)
  BY <1>2, LatestIsNext
<1>4. HeldAt(queue', files, Len(queue) + 1, c)
        = IF Writer(queue', Len(queue) + 1, c) THEN queue'[Len(queue) + 1].new
          ELSE HeldAt(queue', files, Len(queue), c)
  BY <1>2, HeldNext
<1>5. HeldAt(queue', files, Len(queue), c) = Latest(c)
  <2>1. HeldAt(queue', files, Len(queue), c) = HeldAt(queue, files, Len(queue), c)
    <3>1. SamePrefix(queue, queue', Len(queue))
      BY <1>2 DEF SamePrefix
    <3> QED BY <1>2, <3>1, HeldSame
  <2> QED BY <2>1, LatestIs
<1> QED BY <1>2, <1>3, <1>4, <1>5 DEF Writer

LEMMA LatestDone ==
    ASSUME TypeOK, TypeOK', queue # <<>>, queue' = Tail(queue), files' = files,
           queue[1].op # "load" => files[queue[1].conv] = queue[1].new, NEW CONSTANT c
    PROVE  Latest(c)' = Latest(c)
<1>1. queue \in Seq(Job)
  BY TypeParts DEF QueueType
<1>2. Len(queue) \in Nat /\ Len(queue) >= 1 /\ Len(queue') = Len(queue) - 1
  BY <1>1, TailIs
<1>3. Latest(c)' = HeldAt(queue', files, Len(queue) - 1, c)
  BY <1>2, LatestIsNext
<1>4. Len(queue) - 1 \in 0..(Len(queue) - 1) /\ Len(queue) - 1 + 1 = Len(queue)
  BY <1>2
<1>5. Writer(queue, 1, c) => files[c] = queue[1].new
  BY DEF Writer
<1>6. HeldAt(queue', files, Len(queue) - 1, c) = HeldAt(queue, files, Len(queue) - 1 + 1, c)
  BY <1>1, <1>4, <1>5, HeldTail
<1> QED BY <1>3, <1>4, <1>6, LatestIs

LEMMA LatestWritten ==
    ASSUME TypeOK, JobsInv, TypeOK', JobFile, NEW CONSTANT c
    PROVE  Latest(c)' = Latest(c)
<1>1. /\ queue # <<>> /\ queue[1].op # "load" /\ queue[1].conv \in DOMAIN files
      /\ files' = [files EXCEPT ![queue[1].conv] = queue[1].new] /\ queue' = queue
  BY Job1Is DEF JobFile
<1>2. Len(queue) \in Nat /\ Len(queue) >= 1
  BY <1>1, TypeParts, TailIs DEF QueueType
<1>3. HeldAt(queue, files', Len(queue), c) = HeldAt(queue, files, Len(queue), c)
  BY <1>1, <1>2, HeldFile
<1> QED BY <1>1, <1>3, LatestIs, LatestIsNext

LEMMA LatestDrained ==
    ASSUME queue = <<>>, NEW c PROVE Latest(c) = files[c]
<1>1. DOMAIN queue = {}
  OBVIOUS
<1> QED BY <1>1 DEF Latest

\* As long as nothing is to be written, the files are what they will be.
LEMMA LatestUnwritten ==
    ASSUME \A k \in DOMAIN queue : queue[k].op = "load", NEW c PROVE Latest(c) = files[c]
BY DEF Latest

LEMMA LatestTyped ==
    ASSUME TypeOK, NEW c \in Convs PROVE Latest(c) \in Conversation
<1>1. Len(queue) \in Nat /\ DOMAIN queue = 1..Len(queue) /\ \A k \in DOMAIN queue : queue[k] \in Job
  BY TypeParts, SeqIs DEF QueueType
<1>2. Holds(queue, files, Len(queue), c, Latest(c))
  BY <1>1, HeldHolds, LatestIs
<1> QED BY <1>1, <1>2, TypeParts DEF Holds, DiskType, Job

(***************************************************************************)
(* Messages and where they may stand                                       *)
(***************************************************************************)

\* What was said keeps its home.
HomesKept ==
    /\ count \in Nat /\ count' \in Nat /\ count <= count'
    /\ \A m \in SaidIds : home'[m] = home[m]

LEMMA PlacedKept ==
    ASSUME HomesKept, NEW CONSTANT ms, NEW CONSTANT c, Placed(ms, c)
    PROVE  Placed(ms, c)'
<1>1. SaidIds \subseteq SaidIds'
  BY DEF HomesKept, SaidIds
<1> QED BY <1>1 DEF HomesKept, Placed

LEMMA PlacedNone ==
    ASSUME NEW c PROVE Placed(<<>>, c) /\ Placed(NoFile.msgs, c)
<1>1. DOMAIN << >> = {}
  OBVIOUS
<1> QED BY <1>1, NoneAre DEF Placed

\* What was said when no conversation was on screen may go to any.
LEMMA PlacedAny ==
    ASSUME NEW ms, NEW c, Placed(ms, NoConv) PROVE Placed(ms, c)
BY ConvAssumption DEF Placed

(***************************************************************************)
(* How the parts about turns are kept                                      *)
(***************************************************************************)

\* The turns that are on screen stay.
ChatGrows == \A m \in MsgIds : Contains(chat, User(m)) => Contains(chat', User(m))

\* A task is as it was, or has read nothing.
TasksFit ==
    \A s \in Slots :
      \/ task'[s] = task[s]
      \/ /\ task'[s].conv \in used' \cup {NoConv} /\ DOMAIN task'[s].index \subseteq used'
         /\ task'[s].got = NoFile

LEMMA TasksPlaced ==
    ASSUME TypeOK, Whole, HomesKept, TasksFit, used \subseteq used'
    PROVE  \A s \in Slots : /\ Placed(task[s].got.msgs, task[s].conv)'
                            /\ task'[s].conv \in used' \cup {NoConv}
                            /\ DOMAIN task'[s].index \subseteq used'
<1> SUFFICES ASSUME NEW s \in Slots
             PROVE  /\ Placed(task[s].got.msgs, task[s].conv)'
                    /\ task'[s].conv \in used' \cup {NoConv}
                    /\ DOMAIN task'[s].index \subseteq used'
  OBVIOUS
<1>1. Placed(task[s].got.msgs, task[s].conv)
  BY DEF Whole, PlacedInv
<1>2. PICK ms : ms = task[s].got.msgs
  OBVIOUS
<1>3. PICK c : c = task[s].conv
  OBVIOUS
<1>4. Placed(ms, c)'
  BY <1>1, <1>2, <1>3, PlacedKept
<1>5. PICK d : d = task'[s].conv
  OBVIOUS
<1>6. CASE task'[s] = task[s]
  <2>1. Placed(task[s].got.msgs, task[s].conv)'
    BY <1>2, <1>3, <1>4, <1>6 DEF Placed
  <2> QED BY <1>6, <2>1 DEF Whole, UsedInv
<1>7. CASE /\ task'[s].conv \in used' \cup {NoConv} /\ DOMAIN task'[s].index \subseteq used'
           /\ task'[s].got = NoFile
  <2>1. Placed(task[s].got.msgs, task[s].conv)'
    <3>1. task'[s].got.msgs = <<>> /\ DOMAIN task'[s].got.msgs = {}
      <4>1. task'[s].got.msgs = << >>
        BY <1>7, NoneAre
      <4> QED BY <4>1
    <3> QED BY <3>1 DEF Placed
  <2> QED BY <1>7, <2>1
<1> QED BY <1>6, <1>7 DEF TasksFit

LEMMA FilesPlaced ==
    ASSUME Whole, HomesKept, files' = files, NEW CONSTANT c \in Convs
    PROVE  Placed(files[c].msgs, c)'
<1>1. PICK ms : ms = files[c].msgs
  OBVIOUS
<1>2. Placed(ms, c)'
  BY <1>1, PlacedKept DEF Whole, PlacedInv
<1> QED BY <1>1, <1>2 DEF Placed

\* A job that was in the queue and still is.
LEMMA JobPlaced ==
    ASSUME Whole, HomesKept, NEW CONSTANT k, NEW CONSTANT i \in DOMAIN queue, queue'[k] = queue[i]
    PROVE  Placed(queue[k].new.msgs, queue[k].conv)'
<1>1. PICK ms : ms = queue[i].new.msgs
  OBVIOUS
<1>2. PICK c : c = queue[i].conv
  OBVIOUS
<1>3. Placed(ms, c)'
  BY <1>1, <1>2, PlacedKept DEF Whole, PlacedInv
<1> QED BY <1>1, <1>2, <1>3 DEF Placed

\* Handlers that leave the queue and the conversation on screen.
LEMMA Stays ==
    ASSUME TypeOK, Whole, HomesKept, TasksFit, ChatGrows, Placed(chat, active)',
           active' = active, used' = used, queue' = queue, files' = files,
           turns' = turns, gone' = gone, DOMAIN convs' \subseteq DOMAIN convs \cup used
    PROVE  Whole'
<1>1. UsedInv'
  BY TasksPlaced DEF Whole, UsedInv, Saved
<1>2. PlacedInv'
  <2>1. \A k \in DOMAIN queue' : Placed(queue[k].new.msgs, queue[k].conv)'
    BY JobPlaced
  <2>2. \A c \in Convs : Placed(files[c].msgs, c)'
    BY FilesPlaced
  <2> QED BY <2>1, <2>2, TasksPlaced DEF PlacedInv
<1>3. GoneInv'
  BY LatestSame DEF Whole, GoneInv
<1>4. TurnsInv'
  <2> SUFFICES ASSUME NEW m \in turns
               PROVE  /\ m \in SaidIds' /\ home'[m] \in used'
                      /\ home'[m] \notin gone' => Contains(Latest(home[m]).msgs, User(m))'
                      /\ home'[m] = active' => Contains(chat', User(m))
    BY DEF TurnsInv
  <2>1. m \in SaidIds /\ m \in SaidIds' /\ home'[m] = home[m] /\ m \in MsgIds
    BY TypeParts DEF Whole, TurnsInv, HomesKept, SaidIds, PastType
  <2>2. PICK h : h = home[m]
    OBVIOUS
  <2>3. Latest(h)' = Latest(h)
    BY LatestSame
  <2>4. h \notin gone => Contains(Latest(h).msgs, User(m))'
    BY <2>2, <2>3 DEF Whole, TurnsInv, Contains, User
  <2> QED BY <2>1, <2>2, <2>4 DEF Whole, TurnsInv, ChatGrows
<1> QED BY <1>1, <1>2, <1>3, <1>4 DEF Whole

\* What is new on screen was said in the conversation on screen.
Tells ==
    \A m \in turns' : \/ m \in turns
                      \/ /\ m \in SaidIds' /\ home'[m] = active'
                         /\ Contains(chat', User(m))

\* Handlers that persist what is on screen.
LEMMA Persisted ==
    ASSUME TypeOK, TypeOK', Whole, HomesKept, TasksFit, ChatGrows, Tells, Placed(chat, active)',
           NEW t \in Titles, PersistActive(chat', t), files' = files, gone' = gone
    PROVE  Whole'
<1>0. chat' \in Seq(Msg) /\ chat \in Seq(Msg) /\ queue \in Seq(Job)
  BY DEF TypeOK
<1>1. CASE chat' = <<>>
  <2>1. /\ active' = active /\ convs' = convs /\ queue' = queue /\ used' = used
    BY <1>1, PersistIs
  <2>2. \A m : ~Contains(chat', User(m))
    BY <1>1 DEF Contains
  <2>3. turns' \subseteq turns
    BY <2>2 DEF Tells
  <2>4. UsedInv'
    BY <2>1, TasksPlaced DEF Whole, UsedInv, Saved
  <2>5. PlacedInv'
    <3>1. \A k \in DOMAIN queue' : Placed(queue[k].new.msgs, queue[k].conv)'
      BY <2>1, JobPlaced
    <3>2. \A c \in Convs : Placed(files[c].msgs, c)'
      BY FilesPlaced
    <3> QED BY <2>1, <3>1, <3>2, TasksPlaced DEF PlacedInv
  <2>6. GoneInv'
    BY <2>1, LatestSame DEF Whole, GoneInv
  <2>7. TurnsInv'
    <3> SUFFICES ASSUME NEW m \in turns'
                 PROVE  /\ m \in SaidIds' /\ home'[m] \in used'
                        /\ home'[m] \notin gone' => Contains(Latest(home[m]).msgs, User(m))'
                        /\ home'[m] = active' => Contains(chat', User(m))
      BY DEF TurnsInv
    <3>1. m \in turns /\ m \in SaidIds /\ m \in SaidIds' /\ home'[m] = home[m] /\ m \in MsgIds
      BY <2>3, TypeParts DEF Whole, TurnsInv, HomesKept, SaidIds, PastType
    <3>2. PICK h : h = home[m]
      OBVIOUS
    <3>3. Latest(h)' = Latest(h)
      BY <2>1, LatestSame
    <3>4. h \notin gone => Contains(Latest(h).msgs, User(m))'
      BY <3>1, <3>2, <3>3 DEF Whole, TurnsInv, Contains, User
    <3> QED BY <2>1, <3>1, <3>2, <3>4 DEF Whole, TurnsInv, ChatGrows
  <2> QED BY <2>4, <2>5, <2>6, <2>7 DEF Whole
<1>2. CASE chat' # <<>>
  <2>1. PICK name \in Titles, c \in Convs : Saves(chat', name, c)
    BY <1>2, PersistIs
  <2>2. PICK j : j = SaveJob(c, [title |-> name, msgs |-> chat'], Shown')
    OBVIOUS
  <2>3. j \in Job /\ Writes(j) /\ DOMAIN convs' = DOMAIN convs \cup {c}
    BY <1>0, <1>2, <2>1, <2>2, SavesTyped DEF Writes
  <2>4. j.op = "save" /\ j.conv = c /\ j.new.msgs = chat'
    BY <2>2 DEF SaveJob
  <2>5. /\ active' = c /\ used' = used \cup {c} /\ queue' = Append(queue, j)
        /\ (active = NoConv /\ c \notin used) \/ active = c
    BY <2>1, <2>2 DEF Saves
  <2>6. \A h \in Convs : Latest(h)' = IF h = c THEN j.new ELSE Latest(h)
    BY <2>3, <2>4, <2>5, LatestAppended
  <2>7. /\ Len(queue) \in Nat /\ DOMAIN queue = 1..Len(queue)
        /\ DOMAIN queue' = 1..(Len(queue) + 1) /\ queue'[Len(queue) + 1] = j
        /\ \A k \in DOMAIN queue : queue'[k] = queue[k]
    BY <1>0, <2>3, <2>5, AppendIs
  <2>8. \A k \in DOMAIN queue' : k \in DOMAIN queue \/ k = Len(queue) + 1
    BY <2>7
  <2>9. UsedInv'
    <3>1. \A k \in DOMAIN queue' : queue'[k].op # "load" => queue'[k].conv \in used'
      BY <2>4, <2>5, <2>7, <2>8 DEF Whole, UsedInv
    <3>2. DOMAIN convs' \subseteq used' /\ active' \in used' \cup {NoConv} /\ Saved' \subseteq used'
      BY <2>3, <2>5 DEF Whole, UsedInv, Saved
    <3>3. used \subseteq used'
      BY <2>5
    <3> QED BY <3>1, <3>2, <3>3, TasksPlaced DEF UsedInv
  <2>10. PlacedInv'
    <3>1. ASSUME NEW CONSTANT k, k \in DOMAIN queue' PROVE Placed(queue[k].new.msgs, queue[k].conv)'
      <4>1. CASE k \in DOMAIN queue
        BY <2>7, <4>1, JobPlaced
      <4>2. CASE k = Len(queue) + 1
        <5>1. queue'[k].new.msgs = chat' /\ queue'[k].conv = active'
          BY <2>4, <2>5, <2>7, <4>2
        <5> QED BY <5>1 DEF Placed
      <4> QED BY <2>8, <3>1, <4>1, <4>2
    <3>2. \A x \in Convs : Placed(files[x].msgs, x)'
      BY FilesPlaced
    <3>3. used \subseteq used'
      BY <2>5
    <3> QED BY <3>1, <3>2, <3>3, TasksPlaced DEF PlacedInv
  <2>11. GoneInv'
    <3> SUFFICES ASSUME NEW x \in gone PROVE x \in used' /\ x # active' /\ Latest(x)' = NoFile
      BY DEF GoneInv
    <3>1. x \in used /\ x # active /\ Latest(x) = NoFile /\ x \in Convs
      BY TypeParts DEF Whole, GoneInv, PastType
    <3>2. x # c
      BY <2>5, <3>1
    <3> QED BY <2>5, <2>6, <3>1, <3>2
  <2>12. TurnsInv'
    <3> SUFFICES ASSUME NEW m \in turns'
                 PROVE  /\ m \in SaidIds' /\ home'[m] \in used'
                        /\ home'[m] \notin gone' => Contains(Latest(home[m]).msgs, User(m))'
                        /\ home'[m] = active' => Contains(chat', User(m))
      BY DEF TurnsInv
    <3>1. PICK h : h = home'[m]
      OBVIOUS
    <3>2. m \in MsgIds
      BY DEF TypeOK
    <3>3. m \in SaidIds' /\ h \in used' /\ (h = c => Contains(chat', User(m)))
      <4>1. CASE m \in turns
        <5>1. m \in SaidIds /\ m \in SaidIds' /\ home[m] = h /\ h \in used
          BY <3>1, <4>1 DEF Whole, TurnsInv, HomesKept, SaidIds
        <5>2. ASSUME h = c PROVE Contains(chat', User(m))
          <6>1. h = active
            BY <2>5, <5>1, <5>2
          <6> QED BY <3>2, <4>1, <5>1, <6>1 DEF Whole, TurnsInv, ChatGrows
        <5> QED BY <2>5, <5>1, <5>2
      <4>2. CASE m \notin turns
        BY <2>5, <3>1, <4>2 DEF Tells
      <4> QED BY <4>1, <4>2
    <3>4. h \notin gone' => Contains(Latest(h)'.msgs, User(m))
      <4>1. CASE h = c
        BY <2>4, <2>6, <3>3, <4>1
      <4>2. CASE h # c
        <5>1. m \in turns /\ home[m] = h /\ h \in Convs
          <6>1. m \in turns
            BY <2>5, <3>1, <4>2 DEF Tells
          <6>2. m \in SaidIds
            BY <6>1 DEF Whole, TurnsInv
          <6>3. h \in Convs
            BY <3>3 DEF TypeOK
          <6> QED BY <3>1, <6>1, <6>2, <6>3 DEF HomesKept
        <5> QED BY <2>6, <4>2, <5>1 DEF Whole, TurnsInv
      <4> QED BY <4>1, <4>2
    <3>5. h \notin gone' => Contains(Latest(home[m]).msgs, User(m))'
      <4>1. Latest(h)' = Latest(home[m])'
        BY <3>1 DEF Latest
      <4> QED BY <3>4, <4>1 DEF Contains, User
    <3> QED BY <2>5, <3>1, <3>3, <3>5
  <2> QED BY <2>9, <2>10, <2>11, <2>12 DEF Whole
<1> QED BY <1>1, <1>2

\* Another conversation comes on screen: a blank one, or one as it will be on disk.
ShowsBlank == active' \in Convs \ used /\ chat' = <<>>
ShowsSaved ==
    /\ active' \in used /\ active' \notin gone /\ active' \in Convs
    /\ chat' = Latest(active').msgs /\ Placed(chat, active)'

LEMMA Shows ==
    ASSUME TypeOK, TypeOK', Whole, ShowsBlank \/ ShowsSaved, TasksFit,
           used \subseteq used', active' \in used', DOMAIN convs' \subseteq used',
           queue' = queue, files' = files, gone' = gone, turns' = turns, home' = home, count' = count
    PROVE  Whole'
<1>0. HomesKept
  BY TypeParts, BoundAssumption DEF HomesKept, PastType
<1>1. UsedInv'
  BY TasksPlaced, <1>0 DEF Whole, UsedInv, Saved
<1>2. PlacedInv'
  <2>1. \A k \in DOMAIN queue' : Placed(queue[k].new.msgs, queue[k].conv)'
    BY <1>0, JobPlaced
  <2>2. \A c \in Convs : Placed(files[c].msgs, c)'
    BY <1>0, FilesPlaced
  <2>3. Placed(chat, active)'
    <3>1. CASE chat' = <<>>
      <4>1. DOMAIN chat' = {}
        BY <3>1
      <4> QED BY <4>1 DEF Placed
    <3> QED BY <3>1 DEF ShowsBlank, ShowsSaved
  <2> QED BY <1>0, <2>1, <2>2, <2>3, TasksPlaced DEF PlacedInv
<1>3. GoneInv'
  <2> SUFFICES ASSUME NEW x \in gone PROVE x \in used' /\ x # active' /\ Latest(x)' = NoFile
    BY DEF GoneInv
  <2>1. x \in used /\ Latest(x) = NoFile
    BY DEF Whole, GoneInv
  <2> QED BY <2>1, LatestSame DEF ShowsBlank, ShowsSaved
<1>4. TurnsInv'
  <2> SUFFICES ASSUME NEW m \in turns
               PROVE  /\ m \in SaidIds' /\ home'[m] \in used'
                      /\ home'[m] \notin gone' => Contains(Latest(home[m]).msgs, User(m))'
                      /\ home'[m] = active' => Contains(chat', User(m))
    BY DEF TurnsInv
  <2>1. m \in SaidIds' /\ home'[m] = home[m] /\ home[m] \in used
    BY DEF Whole, TurnsInv, SaidIds
  <2>2. PICK h : h = home[m]
    OBVIOUS
  <2>3. Latest(h)' = Latest(h) /\ (h \notin gone => Contains(Latest(h).msgs, User(m)))
    BY <2>2, LatestSame DEF Whole, TurnsInv
  <2>4. h \notin gone => Contains(Latest(h).msgs, User(m))'
    BY <2>3 DEF Contains, User
  <2>5. h = active' => Contains(chat', User(m))
    BY <2>1, <2>2, <2>3 DEF ShowsBlank, ShowsSaved
  <2> QED BY <2>1, <2>2, <2>4, <2>5
<1> QED BY <1>1, <1>2, <1>3, <1>4 DEF Whole

\* The store goes on: nothing is on screen that was not, and what the files will
\* be stays.
LEMMA StoreGoes ==
    ASSUME TypeOK, TypeOK', Whole, active' = active, chat' = chat, used' = used, convs' = convs,
           gone' = gone, turns' = turns, home' = home, count' = count,
           \A c \in Convs : Latest(c)' = Latest(c),
           Saved' \subseteq used',
           \A k \in DOMAIN queue' : queue'[k].op # "load" => queue'[k].conv \in used',
           \A k \in DOMAIN queue' : Placed(queue'[k].new.msgs, queue'[k].conv),
           \A c \in Convs : Placed(files'[c].msgs, c),
           \A s \in Slots : /\ Placed(task'[s].got.msgs, task'[s].conv)
                            /\ task'[s].conv \in used \cup {NoConv}
                            /\ DOMAIN task'[s].index \subseteq used
    PROVE  Whole'
<1>1. UsedInv'
  BY DEF Whole, UsedInv
<1>2. PlacedInv'
  BY DEF Whole, PlacedInv, Placed, SaidIds
<1>3. GoneInv'
  <2>1. gone \subseteq Convs
    BY DEF TypeOK
  <2> QED BY <2>1 DEF Whole, GoneInv
<1>4. TurnsInv'
  <2> SUFFICES ASSUME NEW m \in turns
               PROVE  /\ m \in SaidIds' /\ home'[m] \in used'
                      /\ home'[m] \notin gone' => Contains(Latest(home[m]).msgs, User(m))'
                      /\ home'[m] = active' => Contains(chat', User(m))
    BY DEF TurnsInv
  <2>1. m \in SaidIds' /\ home[m] \in used /\ home[m] \in Convs
    BY TypeParts DEF Whole, TurnsInv, SaidIds, ScreenType
  <2>2. PICK h \in Convs : h = home[m]
    BY <2>1
  <2>3. Latest(h)' = Latest(h) /\ (h \notin gone => Contains(Latest(h).msgs, User(m)))
    BY <2>2 DEF Whole, TurnsInv
  <2>4. h \notin gone => Contains(Latest(h).msgs, User(m))'
    BY <2>3 DEF Contains, User
  <2> QED BY <2>1, <2>2, <2>4 DEF Whole, TurnsInv
<1> QED BY <1>1, <1>2, <1>3, <1>4 DEF Whole

\* A load is submitted, or the store does a part of its first job.
LEMMA SubmitWhole ==
    ASSUME TypeOK, JobsInv, TypeOK', Whole, NEW s \in Slots, Submit(s) PROVE Whole'
<1>1. queue \in Seq(Job) /\ LoadJob(s) \in Job /\ queue' = Append(queue, LoadJob(s))
  BY SubmitIs, TypeParts DEF QueueType, Submit
<1>2. /\ DOMAIN queue = 1..Len(queue) /\ Len(queue) \in Nat
      /\ DOMAIN queue' = 1..(Len(queue) + 1) /\ queue'[Len(queue) + 1] = LoadJob(s)
      /\ \A k \in DOMAIN queue : queue'[k] = queue[k]
  BY <1>1, AppendIs
<1>3. \A k \in DOMAIN queue' : k \in DOMAIN queue \/ k = Len(queue) + 1
  BY <1>2
<1>4. /\ active' = active /\ chat' = chat /\ used' = used /\ convs' = convs
      /\ gone' = gone /\ turns' = turns /\ home' = home /\ count' = count /\ files' = files
  BY DEF Submit, screen, past, said, disk
<1>5. LoadJob(s).op = "load" /\ LoadJob(s).new = NoFile
  BY SubmitIs
<1>6. \A c \in Convs : Latest(c)' = Latest(c)
  BY <1>1, <1>4, <1>5, LatestAppended
<1>7. Saved' \subseteq used' /\ \A c \in Convs : Placed(files'[c].msgs, c)
  BY <1>4 DEF Whole, UsedInv, PlacedInv, Saved
<1>8. \A k \in DOMAIN queue' : queue'[k].op # "load" => queue'[k].conv \in used'
  BY <1>2, <1>3, <1>4, <1>5 DEF Whole, UsedInv
<1>9. \A k \in DOMAIN queue' : Placed(queue'[k].new.msgs, queue'[k].conv)
  BY <1>2, <1>3, <1>5, PlacedNone DEF Whole, PlacedInv
<1>10. \A x \in Slots : /\ Placed(task'[x].got.msgs, task'[x].conv)
                        /\ task'[x].conv \in used \cup {NoConv}
                        /\ DOMAIN task'[x].index \subseteq used
  <2> TAKE x \in Slots
  <2>1. task'[x].got = task[x].got /\ task'[x].conv = task[x].conv /\ task'[x].index = task[x].index
    BY SubmitIs
  <2> QED BY <2>1 DEF Whole, UsedInv, PlacedInv
<1> QED BY <1>4, <1>6, <1>7, <1>8, <1>9, <1>10, StoreGoes

LEMMA JobFileWhole ==
    ASSUME TypeOK, JobsInv, TypeOK', Whole, JobFile PROVE Whole'
<1>1. /\ active' = active /\ chat' = chat /\ used' = used /\ convs' = convs /\ queue' = queue
      /\ gone' = gone /\ turns' = turns /\ home' = home /\ count' = count /\ task' = task
  BY DEF JobFile, screen, past, said
<1>2. \A c \in Convs : Latest(c)' = Latest(c)
  BY LatestWritten
<1>3. /\ queue # <<>> /\ Job1 = queue[1] /\ 1 \in DOMAIN queue /\ Job1.op # "load"
      /\ Job1.conv \in Convs /\ files \in [Convs -> Conversation]
      /\ files' = [files EXCEPT ![Job1.conv] = Job1.new]
  BY Job1Is, TypeParts DEF JobFile, DiskType
<1>4. \A c \in Convs : files'[c] = IF c = Job1.conv THEN Job1.new ELSE files[c]
  BY <1>3
<1>5. Saved' \subseteq used' /\ \A c \in Convs : Placed(files'[c].msgs, c)
  BY <1>1, <1>3, <1>4 DEF Whole, UsedInv, PlacedInv, Saved
<1> QED
  BY <1>1, <1>2, <1>5, StoreGoes DEF Whole, UsedInv, PlacedInv

LEMMA TailWhole ==
    ASSUME TypeOK, Whole, queue # <<>>, queue' = Tail(queue), used' = used
    PROVE  /\ \A k \in DOMAIN queue' : queue'[k].op # "load" => queue'[k].conv \in used'
           /\ \A k \in DOMAIN queue' : Placed(queue'[k].new.msgs, queue'[k].conv)
<1>1. queue \in Seq(Job)
  BY TypeParts DEF QueueType
<1>2. \A k \in DOMAIN queue' : k + 1 \in DOMAIN queue /\ queue'[k] = queue[k + 1]
  <2>1. /\ DOMAIN queue' = 1..(Len(queue) - 1) /\ Len(queue) \in Nat /\ DOMAIN queue = 1..Len(queue)
        /\ \A k \in DOMAIN queue' : queue'[k] = queue[k + 1]
    BY <1>1, TailIs
  <2> QED BY <2>1
<1> QED BY <1>2 DEF Whole, UsedInv, PlacedInv

LEMMA JobIndexWhole ==
    ASSUME TypeOK, JobsInv, HalfInv, TypeOK', Whole, JobIndex PROVE Whole'
<1>1. /\ active' = active /\ chat' = chat /\ used' = used /\ convs' = convs /\ files' = files
      /\ gone' = gone /\ turns' = turns /\ home' = home /\ count' = count /\ task' = task
  BY DEF JobIndex, screen, past, said
<1>2. queue # <<>> /\ queue' = Tail(queue) /\ files[queue[1].conv] = queue[1].new
  BY DEF JobIndex, HalfInv
<1>3. \A c \in Convs : Latest(c)' = Latest(c)
  BY <1>1, <1>2, LatestDone
<1> QED
  BY <1>1, <1>2, <1>3, TailWhole, StoreGoes DEF Whole, UsedInv, PlacedInv, Saved

LEMMA JobLoadWhole ==
    ASSUME TypeOK, JobsInv, TypeOK', Whole, JobLoad PROVE Whole'
<1>1. /\ active' = active /\ chat' = chat /\ used' = used /\ convs' = convs /\ files' = files
      /\ gone' = gone /\ turns' = turns /\ home' = home /\ count' = count
  BY DEF JobLoad, screen, past, said
<1>2. queue # <<>> /\ queue' = Tail(queue) /\ queue[1].op = "load"
  BY JobLoadIs
<1>3. \A c \in Convs : Latest(c)' = Latest(c)
  BY <1>1, <1>2, LatestDone
<1>4. DOMAIN IndexRead \subseteq used
  BY DEF IndexRead, Whole, UsedInv
<1>5. \A x \in Slots : /\ Placed(task'[x].got.msgs, task'[x].conv)
                       /\ task'[x].conv \in used \cup {NoConv}
                       /\ DOMAIN task'[x].index \subseteq used
  <2> TAKE x \in Slots
  <2>1. /\ Placed(task[x].got.msgs, task[x].conv) /\ task[x].conv \in used \cup {NoConv}
        /\ DOMAIN task[x].index \subseteq used
    BY DEF Whole, UsedInv, PlacedInv
  <2>2. CASE x # queue[1].slot
    BY <2>1, <2>2, JobLoadIs
  <2>3. CASE x = queue[1].slot
    <3>1. /\ task'[x].conv = task[x].conv
          /\ IF task[x].kind = "index"
             THEN task'[x].index = IndexRead /\ task'[x].got = task[x].got
             ELSE /\ task'[x].got = files[task[x].conv] /\ task'[x].index = task[x].index
                  /\ task[x].conv \in Convs
      BY <2>3, JobLoadIs
    <3> QED BY <1>4, <2>1, <3>1 DEF Whole, PlacedInv
  <2> QED BY <2>2, <2>3
<1> QED
  BY <1>1, <1>2, <1>3, <1>5, TailWhole, StoreGoes DEF Whole, UsedInv, PlacedInv, Saved

(***************************************************************************)
(* The steps                                                               *)
(***************************************************************************)

\* A user who is not early acts on a session that is restored.
LEMMA EarlyIs ==
    ASSUME Early, Orderly' PROVE restore = "done" /\ restore' = "done"
<1>1. ~early' /\ early' = (early \/ restore # "done") /\ restore' = restore
  BY DEF Early, Orderly
<1> QED BY <1>1

LEMMA RestoredStays ==
    ASSUME RestoreInv, restore = "done", restore' = "done",
           \A s \in Slots : task'[s] = task[s] \/ task'[s].kind \notin {"index", "recent"}
    PROVE  RestoreInv'
BY DEF RestoreInv

LEMMA NotSaid ==
    ASSUME TypeOK
    PROVE  /\ count \in Nat /\ count + 1 \notin 1..count /\ count + 2 \notin 1..count
           /\ count < MaxMsgs => count + 1 \notin SaidIds
           /\ count + 2 <= MaxMsgs => count + 1 \notin SaidIds /\ count + 2 \notin SaidIds
<1>1. count \in Nat /\ MaxMsgs \in Nat
  BY TypeParts, BoundAssumption DEF PastType
<1>2. \A i \in 1..MaxMsgs : i \notin Old
  BY ConvAssumption, IdsAssumption
<1>3. count < MaxMsgs => count + 1 \in 1..MaxMsgs
  BY <1>1
<1>4. count + 2 <= MaxMsgs => count + 1 \in 1..MaxMsgs /\ count + 2 \in 1..MaxMsgs
  BY <1>1
<1>5. count + 1 \notin 1..count /\ count + 2 \notin 1..count
  BY <1>1
<1> QED BY <1>1, <1>2, <1>3, <1>4, <1>5 DEF SaidIds

\* Where a message that is added to the screen may stand.
Stands(x) ==
    /\ x.id \in SaidIds'
    /\ x.kind = "user" => active' \in Convs /\ home'[x.id] = active'
    /\ x.kind = "reply" => home'[x.id] \in {active', NoConv}

LEMMA ScreenGrows ==
    ASSUME TypeOK, PlacedInv, HomesKept, NEW x \in Msg, chat' = Append(chat, x), Stands(x),
           active' = active \/ active = NoConv
    PROVE  Placed(chat, active)' /\ ChatGrows /\ chat' # <<>>
<1>1. chat \in Seq(Msg)
  BY DEF TypeOK
<1>2. /\ Len(chat) \in Nat /\ DOMAIN chat = 1..Len(chat)
      /\ Len(chat') = Len(chat) + 1 /\ DOMAIN chat' = 1..(Len(chat) + 1)
      /\ \A k \in DOMAIN chat : chat'[k] = chat[k]
      /\ chat'[Len(chat) + 1] = x
  BY <1>1, AppendIs
<1>3. \A k \in DOMAIN chat' : k \in DOMAIN chat \/ k = Len(chat) + 1
  BY <1>2
<1>4. Placed(chat, active)
  BY DEF PlacedInv
<1>5. PICK ms : ms = chat
  OBVIOUS
<1>6. PICK c : c = active'
  OBVIOUS
<1>7. Placed(ms, c)
  BY <1>4, <1>5, <1>6, PlacedAny
<1>8. Placed(ms, c)'
  BY <1>7, PlacedKept
<1>9. Placed(chat, active)'
  BY <1>2, <1>3, <1>5, <1>6, <1>8 DEF Placed, Stands
<1>10. ChatGrows
  <2>1. \A k \in 1..Len(chat) : k \in 1..Len(chat')
    BY <1>2
  <2> QED BY <1>2, <2>1 DEF ChatGrows, Contains, User
<1>11. chat' # <<>>
  BY <1>1, AppendProperties
<1> QED BY <1>9, <1>10, <1>11

LEMMA PersistScreen ==
    ASSUME TypeOK, NEW t \in Titles, PersistActive(chat', t), chat' # <<>>
    PROVE  active' \in Convs /\ (active' = active \/ active = NoConv)
<1>1. PICK name \in Titles, c \in Convs : Saves(chat', name, c)
  BY PersistIs
<1> QED BY <1>1 DEF Saves

LEMMA LastContains ==
    ASSUME NEW S, NEW q \in Seq(S), NEW x \in S PROVE Contains(Append(q, x), x)
<1>1. Len(q) + 1 \in 1..Len(Append(q, x)) /\ Append(q, x)[Len(q) + 1] = x
  BY AppendIs
<1> QED BY <1>1 DEF Contains

LEMMA SameTasks ==
    ASSUME Whole, used \subseteq used',
           \A s \in Slots : task'[s] = task[s] \/ task'[s] = NoTask
    PROVE  TasksFit
BY NoneAre DEF TasksFit

LEMMA SaidAreIds ==
    ASSUME TypeOK PROVE SaidIds \subseteq MsgIds
<1>1. count \in Nat /\ MaxMsgs \in Nat /\ count <= MaxMsgs
  BY TypeParts, BoundAssumption DEF PastType
<1>2. 1..count \subseteq 1..MaxMsgs
  BY <1>1
<1> QED BY <1>2 DEF SaidIds, MsgIds

LEMMA SendWhole ==
    ASSUME TypeOK, TypeOK', RestoreInv, StreamInv, Whole, Orderly', Send
    PROVE  RestoreInv' /\ StreamInv' /\ Whole'
<1>1. /\ count < MaxMsgs /\ count + 1 \in MsgIds /\ count + 2 \in MsgIds /\ count \in Nat
      /\ User(count + 1) \in Msg /\ count + 1 \notin SaidIds /\ count + 2 \notin SaidIds
  <2>1. count + 2 <= MaxMsgs
    BY DEF Send
  <2> QED BY <2>1, NextIds, NotSaid
<1>2. /\ chat' = Append(chat, User(count + 1)) /\ turns' = turns \cup {count + 1}
      /\ streams' = streams \cup {[msg |-> count + 2, at |-> "start"]} /\ sending' = TRUE
      /\ home' = [home EXCEPT ![count + 1] = active', ![count + 2] = active'] /\ count' = count + 2
      /\ gone' = gone /\ files' = files /\ task' = task /\ ~sending /\ Early
  <2>1. count + 1 + 1 = count + 2
    BY <1>1
  <2> QED BY <2>1 DEF Send, disk
<1>3. PICK t \in Titles : PersistActive(chat', t)
  <2>1. (IF title = "New chat" THEN "auto" ELSE title) \in Titles
    BY TypeParts DEF ScreenType, Titles
  <2> QED BY <2>1 DEF Send
<1>4. chat \in Seq(Msg) /\ home \in [MsgIds -> Convs \cup {NoConv}]
  BY DEF TypeOK
<1>5. chat' # <<>> /\ Contains(chat', User(count + 1))
  BY <1>1, <1>2, <1>4, AppendProperties, LastContains
<1>6. active' \in Convs /\ (active' = active \/ active = NoConv)
  BY <1>3, <1>5, PersistScreen
<1>7. HomesKept /\ home'[count + 1] = active' /\ home'[count + 2] = active'
  <2>1. count \in Nat /\ count' \in Nat /\ count <= count' /\ count + 1 # count + 2
    BY <1>1, <1>2
  <2>2. SaidIds \subseteq MsgIds
    BY SaidAreIds
  <2> QED BY <1>1, <1>2, <1>4, <2>1, <2>2 DEF HomesKept
<1>8. count + 1 \in SaidIds'
  BY <1>1, <1>2 DEF SaidIds
<1>9. Stands(User(count + 1))
  BY <1>6, <1>7, <1>8 DEF Stands, User
<1>10. Placed(chat, active)' /\ ChatGrows
  BY <1>1, <1>2, <1>6, <1>7, <1>9, ScreenGrows DEF Whole
<1>11. Tells
  BY <1>2, <1>5, <1>7, <1>8 DEF Tells
<1>12. TasksFit
  BY <1>2 DEF TasksFit
<1>13. Whole'
  BY <1>2, <1>3, <1>7, <1>10, <1>11, <1>12, Persisted
<1>14. RestoreInv'
  BY <1>2, EarlyIs, RestoredStays
<1>15. StreamInv'
  <2>1. streams = {} /\ streams' = {[msg |-> count + 2, at |-> "start"]}
    BY <1>2 DEF StreamInv
  <2>2. count + 2 \in 1..count'
    BY <1>1, <1>2
  <2> QED BY <1>2, <1>7, <2>1, <2>2 DEF StreamInv
<1> QED BY <1>13, <1>14, <1>15

LEMMA HomesSame ==
    ASSUME TypeOK, home' = home, count' = count PROVE HomesKept
<1>1. count \in Nat
  BY NextIds
<1>2. count <= count
  BY <1>1
<1> QED BY <1>1, <1>2 DEF HomesKept

LEMMA SayKeeps ==
    ASSUME TypeOK, count < MaxMsgs, Say(count + 1)
    PROVE  /\ HomesKept /\ count + 1 \in SaidIds' /\ home'[count + 1] = active'
           /\ count + 1 \notin SaidIds /\ count + 1 \in MsgIds
<1>1. count \in Nat /\ count + 1 \in MsgIds /\ count + 1 \notin SaidIds
  BY NextIds, NotSaid
<1>2. home' = [home EXCEPT ![count + 1] = active'] /\ count' = count + 1
  BY DEF Say
<1>3. home \in [MsgIds -> Convs \cup {NoConv}] /\ SaidIds \subseteq MsgIds
  BY SaidAreIds, TypeParts DEF PastType
<1>4. count' \in Nat /\ count <= count' /\ count + 1 \in 1..count'
  BY <1>1, <1>2
<1> QED BY <1>1, <1>2, <1>3, <1>4 DEF HomesKept, SaidIds

LEMMA PersistKeeps ==
    ASSUME TypeOK, NEW t \in Titles, PersistActive(chat', t)
    PROVE  /\ active' = active \/ active = NoConv
           /\ used \subseteq used'
<1>1. CASE active' = active /\ used' = used
  BY <1>1
<1>2. CASE \E name \in Titles, c \in Convs : Saves(chat', name, c)
  <2>1. PICK name \in Titles, c \in Convs : Saves(chat', name, c)
    BY <1>2
  <2>2. /\ active = NoConv \/ active = c
        /\ active' = c /\ used' = used \cup {c}
    BY <2>1 DEF Saves
  <2> QED BY <2>2
<1> QED BY <1>1, <1>2, PersistIs

LEMMA ScreenSame ==
    ASSUME PlacedInv, HomesKept, chat' = chat, active' = active \/ active = NoConv
    PROVE  Placed(chat, active)' /\ ChatGrows
<1>1. PICK ms : ms = chat
  OBVIOUS
<1>2. PICK c : c = active'
  OBVIOUS
<1>3. Placed(ms, c)
  BY <1>1, <1>2, PlacedAny DEF PlacedInv
<1>4. Placed(ms, c)'
  BY <1>3, PlacedKept
<1>5. Placed(chat, active)'
  BY <1>1, <1>2, <1>4 DEF Placed
<1> QED BY <1>5 DEF ChatGrows

LEMMA StreamsKept ==
    ASSUME StreamInv, HomesKept, streams' = streams, sending' = sending,
           active' = active \/ active = NoConv
    PROVE  StreamInv'
<1>1. count \in Nat /\ count' \in Nat /\ count <= count' /\ 1..count \subseteq 1..count'
  BY DEF HomesKept
<1>2. \A s \in streams : s.msg \in 1..count' /\ home'[s.msg] = home[s.msg]
  BY <1>1 DEF StreamInv, HomesKept, SaidIds
<1>3. \A s \in streams : home'[s.msg] \in {active', NoConv}
  BY <1>2 DEF StreamInv
<1>4. sending' <=> streams' # {}
  BY DEF StreamInv
<1>5. \A s, t \in streams' : s = t
  BY DEF StreamInv
<1> QED BY <1>2, <1>3, <1>4, <1>5 DEF StreamInv

LEMMA AskFits ==
    ASSUME TypeOK, NEW kind \in Kinds \ {"none"}, NEW c \in Convs \cup {NoConv}, NEW ix \in Index,
           Ask(kind, c, ix), kind \in {"select", "rename", "recent"} => c \in Convs,
           used \subseteq used', c \in used' \cup {NoConv}, DOMAIN ix \subseteq used'
    PROVE  TasksFit /\ \A s \in Slots : task'[s] = task[s] \/ task'[s].kind = kind
<1>1. PICK s \in Slots : /\ task'[s] = Asked(kind, c, ix)
                         /\ \A x \in Slots : x # s => task'[x] = task[x]
  BY AskIs
<1>2. /\ task'[s].conv = c /\ task'[s].index = ix /\ task'[s].got = NoFile /\ task'[s].kind = kind
  BY <1>1 DEF Asked
<1> QED BY <1>1, <1>2 DEF TasksFit

LEMMA SameTells ==
    ASSUME turns' = turns PROVE Tells
BY DEF Tells

LEMMA CloseStreamWhole ==
    ASSUME TypeOK, TypeOK', RestoreInv, StreamInv, Whole, NEW s \in streams, CloseStream(s)
    PROVE  RestoreInv' /\ StreamInv' /\ Whole'
<1>1. /\ sending' = FALSE /\ streams' = streams \ {s} /\ restore' = restore /\ chat' = chat
      /\ task' = task /\ files' = files /\ gone' = gone /\ turns' = turns
      /\ home' = home /\ count' = count
  BY DEF CloseStream, disk, past, said
<1>2. PersistActive(chat', title) /\ title \in Titles
  BY <1>1, TypeParts DEF CloseStream, ScreenType
<1>3. HomesKept /\ Tells /\ TasksFit
  BY <1>1, HomesSame, SameTells DEF TasksFit
<1>4. Placed(chat, active)' /\ ChatGrows
  BY <1>1, <1>2, <1>3, PersistKeeps, ScreenSame DEF Whole
<1>5. Whole'
  BY <1>1, <1>2, <1>3, <1>4, Persisted
<1>6. RestoreInv'
  <2>1. restore = "done"
    BY DEF RestoreInv
  <2> QED BY <1>1, <2>1, RestoredStays
<1>7. StreamInv'
  <2>1. streams' = {}
    BY <1>1 DEF StreamInv
  <2> QED BY <1>1, <2>1 DEF StreamInv
<1> QED BY <1>5, <1>6, <1>7

LEMMA NoteWhole ==
    ASSUME TypeOK, TypeOK', StreamInv, Whole, count < MaxMsgs, TasksFit,
           chat' = Append(chat, Note(count + 1)), PersistActive(chat', title), Say(count + 1),
           files' = files, gone' = gone, turns' = turns, streams' = streams, sending' = sending
    PROVE  StreamInv' /\ Whole'
<1>1. title \in Titles /\ Note(count + 1) \in Msg
  BY NextIds, TypeParts DEF ScreenType
<1>2. /\ HomesKept /\ count + 1 \in SaidIds'
  BY SayKeeps
<1>3. Stands(Note(count + 1))
  BY <1>2 DEF Stands, Note
<1>4. active' = active \/ active = NoConv
  BY <1>1, PersistKeeps
<1>5. Placed(chat, active)' /\ ChatGrows
  BY <1>1, <1>2, <1>3, <1>4, ScreenGrows DEF Whole
<1>6. Whole'
  BY <1>1, <1>2, <1>5, SameTells, Persisted
<1> QED BY <1>2, <1>4, <1>6, StreamsKept

LEMMA DenyWhole ==
    ASSUME TypeOK, TypeOK', RestoreInv, StreamInv, Whole, Deny
    PROVE  RestoreInv' /\ StreamInv' /\ Whole'
<1>1. /\ count < MaxMsgs /\ chat' = Append(chat, Note(count + 1)) /\ pending
      /\ PersistActive(chat', title) /\ Say(count + 1)
      /\ restore' = restore /\ sending' = sending /\ streams' = streams /\ task' = task
      /\ files' = files /\ turns' = turns /\ gone' = gone
  BY DEF Deny, disk
<1>2. TasksFit
  BY <1>1 DEF TasksFit
<1>3. RestoreInv'
  <2>1. restore = "done"
    BY <1>1 DEF RestoreInv
  <2> QED BY <1>1, <2>1, RestoredStays
<1> QED BY <1>1, <1>2, <1>3, NoteWhole

LEMMA ImportEndsWhole ==
    ASSUME TypeOK, TypeOK', RestoreInv, StreamInv, Whole, NEW s \in Slots, ImportEnds(s)
    PROVE  RestoreInv' /\ StreamInv' /\ Whole'
<1>1. /\ count < MaxMsgs /\ chat' = Append(chat, Note(count + 1)) /\ task[s].kind = "import"
      /\ PersistActive(chat', title) /\ Say(count + 1)
      /\ restore' = restore /\ sending' = sending /\ streams' = streams
      /\ task' = [task EXCEPT ![s] = NoTask]
      /\ files' = files /\ turns' = turns /\ gone' = gone
  BY DEF ImportEnds, disk
<1>2. \A x \in Slots : task'[x] = task[x] \/ task'[x] = NoTask
  BY <1>1, TypeParts DEF TaskType
<1>3. TasksFit
  <2>1. title \in Titles
    BY TypeParts DEF ScreenType
  <2> QED BY <1>1, <1>2, <2>1, PersistKeeps, SameTasks
<1>4. RestoreInv'
  <2>1. restore = "done"
    BY <1>1 DEF RestoreInv
  <2> QED BY <1>1, <1>2, <2>1, NoneAre, RestoredStays
<1> QED BY <1>1, <1>3, <1>4, NoteWhole

LEMMA ImportWhole ==
    ASSUME TypeOK, TypeOK', RestoreInv, StreamInv, Whole, Orderly', Import
    PROVE  RestoreInv' /\ StreamInv' /\ Whole'
<1>1. /\ chat' = Append(chat, User(count + 1)) /\ PersistActive(chat', title) /\ Say(count + 1)
      /\ turns' = turns \cup {count + 1} /\ Ask("import", NoConv, NoIndex) /\ Early
      /\ sending' = sending /\ streams' = streams /\ files' = files /\ gone' = gone
  BY DEF Import, disk
<1>2. count < MaxMsgs /\ User(count + 1) \in Msg /\ title \in Titles
  <2>1. count + 2 <= MaxMsgs
    BY DEF Import
  <2> QED BY <2>1, NextIds, TypeParts DEF ScreenType
<1>3. /\ HomesKept /\ count + 1 \in SaidIds' /\ home'[count + 1] = active'
  BY <1>1, <1>2, SayKeeps
<1>4. chat' # <<>> /\ Contains(chat', User(count + 1))
  <2>1. chat \in Seq(Msg)
    BY DEF TypeOK
  <2> QED BY <1>1, <1>2, <2>1, AppendProperties, LastContains
<1>5. active' \in Convs /\ (active' = active \/ active = NoConv)
  BY <1>1, <1>2, <1>4, PersistScreen
<1>6. Stands(User(count + 1))
  BY <1>3, <1>5 DEF Stands, User
<1>7. Placed(chat, active)' /\ ChatGrows
  BY <1>1, <1>2, <1>3, <1>5, <1>6, ScreenGrows DEF Whole
<1>8. Tells
  BY <1>1, <1>3, <1>4 DEF Tells
<1>9. TasksFit /\ \A s \in Slots : task'[s] = task[s] \/ task'[s].kind = "import"
  <2>1. used \subseteq used'
    BY <1>1, <1>2, PersistKeeps
  <2>2. "import" \in Kinds \ {"none"}
    BY DEF Kinds
  <2> QED BY <1>1, <2>1, <2>2, NoneAre, AskFits
<1>10. Whole'
  BY <1>1, <1>2, <1>3, <1>7, <1>8, <1>9, Persisted
<1>11. RestoreInv'
  BY <1>1, <1>9, EarlyIs, RestoredStays
<1>12. StreamInv'
  BY <1>1, <1>3, <1>5, StreamsKept
<1> QED BY <1>10, <1>11, <1>12

LEMMA RenameActiveWhole ==
    ASSUME TypeOK, TypeOK', RestoreInv, StreamInv, Whole, Orderly', RenameActive
    PROVE  RestoreInv' /\ StreamInv' /\ Whole'
<1>1. /\ chat' = chat /\ PersistActive(chat', "named") /\ Early /\ "named" \in Titles
      /\ sending' = sending /\ streams' = streams /\ files' = files /\ gone' = gone
      /\ task' = task /\ turns' = turns /\ home' = home /\ count' = count
  BY DEF RenameActive, disk, said, Titles
<1>2. active' = active \/ active = NoConv
  BY <1>1, PersistKeeps
<1>3. HomesKept /\ Tells /\ TasksFit
  BY <1>1, HomesSame, SameTells DEF TasksFit
<1>4. Placed(chat, active)' /\ ChatGrows
  BY <1>1, <1>2, <1>3, ScreenSame DEF Whole
<1>5. Whole'
  BY <1>1, <1>3, <1>4, Persisted
<1>6. RestoreInv'
  BY <1>1, EarlyIs, RestoredStays
<1>7. StreamInv'
  BY <1>1, <1>2, <1>3, StreamsKept
<1> QED BY <1>5, <1>6, <1>7

LEMMA OpenStreamWhole ==
    ASSUME TypeOK, TypeOK', RestoreInv, StreamInv, Whole, NEW s \in streams, OpenStream(s)
    PROVE  RestoreInv' /\ StreamInv' /\ Whole'
<1>1. /\ chat' = Append(chat, Reply(s.msg)) /\ restore' = restore /\ active' = active
      /\ streams' = (streams \ {s}) \cup {[s EXCEPT !.at = "open"]}
      /\ convs' = convs /\ used' = used /\ sending' = sending /\ task' = task
      /\ queue' = queue /\ files' = files /\ home' = home /\ count' = count
      /\ turns' = turns /\ gone' = gone
  BY DEF OpenStream, store, disk, past, said
<1>2. HomesKept /\ TasksFit
  BY <1>1, HomesSame DEF TasksFit
<1>3. s.msg \in 1..count /\ home[s.msg] \in {active, NoConv} /\ s.msg \in SaidIds
  BY DEF StreamInv, SaidIds
<1>4. Stands(Reply(s.msg)) /\ Reply(s.msg) \in Msg
  BY <1>1, <1>3, NextIds DEF Stands, Reply, SaidIds
<1>5. Placed(chat, active)' /\ ChatGrows
  BY <1>1, <1>2, <1>4, ScreenGrows DEF Whole
<1>6. Whole'
  BY <1>1, <1>2, <1>5, Stays
<1>7. RestoreInv'
  <2>1. restore = "done"
    BY DEF RestoreInv
  <2> QED BY <1>1, <2>1, RestoredStays
<1>8. StreamInv'
  <2>1. streams' = {[s EXCEPT !.at = "open"]}
    BY <1>1 DEF StreamInv
  <2>2. [s EXCEPT !.at = "open"].msg = s.msg
    BY NextIds
  <2> QED BY <1>1, <1>3, <2>1, <2>2 DEF StreamInv
<1> QED BY <1>6, <1>7, <1>8

LEMMA StreamPendsWhole ==
    ASSUME TypeOK, TypeOK', RestoreInv, StreamInv, Whole, NEW s \in streams, StreamPends(s)
    PROVE  RestoreInv' /\ StreamInv' /\ Whole'
<1>1. /\ restore' = restore /\ active' = active
      /\ streams' = (streams \ {s}) \cup {[s EXCEPT !.at = "pended"]}
      /\ convs' = convs /\ used' = used /\ sending' = sending /\ task' = task
      /\ queue' = queue /\ files' = files /\ home' = home /\ count' = count
      /\ turns' = turns /\ gone' = gone
  BY DEF StreamPends, store, disk, past, said
<1>2. HomesKept /\ TasksFit
  BY <1>1, HomesSame DEF TasksFit
<1>3. chat \in Seq(Msg)
  BY DEF TypeOK
<1>4. PICK i \in DOMAIN chat : chat[i] = Reply(s.msg) /\ chat' = RemoveAt(chat, i)
  BY DEF StreamPends
<1>5. /\ \A k \in DOMAIN chat' : \E j \in DOMAIN chat : chat'[k] = chat[j]
      /\ \A j \in DOMAIN chat : j # i => \E k \in DOMAIN chat' : chat'[k] = chat[j]
  BY <1>3, <1>4, RemoveIs
<1>6. Placed(chat, active)'
  <2>1. Placed(chat, active)
    BY DEF Whole, PlacedInv
  <2> QED BY <1>1, <1>5, <2>1 DEF Placed, SaidIds
<1>7. ChatGrows
  <2> SUFFICES ASSUME NEW m \in MsgIds, Contains(chat, User(m)) PROVE Contains(chat', User(m))
    BY DEF ChatGrows
  <2>1. chat' \in Seq(Msg)
    BY DEF TypeOK
  <2>2. DOMAIN chat = 1..Len(chat) /\ DOMAIN chat' = 1..Len(chat')
    BY <1>3, <2>1, SeqIs
  <2>3. PICK j \in DOMAIN chat : chat[j] = User(m)
    BY <2>2 DEF Contains
  <2>4. j # i
    BY <1>4, <2>3 DEF User, Reply
  <2> QED BY <1>5, <2>2, <2>3, <2>4 DEF Contains
<1>8. Whole'
  BY <1>1, <1>2, <1>6, <1>7, Stays
<1>9. RestoreInv'
  <2>1. restore = "done"
    BY DEF RestoreInv
  <2> QED BY <1>1, <2>1, RestoredStays
<1>10. StreamInv'
  <2>1. streams' = {[s EXCEPT !.at = "pended"]}
    BY <1>1 DEF StreamInv
  <2>2. [s EXCEPT !.at = "pended"].msg = s.msg
    BY NextIds
  <2>3. s.msg \in 1..count /\ home[s.msg] \in {active, NoConv}
    BY DEF StreamInv
  <2> QED BY <1>1, <2>1, <2>2, <2>3 DEF StreamInv
<1> QED BY <1>8, <1>9, <1>10

LEMMA ApproveWhole ==
    ASSUME TypeOK, TypeOK', RestoreInv, StreamInv, Whole, Orderly', Approve
    PROVE  RestoreInv' /\ StreamInv' /\ Whole'
<1>1. /\ restore' = restore /\ active' = active /\ chat' = chat /\ sending' = TRUE /\ pending
      /\ streams' = streams \cup {[msg |-> count + 1, at |-> "start"]}
      /\ convs' = convs /\ used' = used /\ task' = task
      /\ queue' = queue /\ files' = files /\ Say(count + 1) /\ count < MaxMsgs
      /\ turns' = turns /\ gone' = gone
  BY DEF Approve, store, disk, Say
<1>2. HomesKept /\ home'[count + 1] = active /\ TasksFit
  BY <1>1, SayKeeps DEF TasksFit
<1>3. Placed(chat, active)' /\ ChatGrows
  BY <1>1, <1>2, ScreenSame DEF Whole
<1>4. Whole'
  BY <1>1, <1>2, <1>3, Stays
<1>5. RestoreInv'
  <2>1. restore = "done"
    BY <1>1 DEF RestoreInv
  <2> QED BY <1>1, <2>1, RestoredStays
<1>6. StreamInv'
  <2>1. streams = {}
    BY DEF Approve, Orderly
  <2>2. count + 1 \in 1..count'
    BY <1>1, NextIds DEF Say
  <2> QED BY <1>1, <1>2, <2>1, <2>2 DEF StreamInv
<1> QED BY <1>4, <1>5, <1>6

LEMMA RestoreBeginsWhole ==
    ASSUME TypeOK, TypeOK', RestoreInv, StreamInv, Whole, RestoreBegins
    PROVE  RestoreInv' /\ StreamInv' /\ Whole'
<1>1. /\ restore = "waiting" /\ restore' = "index" /\ Ask("index", NoConv, NoIndex)
      /\ active' = active /\ chat' = chat /\ convs' = convs /\ unsaved' = unsaved
      /\ pending' = pending /\ sending' = sending /\ streams' = streams
      /\ queue' = queue /\ files' = files /\ half' = half /\ used' = used
      /\ home' = home /\ count' = count /\ turns' = turns /\ gone' = gone
  BY DEF RestoreBegins, screen, store, disk, past, said
<1>2. "index" \in Kinds \ {"none"}
  BY DEF Kinds
<1>3. TasksFit
  BY <1>1, <1>2, NoneAre, AskFits
<1>4. HomesKept
  BY <1>1, HomesSame
<1>5. Placed(chat, active)' /\ ChatGrows
  BY <1>1, <1>4, ScreenSame DEF Whole
<1>6. Whole'
  BY <1>1, <1>3, <1>4, <1>5, Stays
<1>7. RestoreInv'
  <2>1. PICK s \in Slots : /\ task[s] = NoTask /\ task'[s] = Asked("index", NoConv, NoIndex)
                           /\ \A x \in Slots : x # s => task'[x] = task[x]
    <3>1. PICK s \in Slots : /\ task[s] = NoTask
                             /\ task' = [task EXCEPT ![s] = Asked("index", NoConv, NoIndex)]
      BY <1>1 DEF Ask
    <3>2. DOMAIN task = Slots
      BY TypeParts DEF TaskType
    <3> QED BY <3>1, <3>2
  <2>2. \A x \in Slots : x # s => task'[x] = NoTask /\ task'[x].kind = "none"
    BY <1>1, <2>1, NoneAre DEF RestoreInv
  <2>4. task'[s].kind = "index"
    BY <2>1 DEF Asked
  <2>3. \A x \in Slots : /\ task'[x].kind \in {"none", "index", "recent"}
                         /\ task'[x].kind = "recent" /\ task'[x].at = "read" => task'[x].got = files'[task'[x].conv]
                         /\ \A t \in Slots : task'[x] # NoTask /\ task'[t] # NoTask => x = t
    BY <2>2, <2>4
  <2> QED BY <1>1, <2>3 DEF RestoreInv
<1>8. StreamInv'
  BY <1>1, <1>4, StreamsKept
<1> QED BY <1>6, <1>7, <1>8

LEMMA SelectWhole ==
    ASSUME TypeOK, TypeOK', RestoreInv, StreamInv, Whole, Orderly', NEW c \in Convs, Select(c)
    PROVE  RestoreInv' /\ StreamInv' /\ Whole'
<1>1. /\ Ask("select", c, NoIndex) /\ Early /\ c \in DOMAIN convs
      /\ active' = active /\ chat' = chat /\ sending' = sending /\ streams' = streams
      /\ queue' = queue /\ files' = files /\ used' = used
      /\ home' = home /\ count' = count /\ turns' = turns /\ gone' = gone
  BY DEF Select, store, disk, said
<1>2. DOMAIN convs' \subseteq DOMAIN convs
  <2>1. convs' = convs \/ convs' = Without(convs, active)
    BY DEF Select
  <2> QED BY <2>1, WithoutIs, TypeParts DEF ScreenType
<1>3. TasksFit /\ \A s \in Slots : task'[s] = task[s] \/ task'[s].kind = "select"
  <2>1. "select" \in Kinds \ {"none"} /\ c \in used
    BY <1>1 DEF Kinds, Whole, UsedInv
  <2> QED BY <1>1, <2>1, NoneAre, AskFits
<1>4. HomesKept
  BY <1>1, HomesSame
<1>5. Placed(chat, active)' /\ ChatGrows
  BY <1>1, <1>4, ScreenSame DEF Whole
<1>6. Whole'
  BY <1>1, <1>2, <1>3, <1>4, <1>5, Stays
<1>7. RestoreInv'
  BY <1>1, <1>3, EarlyIs, RestoredStays
<1>8. StreamInv'
  BY <1>1, <1>4, StreamsKept
<1> QED BY <1>6, <1>7, <1>8

LEMMA RenameOtherWhole ==
    ASSUME TypeOK, TypeOK', RestoreInv, StreamInv, Whole, Orderly', NEW c \in Convs, RenameOther(c)
    PROVE  RestoreInv' /\ StreamInv' /\ Whole'
<1>1. /\ Ask("rename", c, convs') /\ Early /\ c \in DOMAIN convs
      /\ convs' = [convs EXCEPT ![c] = "named"]
      /\ active' = active /\ chat' = chat /\ sending' = sending /\ streams' = streams
      /\ queue' = queue /\ files' = files /\ used' = used
      /\ home' = home /\ count' = count /\ turns' = turns /\ gone' = gone
  BY DEF RenameOther, store, disk, said
<1>2. DOMAIN convs' = DOMAIN convs /\ DOMAIN convs \subseteq used /\ convs' \in Index
  <2>1. convs' \in Index
    BY DEF TypeOK
  <2>2. DOMAIN convs \subseteq used
    BY DEF Whole, UsedInv
  <2> QED BY <1>1, <2>1, <2>2
<1>3. TasksFit /\ \A s \in Slots : task'[s] = task[s] \/ task'[s].kind = "rename"
  <2>1. "rename" \in Kinds \ {"none"} /\ c \in used
    BY <1>1 DEF Kinds, Whole, UsedInv
  <2>2. PICK ix : ix = convs'
    OBVIOUS
  <2> QED BY <1>1, <1>2, <2>1, <2>2, AskFits
<1>4. HomesKept
  BY <1>1, HomesSame
<1>5. Placed(chat, active)' /\ ChatGrows
  BY <1>1, <1>4, ScreenSame DEF Whole
<1>6. Whole'
  BY <1>1, <1>2, <1>3, <1>4, <1>5, Stays
<1>7. RestoreInv'
  BY <1>1, <1>3, EarlyIs, RestoredStays
<1>8. StreamInv'
  BY <1>1, <1>4, StreamsKept
<1> QED BY <1>6, <1>7, <1>8

\* Nothing changes but where restoreSession is.
LEMMA SameWhole ==
    ASSUME TypeOK, TypeOK', RestoreInv, StreamInv, Whole,
           restore' = restore \/ (restore = "down" /\ restore' = "waiting"),
           UNCHANGED <<screen, sending, streams, task, store, used, past>>
    PROVE  RestoreInv' /\ StreamInv' /\ Whole'
<1>1. /\ active' = active /\ chat' = chat /\ convs' = convs /\ unsaved' = unsaved
      /\ pending' = pending /\ sending' = sending /\ streams' = streams /\ task' = task
      /\ queue' = queue /\ files' = files /\ half' = half /\ used' = used
      /\ home' = home /\ count' = count /\ turns' = turns /\ gone' = gone
  BY DEF screen, store, disk, past, said
<1>2. HomesKept /\ TasksFit
  BY <1>1, HomesSame DEF TasksFit
<1>3. Placed(chat, active)' /\ ChatGrows
  BY <1>1, <1>2, ScreenSame DEF Whole
<1>4. Whole'
  BY <1>1, <1>2, <1>3, Stays
<1>5. RestoreInv'
  BY <1>1 DEF RestoreInv
<1>6. StreamInv'
  BY <1>1, <1>2, StreamsKept
<1> QED BY <1>4, <1>5, <1>6

LEMMA StreamsNone ==
    ASSUME StreamInv, ~sending, sending' = sending, streams' = streams
    PROVE  StreamInv'
<1>1. streams' = {} /\ ~sending'
  BY DEF StreamInv
<1> QED BY <1>1 DEF StreamInv

LEMMA BlankShows ==
    ASSUME TypeOK, NEW cs \in Index, DOMAIN cs \subseteq used, NEW us, Blank(cs, us)
    PROVE  /\ ShowsBlank /\ used \subseteq used' /\ active' \in used'
           /\ DOMAIN convs' \subseteq used'
<1>1. PICK c \in Convs \ used : /\ active' = c /\ chat' = <<>> /\ used' = used \cup {c}
                                /\ convs' = With(cs, c, "New chat")
  BY DEF Blank
<1>2. "New chat" \in Titles /\ c \in Convs
  BY DEF Titles
<1>3. DOMAIN convs' = DOMAIN cs \cup {c}
  BY <1>1, <1>2, WithIs
<1> QED BY <1>1, <1>3 DEF ShowsBlank

\* What the handlers that only change the screen leave alone.
Kept ==
    /\ sending' = sending /\ streams' = streams /\ queue' = queue /\ files' = files
    /\ gone' = gone /\ turns' = turns /\ home' = home /\ count' = count

LEMMA NewChatOverWhole ==
    ASSUME TypeOK, TypeOK', StreamInv, Whole, TasksFit, Kept,
           NEW cs \in Index, DOMAIN cs \subseteq used, NewChatOver(cs)
    PROVE  StreamInv' /\ Whole'
<1>1. HomesKept
  BY HomesSame DEF Kept
<1>2. CASE sending \/ OnBlank
  <2>1. convs' = cs /\ active' = active /\ chat' = chat /\ used' = used
    BY <1>2 DEF NewChatOver
  <2>2. Placed(chat, active)' /\ ChatGrows
    BY <1>1, <2>1, ScreenSame DEF Whole
  <2>3. Whole'
    BY <1>1, <2>1, <2>2, Stays DEF Kept
  <2>4. StreamInv'
    BY <1>1, <2>1, StreamsKept DEF Kept
  <2> QED BY <2>3, <2>4
<1>3. CASE ~sending /\ ~OnBlank
  <2>1. Blank(cs, unsaved)
    BY <1>3 DEF NewChatOver
  <2>2. /\ ShowsBlank /\ used \subseteq used' /\ active' \in used'
        /\ DOMAIN convs' \subseteq used'
    BY <2>1, BlankShows
  <2>3. Whole'
    BY <2>2, Shows DEF Kept
  <2> QED BY <1>3, <2>3, StreamsNone DEF Kept
<1> QED BY <1>2, <1>3

LEMMA AdoptWhole ==
    ASSUME TypeOK, TypeOK', StreamInv, Whole, TasksFit, Kept, ~sending,
           NEW CONSTANT c \in Convs, NEW CONSTANT got, Adopt(c, got), c \in used, Placed(got.msgs, c),
           got = Latest(c), got # NoFile, convs' = convs, used' = used
    PROVE  StreamInv' /\ Whole'
<1>1. HomesKept
  BY HomesSame DEF Kept
<1>2. active' = c /\ chat' = got.msgs
  BY DEF Adopt
<1>3. Placed(chat, active)'
  BY <1>2 DEF Kept, Placed, SaidIds
<1>4. c \notin gone
  BY DEF Whole, GoneInv
<1>5. ShowsSaved
  BY <1>2, <1>3, <1>4 DEF ShowsSaved
<1>6. DOMAIN convs' \subseteq used'
  BY DEF Whole, UsedInv
<1>7. Whole'
  BY <1>2, <1>5, <1>6, Shows DEF Kept
<1> QED BY <1>7, StreamsNone DEF Kept

LEMMA NewChatWhole ==
    ASSUME TypeOK, TypeOK', RestoreInv, StreamInv, Whole, Orderly', NewChat
    PROVE  RestoreInv' /\ StreamInv' /\ Whole'
<1>1. NewChatOver(convs) /\ Early /\ task' = task /\ Kept
  BY DEF NewChat, NewChatOver, Kept, store, disk, said
<1>2. TasksFit
  BY <1>1 DEF TasksFit
<1>3. StreamInv' /\ Whole'
  BY <1>1, <1>2, NewChatOverWhole, TypeParts DEF ScreenType, Whole, UsedInv
<1>4. RestoreInv'
  BY <1>1, EarlyIs, RestoredStays
<1> QED BY <1>3, <1>4

LEMMA SelectEndsWhole ==
    ASSUME TypeOK, JobsInv, TypeOK', RestoreInv, StreamInv, Whole, Orderly', NEW s \in Slots, SelectEnds(s)
    PROVE  RestoreInv' /\ StreamInv' /\ Whole'
<1>1. /\ task' = [task EXCEPT ![s] = NoTask] /\ restore' = restore /\ Kept
      /\ Answered(s, "select")
  BY DEF SelectEnds, Kept, store, disk, said
<1>2. task[s].kind = "select" /\ task[s].conv \in Convs
  BY <1>1, AnsweredIs
<1>3. \A x \in Slots : task'[x] = task[x] \/ task'[x] = NoTask
  BY <1>1, TypeParts DEF TaskType
<1>4. RestoreInv'
  <2>1. restore = "done"
    BY <1>2 DEF RestoreInv
  <2> QED BY <1>1, <1>3, <2>1, NoneAre, RestoredStays
<1>5. CASE sending
  <2>1. active' = active /\ chat' = chat /\ convs' = convs /\ used' = used
    BY <1>5 DEF SelectEnds, screen
  <2>2. TasksFit /\ HomesKept
    BY <1>1, <1>3, <2>1, SameTasks, HomesSame DEF Kept
  <2>3. Placed(chat, active)' /\ ChatGrows
    BY <2>1, <2>2, ScreenSame DEF Whole
  <2>4. Whole'
    BY <1>1, <2>1, <2>2, <2>3, Stays DEF Kept
  <2>5. StreamInv'
    BY <1>1, <2>1, <2>2, StreamsKept DEF Kept
  <2> QED BY <1>4, <2>4, <2>5
<1>6. CASE ~sending /\ task[s].got = NoFile
  <2>1. NewChatOver(convs)
    BY <1>6 DEF SelectEnds
  <2>2. DOMAIN convs \subseteq used /\ convs \in Index
    BY TypeParts DEF Whole, UsedInv, ScreenType
  <2>3. used \subseteq used'
    BY <2>1 DEF NewChatOver, Blank
  <2>4. TasksFit
    BY <1>3, <2>3, SameTasks
  <2> QED BY <1>1, <1>4, <2>1, <2>2, <2>4, NewChatOverWhole
<1>7. CASE ~sending /\ task[s].got # NoFile
  <2>1. PICK c \in Convs : c = task[s].conv
    BY <1>2
  <2>2. PICK got : got = task[s].got
    OBVIOUS
  <2>3. /\ Adopt(c, got) /\ convs' = convs /\ used' = used
        /\ stale' = (stale \/ got # Latest(c))
    BY <1>7, <2>1, <2>2 DEF SelectEnds
  <2>4. got = Latest(c)
    BY <2>3 DEF Orderly
  <2>5. c \in used /\ Placed(got.msgs, c)
    BY <2>1, <2>2, ConvAssumption DEF Whole, UsedInv, PlacedInv
  <2>6. TasksFit
    BY <1>3, <2>3, SameTasks
  <2> QED BY <1>1, <1>4, <1>7, <2>2, <2>3, <2>4, <2>5, <2>6, AdoptWhole
<1> QED BY <1>5, <1>6, <1>7

\* While the task of restoreSession is there, it is the only one.
LEMMA RestoreOnly ==
    ASSUME TypeOK, JobsInv, RestoreInv, StreamInv, NEW s \in Slots, NEW kind \in {"index", "recent"},
           Answered(s, kind)
    PROVE  /\ restore \notin {"done", "down", "waiting"} /\ ~sending /\ streams = {}
           /\ \A x \in Slots : x # s => task[x] = NoTask
           /\ \A k \in DOMAIN queue : queue[k].op = "load"
           /\ kind = "recent" => task[s].got = files[task[s].conv]
<1>1. task[s].kind = kind /\ task[s].at = "read" /\ task[s] # NoTask
  BY AnsweredIs DEF Answered
<1>2. restore # "done" /\ restore \notin {"down", "waiting"}
  BY <1>1 DEF RestoreInv
<1>3. streams = {} /\ ~sending
  BY <1>2 DEF RestoreInv, StreamInv
<1> QED BY <1>1, <1>2, <1>3 DEF RestoreInv

LEMMA RestoreIndexWhole ==
    ASSUME TypeOK, JobsInv, TypeOK', RestoreInv, StreamInv, Whole, NEW s \in Slots, RestoreIndex(s)
    PROVE  RestoreInv' /\ StreamInv' /\ Whole'
<1>1. Kept /\ half' = half /\ Answered(s, "index")
      /\ (RestoresSome(s) \/ RestoresNone(s))
  BY RestoreIndexIs DEF Kept, store, disk, past, said
<1>2. /\ restore \notin {"done", "down", "waiting"} /\ ~sending /\ streams = {}
      /\ \A x \in Slots : x # s => task[x] = NoTask
  BY <1>1, RestoreOnly
<1>3. DOMAIN task[s].index \subseteq used /\ task \in [Slots -> Task]
  BY <1>1, TypeParts DEF Whole, UsedInv, TaskType
<1>4. HomesKept
  BY <1>1, HomesSame DEF Kept
<1>5. CASE RestoresSome(s)
  <2>1. /\ restore' = "recent" /\ active' = active /\ chat' = chat /\ unsaved' = unsaved
        /\ pending' = pending /\ used' = used /\ convs' = task[s].index
    BY <1>5 DEF RestoresSome
  <2>2. PICK c \in DOMAIN convs' : task' = [task EXCEPT ![s] = Recent(c)]
    BY <1>5 DEF RestoresSome
  <2>3. c \in Convs /\ c \in used
    BY <1>3, <2>1, <2>2, TypeParts DEF ScreenType
  <2>4. /\ task'[s].conv = c /\ task'[s].got = NoFile /\ DOMAIN task'[s].index = {}
        /\ task'[s].kind = "recent" /\ task'[s].at = "asked"
        /\ \A x \in Slots : x # s => task'[x] = task[x]
    BY <1>3, <2>2, <2>3, RecentIs, NoneAre
  <2>5. TasksFit
    BY <2>1, <2>3, <2>4 DEF TasksFit
  <2>6. Placed(chat, active)' /\ ChatGrows
    BY <1>4, <2>1, ScreenSame DEF Whole
  <2>7. Whole'
    BY <1>1, <1>3, <1>4, <2>1, <2>5, <2>6, Stays DEF Kept
  <2>8. RestoreInv'
    <3>1. \A x \in Slots : x # s => task'[x] = NoTask /\ task'[x].kind = "none"
      BY <1>2, <2>4, NoneAre
    <3>2. \A x \in Slots : /\ task'[x].kind \in {"none", "index", "recent"}
                           /\ task'[x].kind = "recent" /\ task'[x].at = "read" => task'[x].got = files'[task'[x].conv]
                           /\ \A t \in Slots : task'[x] # NoTask /\ task'[t] # NoTask => x = t
      BY <2>4, <3>1
    <3> QED BY <1>1, <1>2, <2>1, <3>2 DEF RestoreInv, Kept
  <2> QED BY <1>1, <1>2, <2>7, <2>8, StreamsNone DEF Kept
<1>6. CASE RestoresNone(s)
  <2>1. restore' = "done" /\ task' = [task EXCEPT ![s] = NoTask] /\ NewChatOver(NoIndex)
    BY <1>6 DEF RestoresNone
  <2>2. \A x \in Slots : task'[x] = NoTask
    BY <1>2, <1>3, <2>1
  <2>3. used \subseteq used'
    BY <2>1 DEF NewChatOver, Blank
  <2>4. TasksFit
    BY <2>2, <2>3, SameTasks
  <2>5. StreamInv' /\ Whole'
    BY <1>1, <2>1, <2>4, NoneAre, NewChatOverWhole
  <2>6. RestoreInv'
    BY <2>1, <2>2, NoneAre DEF RestoreInv
  <2> QED BY <2>5, <2>6
<1> QED BY <1>1, <1>5, <1>6

LEMMA RestoreRecentWhole ==
    ASSUME TypeOK, JobsInv, TypeOK', RestoreInv, StreamInv, Whole, NEW s \in Slots, RestoreRecent(s)
    PROVE  RestoreInv' /\ StreamInv' /\ Whole'
<1>1. Kept /\ Answered(s, "recent") /\ restore' = "done" /\ task' = [task EXCEPT ![s] = NoTask]
  BY DEF RestoreRecent, Kept, store, disk, past, said
<1>2. /\ ~sending
      /\ \A x \in Slots : x # s => task[x] = NoTask
      /\ \A k \in DOMAIN queue : queue[k].op = "load"
      /\ task[s].got = files[task[s].conv]
  BY <1>1, RestoreOnly
<1>3. task \in [Slots -> Task] /\ task[s].conv \in Convs
  BY <1>1, AnsweredIs, TypeParts DEF TaskType
<1>4. \A x \in Slots : task'[x] = NoTask
  BY <1>1, <1>2, <1>3
<1>5. RestoreInv'
  BY <1>1, <1>4, NoneAre DEF RestoreInv
<1>6. CASE task[s].got = NoFile
  <2>1. NewChatOver(convs)
    BY <1>6 DEF RestoreRecent
  <2>2. DOMAIN convs \subseteq used /\ convs \in Index
    BY TypeParts DEF Whole, UsedInv, ScreenType
  <2>3. used \subseteq used'
    BY <2>1 DEF NewChatOver, Blank
  <2>4. TasksFit
    BY <1>4, <2>3, SameTasks
  <2> QED BY <1>1, <1>5, <2>1, <2>2, <2>4, NewChatOverWhole
<1>7. CASE task[s].got # NoFile
  <2>1. PICK c \in Convs : c = task[s].conv
    BY <1>3
  <2>2. PICK got : got = task[s].got
    OBVIOUS
  <2>3. /\ Adopt(c, got) /\ convs' = convs /\ used' = used
    BY <1>7, <2>1, <2>2 DEF RestoreRecent
  <2>4. got = Latest(c)
    BY <1>2, <2>1, <2>2, LatestUnwritten
  <2>5. c \in used /\ Placed(got.msgs, c)
    BY <2>1, <2>2, ConvAssumption DEF Whole, UsedInv, PlacedInv
  <2>6. TasksFit
    BY <1>4, <2>3, SameTasks
  <2> QED BY <1>1, <1>2, <1>5, <1>7, <2>2, <2>3, <2>4, <2>5, <2>6, AdoptWhole
<1> QED BY <1>6, <1>7

LEMMA SubmitKept ==
    ASSUME TypeOK, JobsInv, TypeOK', RestoreInv, StreamInv, Whole, NEW s \in Slots, Submit(s)
    PROVE  RestoreInv' /\ StreamInv' /\ Whole'
<1>1. /\ restore' = restore /\ active' = active /\ chat' = chat /\ unsaved' = unsaved
      /\ pending' = pending /\ sending' = sending /\ streams' = streams /\ half' = half
      /\ files' = files /\ home' = home /\ count' = count
  BY DEF Submit, screen, disk, past, said
<1>2. Whole'
  BY SubmitWhole
<1>3. StreamInv'
  BY <1>1, HomesSame, StreamsKept
<1>4. \A x \in Slots : /\ task'[x].kind = task[x].kind /\ task'[x].conv = task[x].conv
                       /\ task'[x].got = task[x].got
                       /\ task'[x].at = "read" => task[x].at = "read"
                       /\ task'[x] # NoTask => task[x] # NoTask
  BY SubmitIs, NoneAre
<1>5. task[s] # NoTask
  BY SubmitIs, NoneAre
<1>6. restore \notin {"down", "waiting"}
  BY <1>5 DEF RestoreInv
<1>7. \A k \in DOMAIN queue' : queue'[k].op = "load" \/ (k \in DOMAIN queue /\ queue'[k] = queue[k])
  <2>1. queue \in Seq(Job) /\ LoadJob(s) \in Job /\ queue' = Append(queue, LoadJob(s))
    BY SubmitIs, TypeParts DEF QueueType, Submit
  <2>2. /\ Len(queue) \in Nat /\ DOMAIN queue = 1..Len(queue)
        /\ DOMAIN queue' = 1..(Len(queue) + 1) /\ queue'[Len(queue) + 1] = LoadJob(s)
        /\ \A k \in DOMAIN queue : queue'[k] = queue[k]
    BY <2>1, AppendIs
  <2>3. \A k \in DOMAIN queue' : k \in DOMAIN queue \/ k = Len(queue) + 1
    BY <2>2
  <2>4. LoadJob(s).op = "load"
    BY DEF LoadJob
  <2>5. PICK j : j = LoadJob(s)
    OBVIOUS
  <2>6. j.op = "load" /\ queue'[Len(queue) + 1] = j
    BY <2>2, <2>4, <2>5
  <2> QED BY <2>2, <2>3, <2>6
<1>8. RestoreInv'
  <2>1. ASSUME restore = "done" PROVE RestoreInv'
    BY <1>1, <1>4, <2>1 DEF RestoreInv
  <2>2. ASSUME restore # "done" PROVE RestoreInv'
    <3>1. \A x \in Slots : /\ task'[x].kind \in {"none", "index", "recent"}
                           /\ task'[x].kind = "recent" /\ task'[x].at = "read" => task'[x].got = files'[task'[x].conv]
                           /\ \A t \in Slots : task'[x] # NoTask /\ task'[t] # NoTask => x = t
      BY <1>1, <1>4, <2>2 DEF RestoreInv
    <3> QED BY <1>1, <1>6, <1>7, <2>2, <3>1 DEF RestoreInv
  <2> QED BY <2>1, <2>2
<1> QED BY <1>2, <1>3, <1>8

LEMMA JobFileKept ==
    ASSUME TypeOK, JobsInv, TypeOK', RestoreInv, StreamInv, Whole, JobFile
    PROVE  RestoreInv' /\ StreamInv' /\ Whole'
<1>1. /\ restore' = restore /\ active' = active /\ task' = task
      /\ sending' = sending /\ streams' = streams /\ home' = home /\ count' = count
  BY DEF JobFile, screen, past, said
<1>2. restore = "done"
  <2>1. 1 \in DOMAIN queue /\ queue[1].op # "load"
    BY Job1Is DEF JobFile
  <2> QED BY <2>1 DEF RestoreInv
<1>3. RestoreInv'
  BY <1>1, <1>2, RestoredStays
<1>4. StreamInv'
  BY <1>1, HomesSame, StreamsKept
<1> QED BY <1>3, <1>4, JobFileWhole

LEMMA JobIndexKept ==
    ASSUME TypeOK, JobsInv, HalfInv, TypeOK', RestoreInv, StreamInv, Whole, JobIndex
    PROVE  RestoreInv' /\ StreamInv' /\ Whole'
<1>1. /\ restore' = restore /\ active' = active /\ task' = task /\ half
      /\ sending' = sending /\ streams' = streams /\ home' = home /\ count' = count
  BY DEF JobIndex, screen, past, said
<1>2. restore = "done"
  BY <1>1 DEF RestoreInv
<1>3. RestoreInv'
  BY <1>1, <1>2, RestoredStays
<1>4. StreamInv'
  BY <1>1, HomesSame, StreamsKept
<1> QED BY <1>3, <1>4, JobIndexWhole

LEMMA JobLoadKept ==
    ASSUME TypeOK, JobsInv, TypeOK', RestoreInv, StreamInv, Whole, JobLoad
    PROVE  RestoreInv' /\ StreamInv' /\ Whole'
<1>1. /\ restore' = restore /\ active' = active /\ chat' = chat /\ unsaved' = unsaved
      /\ pending' = pending /\ sending' = sending /\ streams' = streams
      /\ home' = home /\ count' = count
  BY DEF JobLoad, screen, past, said
<1>2. /\ queue # <<>> /\ queue' = Tail(queue) /\ files' = files /\ half' = FALSE
  BY JobLoadIs
<1>3. PICK s \in Slots :
        /\ s = queue[1].slot
        /\ task[s].at = "queued" /\ task'[s].kind = task[s].kind /\ task'[s].conv = task[s].conv
        /\ task[s].kind # "index" => task'[s].got = files[task[s].conv]
        /\ \A x \in Slots : x # s => task'[x] = task[x]
  BY JobLoadIs
<1>4. task[s] # NoTask
  BY <1>3, NoneAre
<1>5. \A x \in Slots : /\ task'[x].kind = task[x].kind /\ task'[x].conv = task[x].conv
                       /\ task'[x] # NoTask => task[x] # NoTask
                       /\ x = s \/ task'[x] = task[x]
  BY <1>3, <1>4
<1>6. restore \notin {"down", "waiting"}
  BY <1>4 DEF RestoreInv
<1>7. RestoreInv'
  <2>1. ASSUME restore = "done" PROVE RestoreInv'
    BY <1>1, <1>5, <2>1 DEF RestoreInv
  <2>2. ASSUME restore # "done" PROVE RestoreInv'
    <3>1. \A x \in Slots : /\ task'[x].kind \in {"none", "index", "recent"}
                           /\ \A t \in Slots : task'[x] # NoTask /\ task'[t] # NoTask => x = t
      BY <1>5, <2>2 DEF RestoreInv
    <3>2. \A x \in Slots : task'[x].kind = "recent" /\ task'[x].at = "read" => task'[x].got = files'[task'[x].conv]
      BY <1>2, <1>3, <1>5, <2>2 DEF RestoreInv
    <3>3. \A k \in DOMAIN queue' : queue'[k].op = "load"
      <4>1. queue \in Seq(Job)
        BY TypeParts DEF QueueType
      <4>2. \A k \in DOMAIN queue' : k + 1 \in DOMAIN queue /\ queue'[k] = queue[k + 1]
        <5>1. /\ DOMAIN queue' = 1..(Len(queue) - 1) /\ Len(queue) \in Nat /\ DOMAIN queue = 1..Len(queue)
              /\ \A k \in DOMAIN queue' : queue'[k] = queue[k + 1]
          BY <1>2, <4>1, TailIs
        <5> QED BY <5>1
      <4> QED BY <2>2, <4>2 DEF RestoreInv
    <3> QED BY <1>1, <1>2, <1>6, <2>2, <3>1, <3>2, <3>3 DEF RestoreInv
  <2> QED BY <2>1, <2>2
<1>8. StreamInv'
  BY <1>1, HomesSame, StreamsKept
<1> QED BY <1>7, <1>8, JobLoadWhole

LEMMA QuitWhole ==
    ASSUME TypeOK, TypeOK', Whole, Quit
    PROVE  RestoreInv' /\ StreamInv' /\ Whole'
<1>1. /\ restore' = "down" /\ active' = NoConv /\ chat' = <<>> /\ convs' = NoIndex
      /\ unsaved' = {} /\ sending' = FALSE /\ pending' = FALSE /\ streams' = {}
      /\ task' = [s \in Slots |-> NoTask] /\ queue' = <<>> /\ half' = FALSE
      /\ turns' = {m \in turns : \E c \in Convs : Contains(files[c].msgs, User(m))}
      /\ gone' = gone \ Saved
      /\ files' = files /\ used' = used /\ home' = home /\ count' = count
  BY DEF Quit
<1>2. DOMAIN queue' = {} /\ DOMAIN chat' = {} /\ \A s \in Slots : task'[s] = NoTask
  BY <1>1
<1>3. RestoreInv'
  BY <1>1, <1>2, NoneAre DEF RestoreInv
<1>4. StreamInv'
  BY <1>1 DEF StreamInv
<1>5. UsedInv'
  BY <1>1, <1>2, NoneAre DEF Whole, UsedInv, Saved
<1>6. HomesKept
  BY <1>1, HomesSame
<1>7. PlacedInv'
  <2>1. \A c \in Convs : Placed(files[c].msgs, c)'
    BY <1>1, <1>6, FilesPlaced
  <2>2. Placed(chat, active)' /\ \A k \in DOMAIN queue' : Placed(queue[k].new.msgs, queue[k].conv)'
    BY <1>2 DEF Placed
  <2>3. \A s \in Slots : Placed(task[s].got.msgs, task[s].conv)'
    <3>1. \A s \in Slots : DOMAIN task'[s].got.msgs = {}
      <4>1. \A s \in Slots : task'[s].got.msgs = << >>
        BY <1>2, NoneAre
      <4> QED BY <4>1
    <3> QED BY <3>1 DEF Placed
  <2> QED BY <2>1, <2>2, <2>3 DEF PlacedInv
<1>8. \A c : Latest(c)' = files[c]
  BY <1>1, <1>2 DEF Latest
<1>9. GoneInv'
  <2> SUFFICES ASSUME NEW x \in gone' PROVE x \in used' /\ x # active' /\ Latest(x)' = NoFile
    BY DEF GoneInv
  <2>1. x \in gone /\ x \notin Saved /\ x \in Convs
    BY <1>1, TypeParts DEF PastType
  <2>2. files[x] = NoFile
    BY <2>1 DEF Saved
  <2> QED BY <1>1, <1>8, <2>1, <2>2, ConvAssumption DEF Whole, GoneInv
<1>10. TurnsInv'
  <2> SUFFICES ASSUME NEW m \in turns'
               PROVE  /\ m \in SaidIds' /\ home'[m] \in used'
                      /\ home'[m] \notin gone' => Contains(Latest(home[m]).msgs, User(m))'
                      /\ home'[m] = active' => Contains(chat', User(m))
    BY DEF TurnsInv
  <2>1. m \in turns /\ m \in SaidIds /\ m \in SaidIds' /\ home'[m] = home[m] /\ home[m] \in used
    BY <1>1 DEF Whole, TurnsInv, SaidIds
  <2>2. home[m] # active'
    BY <1>1, <2>1, ConvAssumption, TypeParts DEF ScreenType
  <2>3. PICK c \in Convs : Contains(files[c].msgs, User(m))
    BY <1>1
  <2>4. home[m] = c
    <3>1. PICK i \in 1..Len(files[c].msgs) : files[c].msgs[i] = User(m)
      BY <2>3 DEF Contains
    <3>2. files[c] \in Conversation
      BY TypeParts DEF DiskType
    <3>3. files[c].msgs \in Seq(Msg)
      BY <3>2 DEF Conversation
    <3>4. i \in DOMAIN files[c].msgs
      BY <3>1, <3>3, SeqIs
    <3> QED BY <3>1, <3>4 DEF Whole, PlacedInv, Placed, User
  <2>5. PICK h : h = home[m]
    OBVIOUS
  <2>6. Contains(Latest(h)'.msgs, User(m))
    BY <1>8, <2>3, <2>4, <2>5
  <2>7. Contains(Latest(home[m]).msgs, User(m))'
    <3>1. Latest(home[m])' = Latest(h)'
      BY <1>1, <2>5 DEF Latest
    <3> QED BY <2>6, <3>1 DEF Contains, User
  <2> QED BY <1>1, <2>1, <2>2, <2>7
<1> QED BY <1>3, <1>4, <1>5, <1>7, <1>9, <1>10 DEF Whole

\* A job that writes is appended.
LEMMA WrittenParts ==
    ASSUME TypeOK, TypeOK', Whole, HomesKept, TasksFit, NEW CONSTANT j \in Job, j.conv \in used,
           queue' = Append(queue, j), files' = files, used \subseteq used',
           Placed(j.new.msgs, j.conv)
    PROVE  /\ Saved' \subseteq used'
           /\ \A k \in DOMAIN queue' : queue'[k].op # "load" => queue'[k].conv \in used'
           /\ \A s \in Slots : /\ task'[s].conv \in used' \cup {NoConv}
                               /\ DOMAIN task'[s].index \subseteq used'
           /\ \A c \in Convs : Placed(files[c].msgs, c)'
           /\ \A k \in DOMAIN queue' : Placed(queue[k].new.msgs, queue[k].conv)'
           /\ \A s \in Slots : Placed(task[s].got.msgs, task[s].conv)'
<1>1. /\ Len(queue) \in Nat /\ DOMAIN queue = 1..Len(queue)
      /\ DOMAIN queue' = 1..(Len(queue) + 1) /\ queue'[Len(queue) + 1] = j
      /\ \A k \in DOMAIN queue : queue'[k] = queue[k]
  BY AppendIs, TypeParts DEF QueueType
<1>2. \A k \in DOMAIN queue' : k \in DOMAIN queue \/ k = Len(queue) + 1
  BY <1>1
<1>3. \A k \in DOMAIN queue' : queue'[k].op # "load" => queue'[k].conv \in used'
  BY <1>1, <1>2 DEF Whole, UsedInv
<1>4. Saved' \subseteq used'
  BY DEF Whole, UsedInv, Saved
<1>5. ASSUME NEW CONSTANT k, k \in DOMAIN queue' PROVE Placed(queue[k].new.msgs, queue[k].conv)'
  <2>1. CASE k \in DOMAIN queue
    BY <1>1, <2>1, JobPlaced
  <2>2. CASE k = Len(queue) + 1
    <3>1. PICK ms : ms = j.new.msgs
      OBVIOUS
    <3>2. PICK c : c = j.conv
      OBVIOUS
    <3>3. Placed(ms, c)'
      BY <3>1, <3>2, PlacedKept
    <3> QED BY <1>1, <2>2, <3>1, <3>2, <3>3 DEF Placed
  <2> QED BY <1>2, <1>5, <2>1, <2>2
<1>6. \A c \in Convs : Placed(files[c].msgs, c)'
  BY FilesPlaced
<1> QED BY <1>3, <1>4, <1>5, <1>6, TasksPlaced

LEMMA DeleteWhole ==
    ASSUME TypeOK, TypeOK', RestoreInv, StreamInv, Whole, Orderly', NEW CONSTANT c \in Convs, Delete(c)
    PROVE  RestoreInv' /\ StreamInv' /\ Whole'
<1>1. /\ ~sending /\ c \in DOMAIN convs /\ Early
      /\ queue' = Append(queue, DeleteJob(c, Listed(c)))
      /\ DeletesOther(c) \/ DeletesShown(c) \/ DeletesLast(c)
      /\ gone' = gone \cup {c} /\ sending' = sending /\ streams' = streams /\ files' = files
      /\ home' = home /\ turns' = turns /\ count' = count
  BY DeleteIs
<1>2. c \in used /\ used \in SUBSET Convs /\ gone \in SUBSET Convs /\ gone \subseteq used
  BY <1>1, TypeParts DEF Whole, UsedInv, GoneInv, ScreenType, PastType
<1>3. PICK j : j = DeleteJob(c, Listed(c))
  OBVIOUS
<1>4. j.op = "delete" /\ j.conv = c /\ j.new = NoFile /\ queue' = Append(queue, j)
  BY <1>1, <1>3 DEF DeleteJob
<1>5. j \in Job
  <2>1. Without(convs, c) \in Index
    BY WithoutIs, TypeParts DEF ScreenType
  <2>2. Listed(c) \in Index
    BY <2>1, RestrictIs DEF Listed
  <2>3. "delete" \in {"save", "delete", "load"} /\ c \in Convs \cup {NoConv} /\ NoFile \in Conversation
    BY NoneAre
  <2> QED BY <1>3, <2>2, <2>3 DEF DeleteJob, Job
<1>6. /\ used \subseteq used' /\ DOMAIN convs' \subseteq used'
      /\ active' \in used' \cup {NoConv} /\ \A x \in used : x # c /\ x # active => x # active'
      /\ active' # c
      /\ (active' = active /\ chat' = chat) \/ (chat' = <<>> /\ active' \notin used)
      /\ task' = task \/ \E next \in DOMAIN Without(convs, c) : Ask("select", next, NoIndex)
  <2>1. Without(convs, c) \in Index /\ DOMAIN Without(convs, c) = DOMAIN convs \ {c}
        /\ DOMAIN convs \subseteq used
    BY WithoutIs, TypeParts DEF ScreenType, Whole, UsedInv
  <2>2. CASE DeletesOther(c)
    BY <2>1, <2>2 DEF DeletesOther, Whole, UsedInv
  <2>3. CASE DeletesShown(c)
    BY <1>2, <2>1, <2>3, ConvAssumption DEF DeletesShown
  <2>4. CASE DeletesLast(c)
    <3>1. Blank(Without(convs, c), unsaved \ {c}) /\ task' = task
      BY <2>4 DEF DeletesLast
    <3>2. DOMAIN Without(convs, c) \subseteq used
      BY <2>1
    <3>3. /\ ShowsBlank /\ used \subseteq used' /\ active' \in used' /\ DOMAIN convs' \subseteq used'
      BY <2>1, <3>1, <3>2, BlankShows
    <3> QED BY <1>2, <3>1, <3>3 DEF ShowsBlank
  <2> QED BY <1>1, <2>2, <2>3, <2>4
<1>7. TasksFit /\ \A s \in Slots : task'[s] = task[s] \/ task'[s].kind = "select"
  <2>1. CASE task' = task
    BY <2>1 DEF TasksFit
  <2>2. CASE \E next \in DOMAIN Without(convs, c) : Ask("select", next, NoIndex)
    <3>1. PICK next \in DOMAIN Without(convs, c) : Ask("select", next, NoIndex)
      BY <2>2
    <3>2. next \in DOMAIN convs
      BY WithoutIs, TypeParts DEF ScreenType
    <3>3. next \in Convs /\ next \in used' /\ "select" \in Kinds \ {"none"}
      BY <1>2, <1>6, <3>2 DEF Whole, UsedInv, Kinds
    <3> QED BY <1>6, <3>1, <3>3, NoneAre, AskFits
  <2> QED BY <1>6, <2>1, <2>2
<1>8. HomesKept
  BY <1>1, HomesSame
<1>9. Placed(j.new.msgs, j.conv)
  BY <1>4, PlacedNone
<1>10. /\ Saved' \subseteq used'
       /\ \A k \in DOMAIN queue' : queue'[k].op # "load" => queue'[k].conv \in used'
       /\ \A s \in Slots : /\ task'[s].conv \in used' \cup {NoConv}
                           /\ DOMAIN task'[s].index \subseteq used'
       /\ \A x \in Convs : Placed(files[x].msgs, x)'
       /\ \A k \in DOMAIN queue' : Placed(queue[k].new.msgs, queue[k].conv)'
       /\ \A s \in Slots : Placed(task[s].got.msgs, task[s].conv)'
  BY <1>1, <1>2, <1>4, <1>5, <1>6, <1>7, <1>8, <1>9, WrittenParts
<1>11. UsedInv'
  BY <1>6, <1>10 DEF UsedInv
<1>12. PlacedInv'
  <2>1. Placed(chat, active)'
    <3>1. CASE active' = active /\ chat' = chat
      BY <1>8, <3>1, ScreenSame DEF Whole
    <3>2. CASE chat' = <<>>
      <4>1. DOMAIN chat' = {}
        BY <3>2
      <4> QED BY <4>1 DEF Placed
    <3> QED BY <1>6, <3>1, <3>2
  <2> QED BY <1>10, <2>1 DEF PlacedInv
<1>13. \A h : Latest(h)' = IF h = c THEN NoFile ELSE Latest(h)
  BY <1>1, <1>4, <1>5, LatestAppended
<1>14. GoneInv'
  <2> SUFFICES ASSUME NEW x \in gone' PROVE x \in used' /\ x # active' /\ Latest(x)' = NoFile
    BY DEF GoneInv
  <2>1. CASE x = c
    BY <1>2, <1>6, <1>13, <2>1
  <2>2. CASE x # c
    <3>1. x \in used /\ x # active /\ Latest(x) = NoFile
      BY <1>1, <2>2 DEF Whole, GoneInv
    <3> QED BY <1>6, <1>13, <2>2, <3>1
  <2> QED BY <2>1, <2>2
<1>15. TurnsInv'
  <2> SUFFICES ASSUME NEW m \in turns'
               PROVE  /\ m \in SaidIds' /\ home'[m] \in used'
                      /\ home'[m] \notin gone' => Contains(Latest(home[m]).msgs, User(m))'
                      /\ home'[m] = active' => Contains(chat', User(m))
    BY DEF TurnsInv
  <2>1. m \in turns /\ m \in SaidIds' /\ home'[m] = home[m] /\ home[m] \in used
    BY <1>1 DEF Whole, TurnsInv, SaidIds
  <2>2. PICK h : h = home[m]
    OBVIOUS
  <2>3. h \notin gone' => Latest(h)' = Latest(h) /\ Contains(Latest(h).msgs, User(m))
    BY <1>1, <1>13, <2>1, <2>2 DEF Whole, TurnsInv
  <2>4. h \notin gone' => Contains(Latest(home[m]).msgs, User(m))'
    <3>1. Latest(home[m])' = Latest(h)'
      BY <1>1, <2>2 DEF Latest
    <3> QED BY <2>3, <3>1 DEF Contains, User
  <2>5. h = active' => Contains(chat', User(m))
    BY <1>6, <2>1, <2>2 DEF Whole, TurnsInv
  <2> QED BY <1>6, <2>1, <2>2, <2>4, <2>5
<1>16. RestoreInv'
  BY <1>1, <1>7, EarlyIs, RestoredStays
<1>17. StreamInv'
  BY <1>1, StreamsNone
<1> QED BY <1>11, <1>12, <1>14, <1>15, <1>16, <1>17 DEF Whole

LEMMA RenameEndsWhole ==
    ASSUME TypeOK, JobsInv, TypeOK', RestoreInv, StreamInv, Whole, Orderly', NEW s \in Slots, RenameEnds(s)
    PROVE  RestoreInv' /\ StreamInv' /\ Whole'
<1>1. /\ task' = [task EXCEPT ![s] = NoTask] /\ restore' = restore /\ Answered(s, "rename")
      /\ active' = active /\ chat' = chat /\ convs' = convs /\ used' = used
      /\ sending' = sending /\ streams' = streams /\ files' = files
      /\ home' = home /\ turns' = turns /\ count' = count /\ gone' = gone
  BY DEF RenameEnds, screen, disk, said
<1>2. task[s].kind = "rename" /\ task[s].conv \in Convs /\ task[s].got \in Conversation
      /\ task[s].index \in Index
  BY <1>1, AnsweredIs
<1>3. \A x \in Slots : task'[x] = task[x] \/ task'[x] = NoTask
  BY <1>1, TypeParts DEF TaskType
<1>4. RestoreInv'
  <2>1. restore = "done"
    BY <1>2 DEF RestoreInv
  <2> QED BY <1>1, <1>3, <2>1, NoneAre, RestoredStays
<1>5. TasksFit /\ HomesKept
  BY <1>1, <1>3, SameTasks, HomesSame
<1>6. Placed(chat, active)' /\ ChatGrows
  BY <1>1, <1>5, ScreenSame DEF Whole
<1>7. StreamInv'
  BY <1>1, <1>5, StreamsKept
<1>8. CASE task[s].got = NoFile
  <2>1. queue' = queue
    BY <1>8 DEF RenameEnds
  <2>2. Whole'
    BY <1>1, <1>5, <1>6, <2>1, Stays
  <2> QED BY <1>4, <1>7, <2>2
<1>9. CASE task[s].got # NoFile
  <2>1. PICK c \in Convs : c = task[s].conv
    BY <1>2
  <2>2. PICK got \in Conversation : got = task[s].got
    BY <1>2
  <2>3. PICK new : new = [got EXCEPT !.title = "named"]
    OBVIOUS
  <2>4. PICK j : j = SaveJob(c, new, task[s].index)
    OBVIOUS
  <2>5. /\ queue' = Append(queue, j)
        /\ stale' = (stale \/ got # Latest(c) \/ task[s].index # Shown \/ c = active)
    BY <1>9, <2>1, <2>2, <2>3, <2>4 DEF RenameEnds
  <2>6. got = Latest(c) /\ c # active
    BY <2>5 DEF Orderly
  <2>7. new.msgs = got.msgs /\ new \in Conversation
    BY <2>3 DEF Conversation, Titles
  <2>8. j.op = "save" /\ j.conv = c /\ j.new = new
    BY <2>4 DEF SaveJob
  <2>9. j \in Job
    <3>1. "save" \in {"save", "delete", "load"} /\ c \in Convs \cup {NoConv}
      OBVIOUS
    <3> QED BY <1>2, <2>4, <2>7, <3>1 DEF SaveJob, Job
  <2>10. c \in used /\ c \notin gone
    BY <1>9, <2>1, <2>2, <2>6, ConvAssumption DEF Whole, UsedInv, GoneInv
  <2>11. Placed(j.new.msgs, j.conv)
    BY <2>1, <2>2, <2>7, <2>8 DEF Whole, PlacedInv
  <2>12. /\ Saved' \subseteq used'
         /\ \A k \in DOMAIN queue' : queue'[k].op # "load" => queue'[k].conv \in used'
         /\ \A x \in Slots : /\ task'[x].conv \in used' \cup {NoConv}
                             /\ DOMAIN task'[x].index \subseteq used'
         /\ \A x \in Convs : Placed(files[x].msgs, x)'
         /\ \A k \in DOMAIN queue' : Placed(queue[k].new.msgs, queue[k].conv)'
         /\ \A x \in Slots : Placed(task[x].got.msgs, task[x].conv)'
    <3>1. used \subseteq used' /\ j.conv \in used
      BY <1>1, <2>8, <2>10
    <3> QED BY <1>1, <1>5, <2>5, <2>9, <2>11, <3>1, WrittenParts
  <2>13. UsedInv'
    BY <1>1, <2>12 DEF Whole, UsedInv
  <2>14. PlacedInv'
    BY <1>6, <2>12 DEF PlacedInv
  <2>15. \A h : Latest(h)' = IF h = c THEN new ELSE Latest(h)
    BY <1>1, <2>5, <2>8, <2>9, LatestAppended
  <2>16. GoneInv'
    <3> SUFFICES ASSUME NEW x \in gone PROVE x \in used' /\ x # active' /\ Latest(x)' = NoFile
      BY <1>1 DEF GoneInv
    <3> QED BY <1>1, <2>10, <2>15 DEF Whole, GoneInv
  <2>17. TurnsInv'
    <3> SUFFICES ASSUME NEW m \in turns
                 PROVE  /\ m \in SaidIds' /\ home'[m] \in used'
                        /\ home'[m] \notin gone' => Contains(Latest(home[m]).msgs, User(m))'
                        /\ home'[m] = active' => Contains(chat', User(m))
      BY <1>1 DEF TurnsInv
    <3>1. m \in SaidIds' /\ home'[m] = home[m] /\ home[m] \in used
      BY <1>1 DEF Whole, TurnsInv, SaidIds
    <3>2. PICK h : h = home[m]
      OBVIOUS
    <3>3. h \notin gone => Contains(Latest(h)'.msgs, User(m))
      BY <2>6, <2>7, <2>15, <3>2 DEF Whole, TurnsInv
    <3>4. h \notin gone => Contains(Latest(home[m]).msgs, User(m))'
      <4>1. Latest(home[m])' = Latest(h)'
        BY <1>1, <3>2 DEF Latest
      <4> QED BY <3>3, <4>1 DEF Contains, User
    <3> QED BY <1>1, <3>1, <3>2, <3>4 DEF Whole, TurnsInv
  <2> QED BY <1>4, <1>7, <2>13, <2>14, <2>16, <2>17 DEF Whole
<1> QED BY <1>8, <1>9

LEMMA InitWhole == Init => RestoreInv /\ StreamInv /\ Whole
<1> SUFFICES ASSUME Init PROVE RestoreInv /\ StreamInv /\ Whole
  OBVIOUS
<1>1. restore = "waiting" /\ active = NoConv /\ chat = <<>> /\ convs = NoIndex /\ unsaved = {}
  BY Zenon DEF Init
<1>2. sending = FALSE /\ pending = FALSE /\ streams = {} /\ half = FALSE
  BY Zenon DEF Init
<1>3. task = [s \in Slots |-> NoTask] /\ queue = <<>>
  BY Zenon DEF Init
<1>4. files = [c \in Convs |-> IF c \in Old THEN [title |-> "auto", msgs |-> <<User(c)>>]
                               ELSE NoFile]
  BY Zenon DEF Init
<1>5. used = Old /\ turns = Old /\ gone = {}
  BY Zenon DEF Init
<1>6. home = [m \in MsgIds |-> IF m \in Old THEN m ELSE NoConv]
  BY Zenon DEF Init
<1>7. /\ DOMAIN queue = {} /\ DOMAIN chat = {} /\ \A s \in Slots : task[s] = NoTask
      /\ Old \subseteq Convs /\ NoConv \notin Convs
  BY <1>1, <1>3, ConvAssumption
<1>8. \A c \in Convs : files[c] = IF c \in Old THEN [title |-> "auto", msgs |-> <<User(c)>>] ELSE NoFile
  BY <1>4
<1>9. \A c \in Old : files[c].msgs = <<User(c)>>
  <2> TAKE c \in Old
  <2>1. PICK ms : ms = <<User(c)>>
    OBVIOUS
  <2>2. files[c] = [title |-> "auto", msgs |-> ms]
    BY <1>7, <1>8, <2>1
  <2> QED BY <2>1, <2>2
<1>10. \A m \in Old : home[m] = m
  BY <1>6 DEF MsgIds
<1>11. RestoreInv
  BY <1>1, <1>2, <1>7, NoneAre DEF RestoreInv
<1>12. StreamInv
  BY <1>2 DEF StreamInv
<1>13. UsedInv
  <2>1. Saved \subseteq used
    BY <1>5, <1>8 DEF Saved
  <2> QED BY <1>1, <1>5, <1>7, <2>1, NoneAre DEF UsedInv
<1>14. PlacedInv
  <2>1. ASSUME NEW c \in Convs PROVE Placed(files[c].msgs, c)
    <3>1. CASE c \in Old
      <4>1. files[c].msgs = <<User(c)>>
        BY <1>9, <3>1
      <4>2. DOMAIN <<User(c)>> = {1} /\ <<User(c)>>[1] = User(c)
        OBVIOUS
      <4>3. c \in SaidIds /\ home[c] = c
        BY <1>10, <3>1 DEF SaidIds
      <4> QED BY <4>1, <4>2, <4>3 DEF Placed, User
    <3>2. CASE c \notin Old
      BY <1>8, <3>2, PlacedNone
    <3> QED BY <3>1, <3>2
  <2>2. Placed(chat, active) /\ \A k \in DOMAIN queue : Placed(queue[k].new.msgs, queue[k].conv)
    BY <1>7 DEF Placed
  <2>3. \A s \in Slots : Placed(task[s].got.msgs, task[s].conv)
    BY <1>7, NoneAre, PlacedNone
  <2> QED BY <2>1, <2>2, <2>3 DEF PlacedInv
<1>15. GoneInv
  BY <1>5 DEF GoneInv
<1>16. TurnsInv
  <2> SUFFICES ASSUME NEW m \in turns
               PROVE  /\ m \in SaidIds /\ home[m] \in used
                      /\ home[m] \notin gone => Contains(Latest(home[m]).msgs, User(m))
                      /\ home[m] = active => Contains(chat, User(m))
    BY DEF TurnsInv
  <2>1. m \in Old /\ home[m] = m /\ m \in Convs
    BY <1>5, <1>7, <1>10
  <2>2. Latest(m).msgs = <<User(m)>>
    BY <1>3, <1>9, <2>1, LatestDrained
  <2>3. Contains(<<User(m)>>, User(m))
    <3>1. 1 \in 1..Len(<<User(m)>>) /\ <<User(m)>>[1] = User(m)
      OBVIOUS
    <3> QED BY <3>1 DEF Contains
  <2> QED BY <1>1, <1>5, <1>7, <2>1, <2>2, <2>3 DEF SaidIds
<1> QED BY <1>11, <1>12, <1>13, <1>14, <1>15, <1>16 DEF Whole

\* What went wrong stays told.
LEMMA OrderlyWas ==
    ASSUME [Next]_vars, Orderly' PROVE Orderly
<1>0. early' = early /\ stale' = stale /\ crossed' = crossed /\ cut' = cut => Orderly
  BY DEF Orderly
<1>1. ASSUME Early PROVE Orderly
  BY <1>1 DEF Early, Orderly
<1>2. CASE Send \/ Import \/ NewChat \/ RenameActive
  BY <1>1, <1>2 DEF Send, Import, NewChat, RenameActive
<1>3. CASE \E s \in streams : OpenStream(s) \/ StreamPends(s) \/ CloseStream(s)
  BY <1>0, <1>3 DEF OpenStream, StreamPends, CloseStream, past, flags
<1>4. CASE Approve
  BY <1>4 DEF Approve, Orderly
<1>5. CASE Deny
  BY <1>0, <1>5 DEF Deny, flags
<1>6. CASE \E c \in Convs : Select(c) \/ RenameOther(c) \/ Delete(c)
  BY <1>1, <1>6 DEF Select, RenameOther, Delete
<1>7. CASE RestoreBegins
  BY <1>0, <1>7 DEF RestoreBegins, past, flags
<1>8. CASE \E s \in Slots : Submit(s) \/ ImportEnds(s) \/ RestoreIndex(s) \/ RestoreRecent(s)
  BY <1>0, <1>8 DEF Submit, ImportEnds, RestoreIndex, RestoreRecent, past, flags
<1>9. CASE \E s \in Slots : SelectEnds(s)
  <2>1. PICK s \in Slots : SelectEnds(s)
    BY <1>9
  <2>2. early' = early /\ crossed' = crossed /\ cut' = cut
    BY <2>1 DEF SelectEnds
  <2>3. stale' = stale \/ stale' = (stale \/ task[s].got # Latest(task[s].conv))
    BY <2>1 DEF SelectEnds
  <2>4. stale => stale'
    BY <2>3
  <2> QED BY <2>2, <2>4 DEF Orderly
<1>10. CASE \E s \in Slots : RenameEnds(s)
  <2>1. PICK s \in Slots : RenameEnds(s)
    BY <1>10
  <2>2. early' = early /\ crossed' = crossed /\ cut' = cut
    BY <2>1 DEF RenameEnds
  <2>3. stale => stale'
    BY <2>1 DEF RenameEnds
  <2> QED BY <2>2, <2>3 DEF Orderly
<1>11. CASE Store
  BY <1>0, <1>11 DEF Store, JobFile, JobIndex, JobLoad, past, flags
<1>12. CASE Quit
  BY <1>12 DEF Quit, Orderly
<1>13. CASE Launch
  BY <1>0, <1>13 DEF Launch, past, flags
<1>14. CASE UNCHANGED vars
  BY <1>0, <1>14 DEF vars, past, flags
<1> QED
  BY <1>2, <1>3, <1>4, <1>5, <1>6, <1>7, <1>8, <1>9, <1>10, <1>11, <1>12, <1>13, <1>14 DEF Next

LEMMA WholeStep ==
    ASSUME TypeOK, JobsInv, HalfInv, TypeOK', RestoreInv, StreamInv, Whole, [Next]_vars, Orderly'
    PROVE  RestoreInv' /\ StreamInv' /\ Whole'
<1>1. CASE Send
  BY <1>1, SendWhole
<1>2. CASE \E s \in streams : OpenStream(s) \/ StreamPends(s) \/ CloseStream(s)
  BY <1>2, OpenStreamWhole, StreamPendsWhole, CloseStreamWhole
<1>3. CASE Approve \/ Deny \/ Import
  BY <1>3, ApproveWhole, DenyWhole, ImportWhole
<1>4. CASE NewChat \/ RenameActive \/ RestoreBegins
  BY <1>4, NewChatWhole, RenameActiveWhole, RestoreBeginsWhole
<1>5. CASE \E c \in Convs : Select(c) \/ RenameOther(c) \/ Delete(c)
  BY <1>5, SelectWhole, RenameOtherWhole, DeleteWhole
<1>6. CASE \E s \in Slots : Submit(s) \/ ImportEnds(s) \/ SelectEnds(s)
  BY <1>6, SubmitKept, ImportEndsWhole, SelectEndsWhole
<1>7. CASE \E s \in Slots : RenameEnds(s) \/ RestoreIndex(s) \/ RestoreRecent(s)
  BY <1>7, RenameEndsWhole, RestoreIndexWhole, RestoreRecentWhole
<1>8. CASE Store
  BY <1>8, JobFileKept, JobIndexKept, JobLoadKept DEF Store
<1>9. CASE Quit
  BY <1>9, QuitWhole
<1>10. CASE Launch
  BY <1>10, SameWhole DEF Launch
<1>11. CASE UNCHANGED vars
  BY <1>11, SameWhole DEF vars
<1> QED
  BY <1>1, <1>2, <1>3, <1>4, <1>5, <1>6, <1>7, <1>8, <1>9, <1>10, <1>11, Zenon DEF Next

LEMMA ConvStep == ConvIInv /\ [Next]_vars => ConvIInv'
<1> SUFFICES ASSUME ConvIInv, [Next]_vars PROVE ConvIInv'
  OBVIOUS
<1>1. TypeOK' /\ JobsInv' /\ HalfInv'
  BY TypeStep DEF ConvIInv
<1>2. ASSUME Orderly' PROVE RestoreInv' /\ StreamInv' /\ Whole'
  <2>1. Orderly
    BY <1>2, OrderlyWas
  <2> QED BY <1>1, <1>2, <2>1, WholeStep DEF ConvIInv, TurnsIInv
<1> QED BY <1>1, <1>2 DEF ConvIInv, TurnsIInv

\* What the files will be and what is on screen agree with what was said and
\* what was deleted, as long as the app's known ways to go wrong are not taken.
THEOREM ConvInvariant == Spec => []ConvIInv
<1>1. Init => ConvIInv
  BY InitTyped, HalfInit, InitWhole DEF ConvIInv, TurnsIInv
<1> QED BY <1>1, ConvStep, PTL DEF Spec

\* AppModel.swift:558: however saves, renames, deletions, reads and quits
\* interleave, once the queue is empty each turn of the user is in the file of
\* the conversation it was said in.
THEOREM TurnsAlwaysKept == Spec => []TurnsKept
<1>1. ConvIInv => TurnsKept
  <2> SUFFICES ASSUME ConvIInv, queue = <<>>, Orderly, NEW m \in turns, home[m] \notin gone
               PROVE  Contains(files[home[m]].msgs, User(m))
    BY DEF TurnsKept, Drained
  <2> QED BY LatestDrained DEF ConvIInv, TurnsIInv, Whole, TurnsInv
<1> QED BY <1>1, ConvInvariant, PTL

\* What was deleted is not on disk once the queue is empty, over every save that
\* was queued before or comes later.
THEOREM DeletedAlwaysStay == Spec => []DeletedStay
<1>1. ConvIInv => DeletedStay
  <2> SUFFICES ASSUME ConvIInv, queue = <<>>, Orderly PROVE gone \cap Saved = {}
    BY DEF DeletedStay, Drained
  <2> QED BY LatestDrained DEF ConvIInv, TurnsIInv, Whole, GoneInv, Saved
<1> QED BY <1>1, ConvInvariant, PTL

\* AppModel.swift:278-279: at every instant a reply in a file is in the
\* conversation whose turn it answers.
THEOREM RepliesAlwaysStay == Spec => []RepliesStay
<1>1. ConvIInv => RepliesStay
  <2> SUFFICES ASSUME ConvIInv, Orderly, NEW m \in MsgIds, NEW c \in Convs,
                      Contains(files[c].msgs, Reply(m))
               PROVE  home[m] \in {c, NoConv}
    BY DEF RepliesStay
  <2>1. PICK i \in 1..Len(files[c].msgs) : files[c].msgs[i] = Reply(m)
    BY DEF Contains
  <2>2. files[c] \in Conversation
    BY TypeParts DEF ConvIInv, DiskType
  <2>3. files[c].msgs \in Seq(Msg)
    BY <2>2 DEF Conversation
  <2>4. i \in DOMAIN files[c].msgs
    BY <2>1, <2>3, SeqIs
  <2>5. Placed(files[c].msgs, c)
    BY DEF ConvIInv, TurnsIInv, Whole, PlacedInv
  <2> QED BY <2>1, <2>4, <2>5 DEF Placed, Reply
<1> QED BY <1>1, ConvInvariant, PTL

(***************************************************************************)
(* The sidebar and the index                                               *)
(***************************************************************************)

\* The conversations that have a file once the first n jobs of q are done.
OnDisk(q, f, n) == {c \in Convs : HeldAt(q, f, n, c) # NoFile}

\* Those that will have one when the queue is empty.
Lasting == {c \in Convs : Latest(c) # NoFile}

\* Each index that waits names the files there are once its job is done; the one
\* on disk those there are.
IndexesInv ==
    /\ \A k \in DOMAIN queue :
         queue[k].op # "load" => DOMAIN queue[k].index = OnDisk(queue, files, k)
    /\ ~half => DOMAIN IndexRead = Saved

\* What restoreSession reads is the index, and its titles are those of the files.
ReadInv ==
    restore # "done" =>
      /\ \A s \in Slots :
           /\ task[s].kind = "index" /\ task[s].at = "read" => task[s].index = IndexRead
           /\ task[s].kind = "recent" => convs = IndexRead
      /\ quits = 0 => \A c \in Saved : IndexRead[c] = files[c].title

\* A rename has a title to give, and will find its file.
RenameInv ==
    \A s \in Slots, c \in Convs :
      task[s].kind = "rename" /\ task[s].conv = c =>
        /\ c \in DOMAIN task[s].index /\ task[s].index[c] = "named"
        /\ c = active => c \in DOMAIN Shown
        /\ c \in DOMAIN Shown =>
             /\ task[s].at = "read" => task[s].got # NoFile
             /\ \A k \in DOMAIN queue : queue[k].op = "load" /\ queue[k].slot = s =>
                  HeldAt(queue, files, k, c) # NoFile

Renaming(c) == \E s \in Slots : task[s].kind = "rename" /\ task[s].conv = c

\* The titles of an index are those of the sidebar, but for what is being renamed.
Titled(ix) == \A c \in DOMAIN Shown : ix[c] = Shown[c] \/ Renaming(c)

\* No job after the k-th writes.
Final(k) == \A j \in DOMAIN queue : j > k => queue[j].op = "load"

\* The sidebar lists what will be on disk, and the last index that is written has
\* its titles.
SidebarInv ==
    restore = "done" =>
      /\ DOMAIN Shown = Lasting
      /\ \A k \in DOMAIN queue : queue[k].op # "load" /\ Final(k) => Titled(queue[k].index)
      /\ Final(0) => Titled(IndexRead)
      /\ quits = 0 => \A c \in DOMAIN Shown : Latest(c).title = Shown[c] \/ Renaming(c)

SideInv == IndexesInv /\ ReadInv /\ RenameInv /\ SidebarInv

SideIInv == Orderly => SideInv

(***************************************************************************)
(* The index that is read, and what is listed                              *)
(***************************************************************************)

LEMMA OnDiskSame ==
    ASSUME NEW q, NEW r, NEW f, NEW n \in Nat, SamePrefix(q, r, n)
    PROVE  OnDisk(r, f, n) = OnDisk(q, f, n)
BY HeldSame DEF OnDisk

LEMMA LastingIs == ASSUME TypeOK PROVE Lasting = OnDisk(queue, files, Len(queue))
BY LatestIs DEF Lasting, OnDisk

LEMMA LastingKept ==
    ASSUME \A c \in Convs : Latest(c)' = Latest(c) PROVE Lasting' = Lasting
BY DEF Lasting

LEMMA ShownIs ==
    ASSUME TypeOK
    PROVE  /\ DOMAIN Shown = DOMAIN convs \ unsaved /\ Shown \in Index
           /\ \A c \in DOMAIN Shown : c \in Convs /\ Shown[c] = convs[c]
<1>1. convs \in Index
  BY DEF TypeOK
<1>2. DOMAIN convs \subseteq Convs
  BY <1>1, IndexIs
<1> QED BY <1>1, <1>2, RestrictIs DEF Shown

LEMMA ShownIsNext ==
    ASSUME TypeOK'
    PROVE  /\ DOMAIN Shown' = DOMAIN convs' \ unsaved' /\ Shown' \in Index
           /\ \A c \in DOMAIN Shown' : c \in Convs /\ Shown'[c] = convs'[c]
<1>1. convs' \in Index
  BY DEF TypeOK
<1>2. DOMAIN convs' \subseteq Convs
  BY <1>1, IndexIs
<1> QED BY <1>1, <1>2, RestrictIs DEF Shown

\* A blank tile is not listed.
LEMMA BlankListed ==
    ASSUME TypeOK, TypeOK', NEW cs \in Index, DOMAIN cs \subseteq used, NEW us, Blank(cs, us)
    PROVE  /\ DOMAIN Shown' = DOMAIN cs \ us /\ \A x \in DOMAIN Shown' : Shown'[x] = cs[x]
           /\ active' \notin used
<1>1. PICK c \in Convs \ used : /\ active' = c /\ unsaved' = us \cup {c}
                                /\ convs' = With(cs, c, "New chat")
  BY DEF Blank
<1>2. PICK t \in Titles : t = "New chat"
  BY DEF Titles
<1>3. PICK w : w = With(cs, c, t)
  OBVIOUS
<1>4. /\ DOMAIN w = DOMAIN cs \cup {c}
      /\ \A x \in DOMAIN cs \cup {c} : w[x] = IF x = c THEN t ELSE cs[x]
  BY <1>3, WithIs
<1>5. c \notin DOMAIN cs
  BY <1>1
<1>6. convs' = w
  BY <1>1, <1>2, <1>3
<1> QED BY <1>1, <1>4, <1>5, <1>6, ShownIsNext

LEMMA NewChatListed ==
    ASSUME TypeOK, TypeOK', NEW cs \in Index, DOMAIN cs \subseteq used, NewChatOver(cs)
    PROVE  /\ DOMAIN Shown' = DOMAIN cs \ unsaved /\ \A x \in DOMAIN Shown' : Shown'[x] = cs[x]
           /\ active' = active \/ active' \notin used
<1>1. CASE sending \/ OnBlank
  BY <1>1, ShownIsNext DEF NewChatOver
<1>2. CASE ~(sending \/ OnBlank)
  BY <1>2, BlankListed DEF NewChatOver
<1> QED BY <1>1, <1>2

\* Saving what is on screen lists it.
Lists(c, t) ==
    /\ DOMAIN Shown' = DOMAIN Shown \cup {c} /\ Shown'[c] = t
    /\ \A x \in DOMAIN Shown : x # c => Shown'[x] = Shown[x]

LEMMA SavesListed ==
    ASSUME TypeOK, TypeOK', NEW ms, NEW t, NEW c, Saves(ms, t, c)
    PROVE  Lists(c, t)
<1>1. c \in Convs /\ t \in Titles /\ convs' = With(convs, c, t) /\ unsaved' = unsaved \ {c}
      /\ convs \in Index
  BY DEF Saves, TypeOK
<1>2. PICK w : w = With(convs, c, t)
  OBVIOUS
<1>3. /\ DOMAIN w = DOMAIN convs \cup {c}
      /\ \A x \in DOMAIN convs \cup {c} : w[x] = IF x = c THEN t ELSE convs[x]
  BY <1>1, <1>2, WithIs
<1> QED BY <1>1, <1>2, <1>3, ShownIs, ShownIsNext DEF Lists

\* The store's files and jobs stay.
DiskSame ==
    /\ queue' = queue /\ files' = files /\ index' = index /\ half' = half /\ quits' = quits

LEMMA DiskSameIs ==
    ASSUME DiskSame
    PROVE  /\ IndexRead' = IndexRead /\ Saved' = Saved /\ Lasting' = Lasting
           /\ \A c \in Convs : Latest(c)' = Latest(c)
           /\ IndexesInv => IndexesInv'
<1>1. IndexRead' = IndexRead /\ Saved' = Saved
  BY DEF DiskSame, IndexRead, Saved
<1>2. \A c \in Convs : Latest(c)' = Latest(c)
  BY LatestSame DEF DiskSame
<1>3. Lasting' = Lasting
  BY <1>2, LastingKept
<1>4. ASSUME IndexesInv PROVE IndexesInv'
  BY <1>1, <1>4 DEF IndexesInv, DiskSame
<1> QED BY <1>1, <1>2, <1>3, <1>4

\* Handlers that change the screen and the tasks only.
LEMMA SidebarSame ==
    ASSUME DiskSame, SidebarInv, restore = "done", restore' = "done",
           DOMAIN Shown' = DOMAIN Shown,
           \A c \in DOMAIN Shown : \/ Renaming(c)'
                                   \/ Shown'[c] = Shown[c] /\ ~Renaming(c)
    PROVE  SidebarInv'
<1>1. /\ DOMAIN Shown = Lasting
      /\ \A k \in DOMAIN queue : queue[k].op # "load" /\ Final(k) => Titled(queue[k].index)
      /\ Final(0) => Titled(IndexRead)
      /\ quits = 0 => \A c \in DOMAIN Shown : Latest(c).title = Shown[c] \/ Renaming(c)
  BY DEF SidebarInv
<1>2. \A k : Final(k)' <=> Final(k)
  BY DEF DiskSame, Final
<1>3. DOMAIN Shown' = Lasting'
  BY <1>1, DiskSameIs
<1>4. ASSUME NEW k \in DOMAIN queue', queue'[k].op # "load", Final(k)' PROVE Titled(queue[k].index)'
  <2>1. queue' = queue /\ Titled(queue[k].index)
    BY <1>1, <1>2, <1>4 DEF DiskSame
  <2> QED BY <2>1 DEF Titled
<1>5. ASSUME Final(0)' PROVE Titled(IndexRead)'
  <2>1. Titled(IndexRead) /\ IndexRead' = IndexRead
    BY <1>1, <1>2, <1>5, DiskSameIs
  <2> QED BY <2>1 DEF Titled
<1>6. quits' = 0 => \A c \in DOMAIN Shown' : Latest(c)'.title = Shown'[c] \/ Renaming(c)'
  <2>1. DOMAIN Shown \subseteq Convs
    BY <1>1 DEF Lasting
  <2>2. \A c \in Convs : Latest(c)' = Latest(c)
    BY DiskSameIs
  <2>3. quits' = quits
    BY DEF DiskSame
  <2> QED BY <1>1, <2>1, <2>2, <2>3
<1> QED BY <1>3, <1>4, <1>5, <1>6 DEF SidebarInv

LEMMA LastingNext == ASSUME TypeOK' PROVE Lasting' = OnDisk(queue', files', Len(queue'))
BY LatestIsNext DEF Lasting, OnDisk

\* A job that writes is appended, with an index of what is shown.
LEMMA WrittenSide ==
    ASSUME TypeOK, TypeOK', IndexesInv, NEW CONSTANT j \in Job, j.op # "load", restore' = "done",
           queue' = Append(queue, j), files' = files, index' = index, half' = half,
           DOMAIN Shown' = Lasting', DOMAIN j.index = Lasting',
           \A c \in DOMAIN Shown' : j.index[c] = Shown'[c] \/ Renaming(c)',
           quits' = 0 => \A c \in DOMAIN Shown' : Latest(c)'.title = Shown'[c] \/ Renaming(c)'
    PROVE  IndexesInv' /\ ReadInv' /\ SidebarInv'
<1>1. /\ Len(queue) \in Nat /\ DOMAIN queue = 1..Len(queue) /\ Len(queue') = Len(queue) + 1
      /\ DOMAIN queue' = 1..(Len(queue) + 1) /\ queue'[Len(queue) + 1] = j
      /\ \A k \in DOMAIN queue : queue'[k] = queue[k]
  BY AppendIs, TypeParts DEF QueueType
<1>2. \A k \in DOMAIN queue' : k \in DOMAIN queue \/ k = Len(queue) + 1
  BY <1>1
<1>3. ASSUME NEW k \in DOMAIN queue PROVE OnDisk(queue', files', k) = OnDisk(queue, files, k)
  <2>1. k \in Nat /\ 1..k \subseteq DOMAIN queue
    BY <1>1
  <2>2. SamePrefix(queue, queue', k)
    BY <1>1, <2>1 DEF SamePrefix
  <2> QED BY <2>1, <2>2, OnDiskSame
<1>4. OnDisk(queue', files', Len(queue) + 1) = Lasting'
  BY <1>1, LastingNext
<1>5. IndexesInv'
  <2>1. ASSUME NEW k \in DOMAIN queue', queue'[k].op # "load"
        PROVE  DOMAIN queue'[k].index = OnDisk(queue', files', k)
    BY <1>1, <1>2, <1>3, <1>4, <2>1 DEF IndexesInv
  <2>2. ~half' => DOMAIN IndexRead' = Saved'
    BY DEF IndexesInv, IndexRead, Saved
  <2> QED BY <2>1, <2>2 DEF IndexesInv
<1>6. /\ \A k \in DOMAIN queue' : Final(k)' => k = Len(queue) + 1
      /\ ~Final(0)'
  <2>1. Len(queue) + 1 \in DOMAIN queue' /\ queue'[Len(queue) + 1].op # "load" /\ Len(queue) + 1 > 0
    BY <1>1
  <2>2. \A k \in DOMAIN queue : Len(queue) + 1 > k
    BY <1>1
  <2> QED BY <1>2, <2>1, <2>2 DEF Final
<1>7. ASSUME NEW k \in DOMAIN queue', Final(k)' PROVE Titled(queue[k].index)'
  <2>1. queue'[k] = j
    BY <1>1, <1>6, <1>7
  <2> QED BY <2>1 DEF Titled
<1>8. SidebarInv'
  BY <1>6, <1>7 DEF SidebarInv
<1> QED BY <1>5, <1>8 DEF ReadInv

\* How a rename may begin.
Renames(s) ==
    /\ task'[s].at = "asked" /\ task'[s].conv # active'
    /\ task'[s].conv \in DOMAIN task'[s].index /\ task'[s].index[task'[s].conv] = "named"

LEMMA RenamesSide ==
    ASSUME TypeOK, TypeOK', JobsInv', RenameInv, QueueGrows, files' = files,
           \A s \in Slots : \/ task'[s] = task[s] \/ task'[s].kind # "rename" \/ Renames(s),
           \A c \in Convs : Renaming(c) => /\ c \in DOMAIN Shown' => c \in DOMAIN Shown
                                           /\ c = active' => c \in DOMAIN Shown'
    PROVE  RenameInv'
<1> SUFFICES ASSUME NEW s \in Slots, NEW c \in Convs, task'[s].kind = "rename", task'[s].conv = c
             PROVE  /\ c \in DOMAIN task'[s].index /\ task'[s].index[c] = "named"
                    /\ c = active' => c \in DOMAIN Shown'
                    /\ c \in DOMAIN Shown' =>
                         /\ task'[s].at = "read" => task'[s].got # NoFile
                         /\ \A k \in DOMAIN queue' : queue'[k].op = "load" /\ queue'[k].slot = s =>
                              HeldAt(queue', files', k, c) # NoFile
  BY DEF RenameInv
<1>1. CASE Renames(s)
  <2>1. \A k \in DOMAIN queue' : queue'[k].op = "load" => queue'[k].slot # s
    BY <1>1 DEF JobsInv, Renames
  <2> QED BY <1>1, <2>1 DEF Renames
<1>2. CASE task'[s] = task[s]
  <2>1. Renaming(c)
    BY <1>2 DEF Renaming
  <2>2. /\ c \in DOMAIN task[s].index /\ task[s].index[c] = "named"
        /\ c \in DOMAIN Shown =>
             /\ task[s].at = "read" => task[s].got # NoFile
             /\ \A k \in DOMAIN queue : queue[k].op = "load" /\ queue[k].slot = s =>
                  HeldAt(queue, files, k, c) # NoFile
    BY <1>2 DEF RenameInv
  <2>3. ASSUME NEW k \in DOMAIN queue', queue'[k].op = "load"
        PROVE  /\ k \in DOMAIN queue /\ queue'[k] = queue[k]
               /\ HeldAt(queue', files', k, c) = HeldAt(queue, files, k, c)
    <3>1. CASE queue' = queue
      BY <2>3, <3>1
    <3>2. CASE \E j \in Job : Writes(j) /\ queue' = Append(queue, j)
      <4>1. PICK j \in Job : Writes(j) /\ queue' = Append(queue, j)
        BY <3>2
      <4>2. /\ Len(queue) \in Nat /\ DOMAIN queue = 1..Len(queue)
            /\ DOMAIN queue' = 1..(Len(queue) + 1) /\ queue'[Len(queue) + 1] = j
            /\ \A i \in DOMAIN queue : queue'[i] = queue[i]
        BY <4>1, AppendIs, TypeParts DEF QueueType
      <4>3. k # Len(queue) + 1
        BY <2>3, <4>1, <4>2 DEF Writes
      <4>4. k \in DOMAIN queue
        BY <4>2, <4>3
      <4>5. k \in Nat /\ 1..k \subseteq DOMAIN queue
        BY <4>2, <4>4
      <4>6. SamePrefix(queue, queue', k)
        BY <4>2, <4>5 DEF SamePrefix
      <4> QED BY <4>2, <4>4, <4>5, <4>6, HeldSame
    <3> QED BY <3>1, <3>2 DEF QueueGrows
  <2> QED BY <1>2, <2>1, <2>2, <2>3
<1> QED BY <1>1, <1>2

LEMMA RenamingIs ==
    ASSUME UsedInv, RenameInv, NEW c \in Convs, Renaming(c)
    PROVE  c \in used /\ (c = active => c \in DOMAIN Shown)
<1>1. PICK s \in Slots : task[s].kind = "rename" /\ task[s].conv = c
  BY DEF Renaming
<1> QED BY <1>1, ConvAssumption DEF RenameInv, UsedInv

\* Handlers that persist what is on screen.
LEMMA PersistSide ==
    ASSUME TypeOK, TypeOK', JobsInv', UsedInv, SideInv, restore = "done", restore' = "done",
           NEW t \in Titles, PersistActive(chat', t),
           files' = files, index' = index, half' = half, quits' = quits,
           \A s \in Slots : task'[s] = task[s] \/ (task[s].kind # "rename" /\ task'[s].kind # "rename")
    PROVE  SideInv'
<1>0. IndexesInv /\ RenameInv /\ SidebarInv /\ chat' \in Seq(Msg)
  BY DEF SideInv, TypeOK
<1>1. \A c : Renaming(c)' <=> Renaming(c)
  BY DEF Renaming
<1>2. CASE chat' = <<>>
  <2>1. active' = active /\ convs' = convs /\ unsaved' = unsaved /\ DiskSame
    BY <1>2, PersistIs DEF DiskSame
  <2>2. Shown' = Shown
    BY <2>1 DEF Shown
  <2>3. IndexesInv' /\ SidebarInv' /\ ReadInv'
    BY <1>0, <1>1, <2>1, <2>2, DiskSameIs, SidebarSame DEF ReadInv
  <2>4. RenameInv'
    <3>1. QueueGrows
      BY <2>1 DEF DiskSame, QueueGrows
    <3> QED BY <1>0, <2>1, <2>2, <3>1, RenamingIs, RenamesSide
  <2> QED BY <2>3, <2>4 DEF SideInv
<1>3. CASE chat' # <<>>
  <2>1. PICK name \in Titles, c \in Convs : Saves(chat', name, c)
    BY <1>3, PersistIs
  <2>2. PICK j : j = SaveJob(c, [title |-> name, msgs |-> chat'], Shown')
    OBVIOUS
  <2>3. j \in Job /\ Writes(j)
    BY <1>0, <1>3, <2>1, <2>2, SavesTyped DEF Writes
  <2>4. /\ j.op = "save" /\ j.conv = c /\ j.new.title = name /\ j.index = Shown'
        /\ j.new # NoFile
    BY <2>2, <2>3 DEF SaveJob, Writes
  <2>5. /\ active' = c /\ queue' = Append(queue, j)
        /\ (active = NoConv /\ c \notin used) \/ active = c
    BY <2>1, <2>2 DEF Saves
  <2>6. \A x \in Convs : Latest(x)' = IF x = c THEN j.new ELSE Latest(x)
    BY <2>3, <2>4, <2>5, LatestAppended
  <2>7. /\ DOMAIN Shown' = DOMAIN Shown \cup {c} /\ Shown'[c] = name
        /\ \A x \in DOMAIN Shown : x # c => Shown'[x] = Shown[x]
    <3>1. Lists(c, name)
      BY <2>1, SavesListed
    <3> QED BY <3>1 DEF Lists
  <2>8. DOMAIN Shown = Lasting
    BY <1>0 DEF SidebarInv
  <2>9. DOMAIN Shown' = Lasting' /\ DOMAIN j.index = Lasting'
    BY <2>4, <2>6, <2>7, <2>8 DEF Lasting
  <2>10. quits' = 0 => \A x \in DOMAIN Shown' : Latest(x)'.title = Shown'[x] \/ Renaming(x)'
    <3>1. quits = 0 => \A x \in DOMAIN Shown : Latest(x).title = Shown[x] \/ Renaming(x)
      BY <1>0 DEF SidebarInv
    <3>2. DOMAIN Shown' \subseteq Convs
      BY ShownIsNext
    <3> QED BY <1>1, <2>4, <2>6, <2>7, <3>1, <3>2
  <2>11. IndexesInv' /\ ReadInv' /\ SidebarInv'
    BY <1>0, <2>3, <2>4, <2>5, <2>9, <2>10, WrittenSide
  <2>12. RenameInv'
    <3>1. QueueGrows
      BY <2>3, <2>5 DEF QueueGrows
    <3>2. \A x \in Convs : Renaming(x) => /\ x \in DOMAIN Shown' => x \in DOMAIN Shown
                                          /\ x = active' => x \in DOMAIN Shown'
      BY <1>0, <2>5, <2>7, RenamingIs
    <3> QED BY <1>0, <3>1, <3>2, RenamesSide
  <2> QED BY <2>11, <2>12 DEF SideInv
<1> QED BY <1>2, <1>3

LEMMA ScreenSide ==
    ASSUME TypeOK, TypeOK', JobsInv', SideInv, DiskSame, restore = "done", restore' = "done",
           DOMAIN Shown' = DOMAIN Shown,
           \A c \in DOMAIN Shown : \/ Renaming(c)'
                                   \/ Shown'[c] = Shown[c] /\ ~Renaming(c),
           \A s \in Slots : \/ task'[s] = task[s] \/ task'[s].kind # "rename" \/ Renames(s),
           \A c \in Convs : Renaming(c) /\ c = active' => c \in DOMAIN Shown
    PROVE  SideInv'
<1>1. IndexesInv /\ RenameInv /\ SidebarInv
  BY DEF SideInv
<1>2. IndexesInv' /\ SidebarInv' /\ ReadInv'
  BY <1>1, DiskSameIs, SidebarSame DEF ReadInv
<1>3. RenameInv'
  <2>1. QueueGrows /\ files' = files
    BY DEF DiskSame, QueueGrows
  <2> QED BY <1>1, <2>1, RenamesSide
<1> QED BY <1>2, <1>3 DEF SideInv

\* Nothing changes that the parts are about, but for the launch.
LEMMA SameSide ==
    ASSUME SideInv, DiskSame, task' = task, active' = active, convs' = convs, unsaved' = unsaved,
           restore' = restore \/ (restore = "down" /\ restore' = "waiting")
    PROVE  SideInv'
<1>1. IndexesInv /\ ReadInv /\ RenameInv /\ SidebarInv
  BY DEF SideInv
<1>2. /\ IndexRead' = IndexRead /\ Saved' = Saved /\ Lasting' = Lasting /\ Shown' = Shown
      /\ IndexesInv' /\ \A c \in Convs : Latest(c)' = Latest(c)
  BY <1>1, DiskSameIs DEF Shown
<1>3. ReadInv'
  BY <1>1, <1>2 DEF ReadInv, DiskSame
<1>4. RenameInv'
  BY <1>1, <1>2 DEF RenameInv, DiskSame
<1>5. SidebarInv'
  <2>1. CASE restore' = "done"
    <3>1. restore = "done"
      BY <2>1
    <3>2. \A c \in DOMAIN Shown : Renaming(c)' \/ (Shown'[c] = Shown[c] /\ ~Renaming(c))
      BY <1>2 DEF Renaming
    <3> QED BY <1>1, <1>2, <2>1, <3>1, <3>2, SidebarSame
  <2>2. CASE restore' # "done"
    BY <2>2 DEF SidebarInv
  <2> QED BY <2>1, <2>2
<1> QED BY <1>2, <1>3, <1>4, <1>5 DEF SideInv

LEMMA AskedFor ==
    ASSUME TypeOK, NEW kind \in Kinds \ {"none"}, NEW c \in Convs \cup {NoConv},
           NEW ix \in Index, Ask(kind, c, ix), kind \in {"select", "rename", "recent"} => c \in Convs
    PROVE  \E s \in Slots :
             /\ task[s].kind = "none" /\ task'[s].kind = kind /\ task'[s].conv = c
             /\ task'[s].at = "asked" /\ task'[s].index = ix
             /\ \A x \in Slots : x # s => task'[x] = task[x]
<1>1. PICK s \in Slots : /\ task[s] = NoTask /\ task'[s] = Asked(kind, c, ix)
                         /\ \A x \in Slots : x # s => task'[x] = task[x]
  BY AskIs
<1>2. task[s].kind = "none"
  BY <1>1, NoneAre
<1>3. /\ task'[s].kind = kind /\ task'[s].conv = c
      /\ task'[s].at = "asked" /\ task'[s].index = ix
  BY <1>1 DEF Asked
<1> QED BY <1>1, <1>2, <1>3

(***************************************************************************)
(* The steps, and the sidebar                                              *)
(***************************************************************************)

LEMMA SendSide ==
    ASSUME TypeOK, TypeOK', JobsInv', UsedInv, SideInv, Orderly', Send PROVE SideInv'
<1>1. /\ task' = task /\ files' = files /\ index' = index /\ half' = half /\ Early
  BY DEF Send, disk
<1>2. restore = "done" /\ restore' = "done" /\ quits' = quits
  BY <1>1, EarlyIs DEF Early
<1>3. PICK t \in Titles : PersistActive(chat', t)
  <2>1. (IF title = "New chat" THEN "auto" ELSE title) \in Titles
    BY TypeParts DEF ScreenType, Titles
  <2> QED BY <2>1 DEF Send
<1>4. \A s \in Slots : task'[s] = task[s]
  BY <1>1
<1> QED BY <1>1, <1>2, <1>3, <1>4, PersistSide

LEMMA CloseStreamSide ==
    ASSUME TypeOK, TypeOK', JobsInv', RestoreInv, UsedInv, SideInv, NEW s \in streams, CloseStream(s)
    PROVE  SideInv'
<1>1. /\ task' = task /\ files' = files /\ index' = index /\ half' = half /\ restore' = restore
      /\ chat' = chat /\ quits' = quits
  BY DEF CloseStream, disk, past
<1>2. restore = "done" /\ PersistActive(chat', title) /\ title \in Titles
  BY <1>1, TypeParts DEF RestoreInv, CloseStream, ScreenType
<1>3. \A x \in Slots : task'[x] = task[x]
  BY <1>1
<1> QED BY <1>1, <1>2, <1>3, PersistSide

LEMMA DenySide ==
    ASSUME TypeOK, TypeOK', JobsInv', RestoreInv, UsedInv, SideInv, Deny PROVE SideInv'
<1>1. /\ task' = task /\ files' = files /\ index' = index /\ half' = half /\ restore' = restore
      /\ quits' = quits /\ pending
  BY DEF Deny, disk
<1>2. restore = "done" /\ PersistActive(chat', title) /\ title \in Titles
  BY <1>1, TypeParts DEF RestoreInv, Deny, ScreenType
<1>3. \A x \in Slots : task'[x] = task[x]
  BY <1>1
<1> QED BY <1>1, <1>2, <1>3, PersistSide

LEMMA ImportSide ==
    ASSUME TypeOK, TypeOK', JobsInv', UsedInv, SideInv, Orderly', Import PROVE SideInv'
<1>1. /\ files' = files /\ index' = index /\ half' = half /\ Early
      /\ PersistActive(chat', title) /\ Ask("import", NoConv, NoIndex)
  BY DEF Import, disk
<1>2. restore = "done" /\ restore' = "done" /\ quits' = quits /\ title \in Titles
  BY <1>1, EarlyIs, TypeParts DEF Early, ScreenType
<1>3. PICK s \in Slots : /\ task[s].kind = "none" /\ task'[s].kind = "import"
                         /\ \A x \in Slots : x # s => task'[x] = task[x]
  <2>1. PICK kind \in Kinds \ {"none"} : kind = "import"
    BY DEF Kinds
  <2>2. PICK ix \in Index : ix = NoIndex
    BY NoneAre
  <2>3. Ask(kind, NoConv, ix)
    BY <1>1, <2>1, <2>2
  <2> QED BY <2>1, <2>3, AskedFor
<1>4. \A x \in Slots : task'[x] = task[x] \/ (task[x].kind # "rename" /\ task'[x].kind # "rename")
  BY <1>3
<1> QED BY <1>1, <1>2, <1>4, PersistSide

LEMMA ImportEndsSide ==
    ASSUME TypeOK, TypeOK', JobsInv', RestoreInv, UsedInv, SideInv, NEW s \in Slots, ImportEnds(s)
    PROVE  SideInv'
<1>1. /\ task' = [task EXCEPT ![s] = NoTask] /\ task[s].kind = "import"
      /\ files' = files /\ index' = index /\ half' = half /\ restore' = restore /\ quits' = quits
      /\ PersistActive(chat', title)
  BY DEF ImportEnds, disk
<1>2. restore = "done" /\ title \in Titles
  BY <1>1, TypeParts DEF RestoreInv, ScreenType
<1>3. \A x \in Slots : task'[x] = task[x] \/ (task[x].kind # "rename" /\ task'[x].kind # "rename")
  BY <1>1, NoneAre, TypeParts DEF TaskType
<1> QED BY <1>1, <1>2, <1>3, PersistSide

LEMMA RenameActiveSide ==
    ASSUME TypeOK, TypeOK', JobsInv', UsedInv, SideInv, Orderly', RenameActive PROVE SideInv'
<1>1. /\ chat' = chat /\ PersistActive(chat', "named") /\ Early /\ task' = task
      /\ files' = files /\ index' = index /\ half' = half
  BY DEF RenameActive, disk
<1>2. restore = "done" /\ restore' = "done" /\ quits' = quits
  BY <1>1, EarlyIs DEF Early
<1>3. PICK t \in Titles : PersistActive(chat', t)
  BY <1>1 DEF Titles
<1>4. \A x \in Slots : task'[x] = task[x]
  BY <1>1
<1> QED BY <1>1, <1>2, <1>3, <1>4, PersistSide

LEMMA NewChatSide ==
    ASSUME TypeOK, TypeOK', JobsInv', UsedInv, SideInv, Orderly', NewChat PROVE SideInv'
<1>1. Blank(convs, unsaved) /\ Early /\ task' = task /\ queue' = queue /\ files' = files
      /\ index' = index /\ half' = half
  BY DEF NewChat, store, disk
<1>2. restore = "done" /\ restore' = "done" /\ quits' = quits /\ DiskSame
  BY <1>1, EarlyIs DEF Early, DiskSame
<1>3. convs \in Index /\ DOMAIN convs \subseteq used
  BY DEF TypeOK, UsedInv
<1>4. /\ DOMAIN Shown' = DOMAIN convs \ unsaved /\ \A x \in DOMAIN Shown' : Shown'[x] = convs[x]
      /\ active' \notin used
  BY <1>1, <1>3, BlankListed
<1>5. DOMAIN Shown' = DOMAIN Shown /\ \A x \in DOMAIN Shown : Shown'[x] = Shown[x]
  BY <1>4, ShownIs
<1>6. \A x \in Convs : Renaming(x) => x # active'
  BY <1>4, RenamingIs DEF SideInv
<1>7. \A x \in DOMAIN Shown : Renaming(x)' \/ (Shown'[x] = Shown[x] /\ ~Renaming(x))
  BY <1>1, <1>5 DEF Renaming
<1>8. \A x \in Slots : task'[x] = task[x]
  BY <1>1
<1> QED BY <1>2, <1>5, <1>6, <1>7, <1>8, ScreenSide

\* The blank tile that is dropped was not listed.
LEMMA SelectSide ==
    ASSUME TypeOK, TypeOK', JobsInv', UsedInv, SideInv, Orderly', NEW c \in Convs, Select(c)
    PROVE  SideInv'
<1>1. /\ Ask("select", c, NoIndex) /\ Early /\ c \in DOMAIN convs /\ active' = active
      /\ queue' = queue /\ files' = files /\ index' = index /\ half' = half
      /\ convs' = IF OnBlank THEN Without(convs, active) ELSE convs
      /\ unsaved' = IF OnBlank THEN unsaved \ {active} ELSE unsaved
  BY DEF Select, store, disk
<1>2. restore = "done" /\ restore' = "done" /\ quits' = quits /\ DiskSame
  BY <1>1, EarlyIs DEF Early, DiskSame
<1>3. DOMAIN Shown' = DOMAIN Shown /\ \A x \in DOMAIN Shown : Shown'[x] = Shown[x]
  <2>1. CASE OnBlank
    <3>1. /\ convs' = Without(convs, active) /\ unsaved' = unsaved \ {active} /\ active \in unsaved
      BY <1>1, <2>1 DEF OnBlank
    <3>2. PICK w : w = Without(convs, active)
      OBVIOUS
    <3>3. convs \in Index
      BY DEF TypeOK
    <3>4. DOMAIN w = DOMAIN convs \ {active} /\ \A x \in DOMAIN convs \ {active} : w[x] = convs[x]
      BY <3>2, <3>3, WithoutIs
    <3> QED BY <3>1, <3>2, <3>4, ShownIs, ShownIsNext
  <2>2. CASE ~OnBlank
    BY <1>1, <2>2 DEF Shown
  <2> QED BY <2>1, <2>2
<1>4. PICK s \in Slots : /\ task[s].kind = "none" /\ task'[s].kind = "select"
                         /\ \A x \in Slots : x # s => task'[x] = task[x]
  <2>1. PICK kind \in Kinds \ {"none"} : kind = "select"
    BY DEF Kinds
  <2>2. PICK ix \in Index : ix = NoIndex
    BY NoneAre
  <2>3. Ask(kind, c, ix)
    BY <1>1, <2>1, <2>2
  <2> QED BY <2>1, <2>3, AskedFor
<1>5. task[s].kind # "rename" /\ task'[s].kind # "rename"
  BY <1>4
<1>6. \A x \in Convs : Renaming(x)' <=> Renaming(x)
  BY <1>4, <1>5 DEF Renaming
<1>7. \A x \in Convs : Renaming(x) /\ x = active' => x \in DOMAIN Shown
  BY <1>1, RenamingIs DEF SideInv
<1>8. DOMAIN Shown \subseteq Convs
  BY ShownIs
<1> QED BY <1>2, <1>3, <1>4, <1>5, <1>6, <1>7, <1>8, ScreenSide

\* The new title is in the sidebar at once, on disk later.
LEMMA RenameOtherSide ==
    ASSUME TypeOK, TypeOK', JobsInv', UsedInv, SideInv, Orderly', NEW c \in Convs, RenameOther(c)
    PROVE  SideInv'
<1>1. /\ Ask("rename", c, convs') /\ Early /\ c \in DOMAIN convs /\ c # active /\ active' = active
      /\ queue' = queue /\ files' = files /\ index' = index /\ half' = half
      /\ convs' = [convs EXCEPT ![c] = "named"] /\ unsaved' = unsaved
  BY DEF RenameOther, store, disk
<1>2. restore = "done" /\ restore' = "done" /\ quits' = quits /\ DiskSame
  BY <1>1, EarlyIs DEF Early, DiskSame
<1>3. /\ DOMAIN convs' = DOMAIN convs /\ convs'[c] = "named"
      /\ \A x \in DOMAIN convs : x # c => convs'[x] = convs[x]
  BY <1>1
<1>4. DOMAIN Shown' = DOMAIN Shown /\ \A x \in DOMAIN Shown : x # c => Shown'[x] = Shown[x]
  BY <1>1, <1>3, ShownIs, ShownIsNext
<1>5. PICK s \in Slots : /\ task[s].kind = "none" /\ task'[s].kind = "rename" /\ task'[s].conv = c
                         /\ task'[s].at = "asked" /\ task'[s].index = convs'
                         /\ \A x \in Slots : x # s => task'[x] = task[x]
  <2>1. PICK kind \in Kinds \ {"none"} : kind = "rename"
    BY DEF Kinds
  <2>2. PICK ix \in Index : ix = convs'
    BY DEF TypeOK
  <2>3. Ask(kind, c, ix)
    BY <1>1, <2>1, <2>2
  <2> QED BY <2>1, <2>2, <2>3, AskedFor
<1>6. task[s].kind # "rename"
  BY <1>5
<1>7. Renames(s)
  BY <1>1, <1>3, <1>5 DEF Renames
<1>8. \A x \in Convs : Renaming(x)' <=> (Renaming(x) \/ x = c)
  BY <1>5, <1>6 DEF Renaming
<1>9. \A x \in Convs : Renaming(x) /\ x = active' => x \in DOMAIN Shown
  BY <1>1, RenamingIs DEF SideInv
<1>10. DOMAIN Shown \subseteq Convs
  BY ShownIs
<1> QED BY <1>2, <1>4, <1>5, <1>7, <1>8, <1>9, <1>10, ScreenSide

LEMMA StreamsSide ==
    ASSUME SideInv, Approve \/ \E s \in streams : OpenStream(s) \/ StreamPends(s)
    PROVE  SideInv'
<1>1. DiskSame /\ task' = task /\ active' = active /\ convs' = convs /\ unsaved' = unsaved
      /\ restore' = restore
  <2>1. CASE Approve
    BY <2>1 DEF Approve, DiskSame, store, disk
  <2>2. CASE \E s \in streams : OpenStream(s) \/ StreamPends(s)
    BY <2>2 DEF OpenStream, StreamPends, DiskSame, store, disk, past
  <2> QED BY <2>1, <2>2
<1> QED BY <1>1, SameSide

\* The end of a task that renames nothing.
LEMMA TaskGone ==
    ASSUME TypeOK, NEW s \in Slots, task[s].kind # "rename", task' = [task EXCEPT ![s] = NoTask]
    PROVE  /\ \A x \in Slots : task'[x] = task[x] \/ task'[x].kind # "rename"
           /\ \A c : Renaming(c)' <=> Renaming(c)
<1>1. task'[s] = NoTask /\ \A x \in Slots : x # s => task'[x] = task[x]
  BY TypeParts DEF TaskType
<1>2. task'[s].kind # "rename"
  BY <1>1, NoneAre
<1> QED BY <1>1, <1>2 DEF Renaming

LEMMA SelectEndsSide ==
    ASSUME TypeOK, JobsInv, TypeOK', JobsInv', RestoreInv, UsedInv, SideInv, Orderly',
           NEW s \in Slots, SelectEnds(s)
    PROVE  SideInv'
<1>1. /\ task' = [task EXCEPT ![s] = NoTask] /\ restore' = restore /\ DiskSame
      /\ Answered(s, "select")
  BY DEF SelectEnds, DiskSame, store, disk
<1>2. task[s].kind = "select" /\ task[s].conv \in Convs
  BY <1>1, AnsweredIs
<1>3. restore = "done" /\ restore' = "done"
  BY <1>1, <1>2 DEF RestoreInv
<1>4. /\ \A x \in Slots : task'[x] = task[x] \/ task'[x].kind # "rename"
      /\ \A c : Renaming(c)' <=> Renaming(c)
  BY <1>1, <1>2, TaskGone
<1>5. \A c \in Convs : Renaming(c) => c \in used /\ (c = active => c \in DOMAIN Shown)
  BY RenamingIs DEF SideInv
<1>6. /\ DOMAIN Shown' = DOMAIN Shown /\ \A x \in DOMAIN Shown : Shown'[x] = Shown[x]
      /\ \A c \in Convs : Renaming(c) /\ c = active' => c \in DOMAIN Shown
  <2>1. CASE sending
    <3>1. active' = active /\ convs' = convs /\ unsaved' = unsaved
      BY <2>1 DEF SelectEnds, screen
    <3>2. Shown' = Shown
      BY <3>1 DEF Shown
    <3> QED BY <1>5, <3>1, <3>2
  <2>2. CASE ~sending /\ task[s].got = NoFile
    <3>1. NewChatOver(convs) /\ convs \in Index /\ DOMAIN convs \subseteq used
      BY <2>2 DEF SelectEnds, TypeOK, UsedInv
    <3>2. /\ DOMAIN Shown' = DOMAIN convs \ unsaved /\ \A x \in DOMAIN Shown' : Shown'[x] = convs[x]
          /\ active' = active \/ active' \notin used
      BY <3>1, NewChatListed
    <3> QED BY <1>5, <3>2, ShownIs
  <2>3. CASE ~sending /\ task[s].got # NoFile
    <3>1. PICK c \in Convs : c = task[s].conv
      BY <1>2
    <3>2. /\ Adopt(c, task[s].got) /\ convs' = convs /\ unsaved' = unsaved
          /\ stale' = (stale \/ task[s].got # Latest(c))
      BY <2>3, <3>1 DEF SelectEnds
    <3>3. active' = c /\ Latest(c) # NoFile
      BY <2>3, <3>2 DEF Adopt, Orderly
    <3>4. c \in DOMAIN Shown
      BY <1>3, <3>3 DEF SideInv, SidebarInv, Lasting
    <3>5. Shown' = Shown
      BY <3>2 DEF Shown
    <3> QED BY <3>3, <3>4, <3>5
  <2> QED BY <2>1, <2>2, <2>3
<1>7. DOMAIN Shown \subseteq Convs
  BY ShownIs
<1>8. \A c \in DOMAIN Shown : Renaming(c)' \/ (Shown'[c] = Shown[c] /\ ~Renaming(c))
  BY <1>4, <1>6, <1>7
<1> QED BY <1>1, <1>3, <1>4, <1>6, <1>8, ScreenSide

\* The rename is done: its title is in the sidebar, and in the file.
LEMMA RenameEndsSide ==
    ASSUME TypeOK, JobsInv, TypeOK', JobsInv', RestoreInv, UsedInv, SideInv, Orderly',
           NEW s \in Slots, RenameEnds(s)
    PROVE  SideInv'
<1>1. /\ task' = [task EXCEPT ![s] = NoTask] /\ restore' = restore /\ Answered(s, "rename")
      /\ active' = active /\ convs' = convs /\ unsaved' = unsaved
      /\ files' = files /\ index' = index /\ half' = half /\ quits' = quits
  BY DEF RenameEnds, screen, disk
<1>2. task[s].kind = "rename" /\ task[s].at = "read" /\ task[s].got \in Conversation
      /\ task[s].index \in Index
  BY <1>1, AnsweredIs DEF Answered
<1>3. PICK c \in Convs : c = task[s].conv
  BY <1>1, AnsweredIs
<1>4. restore = "done" /\ restore' = "done"
  BY <1>1, <1>2 DEF RestoreInv
<1>5. task'[s].kind = "none" /\ \A x \in Slots : x # s => task'[x] = task[x]
  <2>1. task'[s] = NoTask /\ \A x \in Slots : x # s => task'[x] = task[x]
    BY <1>1, TypeParts DEF TaskType
  <2> QED BY <2>1, NoneAre
<1>6. \A x \in Slots : task'[x] = task[x] \/ task'[x].kind # "rename"
  BY <1>5
<1>7. \A x : x # c => (Renaming(x)' <=> Renaming(x))
  BY <1>3, <1>5 DEF Renaming
<1>8. Shown' = Shown
  BY <1>1 DEF Shown
<1>9. \A x \in Convs : Renaming(x) /\ x = active' => x \in DOMAIN Shown
  BY <1>1, RenamingIs DEF SideInv
<1>10. c \in DOMAIN task[s].index /\ task[s].index[c] = "named"
       /\ (c \in DOMAIN Shown => task[s].got # NoFile)
  BY <1>2, <1>3 DEF SideInv, RenameInv
<1>11. CASE task[s].got = NoFile
  <2>1. DiskSame
    BY <1>1, <1>11 DEF RenameEnds, DiskSame
  <2>2. c \notin DOMAIN Shown
    BY <1>10, <1>11
  <2>3. \A x \in DOMAIN Shown : Renaming(x)' \/ (Shown'[x] = Shown[x] /\ ~Renaming(x))
    BY <1>7, <1>8, <2>2
  <2> QED BY <1>4, <1>6, <1>8, <1>9, <2>1, <2>3, ScreenSide
<1>12. CASE task[s].got # NoFile
  <2>1. PICK got \in Conversation : got = task[s].got
    BY <1>2
  <2>2. PICK new : new = [got EXCEPT !.title = "named"]
    OBVIOUS
  <2>3. PICK j : j = SaveJob(c, new, task[s].index)
    OBVIOUS
  <2>4. /\ queue' = Append(queue, j)
        /\ stale' = (stale \/ got # Latest(c) \/ task[s].index # Shown \/ c = active)
    BY <1>3, <1>12, <2>1, <2>2, <2>3 DEF RenameEnds
  <2>5. got = Latest(c) /\ task[s].index = Shown
    BY <2>4 DEF Orderly
  <2>6. new.title = "named" /\ new \in Conversation
    BY <2>2 DEF Conversation, Titles
  <2>7. new # NoFile
    <3>1. NoFile.title = "New chat"
      BY NoneAre
    <3> QED BY <2>6, <3>1
  <2>8. j.op = "save" /\ j.conv = c /\ j.new = new /\ j.index = Shown
    BY <2>3, <2>5 DEF SaveJob
  <2>9. j \in Job /\ Writes(j)
    <3>1. "save" \in {"save", "delete", "load"} /\ c \in Convs \cup {NoConv}
      OBVIOUS
    <3>2. j \in Job
      BY <1>2, <2>3, <2>6, <3>1 DEF SaveJob, Job
    <3> QED BY <2>7, <2>8, <3>2 DEF Writes
  <2>10. \A x \in Convs : Latest(x)' = IF x = c THEN new ELSE Latest(x)
    BY <1>1, <2>4, <2>8, <2>9, LatestAppended
  <2>11. c \in Lasting /\ DOMAIN Shown = Lasting
    BY <1>4, <1>12, <2>1, <2>5 DEF SideInv, SidebarInv, Lasting
  <2>12. Lasting' = Lasting
    BY <2>7, <2>10, <2>11 DEF Lasting
  <2>13. \A x \in DOMAIN Shown' : Latest(x)'.title = Shown'[x] \/ Renaming(x)' \/ quits' # 0
    <3>1. quits = 0 => \A x \in DOMAIN Shown : Latest(x).title = Shown[x] \/ Renaming(x)
      BY <1>4 DEF SideInv, SidebarInv
    <3>2. DOMAIN Shown \subseteq Convs
      BY ShownIs
    <3>3. Shown[c] = "named"
      BY <1>10, <2>5
    <3> QED BY <1>1, <1>7, <1>8, <2>6, <2>10, <3>1, <3>2, <3>3
  <2>14. DOMAIN Shown' = Lasting' /\ DOMAIN j.index = Lasting'
         /\ \A x \in DOMAIN Shown' : j.index[x] = Shown'[x]
    BY <1>8, <2>8, <2>11, <2>12
  <2>15. IndexesInv' /\ ReadInv' /\ SidebarInv'
    BY <1>1, <1>4, <2>4, <2>8, <2>9, <2>13, <2>14, WrittenSide DEF SideInv
  <2>16. RenameInv'
    <3>1. QueueGrows
      BY <2>4, <2>9 DEF QueueGrows
    <3> QED BY <1>1, <1>6, <1>8, <1>9, <3>1, RenamesSide DEF SideInv
  <2> QED BY <2>15, <2>16 DEF SideInv
<1> QED BY <1>11, <1>12

LEMMA DeleteSide ==
    ASSUME TypeOK, TypeOK', JobsInv', UsedInv, SideInv, Orderly', NEW CONSTANT c \in Convs, Delete(c)
    PROVE  SideInv'
<1>1. /\ Early /\ queue' = Append(queue, DeleteJob(c, Listed(c)))
      /\ DeletesOther(c) \/ DeletesShown(c) \/ DeletesLast(c)
      /\ files' = files /\ index' = index /\ half' = half
  BY DeleteIs
<1>2. restore = "done" /\ restore' = "done" /\ quits' = quits
  BY <1>1, EarlyIs DEF Early
<1>3. PICK left \in Index : /\ left = Without(convs, c) /\ DOMAIN left = DOMAIN convs \ {c}
                            /\ \A x \in DOMAIN convs \ {c} : left[x] = convs[x]
  <2>1. convs \in Index
    BY DEF TypeOK
  <2> QED BY <2>1, WithoutIs
<1>4. /\ Listed(c) \in Index /\ DOMAIN Listed(c) = DOMAIN left \ (unsaved \ {c})
      /\ \A x \in DOMAIN Listed(c) : Listed(c)[x] = left[x]
  <2>1. PICK S : S = DOMAIN left \ (unsaved \ {c})
    OBVIOUS
  <2>2. Listed(c) = Restrict(left, S) /\ S \subseteq DOMAIN left
    BY <1>3, <2>1 DEF Listed
  <2> QED BY <2>1, <2>2, RestrictIs
<1>5. PICK j : j = DeleteJob(c, Listed(c))
  OBVIOUS
<1>6. /\ j.op = "delete" /\ j.conv = c /\ j.new = NoFile /\ j.index = Listed(c)
      /\ queue' = Append(queue, j)
  BY <1>1, <1>5 DEF DeleteJob
<1>7. j \in Job /\ Writes(j)
  <2>1. "delete" \in {"save", "delete", "load"} /\ c \in Convs \cup {NoConv} /\ NoFile \in Conversation
    BY NoneAre
  <2>2. j \in Job
    BY <1>4, <1>5, <2>1 DEF DeleteJob, Job
  <2> QED BY <1>6, <2>2 DEF Writes
<1>8. \A x \in Convs : Latest(x)' = IF x = c THEN NoFile ELSE Latest(x)
  BY <1>1, <1>6, <1>7, LatestAppended
<1>9. DOMAIN Shown = Lasting
  BY <1>2 DEF SideInv, SidebarInv
<1>10. DOMAIN Listed(c) = DOMAIN Shown \ {c} /\ \A x \in DOMAIN Listed(c) : Listed(c)[x] = Shown[x]
  BY <1>3, <1>4, ShownIs
<1>11. /\ DOMAIN Shown' = DOMAIN Shown \ {c} /\ \A x \in DOMAIN Shown' : Shown'[x] = Shown[x]
       /\ (active' = active /\ active # c) \/ active' \notin used
       /\ \A x \in Slots : task'[x] = task[x] \/ (task[x].kind # "rename" /\ task'[x].kind # "rename")
  <2>1. CASE DeletesOther(c)
    <3>1. convs' = left /\ unsaved' = unsaved \ {c} /\ task' = task /\ active' = active /\ c # active
      BY <1>3, <2>1 DEF DeletesOther
    <3> QED BY <1>3, <3>1, ShownIs, ShownIsNext
  <2>2. CASE DeletesShown(c)
    <3>1. /\ convs' = left /\ unsaved' = unsaved \ {c} /\ active' = NoConv
          /\ \E next \in DOMAIN left : Ask("select", next, NoIndex)
      BY <1>3, <2>2 DEF DeletesShown
    <3>2. NoConv \notin used
      BY ConvAssumption DEF TypeOK
    <3>3. PICK next \in Convs : Ask("select", next, NoIndex)
      BY <1>3, <3>1, IndexIs
    <3>4. PICK x \in Slots : /\ task[x].kind = "none" /\ task'[x].kind = "select"
                             /\ \A y \in Slots : y # x => task'[y] = task[y]
      <4>1. PICK kind \in Kinds \ {"none"} : kind = "select"
        BY DEF Kinds
      <4>2. PICK ix \in Index : ix = NoIndex
        BY NoneAre
      <4>3. Ask(kind, next, ix)
        BY <3>3, <4>1, <4>2
      <4> QED BY <4>1, <4>3, AskedFor
    <3>5. \A y \in Slots : task'[y] = task[y] \/ (task[y].kind # "rename" /\ task'[y].kind # "rename")
      BY <3>4
    <3>6. DOMAIN Shown' = DOMAIN Shown \ {c} /\ \A y \in DOMAIN Shown' : Shown'[y] = Shown[y]
      BY <1>3, <3>1, ShownIs, ShownIsNext
    <3> QED BY <3>1, <3>2, <3>5, <3>6
  <2>3. CASE DeletesLast(c)
    <3>1. Blank(left, unsaved \ {c}) /\ task' = task
      BY <1>3, <2>3 DEF DeletesLast
    <3>2. DOMAIN left \subseteq used
      BY <1>3 DEF UsedInv
    <3>3. /\ DOMAIN Shown' = DOMAIN left \ (unsaved \ {c})
          /\ \A x \in DOMAIN Shown' : Shown'[x] = left[x]
          /\ active' \notin used
      BY <3>1, <3>2, BlankListed
    <3> QED BY <1>3, <3>1, <3>3, ShownIs
  <2> QED BY <1>1, <2>1, <2>2, <2>3
<1>12. \A x \in Convs : Renaming(x)' <=> Renaming(x)
  BY <1>11 DEF Renaming
<1>13. DOMAIN Shown' = Lasting' /\ DOMAIN j.index = Lasting'
       /\ \A x \in DOMAIN Shown' : j.index[x] = Shown'[x]
  <2>1. Lasting' = Lasting \ {c}
    BY <1>8 DEF Lasting
  <2> QED BY <1>6, <1>9, <1>10, <1>11, <2>1
<1>14. quits' = 0 => \A x \in DOMAIN Shown' : Latest(x)'.title = Shown'[x] \/ Renaming(x)'
  <2>1. quits = 0 => \A x \in DOMAIN Shown : Latest(x).title = Shown[x] \/ Renaming(x)
    BY <1>2 DEF SideInv, SidebarInv
  <2>2. DOMAIN Shown \subseteq Convs
    BY ShownIs
  <2> QED BY <1>2, <1>8, <1>11, <1>12, <2>1, <2>2
<1>15. IndexesInv' /\ ReadInv' /\ SidebarInv'
  BY <1>1, <1>2, <1>6, <1>7, <1>13, <1>14, WrittenSide DEF SideInv
<1>16. RenameInv'
  <2>1. QueueGrows
    BY <1>6, <1>7 DEF QueueGrows
  <2>2. \A x \in Convs : Renaming(x) => /\ x \in DOMAIN Shown' => x \in DOMAIN Shown
                                        /\ x = active' => x \in DOMAIN Shown'
    BY <1>11, RenamingIs DEF SideInv
  <2> QED BY <1>1, <1>11, <2>1, <2>2, RenamesSide DEF SideInv
<1> QED BY <1>15, <1>16 DEF SideInv

\* What is read is on screen: the session is restored.
LEMMA RestoredSide ==
    ASSUME RestoreInv, SideInv, restore # "done", restore' = "done", DiskSame,
           \A s \in Slots : task'[s].kind # "rename",
           DOMAIN Shown' = DOMAIN IndexRead, \A c \in DOMAIN Shown' : Shown'[c] = IndexRead[c]
    PROVE  SideInv'
<1>1. IndexesInv /\ ReadInv /\ half = FALSE /\ \A k \in DOMAIN queue : queue[k].op = "load"
  BY DEF SideInv, RestoreInv
<1>2. /\ IndexRead' = IndexRead /\ Saved' = Saved /\ Lasting' = Lasting /\ IndexesInv'
      /\ (\A c \in Convs : Latest(c)' = Latest(c)) /\ queue' = queue /\ quits' = quits
  BY <1>1, DiskSameIs DEF DiskSame
<1>3. \A c : Latest(c) = files[c]
  BY <1>1, LatestUnwritten
<1>4. Lasting = Saved /\ DOMAIN IndexRead = Saved
  BY <1>1, <1>3 DEF Lasting, Saved, IndexesInv
<1>5. RenameInv'
  BY DEF RenameInv
<1>6. SidebarInv'
  <2>1. \A k \in DOMAIN queue' : queue'[k].op = "load"
    BY <1>1, <1>2
  <2>2. Titled(IndexRead)'
    BY <1>2 DEF Titled
  <2>3. quits' = 0 => \A c \in DOMAIN Shown' : Latest(c)'.title = Shown'[c]
    <3>1. quits = 0 => \A c \in Saved : IndexRead[c] = files[c].title
      BY <1>1 DEF ReadInv
    <3>2. Saved \subseteq Convs
      BY DEF Saved
    <3> QED BY <1>2, <1>3, <1>4, <3>1, <3>2
  <2>4. DOMAIN Shown' = Lasting'
    BY <1>2, <1>4
  <2> QED BY <2>1, <2>2, <2>3, <2>4 DEF SidebarInv
<1> QED BY <1>2, <1>5, <1>6 DEF SideInv, ReadInv

\* Steps of restoreSession before it is done.
LEMMA RestoringSide ==
    ASSUME SideInv, DiskSame, restore' # "done", restore # "done",
           \A s \in Slots : task'[s].kind # "rename",
           \A s \in Slots : task'[s].kind = "index" => task'[s].at # "read",
           \A s \in Slots : task'[s].kind = "recent" => convs' = IndexRead
    PROVE  SideInv'
<1>1. IndexRead' = IndexRead /\ Saved' = Saved /\ IndexesInv' /\ quits' = quits /\ files' = files
  BY DiskSameIs DEF SideInv, DiskSame
<1>2. quits = 0 => \A c \in Saved : IndexRead[c] = files[c].title
  BY DEF SideInv, ReadInv
<1>3. ReadInv'
  BY <1>1, <1>2 DEF ReadInv
<1>4. RenameInv'
  BY DEF RenameInv
<1> QED BY <1>1, <1>3, <1>4 DEF SideInv, SidebarInv

LEMMA RestoreBeginsSide ==
    ASSUME TypeOK, RestoreInv, SideInv, RestoreBegins PROVE SideInv'
<1>1. restore = "waiting" /\ restore' = "index" /\ Ask("index", NoConv, NoIndex) /\ DiskSame
  BY DEF RestoreBegins, DiskSame, store, disk, past
<1>2. PICK s \in Slots : /\ task[s].kind = "none" /\ task'[s].kind = "index" /\ task'[s].at = "asked"
                         /\ \A x \in Slots : x # s => task'[x] = task[x]
  <2>1. PICK kind \in Kinds \ {"none"} : kind = "index"
    BY DEF Kinds
  <2>2. PICK ix \in Index : ix = NoIndex
    BY NoneAre
  <2>3. Ask(kind, NoConv, ix)
    BY <1>1, <2>1, <2>2
  <2> QED BY <2>1, <2>3, AskedFor
<1>3. \A x \in Slots : task[x].kind = "none"
  BY <1>1, NoneAre DEF RestoreInv
<1>4. \A x \in Slots : /\ task'[x].kind \notin {"rename", "recent"}
                       /\ task'[x].kind = "index" => task'[x].at # "read"
  BY <1>2, <1>3
<1> QED BY <1>1, <1>4, RestoringSide

LEMMA RestoreIndexSide ==
    ASSUME TypeOK, JobsInv, TypeOK', RestoreInv, StreamInv, SideInv, NEW s \in Slots, RestoreIndex(s)
    PROVE  SideInv'
<1>1. /\ DiskSame /\ Answered(s, "index") /\ task \in [Slots -> Task]
      /\ (RestoresSome(s) \/ RestoresNone(s))
  BY RestoreIndexIs, TypeParts DEF DiskSame, store, disk, past, TaskType
<1>2. restore # "done" /\ \A x \in Slots : x # s => task[x] = NoTask
  BY <1>1, RestoreOnly
<1>3. task[s].index = IndexRead
  BY <1>1, <1>2 DEF SideInv, ReadInv, Answered
<1>4. CASE RestoresSome(s)
  <2>1. restore' = "recent" /\ convs' = task[s].index
    BY <1>4 DEF RestoresSome
  <2>2. PICK c \in DOMAIN convs' : task' = [task EXCEPT ![s] = Recent(c)]
    BY <1>4 DEF RestoresSome
  <2>3. c \in Convs
    BY <2>2, IndexIs DEF TypeOK
  <2>4. task'[s].kind = "recent" /\ \A x \in Slots : x # s => task'[x] = task[x]
    BY <2>2, <2>3, RecentIs
  <2>5. \A x \in Slots : task'[x].kind \in {"none", "recent"}
    BY <1>2, <2>4, NoneAre
  <2> QED BY <1>1, <1>2, <1>3, <2>1, <2>5, RestoringSide
<1>5. CASE RestoresNone(s)
  <2>1. /\ restore' = "done" /\ task' = [task EXCEPT ![s] = NoTask] /\ NewChatOver(NoIndex)
        /\ task[s].index = NoIndex
    BY <1>5 DEF RestoresNone
  <2>2. \A x \in Slots : task'[x] = NoTask
    BY <1>1, <1>2, <2>1
  <2>3. \A x \in Slots : task'[x].kind # "rename"
    BY <2>2, NoneAre
  <2>4. PICK ix \in Index : ix = NoIndex /\ DOMAIN ix = {}
    BY NoneAre
  <2>5. NewChatOver(ix)
    BY <2>1, <2>4
  <2>6. DOMAIN Shown' = DOMAIN ix \ unsaved
    BY <2>4, <2>5, NewChatListed
  <2>7. IndexRead = ix
    BY <1>3, <2>1, <2>4
  <2>8. DOMAIN Shown' = DOMAIN IndexRead /\ \A c \in DOMAIN Shown' : Shown'[c] = IndexRead[c]
    BY <2>4, <2>6, <2>7
  <2> QED BY <1>1, <1>2, <2>1, <2>3, <2>8, RestoredSide
<1> QED BY <1>1, <1>4, <1>5

LEMMA RestoreRecentSide ==
    ASSUME TypeOK, JobsInv, TypeOK', RestoreInv, StreamInv, UsedInv, SideInv,
           NEW s \in Slots, RestoreRecent(s)
    PROVE  SideInv'
<1>1. /\ DiskSame /\ Answered(s, "recent") /\ task \in [Slots -> Task] /\ restore' = "done"
      /\ task' = [task EXCEPT ![s] = NoTask]
  BY TypeParts DEF RestoreRecent, DiskSame, store, disk, past, TaskType
<1>2. restore # "done" /\ \A x \in Slots : x # s => task[x] = NoTask
  BY <1>1, RestoreOnly
<1>3. convs = IndexRead /\ unsaved = {} /\ convs \in Index
  BY <1>1, <1>2 DEF Answered, SideInv, ReadInv, RestoreInv, TypeOK
<1>4. \A x \in Slots : task'[x] = NoTask
  BY <1>1, <1>2
<1>5. \A x \in Slots : task'[x].kind # "rename"
  BY <1>4, NoneAre
<1>6. DOMAIN Shown' = DOMAIN convs /\ \A c \in DOMAIN Shown' : Shown'[c] = convs[c]
  <2>1. CASE task[s].got = NoFile
    <3>1. NewChatOver(convs) /\ DOMAIN convs \subseteq used
      BY <2>1 DEF RestoreRecent, UsedInv
    <3> QED BY <1>3, <3>1, NewChatListed
  <2>2. CASE task[s].got # NoFile
    <3>1. convs' = convs /\ unsaved' = unsaved
      BY <2>2 DEF RestoreRecent
    <3> QED BY <1>3, <3>1, ShownIsNext
  <2> QED BY <2>1, <2>2
<1>7. DOMAIN Shown' = DOMAIN IndexRead /\ \A c \in DOMAIN Shown' : Shown'[c] = IndexRead[c]
  BY <1>3, <1>6
<1> QED BY <1>1, <1>2, <1>5, <1>7, RestoredSide

\* Steps of the store, and submissions to it.
LEMMA SidebarKept ==
    ASSUME SidebarInv, Shown' = Shown, restore' = restore, quits' = quits,
           \A c : Renaming(c)' <=> Renaming(c),
           \A c \in Convs : Latest(c)' = Latest(c),
           restore = "done" =>
             /\ \A k \in DOMAIN queue' : queue'[k].op # "load" /\ Final(k)' => Titled(queue'[k].index)
             /\ Final(0)' => Titled(IndexRead')
    PROVE  SidebarInv'
<1> SUFFICES ASSUME restore' = "done"
             PROVE  /\ DOMAIN Shown' = Lasting'
                    /\ \A k \in DOMAIN queue' : queue'[k].op # "load" /\ Final(k)' => Titled(queue[k].index)'
                    /\ Final(0)' => Titled(IndexRead)'
                    /\ quits' = 0 => \A c \in DOMAIN Shown' : Latest(c)'.title = Shown'[c] \/ Renaming(c)'
  BY DEF SidebarInv
<1>1. /\ DOMAIN Shown = Lasting
      /\ quits = 0 => \A c \in DOMAIN Shown : Latest(c).title = Shown[c] \/ Renaming(c)
  BY DEF SidebarInv
<1>2. Lasting' = Lasting /\ Lasting \subseteq Convs
  BY LastingKept DEF Lasting
<1>3. \A ix : Titled(ix) => \A c \in DOMAIN Shown' : ix[c] = Shown'[c] \/ Renaming(c)'
  BY DEF Titled
<1>4. ASSUME NEW k \in DOMAIN queue', queue'[k].op # "load", Final(k)' PROVE Titled(queue[k].index)'
  <2>1. Titled(queue'[k].index)
    BY <1>4
  <2> QED BY <1>3, <2>1 DEF Titled
<1>5. ASSUME Final(0)' PROVE Titled(IndexRead)'
  <2>1. Titled(IndexRead')
    BY <1>5
  <2> QED BY <1>3, <2>1 DEF Titled
<1>6. quits' = 0 => \A c \in DOMAIN Shown' : Latest(c)'.title = Shown'[c] \/ Renaming(c)'
  BY <1>1, <1>2
<1> QED BY <1>1, <1>2, <1>4, <1>5, <1>6

\* The tasks rename what they did.
LEMMA RenamingSame ==
    ASSUME \A s \in Slots : task'[s].kind = task[s].kind /\ task'[s].conv = task[s].conv
    PROVE  \A c : Renaming(c)' <=> Renaming(c)
BY DEF Renaming

\* What a rename asks for has a file, so the file will be there when it is read.
LEMMA SubmitSide ==
    ASSUME TypeOK, JobsInv, TypeOK', RestoreInv, SideInv, NEW s \in Slots, Submit(s)
    PROVE  SideInv'
<1>1. /\ restore' = restore /\ files' = files /\ index' = index /\ half' = half /\ quits' = quits
      /\ active' = active /\ convs' = convs /\ unsaved' = unsaved
      /\ queue' = Append(queue, LoadJob(s))
  BY DEF Submit, screen, disk, past
<1>2. /\ LoadJob(s) \in Job /\ LoadJob(s).op = "load" /\ LoadJob(s).slot = s
      /\ task'[s].at = "queued" /\ task'[s].kind = task[s].kind /\ task'[s].conv = task[s].conv
      /\ task'[s].index = task[s].index
      /\ \A x \in Slots : x # s => task'[x] = task[x]
  BY SubmitIs
<1>3. PICK j \in Job : j = LoadJob(s)
  BY <1>2
<1>4. /\ Len(queue) \in Nat /\ DOMAIN queue = 1..Len(queue)
      /\ DOMAIN queue' = 1..(Len(queue) + 1) /\ queue'[Len(queue) + 1] = j
      /\ \A k \in DOMAIN queue : queue'[k] = queue[k]
  BY <1>1, <1>3, AppendIs, TypeParts DEF QueueType
<1>5. \A k \in DOMAIN queue' : k \in DOMAIN queue \/ k = Len(queue) + 1
  BY <1>4
<1>6. ASSUME NEW k \in DOMAIN queue PROVE k \in Nat /\ SamePrefix(queue, queue', k)
  BY <1>4 DEF SamePrefix
<1>7. Shown' = Shown /\ IndexRead' = IndexRead /\ Saved' = Saved
  BY <1>1 DEF Shown, IndexRead, Saved
<1>8. \A x \in Slots : task'[x].kind = task[x].kind /\ task'[x].conv = task[x].conv
  BY <1>2
<1>9. \A c : Renaming(c)' <=> Renaming(c)
  BY <1>8, RenamingSame
<1>10. \A c \in Convs : Latest(c)' = Latest(c)
  BY <1>1, <1>2, <1>3, LatestAppended
<1>11. IndexesInv'
  <2>1. ASSUME NEW k \in DOMAIN queue', queue'[k].op # "load"
        PROVE  DOMAIN queue'[k].index = OnDisk(queue', files', k)
    <3>1. k \in DOMAIN queue /\ queue'[k] = queue[k]
      BY <1>2, <1>3, <1>4, <1>5, <2>1
    <3>2. OnDisk(queue', files, k) = OnDisk(queue, files, k)
      BY <1>6, <3>1, OnDiskSame
    <3> QED BY <1>1, <2>1, <3>1, <3>2 DEF SideInv, IndexesInv
  <2> QED BY <1>1, <1>7, <2>1 DEF SideInv, IndexesInv
<1>12. ReadInv'
  <2>1. \A x \in Slots : task'[x].at = "read" => task'[x] = task[x]
    BY <1>2
  <2> QED BY <1>1, <1>7, <1>8, <2>1 DEF SideInv, ReadInv
<1>13. RenameInv'
  <2> SUFFICES ASSUME NEW x \in Slots, NEW c \in Convs, task'[x].kind = "rename", task'[x].conv = c
               PROVE  /\ c \in DOMAIN task'[x].index /\ task'[x].index[c] = "named"
                      /\ c = active' => c \in DOMAIN Shown'
                      /\ c \in DOMAIN Shown' =>
                           /\ task'[x].at = "read" => task'[x].got # NoFile
                           /\ \A k \in DOMAIN queue' : queue'[k].op = "load" /\ queue'[k].slot = x =>
                                HeldAt(queue', files', k, c) # NoFile
    BY DEF RenameInv
  <2>1. task[x].kind = "rename" /\ task[x].conv = c /\ task'[x].index = task[x].index
        /\ (task'[x].at = "read" => task[x].at = "read" /\ task'[x].got = task[x].got)
    BY <1>2
  <2>2. /\ c \in DOMAIN task[x].index /\ task[x].index[c] = "named"
        /\ c = active => c \in DOMAIN Shown
        /\ c \in DOMAIN Shown =>
             /\ task[x].at = "read" => task[x].got # NoFile
             /\ \A k \in DOMAIN queue : queue[k].op = "load" /\ queue[k].slot = x =>
                  HeldAt(queue, files, k, c) # NoFile
    BY <2>1 DEF SideInv, RenameInv
  <2>3. ASSUME c \in DOMAIN Shown, NEW k \in DOMAIN queue', queue'[k].op = "load", queue'[k].slot = x
        PROVE  HeldAt(queue', files', k, c) # NoFile
    <3>1. CASE k \in DOMAIN queue
      <4>1. HeldAt(queue', files, k, c) = HeldAt(queue, files, k, c)
        BY <1>6, <3>1, HeldSame
      <4> QED BY <1>1, <1>4, <2>2, <2>3, <3>1, <4>1
    <3>2. CASE k = Len(queue) + 1
      <4>1. HeldAt(queue', files', Len(queue'), c) = Latest(c)
        BY <1>10, LatestIsNext
      <4>2. Len(queue') = Len(queue) + 1
        BY <1>1, <1>3, AppendIs, TypeParts DEF QueueType
      <4>3. restore = "done"
        BY <2>1 DEF RestoreInv
      <4>4. Latest(c) # NoFile
        BY <2>3, <4>3 DEF SideInv, SidebarInv, Lasting
      <4> QED BY <3>2, <4>1, <4>2, <4>4
    <3> QED BY <1>5, <3>1, <3>2
  <2> QED BY <1>1, <1>7, <2>1, <2>2, <2>3
<1>14. SidebarInv'
  <2>1. /\ \A k \in DOMAIN queue : Final(k)' => Final(k)
        /\ Final(0)' => Final(0)
    BY <1>4 DEF Final
  <2>2. ASSUME NEW k \in DOMAIN queue', queue'[k].op # "load", Final(k)', restore = "done"
        PROVE  Titled(queue'[k].index)
    <3>1. k \in DOMAIN queue /\ queue'[k] = queue[k]
      BY <1>2, <1>3, <1>4, <1>5, <2>2
    <3> QED BY <2>1, <2>2, <3>1 DEF SideInv, SidebarInv
  <2>3. restore = "done" /\ Final(0)' => Titled(IndexRead')
    BY <1>7, <2>1 DEF SideInv, SidebarInv
  <2> QED BY <1>1, <1>7, <1>9, <1>10, <2>2, <2>3, SidebarKept DEF SideInv
<1> QED BY <1>11, <1>12, <1>13, <1>14 DEF SideInv

LEMMA JobFileSide ==
    ASSUME TypeOK, JobsInv, TypeOK', RestoreInv, SideInv, JobFile PROVE SideInv'
<1>1. /\ restore' = restore /\ quits' = quits /\ task' = task /\ queue' = queue /\ index' = index
      /\ active' = active /\ convs' = convs /\ unsaved' = unsaved /\ half' = TRUE
      /\ queue # <<>> /\ queue[1].op # "load" /\ queue[1].conv \in DOMAIN files
      /\ files' = [files EXCEPT ![queue[1].conv] = queue[1].new]
  BY Job1Is DEF JobFile, screen, past
<1>2. Len(queue) \in Nat /\ Len(queue) >= 1 /\ DOMAIN queue = 1..Len(queue)
  BY <1>1, TypeParts, TailIs DEF QueueType
<1>3. 1 \in DOMAIN queue /\ 1 > 0 /\ \A k \in DOMAIN queue : k \in Nat /\ k >= 1
  BY <1>2
<1>4. restore = "done"
  BY <1>1, <1>3 DEF RestoreInv
<1>5. \A k \in DOMAIN queue, c \in Convs : HeldAt(queue, files', k, c) = HeldAt(queue, files, k, c)
  BY <1>1, <1>3, HeldFile
<1>6. \A k \in DOMAIN queue : OnDisk(queue, files', k) = OnDisk(queue, files, k)
  BY <1>5 DEF OnDisk
<1>7. IndexesInv'
  BY <1>1, <1>6 DEF SideInv, IndexesInv
<1>8. Shown' = Shown /\ \A c : Renaming(c)' <=> Renaming(c)
  BY <1>1 DEF Shown, Renaming
<1>9. RenameInv'
  <2> SUFFICES ASSUME NEW s \in Slots, NEW c \in Convs, task'[s].kind = "rename", task'[s].conv = c
               PROVE  /\ c \in DOMAIN task'[s].index /\ task'[s].index[c] = "named"
                      /\ c = active' => c \in DOMAIN Shown'
                      /\ c \in DOMAIN Shown' =>
                           /\ task'[s].at = "read" => task'[s].got # NoFile
                           /\ \A k \in DOMAIN queue' : queue'[k].op = "load" /\ queue'[k].slot = s =>
                                HeldAt(queue', files', k, c) # NoFile
    BY DEF RenameInv
  <2>1. /\ c \in DOMAIN task[s].index /\ task[s].index[c] = "named"
        /\ c = active => c \in DOMAIN Shown
        /\ c \in DOMAIN Shown =>
             /\ task[s].at = "read" => task[s].got # NoFile
             /\ \A k \in DOMAIN queue : queue[k].op = "load" /\ queue[k].slot = s =>
                  HeldAt(queue, files, k, c) # NoFile
    BY <1>1 DEF SideInv, RenameInv
  <2> QED BY <1>1, <1>5, <1>8, <2>1
<1>10. SidebarInv'
  <2>1. \A c \in Convs : Latest(c)' = Latest(c)
    BY LatestWritten
  <2>2. \A k \in DOMAIN queue' : queue'[k].op # "load" /\ Final(k)' => Titled(queue'[k].index)
    BY <1>1, <1>4 DEF Final, SideInv, SidebarInv
  <2>3. ~Final(0)'
    BY <1>1, <1>3 DEF Final
  <2> QED BY <1>1, <1>8, <2>1, <2>2, <2>3, SidebarKept DEF SideInv
<1> QED BY <1>1, <1>4, <1>7, <1>9, <1>10 DEF SideInv, ReadInv

\* The first job is done: the others come one place nearer.
LEMMA TailSide ==
    ASSUME TypeOK, queue # <<>>, queue' = Tail(queue), files' = files,
           queue[1].op # "load" => files[queue[1].conv] = queue[1].new
    PROVE  /\ \A k \in DOMAIN queue' :
                /\ k + 1 \in DOMAIN queue /\ queue'[k] = queue[k + 1]
                /\ OnDisk(queue', files', k) = OnDisk(queue, files, k + 1)
                /\ \A c \in Convs : HeldAt(queue', files', k, c) = HeldAt(queue, files, k + 1, c)
                /\ Final(k)' => Final(k + 1)
           /\ 1 \in DOMAIN queue /\ OnDisk(queue, files, 1) = Saved
           /\ \A c \in Convs : HeldAt(queue, files, 1, c) = files[c]
           /\ Final(0)' => Final(1)
<1>1. queue \in Seq(Job)
  BY TypeParts DEF QueueType
<1>2. /\ Len(queue) \in Nat /\ Len(queue) >= 1 /\ DOMAIN queue = 1..Len(queue)
      /\ DOMAIN queue' = 1..(Len(queue) - 1)
      /\ \A k \in DOMAIN queue' : queue'[k] = queue[k + 1]
  BY <1>1, TailIs
<1>3. \A c : Writer(queue, 1, c) => files[c] = queue[1].new
  BY DEF Writer
<1>4. \A k \in DOMAIN queue', c \in Convs : HeldAt(queue', files', k, c) = HeldAt(queue, files, k + 1, c)
  <2> SUFFICES ASSUME NEW k \in DOMAIN queue', NEW c \in Convs
               PROVE  HeldAt(queue', files', k, c) = HeldAt(queue, files, k + 1, c)
    OBVIOUS
  <2>1. k \in 0..(Len(queue) - 1)
    BY <1>2
  <2> QED BY <1>1, <1>3, <2>1, HeldTail
<1>5. \A k \in DOMAIN queue' : OnDisk(queue', files', k) = OnDisk(queue, files, k + 1)
  BY <1>4 DEF OnDisk
<1>6. \A c \in Convs : HeldAt(queue, files, 1, c) = files[c]
  <2> SUFFICES ASSUME NEW c \in Convs PROVE HeldAt(queue, files, 1, c) = files[c]
    OBVIOUS
  <2>1. 0 \in Nat /\ 0 + 1 = 1
    OBVIOUS
  <2>2. HeldAt(queue, files, 0, c) = files[c]
    BY HeldNone
  <2>3. HeldAt(queue, files, 0 + 1, c) =
          IF Writer(queue, 0 + 1, c) THEN queue[0 + 1].new ELSE HeldAt(queue, files, 0, c)
    BY <2>1, HeldNext
  <2> QED BY <1>3, <2>1, <2>2, <2>3
<1>7. OnDisk(queue, files, 1) = Saved
  BY <1>6 DEF OnDisk, Saved
<1>8. ASSUME NEW k \in 0..(Len(queue) - 1), Final(k)' PROVE Final(k + 1)
  <2> SUFFICES ASSUME NEW j \in DOMAIN queue, j > k + 1 PROVE queue[j].op = "load"
    BY DEF Final
  <2>1. j - 1 \in DOMAIN queue' /\ j - 1 > k /\ j - 1 + 1 = j
    BY <1>2
  <2> QED BY <1>2, <1>8, <2>1 DEF Final
<1>9. \A k \in DOMAIN queue' : k \in 0..(Len(queue) - 1) /\ k + 1 \in DOMAIN queue
  BY <1>2
<1>10. 0 \in 0..(Len(queue) - 1) /\ 0 + 1 = 1 /\ 1 \in DOMAIN queue
  BY <1>2
<1>11. Final(0)' => Final(1)
  BY <1>8, <1>10
<1> QED BY <1>2, <1>4, <1>5, <1>6, <1>7, <1>8, <1>9, <1>10, <1>11

\* What is read is the index, or names the files there are.
LEMMA IndexReadIs ==
    /\ index # NoIndex /\ DOMAIN index \subseteq Saved => IndexRead = index
    /\ ~(index # NoIndex /\ DOMAIN index \subseteq Saved) => DOMAIN IndexRead = Saved
BY DEF IndexRead

LEMMA IndexReadIsNext ==
    /\ index' # NoIndex /\ DOMAIN index' \subseteq Saved' => IndexRead' = index'
    /\ ~(index' # NoIndex /\ DOMAIN index' \subseteq Saved') => DOMAIN IndexRead' = Saved'
BY DEF IndexRead

LEMMA JobIndexSide ==
    ASSUME TypeOK, JobsInv, HalfInv, TypeOK', RestoreInv, SideInv, JobIndex PROVE SideInv'
<1>1. half /\ queue # <<>>
  BY DEF JobIndex, HalfInv
<1>2. /\ restore' = restore /\ quits' = quits /\ task' = task /\ queue' = Tail(queue)
      /\ active' = active /\ convs' = convs /\ unsaved' = unsaved /\ files' = files
      /\ half' = FALSE /\ index' = queue[1].index
      /\ queue[1].op # "load" /\ files[queue[1].conv] = queue[1].new
  BY <1>1, Job1Is DEF JobIndex, HalfInv, screen, past
<1>3. restore = "done"
  BY <1>1 DEF RestoreInv
<1>4. /\ \A k \in DOMAIN queue' :
           /\ k + 1 \in DOMAIN queue /\ queue'[k] = queue[k + 1]
           /\ OnDisk(queue', files', k) = OnDisk(queue, files, k + 1)
           /\ \A c \in Convs : HeldAt(queue', files', k, c) = HeldAt(queue, files, k + 1, c)
           /\ Final(k)' => Final(k + 1)
      /\ 1 \in DOMAIN queue /\ OnDisk(queue, files, 1) = Saved
      /\ Final(0)' => Final(1)
  BY <1>1, <1>2, TailSide
<1>5. DOMAIN index' = Saved /\ Saved' = Saved
  BY <1>2, <1>4 DEF SideInv, IndexesInv, Saved
<1>6. DOMAIN IndexRead' = Saved' /\ (index' # NoIndex => IndexRead' = index')
  BY <1>5, IndexReadIsNext
<1>7. IndexesInv'
  BY <1>4, <1>6 DEF SideInv, IndexesInv
<1>8. Shown' = Shown /\ \A c : Renaming(c)' <=> Renaming(c)
  BY <1>2 DEF Shown, Renaming
<1>9. RenameInv'
  <2> SUFFICES ASSUME NEW s \in Slots, NEW c \in Convs, task'[s].kind = "rename", task'[s].conv = c
               PROVE  /\ c \in DOMAIN task'[s].index /\ task'[s].index[c] = "named"
                      /\ c = active' => c \in DOMAIN Shown'
                      /\ c \in DOMAIN Shown' =>
                           /\ task'[s].at = "read" => task'[s].got # NoFile
                           /\ \A k \in DOMAIN queue' : queue'[k].op = "load" /\ queue'[k].slot = s =>
                                HeldAt(queue', files', k, c) # NoFile
    BY DEF RenameInv
  <2>1. /\ c \in DOMAIN task[s].index /\ task[s].index[c] = "named"
        /\ c = active => c \in DOMAIN Shown
        /\ c \in DOMAIN Shown =>
             /\ task[s].at = "read" => task[s].got # NoFile
             /\ \A k \in DOMAIN queue : queue[k].op = "load" /\ queue[k].slot = s =>
                  HeldAt(queue, files, k, c) # NoFile
    BY <1>2 DEF SideInv, RenameInv
  <2>2. c \in DOMAIN Shown =>
          \A k \in DOMAIN queue' : queue'[k].op = "load" /\ queue'[k].slot = s =>
            HeldAt(queue', files', k, c) # NoFile
    BY <1>4, <2>1
  <2> QED BY <1>2, <1>8, <2>1, <2>2
<1>10. \A c \in Convs : Latest(c)' = Latest(c)
  BY <1>1, <1>2, LatestDone
<1>11. SidebarInv'
  <2>1. \A k \in DOMAIN queue' : queue'[k].op # "load" /\ Final(k)' => Titled(queue'[k].index)
    BY <1>3, <1>4 DEF SideInv, SidebarInv
  <2>2. ASSUME Final(0)' PROVE Titled(IndexRead')
    <3>1. Titled(index')
      BY <1>2, <1>3, <1>4, <2>2 DEF SideInv, SidebarInv
    <3>2. CASE index' # NoIndex
      BY <1>6, <3>1, <3>2
    <3>3. CASE index' = NoIndex
      <4>1. Saved = {}
        BY <1>5, <3>3, NoneAre
      <4>2. \A k \in DOMAIN queue' : queue'[k].op = "load"
        <5>1. \A k \in DOMAIN queue' : k > 0
          BY <1>1, <1>2, TypeParts, TailIs DEF QueueType
        <5> QED BY <2>2, <5>1 DEF Final
      <4>3. \A c \in Convs : Latest(c)' = files'[c]
        BY <4>2 DEF Latest
      <4>4. Lasting = {}
        BY <1>2, <1>10, <4>1, <4>3 DEF Lasting, Saved
      <4>5. DOMAIN Shown = {}
        BY <1>3, <4>4 DEF SideInv, SidebarInv
      <4> QED BY <4>5 DEF Titled
    <3> QED BY <3>2, <3>3
  <2> QED BY <1>2, <1>8, <1>10, <2>1, <2>2, SidebarKept DEF SideInv
<1> QED BY <1>2, <1>3, <1>7, <1>9, <1>11 DEF SideInv, ReadInv

\* A rebuilt index is what would be rebuilt again.
LEMMA IndexReadAgain ==
    ASSUME index' = index \/ index' = IndexRead, files' = files
    PROVE  IndexRead' = IndexRead
<1>1. Saved' = Saved
  BY DEF Saved
<1>2. CASE index' = index
  BY <1>1, <1>2 DEF IndexRead
<1>3. CASE index' = IndexRead
  <2>1. CASE index # NoIndex /\ DOMAIN index \subseteq Saved
    <3>1. IndexRead = index
      BY <2>1 DEF IndexRead
    <3> QED BY <1>1, <1>3, <3>1 DEF IndexRead
  <2>2. CASE ~(index # NoIndex /\ DOMAIN index \subseteq Saved)
    <3>1. IndexRead = [c \in Saved |-> files[c].title]
      BY <2>2 DEF IndexRead
    <3> QED BY <1>1, <1>3, <3>1 DEF IndexRead
  <2> QED BY <2>1, <2>2
<1> QED BY <1>2, <1>3

LEMMA JobLoadSide ==
    ASSUME TypeOK, JobsInv, TypeOK', RestoreInv, SideInv, JobLoad PROVE SideInv'
<1>1. /\ restore' = restore /\ quits' = quits
      /\ active' = active /\ convs' = convs /\ unsaved' = unsaved
  BY DEF JobLoad, screen, past
<1>2. /\ queue # <<>> /\ half = FALSE /\ queue[1].op = "load" /\ queue' = Tail(queue)
      /\ files' = files /\ half' = FALSE
  BY JobLoadIs
<1>3. PICK s \in Slots :
        /\ s = queue[1].slot
        /\ task'[s].at = "read" /\ task'[s].kind = task[s].kind /\ task'[s].conv = task[s].conv
        /\ IF task[s].kind = "index"
           THEN task'[s].index = IndexRead /\ index' = IndexRead
           ELSE /\ task'[s].got = files[task[s].conv] /\ task'[s].index = task[s].index
                /\ index' = index
        /\ \A x \in Slots : x # s => task'[x] = task[x]
  BY JobLoadIs
<1>4. /\ \A k \in DOMAIN queue' :
           /\ k + 1 \in DOMAIN queue /\ queue'[k] = queue[k + 1]
           /\ OnDisk(queue', files', k) = OnDisk(queue, files, k + 1)
           /\ \A c \in Convs : HeldAt(queue', files', k, c) = HeldAt(queue, files, k + 1, c)
           /\ Final(k)' => Final(k + 1)
      /\ 1 \in DOMAIN queue /\ \A c \in Convs : HeldAt(queue, files, 1, c) = files[c]
      /\ Final(0)' => Final(1)
  BY <1>2, TailSide
<1>5. IndexRead' = IndexRead /\ Saved' = Saved /\ Shown' = Shown
  <2>1. index' = index \/ index' = IndexRead
    BY <1>3
  <2> QED BY <1>1, <1>2, <2>1, IndexReadAgain DEF Saved, Shown
<1>6. \A x \in Slots : task'[x].kind = task[x].kind /\ task'[x].conv = task[x].conv
  BY <1>3
<1>7. \A c : Renaming(c)' <=> Renaming(c)
  BY <1>6, RenamingSame
<1>8. IndexesInv'
  BY <1>2, <1>4, <1>5 DEF SideInv, IndexesInv
<1>9. ReadInv'
  <2> SUFFICES ASSUME restore' # "done"
               PROVE  /\ \A x \in Slots :
                           /\ task'[x].kind = "index" /\ task'[x].at = "read" => task'[x].index = IndexRead'
                           /\ task'[x].kind = "recent" => convs' = IndexRead'
                      /\ quits' = 0 => \A c \in Saved' : IndexRead'[c] = files'[c].title
    BY DEF ReadInv
  <2>1. /\ \A x \in Slots :
             /\ task[x].kind = "index" /\ task[x].at = "read" => task[x].index = IndexRead
             /\ task[x].kind = "recent" => convs = IndexRead
        /\ quits = 0 => \A c \in Saved : IndexRead[c] = files[c].title
    BY <1>1 DEF SideInv, ReadInv
  <2>2. \A x \in Slots : task'[x].kind = "index" /\ task'[x].at = "read" => task'[x].index = IndexRead
    BY <1>3, <2>1
  <2>3. \A x \in Slots : task'[x].kind = "recent" => convs' = IndexRead
    BY <1>1, <1>6, <2>1
  <2> QED BY <1>1, <1>2, <1>5, <2>1, <2>2, <2>3
<1>10. RenameInv'
  <2> SUFFICES ASSUME NEW x \in Slots, NEW c \in Convs, task'[x].kind = "rename", task'[x].conv = c
               PROVE  /\ c \in DOMAIN task'[x].index /\ task'[x].index[c] = "named"
                      /\ c = active' => c \in DOMAIN Shown'
                      /\ c \in DOMAIN Shown' =>
                           /\ task'[x].at = "read" => task'[x].got # NoFile
                           /\ \A k \in DOMAIN queue' : queue'[k].op = "load" /\ queue'[k].slot = x =>
                                HeldAt(queue', files', k, c) # NoFile
    BY DEF RenameInv
  <2>1. task[x].kind = "rename" /\ task[x].conv = c
    BY <1>6
  <2>2. /\ c \in DOMAIN task[x].index /\ task[x].index[c] = "named"
        /\ c = active => c \in DOMAIN Shown
        /\ c \in DOMAIN Shown =>
             /\ task[x].at = "read" => task[x].got # NoFile
             /\ \A k \in DOMAIN queue : queue[k].op = "load" /\ queue[k].slot = x =>
                  HeldAt(queue, files, k, c) # NoFile
    BY <2>1 DEF SideInv, RenameInv
  <2>3. task'[x].index = task[x].index
    BY <1>3, <2>1
  <2>4. c \in DOMAIN Shown /\ task'[x].at = "read" => task'[x].got # NoFile
    <3>1. CASE x = s
      <4>1. task'[x].got = files[c]
        BY <1>3, <2>1, <3>1
      <4>2. c \in DOMAIN Shown => HeldAt(queue, files, 1, c) # NoFile
        BY <1>2, <1>3, <1>4, <2>2, <3>1
      <4> QED BY <1>4, <4>1, <4>2
    <3>2. CASE x # s
      BY <1>3, <2>2, <3>2
    <3> QED BY <3>1, <3>2
  <2>5. c \in DOMAIN Shown =>
          \A k \in DOMAIN queue' : queue'[k].op = "load" /\ queue'[k].slot = x =>
            HeldAt(queue', files', k, c) # NoFile
    BY <1>4, <2>2
  <2> QED BY <1>1, <1>5, <2>2, <2>3, <2>4, <2>5
<1>11. SidebarInv'
  <2>1. \A c \in Convs : Latest(c)' = Latest(c)
    BY <1>2, LatestDone
  <2>2. restore = "done" =>
          \A k \in DOMAIN queue' : queue'[k].op # "load" /\ Final(k)' => Titled(queue'[k].index)
    BY <1>4 DEF SideInv, SidebarInv
  <2>3. restore = "done" /\ Final(0)' => Titled(IndexRead')
    <3>1. Final(1) => Final(0)
      <4>1. \A j \in DOMAIN queue : j > 1 \/ j = 1
        BY TypeParts, SeqIs DEF QueueType
      <4> QED BY <1>2, <4>1 DEF Final
    <3> QED BY <1>4, <1>5, <3>1 DEF SideInv, SidebarInv
  <2> QED BY <1>1, <1>5, <1>7, <2>1, <2>2, <2>3, SidebarKept DEF SideInv
<1> QED BY <1>8, <1>9, <1>10, <1>11 DEF SideInv

\* What a quit leaves is what the next launch reads, unless it cut a save short.
LEMMA QuitSide ==
    ASSUME TypeOK, SideInv, Quit, Orderly' PROVE SideInv'
<1>1. /\ restore' = "down" /\ queue' = <<>> /\ half' = FALSE /\ files' = files /\ index' = index
      /\ quits' = quits + 1 /\ task' = [s \in Slots |-> NoTask]
      /\ cut' = (cut \/ (half /\ DOMAIN IndexRead # Saved))
  BY DEF Quit
<1>2. IndexRead' = IndexRead /\ Saved' = Saved
  BY <1>1 DEF IndexRead, Saved
<1>3. DOMAIN IndexRead = Saved
  BY <1>1 DEF Orderly, SideInv, IndexesInv
<1>4. DOMAIN queue' = {}
  BY <1>1
<1>5. IndexesInv'
  BY <1>2, <1>3, <1>4 DEF IndexesInv
<1>6. \A s \in Slots : task'[s].kind = "none"
  BY <1>1, NoneAre
<1>7. quits' # 0
  BY <1>1 DEF TypeOK
<1>8. ReadInv' /\ RenameInv'
  BY <1>6, <1>7 DEF ReadInv, RenameInv
<1> QED BY <1>1, <1>5, <1>8 DEF SideInv, SidebarInv

LEMMA InitSide == Init => SideInv
<1> SUFFICES ASSUME Init PROVE SideInv
  OBVIOUS
<1>1. /\ restore = "waiting" /\ half = FALSE /\ queue = <<>> /\ task = [s \in Slots |-> NoTask]
      /\ files = [c \in Convs |-> IF c \in Old THEN [title |-> "auto", msgs |-> <<User(c)>>] ELSE NoFile]
      /\ index = [c \in Old |-> "auto"]
  BY DEF Init
<1>2. \A c \in Convs : /\ c \in Old => files[c].title = "auto" /\ files[c] # NoFile
                       /\ c \notin Old => files[c] = NoFile
  <2> SUFFICES ASSUME NEW c \in Convs
               PROVE  /\ c \in Old => files[c].title = "auto" /\ files[c] # NoFile
                      /\ c \notin Old => files[c] = NoFile
    OBVIOUS
  <2>1. CASE c \in Old
    <3>1. files[c] = [title |-> "auto", msgs |-> <<User(c)>>]
      BY <1>1, <2>1
    <3>2. files[c].title = "auto"
      BY <3>1
    <3>3. NoFile.title = "New chat"
      BY NoneAre
    <3>4. files[c] # NoFile
      BY <3>2, <3>3
    <3> QED BY <2>1, <3>2, <3>4
  <2>2. CASE c \notin Old
    BY <1>1, <2>2
  <2> QED BY <2>1, <2>2
<1>3. Saved = Old
  BY <1>2, ConvAssumption DEF Saved
<1>4. DOMAIN IndexRead = Saved /\ \A c \in Saved : IndexRead[c] = files[c].title
  <2>1. CASE index # NoIndex /\ DOMAIN index \subseteq Saved
    <3>1. IndexRead = index
      BY <2>1, IndexReadIs
    <3> QED BY <1>1, <1>2, <1>3, <3>1, ConvAssumption
  <2>2. CASE ~(index # NoIndex /\ DOMAIN index \subseteq Saved)
    <3>1. IndexRead = [c \in Saved |-> files[c].title]
      BY <2>2 DEF IndexRead
    <3> QED BY <3>1
  <2> QED BY <2>1, <2>2
<1>5. \A s \in Slots : task[s].kind = "none"
  BY <1>1, NoneAre
<1>6. DOMAIN queue = {}
  BY <1>1
<1>7. IndexesInv /\ ReadInv /\ RenameInv
  BY <1>4, <1>5, <1>6 DEF IndexesInv, ReadInv, RenameInv
<1> QED BY <1>1, <1>7 DEF SideInv, SidebarInv

LEMMA SideStep ==
    ASSUME TypeOK, JobsInv, HalfInv, TypeOK', JobsInv', RestoreInv, StreamInv, UsedInv, SideInv,
           [Next]_vars, Orderly'
    PROVE  SideInv'
<1>1. CASE Send
  BY <1>1, SendSide
<1>2. CASE \E s \in streams : OpenStream(s) \/ StreamPends(s) \/ CloseStream(s)
  BY <1>2, StreamsSide, CloseStreamSide
<1>3. CASE Approve \/ Deny \/ Import
  BY <1>3, StreamsSide, DenySide, ImportSide
<1>4. CASE NewChat \/ RenameActive \/ RestoreBegins
  BY <1>4, NewChatSide, RenameActiveSide, RestoreBeginsSide
<1>5. CASE \E c \in Convs : Select(c) \/ RenameOther(c) \/ Delete(c)
  BY <1>5, SelectSide, RenameOtherSide, DeleteSide
<1>6. CASE \E s \in Slots : Submit(s) \/ ImportEnds(s) \/ SelectEnds(s)
  BY <1>6, SubmitSide, ImportEndsSide, SelectEndsSide
<1>7. CASE \E s \in Slots : RenameEnds(s) \/ RestoreIndex(s) \/ RestoreRecent(s)
  BY <1>7, RenameEndsSide, RestoreIndexSide, RestoreRecentSide
<1>8. CASE Store
  BY <1>8, JobFileSide, JobIndexSide, JobLoadSide DEF Store
<1>9. CASE Quit
  BY <1>9, QuitSide
<1>10. CASE Launch \/ UNCHANGED vars
  <2>1. /\ DiskSame /\ task' = task /\ active' = active /\ convs' = convs /\ unsaved' = unsaved
        /\ restore' = restore \/ (restore = "down" /\ restore' = "waiting")
    BY <1>10 DEF Launch, vars, DiskSame, store, disk, screen, past
  <2> QED BY <2>1, SameSide
<1> QED
  BY <1>1, <1>2, <1>3, <1>4, <1>5, <1>6, <1>7, <1>8, <1>9, <1>10, Zenon DEF Next

\* As long as the app's known ways to go wrong are not taken, the sidebar, the
\* queue and the index agree at every instant, also in the middle of a rename, of
\* a save or of a restore.
THEOREM SideInvariant == Spec => [](ConvIInv /\ SideIInv)
<1>1. Init => ConvIInv /\ SideIInv
  BY InitTyped, HalfInit, InitWhole, InitSide DEF ConvIInv, TurnsIInv, SideIInv
<1>2. ConvIInv /\ SideIInv /\ [Next]_vars => (ConvIInv /\ SideIInv)'
  <2> SUFFICES ASSUME ConvIInv, SideIInv, [Next]_vars PROVE ConvIInv' /\ SideIInv'
    OBVIOUS
  <2>1. ConvIInv'
    BY ConvStep
  <2>2. ASSUME Orderly' PROVE SideInv'
    <3>1. Orderly
      BY <2>2, OrderlyWas
    <3>2. RestoreInv /\ StreamInv /\ UsedInv /\ SideInv
      BY <3>1 DEF ConvIInv, TurnsIInv, Whole, SideIInv
    <3> QED BY <2>1, <2>2, <3>2, SideStep DEF ConvIInv
  <2> QED BY <2>1, <2>2 DEF SideIInv
<1> QED BY <1>1, <1>2, PTL DEF Spec

\* At rest the index names exactly the files there are, with their titles, and
\* the sidebar shows exactly what the next launch will list, however saves,
\* renames, deletions, restores and quits interleave.
THEOREM SidebarAlwaysMatches == Spec => []SidebarMatchesDisk
<1>1. ConvIInv /\ SideIInv => SidebarMatchesDisk
  <2> SUFFICES ASSUME ConvIInv, SideIInv, Quiet, Orderly
               PROVE  /\ DOMAIN IndexRead = Saved
                      /\ quits = 0 => \A c \in Saved : IndexRead[c] = files[c].title
                      /\ restore = "done" => Shown = IndexRead
    BY DEF SidebarMatchesDisk
  <2>1. TypeOK /\ HalfInv /\ IndexesInv /\ ReadInv /\ SidebarInv
    BY DEF ConvIInv, SideIInv, SideInv
  <2>2. queue = <<>> /\ DOMAIN queue = {} /\ \A s \in Slots : task[s].kind = "none"
    <3>1. queue = <<>> /\ \A s \in Slots : task[s] = NoTask
      BY DEF Quiet, Drained
    <3>2. \A s \in Slots : task[s].kind = "none"
      BY <3>1, NoneAre
    <3>3. DOMAIN queue = {}
      BY <3>1
    <3> QED BY <3>1, <3>2, <3>3
  <2>3. DOMAIN IndexRead = Saved
    BY <2>1, <2>2 DEF HalfInv, IndexesInv
  <2>4. \A c : Latest(c) = files[c]
    BY <2>2, LatestDrained
  <2>5. ASSUME restore = "done"
        PROVE  /\ DOMAIN Shown = Saved /\ \A c \in Saved : Shown[c] = IndexRead[c]
               /\ quits = 0 => \A c \in Saved : files[c].title = Shown[c]
    <3>1. DOMAIN Shown = Saved
      BY <2>1, <2>4, <2>5 DEF SidebarInv, Lasting, Saved
    <3>2. \A c : ~Renaming(c)
      BY <2>2 DEF Renaming
    <3>3. Final(0)
      BY <2>2 DEF Final
    <3>4. \A c \in Saved : IndexRead[c] = Shown[c]
      BY <2>1, <2>5, <3>1, <3>2, <3>3 DEF SidebarInv, Titled
    <3>5. quits = 0 => \A c \in Saved : Latest(c).title = Shown[c]
      BY <2>1, <2>5, <3>1, <3>2 DEF SidebarInv
    <3> QED BY <2>4, <3>1, <3>4, <3>5
  <2>6. quits = 0 => \A c \in Saved : IndexRead[c] = files[c].title
    BY <2>1, <2>5 DEF ReadInv
  <2>7. ASSUME restore = "done" PROVE Shown = IndexRead
    <3>1. PICK f \in Index : f = Shown
      BY <2>1, ShownIs
    <3>2. PICK g \in Index : g = IndexRead
      BY <2>1, IndexReadTyped
    <3>3. DOMAIN f = DOMAIN g /\ \A c \in DOMAIN f : f[c] = g[c]
      BY <2>3, <2>5, <2>7, <3>1, <3>2
    <3>4. f \in [DOMAIN f -> Titles] /\ g \in [DOMAIN g -> Titles]
      BY IndexIs
    <3>5. f = g
      BY <3>3, <3>4
    <3> QED BY <3>1, <3>2, <3>5
  <2> QED BY <2>3, <2>6, <2>7
<1> QED BY <1>1, SideInvariant, PTL
=============================================================================
