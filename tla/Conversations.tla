--------------------------- MODULE Conversations ----------------------------
(***************************************************************************)
(* The app's conversations: the main actor of GinexusApp/AppModel.swift    *)
(* over the serial store of GinexusCore/ConversationStore.swift, with      *)
(* transcripts kept (settings.persistTranscript).                          *)
(*                                                                         *)
(* A handler runs to its next await without interruption.  A task that     *)
(* reads a conversation (select, rename, restore) submits its read from a  *)
(* detached task some time after the click, and goes on with what it read  *)
(* some time after the store answered.  Saves and deletions are submitted  *)
(* by the main actor with the index as it is then.  A file is replaced     *)
(* atomically, but a job replaces two, and the app may be quit in between. *)
(* A stream is one run of the agent and the bubble its reply grows in.     *)
(***************************************************************************)
EXTENDS Integers, Sequences, FiniteSets, SequencesExt, Functions

CONSTANTS
    Convs,      \* ids conversations may get: UUIDs, never drawn twice
    Old,        \* conversations of earlier launches
    NoConv,     \* activeConversationID = nil
    Slots,      \* bound on the tasks in flight
    MaxMsgs,    \* bound on the messages of a behaviour
    MaxQueue,   \* bound on the jobs queued when the user acts
    MaxQuits    \* bound on the quits of the app

ASSUME ConvAssumption == Old \subseteq Convs /\ NoConv \notin Convs

\* What was said in an earlier launch bears the name of its conversation.
ASSUME IdsAssumption == Convs \cap (1..MaxMsgs) = {}

ASSUME BoundAssumption == MaxMsgs \in Nat /\ MaxQueue \in Nat /\ MaxQuits \in Nat

VARIABLES
    restore,    \* where restoreSession is, "down" when the app is not running
    active,     \* activeConversationID
    title,      \* activeTitle
    chat,       \* chat: the messages shown
    convs,      \* conversations: the sidebar, the title of each
    unsaved,    \* unsavedIDs
    sending,    \* sending
    pending,    \* an action waits for the user's approval
    streams,    \* the runs under way, each with its bubble
    task,       \* per slot: a task suspended in a read of the store
    queue,      \* jobs of the store's serial queue not yet finished
    half,       \* the first job has done its file, not yet the index
    files,      \* per id: <id>.json
    index,      \* index.json
    used,       \* ids drawn so far
    home,       \* history, per message: the conversation it was said in
    turns,      \* history: the user's messages, but those lost in a quit
    count,      \* messages so far
    quits,      \* quits so far
    gone,       \* history: conversations deleted, on disk too
    early,      \* history: the user acted before the session was restored
    stale,      \* history: a task acted on a read that was no longer true
    crossed,    \* history: an approved run was started during another run
    cut         \* history: a quit amid a save left a file out of the index

screen == <<active, title, chat, convs, unsaved, pending>>
disk == <<files, index, half>>
store == <<queue, disk>>
said == <<home, turns, count>>
flags == <<early, stale, crossed, cut>>
past == <<said, gone, quits, flags>>
vars == <<restore, screen, sending, streams, task, store, used, past>>

Titles == {"New chat", "auto", "named"}
MsgIds == (1..MaxMsgs) \cup Old
Msg == [id : MsgIds, kind : {"user", "reply", "note"}]
Conversation == [title : Titles, msgs : Seq(Msg)]
NoFile == [title |-> "New chat", msgs |-> <<>>]
NoIndex == [c \in {} |-> "New chat"]
Index == UNION {[S -> Titles] : S \in SUBSET Convs}

Kinds == {"none", "select", "rename", "index", "recent", "import"}
Task == [kind : Kinds, at : {"none", "asked", "queued", "read"}, conv : Convs \cup {NoConv},
         got : Conversation, index : Index]
NoTask == [kind |-> "none", at |-> "none", conv |-> NoConv, got |-> NoFile, index |-> NoIndex]
Job == [op : {"save", "delete", "load"}, conv : Convs \cup {NoConv},
        new : Conversation, index : Index, slot : Slots \cup {NoConv}]

TypeOK ==
    /\ restore \in {"down", "waiting", "index", "recent", "done"}
    /\ active \in Convs \cup {NoConv}
    /\ title \in Titles
    /\ chat \in Seq(Msg)
    /\ convs \in Index
    /\ unsaved \in SUBSET Convs
    /\ sending \in BOOLEAN
    /\ pending \in BOOLEAN
    /\ streams \in SUBSET [msg : MsgIds, at : {"start", "open", "pended"}]
    /\ task \in [Slots -> Task]
    /\ queue \in Seq(Job)
    /\ \A k \in DOMAIN queue : queue[k].op = "save" => queue[k].new # NoFile
    /\ half \in BOOLEAN
    /\ files \in [Convs -> Conversation]
    /\ index \in Index
    /\ used \in SUBSET Convs
    /\ home \in [MsgIds -> Convs \cup {NoConv}]
    /\ turns \in SUBSET MsgIds
    /\ count \in 0..MaxMsgs
    /\ quits \in 0..MaxQuits
    /\ gone \in SUBSET Convs
    /\ early \in BOOLEAN /\ stale \in BOOLEAN /\ crossed \in BOOLEAN /\ cut \in BOOLEAN

User(m) == [id |-> m, kind |-> "user"]
Reply(m) == [id |-> m, kind |-> "reply"]
Note(m) == [id |-> m, kind |-> "note"]

Init ==
    /\ restore = "waiting"
    /\ active = NoConv
    /\ title = "New chat"
    /\ chat = <<>>
    /\ convs = NoIndex
    /\ unsaved = {}
    /\ sending = FALSE
    /\ pending = FALSE
    /\ streams = {}
    /\ task = [s \in Slots |-> NoTask]
    /\ queue = <<>>
    /\ half = FALSE
    /\ files = [c \in Convs |-> IF c \in Old THEN [title |-> "auto", msgs |-> <<User(c)>>]
                                ELSE NoFile]
    /\ index = [c \in Old |-> "auto"]
    /\ used = Old
    /\ home = [m \in MsgIds |-> IF m \in Old THEN m ELSE NoConv]
    /\ turns = Old
    /\ count = 0
    /\ quits = 0
    /\ gone = {}
    /\ early = FALSE
    /\ stale = FALSE
    /\ crossed = FALSE
    /\ cut = FALSE

Running == restore # "down"
Acts == Running /\ Len(queue) < MaxQueue
Saved == {c \in Convs : files[c] # NoFile}
With(f, c, v) == [x \in DOMAIN f \cup {c} |-> IF x = c THEN v ELSE f[x]]
Without(f, c) == Restrict(f, DOMAIN f \ {c})

-----------------------------------------------------------------------------
(* What handlers do with the screen and the queue *)

SaveJob(c, new, ix) == [op |-> "save", conv |-> c, new |-> new, index |-> ix, slot |-> NoConv]
DeleteJob(c, ix) == [op |-> "delete", conv |-> c, new |-> NoFile, index |-> ix, slot |-> NoConv]
LoadJob(s) == [op |-> "load", conv |-> task[s].conv, new |-> NoFile, index |-> NoIndex,
               slot |-> s]

\* persistActive, the transcript being ms and the title t: an empty one is
\* not saved; one that has no conversation yet gets it now.
PersistActive(ms, t) ==
    IF ms = <<>> THEN title' = t /\ UNCHANGED <<active, convs, unsaved, queue, used>>
    ELSE \E c \in IF active = NoConv THEN Convs \ used ELSE {active} :
           LET name == IF t = "New chat" THEN "auto" ELSE t IN
             /\ active' = c
             /\ title' = name
             /\ used' = used \cup {c}
             /\ unsaved' = unsaved \ {c}
             /\ convs' = With(convs, c, name)
             /\ queue' = Append(queue, SaveJob(c, [title |-> name, msgs |-> ms],
                                               Restrict(convs', DOMAIN convs' \ unsaved')))

\* newChat over a sidebar cs and unsaved tiles us.
Blank(cs, us) ==
    \E c \in Convs \ used :
      /\ active' = c
      /\ title' = "New chat"
      /\ chat' = <<>>
      /\ pending' = FALSE
      /\ used' = used \cup {c}
      /\ unsaved' = us \cup {c}
      /\ convs' = With(cs, c, "New chat")

OnBlank == active # NoConv /\ chat = <<>> /\ active \in unsaved

NewChatOver(cs) ==
    IF sending \/ OnBlank
    THEN convs' = cs /\ UNCHANGED <<active, title, chat, pending, used, unsaved>>
    ELSE Blank(cs, unsaved)

Adopt(c, conv) ==
    /\ active' = c
    /\ title' = conv.title
    /\ chat' = conv.msgs
    /\ pending' = FALSE

Say(m) == home' = [home EXCEPT ![m] = active'] /\ count' = m

\* An action of the user, early when restoreSession has yet to put its result
\* on screen.
Early ==
    /\ early' = (early \/ restore # "done")
    /\ UNCHANGED <<restore, quits, stale, crossed, cut>>

-----------------------------------------------------------------------------
(* A turn: send, and the stream it starts *)

SendUnsaved ==
    /\ Acts
    /\ ~sending
    /\ active # NoConv
    /\ count + 2 <= MaxMsgs
    /\ LET m == count + 1 IN
         /\ chat' = Append(chat, User(m))
         /\ home' = [home EXCEPT ![m] = active, ![m + 1] = active]
         /\ turns' = turns \cup {m}
         /\ count' = m + 1
         /\ streams' = streams \cup {[msg |-> m + 1, at |-> "start"]}
    /\ sending' = TRUE
    /\ Early
    /\ UNCHANGED <<active, title, convs, unsaved, pending, task, store, used, gone>>

Send ==
    /\ Acts
    /\ ~sending
    /\ count + 2 <= MaxMsgs
    /\ LET m == count + 1 IN
         /\ chat' = Append(chat, User(m))
         /\ PersistActive(chat', IF title = "New chat" THEN "auto" ELSE title)
         /\ home' = [home EXCEPT ![m] = active', ![m + 1] = active']
         /\ turns' = turns \cup {m}
         /\ count' = m + 1
         /\ streams' = streams \cup {[msg |-> m + 1, at |-> "start"]}
    /\ sending' = TRUE
    /\ Early
    /\ UNCHANGED <<pending, task, disk, gone>>

\* postAgent begins: the empty bubble is appended.
OpenStream(s) ==
    /\ s.at = "start"
    /\ chat' = Append(chat, Reply(s.msg))
    /\ streams' = (streams \ {s}) \cup {[s EXCEPT !.at = "open"]}
    /\ UNCHANGED <<restore, active, title, convs, unsaved, pending, sending, task, store,
                   used, past>>

\* handleSSE, "done" with pending_approval: the bubble goes, the sheet comes.
\* A frame whose bubble is not on screen is dropped.
StreamPends(s) ==
    /\ s.at = "open"
    /\ \E i \in DOMAIN chat : chat[i] = Reply(s.msg) /\ chat' = RemoveAt(chat, i)
    /\ pending' = TRUE
    /\ streams' = (streams \ {s}) \cup {[s EXCEPT !.at = "pended"]}
    /\ UNCHANGED <<restore, active, title, convs, unsaved, sending, task, store, used,
                   past>>

\* The stream is over, with an answer, an error or a lost connection: the
\* text is final, input is enabled again and the transcript is saved.
CloseStream(s) ==
    /\ s.at \in {"open", "pended"}
    /\ sending' = FALSE
    /\ streams' = streams \ {s}
    /\ PersistActive(chat, title)
    /\ UNCHANGED <<restore, chat, pending, task, disk, past>>

\* mintAndRun, after the user authenticated: the run is repeated.  Nothing
\* looks at `sending`.
Approve ==
    /\ Running
    /\ pending
    /\ count < MaxMsgs
    /\ pending' = FALSE
    /\ sending' = TRUE
    /\ streams' = streams \cup {[msg |-> count + 1, at |-> "start"]}
    /\ home' = [home EXCEPT ![count + 1] = active]
    /\ count' = count + 1
    /\ crossed' = (crossed \/ streams # {})
    /\ UNCHANGED <<restore, active, title, chat, convs, unsaved, task, store, used, turns,
                   gone, quits, early, stale, cut>>

\* deny, or an authentication that was cancelled.
Deny ==
    /\ Acts
    /\ pending
    /\ count < MaxMsgs
    /\ chat' = Append(chat, Note(count + 1))
    /\ pending' = FALSE
    /\ PersistActive(chat', title)
    /\ Say(count + 1)
    /\ UNCHANGED <<restore, sending, streams, task, disk, turns, gone, quits, flags>>

-----------------------------------------------------------------------------
(* Tasks that wait for a read *)

Asked(kind, c, ix) ==
    [kind |-> kind, at |-> "asked", conv |-> c, got |-> NoFile, index |-> ix]

Ask(kind, c, ix) ==
    \E s \in Slots : task[s] = NoTask /\ task' = [task EXCEPT ![s] = Asked(kind, c, ix)]

\* The detached task enters queue.sync.
Submit(s) ==
    /\ task[s].at = "asked"
    /\ task[s].kind # "import"
    /\ queue' = Append(queue, LoadJob(s))
    /\ task' = [task EXCEPT ![s].at = "queued"]
    /\ UNCHANGED <<restore, screen, sending, streams, disk, used, past>>

\* What <c>.json will hold when the queue is empty.
Latest(c) ==
    LET ks == {k \in DOMAIN queue : queue[k].op # "load" /\ queue[k].conv = c}
    IN  IF ks = {} THEN files[c] ELSE queue[CHOOSE k \in ks : \A j \in ks : j <= k].new

Answered(s, kind) == task[s].at = "read" /\ task[s].kind = kind

Import ==
    /\ Acts
    /\ count + 2 <= MaxMsgs
    /\ chat' = Append(chat, User(count + 1))
    /\ PersistActive(chat', title)
    /\ Say(count + 1)
    /\ turns' = turns \cup {count + 1}
    /\ Ask("import", NoConv, NoIndex)
    /\ Early
    /\ UNCHANGED <<pending, sending, streams, disk, gone>>

\* The core answered: told in whatever conversation is on screen then.
ImportEnds(s) ==
    /\ task[s].kind = "import"
    /\ count < MaxMsgs
    /\ chat' = Append(chat, Note(count + 1))
    /\ PersistActive(chat', title)
    /\ Say(count + 1)
    /\ task' = [task EXCEPT ![s] = NoTask]
    /\ UNCHANGED <<restore, pending, sending, streams, disk, turns, gone, quits, flags>>

-----------------------------------------------------------------------------
(* Sidebar *)

NewChat ==
    /\ Running
    /\ ~sending
    /\ ~OnBlank
    /\ Blank(convs, unsaved)
    /\ Early
    /\ UNCHANGED <<sending, streams, task, store, said, gone>>

\* The blank tile that is left is dropped at once, the screen stays until the
\* read is answered.
Select(c) ==
    /\ Acts
    /\ ~sending
    /\ c \in DOMAIN convs \ {active}
    /\ convs' = IF OnBlank THEN Without(convs, active) ELSE convs
    /\ unsaved' = IF OnBlank THEN unsaved \ {active} ELSE unsaved
    /\ Ask("select", c, NoIndex)
    /\ Early
    /\ UNCHANGED <<active, title, chat, pending, sending, streams, store, used, said, gone>>

SelectEndsUnguarded(s) ==
    /\ Answered(s, "select")
    /\ LET c == task[s].conv
           got == task[s].got
       IN  IF got = NoFile
           THEN NewChatOver(convs) /\ UNCHANGED stale
           ELSE /\ Adopt(c, got)
                /\ stale' = (stale \/ got # Latest(c))
                /\ UNCHANGED <<convs, unsaved, used>>
    /\ task' = [task EXCEPT ![s] = NoTask]
    /\ UNCHANGED <<restore, sending, streams, store, said, gone, quits, early, crossed,
                   cut>>

\* A turn that was begun in the meantime is not disturbed.
SelectEnds(s) ==
    /\ Answered(s, "select")
    /\ LET c == task[s].conv
           got == task[s].got
       IN  IF sending
           THEN UNCHANGED <<screen, used, stale>>
           ELSE IF got = NoFile
           THEN NewChatOver(convs) /\ UNCHANGED stale
           ELSE /\ Adopt(c, got)
                /\ stale' = (stale \/ got # Latest(c))
                /\ UNCHANGED <<convs, unsaved, used>>
    /\ task' = [task EXCEPT ![s] = NoTask]
    /\ UNCHANGED <<restore, sending, streams, store, said, gone, quits, early, crossed,
                   cut>>

\* The conversation on screen is saved from the screen, mid-stream too.
RenameActive ==
    /\ Acts
    /\ active \in DOMAIN convs
    /\ PersistActive(chat, "named")
    /\ Early
    /\ UNCHANGED <<chat, pending, sending, streams, task, disk, said, gone>>

RenameOtherUnlisted(c) ==
    /\ Acts
    /\ ~sending
    /\ c \in DOMAIN convs \ {active}
    /\ Ask("rename", c, convs)
    /\ Early
    /\ UNCHANGED <<screen, sending, streams, store, used, said, gone>>

\* Another one is read, retitled and saved with the index as it was at the
\* click.  (The row is disabled while a turn is under way.)
RenameOther(c) ==
    /\ Acts
    /\ ~sending
    /\ c \in DOMAIN convs \ {active}
    /\ convs' = [convs EXCEPT ![c] = "named"]
    /\ Ask("rename", c, convs')
    /\ Early
    /\ UNCHANGED <<active, title, chat, unsaved, pending, sending, streams, store, used,
                   said, gone>>

Shown == Restrict(convs, DOMAIN convs \ unsaved)

RenameEnds(s) ==
    /\ Answered(s, "rename")
    /\ LET c == task[s].conv
           got == task[s].got
       IN  IF got = NoFile
           THEN UNCHANGED <<queue, stale>>
           ELSE /\ queue' = Append(queue, SaveJob(c, [got EXCEPT !.title = "named"],
                                                  task[s].index))
                /\ stale' = (stale \/ got # Latest(c) \/ task[s].index # Shown \/ c = active)
    /\ task' = [task EXCEPT ![s] = NoTask]
    /\ UNCHANGED <<restore, screen, sending, streams, disk, used, said, gone, quits, early,
                   crossed, cut>>

DeleteKeepingScreen(c) ==
    /\ Acts
    /\ ~sending
    /\ c \in DOMAIN convs
    /\ LET left == Without(convs, c)
           tiles == unsaved \ {c}
       IN  /\ queue' = Append(queue, DeleteJob(c, Restrict(left, DOMAIN left \ tiles)))
           /\ convs' = left
           /\ unsaved' = tiles
           /\ IF c = active THEN \E next \in DOMAIN left : Ask("select", next, NoIndex)
              ELSE UNCHANGED task
    /\ gone' = gone \cup {c}
    /\ Early
    /\ UNCHANGED <<active, title, chat, pending, sending, streams, disk, used, said>>

\* After the active one is deleted, another one is selected (the newest; any
\* one here), or a new chat begins.
Delete(c) ==
    /\ Acts
    /\ ~sending
    /\ c \in DOMAIN convs
    /\ LET left == Without(convs, c)
           tiles == unsaved \ {c}
       IN  /\ queue' = Append(queue, DeleteJob(c, Restrict(left, DOMAIN left \ tiles)))
           /\ \/ /\ c # active
                 /\ convs' = left
                 /\ unsaved' = tiles
                 /\ UNCHANGED <<active, title, chat, pending, task, used>>
              \/ /\ c = active
                 /\ left # NoIndex
                 /\ active' = NoConv
                 /\ chat' = <<>>
                 /\ convs' = left
                 /\ unsaved' = tiles
                 /\ \E next \in DOMAIN left : Ask("select", next, NoIndex)
                 /\ UNCHANGED <<title, pending, used>>
              \/ /\ c = active
                 /\ left = NoIndex
                 /\ Blank(left, tiles)
                 /\ UNCHANGED task
    /\ gone' = gone \cup {c}
    /\ Early
    /\ UNCHANGED <<sending, streams, disk, said>>

-----------------------------------------------------------------------------
(* restoreSession, started by the first successful poll *)

RestoreBegins ==
    /\ restore = "waiting"
    /\ restore' = "index"
    /\ Ask("index", NoConv, NoIndex)
    /\ UNCHANGED <<screen, sending, streams, store, used, past>>

\* The sidebar is replaced by what was read; when that is nothing a new chat begins.
RestoreIndex(s) ==
    /\ Answered(s, "index")
    /\ LET ix == task[s].index IN
         \/ /\ ix # NoIndex
            /\ convs' = ix
            /\ \E c \in DOMAIN ix : task' = [task EXCEPT ![s] = Asked("recent", c, NoIndex)]
            /\ restore' = "recent"
            /\ UNCHANGED <<active, title, chat, unsaved, pending, used>>
         \/ /\ ix = NoIndex
            /\ NewChatOver(NoIndex)
            /\ task' = [task EXCEPT ![s] = NoTask]
            /\ restore' = "done"
    /\ UNCHANGED <<sending, streams, store, past>>

\* Adopted whatever is on screen by now.
RestoreRecent(s) ==
    /\ Answered(s, "recent")
    /\ restore' = "done"
    /\ task' = [task EXCEPT ![s] = NoTask]
    /\ IF task[s].got = NoFile
       THEN NewChatOver(convs)
       ELSE Adopt(task[s].conv, task[s].got) /\ UNCHANGED <<convs, unsaved, used>>
    /\ UNCHANGED <<sending, streams, store, past>>

-----------------------------------------------------------------------------
(* The store's queue *)

Job1 == Head(queue)

\* The file part of a save or of a deletion: atomic, as is the index part.
JobFile ==
    /\ queue # <<>>
    /\ ~half
    /\ Job1.op # "load"
    /\ files' = [files EXCEPT ![Job1.conv] = Job1.new]
    /\ half' = TRUE
    /\ UNCHANGED <<restore, screen, sending, streams, task, queue, index, used, past>>

JobIndex ==
    /\ half
    /\ index' = Job1.index
    /\ half' = FALSE
    /\ queue' = Tail(queue)
    /\ UNCHANGED <<restore, screen, sending, streams, task, files, used, past>>

\* loadIndex: an index that names a missing file, or nothing, is rebuilt.
IndexRead ==
    IF index # NoIndex /\ DOMAIN index \subseteq Saved THEN index
    ELSE [c \in Saved |-> files[c].title]

JobLoad ==
    /\ queue # <<>>
    /\ ~half
    /\ Job1.op = "load"
    /\ LET s == Job1.slot IN
         IF task[s].kind = "index"
         THEN /\ task' = [task EXCEPT ![s].at = "read", ![s].index = IndexRead]
              /\ index' = IndexRead
         ELSE /\ task' = [task EXCEPT ![s].at = "read", ![s].got = files[task[s].conv]]
              /\ UNCHANGED index
    /\ queue' = Tail(queue)
    /\ UNCHANGED <<restore, screen, sending, streams, files, half, used, past>>

-----------------------------------------------------------------------------
(* The app is quit at any instant, and launched again *)

\* What was not on disk by then is forgotten, deletions included.
Quit ==
    /\ Running
    /\ quits < MaxQuits
    /\ quits' = quits + 1
    /\ restore' = "down"
    /\ active' = NoConv
    /\ title' = "New chat"
    /\ chat' = <<>>
    /\ convs' = NoIndex
    /\ unsaved' = {}
    /\ sending' = FALSE
    /\ pending' = FALSE
    /\ streams' = {}
    /\ task' = [s \in Slots |-> NoTask]
    /\ queue' = <<>>
    /\ half' = FALSE
    /\ turns' = {m \in turns : \E c \in Convs : Contains(files[c].msgs, User(m))}
    /\ gone' = gone \ Saved
    /\ cut' = (cut \/ (half /\ DOMAIN IndexRead # Saved))
    /\ UNCHANGED <<files, index, used, home, count, early, stale, crossed>>

Launch ==
    /\ restore = "down"
    /\ restore' = "waiting"
    /\ UNCHANGED <<screen, sending, streams, task, store, used, past>>

Store == JobFile \/ JobIndex \/ JobLoad

Next ==
    \/ Send
    \/ \E s \in streams : OpenStream(s) \/ StreamPends(s) \/ CloseStream(s)
    \/ Approve
    \/ Deny
    \/ Import
    \/ NewChat
    \/ RenameActive
    \/ \E c \in Convs : Select(c) \/ RenameOther(c) \/ Delete(c)
    \/ RestoreBegins
    \/ \E s \in Slots : \/ Submit(s)
                        \/ ImportEnds(s)
                        \/ SelectEnds(s)
                        \/ RenameEnds(s)
                        \/ RestoreIndex(s)
                        \/ RestoreRecent(s)
    \/ Store
    \/ Quit
    \/ Launch

Spec == Init /\ [][Next]_vars

-----------------------------------------------------------------------------
(* Properties *)

\* Nothing of what this module shows to go wrong went wrong: see the flags.
Orderly == ~early /\ ~stale /\ ~crossed /\ ~cut

Drained == queue = <<>>
Quiet == Drained /\ streams = {} /\ \A s \in Slots : task[s] = NoTask

\* AppModel.swift:558, "never lose a user turn": once the queue is empty each
\* turn is in the file of the conversation it was said in, also when the reply
\* is interrupted, the conversation renamed or left, and the app quit.
TurnsKept ==
    Drained /\ Orderly =>
      \A m \in turns : home[m] \notin gone => Contains(files[home[m]].msgs, User(m))

\* What was deleted stays deleted, over every save that was queued or comes later.
DeletedStay ==
    Drained /\ Orderly => gone \cap Saved = {}

\* At rest the next launch will list exactly the files there are, with their
\* titles unless a quit came amid a rename, and the sidebar shows exactly what
\* it will list and the blank tiles.
SidebarMatchesDisk ==
    Quiet /\ Orderly =>
      /\ DOMAIN IndexRead = Saved
      /\ quits = 0 => \A c \in Saved : IndexRead[c] = files[c].title
      /\ restore = "done" => Shown = IndexRead

\* A streamed reply is only ever in the conversation whose turn it answers.
\* (An action approved after its conversation was deleted has none.)
RepliesStay ==
    Orderly => \A m \in MsgIds, c \in Convs :
      Contains(files[c].msgs, Reply(m)) => home[m] \in {c, NoConv}

\* AppModel.swift:278-279: `chat` is not swapped under a stream, which "would
\* drop the streamed reply into the wrong conversation".
ChatKeptMidStream ==
    \A s \in streams : s.at = "open" => Contains(chat, Reply(s.msg))

\* ConversationStore.swift:14-15: "no resurrection of a just-deleted file by a
\* late save".
NoResurrection == Drained => gone \cap Saved = {}

=============================================================================
