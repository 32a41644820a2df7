# GINEXUS: specifications, model checks and proofs

GINEXUS is a local assistant: a macOS app (Swift) and a core process (Rust) that
talks to a model server. The app spawns the core, sends it chat and agent
requests over a Unix socket, asks the user to approve irreversible tool calls,
and keeps the transcripts. The core runs the agent loop, the kill switch, the
audit log, long-term memory and scheduled tasks.

This directory holds TLA+ modules of the parts of that system whose correctness
depends on the order of steps, TLC runs over small instances, and proofs checked
by TLAPS. Paths below are relative to `src/`; `crates/` is `core/crates/`,
`GinexusApp/` and `GinexusCore/` are under `app/Sources/`.

## 1. Inventory

| Component | State | Operations | Hard part | What makes it correct |
|---|---|---|---|---|
| Kill switch, `crates/ginexus-security/src/killswitch.rs`, routes in `crates/ginexus-server/src/main.rs` | tier in memory behind a Mutex, a state file | engage, reset, guard, rehydrate | crash between truncate and write; errors ignored; guard read by other tasks | an acknowledged panic stays in force; nothing is admitted meanwhile; only a reset lowers the tier |
| Approval verifier, `crates/ginexus-security/src/approval.rs`, `GinexusCore/Approval.swift` | burnt nonces (memory only), boot id | mint (app), verify and burn | concurrent and retried requests, restarts, clocks | one approval runs exactly the approved call, once |
| Agent loop, `crates/ginexus-agent/src/loop_.rs`, `tools.rs`; HITL policy, `hitl.rs` | per run: messages, iteration, synthetic budget, usage; worker pools | model turn, gate, run a tool, delegate, deep research, council | fan-out into concurrent workers, pending approvals, budgets | gated calls need approval in every mode; workers stay read-only; usage adds up; runs end |
| Audit log, `crates/ginexus-security/src/audit.rs`, boot in `main.rs` | `audit.jsonl`, cached head, `audit.head` anchor | record, verify, anchor, check at boot | two writes per record, failing writes, lost tails, key changes | the chain never forks; no false alarm; what the anchor covers stays |
| Scheduler and heartbeat, `crates/ginexus-server/src/scheduler.rs`, `main.rs` 969-996 | vector behind a Mutex, `schedules.json`, the heartbeat's batch | add, remove, take_due, record_result, tick | lock released during a run, saves that fail, crashes, integer width | the file follows memory, runs are counted, the cadence floor holds, due tasks run |
| Conversations, `GinexusApp/AppModel.swift`, `GinexusCore/ConversationStore.swift` | active transcript, sidebar, serial queue, files and index | send, stream, select, new, rename, delete, import, restore, quit | tasks suspended in a disk read while the main actor goes on | no turn is lost, deleted stays deleted, replies stay in their conversation |
| Approval sheet, `AppModel.swift` 1108-1162 | the pending action, open prompts | pend, authenticate, mint and re-run, deny | the biometric callback acts on what is pending then; prompts overlap | an action is approved once, never after it was refused; what was shown is what runs |
| App session, `AppModel.swift` 369-398, 511-522, 624-648, `SpineController.swift` | connected, boot id, previous boot id | poll, restart the core, fetch the boot id | old and new core overlap; polls overlap | the app ends up with the newest core; approvals are minted for it |
| Stream handler, `main.rs` 541-600, 727-807 | an unbounded channel | frames, drain, done | the join of runner and drain, a client that leaves | frames in order and whole, the handler ends, the run is recorded |
| Unix-socket client, `GinexusCore/UDSClient.swift`; its other end, `main.rs` 371-455 | a connection with a buffer each way | connect with retries, write, read in parts, take an answer or events apart | a read may end anywhere, either side may stop | the handler runs on the whole body, what is handed to the app is what was sent, every call returns |
| Memory, `crates/ginexus-memory/` | core blocks behind a Mutex with their file, recall log, vectors | append, search, set block, consolidate, import | unlocked appends of two writes, short embedding batches, a cut save | facts reported as kept are found; vectors belong to their texts; blocks are kept |
| Model gateway, `crates/ginexus-gateway/` | roster | route, select, complete, stream, embed | thoughts cut by chunks, order of embeddings | what was streamed is the answer; vectors come back in order |
| Sanitizer, `crates/ginexus-sanitize/` | a mapping per import | rules in order, placeholders | one mapping over many messages, a rule that gives up | what a rule matches before it gives up is replaced and nothing else; two placeholders are equal exactly for one value of one category |
| App tool bridge, `crates/ginexus-agent/src/app_tools.rs`, `AppToolHost.swift` | a second socket | one call per connection, handled serially | time-out while the action goes on | at most one action per call, and success means it was done |
| MCP client, `crates/ginexus-mcp/` | a child process behind a Mutex | request, notify, import | a silent child, stray and late lines | answers match requests |
| Skills, `crates/ginexus-skills/` | none | scan, run a command with a timeout | process groups, pipes that outlive the command | no skill replaces a tool; calls return |
| Tool registry, `main.rs` 172-303 | name to tool | fill at boot | the order of sources | only what the core vouches for runs without approval |
| Notes, `crates/ginexus-agent/src/obsidian.rs` | files of the vault | write, append | whole-file rewrites, the operator edits too | an appended text stays |
| Documents, `crates/ginexus-agent/src/documents.rs` | none | wrap, place, number | long words, page breaks, characters without a code | every character on a page, or its blank, inside the margins |
| Web and media requests, settings, views, media sidecar | none that outlives a call, or data only | I/O, parsing, layout | none of the above | outside these models |

How they interact. A connection is a task of the core. The agent, stream and
chat handlers first ask the kill switch, then run an agent loop that calls the
approval verifier for each gated call; the heartbeat asks the kill switch and
runs agent loops of its own over the read-only registry; all of them record in
the audit log. The app mints approvals for the boot id it last fetched. The core
may be terminated at any instant (`SpineController.shutdown`); what survives is
`killswitch.state`, `schedules.json`, `audit.jsonl`, `audit.head` and the memory
files.

The hazards, each at its line with the properties that cover it, are in
`PROJECT.json`.

## 2. Plan

| # | Modules | State |
|---|---|---|
| 1 | `KillSwitch`, `KillSwitchProofs` | done |
| 2 | `ApprovalVerifier`, `SingleUseApproval` (abstract), `AgentLoop` (composes the verifier with any number of runs and workers), `AgentLoopProofs` | done |
| 3 | `AuditLog`, `AuditLogProofs` | done |
| 4 | `Scheduler` with the heartbeat, `SchedulerProofs` | done |
| 5 | `Conversations`: the main actor over the serial store; `ConversationsProofs` | done |
| 6 | `AppSession`: polling, boot ids, restarting the core, prompts and approvals; `AppSessionProofs` | done |
| 7 | `ModelGateway`, `AgentStream`: choosing a model, what of an answer is streamed, the channel and its drain; `CoreServicesProofs` | done |
| 8 | `Sanitizer`, `MemoryStore`: imports, appends, search, core blocks; `StorageProofs` | done |
| 9 | `ToolHost`: the registry at boot, skills, MCP, the bridge; `CoreServicesProofs` | done |
| 10 | `Vault`, `Documents` (proofs in `StorageProofs`) | done |
| 11 | `Connection`: one call over the socket; `CoreServicesProofs` | done |
| 12 | the core as one system: kill switch, agent loop and heartbeat composed over one run directory that two cores share for a moment | planned |

The order follows what the system promises its user: first that panic stops it
and that nothing irreversible runs unapproved, then that its records, its
schedules and its conversations survive, then the rest.

## 3. Modules and the code

The `map` of `PROJECT.json` gives the lines of every definition. In each module
a definition whose comment is missing and whose name is that of another one with
a suffix (`BurnNothing`, `EngageAnyTier`, `RecordUnlocked`, ...) is a plausible
bug in that definition, used to show that a property can tell the difference; no
specification uses it.

**KillSwitch.** `mem` is `KillSwitch.engaged` with its tier, `file` the state
file, `op` the file operation of whoever holds the Mutex. `engage` is
`EngageRefused` or `Engage` followed by `PersistTruncate` and `PersistWrite`,
since `std::fs::write` truncates and then writes and the process may stop in
between; both may fail, and the code ignores that. `ResetVerified` and `Reset`
are two steps because the handler verifies the token before it takes the Mutex.
`Admit` is the guard at the head of the chat, agent and stream routes; the
admitted work never looks again. `acked` and `faulted` are history.

**ApprovalVerifier, SingleUseApproval, AgentLoop.** A call is action, arguments
and target together; a token is what its HMAC covers, so it verifies exactly
when it was minted (the HMAC and the canonical JSON are ideal). A request may
present tokens with a call, nonce or boot that its HMAC does not cover (`Presented`).
`Verifies` and
`Burn` are one step under one lock. `AgentLoop` gives every request a loop
(`Begin`, `ModelTurn`, then one action per kind of call) and, during `delegate`
and `deep_research`, workers that interleave freely. What the model answers is
any turn of `Turns`. `Restart` replaces the core: new boot id, no burnt nonces,
no runs. `SingleUseApproval` is the promise with none of this, and
`ImplementsPromise` the refinement. `Total` adds up what the workers of a
fan-out spent, the way the roll-up after the join does.

**AuditLog.** A line is an entry or `Garbled`. `record` is `Record` (take the
Mutex, read the head), `WriteLine` (the text) and `WriteNewline`, for `writeln!`
on an unbuffered `File` makes two writes. Boot is `AuditBoot`, `TruncateAnchor`,
`WriteAnchor`, and then the first record. Hashes are numbers, so a chain is
intact exactly when the predecessors match. `LoseTail` loses the unsynced end of
the file, at any byte, while the core is down. A write or an end that stops within a
character leaves a `Torn` line; as long as that is there `read_to_string` reads
nothing (`Readable`), so the log counts as absent: `verify` without a head answers
true, the chain goes on from genesis, and only an anchor makes the boot refuse. A line
made of two appends that is cut back to the first of them is not modelled: it would be
an entry again.

**Scheduler.** `writing` is the save in progress under the store's Mutex, `hb` the
heartbeat: asleep, having passed the kill switch, between runs with the rest of
its batch, or in a run (without the Mutex). `TakeDue` takes what is due at one
instant (`fires`) and `StartRun` begins a run when those before it are done
(`starts`): `FloorKept` has the floor for the first, and for the second that of three
runs the last begins a floor after the first, since two may follow each other closely.
Times and cadences are on one scale, that of the code's milliseconds; the clock is not
set back. `Wrapped` is the integer arithmetic of a release build at `Width` bits, from
`-Half` up; `every_secs` has no upper limit (`scheduler.rs:57`), and what one that
overflows does is modelled and left out of `FloorKept` and `DueIsTaken` (`Fits`). `Picked` is what `retain`
and a loop over due schedules keep, in their order. `saveFailed`
says that the last save failed, `unsaved` that the core stopped with a save failed or
under way; the file may then be behind for good, so that the properties say nothing
more and the run keeps time, schedules and switch as they are from there on.

**Conversations.** The main actor's handlers are atomic up to their `await`. A
task suspended in a read occupies a slot: asked (its detached task has not run
yet), queued in the serial queue, read. A job of the queue is two atomic file
replacements (`JobFile`, `JobIndex`). A message is its number and kind; a stream
is a run of the agent with the number of its bubble. `streaming` text is not
told from final text: `CloseStream` stands for the final frame and the end of
the stream. Dates are left out: "the newest conversation" is any conversation.
Transcripts are kept (the setting), and the disk does not fail.

The flags of `Conversations` name what the code does not guard against, found by
checking without them: `early`, the user acts before `restoreSession` is done;
`stale`, a task acts on a conversation or an index that changed since it read or
copied it; `crossed`, a run is approved while another one streams (`mintAndRun`
does not look at `sending`); `cut`, a quit between a transcript and the index
leaves a new conversation out of an index that is not rebuilt. The passing run
says that nothing else goes wrong. Once a flag is up its properties say nothing
more, so the run is constrained to `Orderly` states.

**AppSession.** A core is its number, which stands for the token, the approval
key and the boot id it was started with. `socket` is the core the path leads to.
A poll goes through `PollStart`, `HealthAnswered`, `HealthSeen`, `FetchAnswered`
and `FetchSeen`, one per side of an `await`; several are under way at once, since
the timer fires every second and a poll may take longer. `RestartCore` replaces
the core without waiting for the old one (`Dies`). `Send`, `RunPends` and
`StreamCloses` are the runs as far as approval is concerned; `Approve` opens a
prompt, `PromptPassed` and `PromptFailed` are its callback, and `mintAndRun`
takes what is pending at that time. Two flags name what `pollHealth` does not
guard against: `stale`, a poll that asked a core for its boot id before a restart
and stores it afterwards; `hasty`, a core that was replaced before it bound the
socket and unlinks the path of its successor. Attaching to a core that somebody
else started (no approval key, so nothing can be minted) is left out.

**ModelGateway, AgentStream.** `ModelGateway` has operators only: `Route`,
`Select`, `Visible` (`visible_content`), `Realign`, `EmbedChunk`. `AgentStream`
is one stream: the runner turns lines of the model (`TextDelta`, `ToolDelta`)
into frames, calls tools, and pushes the final frame; the drain writes frames
until the final one; the client may leave. `shown` is the text in the app's bubble once
it has read what was pushed (`Bubble`, `handleSSE`). The two tags of a thought are two atoms
each, so a chunk may end in the middle of one. `emitted` counts bytes, and one atom
has two: where `&vis[emitted_len..]` begins inside it the slice panics (`TextPanics`)
and the task of the connection unwinds, without a final frame and without an entry in
the audit log. `stray` marks the two cases in which the app shows text that is no part
of the answer (below); the first of them is the only way to that panic. `PullLine` and
its neighbours are `POST /v1/models/pull`, which has the same two futures.

**Connection.** A socket buffer is a sequence of at most `Room` atoms. An atom is a
piece of text the code looks at as a whole; the blank line that ends a header is
two of them and a line of an event is its text and its newline, so that a read of
any length may end inside either. `caller` and `server` are how far the two sides
have come. `header` says whether the header of a stream is still `open`, was
completed by the latest read, or is `past`: `stream` looks at what came with the
header only after another read, so a stream that comes in one piece with its header
is dropped. `ExchangeWhole` leaves that case out and `events_lost` shows it.
`MAX_BODY` is `MaxBody`; a body that was cut, which takes an app that quits, is an
empty object to the handler. The limit on the header's length is left out, for
this client's headers never come near it.

**Sanitizer, MemoryStore.** A text is a sequence of segments, each of a kind that
says which rules match it; the vector of a text is the text itself, so that a
vector that went astray shows. `remember` is `Start`, `WriteText` and
`WriteNewline` without a lock; `append_facts` is one write, which may be cut
short; `set_block` takes the Mutex and is `PutBlock`, `TruncateCore`,
`WriteCore`. `Imports` holds every import with every way the embedding server can
answer. A segment of kind `hard` names the rule that exceeds the limit of the regular
expression engine there: this rule leaves the rest of that text as it is (`Reached`),
the others go on.
`Ingested` goes through the messages of an export with `upTo`, one `prep_fact`
after the other, and an export is a non-empty array. A consolidation sets whichever
block the request names. A write cut inside a character leaves `Garbled`, and the log
is then `Unreadable` as a whole. `lost` are texts whose own write failed or that share a line with
another, and `torn` says that a save of the blocks failed or was cut.

**ToolHost.** `BootStep` fills the registry in the order of `main`. A skill's
call has a leader and may have a child, in its process group or in one of its
own. An MCP request and the wait for its answer hold the Mutex; the server
answers in any order, speaks unasked (`ServerSpeaks`), dies, or is mute. What may be
found at boot is any sequence of steps in which the core's own tools come first, as
`main` registers them, under names without a dot (`BootAssumption`). The app
handles the bridge's calls one at a time, and the core gives up after thirty
seconds whether or not the app has acted.

**Vault, Documents.** A note is rewritten whole: read, truncate, write, with the
operator editing in between; `disturbed` are notes on which two of these
overlapped or a rewrite was cut. Any read of an append may fail (`ReadOrEmpty`); the
note is then replaced, and `NotesKept` counts that as such. `Documents` wraps words
with the code's widths, places lines with its leadings and gaps, and numbers the
objects of the file. A word is so many times one character. `given` are the words of
the runs as `Pdf::block` gets them, before anything is split; `Drawn` is what of a line
comes on the page: the fonts have codes for the printable characters of ASCII
(`FontAssumption`) and eight marks, and `pdf_escape` makes any other a blank, so that a
text in another script is a page of blanks. The parsing of inline marks, the markers of
lists and the blanks between words are not modelled.

**MCControl, MCCoreServices.** Components that share no state are checked in one
run each: `part` picks one of them at the start of a behaviour and the others
stay as they are. `AgentLoop` and `Conversations` have runs of their own.

## 4. Runs

| Run | Shows | Bounds and why they are enough |
|---|---|---|
| `control` | kill switch: a restart changes nothing at rest, an acknowledged panic holds, nothing is admitted during one, the tier falls only by a verified reset. Audit log: the chain never forks, a cut append costs at most one other entry, no false alarm, the anchor keeps what it covers. Session: the app ends up connected to the newest core; an action is approved at most once and never after it was refused. Schedules: the store is faithful, runs are counted, the cadence floor holds, due tasks are taken | two connections: a reset racing an engage, an admission racing both, all tiers. Two writers, four entries, three boots, two keys (kept, changed, or changed back): two appends after a cut one, an anchor two boots old. Three cores with two overlapping polls: a second restart before the first was answered. Two actions and two prompts over two cores: both prompts for one action, one for each. Two schedules, a floor of two: a clock of three instants with one crash, failed saves and the switch changing while the heartbeat sleeps, and a clock of five with a cadence that overflows next to one that does not, enough for three runs. In both, schedules are added before the clock moves |
| `nuclear_restart` (violation) | a persist that fails or is cut short leaves an acknowledged nuclear panic off after a restart, against `killswitch.rs:3-4` | one connection |
| `approval_gate` | gated effects are approved, approvals are used once, a burnt one runs, the promise is implemented | two requests, two nonces, two boots, clock 0..1: sharing, retry, expiry, a foreign boot |
| `agent_fanout` | workers are read-only, usage is exact, the budget bounds the cost, runs end | one request, two workers, both modes, two synthetic calls allowed, and turns that ask for more |
| `audit_rotate` (violation) | with the key drawn at each launch no earlier anchor is read, against `main.rs:157` | three keys |
| `scheduler_killswitch` (violation) | a task already taken starts during a panic, against `main.rs:969-971` | two schedules |
| `conversations` | turns are kept, deletions hold, the index fits, replies stay | two old conversations and a new one, one suspended task, three messages, one quit; the queue up to one job when the user acts (two, and two suspended tasks, were checked with fewer messages) |
| `conversations_swap` (violation) | the restored conversation replaces a transcript mid-stream, against `AppModel.swift:278-279` | as above |
| `conversations_late` (violation) | a deleted conversation is saved again by a task that read it before, against `ConversationStore.swift:14-15` | as above |
| `approval_shown` (violation) | the prompt of one action is passed after another has taken its place, and approves the other, against the design document, line 200 | one core, two actions, two prompts |
| `events_lost` (violation) | a stream that comes in the same read as the end of its header is not handed over, against `UDSClient.swift:89-90` | one call, a buffer that holds the header and a short stream |
| `core_services` | streams: frames in order and whole, the text shown is the answer, the handler returns. Memory: what was kept is found, vectors belong, blocks are kept, placeholders are faithful, also after a rule gave up. Tools: the registry is guarded, answers match calls, calls return. Notes stay; lines lie in the margins and show every character or its blank. Calls over the socket are whole and return | a first turn of five atoms and a second of two: a thought with its tags cut anywhere, a stray closing tag with characters of two bytes around it, a tool call, an error. Two callers, three operations of which an import counts as two: two appends between the writes of one, an import of two chunks with one fact too many. Two calls and three boot plans. Two writers and four edits. Three blocks, among them one that fills a page exactly and one that is a line too long. Bodies that are empty, small, at the limit and one over it; buffers that hold less than the largest request and less than a stream; two attempts to connect |

`control`, `core_services`, `audit_rotate` and the runs of `Conversations` do not
check deadlock: their bounds on entries, boots, cores, calls and messages are used
up and nothing has to happen then.

The type invariants (`TypeOK` and its namesakes) are stated in every module with
state and are not among the properties of the runs. Those of the kill switch, the
agent loop, the audit log, the scheduler, the session, the notes, the memory, the
tools and the conversations are proved; the others hold in the state spaces of
`core_services`.

### What the code does besides

Found while modelling, and left out of a property by a flag named in it or simply
not promised anywhere:

- Streaming: a `</think>` whose opening tag was cut or missing hides text that had
  been forwarded, so the bubble and the final answer differ until the final frame
  replaces the bubble (`stray`, `gateway/src/lib.rs:340`). If text of characters of
  several bytes follows, the slice at line 344 may begin inside one: it panics, the
  client gets no final frame and the audit log no entry (`run = "panicked"` in
  `FramesInOrder`).
- Schedules: a cadence that overflows the next run makes a schedule due again at once
  (`Fits`, `scheduler.rs:91`), and two runs of one schedule may follow each other
  within the floor of `scheduler.rs:10` when the first was late.
- Audit log: a write or an end cut inside a character makes the log unreadable; without
  an anchor the next boot verifies it and begins the chain anew from genesis behind it
  (`audit.rs:55`, `audit.rs:101`).
- Socket client: `Content-Length` is not compared with what arrived, so an answer
  cut by a core that stops is taken for a whole one (`died` in `ExchangeWhole`); a
  stream that is refused ends like one without events; writing to a core that has
  closed the connection, as it does on a body over the limit, raises a SIGPIPE that
  nobody handles (`UDSClient.swift:47`).
- Memory: a fact stored without a vector is no longer found by a semantic search
  once another fact has one (`memory/src/lib.rs:175`), although the comment at
  `append_facts` calls it reachable by keyword; an answer of the model that is
  empty overwrites the profile on consolidation. One write cut inside a character makes
  all facts unreadable, for good (`Unreadable`, `memory/src/lib.rs:166`).
- Skills: the timeout does not cover a child that outlives a command which exited
  by itself, or that left the process group; the call waits for its pipes
  (`Unbounded`, `skills/src/lib.rs:297`).
- MCP: a request of the server that carries the awaited id is taken for the answer
  (`OwnWord`); a mute server blocks the boot and every later call (`Unbounded`).
- Bridge: an action may be carried out though its call was reported as failed, and
  a late reply is written to a closed connection, which may end the app by SIGPIPE.
- Notes: an append whose read fails, for whatever reason, replaces the note and reports
  success (`drops`, `obsidian.rs:245`), and two overlapping rewrites keep one of the two
  (`disturbed`).
- Documents: a character the fonts have no code for is drawn as a blank
  (`documents.rs:214`) while the call reports success; an em dash is counted narrower than it is drawn, so that "inside the
  column" holds for the code's widths only (`documents.rs:164`).
- Session: after two quick restarts a poll begun before them may store the boot id
  of a core that is going, and the app stays connected with it (`stale`); a core
  replaced before it bound its socket may take the path from its successor
  (`hasty`).
- Approval: the run repeated after an approval carries the newest grant only
  (`AppModel.swift:1150`), so a task with two gated calls pends again on the first.

Three more consequences of what is modelled, not given a run of their own. A
launcher that kept the audit key would meet a refusal for good: after a crash
inside a record the next one shares its line, and every boot after that ends
with "rollback/tamper" (`cuts` in `NoFalseAlarm`); both launchers of the
repository draw a new key, which avoids that and brings `audit_rotate`.
`schedules.json` is rewritten like the kill switch's file, so a crash inside a
save loses every schedule (`unsaved` in `Scheduler`); and the approval clock is
read once per run (`main.rs:710`), so a token that expires while the model
answers still verifies (`now` in `AgentLoop`).

### Fairness

`AgentLoop` assumes weak fairness of each request and each worker: the runtime
polls every ready task, the model server answers and tools return. A client
that asks again is not assumed. `Scheduler` assumes weak fairness of the
heartbeat and of a save under way: the timer fires, agent runs end (`RunsEnd`),
the file system answers. Nothing is assumed of crashes, ticks of the clock, the
kill switch or the user. `AgentStream` assumes weak fairness of the runner (the
model server's stream ends or breaks, tools return) and of the drain, but not that
a client reads or stays. `ToolHost` assumes that the core's threads go on and that
an MCP server which is not mute answers; nothing of commands, their children or
the app. `AppSession` assumes that the timer fires, that the main actor goes on,
and that a core binds its socket and goes once terminated; nothing of the user.
`Connection` assumes that the client's thread and the tasks of a core that is up
go on; nothing of a core that stops or an app that quits.
`MCControl` and `MCCoreServices` state the same fairness, each condition limited
to its `part`. The other modules state safety only and assume nothing.

## 5. Proofs

`KillSwitchProofs` proves, for any set of connections, `TypeOK` and then
`FileFollowsMemory`, `AckedPanicHolds`, `NoAdmissionDuringPanic` and
`TierMonotonic`. `FileFollowsMemory` speaks of states in which the Mutex is
free, so it is not inductive: the invariant adds what the file and memory are
while `op` is at each of its stages, and that an acknowledged tier is never
above what memory, or after a crash the file, holds unless a persist failed.

`AgentLoopProofs` proves, for any sets of runs, calls, tokens, turns and
workers, that gated effects are approved, approvals are single-use, burnt ones
run, workers are read-only, and that `AgentLoop` implements `SingleUseApproval`.
The invariant relates `seen`, `uses`, the token each run is about to use, and
the boot of every minted token: a nonce used in an earlier boot belongs to a
token of that boot, which no later verifier accepts.

The same module proves `UsageIsExact` and `CostBounded`, which need an invariant of
their own (`CostIInv`): what a request has spent is what its own loop has counted
plus what its workers have counted and not handed over, and what its own loop has counted
is bounded by its turns and by its synthetic calls, each at the widest fan-out.
The sum over the workers is a recursive function; that it is bounded, and changes
with one worker by what that worker adds, is proved by looking at the least worker
for which it would not be.

`AuditLogProofs` proves the four properties of the log for any writers, keys, boots
and entries. The invariant says that the Mutex is held by at most one writer; that
hashes grow along the log, so that a new one is fresh; that a line left open belongs
to a call between its two writes or to a cut append, whose count in `cuts` pays for
the entry it may still cost (`Pledged`); that a log without cuts is a chain whose end
is the cached head; and that the entries an anchor covers stand in front of the
anchored one.

`SchedulerProofs` proves `StoreIsFaithful`, `RunsCounted` and `FloorKept` for any
schedules and any width of the integers. The invariant relates memory, the save in
progress and the file, which after a crash says what memory said; the batch of the
heartbeat; and the history of takes and starts with what `next` of each schedule says of
its latest one. A run begins after it was taken and before the schedule is taken again
but one (`InTurn`), so that three starts have two takes between them. Nothing is assumed
of the cadences; the property itself speaks of those that fit.

`AppSessionProofs` proves `ConsentHolds` for any number of polls, prompts, actions
and cores: the action that waits was neither approved nor refused, and those that were
have waited before; a core tells only the holder of its own token its boot id; and
unless a `stale` poll stored another, the boot id is that of the core whose key the
app holds.

`StorageProofs` is about the notes, the memory and the documents. For a note that is not `disturbed`
at most one call is under way, and what was reported as written is in the file, or,
while the file is truncated, in the body about to be written (`VaultIInv`). In
memory, the types of the pieces say that a vector is that of its text, so that
`VectorsBelong` is carried by types; what has to be shown is that `EmbedMany` returns
one vector per text in the order of the texts, whatever order the server answers in
and whichever chunks fail: `ChunkAligned` for one chunk (an order in which each index
occurs once is a permutation, `OrdersFill`) and `BatchAligned` for their
concatenation. `BlocksKept` needs that a save in progress holds the Mutex;
`RememberedIsFound` that a text which is acknowledged and not `lost` stands alone on
its line.

`PlaceholdersFaithful` is proved for any exports: any messages and any segments. The
mapping is `Numbered`: in a category each entry has a number of its own, none above the
number of entries, so that the next count is new (`MappedKeeps`). `Treated` says what
the rules that have passed make of one segment of the raw text: its placeholder, if one of
them matched it and had not given up before it, and else the segment itself. A pass over a text of
any length (`PassKeeps`), the fourteen passes (`SanitizedKeeps`) and the messages of
an import (`IngestedClean`) each keep this, while the one mapping of the import only
grows, so that what was given out for an early message stays true (`TreatedStays`). Since a
segment has one category at most (`CategoriesAre`), no rule sees what another has replaced.
The attempt showed that the property first said too much: it asked that what is
replaced in one message be replaced in all, which fails for a value behind a segment at
which its rule gives up, and in reach elsewhere. The run has such an export, and the
property says of each segment whether the rule that matches it reaches it.

Its last part is about `Documents`: `LinesInMargins` and `TextComplete`, for any
blocks of any words. The pieces of a word fit the column (`PiecesFit`: the narrowest
column is wider than the widest character of Helvetica at the largest size, which is
what `InputAssumption` takes from the width tables), and `WrapFits` shows of the
recursion over the words that it loses none and that what `wrap_words` adds up is the
width of the line; least counterexamples over the number of words take the place of
induction. Placing keeps the baseline below the last line (`PlaceInv`), and a page
always has room for one line, so that only an empty document has an empty page.
What is drawn followed by what is still to draw is what was given, each character or its
blank (`TextInv`): splitting a word changes how its characters are grouped and not which
they are.
`FileIsWhole` reads the object table: six fixed objects, then two of each page, each
with the number of its place.

`CoreServicesProofs` proves `RegistryGuarded` and `AnswersMatch` for any clients, any
plan of the boot that satisfies `BootAssumption`, any names and any number of calls.
The steps done account for the registry, and until the last of the core's they are
all the core's; whoever holds the MCP client reads, and a line with the current id was
said to it or unasked; the app has been sent each call once and has carried out none
that still waits, but for the first.

The same module proves `FramesInOrder` and `StreamedIsAnswer` for any chunks, lengths,
turns and calls. As long as the drain runs, what was pushed is what the socket has and
the channel behind it; a final frame is the last one and stops the drain
(`FramesInv`). For the text, `VisibleGrows` shows that one more chunk only adds to the
visible text or hides all of it, and never changes a character that was already
forwarded; so as long as nothing forwarded was hidden (`stray`) the bytes counted by
`emitted` end where a character does (`CutAt`), no slice panics, the suffix that
`Forward` sends is what the bubble still lacks, and in a turn without calls the bubble is the visible text (`TextInv`). Without an
induction over the text: `Visible` asks where the last closing tag ends, and `LastEnd`
finds that place as the greatest element of a bounded set of numbers.

It also proves `ExchangeWhole` for any room of the buffers, any bodies and any number
of frames (`ConnIInv`). The invariant joins what one side has put together, what is in
the buffer and what is yet to be written: until its header is read that is the whole
request, or the whole answer, and afterwards the body. Of a stream it is what is left of its
`Bytes` from some place on, and `Position` says which: between two frames, or inside
one that `frame` holds the first lines of. `Bytes` is not a fold but a function of
the place: a named frame has five bytes and the end mark, which is last, three, so the
byte at p is one of frame p / 5 (`BytesAre`), and a frame pushed adds its `Wire`
(`BytesGrow`). A call that has read all there is without a newline left has
then taken the stream apart to its end (`EndSeen`).

`ConversationsProofs` proves `TurnsKept`, `DeletedStay`, `RepliesStay` and
`SidebarMatchesDisk` for any conversations, tasks, messages and queue. The first two speak of the files when the
queue is empty; the invariant (`ConvIInv`) speaks of `Latest(c)`, the file of c after
every job of the queue, which no step of the store changes and every other step
changes for one conversation at most. A turn is in `Latest` of its conversation unless
that was deleted, and on screen while its conversation is; a deleted conversation is
not on screen and its `Latest` is empty; a message that is on screen, in a file, in a
job or in what a task has read was said where it stands, which is what keeps a turn in
one conversation over a quit; one run at most is under way, and it writes to the
screen it was begun on. Until the session is restored nothing is written
(`RestoreInv`), so that what `restoreSession` reads is still true when it is shown.
What is said of turns holds while `Orderly` does; types and the queue (`JobsInv`,
`HalfInv`) always do. `IdsAssumption` says that numbers of new messages are not names
of conversations.

`SidebarMatchesDisk` speaks of the app at rest; a second invariant (`SideInv`, while
`Orderly`) says what holds on the way. The index of each job that waits names the
files there are once that job is done, and the one on disk those there are now, but
between the two writes of a job (`IndexesInv`). Once the session is restored the
sidebar lists the conversations that will have a file when the queue is empty, and
the last index to be written has its titles (`SidebarInv`), but for one that is being
renamed: its title changes in the sidebar at the click, on disk when the read is
answered. A rename that is under way will find its file (`RenameInv`), for a file
that was there when the read was queued is not taken away by the jobs before it
unless the conversation left the sidebar, too. Until the session is restored what
`restoreSession` read is the index as it is (`ReadInv`), rebuilt or not: a rebuilt
one is what would be rebuilt again (`IndexReadAgain`). A quit between the two writes
of a job is the `cut` that `Orderly` excludes. The attempt showed a guard of
`RestoreIndex` that was wrong: a launch that finds no conversation at all could not
go on unless the user had already acted.

The assumptions are the named `ASSUME`s of the modules, which the runs evaluate.

Only model-checked: liveness (`RunsEnd`, `DueIsTaken`, `HandlerReturns`,
`ToolsReturn`, `AppReconnects`), since neither fairness nor ENABLED is in the
prover's reach.

## 6. Not modelled

Text, layout and stateless I/O: the parsing of Markdown and the ZIP of a DOCX, the
argument templates of skills, requests without a stream and the catalogue of the
gateway, web and media requests, the Python
sidecar, settings and views. Cryptography is ideal. A hazard without a property:
two gated calls in one task (above), for nothing promises that it ends. Two cores
that write the same files for a moment after a restart are in the plan.
`PROJECT.json` gives the reason for each component.
