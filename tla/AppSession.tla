------------------------------ MODULE AppSession ------------------------------
(***************************************************************************)
(* The app and the core it runs: polling, boot ids, restarting the core       *)
(* (AppModel.pollHealth, fetchBootId, restartCore, SpineController), and the  *)
(* sheet that asks for approval (approve, mintAndRun, deny). Handlers of the  *)
(* main actor run to their next await; polls begin every second and overlap. *)
(* A core is its number: its token, approval key and boot id are its own.     *)
(***************************************************************************)
EXTENDS Naturals, Sequences

CONSTANTS Polls,      \* polls under way at once
          MaxCores,   \* bound: cores started
          MaxPends,   \* bound: actions that wait for approval, over a behaviour
          MaxPrompts  \* bound: prompts for authentication, over a behaviour

ASSUME SessionAssumption == MaxCores \in Nat \ {0} /\ MaxPends \in Nat /\ MaxPrompts \in Nat

VARIABLES
    spawned,   \* cores started; the app holds the secrets of the last one
    cores,     \* core -> "none", "starting", "up" or "down"
    socket,    \* the core the path of the socket leads to, NoCore if none
    connected, bootId,
    prevBoot,  \* restartPreviousBootId
    poll,      \* the polls
    sending,
    going,     \* streams of runs that may still pend
    closing,   \* streams of runs that pended and are not closed
    pending,   \* the action that waits, NoAction if none
    pends,     \* actions that have waited so far
    prompts,   \* prompt -> the action it shows, NoAction once it is answered
    minted,    \* history: tokens minted
    refused,   \* history: actions denied or dropped
    stale,     \* history: a boot id was taken that a poll had asked for before a restart
    hasty      \* history: a core was replaced before it had bound its socket

coreVars    == <<spawned, cores, socket>>
linkVars    == <<connected, bootId, prevBoot, poll, stale, hasty>>
consentVars == <<sending, going, closing, pending, pends, prompts, minted, refused>>
sessionVars == <<coreVars, linkVars, consentVars>>

NoCore   == 0      \* also the empty boot id
NoPrev   == MaxCores + 1
NoAction == 0
NoPoll   == [at |-> "idle", conn |-> NoCore, tok |-> NoCore, got |-> NoCore]
Streams  == going + closing

SessionInit ==
    /\ spawned = 1 /\ socket = NoCore
    /\ cores = [c \in 1..MaxCores |-> IF c = 1 THEN "starting" ELSE "none"]
    /\ connected = FALSE /\ bootId = NoCore /\ prevBoot = NoPrev
    /\ poll = [q \in Polls |-> NoPoll] /\ stale = FALSE /\ hasty = FALSE
    /\ sending = FALSE /\ going = 0 /\ closing = 0
    /\ pending = NoAction /\ pends = 0 /\ prompts = <<>> /\ minted = <<>> /\ refused = {}

(***************************************************************************)
(* The cores                                                               *)
(***************************************************************************)

\* A core unlinks whatever is at the path and binds it.
Binds(c) ==
    /\ cores[c] = "starting"
    /\ cores' = [cores EXCEPT ![c] = "up"] /\ socket' = c
    /\ UNCHANGED <<spawned, linkVars, consentVars>>

\* A core that was terminated goes in the end; any core may crash. Nobody starts
\* it again.
Dies(c) ==
    /\ cores[c] \in {"starting", "up"}
    /\ cores' = [cores EXCEPT ![c] = "down"]
    /\ socket' = IF socket = c THEN NoCore ELSE socket
    /\ UNCHANGED <<spawned, linkVars, consentVars>>

(***************************************************************************)
(* Polling                                                                 *)
(***************************************************************************)

PollStart(q) ==
    /\ poll[q] = NoPoll /\ socket # NoCore
    /\ poll' = [poll EXCEPT ![q].at = "health", ![q].conn = socket]
    /\ UNCHANGED <<coreVars, connected, bootId, prevBoot, stale, hasty, consentVars>>

\* /healthz asks for no token, so a core that is about to go answers as well.
HealthAnswered(q) ==
    /\ poll[q].at = "health"
    /\ poll' = IF cores[poll[q].conn] = "up" THEN [poll EXCEPT ![q].at = "healthy"]
               ELSE [poll EXCEPT ![q] = NoPoll]
    /\ UNCHANGED <<coreVars, connected, bootId, prevBoot, stale, hasty, consentVars>>

\* Back on the main actor; the token is that of the newest core.
HealthSeen(q) ==
    /\ poll[q].at = "healthy"
    /\ poll' = IF connected THEN [poll EXCEPT ![q] = NoPoll]
               ELSE [poll EXCEPT ![q].at = "fetch", ![q].conn = socket, ![q].tok = spawned]
    /\ UNCHANGED <<coreVars, connected, bootId, prevBoot, stale, hasty, consentVars>>

\* A core tells its boot id to whoever has its token.
FetchAnswered(q) ==
    /\ poll[q].at = "fetch"
    /\ poll' = [poll EXCEPT ![q].at = "fetched",
                            ![q].got = IF poll[q].conn = poll[q].tok /\ cores[poll[q].conn] = "up"
                                       THEN poll[q].conn ELSE NoCore]
    /\ UNCHANGED <<coreVars, connected, bootId, prevBoot, stale, hasty, consentVars>>

FetchSeenEmpty(q) ==
    /\ poll[q].at = "fetched"
    /\ bootId' = IF poll[q].got = NoCore THEN bootId ELSE poll[q].got
    /\ stale' = (stale \/ (poll[q].got # NoCore /\ poll[q].tok # spawned))
    /\ \/ /\ prevBoot = NoPrev \/ bootId' # prevBoot
          /\ connected' = TRUE /\ prevBoot' = NoPrev
       \/ /\ prevBoot # NoPrev /\ bootId' = prevBoot
          /\ UNCHANGED <<connected, prevBoot>>
    /\ poll' = [poll EXCEPT ![q] = NoPoll]
    /\ UNCHANGED <<coreVars, hasty, consentVars>>

\* The boot id is kept if there was an answer; while a core is being replaced, only
\* an id that is not the old one's makes the app connected.
FetchSeen(q) ==
    /\ poll[q].at = "fetched"
    /\ bootId' = IF poll[q].got = NoCore THEN bootId ELSE poll[q].got
    /\ stale' = (stale \/ (poll[q].got # NoCore /\ poll[q].tok # spawned))
    /\ \/ /\ prevBoot = NoPrev \/ bootId' \notin {NoCore, prevBoot}
          /\ connected' = TRUE /\ prevBoot' = NoPrev
       \/ /\ prevBoot # NoPrev /\ bootId' \in {NoCore, prevBoot}
          /\ UNCHANGED <<connected, prevBoot>>
    /\ poll' = [poll EXCEPT ![q] = NoPoll]
    /\ UNCHANGED <<coreVars, hasty, consentVars>>

PollStep(q) == HealthAnswered(q) \/ HealthSeen(q) \/ FetchAnswered(q) \/ FetchSeen(q)

\* What waits for approval is dropped, if anything does.
Dropped == refused' = refused \cup ({pending} \ {NoAction}) /\ pending' = NoAction

\* restartCore: not during a reply. The old core is sent SIGTERM, the path of the
\* socket is removed, and a new core is started with secrets of its own.
RestartCore ==
    /\ ~sending /\ spawned < MaxCores
    /\ Dropped
    /\ connected' = FALSE /\ prevBoot' = bootId /\ bootId' = NoCore
    /\ spawned' = spawned + 1 /\ socket' = NoCore
    /\ cores' = [cores EXCEPT ![spawned'] = "starting"]
    /\ hasty' = (hasty \/ cores[spawned] = "starting")
    /\ UNCHANGED <<poll, stale, sending, going, closing, pends, prompts, minted>>

(***************************************************************************)
(* Runs and approvals                                                      *)
(***************************************************************************)

\* send: a message may be sent with something pending, and by the keyboard when
\* not connected.
Send ==
    /\ ~sending /\ Streams < 2
    /\ sending' = TRUE /\ going' = going + 1
    /\ UNCHANGED <<coreVars, linkVars, closing, pending, pends, prompts, minted, refused>>

\* handleSSE: a run ends pending; its action takes the place of one that waits.
RunPends ==
    /\ going > 0 /\ pends < MaxPends
    /\ going' = going - 1 /\ closing' = closing + 1
    /\ pends' = pends + 1 /\ pending' = pends + 1
    /\ refused' = refused \cup ({pending} \ {NoAction})
    /\ UNCHANGED <<coreVars, linkVars, sending, prompts, minted>>

StreamCloses ==
    /\ \/ going > 0 /\ going' = going - 1 /\ UNCHANGED closing
       \/ closing > 0 /\ closing' = closing - 1 /\ UNCHANGED going
    /\ sending' = FALSE
    /\ UNCHANGED <<coreVars, linkVars, pending, pends, prompts, minted, refused>>

\* newChat, or another conversation adopted: the bubbles of streams still open are
\* gone, and handleSSE ignores what comes for a bubble that is gone.
LeavesChat ==
    /\ ~sending /\ (pending # NoAction \/ going > 0)
    /\ Dropped /\ going' = 0 /\ closing' = Streams
    /\ UNCHANGED <<coreVars, linkVars, sending, pends, prompts, minted>>

Deny ==
    /\ pending # NoAction /\ Dropped
    /\ UNCHANGED <<coreVars, linkVars, sending, going, closing, pends, prompts, minted>>

\* approve: a prompt that shows the action, or a refusal on a Mac that has none.
\* The button stays, so that there may be several prompts.
Approve ==
    /\ pending # NoAction
    /\ \/ /\ Len(prompts) < MaxPrompts
          /\ prompts' = Append(prompts, pending) /\ UNCHANGED <<pending, refused>>
       \/ prompts = <<>> /\ Dropped /\ UNCHANGED prompts
    /\ UNCHANGED <<coreVars, linkVars, sending, going, closing, pends, minted>>

Answered(i) == prompts' = [prompts EXCEPT ![i] = NoAction]
Token(shown) == [shown |-> shown, action |-> pending, key |-> spawned, boot |-> bootId]

MintAndRunKeeping(shown) ==
    \/ /\ pending = NoAction \/ bootId = NoCore
       /\ Dropped /\ UNCHANGED <<minted, sending, going>>
    \/ /\ pending # NoAction /\ bootId # NoCore
       /\ minted' = Append(minted, Token(shown))
       /\ sending' = TRUE /\ going' = going + 1
       /\ UNCHANGED <<pending, refused>>

\* mintAndRun: whatever is pending now is approved, and its run repeated.
MintAndRun(shown) ==
    \/ /\ pending = NoAction \/ bootId = NoCore
       /\ Dropped /\ UNCHANGED <<minted, sending, going>>
    \/ /\ pending # NoAction /\ bootId # NoCore
       /\ minted' = Append(minted, Token(shown)) /\ pending' = NoAction
       /\ sending' = TRUE /\ going' = going + 1
       /\ UNCHANGED refused

\* The callbacks of a prompt: success, or a refusal that drops whatever is pending.
PromptPassed(i) ==
    /\ prompts[i] # NoAction /\ Answered(i)
    /\ MintAndRun(prompts[i])
    /\ UNCHANGED <<coreVars, linkVars, closing, pends>>
PromptFailed(i) ==
    /\ prompts[i] # NoAction /\ Answered(i)
    /\ Dropped
    /\ UNCHANGED <<coreVars, linkVars, sending, going, closing, pends, minted>>

SessionNext ==
    \/ \E c \in 1..MaxCores : Binds(c) \/ Dies(c)
    \/ \E q \in Polls : PollStart(q) \/ PollStep(q)
    \/ RestartCore
    \/ Send \/ RunPends \/ StreamCloses
    \/ LeavesChat \/ Deny \/ Approve
    \/ \E i \in DOMAIN prompts : PromptPassed(i) \/ PromptFailed(i)

\* The timer fires, the main actor goes on, a core that runs answers, binds its
\* socket, and goes once it is terminated.
SessionFairness ==
    /\ \A q \in Polls : WF_sessionVars(PollStart(q)) /\ WF_sessionVars(PollStep(q))
    /\ \A c \in 1..MaxCores : WF_sessionVars(Binds(c)) /\ WF_sessionVars(c < spawned /\ Dies(c))
SessionSpec == SessionInit /\ [][SessionNext]_sessionVars /\ SessionFairness

(***************************************************************************)
(* Properties                                                              *)
(***************************************************************************)

SessionTypeOK ==
    /\ spawned \in 1..MaxCores /\ socket \in 0..MaxCores
    /\ cores \in [1..MaxCores -> {"none", "starting", "up", "down"}]
    /\ bootId \in 0..MaxCores /\ prevBoot \in 0..NoPrev
    /\ poll \in [Polls -> [at : {"idle", "health", "healthy", "fetch", "fetched"},
                            conn : 0..MaxCores, tok : 0..MaxCores, got : 0..MaxCores]]
    /\ {connected, sending, stale, hasty} \subseteq BOOLEAN
    /\ pends \in 0..MaxPends /\ pending \in 0..MaxPends /\ refused \subseteq 1..MaxPends
    /\ prompts \in Seq(0..MaxPends)

\* An action that waited once is approved at most once, and never after it was
\* denied, cancelled, or dropped with its conversation or its core, however many
\* prompts for it are open and in whatever order they are answered; and a token
\* names the core whose key it is signed with (approve, mintAndRun, deny,
\* restartCore). Left out is an id that a poll had asked for before a restart
\* (`stale`).
ConsentHolds ==
    /\ \A i, j \in DOMAIN minted : minted[i].action = minted[j].action => i = j
    /\ \A i \in DOMAIN minted : minted[i].action \notin refused
    /\ ~stale => \A i \in DOMAIN minted : minted[i].key = minted[i].boot

\* 2026-06-15-ginexus-master-design.md:200: "the previewed payload is byte-identical
\* to the executed payload", said of every token: it is for the action whose prompt
\* was passed.
ShownIsMinted == \A i \in DOMAIN minted : minted[i].action = minted[i].shown

\* However often the core is restarted, the app ends up connected to the newest one
\* and knows its boot id, unless that core dies (pollHealth, fetchBootId,
\* restartCore). Two cases are left out, both of a core replaced before it had
\* answered: the id of the dying core arrives late (`stale`), or the dying core
\* binds the path after the new one (`hasty`).
Reconnects ==
    <>[](stale \/ hasty \/ cores[spawned] = "down" \/ (connected /\ bootId = spawned))
=============================================================================
