------------------------------- MODULE ToolHost -------------------------------
(***************************************************************************)
(* The tools that leave the core: how the registry is filled at boot, and    *)
(* what a call does that runs a skill's command, asks an MCP server or asks   *)
(* the app over the bridge. Calls run on the blocking pool, one thread each.  *)
(* A tool's name is the sequence of its parts between dots.                   *)
(***************************************************************************)
EXTENDS Naturals, Sequences

CONSTANTS Clients,    \* runs that call tools
          BootPlans,  \* what may be found at boot: sequences of steps
          Remotes,    \* names an MCP server may list
          MaxToolCalls, \* bound: calls of a behaviour
          MaxOwn      \* bound: messages an MCP server sends of its own accord

ASSUME ToolHostAssumption == MaxToolCalls \in Nat /\ MaxOwn \in Nat
ASSUME RemotesAssumption  == Remotes \subseteq Seq(STRING) \ {<<>>}

\* What may be found at boot. The core registers its own tools first, and their
\* names have no dot.
Name == Seq(STRING) \ {<<>>}
Step == [kind : {"core", "bridge"}, name : Name, irreversible : BOOLEAN]
        \cup [kind : {"skill"}, name : Name, exec : {"vouched", "other", "invalid"}, auto : BOOLEAN]
        \cup [kind : {"mcp"}, prefix : STRING, mute : BOOLEAN]
ASSUME BootAssumption ==
    /\ BootPlans \subseteq Seq(Step)
    /\ \A p \in BootPlans : \A j \in DOMAIN p :
          p[j].kind = "core" => Len(p[j].name) = 1 /\ \A i \in 1..j : p[i].kind = "core"

VARIABLES
    plan,      \* the steps of this boot
    booted,    \* how many are done
    registry,  \* name -> who made the tool, and whether it is irreversible
    call,      \* what each client is waiting for
    serial,    \* calls so far
    answers,   \* history: successful calls, with the call the answer was made for
    mcp,       \* the MCP client's Mutex and counter, its server and the pipe
    host,      \* the app's tool host: up, the calls it was sent, what it replies to
    done       \* history: calls the app carried out

bootVars == <<plan, booted>>
hostVars == <<mcp, host, done>>
toolVars == <<bootVars, registry, call, serial, answers, hostVars>>

NoCall  == [st |-> "none"]
NoOne   == "no one"
OwnWord == 0    \* an answer made for no call
ASSUME ClientsAssumption == NoOne \notin Clients

(***************************************************************************)
(* Boot. The steps come in the order of the code: the core's own tools, the  *)
(* operator's MCP server, the commands of the skills, their MCP servers, the  *)
(* bridge.                                                                   *)
(***************************************************************************)

Put(reg, name, tool) == [n \in DOMAIN reg \cup {name} |-> IF n = name THEN tool ELSE reg[n]]
Made(by, irreversible) == [by |-> by, irreversible |-> irreversible]

\* A manifest's "auto" is honoured only for executables the core vouches for; an
\* executable that is relative, missing or inside the skills folder makes no tool.
BuildCommandTool(step) == Made("skill", ~(step.auto /\ step.exec = "vouched"))

\* A command of a skill never replaces a tool.
AddSkillShadowing(reg, step) ==
    IF step.exec = "invalid" THEN reg ELSE Put(reg, step.name, BuildCommandTool(step))
AddSkill(reg, step) ==
    IF step.exec = "invalid" \/ step.name \in DOMAIN reg
    THEN reg ELSE Put(reg, step.name, BuildCommandTool(step))

\* Imported tools do, with the prefix of their server.
ImportMcpTools(reg, prefix, listed) ==
    LET found == {<<prefix>> \o r : r \in listed}
    IN  [n \in DOMAIN reg \cup found |-> IF n \in found THEN Made("mcp", TRUE) ELSE reg[n]]

\* One step. An MCP server answers "initialize" and "tools/list", or fails; a mute
\* one keeps the core from ever listening.
BootStep ==
    /\ booted < Len(plan)
    /\ booted' = booted + 1
    /\ LET step == plan[booted + 1]
       IN  \/ /\ step.kind \in {"core", "bridge"}
              /\ registry' = Put(registry, step.name, Made(step.kind, step.irreversible))
           \/ step.kind = "skill" /\ registry' = AddSkill(registry, step)
           \/ /\ step.kind = "mcp" /\ ~step.mute
              /\ \E listed \in SUBSET Remotes :
                    registry' = ImportMcpTools(registry, step.prefix, listed)
    /\ UNCHANGED <<plan, call, serial, answers, hostVars>>

ToolInit ==
    /\ plan \in BootPlans /\ booted = 0 /\ registry = << >>
    /\ call = [c \in Clients |-> NoCall] /\ serial = 0 /\ answers = {}
    /\ \E mute \in BOOLEAN :
          mcp = [holder |-> NoOne, up |-> TRUE, mute |-> mute, next |-> 0,
                 asked |-> {}, lines |-> <<>>, own |-> 0]
    /\ host = [up |-> TRUE, queue |-> <<>>, acted |-> "no"]
    /\ done = <<>>

(***************************************************************************)
(* Calls                                                                   *)
(***************************************************************************)

StartCall(c, new) ==
    /\ booted = Len(plan) /\ call[c] = NoCall /\ serial < MaxToolCalls
    /\ \E name \in DOMAIN registry : registry[name].by = new.by
    /\ serial' = serial + 1
    /\ call' = [call EXCEPT ![c] = new]
    /\ UNCHANGED <<bootVars, registry, answers>>

Return(c) ==
    /\ call' = [call EXCEPT ![c] = NoCall]
    /\ UNCHANGED <<bootVars, registry, serial>>
ReturnError(c) == Return(c) /\ UNCHANGED answers
ReturnOk(c, madeFor) ==
    Return(c) /\ answers' = answers \cup {[id |-> call[c].id, madeFor |-> madeFor, by |-> call[c].by]}

\* A skill's command leads a process group. It may leave a child behind that
\* keeps the pipes open, in the group or in one of its own.
SkillCall(c) ==
    /\ \E child \in {"none", "grouped", "detached"} :
          StartCall(c, [id |-> serial + 1, by |-> "skill", st |-> "wait", leader |-> TRUE,
                        child |-> child, killed |-> FALSE])
    /\ UNCHANGED hostVars

Edit(c, new) ==
    /\ call' = [call EXCEPT ![c] = new]
    /\ UNCHANGED <<bootVars, registry, serial, answers, hostVars>>
LeaderExits(c) == call[c].st = "wait" /\ call[c].leader /\ Edit(c, [call[c] EXCEPT !.leader = FALSE])
ChildEnds(c) ==
    /\ call[c].st \in {"wait", "join"} /\ call[c].child # "none"
    /\ Edit(c, [call[c] EXCEPT !.child = "none"])
TryWait(c) == call[c].st = "wait" /\ ~call[c].leader /\ Edit(c, [call[c] EXCEPT !.st = "join"])

\* When time is up the whole group is killed.
TimedOutLeaderOnly(c) ==
    /\ call[c].st = "wait" /\ call[c].leader
    /\ Edit(c, [call[c] EXCEPT !.st = "join", !.leader = FALSE, !.killed = TRUE])
TimedOut(c) ==
    /\ call[c].st = "wait" /\ call[c].leader
    /\ Edit(c, [call[c] EXCEPT !.st = "join", !.leader = FALSE, !.killed = TRUE,
                               !.child = IF @ = "grouped" THEN "none" ELSE @])

\* The readers of the pipes are joined before anything is answered.
JoinReaders(c) ==
    /\ call[c].st = "join" /\ call[c].child = "none"
    /\ \/ ~call[c].killed /\ ReturnOk(c, call[c].id)
       \/ ReturnError(c)
    /\ UNCHANGED hostVars

(***************************************************************************)
(* MCP: a request and the wait for its answer hold the Mutex.                *)
(***************************************************************************)

McpCall(c) == StartCall(c, [id |-> serial + 1, by |-> "mcp", st |-> "lock"]) /\ UNCHANGED hostVars

McpRequest(c) ==
    /\ call[c].st = "lock" /\ mcp.holder = NoOne
    /\ \/ /\ mcp' = [mcp EXCEPT !.holder = c, !.next = @ + 1,
                                !.asked = @ \cup {[id |-> mcp.next + 1, madeFor |-> call[c].id]}]
          /\ call' = [call EXCEPT ![c].st = "read"]
          /\ UNCHANGED <<bootVars, registry, serial, answers>>
       \* the pipe to a server that is gone is broken
       \/ ~mcp.up /\ mcp' = [mcp EXCEPT !.next = @ + 1] /\ ReturnError(c)
    /\ UNCHANGED <<host, done>>

ServerAnswers ==
    /\ mcp.up /\ ~mcp.mute
    /\ \E a \in mcp.asked :
          mcp' = [mcp EXCEPT !.asked = @ \ {a}, !.lines = Append(@, a)]
    /\ UNCHANGED <<bootVars, registry, call, serial, answers, host, done>>

\* A notification has no id; a request of the server has one of its own making.
ServerSpeaks ==
    /\ mcp.up /\ mcp.own < MaxOwn
    /\ \E id \in 0..MaxToolCalls :
          mcp' = [mcp EXCEPT !.own = @ + 1, !.lines = Append(@, [id |-> id, madeFor |-> OwnWord])]
    /\ UNCHANGED <<bootVars, registry, call, serial, answers, host, done>>
ServerDies ==
    /\ mcp.up
    /\ mcp' = [mcp EXCEPT !.up = FALSE, !.asked = {}]
    /\ UNCHANGED <<bootVars, registry, call, serial, answers, host, done>>

\* Lines are read until one has the id of the request.
McpReadAny(c) ==
    /\ call[c].st = "read"
    /\ \/ /\ mcp.lines # <<>>
          /\ mcp' = [mcp EXCEPT !.lines = Tail(@), !.holder = NoOne]
          /\ ReturnOk(c, Head(mcp.lines).madeFor)
       \/ /\ mcp.lines = <<>> /\ ~mcp.up
          /\ mcp' = [mcp EXCEPT !.holder = NoOne]
          /\ ReturnError(c)
    /\ UNCHANGED <<host, done>>
McpRead(c) ==
    /\ call[c].st = "read"
    /\ \/ /\ mcp.lines # <<>> /\ Head(mcp.lines).id = mcp.next
          /\ mcp' = [mcp EXCEPT !.lines = Tail(@), !.holder = NoOne]
          /\ ReturnOk(c, Head(mcp.lines).madeFor)
       \/ /\ mcp.lines # <<>> /\ Head(mcp.lines).id # mcp.next
          /\ mcp' = [mcp EXCEPT !.lines = Tail(@)]
          /\ UNCHANGED <<bootVars, registry, call, serial, answers>>
       \/ /\ mcp.lines = <<>> /\ ~mcp.up
          /\ mcp' = [mcp EXCEPT !.holder = NoOne]
          /\ ReturnError(c)
    /\ UNCHANGED <<host, done>>

(***************************************************************************)
(* The bridge: one connection per call, which the app handles one at a time. *)
(***************************************************************************)

BridgeCall(c) ==
    /\ host.up
    /\ StartCall(c, [id |-> serial + 1, by |-> "bridge", st |-> "reply"])
    /\ host' = [host EXCEPT !.queue = Append(@, serial + 1)]
    /\ UNCHANGED <<mcp, done>>

\* The app carries the call out or refuses it, and then replies.
HostActs ==
    /\ host.up /\ host.queue # <<>> /\ host.acted = "no"
    /\ \/ done' = Append(done, Head(host.queue)) /\ host' = [host EXCEPT !.acted = "yes"]
       \/ UNCHANGED done /\ host' = [host EXCEPT !.acted = "refused"]
    /\ UNCHANGED <<bootVars, registry, call, serial, answers, mcp>>

Waiting(c, id) == call[c].st = "reply" /\ call[c].id = id

\* A reply on a connection the core has closed raises SIGPIPE in the app, which
\* may end it.
HostReplies ==
    /\ host.up /\ host.acted # "no"
    /\ LET id   == Head(host.queue)
           next == [host EXCEPT !.queue = Tail(@), !.acted = "no"]
       IN  \/ \E c \in Clients :
                 /\ Waiting(c, id)
                 /\ host' = next
                 /\ IF host.acted = "yes" THEN ReturnOk(c, id) ELSE ReturnError(c)
           \/ /\ \A c \in Clients : ~Waiting(c, id)
              /\ host' \in {next, [host EXCEPT !.up = FALSE, !.queue = <<>>, !.acted = "no"]}
              /\ UNCHANGED <<bootVars, registry, call, serial, answers>>
    /\ UNCHANGED <<mcp, done>>
HostQuits ==
    /\ host.up
    /\ host' = [host EXCEPT !.up = FALSE, !.queue = <<>>, !.acted = "no"]
    /\ UNCHANGED <<bootVars, registry, call, serial, answers, mcp, done>>

\* The core waits thirty seconds for the reply; the connection of an app that is
\* gone ends without one.
BridgeGivesUp(c) ==
    /\ call[c].st = "reply"
    /\ ReturnError(c)
    /\ UNCHANGED hostVars

ToolSteps(c) ==
    TryWait(c) \/ TimedOut(c) \/ JoinReaders(c) \/ McpRequest(c) \/ McpRead(c) \/ BridgeGivesUp(c)
ToolNext ==
    \/ BootStep
    \/ \E c \in Clients :
          \/ SkillCall(c) \/ LeaderExits(c) \/ ChildEnds(c)
          \/ McpCall(c) \/ BridgeCall(c)
          \/ ToolSteps(c)
    \/ ServerAnswers \/ ServerSpeaks \/ ServerDies
    \/ HostActs \/ HostReplies \/ HostQuits

\* The core's threads go on, and a server that is not mute answers.
ToolFairness ==
    /\ WF_toolVars(BootStep) /\ WF_toolVars(ServerAnswers)
    /\ \A c \in Clients : WF_toolVars(ToolSteps(c))
ToolSpec == ToolInit /\ [][ToolNext]_toolVars /\ ToolFairness

(***************************************************************************)
(* Properties                                                              *)
(***************************************************************************)

Calling ==
    LET ids == 1..MaxToolCalls
    IN  {NoCall}
        \cup [id : ids, by : {"skill"}, st : {"wait", "join"}, leader : BOOLEAN,
              child : {"none", "grouped", "detached"}, killed : BOOLEAN]
        \cup [id : ids, by : {"mcp"}, st : {"lock", "read"}]
        \cup [id : ids, by : {"bridge"}, st : {"reply"}]
Reply == [id : Nat, madeFor : 0..MaxToolCalls]

ToolTypeOK ==
    /\ plan \in BootPlans /\ booted \in 0..Len(plan)
    /\ \A n \in DOMAIN registry :
          registry[n] \in [by : {"core", "mcp", "skill", "bridge"}, irreversible : BOOLEAN]
    /\ call \in [Clients -> Calling]
    /\ serial \in 0..MaxToolCalls
    /\ answers \subseteq [id : 1..MaxToolCalls, madeFor : 0..MaxToolCalls,
                         by : {"mcp", "skill", "bridge"}]
    /\ mcp \in [holder : Clients \cup {NoOne}, up : BOOLEAN, mute : BOOLEAN, next : Nat,
                asked : SUBSET Reply, lines : Seq(Reply), own : 0..MaxOwn]
    /\ host \in [up : BOOLEAN, queue : Seq(1..MaxToolCalls), acted : {"no", "yes", "refused"}]
    /\ done \in Seq(1..MaxToolCalls)

\* Whatever skills and MCP servers are installed and in whatever order they are
\* found: no skill's command replaces a tool of the core, and what runs without
\* approval is the core's own, the app's, or a command the core vouches for
\* (load_skills, import_mcp_tools, the registration in main).
RegistryGuarded ==
    \A n \in DOMAIN registry :
        /\ ~registry[n].irreversible =>
              \E i \in DOMAIN plan :
                 /\ plan[i].kind # "mcp" /\ plan[i].name = n
                 /\ \/ plan[i].kind \in {"core", "bridge"} /\ ~plan[i].irreversible
                    \/ plan[i].kind = "skill" /\ plan[i].auto /\ plan[i].exec = "vouched"
        /\ (\E i \in DOMAIN plan : plan[i].kind = "core" /\ plan[i].name = n) =>
              registry[n].by \in {"core", "bridge"}

\* A successful call has the answer made for it, never that of another call, and
\* the app did what it says it did, once: however late replies are, whatever the
\* server says unasked (request, call_app_host). The code takes a request of the
\* server that happens to carry the awaited id for the answer (`OwnWord`).
AnswersMatch ==
    /\ \A a \in answers :
          /\ a.madeFor = a.id \/ (a.by = "mcp" /\ a.madeFor = OwnWord)
          /\ a.by = "bridge" => \E i \in DOMAIN done : done[i] = a.id
    /\ \A i, j \in DOMAIN done : done[i] = done[j] => i = j

\* What a call waits for without a limit: a child of a skill's command that
\* outlives a command which was not killed, or that left its group, and an MCP
\* server that does not answer.
Unbounded(c) ==
    \/ call[c].st = "join" /\ call[c].child # "none" /\ (call[c].killed => call[c].child = "detached")
    \/ call[c].st \in {"lock", "read"} /\ mcp.mute

\* Every call returns, save for those two waits, and the boot comes to an end,
\* save for a mute MCP server: the timeout kills the whole tree of a command, and
\* the Mutex is given up on every path.
CallsReturn ==
    /\ \A c \in Clients : call[c] # NoCall ~> (call[c] = NoCall \/ Unbounded(c))
    /\ <>(booted = Len(plan) \/ (plan[booted + 1].kind = "mcp" /\ plan[booted + 1].mute))
=============================================================================
